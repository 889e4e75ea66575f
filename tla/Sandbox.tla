------------------------------- MODULE Sandbox -------------------------------
(***************************************************************************)
(* sandbox_run as a whole, for one `lsandbox run` and what others do to    *)
(* its directory meanwhile.  The launcher and the group (module Cgroup),   *)
(* child1 (Child) and the removal of the directory (RmTree) go on side by  *)
(* side; this module adds lsandbox_prepare_rootfs_dirs, the log, the exit  *)
(* status on its way to the caller, and what ties the three together: the  *)
(* child reaches everything through sandboxes/<name>/merged_root, so it    *)
(* depends on a directory that `lsandbox delete' may take away, and makes  *)
(* again with mkdir_p what it misses.                                      *)
(***************************************************************************)
EXTENDS Integers, FiniteSets, Sequences

CONSTANTS
  self,          \* the run
  del,           \* an `lsandbox delete' of the same box
  NoRun, Names, Configs, Hosts, MaxPid, PidsMax,                     \* Cgroup
  ChildConfigs, Callers, Resolvs, Refusals, Boxes,                   \* Child
  Prone,         \* of self and del, whose removal may meet other errors
  CommandEnds,   \* how the command may end: exit codes, signals
  Scenes         \* what may come in between (subsets of Events)

\* a signal for the launcher, two other commands, a log that cannot be opened
Events == {"kill", "delete", "clean", "log"}

ASSUME SandboxAssumption ==
  /\ del # self
  /\ MaxPid \in Nat
  /\ CommandEnds \subseteq [how: {"exit"}, n: 0 .. 255] \cup [how: {"signal"}, n: 1 .. 64]
  /\ Prone \subseteq {self, del}
  /\ Scenes \subseteq SUBSET Events

Runs == {self}

(***************************************************************************)
(* The files below sandboxes/<name>.  "file" is what the command writes,   *)
(* "index" the directory overlayfs makes in its work directory, "points"   *)
(* the directories child1 makes as mount points in merged_root when the    *)
(* overlay is not there, "tmp" the three directories of `clean'.           *)
(***************************************************************************)
Root  == "box"
Dirs  == {"box", "upper", "work", "merged", "index", "points", "tmp"}
Nodes == Dirs \cup {"file"}
Parent == [n \in Nodes \ {Root} |-> CASE n = "file"   -> "upper"
                                      [] n = "index"  -> "work"
                                      [] n = "points" -> "merged"
                                      [] OTHER        -> Root]
Procs == {self, del}

VARIABLES
  lcfg, host, dirs, lim, lpc, step, hnd, applied, child, alive, incg, \* Cgroup
  bcfg, caller, resolv, refused, left, bpc, peer, mounts, hostMounts, \* Child
  root, cwd, cred, denied, hostResolv, boxResolv,
  exists, rpc, cur, open, todo, troubled,                             \* RmTree
  scene,    \* what may come in between
  rm,       \* --rm
  phase,    \* where sandbox_run is
  walk,     \* the directories mkdir_p has yet to make, for launcher or child
  lost,     \* what of the overlay was removed while child1 worked on it
  status,   \* how the box ended
  rc,       \* what sandbox_run is going to return
  journal,  \* the lines of this run in the log
  missed,   \* how many lines could not be written
  cpc       \* where `lsandbox clean' is

lvars == <<lcfg, host, dirs, lim, lpc, step, hnd, applied, child, alive, incg>>
bvars == <<bcfg, caller, resolv, refused, left, bpc, peer, mounts, hostMounts,
           root, cwd, cred, denied, hostResolv, boxResolv>>
removers == <<rpc, cur, open, todo, troubled>>
tvars == <<exists, removers>>
given == <<scene, rm>>
log   == <<journal, missed>>
told  == <<status, rc, log>>
vars  == <<lvars, bvars, tvars, given, phase, walk, lost, told, cpc>>

(***************************************************************************)
(* The calls of child1 that fail because of what was removed.  Without the *)
(* overlay merged_root is an empty directory, if it is there at all: it    *)
(* has nothing to execute, and not the working directory of the caller.    *)
(* With the overlay, and its upper or work directory removed beneath it,   *)
(* reading goes on but nothing can be unlinked or written any more.        *)
(***************************************************************************)
Unmounted == "merged" \in lost

Vanished ==
  (IF {"upper", "work", "merged"} \subseteq exists THEN {} ELSE {"overlay"})
    \cup (IF lost # {} /\ ~Unmounted THEN {"unlink", "open"} ELSE {})
    \cup (IF Unmounted THEN {"workdir", "execvp"} ELSE {})
    \cup (IF Unmounted /\ "merged" \notin exists THEN {"chroot"} ELSE {})
    \cup (IF Unmounted /\ "points" \notin exists
          THEN {"proc", "dev", "nodes", "shm", "pts", "run", "open"} ELSE {})

\* nor are the links of earlier runs there without the overlay
Bare == [links |-> {}, resolv |-> "none"]

L == INSTANCE Cgroup WITH cfg <- lcfg, pc <- lpc, Killable <- Runs,
                          Sweeping <- FALSE
B == INSTANCE Child WITH cfg <- bcfg, pc <- bpc, Configs <- ChildConfigs,
                         refused <- refused \cup Vanished,
                         left <- IF Unmounted THEN Bare ELSE left
\* child1 before anything has vanished
B0 == INSTANCE Child WITH cfg <- bcfg, pc <- bpc, Configs <- ChildConfigs
T == INSTANCE RmTree WITH pc <- rpc, made <- {}, Late <- {}, Deletes <- {del}

\* what the parts assume of their constants
ASSUME PartsAssumption == L!CgroupAssumption /\ B0!ChildAssumption

-----------------------------------------------------------------------------
(* Helpers *)

Exited(n)   == [how |-> "exit", n |-> n]
Signaled(n) == [how |-> "signal", n |-> n]
Running     == [how |-> "none", n |-> 0]
SIGKILL == 9
SIGSYS  == 31

Phases == {"prepare", "clone", "log", "supervise", "rm", "returned", "killed"}

TypeOK ==
  /\ L!TypeOK /\ B0!TypeOK /\ T!TypeOK
  /\ phase \in Phases
  /\ walk \in Seq(Nodes \cup {"made"})
  /\ Len(walk) <= 7
  /\ scene \in Scenes
  /\ rm \in BOOLEAN
  /\ lost \subseteq {"upper", "index", "merged"}
  /\ rc \in -1 .. 255
  /\ missed \in 0 .. 2
  /\ cpc \in {"idle", "rm", "mkbox", "mktmp", "over"}

\* mutants: the wait status itself; a signal passed on like an exit code
CodeStatus(s) == IF s.how = "exit" THEN 256 * s.n ELSE s.n
CodeRaw(s) == s.n

\* lsandbox_clone_run, from the wait status
Code(s) == IF s.how = "exit" THEN s.n ELSE 128 + s.n

\* mutant: every end is logged as an exit
LineExit(s) == [line |-> "EXIT", n |-> s.n]

StartLine == [line |-> "START", n |-> 0]
Line(s) == [line |-> IF s.how = "exit" THEN "EXIT" ELSE "SIGNAL", n |-> s.n]

\* logfp opens the log for every line anew, which each time may fail
Logged(entry) ==
  \/ journal' = Append(journal, entry) /\ UNCHANGED missed
  \/ "log" \in scene /\ missed' = missed + 1 /\ UNCHANGED journal

\* lsandbox_mkdir_if_not_exists: EEXIST is fine, ENOENT is not
Above(n) == IF n = Root THEN {} ELSE {Parent[n]}
MkdirWorks(n) == Above(n) \subseteq exists \/ n \in exists

\* mkdir_p makes every component of its path, each time from the top
PrepareOrder == <<"box", "box", "upper", "box", "work", "box", "merged">>
PointsOrder  == <<"box", "merged", "points">>

-----------------------------------------------------------------------------
(* The launcher: sandbox_run and lsandbox_clone_run *)

\* lsandbox_prepare_rootfs_dirs, one mkdir at a time
Prepare ==
  LET n == Head(walk) IN
  /\ phase = "prepare"
  /\ MkdirWorks(n)
  /\ exists' = exists \cup {n}
  /\ walk' = Tail(walk)
  /\ phase' = IF Len(walk) = 1 THEN "clone" ELSE phase
  /\ UNCHANGED <<lvars, bvars, removers, given, lost, told, cpc>>

\* getcwd or setpaths fails before the first mkdir, or a mkdir does, for want of
\* space or of its parent: back to the caller, past --rm
PrepareFails ==
  /\ phase = "prepare"
  /\ walk = PrepareOrder \/ Head(walk) \notin exists
  /\ phase' = "returned" /\ rc' = 1
  /\ walk' = <<>>
  /\ UNCHANGED <<lvars, bvars, tvars, given, lost, status, log, cpc>>

\* mutant: --rm only after success
LeaveTidy(code) ==
  rc' = code /\ phase' = IF rm /\ code = 0 THEN "rm" ELSE "returned"

\* lsandbox_clone_run has returned code
Leave(code) == rc' = code /\ phase' = IF rm THEN "rm" ELSE "returned"

Clone ==
  /\ phase = "clone"
  /\ L!Clone(self)
  /\ phase' = "log"
  /\ UNCHANGED <<bvars, tvars, given, walk, lost, told, cpc>>

CloneFails ==
  /\ phase = "clone"
  /\ L!CloneFails(self)
  /\ Leave(1)
  /\ UNCHANGED <<bvars, tvars, given, walk, lost, status, log, cpc>>

\* lsandbox_log_start
LogStart ==
  /\ phase = "log"
  /\ Logged(StartLine)
  /\ phase' = "supervise"
  /\ UNCHANGED <<lvars, bvars, tvars, given, walk, lost, status, rc, cpc>>

\* lsandbox_cgroup_apply, waitpid, lsandbox_cgroup_cleanup
Supervise ==
  /\ phase = "supervise"
  /\ L!Apply(self) \/ L!Wait(self) \/ L!Cleanup(self)
  /\ UNCHANGED <<bvars, tvars, given, phase, walk, lost, told, cpc>>

\* waitpid told the status, which goes to the log and to the caller
Report ==
  /\ phase = "supervise" /\ lpc[self] = "done" /\ ~lcfg[self].ignchld
  /\ Logged(Line(status))
  /\ Leave(Code(status))
  /\ UNCHANGED <<lvars, bvars, tvars, given, walk, lost, status, cpc>>

\* waitpid failed with ECHILD: nothing is known, nothing is logged
ReportNothing ==
  /\ phase = "supervise" /\ lpc[self] = "done" /\ lcfg[self].ignchld
  /\ Leave(1)
  /\ UNCHANGED <<lvars, bvars, tvars, given, walk, lost, status, log, cpc>>

(***************************************************************************)
(* A step of a remover.  Taking the directories away while the box has its *)
(* overlay mounted is no error: the kernel detaches a mount on merged_root *)
(* that only another mount namespace has.                                  *)
(***************************************************************************)
Removing(p) ==
  /\ T!Remover(p)
  /\ lost' = IF child[self] = "setup" /\ "/" \in mounts /\ root = "host"
             THEN lost \cup ((exists \ exists') \cap {"upper", "index", "merged"})
             ELSE lost

\* lsandbox_cleanup_overlay_dirs: a failure is only a warning
Remove ==
  /\ phase = "rm"
  /\ Removing(self)
  /\ phase' = IF rpc'[self] \in T!Ended THEN "returned" ELSE phase
  /\ UNCHANGED <<lvars, bvars, given, walk, told, cpc>>

\* a signal ends the launcher, wherever it is
Kill ==
  /\ "kill" \in scene
  /\ phase \notin {"returned", "killed"}
  /\ phase' = "killed"
  /\ walk' = IF phase = "prepare" THEN <<>> ELSE walk
  /\ IF lpc[self] \in {"start", "done"} THEN UNCHANGED lvars ELSE L!Killed(self)
  /\ UNCHANGED <<bvars, tvars, given, lost, told, cpc>>

-----------------------------------------------------------------------------
(* The box *)

\* where child1 calls mkdir_p for a directory below merged_root
MkdirSteps == {"proc", "dev", "shm", "pts", "run", "dns"}

InSetUp == child[self] = "setup" /\ bpc \notin B!Ended

\* With the overlay there all of its path exists; without it mkdir_p makes
\* box, merged_root and the mount point anew.
AnewNeeded == Unmounted /\ bpc \in MkdirSteps /\ walk # <<"made">>

Anew ==
  LET todoNow == IF walk = <<>> THEN PointsOrder ELSE walk
      n == Head(todoNow)
  IN
  /\ InSetUp /\ AnewNeeded
  /\ MkdirWorks(n)
  /\ exists' = exists \cup {n}
  /\ walk' = IF Len(todoNow) = 1 THEN <<"made">> ELSE Tail(todoNow)
  /\ UNCHANGED <<lvars, bvars, removers, given, phase, lost, told, cpc>>

\* a component that was there is gone again: only dns1 goes on without
AnewFails ==
  /\ InSetUp /\ AnewNeeded /\ walk # <<>>
  /\ ~MkdirWorks(Head(walk))
  /\ walk' = <<>>
  /\ bpc' = IF bpc = "dns" THEN "chroot" ELSE "exit1"
  /\ UNCHANGED <<lvars, tvars, given, phase, lost, told, cpc, bcfg, caller, resolv,
                 refused, left, peer, mounts, hostMounts, root, cwd, cred, denied,
                 hostResolv, boxResolv>>

\* one step of child1; mounting the overlay makes a directory in work_root
SetUp ==
  /\ InSetUp /\ ~AnewNeeded /\ bpc # "execvp"
  /\ UNCHANGED <<lvars, removers, given, phase, lost, told, cpc, refused, left>>
  /\ walk' = IF bpc \in MkdirSteps THEN <<>> ELSE walk
  /\ exists' = IF bpc = "overlay" /\ B!MayMount /\ B!Works("overlay")
               THEN exists \cup {"index"} ELSE exists
  /\ B!Next

Exec ==
  /\ InSetUp
  /\ UNCHANGED <<tvars, given, phase, walk, lost, told, cpc, refused, left>>
  /\ B!Exec
  /\ IF bpc' = "exec" THEN L!ChildExec(self) ELSE UNCHANGED lvars

\* the init of the box ends: its processes die, its mounts go
Ends(s) ==
  /\ L!InitExit(self)
  /\ status' = s
  /\ walk' = IF phase = "prepare" THEN walk ELSE <<>>
  /\ UNCHANGED <<bvars, tvars, given, phase, lost, rc, log, cpc>>

\* child1 returned, or the filter killed it
SetUpEnds ==
  /\ child[self] = "setup" /\ bpc \in B!Ended
  /\ Ends(CASE bpc = "exit1"   -> Exited(1)
            [] bpc = "exit127" -> Exited(127)
            [] bpc = "killed"  -> Signaled(SIGSYS))

CommandEnd == child[self] = "running" /\ \E s \in CommandEnds : Ends(s)

\* a kill from outside, or for want of memory
Shot == Ends(Signaled(SIGKILL))

\* what the command writes is in upper_root, as long as that exists
Write ==
  /\ child[self] = "running" /\ "upper" \in exists
  /\ exists' = exists \cup {"file"}
  /\ UNCHANGED <<lvars, bvars, removers, given, phase, walk, lost, told, cpc>>

Processes ==
  /\ child[self] = "running"
  /\ L!Fork(self) \/ L!ProcExit(self)
  /\ UNCHANGED <<bvars, tvars, given, phase, walk, lost, told, cpc>>

-----------------------------------------------------------------------------
(* Other commands on the same box *)

Delete ==
  /\ "delete" \in scene
  /\ Removing(del)
  /\ UNCHANGED <<lvars, bvars, given, phase, walk, told, cpc>>

(***************************************************************************)
(* lsandbox_manage_clean: the three directories of the tmp overlay are     *)
(* removed, whether that works or not, and made again with mkdir_p, the    *)
(* box with them if need be.                                               *)
(***************************************************************************)
Clean ==
  /\ "clean" \in scene
  /\ \/ /\ cpc = "idle"
        /\ cpc' = IF Root \in exists THEN "rm" ELSE "over"
        /\ UNCHANGED exists
     \/ cpc = "rm"    /\ cpc' = "mkbox" /\ exists' \in {exists, exists \ {"tmp"}}
     \/ cpc = "mkbox" /\ cpc' = "mktmp" /\ exists' = exists \cup {Root}
     \/ /\ cpc = "mktmp" /\ MkdirWorks("tmp")
        /\ cpc' = "over" /\ exists' = exists \cup {"tmp"}
     \* a mkdir that finds no parent, or no space
     \/ cpc \in {"mkbox", "mktmp"} /\ cpc' = "over" /\ UNCHANGED exists
  /\ UNCHANGED <<lvars, bvars, removers, given, phase, walk, lost, told>>

-----------------------------------------------------------------------------

\* a new box, or one that an earlier run has left
Init ==
  /\ L!Init /\ B0!Init
  /\ exists \in {{}, {"box", "upper", "work", "merged", "index", "file"}}
  /\ exists = {} => left = B0!NewBox
  /\ rpc = [p \in Procs |-> "idle"]
  /\ cur = [p \in Procs |-> Root]
  /\ open = [p \in Procs |-> {}]
  /\ todo = [p \in Procs |-> [d \in Dirs |-> {}]]
  /\ troubled = {}
  /\ scene \in Scenes /\ rm \in BOOLEAN
  /\ phase = "prepare"
  /\ walk = PrepareOrder
  /\ lost = {}
  /\ status = Running /\ rc = -1
  /\ journal = <<>> /\ missed = 0
  /\ cpc = "idle"

Launcher == \/ Prepare \/ PrepareFails \/ Clone \/ CloneFails \/ LogStart
            \/ Supervise \/ Report \/ ReportNothing \/ Remove

Box == \/ Anew \/ AnewFails \/ SetUp \/ Exec \/ SetUpEnds \/ CommandEnd
       \/ Shot \/ Write \/ Processes

Over == /\ phase \in {"returned", "killed"} /\ alive[self] = {}
        /\ UNCHANGED vars

Next == Launcher \/ Kill \/ Box \/ Delete \/ Clean \/ Over

Spec == Init /\ [][Next]_vars

\* The launcher and the removals it does are scheduled; nothing is assumed of
\* the box and of the other commands.
FairSpec == Spec /\ WF_vars(Launcher)

-----------------------------------------------------------------------------
(* Properties *)

RunOf == CASE phase = "returned" -> "returned"
           [] phase = "killed"   -> "gone"
           [] OTHER              -> "called"

BoxOf == CASE child[self] = "none"    -> "none"
           [] child[self] = "setup"   -> "setup"
           [] child[self] = "running" -> "command"
           [] OTHER                 -> "over"

SetUpEndings == {Exited(1), Exited(127), Signaled(SIGSYS), Signaled(SIGKILL)}

C == INSTANCE Contract WITH
       waits <- ~lcfg[self].ignchld, run <- RunOf, box <- BoxOf, out <- status,
       rc <- IF phase = "returned" THEN rc ELSE -1,
       SetupOutcomes <- SetUpEndings,
       Outcomes <- SetUpEndings \cup CommandEnds

(***************************************************************************)
(* sandbox_run keeps the contract of its caller, though a delete or a      *)
(* clean of the same box may change the directory under it at any moment,  *)
(* and though preparation, clone, log, group and removal may fail.         *)
(***************************************************************************)
KeepsContract == C!Spec

(***************************************************************************)
(* --rm does not take the files from under a box that is still alive, and  *)
(* comes after the cleanup of the group: that is gone by then, unless it   *)
(* was to be kept or waitpid failed, after which nothing is cleaned up.    *)
(***************************************************************************)
RemovedAfterBox ==
  T!Active(self) =>
    /\ alive[self] = {} /\ child[self] \in {"none", "reaped"}
    /\ lpc[self] = "done"
    /\ lcfg[self].keep \/ lcfg[self].ignchld \/ lcfg[self].name \notin dirs

(***************************************************************************)
(* When nobody else works on the box, a run with --rm that got as far as   *)
(* clone leaves nothing of it behind, whatever failed after that, unless   *)
(* the removal itself meets an error.                                      *)
(***************************************************************************)
RmClean ==
  /\ rpc[del] = "idle" /\ cpc = "idle" /\ troubled = {}
  /\ phase = "returned" /\ rm /\ lpc[self] = "done"
  => exists = {}

(***************************************************************************)
(* The log tells the truth: at most one START and at most one end, in that *)
(* order; the end is the one the box really had, of which the log says     *)
(* nothing before it, nor when waitpid failed; and a run that returned has *)
(* both but for the lines for which the log could not be opened.           *)
(***************************************************************************)
EndLine ==
  [line |-> IF status.how = "signal" THEN "SIGNAL" ELSE "EXIT", n |-> status.n]

Told == child[self] = "reaped" /\ ~lcfg[self].ignchld

JournalTrue ==
  /\ journal \in {<<>>, <<StartLine>>} \/
       (Told /\ journal \in {<<EndLine>>, <<StartLine, EndLine>>})
  /\ journal # <<>> => child[self] # "none"
  /\ phase = "returned" /\ child[self] # "none" =>
       Len(journal) + missed = IF Told THEN 2 ELSE 1

\* once the box is over the run comes back, with --rm as without
RunReturns == status # Running ~> phase \in {"returned", "killed"}

-----------------------------------------------------------------------------
(* What the documents say and the code does not keep *)

(***************************************************************************)
(* "With --rm, sandboxes/<name> is removed after the box has ended": even  *)
(* when a delete was given for the same box.                               *)
(***************************************************************************)
RmLeavesNothing ==
  phase = "returned" /\ rm /\ child[self] = "reaped" /\ rpc[del] \in {"idle"} \cup T!Ended
    => Root \notin exists
=============================================================================
