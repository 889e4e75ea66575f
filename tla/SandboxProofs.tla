---------------------------- MODULE SandboxProofs ----------------------------
(***************************************************************************)
(* Proofs about Sandbox, for any configurations, hosts, refusals, ends of  *)
(* the command and scenes: a run implements Contract, and the log tells    *)
(* the truth.  Neither depends on what is in the directory of the box, and *)
(* so on delete and clean: what they need is how phase, the launcher of    *)
(* Cgroup and its child go together (Supervision), and that a box that is  *)
(* over has a known end.                                                   *)
(***************************************************************************)
EXTENDS Sandbox, SequenceTheorems, TLAPS

ChildStates == {"none", "setup", "running", "zombie", "reaped"}

Shapes ==
  /\ phase \in Phases
  /\ child \in [Runs -> ChildStates]
  /\ alive \in [Runs -> SUBSET L!Pid]
  /\ lpc \in [Runs -> L!PCs]
  /\ applied \in [Runs -> {"pending", "ok", "failed"}]
  /\ rpc \in [Procs -> {"idle", "lstat", "unlink", "opendir", "next", "rmdir",
                        "ok", "failed"}]

Supervision ==
  /\ phase \in {"prepare", "clone"} => child[self] = "none" /\ lpc[self] = "start"
  /\ phase \in {"log", "supervise"} => child[self] # "none"
  /\ phase \in {"log", "supervise"} /\ lpc[self] = "done" => child[self] = "reaped"
  /\ lpc[self] \in {"start"} \cup L!InApply => applied[self] = "pending"
  /\ lpc[self] \in L!InCleanup /\ applied[self] # "pending" => child[self] = "reaped"

\* init ends last, its end is known, and the command starts once
Lives ==
  /\ alive[self] # {} => child[self] \in {"setup", "running"}
  /\ child[self] \in {"zombie", "reaped"} => status.how \in {"exit", "signal"}
  /\ bpc = "exec" => child[self] \notin {"none", "setup"}

\* what the caller is going to get
Due == IF child[self] = "none" \/ lcfg[self].ignchld THEN 1 ELSE Code(status)

Leaving ==
  /\ phase \in {"rm", "returned"} => child[self] \in {"none", "reaped"} /\ rc = Due
  /\ phase = "rm" => lpc[self] = "done"

Removal ==
  rpc[self] # "idle" =>
    /\ phase \in {"rm", "returned", "killed"}
    /\ child[self] \in {"none", "reaped"} /\ lpc[self] = "done"

IInv == Shapes /\ Supervision /\ Lives /\ Leaving /\ Removal

-----------------------------------------------------------------------------
(* What the steps of the parts do to the state the invariant is about *)

\* the launcher reaps, or leaves child and box alone
LEMMA SuperviseFacts ==
  ASSUME Shapes, Supervision, Supervise
  PROVE  /\ lcfg' = lcfg /\ alive' = alive
         /\ Shapes' /\ Supervision'
         /\ \/ child' = child
            \/ child[self] = "zombie" /\ child'[self] = "reaped"
<1> USE DEF Shapes, Runs, ChildStates
<1>0. phase = "supervise" /\ phase' = phase /\ rpc' = rpc
  BY DEF Supervise, tvars, removers
<1>1. CASE L!Apply(self)
  <2>1. /\ lcfg' = lcfg /\ alive' = alive /\ child' = child
        /\ lpc[self] \in L!InApply
    BY <1>1 DEF L!Apply, L!CheckHost, L!StatOld, L!RmOld, L!Mkdir, L!MkdirFails,
      L!StatFile, L!OpenFile, L!Flush, L!procVars, L!InApply
  <2>2. /\ lpc' \in [Runs -> L!PCs] /\ lpc'[self] \notin {"start", "done"}
        /\ applied' \in [Runs -> {"pending", "ok", "failed"}]
        /\ lpc'[self] \in L!InApply \cup L!InCleanup => applied' = applied
    BY <1>1 DEF L!Apply, L!CheckHost, L!StatOld, L!RmOld, L!Mkdir, L!MkdirFails,
      L!StatFile, L!OpenFile, L!Flush, L!GiveUp, L!Undo, L!NextFile, L!Goto,
      L!InApply, L!InCleanup, L!PCs
  <2> QED BY <1>0, <2>1, <2>2 DEF Supervision, L!InApply, L!InCleanup
<1>2. CASE L!Wait(self)
  <2>1. /\ lcfg' = lcfg /\ alive' = alive /\ applied' = applied
        /\ child[self] = "zombie" /\ child' = [child EXCEPT ![self] = "reaped"]
        /\ lpc' \in [Runs -> L!PCs] /\ lpc'[self] \in {"done", "cstat"}
    BY <1>2 DEF L!Wait, L!Goto, L!PCs, L!InCleanup
  <2> QED BY <1>0, <2>1 DEF Supervision, L!InApply, L!InCleanup
<1>3. CASE L!Cleanup(self)
  <2>1. /\ lcfg' = lcfg /\ alive' = alive /\ child' = child
        /\ lpc[self] \in L!InCleanup
    BY <1>3 DEF L!Cleanup, L!CleanStat, L!CleanProcs, L!CleanRmdir, L!procVars,
      L!InCleanup
  <2>2. /\ lpc' \in [Runs -> L!PCs] /\ lpc'[self] \in {"wait", "done"} \cup L!InCleanup
        /\ applied' \in [Runs -> {"pending", "ok", "failed"}]
        /\ lpc'[self] = "done" => applied[self] # "pending"
        /\ lpc'[self] \in L!InCleanup => applied' = applied
    BY <1>3 DEF L!Cleanup, L!CleanStat, L!CleanProcs, L!CleanRmdir,
      L!CleanupReturns, L!GiveUp, L!Goto, L!InCleanup, L!PCs
  <2> QED BY <1>0, <2>1, <2>2 DEF Supervision, L!InApply, L!InCleanup
<1> QED BY <1>1, <1>2, <1>3 DEF Supervise

\* every end of a box is an exit or a signal, and has the same code for everybody
LEMMA EndingFacts ==
  ASSUME NEW s \in SetUpEndings \cup CommandEnds
  PROVE  s.how \in {"exit", "signal"}
BY SandboxAssumption DEF SetUpEndings, Exited, Signaled

\* the end of init ends the box, with an end that fits how far it was
LEMMA EndFacts ==
  ASSUME Shapes, Lives, SetUpEnds \/ CommandEnd \/ Shot
  PROVE  /\ UNCHANGED <<lcfg, lpc, applied, rpc, phase, rc, log, given, bpc>>
         /\ child[self] \in {"setup", "running"}
         /\ child' = [child EXCEPT ![self] = "zombie"]
         /\ alive' = [alive EXCEPT ![self] = {}]
         /\ status' \in SetUpEndings \cup CommandEnds
         /\ child[self] = "setup" => status' \in SetUpEndings
<1>1. ASSUME NEW s, Ends(s)
      PROVE  /\ UNCHANGED <<lcfg, lpc, applied, rpc, phase, rc, log, given, bpc>>
             /\ child[self] \in {"setup", "running"}
             /\ child' = [child EXCEPT ![self] = "zombie"]
             /\ alive' = [alive EXCEPT ![self] = {}]
             /\ status' = s
  BY <1>1 DEF Ends, L!InitExit, L!CloneFlags, bvars, tvars, removers, given
<1>2. CASE SetUpEnds
  <2>1. child[self] = "setup" /\ bpc \in {"exit1", "exit127", "killed"}
    BY <1>2 DEF SetUpEnds, Lives, B!Ended
  <2>2. PICK s \in {Exited(1), Exited(127), Signaled(SIGSYS)} : Ends(s)
    BY <1>2, <2>1 DEF SetUpEnds
  <2> QED BY <2>2, <1>1 DEF SetUpEndings
<1>3. CASE CommandEnd
  <2>1. PICK s \in CommandEnds : Ends(s)
    BY <1>3 DEF CommandEnd
  <2>2. child[self] = "running"
    BY <1>3 DEF CommandEnd
  <2> QED BY <2>1, <2>2, <1>1
<1>4. CASE Shot
  BY <1>4, <1>1 DEF Shot, SetUpEndings
<1> QED BY <1>2, <1>3, <1>4

\* a step of the box: it goes on, its command starts, or it ends
LEMMA BoxFacts ==
  ASSUME Shapes, Lives, Box
  PROVE  /\ UNCHANGED <<lcfg, lpc, applied, rpc, phase, rc, log, given>>
         /\ Shapes' /\ Lives'
         /\ \/ child' = child /\ status' = status
            \/ child[self] = "setup" /\ child'[self] = "running" /\ status' = status
            \/ /\ child[self] \in {"setup", "running"} /\ child'[self] = "zombie"
               /\ status' \in SetUpEndings \cup CommandEnds
               /\ child[self] = "setup" => status' \in SetUpEndings
<1> USE DEF Shapes, Runs, ChildStates
<1>1. ASSUME Anew \/ AnewFails \/ SetUp \/ Write
      PROVE  /\ UNCHANGED <<lcfg, lpc, applied, rpc, phase, rc, log, given>>
             /\ child' = child /\ status' = status /\ alive' = alive
             /\ bpc' = "exec" => bpc = "exec"
  <2>1. /\ UNCHANGED <<lcfg, lpc, applied, rpc, phase, rc, log, given>>
        /\ child' = child /\ status' = status /\ alive' = alive
    BY <1>1 DEF Anew, AnewFails, SetUp, Write, lvars, tvars, removers, told, given
  <2>2. ASSUME SetUp, bpc' = "exec" PROVE bpc = "exec"
    BY <2>2 DEF SetUp, InSetUp, B!Next, B!SetHostname, B!MakePrivate,
      B!MountOverlay, B!MountProc, B!MountDev, B!MakeNodes, B!MountShm, B!MountPts,
      B!MountRun, B!SetupResolv, B!Chroot, B!Chdir, B!SetGroups, B!SetGid,
      B!SetUid, B!InstallFilter, B!Exec, B!Over, B!MountStep, B!OrExit1, B!Stops,
      B!AfterChdir, B!Goto, B!At, B!Ended, B!vars
  <2>3. ASSUME Anew \/ AnewFails \/ Write, bpc' = "exec" PROVE bpc = "exec"
    BY <2>3 DEF Anew, AnewFails, Write, bvars
  <2> QED BY <1>1, <2>1, <2>2, <2>3
<1>2. ASSUME Exec
      PROVE  /\ UNCHANGED <<lcfg, lpc, applied, rpc, phase, rc, log, given>>
             /\ status' = status /\ alive' = alive /\ child[self] = "setup"
             /\ \/ bpc' = "exec" /\ child' = [child EXCEPT ![self] = "running"]
                \/ bpc' # "exec" /\ child' = child
  BY <1>2 DEF Exec, InSetUp, L!ChildExec, lvars, tvars, removers, told, given
<1>3. ASSUME Processes
      PROVE  /\ UNCHANGED <<lcfg, lpc, applied, rpc, phase, rc, log, given>>
             /\ child' = child /\ status' = status /\ bpc' = bpc
             /\ child[self] = "running" /\ alive' \in [Runs -> SUBSET L!Pid]
  BY <1>3 DEF Processes, L!Fork, L!ProcExit, bvars, tvars, removers, told, given
<1>4. CASE Anew \/ AnewFails \/ SetUp \/ Write
  BY <1>1, <1>4 DEF Lives
<1>5. CASE Exec
  BY <1>2, <1>5 DEF Lives
<1>6. CASE Processes
  BY <1>3, <1>6 DEF Lives
<1>7. CASE SetUpEnds \/ CommandEnd \/ Shot
  <2>1. status'.how \in {"exit", "signal"}
    BY <1>7, EndFacts, EndingFacts
  <2> QED BY <1>7, <2>1, EndFacts DEF Lives
<1> QED BY <1>4, <1>5, <1>6, <1>7 DEF Box

\* a step of a remover moves that remover only
LEMMA RemoverFacts ==
  ASSUME Shapes, NEW p \in Procs, T!Remover(p)
  PROVE  /\ rpc' \in [Procs -> {"idle", "lstat", "unlink", "opendir", "next",
                                "rmdir", "ok", "failed"}]
         /\ \A q \in Procs \ {p} : rpc'[q] = rpc[q]
         /\ rpc'[p] # "idle"
BY DEF Shapes, T!Remover, T!Start, T!Lstat, T!Unlink, T!Opendir,
  T!NextEntry, T!Rmdir, T!Return, T!Trouble, T!Fail, T!Goto

-----------------------------------------------------------------------------
(* The invariant *)

LEMMA InitIInv == Init => IInv
<1> SUFFICES ASSUME Init PROVE IInv OBVIOUS
<1>1. /\ phase = "prepare" /\ bpc = "sethostname"
      /\ child = [r \in Runs |-> "none"] /\ alive = [r \in Runs |-> {}]
      /\ lpc = [r \in Runs |-> "start"] /\ applied = [r \in Runs |-> "pending"]
      /\ rpc = [p \in Procs |-> "idle"]
  BY DEF Init, L!Init, B0!Init
<1>2. Shapes
  BY <1>1 DEF Shapes, ChildStates, Phases, L!PCs
<1>3. Supervision /\ Lives /\ Leaving /\ Removal
  BY <1>1 DEF Runs, Procs, Supervision, Lives, Leaving, Removal, L!InApply, L!InCleanup
<1> QED BY <1>2, <1>3 DEF IInv

LEMMA IInvStep == IInv /\ [Next]_vars => IInv'
<1> SUFFICES ASSUME IInv, [Next]_vars PROVE IInv' OBVIOUS
<1> USE DEF IInv
<1>0. self \in Procs /\ del \in Procs
  BY DEF Procs
<1>1. ASSUME Prepare \/ PrepareFails \/ LogStart \/ Clean \/ Over \/ UNCHANGED vars
      PROVE  IInv'
  <2>1. UNCHANGED <<lcfg, child, alive, lpc, applied, rpc, status, bpc>>
    BY <1>1 DEF Prepare, PrepareFails, LogStart, Clean, Over, vars, lvars, bvars,
      tvars, removers, told
  <2>2. \/ phase' = phase /\ rc' = rc
        \/ phase = "prepare" /\ phase' = "clone" /\ rc' = rc
        \/ phase = "prepare" /\ phase' = "returned" /\ rc' = 1
        \/ phase = "log" /\ phase' = "supervise" /\ rc' = rc
    BY <1>1 DEF Prepare, PrepareFails, LogStart, Clean, Over, vars, told
  <2> QED BY <2>1, <2>2
    DEF Shapes, Phases, Supervision, Lives, Leaving, Due, Removal
<1>2. ASSUME Clone PROVE IInv'
  <2>1. /\ phase = "clone" /\ phase' = "log" /\ rc' = rc
        /\ child' = [child EXCEPT ![self] = "setup"]
        /\ alive' = [alive EXCEPT ![self] = {0}]
        /\ lpc' = [lpc EXCEPT ![self] = "check"]
        /\ UNCHANGED <<lcfg, applied, rpc, status, bpc>>
    BY <1>2 DEF Clone, L!Clone, L!Goto, bvars, tvars, removers, told
  <2>2. {0} \subseteq L!Pid
    BY SandboxAssumption DEF L!Pid
  <2>3. Shapes'
    BY <2>1, <2>2 DEF Shapes, Phases, Runs, ChildStates, L!PCs, L!InApply
  <2>4. Supervision' /\ Lives' /\ Leaving' /\ Removal'
    BY <2>1 DEF Shapes, Runs, Supervision, Lives, Leaving, Removal, L!InApply,
      L!InCleanup
  <2> QED BY <2>3, <2>4
<1>3. ASSUME CloneFails PROVE IInv'
  <2>1. /\ phase = "clone" /\ phase' \in {"rm", "returned"} /\ rc' = 1
        /\ lpc' = [lpc EXCEPT ![self] = "done"]
        /\ UNCHANGED <<lcfg, child, alive, applied, rpc, status, bpc>>
    BY <1>3 DEF CloneFails, Leave, L!CloneFails, L!Goto, L!procVars, bvars, tvars, removers
  <2> QED BY <2>1 DEF Shapes, Phases, Runs, L!PCs, Supervision, Lives, Leaving, Due,
    Removal, L!InApply, L!InCleanup
<1>4. ASSUME Supervise PROVE IInv'
  <2>1. phase = "supervise" /\ UNCHANGED <<phase, rpc, status, rc, bpc>>
    BY <1>4 DEF Supervise, bvars, tvars, removers, told
  <2> QED BY <1>4, <2>1, SuperviseFacts DEF Lives, Leaving, Removal
<1>5. ASSUME Report \/ ReportNothing PROVE IInv'
  <2>1. /\ phase = "supervise" /\ lpc[self] = "done" /\ phase' \in {"rm", "returned"}
        /\ rc' = IF lcfg[self].ignchld THEN 1 ELSE Code(status)
        /\ UNCHANGED <<lcfg, child, alive, lpc, applied, rpc, status, bpc>>
    BY <1>5 DEF Report, ReportNothing, Leave, lvars, bvars, tvars, removers
  <2> QED BY <2>1 DEF Shapes, Phases, Supervision, Lives, Leaving, Due, Removal
<1>6. ASSUME Remove PROVE IInv'
  <2>1. /\ phase = "rm" /\ phase' \in {"rm", "returned"}
        /\ UNCHANGED <<lcfg, child, alive, lpc, applied, status, rc, bpc>>
    BY <1>6 DEF Remove, lvars, bvars, told
  <2>2. Shapes'
    BY <1>0, <1>6, <2>1, RemoverFacts DEF Remove, Removing, Shapes, Phases
  <2> QED BY <2>1, <2>2 DEF Supervision, Lives, Leaving, Due, Removal
<1>7. ASSUME Kill PROVE IInv'
  <2>1. /\ phase' = "killed"
        /\ UNCHANGED <<lcfg, child, alive, applied, rpc, status, bpc>>
        /\ lpc' = lpc \/ lpc' = [lpc EXCEPT ![self] = "killed"]
        /\ lpc[self] = "done" => lpc' = lpc
    BY <1>7 DEF Kill, L!Killed, L!Goto, L!procVars, lvars, bvars, tvars, removers, told
  <2> QED BY <2>1 DEF Shapes, Phases, Runs, L!PCs, Supervision, Lives, Leaving,
    Removal, L!InApply, L!InCleanup
<1>8. ASSUME Box PROVE IInv'
  <2>1. /\ UNCHANGED <<lcfg, lpc, applied, rpc, phase, rc>>
        /\ Shapes' /\ Lives'
        /\ child'[self] # child[self] => child[self] \in {"setup", "running"}
        /\ child[self] = "none" <=> child'[self] = "none"
        /\ child[self] \in {"none", "reaped"} => child' = child /\ status' = status
    BY <1>8, BoxFacts
  <2> QED BY <2>1 DEF Supervision, Leaving, Due, Removal
<1>9. ASSUME Delete PROVE IInv'
  <2>1. UNCHANGED <<lcfg, child, alive, lpc, applied, phase, status, rc, bpc>>
    BY <1>9 DEF Delete, lvars, bvars, told
  <2>2. Shapes' /\ rpc'[self] = rpc[self]
    BY <1>0, <1>9, <2>1, RemoverFacts, SandboxAssumption
    DEF Delete, Removing, Shapes
  <2> QED BY <2>1, <2>2 DEF Supervision, Lives, Leaving, Due, Removal
<1> QED
  BY <1>1, <1>2, <1>3, <1>4, <1>5, <1>6, <1>7, <1>8, <1>9 DEF Next, Launcher

LEMMA Invariance == Spec => []IInv
BY InitIInv, IInvStep, PTL DEF Spec

-----------------------------------------------------------------------------
(* The contract *)

LEMMA InitContract == Init => C!Init
BY DEF Init, L!Init, Runs, C!Init, RunOf, BoxOf, C!NoOutcome, C!NoCode, Running

LEMMA StepContract == IInv /\ IInv' /\ [Next]_vars => [C!Next]_C!vars
<1> SUFFICES ASSUME IInv, IInv', [Next]_vars PROVE [C!Next]_C!vars OBVIOUS
<1> USE DEF IInv, Shapes, Runs, ChildStates
<1> DEFINE Seen == <<lcfg, child[self], status>>
<1>1. ASSUME UNCHANGED Seen, RunOf' = RunOf, rc' = rc PROVE UNCHANGED C!vars
  BY <1>1 DEF C!vars, RunOf, BoxOf
<1>2. ASSUME UNCHANGED Seen, RunOf = "called", phase' = "returned",
             child[self] \in {"none", "reaped"}
      PROVE  C!Next
  <2>1. rc' = Due
    BY <1>2 DEF Leaving, Due, Code
  <2>2. CASE child[self] = "none"
    <3>1. C!Refuse
      BY <1>2, <2>1, <2>2 DEF C!Refuse, RunOf, BoxOf, Due
    <3> QED BY <3>1 DEF C!Next
  <2>3. CASE child[self] = "reaped"
    <3>1. Due = IF ~lcfg[self].ignchld THEN C!CodeOf(status) ELSE 1
      BY <2>3 DEF Due, Code, C!CodeOf, Lives
    <3>2. C!Return
      BY <1>2, <2>1, <2>3, <3>1 DEF C!Return, RunOf, BoxOf
    <3> QED BY <3>2 DEF C!Next
  <2> QED BY <1>2, <2>2, <2>3
<1>3. CASE Prepare \/ LogStart \/ Clean \/ Over \/ Delete \/ UNCHANGED vars
  <2>1. UNCHANGED Seen /\ rc' = rc /\ RunOf' = RunOf
    BY <1>3 DEF Prepare, LogStart, Clean, Over, Delete, vars, lvars, told, RunOf
  <2> QED BY <1>1, <2>1
<1>4. CASE PrepareFails
  BY <1>2, <1>4 DEF PrepareFails, lvars, RunOf, Supervision
<1>5. CASE Clone
  <2>1. C!Enter
    BY <1>5 DEF Clone, L!Clone, C!Enter, BoxOf, RunOf, told, Supervision
  <2> QED BY <2>1 DEF C!Next
<1>6. CASE CloneFails \/ Report \/ ReportNothing
  <2>1. /\ UNCHANGED Seen /\ RunOf = "called" /\ child[self] \in {"none", "reaped"}
        /\ phase' \in {"rm", "returned"} /\ phase \in {"clone", "supervise"}
    BY <1>6 DEF CloneFails, L!CloneFails, L!procVars, Report, ReportNothing, Leave,
      lvars, RunOf, Supervision
  <2>2. CASE phase' = "returned"
    BY <1>2, <2>1, <2>2
  <2>3. CASE phase' = "rm"
    BY <2>1, <2>3 DEF C!vars, RunOf, BoxOf
  <2> QED BY <2>1, <2>2, <2>3
<1>7. CASE Supervise
  <2>1. UNCHANGED <<lcfg, status, phase, rc>> /\ BoxOf' = BoxOf
    BY <1>7, SuperviseFacts DEF Supervise, told, BoxOf
  <2> QED BY <2>1 DEF C!vars, RunOf
<1>8. CASE Remove
  <2>1. /\ UNCHANGED Seen /\ rc' = rc /\ phase = "rm" /\ RunOf = "called"
        /\ phase' \in {"rm", "returned"} /\ child[self] \in {"none", "reaped"}
    BY <1>8 DEF Remove, lvars, told, RunOf, Leaving
  <2> QED BY <1>1, <1>2, <2>1 DEF RunOf
<1>9. CASE Kill
  <2>1. C!Die
    BY <1>9 DEF Kill, L!Killed, L!procVars, lvars, told, C!Die, RunOf, BoxOf
  <2> QED BY <2>1 DEF C!Next
<1>10. CASE Box
  <2>1. UNCHANGED <<lcfg, phase, rc>>
    BY <1>10, BoxFacts
  <2>2. CASE UNCHANGED <<child, status>>
    BY <2>1, <2>2 DEF C!vars, RunOf, BoxOf
  <2>3. CASE child[self] = "setup" /\ child'[self] = "running" /\ status' = status
    <3>1. C!Start
      BY <2>1, <2>3 DEF C!Start, RunOf, BoxOf
    <3> QED BY <3>1 DEF C!Next
  <2>4. CASE /\ child[self] \in {"setup", "running"} /\ child'[self] = "zombie"
             /\ status' \in SetUpEndings \cup CommandEnds
             /\ child[self] = "setup" => status' \in SetUpEndings
    <3>1. C!End(status')
      BY <2>1, <2>4 DEF C!End, RunOf, BoxOf
    <3> QED BY <2>4, <3>1 DEF C!Next
  <2> QED BY <1>10, <2>2, <2>3, <2>4, BoxFacts
<1> QED
  BY <1>3, <1>4, <1>5, <1>6, <1>7, <1>8, <1>9, <1>10 DEF Next, Launcher

(***************************************************************************)
(* sandbox_run implements Contract: whatever fails and whoever interferes, *)
(* the caller sees at most one box and one start of the command, and what  *)
(* it is told afterwards is how the box ended.                             *)
(***************************************************************************)
THEOREM Implements == Spec => KeepsContract
<1>1. Init => C!Init
  BY InitContract
<1>2. IInv /\ IInv' /\ [Next]_vars => [C!Next]_C!vars
  BY StepContract
<1> QED BY <1>1, <1>2, Invariance, PTL DEF Spec, KeepsContract, C!Spec

-----------------------------------------------------------------------------
(* The log *)

\* what a run has in the log while its box lives, and afterwards
Begun ==
  \/ journal = <<StartLine>> /\ missed = 0
  \/ journal = <<>> /\ missed = 1

Complete ==
  \/ journal = <<StartLine, Line(status)>> /\ missed = 0
  \/ journal \in {<<StartLine>>, <<Line(status)>>} /\ missed = 1
  \/ journal = <<>> /\ missed = 2

Blank == journal = <<>> /\ missed = 0

Pages ==
  /\ phase \in {"prepare", "clone", "log"} => Blank
  /\ phase = "supervise" => Begun
  /\ phase \in {"rm", "returned"} =>
       IF child[self] = "none" THEN Blank
       ELSE IF lcfg[self].ignchld THEN Begun ELSE Complete
  /\ phase = "killed" =>
       \/ Blank
       \/ Begun /\ child[self] # "none"
       \/ Complete /\ Told

LEMMA AppendOne ==
  ASSUME NEW a, NEW b
  PROVE  Append(<<>>, b) = <<b>> /\ Append(<<a>>, b) = <<a, b>>
<1>0. Append(<<>>, b) = <<b>>
  OBVIOUS
<1> DEFINE S == {a, b}
<1>1. <<a>> \in Seq(S) /\ Len(<<a>>) = 1 /\ <<a, b>> \in Seq(S)
  OBVIOUS
<1>2. /\ Append(<<a>>, b) \in Seq(S) /\ Len(Append(<<a>>, b)) = 2
      /\ Append(<<a>>, b)[1] = a /\ Append(<<a>>, b)[2] = b
  BY <1>1, AppendProperties
<1> HIDE DEF S
<1>3. Len(<<a, b>>) = 2 /\ <<a, b>>[1] = a /\ <<a, b>>[2] = b
  OBVIOUS
<1>4. \A i \in 1 .. Len(Append(<<a>>, b)) : Append(<<a>>, b)[i] = <<a, b>>[i]
  BY <1>2, <1>3
<1>5. Append(<<a>>, b) = <<a, b>>
  BY <1>1, <1>2, <1>3, <1>4, SeqEqual, Zenon
<1> QED BY <1>0, <1>5

LEMMA OneLine ==
  /\ Len(<<>>) = 0
  /\ \A a : Len(<<a>>) = 1
  /\ \A a, b : Len(<<a, b>>) = 2
OBVIOUS

LEMMA PagesStep == IInv /\ IInv' /\ Pages /\ [Next]_vars => Pages'
<1> SUFFICES ASSUME IInv, IInv', Pages, [Next]_vars PROVE Pages' OBVIOUS
<1> USE DEF IInv
<1>1. CASE Prepare \/ PrepareFails \/ Clone \/ CloneFails
  <2>1. /\ UNCHANGED log /\ phase \in {"prepare", "clone"}
        /\ phase' \in {"prepare", "clone", "log", "returned", "rm"}
        /\ phase' \in {"returned", "rm"} => child' = child
    BY <1>1 DEF Prepare, PrepareFails, Clone, CloneFails, L!CloneFails, L!procVars,
      Leave, lvars, told
  <2>2. Blank /\ Blank'
    BY <2>1 DEF Pages, Blank, log
  <2> QED BY <2>1, <2>2 DEF Pages, Supervision
<1>2. CASE LogStart
  <2>1. phase = "log" /\ phase' = "supervise" /\ Logged(StartLine)
    BY <1>2 DEF LogStart
  <2>2. Blank /\ Append(<<>>, StartLine) = <<StartLine>>
    BY <2>1, AppendOne DEF Pages
  <2>3. Begun'
    BY <2>1, <2>2 DEF Logged, Begun, Blank
  <2> QED BY <2>1, <2>3 DEF Pages
<1>3. CASE Report \/ ReportNothing
  <2>1. /\ UNCHANGED <<lcfg, status, child>> /\ phase = "supervise"
        /\ phase' \in {"returned", "rm"} /\ child[self] = "reaped"
    BY <1>3 DEF Report, ReportNothing, Leave, lvars, Supervision
  <2>2. Begun
    BY <2>1 DEF Pages
  <2>3. CASE Report
    <3>1. /\ Append(<<StartLine>>, Line(status)) = <<StartLine, Line(status)>>
          /\ Append(<<>>, Line(status)) = <<Line(status)>>
      BY AppendOne
    <3>2. Logged(Line(status)) /\ ~lcfg[self].ignchld /\ Line(status)' = Line(status)
      BY <2>1, <2>3 DEF Report, Line
    <3>3. Complete'
      <4>1. CASE journal' = Append(journal, Line(status)) /\ missed' = missed
        BY <2>2, <3>1, <3>2, <4>1, Zenon DEF Begun, Complete
      <4>2. CASE missed' = missed + 1 /\ journal' = journal
        <5>1. \/ journal' = <<StartLine>> /\ missed' = 1
              \/ journal' = <<>> /\ missed' = 2
          BY <2>2, <4>2 DEF Begun
        <5> QED BY <5>1, Zenon DEF Complete
      <4> QED BY <3>2, <4>1, <4>2 DEF Logged
    <3> QED BY <2>1, <3>2, <3>3 DEF Pages
  <2>4. CASE ReportNothing
    <3>1. UNCHANGED log /\ lcfg[self].ignchld
      BY <2>4 DEF ReportNothing
    <3>2. Begun'
      BY <2>2, <3>1 DEF Begun, log
    <3> QED BY <2>1, <3>1, <3>2 DEF Pages
  <2> QED BY <1>3, <2>3, <2>4
<1>4. CASE Supervise \/ Remove \/ Kill \/ Delete \/ Clean \/ Over \/ UNCHANGED vars
  <2>1. /\ UNCHANGED <<lcfg, status, log>>
        /\ \/ phase' \in {phase, "killed"}
           \/ phase = "rm" /\ phase' = "returned"
        /\ \/ child' = child
           \/ phase = "supervise" /\ phase' = "supervise"
    <3>1. CASE Supervise
      BY <3>1, SuperviseFacts DEF Supervise, told
    <3>2. CASE Kill
      BY <3>2 DEF Kill, L!Killed, L!procVars, lvars, told
    <3>3. CASE Remove \/ Delete \/ Clean \/ Over \/ UNCHANGED vars
      BY <3>3 DEF Remove, Delete, Clean, Over, vars, lvars, told
    <3> QED BY <1>4, <3>1, <3>2, <3>3
  <2>2. Blank' = Blank /\ Begun' = Begun /\ Complete' = Complete
    BY <2>1 DEF Blank, Begun, Complete, Line, log
  <2>3. child' = child => Told' = Told
    BY <2>1 DEF Told
  <2>4. phase \in {"rm", "returned"} => child[self] \in {"none", "reaped"}
    BY DEF Leaving
  <2> QED BY <2>1, <2>2, <2>3, <2>4 DEF Pages, Shapes, Phases, Supervision, Told
<1>5. CASE Box
  <2>1. /\ UNCHANGED <<lcfg, log, phase>>
        /\ child[self] = "none" <=> child'[self] = "none"
        /\ child[self] \in {"none", "reaped"} => child' = child /\ status' = status
    BY <1>5, BoxFacts DEF given
  <2>2. /\ Blank' = Blank /\ Begun' = Begun
        /\ child[self] \in {"none", "reaped"} => Complete' = Complete /\ Told' = Told
    BY <2>1 DEF Blank, Begun, Complete, Line, Told, log
  <2>3. Told => child[self] = "reaped"
    BY DEF Told
  <2> QED BY <2>1, <2>2, <2>3 DEF Pages, Leaving
<1> QED BY <1>1, <1>2, <1>3, <1>4, <1>5 DEF Next, Launcher

(***************************************************************************)
(* logs/lsandbox.log tells the truth, though it may fail to open for any   *)
(* line: START only of a box that was there, and only the end that waitpid *)
(* told; and what a run that returned has not written was lost in this way.*)
(***************************************************************************)
THEOREM LogTrue == Spec => []JournalTrue
<1>1. Init => Pages
  BY DEF Init, Pages, Blank
<1>2. IInv /\ Pages => JournalTrue
  <2> SUFFICES ASSUME IInv, Pages PROVE JournalTrue OBVIOUS
  <2>1. child[self] = "reaped" => Line(status) = EndLine
    BY DEF IInv, Lives, Line, EndLine
  <2>2. \/ Blank
        \/ Begun /\ child[self] # "none"
        \/ Complete /\ Told
    BY DEF IInv, Shapes, Phases, Supervision, Leaving, Pages, Told
  <2>3. Told => child[self] = "reaped"
    BY DEF Told
  <2>4. phase = "returned" /\ child[self] # "none" =>
          IF Told THEN Complete ELSE Begun
    BY DEF IInv, Leaving, Pages, Told
  <2>5. Begun => journal \in {<<>>, <<StartLine>>} /\ Len(journal) + missed = 1
    <3>1. CASE journal = <<StartLine>> /\ missed = 0
      BY <3>1, OneLine
    <3>2. CASE journal = <<>> /\ missed = 1
      BY <3>2, OneLine
    <3> QED BY <3>1, <3>2 DEF Begun
  <2>6. Complete /\ Told =>
          /\ journal \in {<<>>, <<StartLine>>, <<EndLine>>, <<StartLine, EndLine>>}
          /\ Len(journal) + missed = 2
    <3> SUFFICES ASSUME Complete, Line(status) = EndLine
                 PROVE  /\ journal \in {<<>>, <<StartLine>>, <<EndLine>>,
                                        <<StartLine, EndLine>>}
                        /\ Len(journal) + missed = 2
      BY <2>1, <2>3
    <3>1. CASE journal = <<StartLine, EndLine>> /\ missed = 0
      BY <3>1, OneLine
    <3>2. CASE journal = <<StartLine>> /\ missed = 1
      BY <3>2, OneLine
    <3>3. CASE journal = <<EndLine>> /\ missed = 1
      BY <3>3, OneLine
    <3>4. CASE journal = <<>> /\ missed = 2
      BY <3>4, OneLine
    <3> QED BY <3>1, <3>2, <3>3, <3>4 DEF Complete
  <2> QED BY <2>2, <2>3, <2>4, <2>5, <2>6 DEF JournalTrue, Blank
<1> QED BY <1>1, <1>2, PagesStep, Invariance, PTL DEF Spec
=============================================================================
