---------------------------- MODULE BoxDirProofs ----------------------------
(***************************************************************************)
(* More about Sandbox.  A step of it is, for each part it is made of, a    *)
(* step of that part or none (GroupStep, ChildStep, DirChanges), so that   *)
(* what is proved of the parts can be used again: LP, BP and P are the     *)
(* proof modules of the parts, with the variables Sandbox gives them.      *)
(* From the group follows that a run is a run of Cgroup (FollowsCgroup)    *)
(* and that --rm finds no group left (RemovesAfterBox); from child1, that  *)
(* a box whose directory is taken away still gets no command that is not   *)
(* confined (BoxGuarantees); from the directory, that --rm leaves nothing  *)
(* behind unless one of its own calls fails (RmLeavesNone).  For the       *)
(* latter, as long as nobody else has been at work there (Quiet), the tree *)
(* only grows before the run's own removal and only shrinks after, and the *)
(* invariant of RmTree holds at all times (Undisturbed).                   *)
(***************************************************************************)
EXTENDS SandboxProofs

\* the lemmas about the parts, for the parts as Sandbox has them
LP == INSTANCE CgroupLimitProofs WITH cfg <- lcfg, pc <- lpc, Killable <- Runs,
                                      Sweeping <- FALSE
BP == INSTANCE ChildProofs WITH cfg <- bcfg, pc <- bpc, Configs <- ChildConfigs,
        refused <- refused \cup Vanished, Refusals <- SUBSET B!Calls,
        left <- IF Unmounted THEN Bare ELSE left, Boxes <- B!Remains
P == INSTANCE RmTreeProofs WITH pc <- rpc, made <- {}, Late <- {}, Deletes <- {del}

-----------------------------------------------------------------------------
(* The group *)

\* whatever step of Sandbox it is, for the group it is one of Cgroup or none
LEMMA GroupStep ==
  ASSUME [Next]_vars
  PROVE  [L!Next]_L!vars
<1>0. self \in Runs
  BY DEF Runs
<1>1. CASE Prepare \/ PrepareFails \/ LogStart \/ Report \/ ReportNothing \/ Remove
           \/ Delete \/ Clean \/ Over \/ Anew \/ AnewFails \/ SetUp \/ Write
           \/ UNCHANGED vars
  BY <1>1 DEF Prepare, PrepareFails, LogStart, Report, ReportNothing, Remove, Delete,
    Clean, Over, Anew, AnewFails, SetUp, Write, vars, lvars, L!vars
<1>2. CASE Clone \/ CloneFails \/ Supervise
  BY <1>0, <1>2 DEF Clone, CloneFails, Supervise, L!Next, L!Launcher
<1>3. CASE Kill
  BY <1>0, <1>3 DEF Kill, lvars, L!vars, L!Next
<1>4. CASE Exec
  BY <1>0, <1>4 DEF Exec, lvars, L!vars, L!Next, L!Box
<1>5. CASE SetUpEnds \/ CommandEnd \/ Shot
  BY <1>0, <1>5 DEF SetUpEnds, CommandEnd, Shot, Ends, L!Next, L!Box
<1>6. CASE Processes
  BY <1>0, <1>6 DEF Processes, L!Next, L!Box
<1> QED BY <1>1, <1>2, <1>3, <1>4, <1>5, <1>6 DEF Next, Launcher, Box

LEMMA SameGroup ==
  /\ LP!CgroupAssumption
  /\ L!TypeOK <=> LP!TypeOK
  /\ L!Init <=> LP!Init
  /\ L!Next => LP!Next
<1>1. LP!CgroupAssumption
  BY PartsAssumption DEF L!CgroupAssumption, LP!CgroupAssumption, L!Config, LP!Config,
    L!Host, LP!Host, L!Controllers, LP!Controllers
<1>2. L!TypeOK <=> LP!TypeOK
  BY DEF L!TypeOK, LP!TypeOK, L!PCs, LP!PCs, L!InApply, LP!InApply, L!InCleanup,
    LP!InCleanup, L!LimitFiles, LP!LimitFiles, L!Pid, LP!Pid, L!Writes, LP!Writes
<1>3. L!Init <=> LP!Init
  BY DEF L!Init, LP!Init, L!NoLimits, LP!NoLimits, L!LimitFiles, LP!LimitFiles
<1>4. L!Next => LP!Next
  <2>1. \A r \in Runs : L!Clone(r) => LP!Clone(r)
    BY DEF L!Clone, LP!Clone, L!Goto, LP!Goto, L!cgVars, LP!cgVars
  <2>2. \A r \in Runs : L!CloneFails(r) => LP!CloneFails(r)
    BY DEF L!CloneFails, LP!CloneFails, L!Goto, LP!Goto, L!cgVars,
    LP!cgVars, L!procVars, LP!procVars
  <2>3. \A r \in Runs : L!CheckHost(r) => LP!CheckHost(r)
    BY DEF L!CheckHost, LP!CheckHost, L!HostReady, LP!HostReady, L!Goto,
    LP!Goto, L!GiveUp, LP!GiveUp, L!cgVars, LP!cgVars, L!procVars,
    LP!procVars
  <2>4. \A r \in Runs : L!StatOld(r) => LP!StatOld(r)
    BY DEF L!StatOld, LP!StatOld, L!Goto, LP!Goto, L!Name, LP!Name,
    L!cgVars, LP!cgVars, L!procVars, LP!procVars
  <2>5. \A r \in Runs : L!RmOld(r) => LP!RmOld(r)
    BY DEF L!RmOld, LP!RmOld, L!CanRmdir, LP!CanRmdir, L!Members,
    LP!Members, L!RemoveDir, LP!RemoveDir, L!NoLimits, LP!NoLimits,
    L!LimitFiles, LP!LimitFiles, L!Name, LP!Name, L!Pid, LP!Pid, L!Goto,
    LP!Goto, L!cgVars, LP!cgVars, L!procVars, LP!procVars
  <2>6. \A r \in Runs : L!Mkdir(r) => LP!Mkdir(r)
    BY DEF L!Mkdir, LP!Mkdir, L!Name, LP!Name, L!Goto, LP!Goto, L!procVars,
    LP!procVars
  <2>7. \A r \in Runs : L!MkdirFails(r) => LP!MkdirFails(r)
    BY DEF L!MkdirFails, LP!MkdirFails, L!Name, LP!Name, L!GiveUp,
    LP!GiveUp, L!Goto, LP!Goto, L!cgVars, LP!cgVars, L!procVars, LP!procVars
  <2>8. \A r \in Runs : L!StatFile(r) => LP!StatFile(r)
    BY DEF L!StatFile, LP!StatFile, L!File, LP!File, L!Writes, LP!Writes,
    L!Name, LP!Name, L!ControlFiles, LP!ControlFiles, L!Requested,
    LP!Requested, L!Optional, LP!Optional, L!NextFile, LP!NextFile, L!Undo,
    LP!Undo, L!Goto, LP!Goto, L!cgVars, LP!cgVars, L!procVars, LP!procVars
  <2>9. \A r \in Runs : L!OpenFile(r) => LP!OpenFile(r)
    BY DEF L!OpenFile, LP!OpenFile, L!File, LP!File, L!Writes, LP!Writes,
    L!Name, LP!Name, L!ControlFiles, LP!ControlFiles, L!Undo, LP!Undo,
    L!Goto, LP!Goto, L!cgVars, LP!cgVars, L!procVars, LP!procVars
  <2>10. \A r \in Runs : L!Flush(r) => LP!Flush(r)
    BY DEF L!Flush, LP!Flush, L!File, LP!File, L!Writes, LP!Writes, L!Name,
    LP!Name, L!Accepted, LP!Accepted, L!LimitFiles, LP!LimitFiles,
    L!NextFile, LP!NextFile, L!Goto, LP!Goto
  <2>11. \A r \in Runs : L!Wait(r) => LP!Wait(r)
    BY DEF L!Wait, LP!Wait, L!Goto, LP!Goto, L!cgVars, LP!cgVars
  <2>12. \A r \in Runs : L!CleanStat(r) => LP!CleanStat(r)
    BY DEF L!CleanStat, LP!CleanStat, L!Name, LP!Name, L!CleanupReturns,
    LP!CleanupReturns, L!GiveUp, LP!GiveUp, L!Goto, LP!Goto, L!cgVars,
    LP!cgVars, L!procVars, LP!procVars
  <2>13. \A r \in Runs : L!CleanProcs(r) => LP!CleanProcs(r)
    BY DEF L!CleanProcs, LP!CleanProcs, L!Members, LP!Members, L!Pid,
    LP!Pid, L!Name, LP!Name, L!CleanupReturns, LP!CleanupReturns, L!GiveUp,
    LP!GiveUp, L!Goto, LP!Goto, L!cgVars, LP!cgVars, L!procVars, LP!procVars
  <2>14. \A r \in Runs : L!CleanRmdir(r) => LP!CleanRmdir(r)
    BY DEF L!CleanRmdir, LP!CleanRmdir, L!CanRmdir, LP!CanRmdir, L!Members,
    LP!Members, L!RemoveDir, LP!RemoveDir, L!NoLimits, LP!NoLimits,
    L!LimitFiles, LP!LimitFiles, L!Name, LP!Name, L!Pid, LP!Pid,
    L!CleanupReturns, LP!CleanupReturns, L!GiveUp, LP!GiveUp, L!Goto,
    LP!Goto, L!cgVars, LP!cgVars, L!procVars, LP!procVars
  <2>15. \A r \in Runs : L!ChildExec(r) => LP!ChildExec(r)
    BY DEF L!ChildExec, LP!ChildExec, L!cgVars, LP!cgVars
  <2>16. \A r \in Runs : L!InitExit(r) => LP!InitExit(r)
    BY DEF L!InitExit, LP!InitExit, L!CloneFlags, LP!CloneFlags, L!cgVars,
    LP!cgVars
  <2>17. \A r \in Runs : L!Fork(r) => LP!Fork(r)
    BY DEF L!Fork, LP!Fork, L!Cardinality, LP!Cardinality, L!IsFiniteSet, LP!IsFiniteSet, L!Pid, LP!Pid, L!Name, LP!Name, L!Members,
    LP!Members, L!cgVars, LP!cgVars
  <2>18. \A r \in Runs : L!ProcExit(r) => LP!ProcExit(r)
    BY DEF L!ProcExit, LP!ProcExit, L!cgVars, LP!cgVars
  <2>19. \A r \in Runs : L!Killed(r) => LP!Killed(r)
    BY DEF L!Killed, LP!Killed, L!Goto, LP!Goto, L!cgVars, LP!cgVars,
    L!procVars, LP!procVars
  <2> QED BY <2>1, <2>2, <2>3, <2>4, <2>5, <2>6, <2>7, <2>8, <2>9, <2>10,
    <2>11, <2>12, <2>13, <2>14, <2>15, <2>16, <2>17, <2>18, <2>19 DEF
    L!Next, LP!Next, L!Launcher, LP!Launcher, L!Box, LP!Box, L!Apply,
    LP!Apply, L!Cleanup, LP!Cleanup, L!Sweep, L!AllOver, LP!AllOver, L!vars,
    LP!vars
<1> QED BY <1>1, <1>2, <1>3, <1>4

-----------------------------------------------------------------------------
(* child1 *)

\* child1, of which a vanished directory is one more call that fails
LEMMA ChildStep ==
  ASSUME [Next]_vars
  PROVE  /\ UNCHANGED <<bcfg, caller, resolv, refused, left>>
         /\ \/ UNCHANGED bvars
            \/ B!Next
            \/ /\ bpc \in MkdirSteps
               /\ bpc' = IF bpc = "dns" THEN "chroot" ELSE "exit1"
               /\ UNCHANGED <<peer, mounts, hostMounts, root, cwd, cred, denied,
                              hostResolv, boxResolv>>
<1>1. CASE Prepare \/ PrepareFails \/ Clone \/ CloneFails \/ LogStart \/ Supervise
           \/ Report \/ ReportNothing \/ Remove \/ Kill \/ Anew \/ SetUpEnds
           \/ CommandEnd \/ Shot \/ Write \/ Processes \/ Delete \/ Clean \/ Over
           \/ UNCHANGED vars
  BY <1>1 DEF Prepare, PrepareFails, Clone, CloneFails, LogStart, Supervise, Report,
    ReportNothing, Remove, Kill, Anew, SetUpEnds, CommandEnd, Shot, Ends, Write,
    Processes, Delete, Clean, Over, vars, bvars
<1>2. CASE AnewFails
  BY <1>2 DEF AnewFails, AnewNeeded
<1>3. CASE SetUp
  <2>1. UNCHANGED <<bcfg, caller, resolv>>
    BY <1>3 DEF SetUp, B!Next, B!SetHostname, B!MakePrivate,
      B!MountOverlay, B!MountProc, B!MountDev, B!MakeNodes, B!MountShm, B!MountPts,
      B!MountRun, B!SetupResolv, B!Chroot, B!Chdir, B!SetGroups, B!SetGid,
      B!SetUid, B!InstallFilter, B!Exec, B!Over, B!MountStep, B!vars, B!fixed
  <2> QED BY <1>3, <2>1 DEF SetUp
<1>4. CASE Exec
  BY <1>4 DEF Exec, B!Exec, B!fixed, B!Next
<1> QED BY <1>1, <1>2, <1>3, <1>4 DEF Next, Launcher, Box

LEMMA SameChild ==
  /\ BP!ChildAssumption
  /\ B0!TypeOK => BP!TypeOK
  /\ B0!TypeOK /\ BP!TypeOK' /\ UNCHANGED <<bcfg, caller, resolv, refused, left>> =>
       B0!TypeOK'
  /\ B!Next => BP!Next
<1> USE DEF B0!Steps, BP!Steps, B0!Ended, BP!Ended, B0!Cred, BP!Cred, B0!Basic,
            BP!Basic, B0!StrictOnly, BP!StrictOnly, B0!Points, BP!Points
<1>1. BP!ChildAssumption
  BY PartsAssumption
  DEF B0!ChildAssumption, BP!ChildAssumption, B0!Config, BP!Config, B!Calls,
      BP!Calls, B0!CallerKinds, BP!CallerKinds, B0!ResolvKinds, BP!ResolvKinds,
      B!Remains, BP!Remains, B!ResolvKinds, B!Linkable, BP!Linkable
<1>2. ASSUME B0!TypeOK PROVE BP!TypeOK
  <2>1. refused \subseteq B!Calls
    BY <1>2, PartsAssumption DEF B0!ChildAssumption, B0!TypeOK, B0!Calls, B!Calls
  <2>2. Vanished \subseteq B!Calls
    BY DEF Vanished, B!Calls
  <2>3. Bare \in B!Remains /\ left \in B!Remains
    BY <1>2, PartsAssumption
    DEF B0!ChildAssumption, B0!TypeOK, B0!Remains, B!Remains, Bare, B0!Linkable,
        B!Linkable, B0!ResolvKinds, B!ResolvKinds
  <2> QED BY <1>2, <2>1, <2>2, <2>3 DEF B0!TypeOK, BP!TypeOK
<1>3. ASSUME B0!TypeOK, BP!TypeOK', UNCHANGED <<bcfg, caller, resolv, refused, left>>
      PROVE  B0!TypeOK'
  BY <1>3 DEF B0!TypeOK, BP!TypeOK
<1>4. B!Next => BP!Next
  <2>1. B!SetHostname => BP!SetHostname
    BY DEF B!SetHostname, BP!SetHostname, B!OrExit1, BP!OrExit1, B!fs, BP!fs,
      B!At, BP!At, B!Goto, BP!Goto, B!Works, BP!Works, B!fixed, BP!fixed,
      B!dns, BP!dns
  <2>2. B!MakePrivate => BP!MakePrivate
    BY DEF B!MakePrivate, BP!MakePrivate, B!MayMount, BP!MayMount, B!Stops,
      BP!Stops, B!At, BP!At, B!Goto, BP!Goto, B!Works, BP!Works, B!fixed,
      BP!fixed, B!dns, BP!dns
  <2>3. B!MountOverlay => BP!MountOverlay
    BY DEF B!MountOverlay, BP!MountOverlay, B!MountStep, BP!MountStep,
      B!Mounted, B!Outside, BP!Mounted, BP!Outside, B!NotMounted, BP!NotMounted, B!MayMount,
      BP!MayMount, B!Stops, BP!Stops, B!At, BP!At, B!Goto, BP!Goto, B!Works,
      BP!Works, B!fixed, BP!fixed, B!dns, BP!dns
  <2>4. B!MountProc => BP!MountProc
    BY DEF B!MountProc, BP!MountProc, B!MountStep, BP!MountStep, B!Mounted, B!Outside,
      BP!Mounted, BP!Outside, B!NotMounted, BP!NotMounted, B!MayMount, BP!MayMount,
      B!Stops, BP!Stops, B!At, BP!At, B!Goto, BP!Goto, B!Works, BP!Works,
      B!fixed, BP!fixed, B!dns, BP!dns
  <2>5. B!MountDev => BP!MountDev
    BY DEF B!MountDev, BP!MountDev, B!MountStep, BP!MountStep, B!Mounted, B!Outside,
      BP!Mounted, BP!Outside, B!NotMounted, BP!NotMounted, B!MayMount, BP!MayMount,
      B!Stops, BP!Stops, B!At, BP!At, B!Goto, BP!Goto, B!Works, BP!Works,
      B!fixed, BP!fixed, B!dns, BP!dns
  <2>6. B!MakeNodes => BP!MakeNodes
    BY DEF B!MakeNodes, BP!MakeNodes, B!OrExit1, BP!OrExit1, B!fs, BP!fs,
      B!At, BP!At, B!Goto, BP!Goto, B!Works, BP!Works, B!fixed, BP!fixed,
      B!dns, BP!dns
  <2>7. B!MountShm => BP!MountShm
    BY DEF B!MountShm, BP!MountShm, B!MountStep, BP!MountStep, B!Mounted, B!Outside,
      BP!Mounted, BP!Outside, B!NotMounted, BP!NotMounted, B!MayMount, BP!MayMount,
      B!Stops, BP!Stops, B!At, BP!At, B!Goto, BP!Goto, B!Works, BP!Works,
      B!fixed, BP!fixed, B!dns, BP!dns
  <2>8. B!MountPts => BP!MountPts
    BY DEF B!MountPts, BP!MountPts, B!MountStep, BP!MountStep, B!Mounted, B!Outside,
      BP!Mounted, BP!Outside, B!NotMounted, BP!NotMounted, B!MayMount, BP!MayMount,
      B!Stops, BP!Stops, B!At, BP!At, B!Goto, BP!Goto, B!Works, BP!Works,
      B!fixed, BP!fixed, B!dns, BP!dns
  <2>9. B!MountRun => BP!MountRun
    BY DEF B!MountRun, BP!MountRun, B!MountStep, BP!MountStep, B!Mounted, B!Outside,
      BP!Mounted, BP!Outside, B!NotMounted, BP!NotMounted, B!MayMount, BP!MayMount,
      B!Stops, BP!Stops, B!At, BP!At, B!Goto, BP!Goto, B!Works, BP!Works,
      B!fixed, BP!fixed, B!dns, BP!dns
  <2>10. B!SetupResolv => BP!SetupResolv
    BY DEF B!SetupResolv, BP!SetupResolv, B!HostResolv, BP!HostResolv,
      B!BoxResolv, BP!BoxResolv, B!Outside, BP!Outside, B!LinkLeft, BP!LinkLeft,
      B!Written, BP!Written, B!fs, BP!fs, B!At, BP!At, B!Goto, BP!Goto,
      B!Works, BP!Works, B!fixed, BP!fixed, B!dns, BP!dns
  <2>11. B!Chroot => BP!Chroot
    BY DEF B!Chroot, BP!Chroot, B!OrExit1, BP!OrExit1, B!At, BP!At, B!Goto,
      BP!Goto, B!Works, BP!Works, B!fixed, BP!fixed, B!dns, BP!dns
  <2>12. B!Chdir => BP!Chdir
    BY DEF B!Chdir, BP!Chdir, B!OrExit1, BP!OrExit1, B!AfterChdir,
      BP!AfterChdir, B!Drops, BP!Drops, B!At, BP!At, B!Goto, BP!Goto,
      B!Works, BP!Works, B!fixed, BP!fixed, B!dns, BP!dns
  <2>13. B!SetGroups => BP!SetGroups
    BY DEF B!SetGroups, BP!SetGroups, B!OrExit1, BP!OrExit1, B!fs, BP!fs,
      B!At, BP!At, B!Goto, BP!Goto, B!Works, BP!Works, B!fixed, BP!fixed,
      B!dns, BP!dns
  <2>14. B!SetGid => BP!SetGid
    BY DEF B!SetGid, BP!SetGid, B!OrExit1, BP!OrExit1, B!RunId, BP!RunId,
      B!fs, BP!fs, B!At, BP!At, B!Goto, BP!Goto, B!Works, BP!Works, B!fixed,
      BP!fixed, B!dns, BP!dns
  <2>15. B!SetUid => BP!SetUid
    BY DEF B!SetUid, BP!SetUid, B!OrExit1, BP!OrExit1, B!RunId, BP!RunId,
      B!fs, BP!fs, B!At, BP!At, B!Goto, BP!Goto, B!Works, BP!Works, B!fixed,
      BP!fixed, B!dns, BP!dns
  <2>16. B!InstallFilter => BP!InstallFilter
    BY DEF B!InstallFilter, BP!InstallFilter, B!Filter, BP!Filter, B!Basic,
      BP!Basic, B!StrictOnly, BP!StrictOnly, B!fs, BP!fs, B!At, BP!At,
      B!Goto, BP!Goto, B!Works, BP!Works, B!fixed, BP!fixed, B!dns, BP!dns
  <2>17. B!Exec => BP!Exec
    BY DEF B!Exec, BP!Exec, B!fs, BP!fs, B!At, BP!At, B!Goto, BP!Goto,
      B!Works, BP!Works, B!fixed, BP!fixed, B!dns, BP!dns
  <2>18. B!Over => BP!Over
    BY DEF B!Over, BP!Over, B!Ended, BP!Ended, B!vars, BP!vars, B!fs, BP!fs,
      B!At, BP!At, B!Goto, BP!Goto, B!Works, BP!Works, B!fixed, BP!fixed,
      B!dns, BP!dns
  <2> QED BY <2>1, <2>2, <2>3, <2>4, <2>5, <2>6, <2>7, <2>8, <2>9, <2>10,
    <2>11, <2>12, <2>13, <2>14, <2>15, <2>16, <2>17, <2>18 DEF B!Next,
    BP!Next
<1> QED BY <1>1, <1>2, <1>3, <1>4

-----------------------------------------------------------------------------
(* The directory *)

LEMMA BoxTree == P!TreeAssumption
<1>1. Parent \in [Nodes \ {Root} -> Dirs]
  BY DEF Root, Dirs, Nodes, Parent
<1>2. ASSUME NEW S \in (SUBSET Nodes) \ {{}}, \A n \in S \ {Root} : Parent[n] \in S
      PROVE  Root \in S
  BY <1>2 DEF Root, Dirs, Nodes, Parent
<1> QED BY <1>1, <1>2, SandboxAssumption DEF P!TreeAssumption, Procs, Root, Dirs, Nodes

LEMMA SameTree ==
  /\ T!TypeOK <=> P!TypeOK
  /\ \A p \in Procs : T!Remover(p) => P!Remover(p)
<1>1. T!TypeOK <=> P!TypeOK
  BY DEF T!TypeOK, P!TypeOK, T!Ended, P!Ended
<1>2. ASSUME NEW p \in Procs, T!Remover(p) PROVE P!Remover(p)
  BY <1>2 DEF T!Remover, T!Start, T!Lstat, T!Unlink, T!Opendir, T!NextEntry, T!Rmdir,
    T!Return, T!Fail, T!Trouble, T!Meets, T!Goto, T!Entries,
    P!Remover, P!Start, P!Lstat, P!Unlink, P!Opendir, P!NextEntry, P!Rmdir,
    P!Return, P!Fail, P!Trouble, P!Meets, P!Goto, P!Entries
<1> QED BY <1>1, <1>2

\* how far mkdir_p still has to go: from the top to merged_root for the
\* launcher, to a mount point for child1
Path(w, n) == w \in Seq(Nodes) /\ Len(w) <= n

Walking ==
  IF phase = "prepare" THEN Path(walk, 7) /\ walk # <<>>
  ELSE walk = <<"made">> \/ Path(walk, 3)

WaitStatus == {Running} \cup [how: {"exit"}, n: 0 .. 255] \cup [how: {"signal"}, n: 1 .. 64]

\* each line is tried once
Noted ==
  /\ missed \in 0 .. 2
  /\ phase \in {"prepare", "clone", "log"} => missed = 0
  /\ phase = "supervise" => missed <= 1

Own ==
  /\ Walking
  /\ scene \in Scenes
  /\ rm \in BOOLEAN
  /\ lost \subseteq {"upper", "index", "merged"}
  /\ status \in WaitStatus
  /\ rc \in -1 .. 255
  /\ Noted
  /\ cpc \in {"idle", "rm", "mkbox", "mktmp", "over"}

\* mkdir adds a node below one that is there
Added(n) ==
  /\ n \in Nodes
  /\ n # Root => Parent[n] \in exists \/ n \in exists
  /\ exists' = exists \cup {n}
  /\ UNCHANGED removers

\* Building and living box add to the directory, before any removal by the run
\* itself; removers take away; clean does as it likes.
DirStep(n) ==
  \/ UNCHANGED tvars /\ cpc' = cpc
  \/ Added(n) /\ cpc' = cpc /\ rpc[self] = "idle"
  \/ \E p \in Procs : T!Remover(p) /\ cpc' = cpc
  \/ exists' \subseteq Nodes /\ UNCHANGED removers /\ cpc' # "idle"

LEMMA MkdirAdds ==
  ASSUME NEW n \in Nodes, MkdirWorks(n)
  PROVE  n # Root => Parent[n] \in exists \/ n \in exists
BY DEF MkdirWorks, Above

LEMMA DirChanges ==
  ASSUME IInv, Own, exists \subseteq Nodes, [Next]_vars
  PROVE  \E n : DirStep(n)
<1> USE DEF IInv
<1>1. CASE PrepareFails \/ Clone \/ CloneFails \/ LogStart \/ Supervise \/ Report
           \/ ReportNothing \/ Kill \/ AnewFails \/ Exec \/ SetUpEnds \/ CommandEnd
           \/ Shot \/ Processes \/ Over \/ UNCHANGED vars
  <2>1. UNCHANGED tvars /\ cpc' = cpc
    BY <1>1 DEF PrepareFails, Clone, CloneFails, LogStart, Supervise, Report,
      ReportNothing, Kill, AnewFails, Exec, SetUpEnds, CommandEnd, Shot, Ends,
      Processes, Over, vars, told
  <2> QED BY <2>1 DEF DirStep
<1>2. CASE Prepare
  <2>1. Head(walk) \in Nodes
    BY <1>2, HeadTailProperties DEF Prepare, Own, Walking, Path
  <2>2. rpc[self] = "idle"
    BY <1>2 DEF Prepare, Removal
  <2>3. Added(Head(walk)) /\ cpc' = cpc
    BY <1>2, <2>1, MkdirAdds DEF Prepare, Added
  <2> QED BY <2>2, <2>3 DEF DirStep
<1>3. CASE Anew
  <2> DEFINE n == Head(IF walk = <<>> THEN PointsOrder ELSE walk)
  <2>1. n \in Nodes
    <3>1. phase # "prepare" /\ walk # <<"made">>
      BY <1>3 DEF Anew, AnewNeeded, InSetUp, Supervision
    <3>2. CASE walk = <<>>
      BY <3>2 DEF PointsOrder, Nodes, Dirs
    <3>3. CASE walk # <<>>
      BY <3>1, <3>3, HeadTailProperties DEF Own, Walking, Path
    <3> QED BY <3>2, <3>3
  <2>2. rpc[self] = "idle"
    BY <1>3 DEF Anew, InSetUp, Removal
  <2>3. MkdirWorks(n) /\ exists' = exists \cup {n} /\ cpc' = cpc
        /\ UNCHANGED removers
    BY <1>3 DEF Anew
  <2>4. Added(n)
    BY <2>1, <2>3, MkdirAdds DEF Added
  <2> QED BY <2>2, <2>3, <2>4 DEF DirStep
<1>4. CASE SetUp
  <2>1. rpc[self] = "idle" /\ cpc' = cpc /\ UNCHANGED removers
    BY <1>4 DEF SetUp, InSetUp, Removal
  <2>2. CASE exists' = exists
    BY <2>1, <2>2 DEF DirStep, tvars, removers
  <2>3. CASE exists' # exists
    <3>1. exists' = exists \cup {"index"} /\ B!Works("overlay")
      BY <1>4, <2>3 DEF SetUp
    <3>2. "work" \in exists
      BY <3>1 DEF B!Works, Vanished
    <3>3. Added("index")
      BY <2>1, <3>1, <3>2 DEF Added, Nodes, Dirs, Parent
    <3> QED BY <2>1, <3>3 DEF DirStep
  <2> QED BY <2>2, <2>3
<1>5. CASE Write
  <2>1. rpc[self] = "idle" /\ cpc' = cpc
    BY <1>5 DEF Write, Removal
  <2>2. Added("file")
    BY <1>5 DEF Write, Added, Nodes, Dirs, Parent
  <2> QED BY <2>1, <2>2 DEF DirStep
<1>6. CASE Remove \/ Delete
  <2>1. PICK p \in Procs : T!Remover(p)
    BY <1>6 DEF Remove, Delete, Removing, Procs
  <2>2. cpc' = cpc
    BY <1>6 DEF Remove, Delete
  <2> QED BY <2>1, <2>2 DEF DirStep
<1>7. CASE Clean
  <2>1. exists' \subseteq Nodes /\ cpc' # "idle"
    BY <1>7 DEF Clean, Nodes, Dirs, Root
  <2>2. UNCHANGED removers
    BY <1>7 DEF Clean
  <2> QED BY <2>1, <2>2 DEF DirStep
<1> QED BY <1>1, <1>2, <1>3, <1>4, <1>5, <1>6, <1>7 DEF Next, Launcher, Box

\* the removers keep their types and their paths, whatever happens to the tree
LEMMA TreeTypes ==
  ASSUME IInv, Own, T!TypeOK, P!Paths, [Next]_vars
  PROVE  T!TypeOK' /\ P!Paths'
<1>1. P!TypeOK
  BY SameTree
<1>2. ASSUME exists' \subseteq Nodes, UNCHANGED removers
      PROVE  T!TypeOK' /\ P!Paths'
  BY <1>2 DEF T!TypeOK, P!Paths, P!Listed, P!OnPath, removers
<1>3. exists \subseteq Nodes
  BY DEF T!TypeOK
<1>4. PICK n : DirStep(n)
  BY <1>3, DirChanges
<1>5. ASSUME NEW p \in Procs, T!Remover(p) PROVE T!TypeOK' /\ P!Paths'
  <2>1. P!Next
    BY <1>5, SameTree DEF P!Next
  <2>2. P!TypeOK'
    BY <1>1, <2>1, BoxTree, P!TypeStep
  <2>3. P!Listed' /\ \A q \in Procs : P!OnPath(q)'
    BY <1>1, <2>1, BoxTree, P!ListedStep, P!PathStep
  <2>4. P!Paths'
    BY <2>3 DEF P!Paths
  <2> QED BY <2>2, <2>4 DEF T!TypeOK, P!TypeOK, T!Ended, P!Ended
<1> QED BY <1>2, <1>3, <1>4, <1>5 DEF DirStep, Added, tvars, removers

-----------------------------------------------------------------------------
(* Types *)

LEMMA PathWords ==
  /\ Path(PrepareOrder, 7) /\ PrepareOrder # <<>>
  /\ Path(PointsOrder, 3) /\ PointsOrder # <<>>
  /\ Path(<<>>, 3)
<1>1. PrepareOrder \in Seq(Nodes) /\ Len(PrepareOrder) = 7 /\ PrepareOrder # <<>>
  BY DEF PrepareOrder, Nodes, Dirs
<1>2. PointsOrder \in Seq(Nodes) /\ Len(PointsOrder) = 3 /\ PointsOrder # <<>>
  BY DEF PointsOrder, Nodes, Dirs
<1>3. <<>> \in Seq(Nodes) /\ Len(<<>>) = 0
  OBVIOUS
<1> QED BY <1>1, <1>2, <1>3 DEF Path

LEMMA PathTail ==
  ASSUME NEW n \in Nat, NEW w, Path(w, n), w # <<>>
  PROVE  Path(Tail(w), n) /\ (Len(w) = 1 <=> Tail(w) = <<>>)
<1>1. w \in Seq(Nodes) /\ Len(w) <= n
  BY DEF Path
<1>2. Tail(w) \in Seq(Nodes) /\ Len(Tail(w)) = Len(w) - 1 /\ Len(w) \in Nat
  BY <1>1, HeadTailProperties, LenProperties
<1>3. Tail(w) = <<>> <=> Len(Tail(w)) = 0
  BY <1>2, EmptySeq
<1> QED BY <1>1, <1>2, <1>3 DEF Path

LEMMA EndTypes == SetUpEndings \cup CommandEnds \subseteq WaitStatus
BY SandboxAssumption
DEF SetUpEndings, Exited, Signaled, SIGSYS, SIGKILL, WaitStatus

LEMMA CodeTypes ==
  ASSUME NEW s \in WaitStatus
  PROVE  Code(s) \in 0 .. 255
<1>1. CASE s \in [how: {"exit"}, n: 0 .. 255]
  BY <1>1 DEF Code
<1>2. CASE s \in [how: {"signal"}, n: 1 .. 64]
  BY <1>2 DEF Code
<1>3. CASE s = Running
  BY <1>3 DEF Running, Code
<1> QED BY <1>1, <1>2, <1>3 DEF WaitStatus

LEMMA WalkStep ==
  ASSUME IInv, Walking, [Next]_vars
  PROVE  Walking'
<1> USE DEF IInv, Walking
<1>0. Path(<<>>, 3)
  BY PathWords
<1>1. CASE Prepare
  <2>1. Path(walk, 7) /\ walk # <<>> /\ walk' = Tail(walk)
        /\ phase' = IF Len(walk) = 1 THEN "clone" ELSE "prepare"
    BY <1>1 DEF Prepare
  <2>2. Path(Tail(walk), 7) /\ (Len(walk) = 1 <=> Tail(walk) = <<>>)
    BY <2>1, PathTail
  <2> QED BY <1>0, <2>1, <2>2
<1>2. CASE PrepareFails
  BY <1>0, <1>2 DEF PrepareFails
<1>3. CASE Kill
  BY <1>0, <1>3 DEF Kill
<1>4. CASE Anew
  <2> DEFINE now == IF walk = <<>> THEN PointsOrder ELSE walk
  <2>1. phase # "prepare" /\ phase' = phase /\ walk # <<"made">>
    BY <1>4 DEF Anew, InSetUp, AnewNeeded, Supervision
  <2>2. Path(now, 3) /\ now # <<>>
    BY <2>1, PathWords
  <2>3. walk' = <<"made">> \/ walk' = Tail(now)
    BY <1>4 DEF Anew
  <2> HIDE DEF now
  <2>4. Path(Tail(now), 3)
    BY <2>2, PathTail
  <2> QED BY <2>1, <2>3, <2>4
<1>5. CASE AnewFails \/ SetUp
  <2>1. phase # "prepare" /\ phase' = phase /\ walk' \in {walk, <<>>}
    BY <1>5 DEF AnewFails, SetUp, InSetUp, Supervision
  <2> QED BY <1>0, <2>1
<1>6. CASE SetUpEnds \/ CommandEnd \/ Shot
  <2>1. phase' = phase /\ walk' = IF phase = "prepare" THEN walk ELSE <<>>
    BY <1>6 DEF SetUpEnds, CommandEnd, Shot, Ends
  <2> QED BY <1>0, <2>1
<1>7. CASE Clone \/ CloneFails \/ LogStart \/ Report \/ ReportNothing \/ Remove
  <2>1. walk' = walk /\ phase # "prepare" /\ phase' # "prepare"
    BY <1>7 DEF Clone, CloneFails, LogStart, Report, ReportNothing, Leave, Remove
  <2> QED BY <2>1
<1>8. CASE Supervise \/ Exec \/ Write \/ Processes \/ Delete \/ Clean \/ Over
           \/ UNCHANGED vars
  <2>1. walk' = walk /\ phase' = phase
    BY <1>8 DEF Supervise, Exec, Write, Processes, Delete, Clean, Over, vars
  <2> QED BY <2>1
<1> QED BY <1>1, <1>2, <1>3, <1>4, <1>5, <1>6, <1>7, <1>8 DEF Next, Launcher, Box

LEMMA OwnStep ==
  ASSUME IInv, Own, [Next]_vars
  PROVE  Own'
<1>1. Walking'
  BY WalkStep DEF Own
<1>2. UNCHANGED given
  BY DEF Next, Launcher, Box, Prepare, PrepareFails, Clone, CloneFails, LogStart,
    Supervise, Report, ReportNothing, Remove, Kill, Anew, AnewFails, SetUp, Exec,
    SetUpEnds, CommandEnd, Shot, Ends, Write, Processes, Delete, Clean, Over, vars
<1>3. lost' \subseteq {"upper", "index", "merged"}
  <2>1. CASE Remove \/ Delete
    BY <2>1 DEF Remove, Delete, Removing, Own
  <2>2. CASE lost' = lost
    BY <2>2 DEF Own
  <2> QED
    BY <2>1, <2>2 DEF Next, Launcher, Box, Prepare, PrepareFails, Clone, CloneFails,
      LogStart, Supervise, Report, ReportNothing, Kill, Anew, AnewFails, SetUp, Exec,
      SetUpEnds, CommandEnd, Shot, Ends, Write, Processes, Clean, Over, vars
<1>4. status' \in WaitStatus
  <2>1. CASE SetUpEnds \/ CommandEnd \/ Shot
    BY <2>1, EndFacts, EndTypes DEF IInv
  <2>2. CASE status' = status
    BY <2>2 DEF Own
  <2> QED
    BY <2>1, <2>2 DEF Next, Launcher, Box, Prepare, PrepareFails, Clone, CloneFails,
      LogStart, Supervise, Report, ReportNothing, Remove, Kill, Anew, AnewFails, SetUp,
      Exec, Write, Processes, Delete, Clean, Over, vars, told
<1>5. rc' \in -1 .. 255
  <2>1. rc' = rc \/ rc' = 1 \/ rc' = Code(status)
    BY DEF Next, Launcher, Box, Prepare, PrepareFails, Clone, CloneFails, LogStart,
      Supervise, Report, ReportNothing, Leave, Remove, Kill, Anew, AnewFails, SetUp,
      Exec, SetUpEnds, CommandEnd, Shot, Ends, Write, Processes, Delete, Clean, Over,
      vars, told
  <2>2. Code(status) \in 0 .. 255
    BY CodeTypes DEF Own
  <2> QED BY <2>1, <2>2 DEF Own
<1>6. cpc' \in {"idle", "rm", "mkbox", "mktmp", "over"}
  <2>1. CASE Clean
    BY <2>1 DEF Clean
  <2>2. CASE cpc' = cpc
    BY <2>2 DEF Own
  <2> QED
    BY <2>1, <2>2 DEF Next, Launcher, Box, Prepare, PrepareFails, Clone, CloneFails,
      LogStart, Supervise, Report, ReportNothing, Remove, Kill, Anew, AnewFails, SetUp,
      Exec, SetUpEnds, CommandEnd, Shot, Ends, Write, Processes, Delete, Over, vars
<1>7. Noted'
  <2>1. CASE LogStart
    BY <2>1 DEF LogStart, Logged, Own, Noted
  <2>2. CASE Report
    BY <2>2 DEF Report, Leave, Logged, Own, Noted
  <2>3. CASE ~LogStart /\ ~Report
    <3>1. missed' = missed
      BY <2>3 DEF Next, Launcher, Box, Prepare, PrepareFails, Clone, CloneFails,
        Supervise, ReportNothing, Remove, Kill, Anew, AnewFails, SetUp, Exec,
        SetUpEnds, CommandEnd, Shot, Ends, Write, Processes, Delete, Clean, Over,
        vars, told, log
    <3>2. phase' \in {"prepare", "clone", "log"} => phase \in {"prepare", "clone", "log"}
      BY <2>3 DEF Next, Launcher, Box, Prepare, PrepareFails, Clone, CloneFails, Leave,
        Supervise, ReportNothing, Remove, Kill, Anew, AnewFails, SetUp, Exec,
        SetUpEnds, CommandEnd, Shot, Ends, Write, Processes, Delete, Clean, Over, vars
    <3>3. phase' = "supervise" => phase = "supervise"
      BY <2>3 DEF Next, Launcher, Box, Prepare, PrepareFails, Clone, CloneFails, Leave,
        Supervise, ReportNothing, Remove, Kill, Anew, AnewFails, SetUp, Exec,
        SetUpEnds, CommandEnd, Shot, Ends, Write, Processes, Delete, Clean, Over, vars
    <3> QED BY <3>1, <3>2, <3>3 DEF Own, Noted
  <2> QED BY <2>1, <2>2, <2>3
<1> QED BY <1>1, <1>2, <1>3, <1>4, <1>5, <1>6, <1>7 DEF Own, given

LEMMA GroupTypes ==
  ASSUME L!TypeOK, [Next]_vars
  PROVE  L!TypeOK'
<1>1. [LP!Next]_LP!vars
  <2>1. L!Next \/ L!vars' = L!vars
    BY GroupStep
  <2>2. UNCHANGED L!vars => UNCHANGED LP!vars
    BY DEF L!vars, LP!vars
  <2> QED BY <2>1, <2>2, SameGroup
<1>2. LP!TypeOK'
  BY <1>1, SameGroup, LP!TypeStep
<1> QED BY <1>2
  DEF L!TypeOK, LP!TypeOK, L!PCs, LP!PCs, L!InApply, LP!InApply, L!InCleanup,
    LP!InCleanup, L!LimitFiles, LP!LimitFiles, L!Pid, LP!Pid, L!Writes, LP!Writes

LEMMA ChildTypes ==
  ASSUME B0!TypeOK, [Next]_vars
  PROVE  B0!TypeOK'
<1>1. UNCHANGED <<bcfg, caller, resolv, refused, left>>
  BY ChildStep
<1>2. CASE B!Next
  <2>1. BP!Next
    BY <1>2, SameChild
  <2>2. BP!TypeOK'
    BY <2>1, SameChild, BP!TypeStep
  <2> QED BY <1>1, <2>2, SameChild
<1>3. CASE /\ bpc' \in {bpc, "chroot", "exit1"}
           /\ UNCHANGED <<peer, mounts, hostMounts, root, cwd, cred, denied,
                          hostResolv, boxResolv>>
  BY <1>1, <1>3 DEF B0!TypeOK, B0!Steps, B0!Ended
<1> QED BY <1>2, <1>3, ChildStep DEF bvars

Types == L!TypeOK /\ B0!TypeOK /\ T!TypeOK /\ P!Paths /\ Own

LEMMA InitTypes == Init => Types
<1> SUFFICES ASSUME Init PROVE Types OBVIOUS
<1>1. L!TypeOK
  <2>1. L!Init
    BY DEF Init
  <2> QED BY <2>1, SameGroup, LP!InitType
<1>2. B0!TypeOK
  BY PartsAssumption DEF Init, B0!Init, B0!TypeOK, B0!Steps, B0!Cred
<1>3. T!TypeOK
  BY DEF Init, T!TypeOK, Nodes, Dirs, Root
<1>4. P!Paths
  <2>1. Root \in Nodes /\ P!Above(Root) = {Root}
    BY BoxTree, P!AboveStep DEF Root, Nodes, Dirs
  <2> QED BY <2>1 DEF Init, P!Paths, P!Listed, P!OnPath
<1>5. Own
  <2>1. Walking
    BY PathWords DEF Init, Walking
  <2>2. status \in WaitStatus /\ rc \in -1 .. 255
    BY DEF Init, Running, WaitStatus
  <2> QED BY <2>1, <2>2 DEF Init, Own, Noted
<1> QED BY <1>1, <1>2, <1>3, <1>4, <1>5 DEF Types

LEMMA TypesStep == IInv /\ Types /\ [Next]_vars => Types'
BY GroupTypes, ChildTypes, TreeTypes, OwnStep DEF Types

LEMMA TypesHold == Spec => []Types
BY InitTypes, TypesStep, Invariance, PTL DEF Spec

\* Every variable of a run and of what it works with keeps its type: also the
\* exit status (0 to 255), and the path mkdir_p works on.
THEOREM TypeCorrect == Spec => []TypeOK
<1>1. IInv /\ Types => TypeOK
  <2> SUFFICES ASSUME IInv, Types PROVE TypeOK OBVIOUS
  <2>1. walk \in Seq(Nodes \cup {"made"}) /\ Len(walk) <= 7
    <3>1. CASE walk = <<"made">>
      BY <3>1
    <3>2. CASE walk \in Seq(Nodes) /\ Len(walk) <= 7
      BY <3>2, SeqMonotonic
    <3>3. walk \in Seq(Nodes) /\ Len(walk) <= 3 => Len(walk) <= 7
      BY LenProperties
    <3> QED BY <3>1, <3>2, <3>3 DEF Types, Own, Walking, Path
  <2>2. phase \in Phases
    BY DEF IInv, Shapes
  <2> QED BY <2>1, <2>2 DEF Types, Own, Noted, TypeOK
<1> QED BY <1>1, TypesHold, Invariance, PTL

-----------------------------------------------------------------------------
(* What a run is for its group *)

(***************************************************************************)
(* Whatever the box, a delete or a clean do meanwhile: for its group a run *)
(* is a run of Cgroup (lsandbox_cgroup_apply, lsandbox_cgroup_cleanup).    *)
(***************************************************************************)
THEOREM FollowsCgroup == Spec => L!Spec
<1>1. Init => L!Init
  BY DEF Init
<1>2. [Next]_vars => [L!Next]_L!vars
  BY GroupStep
<1> QED BY <1>1, <1>2, PTL DEF Spec, L!Spec

LEMMA SameSpec == L!Spec => LP!Spec
<1>1. [L!Next]_L!vars => [LP!Next]_LP!vars
  BY SameGroup DEF L!vars, LP!vars
<1>2. L!Init => LP!Init
  BY SameGroup
<1> QED BY <1>1, <1>2, PTL DEF L!Spec, LP!Spec

(***************************************************************************)
(* So what is proved of Cgroup is true of every run: its group is not      *)
(* forgotten, a box is in it once apply has returned 0 and only after the  *)
(* limits were written, and it never has more processes than --pids says.  *)
(***************************************************************************)
THEOREM GroupGuarantees ==
  Spec => [](/\ L!NoLeak /\ L!ReturnsAfterBox /\ L!AppliedConfines
             /\ L!LimitsBeforeMembers /\ L!MembersWithinLimit)
<1> USE DEF L!Name, LP!Name, L!Sole, LP!Sole, L!Accepted, LP!Accepted
<1>1. LP!NoLeak => L!NoLeak
  BY DEF L!NoLeak, LP!NoLeak, L!Answerable, LP!Answerable, L!Finished, LP!Finished
<1>2. LP!ReturnsAfterBox => L!ReturnsAfterBox
  BY DEF L!ReturnsAfterBox, LP!ReturnsAfterBox
<1>3. LP!AppliedConfines => L!AppliedConfines
  BY DEF L!AppliedConfines, LP!AppliedConfines
<1>4. LP!LimitsBeforeMembers => L!LimitsBeforeMembers
  BY DEF L!LimitsBeforeMembers, LP!LimitsBeforeMembers, L!LimitFiles, LP!LimitFiles,
    L!ControlFiles, LP!ControlFiles, L!Requested, LP!Requested
<1>5. LP!MembersWithinLimit => L!MembersWithinLimit
  BY DEF L!MembersWithinLimit, LP!MembersWithinLimit, L!Cardinality, LP!Cardinality,
    L!IsFiniteSet, LP!IsFiniteSet
<1>6. LP!Spec => [](/\ LP!NoLeak /\ LP!ReturnsAfterBox /\ LP!AppliedConfines
                    /\ LP!LimitsBeforeMembers /\ LP!MembersWithinLimit)
  BY SameGroup, LP!GroupsAccountedFor, LP!BoxGoneOnReturn, LP!AppliedMeansConfined,
    LP!LimitsFirst, LP!PidsHold, PTL
<1> QED BY <1>1, <1>2, <1>3, <1>4, <1>5, <1>6, FollowsCgroup, SameSpec, PTL

(***************************************************************************)
(* --rm (lsandbox_cleanup_overlay_dirs) never works while a process of the *)
(* box is alive, and not before the launcher has reaped the child and has  *)
(* cleaned up its group.                                                   *)
(***************************************************************************)
THEOREM RemovesAfterBox == Spec => []RemovedAfterBox
<1>1. IInv /\ L!NoLeak => RemovedAfterBox
  BY DEF IInv, Removal, Lives, RemovedAfterBox, T!Active, L!NoLeak, L!Answerable,
    L!Name, Runs
<1> QED BY <1>1, GroupGuarantees, Invariance, PTL

-----------------------------------------------------------------------------
(* What the command is given *)

\* what child1 has done by each step, of the calls the host refuses from the start
Given ==
  /\ BP!Built(refused) /\ BP!Dropped(refused)
  /\ Unmounted => bpc # "exec"
  /\ ~Unmounted => BP!Furnished

\* the host, as long as no delete has begun and the box is as child1 expects it
HostSpared ==
  /\ hostMounts = {}
  /\ "unlink" \notin refused /\ "/etc" \notin left.links /\ rpc[del] = "idle" =>
       hostResolv = "intact"

\* what is lost, a delete has taken: --rm comes when child1 is over
Standing == rpc[del] = "idle" => lost = {}

LEMMA InitGiven == Init => Given /\ HostSpared /\ Standing
BY DEF Init, B0!Init, Given, HostSpared, Standing, Unmounted, BP!Built, BP!Furnished,
  BP!Dropped, BP!ToPrivate, BP!ToOverlay, BP!ToProc, BP!ToDev, BP!ToNodes, BP!ToShm,
  BP!ToPts, BP!ToRun, BP!ToDns, BP!ToChroot, BP!ToChdir, BP!ToSetGroups, BP!ToSetGid,
  BP!ToSetUid, BP!ToFilter, BP!ToExec

\* only a delete makes something lost, and only to child1
LEMMA LostFacts ==
  ASSUME IInv, [Next]_vars
  PROVE  /\ lost \subseteq lost'
         /\ rpc[del] # "idle" => rpc'[del] # "idle"
         /\ lost' # lost => rpc'[del] # "idle" /\ bpc # "exec" /\ UNCHANGED bvars
<1>1. CASE Remove
  <2>1. rpc'[del] = rpc[del]
    BY <1>1, RemoverFacts, SandboxAssumption DEF Remove, Removing, IInv, Procs
  <2>2. lost' = lost
    BY <1>1 DEF Remove, Removing, IInv, Leaving
  <2> QED BY <2>1, <2>2
<1>2. CASE Delete
  <2>1. rpc'[del] # "idle"
    BY <1>2, RemoverFacts DEF Delete, Removing, IInv, Procs
  <2>2. lost \subseteq lost' /\ UNCHANGED bvars
    BY <1>2 DEF Delete, Removing
  <2>3. lost' # lost => bpc # "exec"
    BY <1>2 DEF Delete, Removing, IInv, Lives
  <2> QED BY <2>1, <2>2, <2>3
<1>3. CASE ~(Remove \/ Delete)
  BY <1>3 DEF Next, Launcher, Box, Prepare, PrepareFails, Clone, CloneFails,
    LogStart, Supervise, Report, ReportNothing, Kill, Anew, AnewFails, SetUp, Exec,
    SetUpEnds, CommandEnd, Shot, Ends, Write, Processes, Clean, Over, vars, tvars,
    removers
<1> QED BY <1>1, <1>2, <1>3

LEMMA StandingStep == IInv /\ Standing /\ [Next]_vars => Standing'
BY LostFacts DEF Standing

\* who loses the directory goes on to chroot, or gives up: it does not get further
LEMMA GivenStep ==
  ASSUME IInv, B0!TypeOK, Given, [Next]_vars
  PROVE  Given'
<1>1. UNCHANGED <<bcfg, caller, resolv, refused, left>>
  BY ChildStep
<1>2. PICK R : R = refused
  OBVIOUS
<1>3. BP!Built(R) /\ BP!Dropped(R)
  BY <1>2 DEF Given
<1>4. Unmounted => Unmounted'
  BY LostFacts DEF Unmounted
<1> SUFFICES /\ BP!Built(R)' /\ BP!Dropped(R)'
             /\ Unmounted' => bpc' # "exec"
             /\ ~Unmounted' => BP!Furnished'
  BY <1>1, <1>2 DEF Given, BP!Built, BP!Dropped
<1>5. CASE B!Next
  <2>1. [BP!Next]_BP!vars /\ BP!TypeOK
    BY <1>5, SameChild
  <2>2. R \subseteq refused \cup Vanished
    BY <1>2
  <2>3. BP!Built(R)' /\ BP!Dropped(R)'
    BY <1>3, <2>1, <2>2, SameChild, BP!BuiltStep, BP!DroppedStep
  <2>4. ~Unmounted' => BP!Furnished'
    BY <1>4, <2>1, SameChild, BP!FurnishedStep DEF Given
  <2>5. Unmounted' => bpc' # "exec"
    <3> SUFFICES ASSUME Unmounted', bpc' = "exec" PROVE FALSE OBVIOUS
    <3>1. CASE lost' # lost
      BY <3>1, LostFacts DEF bvars
    <3>2. CASE lost' = lost
      <4>1. bpc # "exec" /\ "execvp" \in Vanished
        BY <3>2 DEF Given, Unmounted, Vanished
      <4> QED BY <1>5, <4>1 DEF B!Next, B!SetHostname, B!MakePrivate,
        B!MountOverlay, B!MountProc, B!MountDev, B!MakeNodes, B!MountShm, B!MountPts,
        B!MountRun, B!SetupResolv, B!Chroot, B!Chdir, B!SetGroups, B!SetGid,
        B!SetUid, B!InstallFilter, B!Exec, B!Over, B!MountStep, B!OrExit1, B!Stops,
        B!AfterChdir, B!Goto, B!At, B!Works, B!vars
    <3> QED BY <3>1, <3>2
  <2> QED BY <2>3, <2>4, <2>5
<1>6. CASE UNCHANGED bvars
  <2>1. BP!Drops' = BP!Drops /\ BP!RunId' = BP!RunId
        /\ BP!Filter(bcfg.mode)' = BP!Filter(bcfg.mode)
    BY <1>6 DEF bvars, BP!Drops, BP!RunId, BP!Filter
  <2>2. BP!Built(R)' /\ BP!Dropped(R)'
    BY <1>3, <1>6, <2>1 DEF bvars, BP!Built, BP!Dropped
  <2>3. ~Unmounted' => BP!Furnished'
    BY <1>4, <1>6 DEF bvars, Given, BP!Furnished
  <2>4. Unmounted' => bpc' # "exec"
    BY <1>6, LostFacts DEF bvars, Given, Unmounted
  <2> QED BY <2>2, <2>3, <2>4
<1>7. CASE /\ bpc \in MkdirSteps
           /\ bpc' = IF bpc = "dns" THEN "chroot" ELSE "exit1"
           /\ UNCHANGED <<peer, mounts, hostMounts, root, cwd, cred, denied,
                          hostResolv, boxResolv>>
  BY <1>1, <1>3, <1>4, <1>7
  DEF Given, MkdirSteps, BP!Built, BP!Furnished, BP!Dropped, BP!Drops, BP!RunId,
    BP!Filter, BP!ToPrivate, BP!ToOverlay, BP!ToProc, BP!ToDev, BP!ToNodes, BP!ToShm,
    BP!ToPts, BP!ToRun, BP!ToDns, BP!ToChroot, BP!ToChdir, BP!ToSetGroups, BP!ToSetGid,
    BP!ToSetUid, BP!ToFilter, BP!ToExec
<1> QED BY <1>5, <1>6, <1>7, ChildStep

\* the host's file is out of reach, since the box's can still be unlinked
LEMMA SparedStep ==
  ASSUME IInv, B0!TypeOK, Given, HostSpared, Standing, [Next]_vars
  PROVE  HostSpared'
<1>1. UNCHANGED <<refused, left>>
  BY ChildStep
<1>2. rpc'[del] = "idle" => rpc[del] = "idle"
  BY LostFacts
<1>3. CASE B!Next
  <2>1. [BP!Next]_BP!vars
    BY <1>3, SameChild
  <2>2. PICK Q : BP!Built(Q)
    BY DEF Given
  <2>3. hostMounts' = {}
    <3>1. BP!Mountless({"unlink"})
      BY DEF HostSpared, BP!Mountless
    <3>2. BP!Mountless({"unlink"})'
      BY <2>1, <2>2, <3>1, SameChild, BP!MountlessStep
    <3> QED BY <3>2 DEF BP!Mountless
  <2>4. ASSUME "unlink" \notin refused, "/etc" \notin left.links, rpc'[del] = "idle"
        PROVE  hostResolv' = "intact"
    <3>1. lost = {} /\ "unlink" \notin refused \cup Vanished
      BY <1>2, <2>4 DEF Standing, Vanished, Unmounted
    <3>2. BP!Mountless({})
      BY <1>2, <2>4 DEF HostSpared, BP!Mountless
    <3>3. BP!Mountless({})'
      BY <2>1, <2>2, <3>1, <3>2, SameChild, BP!MountlessStep
    <3>4. ~BP!Outside("/etc")'
      BY <1>1, <2>4 DEF BP!Outside, Bare
    <3> QED BY <3>3, <3>4 DEF BP!Mountless
  <2> QED BY <1>1, <2>3, <2>4 DEF HostSpared
<1>4. CASE UNCHANGED <<hostMounts, hostResolv>>
  BY <1>1, <1>2, <1>4 DEF HostSpared
<1> QED BY <1>3, <1>4, ChildStep DEF bvars

(***************************************************************************)
(* child1 fails closed also when delete or clean takes the directory away  *)
(* under it, at any step: what Child promises of the command holds of      *)
(* every run, and nothing it mounts shows on the host.  The host's         *)
(* resolver file is safe only as long as no delete has begun: when that    *)
(* takes the upper directory from under the overlay, the box's file can no *)
(* longer be unlinked (lsandbox_enter_rootfs, copy1, touser, the filter).  *)
(***************************************************************************)
THEOREM BoxGuarantees ==
  Spec => [](/\ B0!CommandConfined /\ B0!CommandUnprivileged
             /\ B0!FilterInForce /\ HostSpared)
<1>1. IInv /\ Types /\ Given /\ HostSpared /\ Standing /\ [Next]_vars =>
        (Given /\ HostSpared /\ Standing)'
  BY GivenStep, SparedStep, StandingStep DEF Types
<1>2. Types /\ Given => /\ B0!CommandConfined /\ B0!CommandUnprivileged
                        /\ B0!FilterInForce
  <2> SUFFICES ASSUME Types, Given
               PROVE  /\ B0!CommandConfined /\ B0!CommandUnprivileged
                      /\ B0!FilterInForce
    OBVIOUS
  <2>1. BP!TypeOK
    BY SameChild DEF Types
  <2>2. PICK R : R = refused
    OBVIOUS
  <2>3. BP!Built(R) /\ BP!Dropped(R)
    BY <2>2 DEF Given
  <2>4. B0!CommandConfined
    <3> SUFFICES ASSUME bpc = "exec" PROVE B0!CommandConfined
      BY DEF B0!CommandConfined, B0!At
    <3>1. ~Unmounted /\ BP!Furnished
      BY DEF Given
    <3> QED BY <2>2, <2>3, <3>1, SameChild, BP!Confined
      DEF B0!CommandConfined, B0!At, BP!At, B0!Needed, BP!Needed, B0!Drops, BP!Drops
  <2>5. B0!CommandUnprivileged
    BY <2>1, <2>3, SameChild, BP!Unprivileged
    DEF B0!CommandUnprivileged, BP!CommandUnprivileged, B0!At, BP!At
  <2>6. B0!FilterInForce
    BY <2>3, SameChild, BP!Filtered
    DEF B0!FilterInForce, BP!FilterInForce, B0!At, BP!At, B0!Filter, BP!Filter,
        B0!Basic, BP!Basic, B0!StrictOnly, BP!StrictOnly
  <2> QED BY <2>4, <2>5, <2>6
<1> QED BY <1>1, <1>2, InitGiven, TypesHold, Invariance, PTL DEF Spec

-----------------------------------------------------------------------------
(* --rm leaves nothing *)

\* nobody else works on the box, and nobody has
Quiet == rpc[del] = "idle" /\ cpc = "idle"

(***************************************************************************)
(* While it is quiet the box is a tree, and the only remover there may be  *)
(* is the run itself: what RmTree proves of removers in general is true of *)
(* it, although child1 may have built and the command may have written     *)
(* before.                                                                 *)
(***************************************************************************)
Undisturbed == Quiet => P!IInv

\* sandbox_run returns from --rm when the removal is over
Removed == phase = "returned" /\ rm /\ lpc[self] = "done" => rpc[self] \in T!Ended

\* who interferes does not become quiet again
LEMMA QuietSteps ==
  ASSUME IInv, Types, NEW n, DirStep(n), Quiet'
  PROVE  /\ Quiet
         /\ UNCHANGED tvars \/ (Added(n) /\ rpc[self] = "idle") \/ T!Remover(self)
<1>1. ASSUME NEW p \in Procs, T!Remover(p) PROVE p = self /\ rpc'[del] = rpc[del]
  <2>1. p # del
    BY <1>1, RemoverFacts DEF IInv, Quiet
  <2> QED BY <1>1, <2>1, RemoverFacts DEF IInv, Procs
<1> QED BY <1>1 DEF DirStep, Added, Quiet, tvars, removers

\* before any removal the invariant of RmTree says that the files are a tree
AllIdle == \A p \in Procs : rpc[p] = "idle"

LEMMA IdleRemovers == P!TypeOK /\ P!Paths /\ P!UpClosed(exists) /\ AllIdle => P!IInv
<1> SUFFICES ASSUME P!TypeOK, P!Paths, P!UpClosed(exists), AllIdle PROVE P!IInv
  OBVIOUS
<1> USE DEF AllIdle
<1>1. Root \in Nodes /\ P!Above(Root) = {Root}
  BY BoxTree, P!AboveStep DEF Root, Nodes, Dirs
<1>2. \A p \in Procs : open[p] = {}
  BY <1>1 DEF P!Paths, P!OnPath
<1>3. \A p \in Procs : P!Seen(p)
  BY <1>2 DEF P!Seen
<1>4. P!SuccessMeansGone /\ P!SomeFresh
  BY DEF P!SuccessMeansGone, P!SomeFresh
<1> QED BY <1>3, <1>4 DEF P!IInv

LEMMA IdleRemoversNext ==
  P!TypeOK' /\ P!Paths' /\ P!UpClosed(exists)' /\ AllIdle' => P!IInv'
BY IdleRemovers, PTL

LEMMA InitUndisturbed == Init => Undisturbed
<1> SUFFICES ASSUME Init PROVE P!IInv
  BY DEF Undisturbed
<1>1. P!TypeOK /\ P!Paths
  BY InitTypes, SameTree DEF Types
<1>2. P!UpClosed(exists)
  BY DEF Init, P!UpClosed, Parent, Root, Nodes, Dirs
<1> QED BY <1>1, <1>2, IdleRemovers DEF Init, AllIdle

LEMMA UndisturbedStep ==
  ASSUME IInv, Types, Types', Undisturbed, [Next]_vars
  PROVE  Undisturbed'
<1> SUFFICES ASSUME Quiet' PROVE P!IInv'
  BY DEF Undisturbed
<1>0. exists \subseteq Nodes
  BY DEF Types, T!TypeOK
<1>1. PICK n : DirStep(n)
  BY <1>0, DirChanges DEF Types
<1>2. P!IInv
  BY <1>1, QuietSteps DEF Undisturbed
<1>3. CASE UNCHANGED tvars
  <2>1. UNCHANGED P!vars
    BY <1>3 DEF tvars, removers, P!vars
  <2> QED BY <1>2, <2>1, BoxTree, P!IInvStep
<1>4. CASE T!Remover(self)
  <2>1. P!Next
    BY <1>4, SameTree DEF P!Next, Procs
  <2> QED BY <1>2, <2>1, BoxTree, P!IInvStep
<1>5. CASE Added(n) /\ rpc[self] = "idle"
  <2>1. AllIdle'
    BY <1>5 DEF Added, Procs, Quiet, AllIdle, removers
  <2>2. P!UpClosed(exists)'
    BY <1>2, <1>5 DEF P!IInv, P!UpClosed, Added
  <2>3. P!TypeOK' /\ P!Paths'
    BY DEF Types, T!TypeOK, P!TypeOK, T!Ended, P!Ended
  <2> QED BY <2>1, <2>2, <2>3, IdleRemoversNext
<1> QED BY <1>1, <1>3, <1>4, <1>5, QuietSteps

LEMMA RemovedStep ==
  ASSUME IInv, Removed, [Next]_vars
  PROVE  Removed'
<1> SUFFICES ASSUME phase' = "returned", rm', lpc'[self] = "done"
             PROVE  rpc'[self] \in T!Ended
  BY DEF Removed, T!Ended
<1>1. CASE Remove
  BY <1>1 DEF Remove, Removed, IInv
<1>2. CASE PrepareFails
  BY <1>2 DEF PrepareFails, lvars, IInv, Supervision
<1>3. CASE CloneFails \/ Report \/ ReportNothing
  BY <1>3 DEF CloneFails, Report, ReportNothing, Leave, given
<1>4. CASE Delete
  <2>1. rpc'[self] = rpc[self]
    BY <1>4, RemoverFacts, SandboxAssumption DEF Delete, Removing, IInv, Procs
  <2> QED BY <1>4, <2>1 DEF Delete, lvars, given, Removed
<1>5. CASE Prepare \/ Clone \/ LogStart \/ Supervise \/ Kill
  BY <1>5 DEF Prepare, Clone, LogStart, Supervise, Kill
<1>6. CASE Box
  BY <1>6, BoxFacts DEF IInv, given, Removed
<1>7. CASE Clean \/ Over \/ UNCHANGED vars
  <2>1. UNCHANGED <<phase, rm, lpc, rpc>>
    BY <1>7 DEF Clean, Over, vars, lvars, tvars, removers, given
  <2> QED BY <2>1 DEF Removed
<1> QED BY <1>1, <1>2, <1>3, <1>4, <1>5, <1>6, <1>7 DEF Next, Launcher

(***************************************************************************)
(* --rm (lsandbox_cleanup_overlay_dirs): when no delete or clean is given  *)
(* for the box, sandboxes/<name> is gone once sandbox_run has returned,    *)
(* whatever failed after clone, unless a call of the removal itself meets  *)
(* an error: the path of an entry that is too long, too many open files,   *)
(* or one of the system's (rmtree1).                                       *)
(***************************************************************************)
THEOREM RmLeavesNone == Spec => []RmClean
<1>1. Init => Removed
  BY DEF Init, Removed
<1>2. IInv /\ Types /\ Undisturbed /\ Removed => RmClean
  <2> SUFFICES ASSUME IInv, Types, Undisturbed, Removed, Quiet, troubled = {},
                      phase = "returned", rm, lpc[self] = "done"
               PROVE  exists = {}
    BY DEF RmClean, Quiet
  <2>1. P!IInv
    BY DEF Undisturbed
  <2>2. rpc[self] \in {"ok", "failed"}
    BY DEF Removed, T!Ended
  <2>3. CASE rpc[self] = "ok"
    BY <2>1, <2>3 DEF P!IInv, P!SuccessMeansGone, Procs
  <2>4. CASE rpc[self] = "failed"
    <3>1. \A q \in Procs : ~P!Fresh(q)
      BY <2>4 DEF P!Fresh, P!Active, P!Ended, Quiet, Procs
    <3>2. Root \notin exists
      BY <2>1, <2>4, <3>1 DEF P!IInv, P!SomeFresh, Procs
    <3> QED BY <2>1, <3>2, BoxTree, P!NoRootNoTree DEF P!IInv, P!TypeOK
  <2> QED BY <2>2, <2>3, <2>4
<1> QED
  BY <1>1, <1>2, InitUndisturbed, UndisturbedStep, RemovedStep, TypesHold, Invariance, PTL
  DEF Spec
=============================================================================
