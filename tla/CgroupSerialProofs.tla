------------------------- MODULE CgroupSerialProofs -------------------------
(***************************************************************************)
(* Proofs about runs of Cgroup one after the other (SerialSpec), whatever  *)
(* their names: earlier launchers may have been killed at any step or have *)
(* kept their group.  While one run is at work or has a process, all       *)
(* others are idle (Turns), so nobody is in the old group of its name, and *)
(* the rmdir of apply gets rid of it with its settings (Fresh).            *)
(***************************************************************************)
EXTENDS CgroupProofs

Turns == \A q, r \in Runs : q # r => Idle(q) \/ Idle(r)

Writing == {"stat", "open", "flush"}

Fresh(q) ==
  /\ hnd[q] = "live" => Name(q) \in dirs
  /\ incg[q] # {} => pc[q] \notin {"start"} \cup InApply
  /\ pc[q] = "mkdir" => Name(q) \notin dirs
  /\ pc[q] \in Writing \/ incg[q] # {} =>
       \A f \in LimitFiles : lim[Name(q)][f] \in {q, NoRun}

\* with no clean-cgroups about, the directory stays until the writes are done
InHandNow(q) ==
  ~Sweeping => /\ pc[q] \in Writing => Name(q) \in dirs
               /\ pc[q] = "flush" => hnd[q] = "live"

GoneIsClean == \A n \in Names \ dirs : lim[n] = NoLimits

SInv ==
  /\ TypeOK /\ Phases /\ Turns /\ GoneIsClean
  /\ \A q \in Runs : Fresh(q) /\ InHandNow(q) /\ (~Sweeping => Conf(q))

-----------------------------------------------------------------------------

LEMMA SerialIsNext == [SerialNext]_vars => [Next]_vars
BY DEF SerialNext

LEMMA InitSInv == Init => SInv
<1> SUFFICES ASSUME Init PROVE SInv OBVIOUS
<1>1. TypeOK /\ Phases
  BY InitType, InitPhases
<1>2. Turns /\ GoneIsClean
  BY DEF Init, Turns, Idle, GoneIsClean
<1>3. ASSUME NEW q \in Runs PROVE Fresh(q) /\ InHandNow(q) /\ Conf(q)
  BY <1>3 DEF Init, Fresh, InHandNow, Conf, InApply, Writing
<1> QED BY <1>1, <1>2, <1>3 DEF SInv

\* an idle run stays idle until it starts, and what it does not have it does not get
LEMMA IdleStep ==
  ASSUME TypeOK, Phases, [Next]_vars, NEW q \in Runs, Idle(q)
  PROVE  Idle(q)' \/ Clone(q)
<1> USE DEF Idle, TypeOK, InApply, InCleanup
<1>1. ASSUME NEW r \in Runs, Launcher(r) PROVE Idle(q)' \/ Clone(q)
  <2>1. CASE r # q
    BY <1>1, <2>1 DEF Launcher, Apply, Cleanup, Clone, CloneFails, CheckHost,
      StatOld, RmOld, Mkdir, MkdirFails, StatFile, OpenFile, Flush, Wait, CleanStat,
      CleanProcs, CleanRmdir, GiveUp, Undo, NextFile, CleanupReturns, Goto, procVars
  <2>2. CASE r = q
    BY <1>1, <2>2 DEF Launcher, Apply, Cleanup, CloneFails, CheckHost,
      StatOld, RmOld, Mkdir, MkdirFails, StatFile, OpenFile, Flush, Wait, CleanStat,
      CleanProcs, CleanRmdir, Goto, procVars
  <2> QED BY <2>1, <2>2
<1>2. ASSUME NEW r \in Runs, Box(r) PROVE Idle(q)'
  BY <1>2 DEF Box, ChildExec, InitExit, Fork, ProcExit, Phases, Phase
<1>3. ASSUME NEW r \in Runs, Killed(r) PROVE Idle(q)'
  BY <1>3 DEF Killed, Goto, procVars
<1>4. ASSUME NEW n \in Names, Sweep(n) PROVE Idle(q)'
  BY <1>4 DEF Sweep, procVars
<1>5. CASE UNCHANGED vars
  BY <1>5 DEF vars
<1> QED BY <1>1, <1>2, <1>3, <1>4, <1>5 DEF Next, AllOver

LEMMA TurnsStep ==
  ASSUME TypeOK, Phases, Turns, [SerialNext]_vars
  PROVE  Turns'
<1>1. ASSUME NEW q \in Runs, NEW r \in Runs, q # r, Clone(q) PROVE Idle(r)'
  <2>1. pc[q] = "start" /\ pc'[q] = "check"
    BY <1>1 DEF Clone, Goto, TypeOK
  <2>2. SerialNext
    BY <2>1 DEF vars
  <2>3. Idle(r)
    BY <1>1, <2>1, <2>2 DEF SerialNext
  <2> QED BY <1>1, <2>3 DEF Idle, Clone, Goto, TypeOK
<1>2. ASSUME NEW q \in Runs, Idle(q) PROVE Idle(q)' \/ Clone(q)
  BY <1>2, IdleStep, SerialIsNext
<1> QED BY <1>1, <1>2 DEF Turns

\* nobody is in the group of a run that has not got to its writes
LEMMA OldIsEmpty ==
  ASSUME TypeOK, Phases, Turns, NEW q \in Runs, Fresh(q),
         pc[q] = "rmold", Name(q) \in dirs
  PROVE  CanRmdir(Name(q))
<1>1. incg[q] = {}
  BY DEF Fresh, InApply
<1>2. \A r \in Runs \ {q} : incg[r] = {}
  BY DEF Turns, Idle, Phases, Phase, TypeOK
<1> QED BY <1>1, <1>2 DEF CanRmdir, Members

LEMMA GoneStep ==
  ASSUME TypeOK, GoneIsClean, \A q \in Runs : Fresh(q), [Next]_vars
  PROVE  GoneIsClean'
<1> USE DEF GoneIsClean, TypeOK
<1>0. \A r \in Runs : Name(r) \in Names
  BY CgroupAssumption DEF Name, Config
<1>1. ASSUME NEW n \in Names, RemoveDir(n) PROVE GoneIsClean'
  BY <1>1 DEF RemoveDir, NoLimits
<1>2. ASSUME dirs \subseteq dirs', lim' = lim PROVE GoneIsClean'
  BY <1>2 DEF NoLimits
<1>3. ASSUME NEW r \in Runs, Flush(r) PROVE GoneIsClean'
  BY <1>0, <1>3 DEF Flush, Fresh, NoLimits
<1>4. ASSUME NEW r \in Runs, Launcher(r), ~Flush(r) PROVE GoneIsClean'
  <2>1. \/ RemoveDir(Name(r))
        \/ dirs \subseteq dirs' /\ lim' = lim
    BY <1>4 DEF Launcher, Apply, Cleanup, Clone, CloneFails, CheckHost, StatOld,
      RmOld, Mkdir, MkdirFails, StatFile, OpenFile, Wait, CleanStat, CleanProcs,
      CleanRmdir, cgVars
  <2> QED BY <1>0, <1>1, <1>2, <2>1
<1>5. ASSUME NEW r \in Runs, Box(r) \/ Killed(r) PROVE GoneIsClean'
  BY <1>2, <1>5 DEF Box, ChildExec, InitExit, Fork, ProcExit, Killed, cgVars
<1>6. ASSUME NEW n \in Names, Sweep(n) PROVE GoneIsClean'
  BY <1>1, <1>6 DEF Sweep
<1>7. CASE UNCHANGED vars
  BY <1>2, <1>7 DEF vars
<1> QED BY <1>3, <1>4, <1>5, <1>6, <1>7 DEF Next, AllOver

\* a step of another run, which is only possible while q is idle or that run is
LEMMA OthersKeep ==
  ASSUME TypeOK, Phases, Turns, NEW q \in Runs, NEW r \in Runs, r # q,
         Launcher(r) \/ Box(r) \/ Killed(r), ~Clone(r), ~CloneFails(r)
  PROVE  Idle(q)
<1>1. ~Idle(r)
  BY DEF Idle, Launcher, Apply, Cleanup, CheckHost, StatOld, RmOld, Mkdir,
    MkdirFails, StatFile, OpenFile, Flush, Wait, CleanStat, CleanProcs, CleanRmdir,
    Box, ChildExec, InitExit, Fork, ProcExit, Killed, Phases, Phase
<1> QED BY <1>1 DEF Turns
\* rmdir of a group leaves q, if it has none of its processes there, no worse
LEMMA RmdirKeeps ==
  ASSUME TypeOK, NEW q \in Runs, NEW n \in Names, Fresh(q), RemoveDir(n),
         incg'[q] = incg[q], pc'[q] = pc[q], cfg' = cfg
  PROVE  Fresh(q)'
BY DEF TypeOK, Fresh, RemoveDir, NoLimits, Name

LEMMA FreshStep ==
  ASSUME TypeOK, Phases, Turns, GoneIsClean, [Next]_vars, NEW q \in Runs, Fresh(q)
  PROVE  Fresh(q)'
<1>a. Name(q)' = Name(q) /\ cfg' = cfg
  BY NamesFixed
<1>b. \A r \in Runs : Name(r) \in Names
  BY CgroupAssumption DEF TypeOK, Name, Config
<1>c. pc[q] = "start" => incg[q] = {}
  BY DEF Phases, Phase
<1> USE <1>a DEF TypeOK, Fresh, InApply, InCleanup, Writing
\* q itself
<1>1. CASE Clone(q) \/ CloneFails(q)
  BY <1>1, <1>c DEF Clone, CloneFails, Goto, cgVars, procVars
<1>2. CASE CheckHost(q)
  BY <1>2 DEF CheckHost, GiveUp, Goto, cgVars, procVars
<1>3. CASE StatOld(q)
  BY <1>3 DEF StatOld, Goto, cgVars, procVars
<1>4. CASE RmOld(q)
  <2>1. Name(q) \notin dirs'
    BY <1>4, OldIsEmpty DEF RmOld, RemoveDir, cgVars
  <2>2. /\ pc'[q] = "mkdir" /\ incg' = incg /\ incg[q] = {}
        /\ hnd'[q] = "live" => hnd[q] = "live" /\ Name(q) \in dirs'
    BY <1>4 DEF RmOld, RemoveDir, Goto, cgVars, procVars
  <2> QED BY <2>1, <2>2
<1>5. CASE Mkdir(q)
  <2>1. \A f \in LimitFiles : lim[Name(q)][f] = NoRun
    BY <1>5, <1>b DEF Mkdir, GoneIsClean, NoLimits
  <2> QED BY <1>5, <2>1 DEF Mkdir, Goto, procVars
<1>6. CASE MkdirFails(q)
  BY <1>6 DEF MkdirFails, GiveUp, Goto, cgVars, procVars
<1>7. CASE StatFile(q)
  BY <1>7 DEF StatFile, NextFile, Undo, Goto, cgVars, procVars
<1>8. CASE OpenFile(q)
  BY <1>8 DEF OpenFile, Undo, Goto, cgVars, procVars
<1>9. CASE Flush(q)
  <2>1. \A f \in LimitFiles : lim'[Name(q)][f] \in {lim[Name(q)][f], q}
    BY <1>9, <1>b DEF Flush
  <2>2. step[q] # 6 => incg' = incg
    <3>1. step[q] # 6 => File(q) # "cgroup.procs"
      BY WritesFacts DEF File, LimitFiles
    <3> QED BY <1>9, <3>1 DEF Flush
  <2>3. step[q] = 6 => pc'[q] = "wait"
    BY <1>9, WritesFacts DEF Flush, NextFile, Goto
  <2>4. pc'[q] \in {"stat", "wait"} /\ hnd'[q] = "none" /\ dirs' = dirs
    BY <1>9 DEF Flush, NextFile, Goto
  <2>5. incg[q] = {}
    BY <1>9 DEF Flush
  <2> QED BY <1>9, <2>1, <2>2, <2>3, <2>4, <2>5 DEF Flush
<1>10. CASE Wait(q)
  BY <1>10 DEF Wait, Goto, cgVars
<1>11. CASE CleanStat(q) \/ CleanProcs(q)
  BY <1>11 DEF CleanStat, CleanProcs, CleanupReturns, GiveUp, Goto, cgVars, procVars
<1>12. CASE CleanRmdir(q)
  BY <1>12, <1>b
  DEF CleanRmdir, RemoveDir, NoLimits, CleanupReturns, GiveUp, Goto, cgVars, procVars
<1>13. CASE Killed(q)
  BY <1>13 DEF Killed, Goto, cgVars, procVars
<1>14. CASE Box(q)
  BY <1>14 DEF Box, ChildExec, InitExit, Fork, ProcExit, cgVars
\* another run: q is idle, and has neither a process nor anything open
<1>15. ASSUME NEW r \in Runs, r # q, Clone(r) \/ CloneFails(r) PROVE Fresh(q)'
  BY <1>15 DEF Clone, CloneFails, Goto, cgVars, procVars
<1>16. ASSUME NEW r \in Runs, r # q, Launcher(r) \/ Box(r) \/ Killed(r),
              ~Clone(r), ~CloneFails(r)
       PROVE  Fresh(q)'
  <2>1. Idle(q)
    BY <1>16, OthersKeep
  <2>2. pc[q] \in {"start", "done", "killed"} /\ alive[q] = {} /\ incg[q] = {}
    BY <2>1 DEF Idle, Phases, Phase
  <2>3. Idle(q)'
    BY <1>16, <2>1, IdleStep DEF Clone, Launcher, Apply, Cleanup, CheckHost, StatOld,
      RmOld, Mkdir, MkdirFails, StatFile, OpenFile, Flush, Wait, CleanStat, CleanProcs,
      CleanRmdir, Box, ChildExec, InitExit, Fork, ProcExit, Killed, Goto, GiveUp,
      Undo, NextFile, CleanupReturns
  <2>4. incg'[q] = {}
    BY <2>3, PhasesStep DEF Idle, Phases, Phase
  <2>5. hnd'[q] = "live" => Name(q) \in dirs'
    BY <1>16 DEF Launcher, Apply, Cleanup, CheckHost, StatOld, RmOld, Mkdir,
      MkdirFails, StatFile, OpenFile, Flush, Wait, CleanStat, CleanProcs, CleanRmdir,
      RemoveDir, Box, ChildExec, InitExit, Fork, ProcExit, Killed, cgVars
  <2>6. pc'[q] \in {"start", "done", "killed"}
    BY <2>3 DEF Idle
  <2> QED BY <2>4, <2>5, <2>6
<1>17. ASSUME NEW n \in Names, Sweep(n) PROVE Fresh(q)'
  BY <1>17, RmdirKeeps DEF Sweep, procVars
<1>18. CASE UNCHANGED vars
  BY <1>18 DEF vars
<1> QED
  BY <1>1, <1>2, <1>3, <1>4, <1>5, <1>6, <1>7, <1>8, <1>9, <1>10, <1>11, <1>12,
     <1>13, <1>14, <1>15, <1>16, <1>17, <1>18
  DEF Next, Launcher, Apply, Cleanup, AllOver

LEMMA HandNowStep ==
  ASSUME TypeOK, Phases, Turns, [Next]_vars, NEW q \in Runs, InHandNow(q)
  PROVE  InHandNow(q)'
<1> SUFFICES ASSUME ~Sweeping PROVE InHandNow(q)'
  BY DEF InHandNow
<1>a. Name(q)' = Name(q)
  BY NamesFixed
<1> USE <1>a DEF TypeOK, InHandNow, InApply, InCleanup, Writing
<1>1. CASE Launcher(q)
  <2>1. CASE Mkdir(q)
    BY <2>1 DEF Mkdir, Goto
  <2>2. CASE StatFile(q)
    BY <2>2 DEF StatFile, NextFile, Undo, Goto, cgVars
  <2>3. CASE OpenFile(q)
    BY <2>3 DEF OpenFile, Undo, Goto, cgVars
  <2>4. CASE Flush(q)
    BY <2>4 DEF Flush, NextFile, Goto
  <2>5. CASE Launcher(q) /\ ~Mkdir(q) /\ ~StatFile(q) /\ ~OpenFile(q) /\ ~Flush(q)
    <3>1. pc'[q] \notin Writing
      BY <2>5 DEF Launcher, Apply, Cleanup, Clone, CloneFails, CheckHost, StatOld,
        RmOld, MkdirFails, Wait, CleanStat, CleanProcs, CleanRmdir, CleanupReturns,
        GiveUp, Goto
    <3> QED BY <3>1
  <2> QED BY <1>1, <2>1, <2>2, <2>3, <2>4, <2>5
<1>2. CASE Killed(q)
  BY <1>2 DEF Killed, Goto
<1>3. CASE Box(q)
  BY <1>3 DEF Box, ChildExec, InitExit, Fork, ProcExit, cgVars
<1>4. ASSUME NEW r \in Runs, r # q, Clone(r) \/ CloneFails(r) PROVE InHandNow(q)'
  BY <1>4 DEF Clone, CloneFails, Goto, cgVars
<1>5. ASSUME NEW r \in Runs, r # q, Launcher(r) \/ Box(r) \/ Killed(r),
             ~Clone(r), ~CloneFails(r)
      PROVE  InHandNow(q)'
  <2>1. Idle(q)
    BY <1>5, OthersKeep
  <2>2. Idle(q)' \/ Clone(q)
    BY <2>1, IdleStep
  <2>3. pc'[q] \notin Writing
    BY <2>2 DEF Idle, Clone, Goto
  <2> QED BY <2>3
<1>6. ASSUME NEW n \in Names, Sweep(n) PROVE InHandNow(q)'
  BY <1>6 DEF Sweep
<1>7. CASE UNCHANGED vars
  BY <1>7 DEF vars
<1> QED BY <1>1, <1>2, <1>3, <1>4, <1>5, <1>6, <1>7 DEF Next, AllOver

LEMMA SInvStep == SInv /\ [SerialNext]_vars => SInv'
<1> SUFFICES ASSUME SInv, [SerialNext]_vars PROVE SInv' OBVIOUS
<1>0. [Next]_vars
  BY SerialIsNext
<1>1. TypeOK' /\ Phases' /\ Turns' /\ GoneIsClean'
  BY <1>0, TypeStep, PhasesStep, TurnsStep, GoneStep DEF SInv
<1>2. ASSUME NEW q \in Runs PROVE Fresh(q)' /\ InHandNow(q)'
  BY <1>0, FreshStep, HandNowStep DEF SInv
<1>3. ASSUME NEW q \in Runs, ~Sweeping PROVE Conf(q)'
  BY <1>0, <1>3, ConfStep DEF SInv, InHandNow
<1> QED BY <1>1, <1>2, <1>3 DEF SInv

LEMMA SerialInductive == SerialSpec => []SInv
BY InitSInv, SInvStep, PTL DEF SerialSpec

(***************************************************************************)
(* However the launchers of earlier runs of a name ended, the box of a run *)
(* is held to its own limits or to none: lsandbox_cgroup_apply removes the *)
(* old directory, and with nobody in it that works.                        *)
(***************************************************************************)
THEOREM NoOldLimits == SerialSpec => []OwnLimitsOnly
<1>1. SInv => OwnLimitsOnly
  BY DEF SInv, Fresh, OwnLimitsOnly
<1> QED BY <1>1, SerialInductive, PTL

\* and after any such history apply still confines, with no clean-cgroups about
THEOREM ConfinedAgain == SerialSpec => []RestartConfines
<1>1. SInv => RestartConfines
  BY DEF SInv, Conf, RestartConfines
<1> QED BY <1>1, SerialInductive, PTL
=============================================================================
