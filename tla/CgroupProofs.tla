---------------------------- MODULE CgroupProofs ----------------------------
(***************************************************************************)
(* Proofs about Cgroup, for any set of runs, names, configurations and     *)
(* hosts.  The argument has three layers:                                  *)
(*   - Phases ties a launcher's position to the state of its child, and a  *)
(*     box's processes to its init: whoever is alive has a live init, and  *)
(*     whoever's init lives has a launcher that is not done;               *)
(*   - NoLeak is then inductive: a cleanup that gives up on a busy group   *)
(*     has seen a process, and that process names the run that is still    *)
(*     responsible for the group;                                          *)
(*   - InHand says that a launcher nobody interferes with still has, from  *)
(*     mkdir to its last write, the directory it made.                     *)
(***************************************************************************)
EXTENDS Cgroup, TLAPS

Phase(r) ==
  /\ alive[r] # {} => child[r] \in {"setup", "running"}
  /\ child[r] \in {"setup", "running"} => 0 \in alive[r]
  /\ incg[r] \subseteq alive[r]
  /\ pc[r] = "start" => child[r] = "none"
  /\ child[r] = "none" => pc[r] \in {"start", "done"}
  /\ pc[r] = "done" => child[r] \in {"none", "reaped"}
  /\ pc[r] \in InApply \cup {"start"} => applied[r] = "pending"
  /\ pc[r] = "wait" => applied[r] # "pending"
  /\ pc[r] \in InCleanup /\ applied[r] # "pending" => child[r] = "reaped"

Phases == \A r \in Runs : Phase(r)

\* a run of its own name, with no clean-cgroups about
Alone(r) == ~Sweeping /\ Sole(r)

InHand ==
  \A r \in Runs : Alone(r) =>
    /\ pc[r] \in {"stat", "open", "flush"} => Name(r) \in dirs
    /\ pc[r] = "flush" => hnd[r] = "live"

IInv == TypeOK /\ Phases /\ NoLeak /\ InHand /\ AppliedConfines

-----------------------------------------------------------------------------
(* Facts about the definitions *)

\* apply writes six files, cgroup.procs last
LEMMA WritesFacts ==
  /\ DOMAIN Writes = 1 .. 6
  /\ Len(Writes) = 6
  /\ \A i \in DOMAIN Writes : i # 6 => Writes[i] \in LimitFiles
  /\ Writes[6] = "cgroup.procs"
BY DEF Writes, LimitFiles

\* what a run was asked to do, and its box name, never change
LEMMA NamesFixed ==
  ASSUME [Next]_vars
  PROVE  cfg' = cfg /\ host' = host /\ \A r \in Runs : Name(r)' = Name(r)
<1>1. cfg' = cfg /\ host' = host
  BY DEF Next, vars, Launcher, Box, Apply, Cleanup, Clone, CloneFails,
         CheckHost, StatOld, RmOld, Mkdir, MkdirFails, StatFile, OpenFile,
         Flush, Wait, CleanStat, CleanProcs, CleanRmdir, ChildExec, InitExit,
         Fork, ProcExit, Killed, Sweep, AllOver
<1> QED BY <1>1 DEF Name

-----------------------------------------------------------------------------
(* Types *)

LEMMA InitType == Init => TypeOK
BY CgroupAssumption, WritesFacts
DEF Init, TypeOK, NoLimits, PCs, Pid

LEMMA TypeStep == TypeOK /\ [Next]_vars => TypeOK'
<1> SUFFICES ASSUME TypeOK, [Next]_vars PROVE TypeOK' OBVIOUS
<1> USE CgroupAssumption DEF TypeOK, PCs, InApply, InCleanup
<1> DEFINE names == \A r \in Runs : Name(r) \in Names
<1>0. names BY DEF Name, Config
<1>1. ASSUME NEW r \in Runs, Clone(r) PROVE TypeOK'
  BY <1>1 DEF Clone, Goto, cgVars, Pid
<1>2. ASSUME NEW r \in Runs, CloneFails(r) PROVE TypeOK'
  BY <1>2 DEF CloneFails, Goto, cgVars, procVars
<1>3. ASSUME NEW r \in Runs, CheckHost(r) PROVE TypeOK'
  BY <1>3 DEF CheckHost, GiveUp, Goto, cgVars, procVars
<1>4. ASSUME NEW r \in Runs, StatOld(r) PROVE TypeOK'
  BY <1>4 DEF StatOld, Goto, cgVars, procVars
<1>5. ASSUME NEW r \in Runs, RmOld(r) PROVE TypeOK'
  BY <1>5, <1>0 DEF RmOld, RemoveDir, NoLimits, Goto, cgVars, procVars
<1>6. ASSUME NEW r \in Runs, Mkdir(r) PROVE TypeOK'
  BY <1>6, <1>0 DEF Mkdir, Goto, procVars
<1>7. ASSUME NEW r \in Runs, MkdirFails(r) PROVE TypeOK'
  BY <1>7 DEF MkdirFails, GiveUp, Goto, cgVars, procVars
<1>8. ASSUME NEW r \in Runs, StatFile(r) PROVE TypeOK'
  BY <1>8, WritesFacts DEF StatFile, NextFile, Undo, Goto, cgVars, procVars
<1>9. ASSUME NEW r \in Runs, OpenFile(r) PROVE TypeOK'
  BY <1>9 DEF OpenFile, Undo, Goto, cgVars, procVars
<1>10. ASSUME NEW r \in Runs, Flush(r) PROVE TypeOK'
  <2>1. lim' \in [Names -> [LimitFiles -> Runs \cup {NoRun}]]
    BY <1>10, <1>0 DEF Flush
  <2>2. incg' \in [Runs -> SUBSET Pid]
    BY <1>10 DEF Flush, Pid
  <2>3. step' \in [Runs -> DOMAIN Writes] /\ pc' \in [Runs -> PCs]
        /\ applied' \in [Runs -> {"pending", "ok", "failed"}]
    BY <1>10, WritesFacts DEF Flush, NextFile, Goto
  <2> QED BY <1>10, <2>1, <2>2, <2>3 DEF Flush
<1>11. ASSUME NEW r \in Runs, Wait(r) PROVE TypeOK'
  BY <1>11 DEF Wait, Goto, cgVars
<1>12. ASSUME NEW r \in Runs, CleanStat(r) PROVE TypeOK'
  BY <1>12 DEF CleanStat, CleanupReturns, GiveUp, Goto, cgVars, procVars
<1>13. ASSUME NEW r \in Runs, CleanProcs(r) PROVE TypeOK'
  BY <1>13 DEF CleanProcs, CleanupReturns, GiveUp, Goto, cgVars, procVars
<1>14. ASSUME NEW r \in Runs, CleanRmdir(r) PROVE TypeOK'
  <2>1. dirs' \subseteq Names /\ hnd' \in [Runs -> {"none", "live", "stale"}]
        /\ lim' \in [Names -> [LimitFiles -> Runs \cup {NoRun}]]
    BY <1>14, <1>0 DEF CleanRmdir, RemoveDir, NoLimits, cgVars
  <2>2. pc' \in [Runs -> PCs] /\ applied' \in [Runs -> {"pending", "ok", "failed"}]
    BY <1>14 DEF CleanRmdir, CleanupReturns, GiveUp, Goto
  <2> QED BY <1>14, <2>1, <2>2 DEF CleanRmdir, procVars
<1>15. ASSUME NEW r \in Runs, ChildExec(r) PROVE TypeOK'
  BY <1>15 DEF ChildExec, cgVars
<1>16. ASSUME NEW r \in Runs, InitExit(r) PROVE TypeOK'
  BY <1>16 DEF InitExit, cgVars
<1>17. ASSUME NEW r \in Runs, Fork(r) PROVE TypeOK'
  BY <1>17 DEF Fork, cgVars
<1>18. ASSUME NEW r \in Runs, ProcExit(r) PROVE TypeOK'
  BY <1>18 DEF ProcExit, cgVars
<1>19. ASSUME NEW r \in Runs, Killed(r) PROVE TypeOK'
  BY <1>19 DEF Killed, Goto, cgVars, procVars
<1>20. ASSUME NEW n \in Names, Sweep(n) PROVE TypeOK'
  BY <1>20 DEF Sweep, RemoveDir, NoLimits, procVars
<1>21. CASE UNCHANGED vars
  BY <1>21 DEF vars
<1> QED
  BY <1>1, <1>2, <1>3, <1>4, <1>5, <1>6, <1>7, <1>8, <1>9, <1>10, <1>11,
     <1>12, <1>13, <1>14, <1>15, <1>16, <1>17, <1>18, <1>19, <1>20, <1>21
  DEF Next, Launcher, Box, Apply, Cleanup, AllOver


-----------------------------------------------------------------------------
(* Where a launcher is, and who lives *)

LEMMA InitPhases == Init => Phases
BY DEF Init, Phases, Phase, InApply, InCleanup

LEMMA PhasesStep == TypeOK /\ Phases /\ [Next]_vars => Phases'
<1> SUFFICES ASSUME TypeOK, Phases, [Next]_vars, NEW q \in Runs PROVE Phase(q)'
  BY DEF Phases
<1> USE DEF Phases, Phase, InApply, InCleanup
<1> USE TypeOK DEF TypeOK, PCs
<1>1. ASSUME NEW r \in Runs, Clone(r) PROVE Phase(q)'
  BY <1>1 DEF Clone, Goto
<1>2. ASSUME NEW r \in Runs, CloneFails(r) PROVE Phase(q)'
  BY <1>2 DEF CloneFails, Goto, procVars
<1>3. ASSUME NEW r \in Runs, CheckHost(r) PROVE Phase(q)'
  BY <1>3 DEF CheckHost, GiveUp, Goto, procVars
<1>4. ASSUME NEW r \in Runs, StatOld(r) PROVE Phase(q)'
  BY <1>4 DEF StatOld, Goto, procVars
<1>5. ASSUME NEW r \in Runs, RmOld(r) PROVE Phase(q)'
  BY <1>5 DEF RmOld, Goto, procVars
<1>6. ASSUME NEW r \in Runs, Mkdir(r) PROVE Phase(q)'
  BY <1>6 DEF Mkdir, Goto, procVars
<1>7. ASSUME NEW r \in Runs, MkdirFails(r) PROVE Phase(q)'
  BY <1>7 DEF MkdirFails, GiveUp, Goto, procVars
<1>8. ASSUME NEW r \in Runs, StatFile(r) PROVE Phase(q)'
  BY <1>8 DEF StatFile, NextFile, Undo, Goto, procVars
<1>9. ASSUME NEW r \in Runs, OpenFile(r) PROVE Phase(q)'
  BY <1>9 DEF OpenFile, Undo, Goto, procVars
<1>10. ASSUME NEW r \in Runs, Flush(r) PROVE Phase(q)'
  BY <1>10 DEF Flush, NextFile, Goto
<1>11. ASSUME NEW r \in Runs, Wait(r) PROVE Phase(q)'
  BY <1>11 DEF Wait, Goto
<1>12. ASSUME NEW r \in Runs, CleanStat(r) PROVE Phase(q)'
  BY <1>12 DEF CleanStat, CleanupReturns, GiveUp, Goto, procVars
<1>13. ASSUME NEW r \in Runs, CleanProcs(r) PROVE Phase(q)'
  BY <1>13 DEF CleanProcs, CleanupReturns, GiveUp, Goto, procVars
<1>14. ASSUME NEW r \in Runs, CleanRmdir(r) PROVE Phase(q)'
  BY <1>14 DEF CleanRmdir, CleanupReturns, GiveUp, Goto, procVars
<1>15. ASSUME NEW r \in Runs, ChildExec(r) PROVE Phase(q)'
  BY <1>15 DEF ChildExec
<1>16. ASSUME NEW r \in Runs, InitExit(r) PROVE Phase(q)'
  BY <1>16 DEF InitExit, CloneFlags
<1>17. ASSUME NEW r \in Runs, Fork(r) PROVE Phase(q)'
  BY <1>17 DEF Fork
<1>18. ASSUME NEW r \in Runs, ProcExit(r) PROVE Phase(q)'
  BY <1>18 DEF ProcExit
<1>19. ASSUME NEW r \in Runs, Killed(r) PROVE Phase(q)'
  BY <1>19 DEF Killed, Goto, procVars
<1>20. ASSUME NEW n \in Names, Sweep(n) PROVE Phase(q)'
  BY <1>20 DEF Sweep, procVars
<1>21. CASE UNCHANGED vars
  BY <1>21 DEF vars
<1> QED
  BY <1>1, <1>2, <1>3, <1>4, <1>5, <1>6, <1>7, <1>8, <1>9, <1>10, <1>11,
     <1>12, <1>13, <1>14, <1>15, <1>16, <1>17, <1>18, <1>19, <1>20, <1>21
  DEF Next, Launcher, Box, Apply, Cleanup, AllOver

LEMMA PhasesBox == TypeOK /\ Phases => ReturnsAfterBox
BY DEF TypeOK, Phases, Phase, ReturnsAfterBox


-----------------------------------------------------------------------------
(* No group directory is forgotten *)

\* whoever sits in a group has a launcher that has not returned
LEMMA BusyHasOwner ==
  ASSUME TypeOK, Phases, NEW n, Members(n) # {}
  PROVE  \E q \in Runs : /\ Name(q) = n
                         /\ child[q] \in {"setup", "running"}
                         /\ pc[q] \notin {"start", "done"}
<1>1. PICK m \in Members(n) : TRUE OBVIOUS
<1>2. m[1] \in Runs /\ Name(m[1]) = n /\ m[2] \in incg[m[1]]
  BY <1>1 DEF Members
<1> QED BY <1>2 DEF TypeOK, Phases, Phase

LEMMA InitLeak == Init => NoLeak
BY DEF Init, NoLeak

LEMMA LeakStep == TypeOK /\ Phases /\ NoLeak /\ [Next]_vars => NoLeak'
<1> SUFFICES ASSUME TypeOK, Phases, NoLeak, [Next]_vars, NEW n \in dirs'
             PROVE  \E q \in Runs : Name(q)' = n /\ Answerable(q)'
  BY DEF NoLeak
<1> DEFINE Kept == \E q \in Runs : Name(q)' = n /\ Answerable(q)'
<1>a. cfg' = cfg /\ \A q \in Runs : Name(q)' = Name(q) BY NamesFixed
<1>b. n \in dirs => \E q \in Runs : Name(q) = n /\ Answerable(q) BY DEF NoLeak
\* no launcher that was at work comes to its end
<1>c. ASSUME n \in dirs,
             \A q \in Runs : /\ pc[q] # "start" => pc'[q] # "start"
                             /\ pc'[q] = "done" => pc[q] \in {"done", "start"}
                             /\ child[q] = "reaped" => child'[q] = "reaped"
      PROVE  Kept
  <2>1. PICK q \in Runs : Name(q) = n /\ Answerable(q) BY <1>b, <1>c
  <2>2. pc'[q] # "start" BY <2>1, <1>c DEF Answerable
  <2>3. pc'[q] = "done" => pc[q] = "done" BY <2>1, <1>c DEF Answerable
  <2>4. child[q] = "reaped" => child'[q] = "reaped" BY <1>c
  <2>5. Answerable(q)' BY <2>1, <2>2, <2>3, <2>4, <1>a DEF Answerable, Finished
  <2> QED BY <2>1, <2>5, <1>a
\* the final cleanup of r ends with n still there: kept on purpose, or busy
<1>d. ASSUME NEW r \in Runs, n \in dirs, pc[r] \in InCleanup, applied[r] # "pending",
             pc' = [pc EXCEPT ![r] = "done"], UNCHANGED child,
             Name(r) = n => cfg[r].keep \/ Members(n) # {}
      PROVE  Kept
  <2>1. child[r] = "reaped" BY <1>d DEF Phases, Phase
  <2>2. CASE Name(r) = n /\ cfg[r].keep
    <3>1. Answerable(r)' BY <1>a, <1>d, <2>1, <2>2 DEF Answerable, Finished, TypeOK
    <3> QED BY <3>1, <2>2, <1>a
  <2>3. CASE Members(n) # {}
    <3>1. PICK q \in Runs : /\ Name(q) = n
                            /\ child[q] \in {"setup", "running"}
                            /\ pc[q] \notin {"start", "done"}
      BY <2>3, BusyHasOwner
    <3>2. Answerable(q)' BY <1>d, <2>1, <3>1 DEF Answerable, TypeOK
    <3> QED BY <3>1, <3>2, <1>a
  <2>4. CASE Name(r) # n
    <3>1. PICK q \in Runs : Name(q) = n /\ Answerable(q) BY <1>b, <1>d
    <3>2. Answerable(q)' BY <1>a, <1>d, <2>4, <3>1 DEF Answerable, Finished, TypeOK
    <3> QED BY <3>1, <3>2, <1>a
  <2> QED BY <1>d, <2>2, <2>3, <2>4
<1>1. ASSUME NEW r \in Runs, Clone(r) PROVE Kept
  BY <1>1, <1>c DEF TypeOK, Phases, Phase, Clone, Goto, cgVars
<1>2. ASSUME NEW r \in Runs, CloneFails(r) PROVE Kept
  BY <1>2, <1>c DEF TypeOK, CloneFails, Goto, procVars, cgVars
<1>3. ASSUME NEW r \in Runs, CheckHost(r) PROVE Kept
  BY <1>3, <1>c DEF TypeOK, CheckHost, GiveUp, Goto, procVars, cgVars
<1>4. ASSUME NEW r \in Runs, StatOld(r) PROVE Kept
  BY <1>4, <1>c DEF TypeOK, StatOld, Goto, procVars, cgVars
<1>5. ASSUME NEW r \in Runs, MkdirFails(r) PROVE Kept
  BY <1>5, <1>c DEF TypeOK, MkdirFails, GiveUp, Goto, procVars, cgVars
<1>6. ASSUME NEW r \in Runs, StatFile(r) PROVE Kept
  BY <1>6, <1>c DEF TypeOK, StatFile, NextFile, Undo, Goto, procVars, cgVars
<1>7. ASSUME NEW r \in Runs, OpenFile(r) PROVE Kept
  BY <1>7, <1>c DEF TypeOK, OpenFile, Undo, Goto, procVars, cgVars
<1>8. ASSUME NEW r \in Runs, Flush(r) PROVE Kept
  BY <1>8, <1>c DEF TypeOK, Flush, NextFile, Goto
<1>9. ASSUME NEW r \in Runs, ChildExec(r) PROVE Kept
  BY <1>9, <1>c DEF TypeOK, ChildExec, cgVars
<1>10. ASSUME NEW r \in Runs, InitExit(r) PROVE Kept
  BY <1>10, <1>c DEF TypeOK, InitExit, CloneFlags, cgVars
<1>11. ASSUME NEW r \in Runs, Fork(r) PROVE Kept
  BY <1>11, <1>c DEF TypeOK, Fork, cgVars
<1>12. ASSUME NEW r \in Runs, ProcExit(r) PROVE Kept
  BY <1>12, <1>c DEF TypeOK, ProcExit, cgVars
<1>13. ASSUME NEW r \in Runs, Killed(r) PROVE Kept
  BY <1>13, <1>c DEF TypeOK, Killed, Goto, procVars, cgVars
<1>14. ASSUME NEW r \in Runs, RmOld(r) PROVE Kept
  BY <1>14, <1>c DEF TypeOK, RmOld, RemoveDir, Goto, procVars, cgVars
<1>15. ASSUME NEW r \in Runs, Mkdir(r) PROVE Kept
  <2>1. CASE n = Name(r)
    <3>1. Answerable(r)' BY <1>15 DEF Mkdir, Goto, Answerable, TypeOK
    <3> QED BY <2>1, <3>1, <1>a
  <2>2. CASE n # Name(r)
    BY <1>15, <1>c, <2>2 DEF TypeOK, Mkdir, Goto, procVars
  <2> QED BY <2>1, <2>2
<1>16. ASSUME NEW r \in Runs, Wait(r) PROVE Kept
  <2>1. PICK q \in Runs : Name(q) = n /\ Answerable(q)
    BY <1>b, <1>16 DEF Wait, cgVars
  <2>2. Answerable(q)'
    BY <1>a, <1>16, <2>1 DEF Wait, Goto, Answerable, Finished, TypeOK
  <2> QED BY <2>1, <2>2, <1>a
<1>17. ASSUME NEW r \in Runs, CleanStat(r) PROVE Kept
  <2>1. CASE pc' = [pc EXCEPT ![r] = "done"]
    BY <1>17, <2>1, <1>d
    DEF CleanStat, CleanupReturns, GiveUp, Goto, InCleanup, procVars, cgVars, TypeOK
  <2>2. CASE pc' \in {[pc EXCEPT ![r] = "wait"], [pc EXCEPT ![r] = "cprocs"]}
    BY <1>17, <2>2, <1>c DEF CleanStat, procVars, cgVars, TypeOK
  <2> QED BY <1>17, <2>1, <2>2 DEF CleanStat, CleanupReturns, GiveUp, Goto
<1>18. ASSUME NEW r \in Runs, CleanProcs(r) PROVE Kept
  <2>1. CASE pc' = [pc EXCEPT ![r] = "done"]
    BY <1>18, <2>1, <1>d
    DEF CleanProcs, CleanupReturns, GiveUp, Goto, InCleanup, procVars, cgVars, TypeOK
  <2>2. CASE pc' \in {[pc EXCEPT ![r] = "wait"], [pc EXCEPT ![r] = "crmdir"]}
    BY <1>18, <2>2, <1>c DEF CleanProcs, procVars, cgVars, TypeOK
  <2> QED BY <1>18, <2>1, <2>2 DEF CleanProcs, CleanupReturns, GiveUp, Goto
<1>19. ASSUME NEW r \in Runs, CleanRmdir(r) PROVE Kept
  <2>1. n \in dirs /\ (Name(r) = n => Members(n) # {})
    BY <1>19 DEF CleanRmdir, RemoveDir, CanRmdir, cgVars, TypeOK
  <2>2. CASE pc' = [pc EXCEPT ![r] = "done"]
    BY <1>19, <2>1, <2>2, <1>d
    DEF CleanRmdir, CleanupReturns, GiveUp, Goto, InCleanup, procVars, TypeOK
  <2>3. CASE pc' = [pc EXCEPT ![r] = "wait"]
    BY <1>19, <2>1, <2>3, <1>c DEF CleanRmdir, procVars, TypeOK
  <2> QED BY <1>19, <2>2, <2>3 DEF CleanRmdir, CleanupReturns, GiveUp, Goto
<1>20. ASSUME NEW m \in Names, Sweep(m) PROVE Kept
  BY <1>20, <1>c DEF Sweep, RemoveDir, procVars
<1>21. CASE UNCHANGED vars
  BY <1>21, <1>c DEF vars
<1> QED
  BY <1>1, <1>2, <1>3, <1>4, <1>5, <1>6, <1>7, <1>8, <1>9, <1>10, <1>11,
     <1>12, <1>13, <1>14, <1>15, <1>16, <1>17, <1>18, <1>19, <1>20, <1>21
  DEF Next, Launcher, Box, Apply, Cleanup, AllOver


-----------------------------------------------------------------------------
(* A box whose limits were applied is in its group *)

LEMMA AloneFixed ==
  ASSUME [Next]_vars, NEW r \in Runs PROVE Alone(r)' = Alone(r)
BY NamesFixed DEF Alone, Sole

LEMMA InitHand == Init => InHand
BY DEF Init, InHand

LEMMA HandStep == TypeOK /\ InHand /\ [Next]_vars => InHand'
<1> DEFINE Hand(q) == /\ pc[q] \in {"stat", "open", "flush"} => Name(q) \in dirs
                      /\ pc[q] = "flush" => hnd[q] = "live"
<1> SUFFICES ASSUME TypeOK, InHand, [Next]_vars, NEW q \in Runs, Alone(q)
             PROVE  Hand(q)'
  BY AloneFixed DEF InHand
<1>a. Hand(q) /\ ~Sweeping /\ \A r \in Runs : Name(r) = Name(q) => r = q
  BY DEF InHand, Alone, Sole
<1>b. Name(q)' = Name(q) BY NamesFixed
<1> USE <1>a, <1>b, TypeOK DEF TypeOK
<1>1. ASSUME NEW r \in Runs, Clone(r) PROVE Hand(q)'
  BY <1>1 DEF Clone, Goto, cgVars
<1>2. ASSUME NEW r \in Runs, CloneFails(r) PROVE Hand(q)'
  BY <1>2 DEF CloneFails, Goto, cgVars
<1>3. ASSUME NEW r \in Runs, CheckHost(r) PROVE Hand(q)'
  BY <1>3 DEF CheckHost, GiveUp, Goto, cgVars
<1>4. ASSUME NEW r \in Runs, StatOld(r) PROVE Hand(q)'
  BY <1>4 DEF StatOld, Goto, cgVars
<1>5. ASSUME NEW r \in Runs, RmOld(r) PROVE Hand(q)'
  BY <1>5 DEF RmOld, RemoveDir, Goto, cgVars
<1>6. ASSUME NEW r \in Runs, Mkdir(r) PROVE Hand(q)'
  BY <1>6 DEF Mkdir, Goto
<1>7. ASSUME NEW r \in Runs, MkdirFails(r) PROVE Hand(q)'
  BY <1>7 DEF MkdirFails, GiveUp, Goto, cgVars
<1>8. ASSUME NEW r \in Runs, StatFile(r) PROVE Hand(q)'
  BY <1>8 DEF StatFile, NextFile, Undo, Goto, cgVars
<1>9. ASSUME NEW r \in Runs, OpenFile(r) PROVE Hand(q)'
  BY <1>9 DEF OpenFile, Undo, Goto, cgVars
<1>10. ASSUME NEW r \in Runs, Flush(r) PROVE Hand(q)'
  BY <1>10 DEF Flush, NextFile, Goto
<1>11. ASSUME NEW r \in Runs, Wait(r) PROVE Hand(q)'
  BY <1>11 DEF Wait, Goto, cgVars
<1>12. ASSUME NEW r \in Runs, CleanStat(r) PROVE Hand(q)'
  BY <1>12 DEF CleanStat, CleanupReturns, GiveUp, Goto, cgVars
<1>13. ASSUME NEW r \in Runs, CleanProcs(r) PROVE Hand(q)'
  BY <1>13 DEF CleanProcs, CleanupReturns, GiveUp, Goto, cgVars
<1>14. ASSUME NEW r \in Runs, CleanRmdir(r) PROVE Hand(q)'
  BY <1>14 DEF CleanRmdir, RemoveDir, CleanupReturns, GiveUp, Goto, cgVars
<1>15. ASSUME NEW r \in Runs, ChildExec(r) PROVE Hand(q)'
  BY <1>15 DEF ChildExec, cgVars
<1>16. ASSUME NEW r \in Runs, InitExit(r) PROVE Hand(q)'
  BY <1>16 DEF InitExit, cgVars
<1>17. ASSUME NEW r \in Runs, Fork(r) PROVE Hand(q)'
  BY <1>17 DEF Fork, cgVars
<1>18. ASSUME NEW r \in Runs, ProcExit(r) PROVE Hand(q)'
  BY <1>18 DEF ProcExit, cgVars
<1>19. ASSUME NEW r \in Runs, Killed(r) PROVE Hand(q)'
  BY <1>19 DEF Killed, Goto, cgVars
<1>20. ASSUME NEW n \in Names, Sweep(n) PROVE Hand(q)'
  BY <1>20 DEF Sweep
<1>21. CASE UNCHANGED vars
  BY <1>21 DEF vars
<1> QED
  BY <1>1, <1>2, <1>3, <1>4, <1>5, <1>6, <1>7, <1>8, <1>9, <1>10, <1>11,
     <1>12, <1>13, <1>14, <1>15, <1>16, <1>17, <1>18, <1>19, <1>20, <1>21
  DEF Next, Launcher, Box, Apply, Cleanup, AllOver

LEMMA InitConfines == Init => AppliedConfines
BY DEF Init, AppliedConfines

\* if apply reported success for q, its living child is in the group
Conf(q) == applied[q] = "ok" /\ 0 \in alive[q] => 0 \in incg[q]

\* this lasts when the file q writes to is never one of a removed directory
LEMMA ConfStep ==
  ASSUME TypeOK, Phases, [Next]_vars, NEW q \in Runs, Conf(q),
         pc[q] = "flush" => hnd[q] = "live"
  PROVE  Conf(q)'
<1> USE DEF Conf, TypeOK
<1>1. ASSUME NEW r \in Runs, Clone(r) PROVE Conf(q)'
  BY <1>1 DEF Clone, Phases, Phase
<1>2. ASSUME NEW r \in Runs, CloneFails(r) PROVE Conf(q)'
  BY <1>2 DEF CloneFails, procVars
<1>3. ASSUME NEW r \in Runs, CheckHost(r) PROVE Conf(q)'
  BY <1>3 DEF CheckHost, GiveUp, procVars
<1>4. ASSUME NEW r \in Runs, StatOld(r) PROVE Conf(q)'
  BY <1>4 DEF StatOld, procVars
<1>5. ASSUME NEW r \in Runs, RmOld(r) PROVE Conf(q)'
  BY <1>5 DEF RmOld, procVars
<1>6. ASSUME NEW r \in Runs, Mkdir(r) PROVE Conf(q)'
  BY <1>6 DEF Mkdir, procVars
<1>7. ASSUME NEW r \in Runs, MkdirFails(r) PROVE Conf(q)'
  BY <1>7 DEF MkdirFails, GiveUp, procVars
<1>8. ASSUME NEW r \in Runs, StatFile(r) PROVE Conf(q)'
  \* the last file, cgroup.procs, is always there to be opened
  <2>1. step[r] = 6 => File(r) = "cgroup.procs" BY WritesFacts DEF File
  <2>2. step[r] = 6 => UNCHANGED applied
    BY <1>8, <2>1 DEF StatFile, Undo, Requested, Optional
  <2>3. UNCHANGED applied \/ (step[r] # 6 /\ NextFile(r))
    BY <1>8, <2>2 DEF StatFile, Undo
  <2>4. UNCHANGED applied
    BY <2>3, WritesFacts DEF NextFile
  <2> QED BY <1>8, <2>4 DEF StatFile, procVars
<1>9. ASSUME NEW r \in Runs, OpenFile(r) PROVE Conf(q)'
  BY <1>9 DEF OpenFile, Undo, procVars
<1>10. ASSUME NEW r \in Runs, Flush(r) PROVE Conf(q)'
  <2>1. CASE r = q /\ step[r] = 6
    <3>1. File(r) = "cgroup.procs" /\ Accepted(r, File(r))
      BY <2>1, WritesFacts DEF File, Accepted
    <3>2. incg' = [incg EXCEPT ![r] = @ \cup ({0} \cap alive[r])]
      BY <1>10, <2>1, <3>1 DEF Flush
    <3> QED BY <1>10, <2>1, <3>2 DEF Flush
  <2>2. CASE r # q \/ step[r] # 6
    <3>1. UNCHANGED applied \/ r # q
      BY <1>10, <2>2, WritesFacts DEF Flush, NextFile
    <3>2. incg[q] \subseteq incg'[q] /\ alive' = alive
      BY <1>10 DEF Flush
    <3>3. applied'[q] = applied[q]
      BY <1>10, <3>1 DEF Flush, NextFile
    <3> QED BY <3>2, <3>3
  <2> QED BY <2>1, <2>2
<1>11. ASSUME NEW r \in Runs, Wait(r) PROVE Conf(q)'
  BY <1>11 DEF Wait
<1>12. ASSUME NEW r \in Runs, CleanStat(r) PROVE Conf(q)'
  BY <1>12 DEF CleanStat, CleanupReturns, GiveUp, procVars
<1>13. ASSUME NEW r \in Runs, CleanProcs(r) PROVE Conf(q)'
  BY <1>13 DEF CleanProcs, CleanupReturns, GiveUp, procVars
<1>14. ASSUME NEW r \in Runs, CleanRmdir(r) PROVE Conf(q)'
  BY <1>14 DEF CleanRmdir, CleanupReturns, GiveUp, procVars
<1>15. ASSUME NEW r \in Runs, ChildExec(r) PROVE Conf(q)'
  BY <1>15 DEF ChildExec
<1>16. ASSUME NEW r \in Runs, InitExit(r) PROVE Conf(q)'
  BY <1>16 DEF InitExit, CloneFlags
<1>17. ASSUME NEW r \in Runs, Fork(r) PROVE Conf(q)'
  BY <1>17 DEF Fork, Phases, Phase
<1>18. ASSUME NEW r \in Runs, ProcExit(r) PROVE Conf(q)'
  BY <1>18 DEF ProcExit
<1>19. ASSUME NEW r \in Runs, Killed(r) PROVE Conf(q)'
  BY <1>19 DEF Killed, procVars
<1>20. ASSUME NEW n \in Names, Sweep(n) PROVE Conf(q)'
  BY <1>20 DEF Sweep, procVars
<1>21. CASE UNCHANGED vars
  BY <1>21 DEF vars
<1> QED
  BY <1>1, <1>2, <1>3, <1>4, <1>5, <1>6, <1>7, <1>8, <1>9, <1>10, <1>11,
     <1>12, <1>13, <1>14, <1>15, <1>16, <1>17, <1>18, <1>19, <1>20, <1>21
  DEF Next, Launcher, Box, Apply, Cleanup, AllOver

LEMMA ConfinesStep ==
  TypeOK /\ Phases /\ InHand /\ AppliedConfines /\ [Next]_vars => AppliedConfines'
BY ConfStep, AloneFixed DEF AppliedConfines, InHand, Alone, Conf

-----------------------------------------------------------------------------
(* The theorems *)

LEMMA Inductive == Spec => []IInv
<1>1. Init => IInv
  BY InitType, InitPhases, InitLeak, InitHand, InitConfines DEF IInv
<1>2. IInv /\ [Next]_vars => IInv'
  BY TypeStep, PhasesStep, LeakStep, HandStep, ConfinesStep DEF IInv
<1> QED BY <1>1, <1>2, PTL DEF Spec

\* Type correctness of the launchers, their children and the group
\* directories (lsandbox_clone_run, lsandbox_cgroup_apply and _cleanup).
THEOREM TypeCorrect == Spec => []TypeOK
BY Inductive, PTL DEF IInv

\* lsandbox_clone_run waits for the child alone, yet when it returns no
\* process of the box is left: child1 is the init of a pid namespace.
THEOREM BoxGoneOnReturn == Spec => []ReturnsAfterBox
<1>1. IInv => ReturnsAfterBox BY PhasesBox DEF IInv
<1> QED BY <1>1, Inductive, PTL

\* However apply, cleanup, clean-cgroups and kills interleave, a group
\* directory always has a run that still answers for it
\* (lsandbox_cgroup_cleanup, lsandbox_manage_clean_cgroups).
THEOREM GroupsAccountedFor == Spec => []NoLeak
BY Inductive, PTL DEF IInv

\* When lsandbox_cgroup_apply returned 0 for a box that shares its name with
\* no other, and clean-cgroups is not about, its init is in the group.
THEOREM AppliedMeansConfined == Spec => []AppliedConfines
BY Inductive, PTL DEF IInv
=============================================================================
