-------------------------- MODULE CgroupLimitProofs --------------------------
(***************************************************************************)
(* Proofs about the limits in a group of Cgroup, for any set of runs,      *)
(* names, configurations and hosts.                                        *)
(*   - A run that shares its name with nobody (Sole): each control file    *)
(*     whose turn has passed holds its value as long as the directory is   *)
(*     there (Settled), and the directory is there as long as it has a     *)
(*     member (Own).  clean-cgroups may take the directory away between    *)
(*     any two writes; then it never comes back, and nobody gets in.       *)
(*   - Runs one after the other (SerialSpec): whoever is about to make the *)
(*     directory has it removed first (Clean), whatever earlier runs left. *)
(***************************************************************************)
EXTENDS CgroupProofs, FiniteSetTheorems

Writing == {"stat", "open", "flush"}

\* where a run that is alone with its directory stands
Own(q) ==
  /\ hnd[q] = "live" => Name(q) \in dirs
  /\ pc[q] = "flush" /\ Name(q) \in dirs => hnd[q] = "live"
  /\ pc[q] \in {"start"} \cup (InApply \ Writing) => step[q] = 1
  /\ pc[q] \in InApply \ {"check"} => HostReady
  /\ incg[q] # {} =>
       Name(q) \in dirs /\ HostReady /\ pc[q] \notin {"start"} \cup InApply

\* the writes that q has behind it
Passed(q) == {i \in 1 .. 5 : incg[q] # {} \/ (pc[q] \in Writing /\ i < step[q])}

InForce(q, f) ==
  f \in ControlFiles /\ Requested(q, f) /\ Accepted(q, f) => lim[Name(q)][f] = q

Settled(q) == Name(q) \in dirs => \A i \in Passed(q) : InForce(q, Writes[i])

Within(q) ==
  Accepted(q, "pids.max") /\ incg[q] # {} => Cardinality(incg[q]) <= cfg[q].pids

LInv == \A q \in Runs : Sole(q) => Own(q) /\ Settled(q) /\ Within(q)

-----------------------------------------------------------------------------
(* A run with a name of its own *)

\* what a file should hold does not change
LEMMA AskedFixed ==
  ASSUME [Next]_vars
  PROVE  /\ ControlFiles' = ControlFiles /\ HostReady' = HostReady
         /\ \A q \in Runs : /\ Sole(q)' = Sole(q)
                            /\ \A f : /\ Requested(q, f)' = Requested(q, f)
                                      /\ Accepted(q, f)' = Accepted(q, f)
BY NamesFixed DEF ControlFiles, HostReady, Sole, Requested, Accepted

\* rmdir works on no group that has a member
LEMMA RmdirEmpty ==
  ASSUME TypeOK, NEW q \in Runs, CanRmdir(Name(q)) PROVE incg[q] = {}
<1> SUFFICES ASSUME NEW k \in incg[q] PROVE FALSE OBVIOUS
<1>1. <<q, k>> \in Members(Name(q))
  BY DEF Members, TypeOK
<1> QED BY <1>1 DEF CanRmdir

LEMMA OwnStep ==
  ASSUME TypeOK, Phases, [Next]_vars, NEW q \in Runs, Sole(q), Own(q)
  PROVE  Own(q)'
<1>a. \A r \in Runs : Name(r) = Name(q) => r = q
  BY DEF Sole
<1>b. Name(q)' = Name(q) /\ HostReady' = HostReady
  BY NamesFixed, AskedFixed
<1>c. CanRmdir(Name(q)) => incg[q] = {}
  BY RmdirEmpty
<1>d. pc[q] = "start" => incg[q] = {}
  BY DEF Phases, Phase
<1>e. incg[q] \subseteq alive[q]
  BY DEF Phases, Phase
<1> USE <1>a, <1>b DEF TypeOK, Own, InApply, Writing, InCleanup
<1>1. ASSUME NEW r \in Runs, Clone(r) PROVE Own(q)'
  BY <1>1 DEF Clone, Goto, cgVars
<1>2. ASSUME NEW r \in Runs, CloneFails(r) PROVE Own(q)'
  BY <1>2 DEF CloneFails, Goto, cgVars, procVars
<1>3. ASSUME NEW r \in Runs, CheckHost(r) PROVE Own(q)'
  BY <1>3 DEF CheckHost, GiveUp, Goto, cgVars, procVars
<1>4. ASSUME NEW r \in Runs, StatOld(r) PROVE Own(q)'
  BY <1>4 DEF StatOld, Goto, cgVars, procVars
<1>5. ASSUME NEW r \in Runs, RmOld(r) PROVE Own(q)'
  BY <1>5, <1>c DEF RmOld, RemoveDir, Goto, cgVars, procVars
<1>6. ASSUME NEW r \in Runs, Mkdir(r) PROVE Own(q)'
  BY <1>6 DEF Mkdir, Goto, procVars
<1>7. ASSUME NEW r \in Runs, MkdirFails(r) PROVE Own(q)'
  BY <1>7 DEF MkdirFails, GiveUp, Goto, cgVars, procVars
<1>8. ASSUME NEW r \in Runs, StatFile(r) PROVE Own(q)'
  BY <1>8 DEF StatFile, NextFile, Undo, Goto, cgVars, procVars
<1>9. ASSUME NEW r \in Runs, OpenFile(r) PROVE Own(q)'
  BY <1>9 DEF OpenFile, Undo, Goto, cgVars, procVars
<1>10. ASSUME NEW r \in Runs, Flush(r) PROVE Own(q)'
  <2>1. CASE r # q
    BY <1>10, <2>1 DEF Flush, NextFile, Goto
  <2>2. CASE r = q /\ step[q] = 6
    BY <1>10, <2>2, WritesFacts DEF Flush, NextFile, Goto
  <2>3. CASE r = q /\ step[q] # 6
    <3>1. File(q) # "cgroup.procs" 
      BY <2>3, WritesFacts DEF File, LimitFiles
    <3> QED BY <1>10, <2>3, <3>1, WritesFacts DEF Flush, NextFile, Goto
  <2> QED BY <2>1, <2>2, <2>3
<1>11. ASSUME NEW r \in Runs, Wait(r) PROVE Own(q)'
  BY <1>11 DEF Wait, Goto, cgVars
<1>12. ASSUME NEW r \in Runs, CleanStat(r) PROVE Own(q)'
  BY <1>12 DEF CleanStat, CleanupReturns, GiveUp, Goto, cgVars, procVars
<1>13. ASSUME NEW r \in Runs, CleanProcs(r) PROVE Own(q)'
  BY <1>13 DEF CleanProcs, CleanupReturns, GiveUp, Goto, cgVars, procVars
<1>14. ASSUME NEW r \in Runs, CleanRmdir(r) PROVE Own(q)'
  BY <1>14, <1>c DEF CleanRmdir, RemoveDir, CleanupReturns, GiveUp, Goto, cgVars, procVars
<1>15. ASSUME NEW r \in Runs, ChildExec(r) PROVE Own(q)'
  BY <1>15 DEF ChildExec, cgVars
<1>16. ASSUME NEW r \in Runs, InitExit(r) PROVE Own(q)'
  BY <1>16 DEF InitExit, cgVars
<1>17. ASSUME NEW r \in Runs, Fork(r) PROVE Own(q)'
  BY <1>17 DEF Fork, cgVars
<1>18. ASSUME NEW r \in Runs, ProcExit(r) PROVE Own(q)'
  BY <1>18 DEF ProcExit, cgVars
<1>19. ASSUME NEW r \in Runs, Killed(r) PROVE Own(q)'
  BY <1>19 DEF Killed, Goto, cgVars, procVars
<1>20. ASSUME NEW n \in Names, Sweep(n) PROVE Own(q)'
  BY <1>20, <1>c DEF Sweep, RemoveDir, procVars
<1>21. CASE UNCHANGED vars
  BY <1>21 DEF vars
<1> QED
  BY <1>1, <1>2, <1>3, <1>4, <1>5, <1>6, <1>7, <1>8, <1>9, <1>10, <1>11,
     <1>12, <1>13, <1>14, <1>15, <1>16, <1>17, <1>18, <1>19, <1>20, <1>21
  DEF Next, Launcher, Box, Apply, Cleanup, AllOver

LEMMA SettledStep ==
  ASSUME TypeOK, Phases, [Next]_vars, NEW q \in Runs, Sole(q), Own(q), Settled(q)
  PROVE  Settled(q)'
<1>a. \A r \in Runs : Name(r) = Name(q) => r = q
  BY DEF Sole
<1>b. Name(q)' = Name(q) /\ ControlFiles' = ControlFiles
  BY NamesFixed, AskedFixed
<1>c. CanRmdir(Name(q)) => incg[q] = {}
  BY RmdirEmpty
<1>d. pc[q] = "start" => incg[q] = {}
  BY DEF Phases, Phase
<1>e. Name(q) \in Names
  BY CgroupAssumption DEF TypeOK, Name, Config
\* a write behind q stays behind it, and a file keeps what it holds
<1> DEFINE Kept == /\ Name(q) \in dirs' => Name(q) \in dirs /\ Passed(q)' \subseteq Passed(q)
                   /\ Name(q) \in dirs' => lim'[Name(q)] = lim[Name(q)]
<1>f. Kept => Settled(q)'
  BY <1>b, AskedFixed, WritesFacts DEF Settled, InForce
<1> HIDE DEF Kept
<1>g. ASSUME Name(q) \in dirs', Passed(q)' = {} PROVE Settled(q)'
  BY <1>g DEF Settled
<1> USE <1>a, <1>b DEF TypeOK, Own, InApply, Writing, InCleanup
<1>1. ASSUME NEW r \in Runs, Clone(r) PROVE Settled(q)'
  BY <1>1, <1>f DEF Kept, Passed, Clone, Goto, cgVars
<1>2. ASSUME NEW r \in Runs, CloneFails(r) PROVE Settled(q)'
  BY <1>2, <1>f DEF Kept, Passed, CloneFails, Goto, cgVars, procVars
<1>3. ASSUME NEW r \in Runs, CheckHost(r) PROVE Settled(q)'
  BY <1>3, <1>f DEF Kept, Passed, CheckHost, GiveUp, Goto, cgVars, procVars
<1>4. ASSUME NEW r \in Runs, StatOld(r) PROVE Settled(q)'
  BY <1>4, <1>f DEF Kept, Passed, StatOld, Goto, cgVars, procVars
<1>5. ASSUME NEW r \in Runs, RmOld(r) PROVE Settled(q)'
  BY <1>5, <1>f DEF Kept, Passed, RmOld, RemoveDir, Goto, cgVars, procVars
<1>6. ASSUME NEW r \in Runs, Mkdir(r) PROVE Settled(q)'
  <2>1. CASE r = q
    BY <1>6, <2>1, <1>g DEF Passed, Mkdir, Goto, procVars
  <2>2. CASE r # q
    BY <1>6, <2>2, <1>f DEF Kept, Passed, Mkdir, Goto, procVars
  <2> QED BY <2>1, <2>2
<1>7. ASSUME NEW r \in Runs, MkdirFails(r) PROVE Settled(q)'
  BY <1>7, <1>f DEF Kept, Passed, MkdirFails, GiveUp, Goto, cgVars, procVars
<1>8. ASSUME NEW r \in Runs, StatFile(r) PROVE Settled(q)'
  <2>1. CASE r = q /\ NextFile(q) /\ step[q] # 6
    <3>1. Name(q) \in dirs => ~(Requested(q, File(q)) /\ File(q) \in ControlFiles)
      BY <1>8, <2>1 DEF StatFile, Undo, Goto, NextFile
    <3>2. step[q] \in 1 .. 5 /\ Passed(q)' \subseteq Passed(q) \cup {step[q]}
      BY <1>8, <2>1, WritesFacts DEF Passed, StatFile, NextFile, Goto, procVars
    <3> QED BY <1>8, <3>1, <3>2, AskedFixed
            DEF Settled, InForce, File, StatFile, cgVars
  <2>2. CASE ~(r = q /\ NextFile(q) /\ step[q] # 6)
    BY <1>8, <2>2, <1>f, WritesFacts
    DEF Kept, Passed, StatFile, NextFile, Undo, Goto, cgVars, procVars
  <2> QED BY <2>1, <2>2
<1>9. ASSUME NEW r \in Runs, OpenFile(r) PROVE Settled(q)'
  BY <1>9, <1>f DEF Kept, Passed, OpenFile, Undo, Goto, cgVars, procVars
<1>10. ASSUME NEW r \in Runs, Flush(r) PROVE Settled(q)'
  <2>1. CASE r # q
    BY <1>10, <2>1, <1>e, <1>f DEF Kept, Passed, Flush, NextFile, Goto
  <2>2. CASE r = q /\ step[q] = 6
    <3>1. File(q) \notin LimitFiles
      BY <2>2, WritesFacts DEF File, LimitFiles
    <3>2. lim' = lim /\ dirs' = dirs /\ Passed(q) = 1 .. 5
      BY <1>10, <2>2, <3>1 DEF Flush, Passed
    <3> QED BY <3>2, <1>f DEF Kept, Passed
  <2>3. CASE r = q /\ step[q] # 6
    <3>1. step[q] \in 1 .. 5 /\ File(q) \in LimitFiles /\ File(q) # "cgroup.procs"
      BY <2>3, WritesFacts DEF File, LimitFiles
    <3>2. dirs' = dirs /\ incg' = incg
          /\ Passed(q)' \subseteq Passed(q) \cup {step[q]}
      BY <1>10, <2>3, <3>1, WritesFacts DEF Flush, Passed, NextFile, Goto
    <3>3. \A f \in LimitFiles : lim'[Name(q)][f] \in {lim[Name(q)][f], q}
      BY <1>10, <2>3, <1>e DEF Flush
    <3>4. Name(q) \in dirs /\ Accepted(q, File(q)) => lim'[Name(q)][File(q)] = q
      BY <1>10, <2>3, <1>e, <3>1 DEF Flush
    <3>5. \A i \in 1 .. 5 : Writes[i] \in LimitFiles
      BY WritesFacts
    <3> QED
      <4> SUFFICES ASSUME Name(q) \in dirs, NEW i \in Passed(q)',
                          Writes[i] \in ControlFiles, Requested(q, Writes[i]),
                          Accepted(q, Writes[i])
                   PROVE  lim'[Name(q)][Writes[i]] = q
        BY <3>2, AskedFixed DEF Settled, InForce
      <4>1. CASE i = step[q]
        BY <4>1, <3>4 DEF File
      <4>2. CASE i \in Passed(q)
        BY <4>2, <3>3, <3>5 DEF Settled, InForce, Passed
      <4> QED BY <3>2, <4>1, <4>2
  <2> QED BY <2>1, <2>2, <2>3
<1>11. ASSUME NEW r \in Runs, Wait(r) PROVE Settled(q)'
  BY <1>11, <1>f DEF Kept, Passed, Wait, Goto, cgVars
<1>12. ASSUME NEW r \in Runs, CleanStat(r) PROVE Settled(q)'
  BY <1>12, <1>f
  DEF Kept, Passed, CleanStat, CleanupReturns, GiveUp, Goto, cgVars, procVars
<1>13. ASSUME NEW r \in Runs, CleanProcs(r) PROVE Settled(q)'
  BY <1>13, <1>f
  DEF Kept, Passed, CleanProcs, CleanupReturns, GiveUp, Goto, cgVars, procVars
<1>14. ASSUME NEW r \in Runs, CleanRmdir(r) PROVE Settled(q)'
  BY <1>14, <1>f
  DEF Kept, Passed, CleanRmdir, RemoveDir, CleanupReturns, GiveUp, Goto, cgVars, procVars
<1>15. ASSUME NEW r \in Runs, ChildExec(r) PROVE Settled(q)'
  BY <1>15, <1>f DEF Kept, Passed, ChildExec, cgVars
<1>16. ASSUME NEW r \in Runs, InitExit(r) PROVE Settled(q)'
  BY <1>16, <1>f DEF Kept, Passed, InitExit, cgVars
<1>17. ASSUME NEW r \in Runs, Fork(r) PROVE Settled(q)'
  BY <1>17, <1>f DEF Kept, Passed, Fork, cgVars
<1>18. ASSUME NEW r \in Runs, ProcExit(r) PROVE Settled(q)'
  BY <1>18, <1>f DEF Kept, Passed, ProcExit, cgVars
<1>19. ASSUME NEW r \in Runs, Killed(r) PROVE Settled(q)'
  BY <1>19, <1>f DEF Kept, Passed, Killed, Goto, cgVars, procVars
<1>20. ASSUME NEW n \in Names, Sweep(n) PROVE Settled(q)'
  BY <1>20, <1>f DEF Kept, Passed, Sweep, RemoveDir, procVars
<1>21. CASE UNCHANGED vars
  BY <1>21, <1>f DEF Kept, Passed, vars
<1> QED
  BY <1>1, <1>2, <1>3, <1>4, <1>5, <1>6, <1>7, <1>8, <1>9, <1>10, <1>11,
     <1>12, <1>13, <1>14, <1>15, <1>16, <1>17, <1>18, <1>19, <1>20, <1>21
  DEF Next, Launcher, Box, Apply, Cleanup, AllOver
\* what a run that is alone with its directory has settled is what it was asked for
LEMMA SettledMeans ==
  ASSUME NEW q \in Runs, Own(q), Settled(q), incg[q] # {},
         NEW f \in LimitFiles \cap ControlFiles, Requested(q, f), Accepted(q, f)
  PROVE  lim[Name(q)][f] = q
<1>1. \E i \in 1 .. 5 : Writes[i] = f
  BY DEF Writes, LimitFiles
<1>2. Passed(q) = 1 .. 5 /\ Name(q) \in dirs
  BY DEF Passed, Own
<1> QED BY <1>1, <1>2 DEF Settled, InForce

-----------------------------------------------------------------------------
(* Counting the members *)

\* the processes of a box are finitely many
LEMMA MembersFinite ==
  ASSUME TypeOK, NEW q \in Runs
  PROVE  /\ IsFiniteSet(incg[q]) /\ Cardinality(incg[q]) \in Nat
         /\ \A S \in SUBSET incg[q] : Cardinality(S) <= Cardinality(incg[q])
<1>1. IsFiniteSet(Pid)
  BY CgroupAssumption, FS_Interval DEF Pid
<1>2. IsFiniteSet(incg[q])
  BY <1>1, FS_Subset DEF TypeOK
<1> QED BY <1>2, FS_CardinalityType, FS_Subset

\* the members of a group that only q uses are the processes of q in it
LEMMA MembersCount ==
  ASSUME TypeOK, NEW q \in Runs, Sole(q)
  PROVE  Cardinality(Members(Name(q))) = Cardinality(incg[q])
<1> DEFINE S == incg[q]
           T == Members(Name(q))
           f == [k \in S |-> <<q, k>>]
<1>1. \A x \in T : x[1] = q /\ x[2] \in S /\ x = <<q, x[2]>>
  BY DEF Members, Sole
<1>2. \A k \in S : <<q, k>> \in T
  BY DEF Members, TypeOK
<1>3. f \in [S -> T]
  BY <1>2
<1>4. \A a, b \in S : f[a] = f[b] => a = b
  OBVIOUS
<1>5. \A x \in T : \E k \in S : f[k] = x
  BY <1>1
<1>6. f \in Bijection(S, T)
  BY <1>3, <1>4, <1>5 DEF Bijection, Injection, Surjection, IsInjective
<1>7. ExistsBijection(S, T)
  BY <1>6 DEF ExistsBijection
<1>8. IsFiniteSet(S)
  BY MembersFinite
<1> QED BY <1>7, <1>8, FS_Bijection

LEMMA WithinStep ==
  ASSUME TypeOK, Phases, [Next]_vars, NEW q \in Runs, Sole(q), Own(q), Settled(q),
         Within(q)
  PROVE  Within(q)'
<1>a. cfg' = cfg /\ Accepted(q, "pids.max")' = Accepted(q, "pids.max")
  BY NamesFixed, AskedFixed
<1>b. cfg[q].pids \in Nat \ {0}
  BY CgroupAssumption DEF TypeOK, Config
<1>c. Cardinality(incg[q]) \in Nat /\ IsFiniteSet(incg[q])
  BY MembersFinite
\* who only loses processes stays within its limit
<1>d. incg'[q] \in SUBSET incg[q] => Within(q)'
  <2> SUFFICES ASSUME incg'[q] \in SUBSET incg[q], Accepted(q, "pids.max"), incg'[q] # {}
               PROVE  Cardinality(incg'[q]) <= cfg[q].pids
    BY <1>a DEF Within
  <2>1. Cardinality(incg[q]) <= cfg[q].pids
    BY DEF Within
  <2>2. Cardinality(incg'[q]) <= Cardinality(incg[q]) /\ Cardinality(incg'[q]) \in Nat
    BY <1>c, FS_Subset, FS_CardinalityType
  <2> QED BY <1>b, <1>c, <2>1, <2>2
<1>1. ASSUME NEW r \in Runs,
             Clone(r) \/ CloneFails(r) \/ CheckHost(r) \/ StatOld(r) \/ RmOld(r)
               \/ Mkdir(r) \/ MkdirFails(r) \/ StatFile(r) \/ OpenFile(r)
               \/ Wait(r) \/ Cleanup(r) \/ ChildExec(r) \/ Killed(r)
      PROVE  Within(q)'
  BY <1>1, <1>d DEF Clone, CloneFails, CheckHost, StatOld, RmOld, Mkdir,
    MkdirFails, StatFile, OpenFile, Wait, Cleanup, CleanStat, CleanProcs,
    CleanRmdir, ChildExec, Killed, procVars
\* whoever is moved into the group is its first member
<1>2. ASSUME NEW r \in Runs, Flush(r) PROVE Within(q)'
  <2>1. CASE r # q
    BY <1>2, <1>d, <2>1 DEF Flush, TypeOK
  <2>2. CASE r = q
    <3>1. incg[q] = {} /\ incg'[q] \in {{}, {0}}
      BY <1>2, <2>2 DEF Flush, TypeOK, Own, InApply
    <3>2. Cardinality({0}) = 1
      BY FS_Singleton
    <3>3. CASE incg'[q] = {}
      BY <1>d, <3>3
    <3>4. CASE incg'[q] = {0}
      BY <1>a, <1>b, <3>2, <3>4 DEF Within
    <3> QED BY <3>1, <3>3, <3>4
  <2> QED BY <2>1, <2>2
<1>3. ASSUME NEW r \in Runs, InitExit(r) \/ ProcExit(r) PROVE Within(q)'
  BY <1>3, <1>d DEF InitExit, ProcExit, TypeOK
<1>4. ASSUME NEW r \in Runs, Fork(r) PROVE Within(q)'
  <2>1. PICK parent \in alive[r], k \in Pid \ alive[r] :
          /\ parent \in incg[r] /\ lim[Name(r)]["pids.max"] # NoRun =>
               Cardinality(Members(Name(r))) < cfg[lim[Name(r)]["pids.max"]].pids
          /\ incg' = IF parent \in incg[r]
                     THEN [incg EXCEPT ![r] = @ \cup {k}] ELSE incg
    BY <1>4 DEF Fork
  <2>2. CASE r # q \/ parent \notin incg[r]
    BY <1>d, <2>1, <2>2 DEF TypeOK
  <2>3. CASE r = q /\ parent \in incg[r]
    <3> SUFFICES ASSUME Accepted(q, "pids.max")
                 PROVE  Cardinality(incg'[q]) <= cfg[q].pids
      BY <1>a DEF Within
    <3>1. "pids.max" \in LimitFiles \cap ControlFiles
      BY <2>3 DEF Own, HostReady, ControlFiles, LimitFiles
    <3>2. Requested(q, "pids.max") /\ incg[q] # {}
      BY <2>3 DEF Requested
    <3>3. lim[Name(q)]["pids.max"] = q
      BY <3>1, <3>2, SettledMeans
    <3>4. q # NoRun
      BY CgroupAssumption
    <3>5. Cardinality(incg[q]) < cfg[q].pids
      BY <2>1, <2>3, <3>3, <3>4, MembersCount
    <3>6. incg'[q] = incg[q] \cup {k}
      BY <2>1, <2>3 DEF TypeOK
    <3>7. Cardinality(incg'[q]) \in {Cardinality(incg[q]), Cardinality(incg[q]) + 1}
      BY <1>c, <3>6, FS_AddElement
    <3> QED BY <1>b, <1>c, <3>5, <3>7
  <2> QED BY <2>2, <2>3
<1>5. ASSUME NEW n \in Names, Sweep(n) PROVE Within(q)'
  BY <1>5, <1>d DEF Sweep, procVars
<1>6. CASE UNCHANGED vars
  BY <1>6, <1>d DEF vars
<1> QED BY <1>1, <1>2, <1>3, <1>4, <1>5, <1>6
        DEF Next, Launcher, Box, Apply, AllOver

LEMMA Limited == Spec => [](TypeOK /\ LInv)
<1>1. Init => LInv
  BY DEF Init, LInv, Own, Settled, Within, Passed, InApply, Writing
<1>2. TypeOK /\ Phases /\ LInv /\ [Next]_vars => LInv'
  BY AskedFixed, OwnStep, SettledStep, WithinStep DEF LInv
<1> QED BY <1>1, <1>2, Inductive, PTL DEF Spec, IInv

(***************************************************************************)
(* lsandbox_cgroup_apply writes the limits before it moves the child: a    *)
(* group that one run uses has a member only while every limit that was    *)
(* asked for, that the host knows and the kernel takes, is in force.       *)
(* clean-cgroups may work at the same time.                                *)
(***************************************************************************)
THEOREM LimitsFirst == Spec => []LimitsBeforeMembers
<1>1. LInv => LimitsBeforeMembers
  BY SettledMeans DEF LInv, LimitsBeforeMembers
<1> QED BY <1>1, Limited, PTL

\* and so it never has more members than --pids says (limpids, putproc)
THEOREM PidsHold == Spec => []MembersWithinLimit
<1>1. LInv => MembersWithinLimit
  BY DEF LInv, Within, MembersWithinLimit
<1> QED BY <1>1, Limited, PTL
=============================================================================
