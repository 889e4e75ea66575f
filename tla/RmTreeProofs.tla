---------------------------- MODULE RmTreeProofs ----------------------------
(***************************************************************************)
(* Proofs about RmTree, for any tree and any number of removers.           *)
(*   - The files on disk always form a tree (UpClosed), so that without    *)
(*     its root there is nothing left: SuccessMeansGone.                   *)
(*   - A remover's open directories are the ancestors of the node it is at *)
(*     (OnPath), and an entry that is neither ahead of it nor on its path  *)
(*     is gone (Seen).                                                     *)
(*   - Among the removers that have started there is always one to which   *)
(*     nothing has happened (Fresh): whoever was the last to remove        *)
(*     something, or the last to start.  As long as no call fails for a    *)
(*     reason of its own it cannot fail, which gives BoxGoes.              *)
(***************************************************************************)
EXTENDS RmTree, TLAPS

UpClosed(S) == \A n \in S \ {Root} : Parent[n] \in S

\* n and the directories above it: what every tree that has n has
Above(n) ==
  {a \in Nodes : \A S \in SUBSET Nodes : n \in S /\ UpClosed(S) => a \in S}

-----------------------------------------------------------------------------
(* Trees *)

\* the way up from n is n and the way up from its parent
LEMMA AboveStep ==
  ASSUME NEW n \in Nodes
  PROVE  /\ n \in Above(n)
         /\ Above(n) \subseteq Nodes
         /\ UpClosed(Above(n))
         /\ n = Root => Above(n) = {Root}
         /\ n # Root => Above(n) = {n} \cup Above(Parent[n])
<1>1. n \in Above(n) /\ Above(n) \subseteq Nodes
  BY DEF Above
<1>2. UpClosed(Above(n))
  <2> SUFFICES ASSUME NEW m \in Above(n) \ {Root} PROVE Parent[m] \in Above(n)
    BY DEF UpClosed
  <2>1. Parent[m] \in Nodes
    BY TreeAssumption DEF Above
  <2>2. ASSUME NEW S \in SUBSET Nodes, n \in S, UpClosed(S) PROVE Parent[m] \in S
    BY <2>2 DEF Above, UpClosed
  <2> QED BY <2>1, <2>2 DEF Above
<1>3. ASSUME n = Root PROVE Above(n) = {Root}
  <2>1. {Root} \in SUBSET Nodes /\ UpClosed({Root})
    BY TreeAssumption DEF UpClosed
  <2> QED BY <1>1, <1>3, <2>1 DEF Above
<1>4. ASSUME n # Root PROVE Above(n) = {n} \cup Above(Parent[n])
  <2> DEFINE U == {n} \cup Above(Parent[n])
  <2>0. Parent[n] \in Nodes
    BY <1>4, TreeAssumption
  <2>1. Parent[n] \in Above(n)
    BY <1>1, <1>2, <1>4 DEF UpClosed
  <2>2. Above(Parent[n]) \subseteq Above(n)
    BY <1>1, <1>2, <2>1 DEF Above
  <2>3. U \in SUBSET Nodes /\ UpClosed(U)
    <3>1. UpClosed(Above(Parent[n]))
      <4> SUFFICES ASSUME NEW m \in Above(Parent[n]) \ {Root}
                   PROVE  Parent[m] \in Above(Parent[n])
        BY DEF UpClosed
      <4>1. Parent[m] \in Nodes
        BY TreeAssumption DEF Above
      <4>2. ASSUME NEW S \in SUBSET Nodes, Parent[n] \in S, UpClosed(S)
            PROVE  Parent[m] \in S
        BY <4>2 DEF Above, UpClosed
      <4> QED BY <4>1, <4>2 DEF Above
    <3>2. Parent[n] \in Above(Parent[n])
      BY <2>0 DEF Above
    <3> QED BY <3>1, <3>2 DEF UpClosed, Above
  <2>4. Above(n) \subseteq U
    BY <2>3 DEF Above
  <2> QED BY <1>1, <2>2, <2>4
<1> QED BY <1>1, <1>2, <1>3, <1>4

\* no directory is inside itself
LEMMA NoCycle ==
  ASSUME NEW n \in Nodes \ {Root}
  PROVE  n \notin Above(Parent[n])
<1> SUFFICES ASSUME n \in Above(Parent[n]) PROVE FALSE OBVIOUS
<1> DEFINE Below == {m \in Nodes : n \in Above(m)}
<1>1. n \in Below
  BY AboveStep
<1>2. UpClosed(Below)
  <2> SUFFICES ASSUME NEW m \in Below \ {Root} PROVE Parent[m] \in Below
    BY DEF UpClosed
  <2>1. Parent[m] \in Nodes
    BY TreeAssumption
  <2>2. n \in Above(Parent[m])
    BY AboveStep
  <2> QED BY <2>1, <2>2
<1>3. Root \in Below
  BY <1>1, <1>2, TreeAssumption DEF UpClosed
<1> QED BY <1>3, AboveStep

\* a tree that has a node has all that is above it
LEMMA AboveExists ==
  ASSUME NEW S \in SUBSET Nodes, UpClosed(S), NEW n \in S
  PROVE  Above(n) \subseteq S
BY DEF Above

\* a tree without its root is empty
LEMMA NoRootNoTree ==
  ASSUME NEW S \in SUBSET Nodes, UpClosed(S), Root \notin S
  PROVE  S = {}
BY TreeAssumption DEF UpClosed

-----------------------------------------------------------------------------
(* The invariant *)

Children(d) == {n \in Nodes \ {Root} : Parent[n] = d}

\* a listing has only entries of its directory
Listed == \A p \in Procs, d \in Dirs : todo[p][d] \subseteq Children(d)

OnPath(p) ==
  /\ pc[p] = "next" => cur[p] \in Dirs /\ open[p] = Above(cur[p])
  /\ pc[p] \in {"idle", "lstat", "unlink", "opendir", "rmdir"} =>
       open[p] = Above(cur[p]) \ {cur[p]}
  /\ pc[p] = "idle" => cur[p] = Root
  /\ pc[p] = "unlink" => cur[p] \notin Dirs
  /\ pc[p] \in {"opendir", "rmdir"} => cur[p] \in Dirs

\* what is neither ahead of a remover nor on its path is gone
Seen(p) ==
  made = {} /\ troubled = {} =>
    /\ \A e \in exists \ {Root} :
         Parent[e] \in open[p] => e \in todo[p][Parent[e]] \cup Above(cur[p])
    /\ pc[p] = "rmdir" => Entries(cur[p]) = {}

\* everything the remover relies on is still there
Fresh(p) ==
  /\ Active(p)
  /\ open[p] \subseteq exists
  /\ pc[p] \in {"unlink", "opendir", "rmdir"} => cur[p] \in exists

SomeFresh ==
  made = {} /\ troubled = {} /\ Root \in exists /\ (\E p \in Procs : pc[p] # "idle") =>
    \E q \in Procs : Fresh(q)

Paths == Listed /\ \A p \in Procs : OnPath(p)

IInv == TypeOK /\ UpClosed(exists) /\ SuccessMeansGone /\ Paths
          /\ (\A p \in Procs : Seen(p)) /\ SomeFresh

-----------------------------------------------------------------------------
(* Types *)

LEMMA InitType == Init => TypeOK
BY TreeAssumption DEF Init, TypeOK

\* an assignment to one listing of one process
LEMMA TodoSet ==
  ASSUME TypeOK, NEW p \in Procs, NEW d \in Dirs, NEW S \in SUBSET Nodes,
         todo' = [todo EXCEPT ![p][d] = S]
  PROVE  /\ todo' \in [Procs -> [Dirs -> SUBSET Nodes]]
         /\ \A q \in Procs, e \in Dirs :
              todo'[q][e] = IF q = p /\ e = d THEN S ELSE todo[q][e]
<1>1. todo \in [Procs -> [Dirs -> SUBSET Nodes]]
  BY DEF TypeOK
<1>2. [todo[p] EXCEPT ![d] = S] \in [Dirs -> SUBSET Nodes]
  BY <1>1
<1>3. todo' = [todo EXCEPT ![p] = [todo[p] EXCEPT ![d] = S]]
  OBVIOUS
<1> QED BY <1>1, <1>2, <1>3

LEMMA TypeStep == TypeOK /\ Paths /\ [Next]_vars => TypeOK'
<1> SUFFICES ASSUME TypeOK, Paths, [Next]_vars PROVE TypeOK' OBVIOUS
<1>0. Parent \in [Nodes \ {Root} -> Dirs] /\ Dirs \subseteq Nodes
  BY TreeAssumption
<1> USE <1>0 DEF TypeOK, Ended, Goto, Return, Fail, Trouble, Meets
<1>1. ASSUME NEW p \in Procs, Start(p) PROVE TypeOK'
  BY <1>1 DEF Start
<1>2. ASSUME NEW p \in Procs, Lstat(p) PROVE TypeOK'
  BY <1>2 DEF Lstat
<1>3. ASSUME NEW p \in Procs, Unlink(p) PROVE TypeOK'
  BY <1>3 DEF Unlink
<1>4. ASSUME NEW p \in Procs, Opendir(p) PROVE TypeOK'
  <2>1. cur[p] \in Dirs /\ Entries(cur[p]) \in SUBSET Nodes
    BY <1>4 DEF Opendir, Paths, OnPath, Entries
  <2>2. todo' \in [Procs -> [Dirs -> SUBSET Nodes]]
    BY <1>4, <2>1, TodoSet DEF Opendir
  <2>3. pc' \in [Procs -> {"idle", "lstat", "unlink", "opendir", "next", "rmdir"} \cup Ended]
    BY <1>4 DEF Opendir
  <2>4. cur' = cur /\ exists' = exists /\ made' = made /\ troubled' \subseteq Prone
    BY <1>4 DEF Opendir
  <2>5. open' \in [Procs -> SUBSET Dirs]
    BY <1>4, <2>1 DEF Opendir
  <2> QED BY <2>2, <2>3, <2>4, <2>5
<1>5. ASSUME NEW p \in Procs, NextEntry(p) PROVE TypeOK'
  <2>1. cur[p] \in Dirs
    BY <1>5 DEF NextEntry, Paths, OnPath
  <2>2. todo' \in [Procs -> [Dirs -> SUBSET Nodes]]
    <3>1. CASE UNCHANGED todo
      BY <3>1
    <3>2. ASSUME NEW n, todo' = [todo EXCEPT ![p][cur[p]] = @ \ {n}]
          PROVE  todo' \in [Procs -> [Dirs -> SUBSET Nodes]]
      <4>1. todo[p][cur[p]] \ {n} \in SUBSET Nodes
        BY <2>1
      <4> QED BY <2>1, <3>2, <4>1, TodoSet
    <3> QED BY <1>5, <3>1, <3>2 DEF NextEntry
  <2>3. pc' \in [Procs -> {"idle", "lstat", "unlink", "opendir", "next", "rmdir"} \cup Ended]
    BY <1>5 DEF NextEntry
  <2>4. /\ exists' = exists /\ made' = made /\ open' \in [Procs -> SUBSET Dirs]
        /\ troubled' \subseteq Prone
    BY <1>5 DEF NextEntry
  <2>5. cur' \in [Procs -> Nodes]
    BY <1>5, <2>1 DEF NextEntry
  <2> QED BY <2>2, <2>3, <2>4, <2>5
<1>6. ASSUME NEW p \in Procs, Rmdir(p) PROVE TypeOK'
  BY <1>6 DEF Rmdir
<1>7. ASSUME NEW n \in Nodes, Create(n) PROVE TypeOK'
  BY <1>7 DEF Create
<1>8. CASE UNCHANGED vars
  BY <1>8 DEF vars
<1> QED BY <1>1, <1>2, <1>3, <1>4, <1>5, <1>6, <1>7, <1>8 DEF Next, Remover, Over

-----------------------------------------------------------------------------
(* The tree on disk *)

\* how one step changes the tree: a leaf goes, or a node is added to a directory
LEMMA DiskStep ==
  ASSUME TypeOK, Paths, [Next]_vars
  PROVE  \/ UNCHANGED <<exists, made>>
         \/ /\ made' = made
            /\ \E n \in exists : exists' = exists \ {n} /\ Entries(n) = {}
         \/ /\ made' # {}
            /\ \E n \in Nodes \ {Root} : Parent[n] \in exists /\ exists' = exists \cup {n}
<1>1. ASSUME NEW p \in Procs, Unlink(p)
      PROVE  \/ UNCHANGED <<exists, made>>
             \/ /\ made' = made
                /\ \E n \in exists : exists' = exists \ {n} /\ Entries(n) = {}
  <2>1. cur[p] \in Nodes \ Dirs /\ Entries(cur[p]) = {}
    BY <1>1, TreeAssumption DEF Unlink, Paths, OnPath, TypeOK, Entries
  <2>2. made' = made /\ (exists' = exists \/ exists' = exists \ {cur[p]})
    BY <1>1 DEF Unlink
  <2> QED BY <2>1, <2>2
<1>2. ASSUME NEW p \in Procs, Rmdir(p)
      PROVE  \/ UNCHANGED <<exists, made>>
             \/ /\ made' = made
                /\ \E n \in exists : exists' = exists \ {n} /\ Entries(n) = {}
  BY <1>2 DEF Rmdir
<1>3. ASSUME NEW n \in Nodes, Create(n)
      PROVE  /\ made' # {}
             /\ n # Root /\ Parent[n] \in exists /\ exists' = exists \cup {n}
  BY <1>3, TreeAssumption DEF Create
<1>4. ASSUME NEW p \in Procs, Start(p) \/ Lstat(p) \/ Opendir(p) \/ NextEntry(p)
      PROVE  UNCHANGED <<exists, made>>
  BY <1>4 DEF Start, Lstat, Opendir, NextEntry
<1>5. CASE UNCHANGED vars
  BY <1>5 DEF vars
<1> QED BY <1>1, <1>2, <1>3, <1>4, <1>5 DEF Next, Remover, Over

\* an error of its own ends a remover, or its listing, and is not forgotten
LEMMA TroubleStays ==
  ASSUME [Next]_vars, troubled' = {}
  PROVE  troubled = {} /\ \A p \in Procs : ~Meets(p)
BY DEF Next, Remover, Start, Lstat, Unlink, Opendir, NextEntry, Rmdir, Trouble, Meets,
  Create, Over, vars

LEMMA UpStep ==
  ASSUME TypeOK, Paths, UpClosed(exists), [Next]_vars
  PROVE  UpClosed(exists')
<1>1. CASE UNCHANGED <<exists, made>>
  BY <1>1
<1>2. ASSUME NEW n \in exists, exists' = exists \ {n}, Entries(n) = {}
      PROVE  UpClosed(exists')
  BY <1>2 DEF UpClosed, Entries, TypeOK
<1>3. ASSUME NEW n \in Nodes \ {Root}, Parent[n] \in exists, exists' = exists \cup {n}
      PROVE  UpClosed(exists')
  BY <1>3 DEF UpClosed
<1> QED BY <1>1, <1>2, <1>3, DiskStep

\* once the box is gone nothing comes back
LEMMA GoneStep ==
  ASSUME TypeOK, Paths, UpClosed(exists), SuccessMeansGone, [Next]_vars
  PROVE  SuccessMeansGone'
<1>1. UpClosed(exists') /\ exists' \subseteq Nodes
  BY UpStep, TypeStep DEF TypeOK
<1>2. exists = {} => exists' = {}
  BY DiskStep
<1>3. ASSUME NEW p \in Procs, pc'[p] = "ok", pc[p] # "ok" PROVE Root \notin exists'
  <2>1. ASSUME NEW q \in Procs, q # p, Remover(q) PROVE pc'[p] = pc[p]
    BY <2>1 DEF TypeOK, Remover, Start, Lstat, Unlink, Opendir, NextEntry, Rmdir,
      Return, Fail, Trouble, Goto
  <2>2. CASE Remover(p)
    <3>1. CASE Lstat(p)
      BY <1>3, <3>1 DEF TypeOK, Lstat, Return, Fail, Trouble, Goto
    <3>2. CASE Unlink(p)
      BY <1>3, <3>2 DEF TypeOK, Unlink, Return, Fail, Trouble, Goto
    <3>3. CASE Rmdir(p)
      BY <1>3, <3>3 DEF TypeOK, Rmdir, Return, Fail, Trouble, Goto
    <3>4. CASE Start(p) \/ Opendir(p) \/ NextEntry(p)
      BY <1>3, <3>4 DEF TypeOK, Start, Opendir, NextEntry, Fail, Trouble, Goto
    <3> QED BY <2>2, <3>1, <3>2, <3>3, <3>4 DEF Remover
  <2>3. ASSUME NEW n \in Nodes, Create(n) PROVE pc'[p] = pc[p]
    BY <2>3 DEF Create
  <2>4. CASE UNCHANGED vars
    BY <1>3, <2>4 DEF vars
  <2> QED BY <1>3, <2>1, <2>2, <2>3, <2>4 DEF Next, Over
<1>4. Root \notin exists' => exists' = {}
  BY <1>1, NoRootNoTree
<1> QED BY <1>2, <1>3, <1>4 DEF SuccessMeansGone

-----------------------------------------------------------------------------
(* The path of a remover *)

\* a remover's own state is its own
LEMMA OthersKeep ==
  ASSUME TypeOK, NEW p \in Procs, Remover(p), NEW q \in Procs, q # p
  PROVE  /\ pc'[q] = pc[q] /\ cur'[q] = cur[q] /\ open'[q] = open[q]
         /\ todo'[q] = todo[q]
<1>1. pc'[q] = pc[q] /\ cur'[q] = cur[q] /\ open'[q] = open[q]
  BY DEF TypeOK, Remover, Start, Lstat, Unlink, Opendir, NextEntry, Rmdir, Return,
    Fail, Trouble, Goto
<1>2. todo'[q] = todo[q]
  BY DEF TypeOK, Remover, Start, Lstat, Unlink, Opendir, NextEntry, Rmdir
<1> QED BY <1>1, <1>2

LEMMA ListedStep == TypeOK /\ Paths /\ [Next]_vars => Listed'
<1> SUFFICES ASSUME TypeOK, Paths, [Next]_vars PROVE Listed' OBVIOUS
<1>1. CASE todo' = todo
  BY <1>1 DEF Paths, Listed
<1>2. ASSUME NEW p \in Procs, Opendir(p), todo' # todo PROVE Listed'
  <2>1. cur[p] \in Dirs /\ todo' = [todo EXCEPT ![p][cur[p]] = Entries(cur[p])]
    BY <1>2 DEF Opendir, Paths, OnPath
  <2>2. Entries(cur[p]) \in SUBSET Nodes /\ Entries(cur[p]) \subseteq Children(cur[p])
    BY DEF Entries, Children
  <2>3. \A q \in Procs, e \in Dirs :
          todo'[q][e] = IF q = p /\ e = cur[p] THEN Entries(cur[p]) ELSE todo[q][e]
    BY <2>1, <2>2, TodoSet
  <2> QED BY <2>2, <2>3 DEF Paths, Listed
<1>3. ASSUME NEW p \in Procs, NextEntry(p), todo' # todo PROVE Listed'
  <2>1. cur[p] \in Dirs
    BY <1>3 DEF NextEntry, Paths, OnPath
  <2>2. PICK n : todo' = [todo EXCEPT ![p][cur[p]] = todo[p][cur[p]] \ {n}]
    BY <1>3 DEF NextEntry
  <2>3. todo[p][cur[p]] \ {n} \in SUBSET Nodes
    BY <2>1 DEF TypeOK
  <2>4. \A q \in Procs, e \in Dirs :
          todo'[q][e] = IF q = p /\ e = cur[p] THEN todo[p][cur[p]] \ {n} ELSE todo[q][e]
    BY <2>1, <2>2, <2>3, TodoSet
  <2> QED BY <2>4 DEF Paths, Listed
<1>4. ASSUME NEW p \in Procs, Start(p) \/ Lstat(p) \/ Unlink(p) \/ Rmdir(p)
      PROVE  todo' = todo
  BY <1>4 DEF Start, Lstat, Unlink, Rmdir
<1>5. ASSUME NEW n \in Nodes, Create(n) PROVE todo' = todo
  BY <1>5 DEF Create
<1> QED BY <1>1, <1>2, <1>3, <1>4, <1>5 DEF Next, Remover, Over, vars

\* returning from a node leads to its parent, whose listing goes on
LEMMA ReturnPath ==
  ASSUME TypeOK, NEW p \in Procs, Return(p), open' = open,
         open[p] = Above(cur[p]) \ {cur[p]}
  PROVE  OnPath(p)'
<1>0. cur[p] \in Nodes
  BY DEF TypeOK
<1>1. CASE cur[p] = Root
  BY <1>1 DEF Return, Goto, TypeOK, OnPath
<1>2. CASE cur[p] # Root
  <2>1. pc'[p] = "next" /\ cur'[p] = Parent[cur[p]] /\ Parent[cur[p]] \in Dirs
    BY <1>0, <1>2, TreeAssumption DEF Return, Goto, TypeOK
  <2>2. open'[p] = Above(Parent[cur[p]])
    BY <1>0, <1>2, AboveStep, NoCycle
  <2> QED BY <2>1, <2>2 DEF OnPath
<1> QED BY <1>1, <1>2

LEMMA PathStep ==
  ASSUME TypeOK, Paths, [Next]_vars, NEW q \in Procs
  PROVE  OnPath(q)'
<1>0. OnPath(q) /\ cur[q] \in Nodes
  BY DEF Paths, TypeOK
<1>1. ASSUME pc'[q] = pc[q] /\ cur'[q] = cur[q] /\ open'[q] = open[q]
      PROVE  OnPath(q)'
  BY <1>0, <1>1 DEF OnPath
<1>2. ASSUME NEW p \in Procs, p # q, Remover(p) PROVE OnPath(q)'
  BY <1>1, <1>2, OthersKeep
<1>3. CASE Start(q)
  BY <1>0, <1>3 DEF Start, Goto, TypeOK, OnPath
<1>4. CASE Lstat(q)
  <2>1. CASE Return(q) /\ open' = open
    BY <1>0, <1>4, <2>1, ReturnPath DEF Lstat, OnPath
  <2>2. CASE Fail(q)
    BY <2>2 DEF Fail, Goto, TypeOK, OnPath
  <2>3. CASE ~(Return(q) /\ open' = open) /\ ~Fail(q)
    BY <1>0, <1>4, <2>3 DEF Lstat, Trouble, Goto, TypeOK, OnPath
  <2> QED BY <2>1, <2>2, <2>3
<1>5. CASE Unlink(q)
  <2>1. CASE Return(q) /\ open' = open
    BY <1>0, <1>5, <2>1, ReturnPath DEF Unlink, OnPath
  <2>2. CASE Fail(q)
    BY <2>2 DEF Fail, Goto, TypeOK, OnPath
  <2> QED BY <1>5, <2>1, <2>2 DEF Unlink, Trouble
<1>6. CASE Opendir(q)
  <2>1. cur[q] \in Dirs /\ cur[q] \in Above(cur[q])
    BY <1>0, <1>6, AboveStep DEF Opendir, OnPath
  <2>2. CASE Fail(q)
    BY <2>2 DEF Fail, Goto, TypeOK, OnPath
  <2>3. CASE ~Fail(q)
    <3>1. pc'[q] = "next" /\ cur'[q] = cur[q]
      BY <1>6, <2>3 DEF Opendir, Trouble, Goto, TypeOK
    <3>2. open'[q] = open[q] \cup {cur[q]}
      BY <1>6, <2>3 DEF Opendir, Trouble, TypeOK
    <3>3. open[q] = Above(cur[q]) \ {cur[q]}
      BY <1>0, <1>6 DEF Opendir, OnPath
    <3> QED BY <2>1, <3>1, <3>2, <3>3 DEF OnPath
  <2> QED BY <2>2, <2>3
<1>7. CASE NextEntry(q)
  <2>1. cur[q] \in Dirs /\ open[q] = Above(cur[q])
    BY <1>0, <1>7 DEF NextEntry, OnPath
  <2>2. ASSUME NEW n \in todo[q][cur[q]], cur' = [cur EXCEPT ![q] = n],
               Goto(q, "lstat"), UNCHANGED open
        PROVE  OnPath(q)'
    <3>1. n \in Nodes \ {Root} /\ Parent[n] = cur[q]
      BY <2>1 DEF Paths, Listed, Children
    <3>2. open[q] = Above(n) \ {n}
      BY <2>1, <3>1, AboveStep, NoCycle
    <3>3. pc'[q] = "lstat" /\ cur'[q] = n /\ open'[q] = open[q]
      BY <2>2 DEF Goto, TypeOK
    <3> QED BY <3>2, <3>3 DEF OnPath
  <2>3. ASSUME open' = [open EXCEPT ![q] = @ \ {cur[q]}], Goto(q, "rmdir"),
               UNCHANGED cur
        PROVE  OnPath(q)'
    <3>1. pc'[q] = "rmdir" /\ cur'[q] = cur[q] /\ open'[q] = open[q] \ {cur[q]}
      BY <2>3 DEF Goto, TypeOK
    <3> QED BY <2>1, <3>1 DEF OnPath
  <2>4. CASE Fail(q)
    BY <2>4 DEF Fail, Goto, TypeOK, OnPath
  <2> QED BY <1>7, <2>2, <2>3, <2>4 DEF NextEntry, Trouble
<1>8. CASE Rmdir(q)
  <2>1. CASE Return(q) /\ open' = open
    BY <1>0, <1>8, <2>1, ReturnPath DEF Rmdir, OnPath
  <2>2. CASE Fail(q)
    BY <2>2 DEF Fail, Goto, TypeOK, OnPath
  <2> QED BY <1>8, <2>1, <2>2 DEF Rmdir, Trouble
<1>9. ASSUME NEW n \in Nodes, Create(n) PROVE OnPath(q)'
  BY <1>1, <1>9 DEF Create
<1>10. CASE UNCHANGED vars
  BY <1>1, <1>10 DEF vars
<1> QED BY <1>2, <1>3, <1>4, <1>5, <1>6, <1>7, <1>8, <1>9, <1>10
  DEF Next, Remover, Over

-----------------------------------------------------------------------------
(* What a remover has seen *)

LEMMA ReturnSeen ==
  ASSUME TypeOK, NEW p \in Procs, OnPath(p), Seen(p), made = {}, troubled = {},
         pc[p] \in {"lstat", "unlink", "rmdir"},
         Return(p), open' = open, todo' = todo,
         exists' \subseteq exists, cur[p] \notin exists'
  PROVE  Seen(p)'
<1>0. cur[p] \in Nodes /\ exists \subseteq Nodes
  BY DEF TypeOK
<1>1. pc'[p] # "rmdir"
  BY DEF Return, Goto, TypeOK
<1>2. ASSUME NEW e \in exists' \ {Root}, Parent[e] \in open[p]
      PROVE  e \in todo[p][Parent[e]] \cup Above(cur'[p])
  <2>1. e \in todo[p][Parent[e]] \cup Above(cur[p]) /\ e # cur[p]
    BY <1>2 DEF Seen
  <2>2. CASE cur[p] = Root
    BY <1>0, <1>2, <2>1, <2>2, AboveStep
  <2>3. CASE cur[p] # Root
    <3>1. cur'[p] = Parent[cur[p]]
      BY <2>3 DEF Return, TypeOK
    <3> QED BY <1>0, <2>1, <2>3, <3>1, AboveStep
  <2> QED BY <2>2, <2>3
<1> QED BY <1>1, <1>2 DEF Seen

LEMMA SeenStep ==
  ASSUME TypeOK, Paths, [Next]_vars, NEW q \in Procs, Seen(q)
  PROVE  Seen(q)'
<1> SUFFICES ASSUME made' = {}, troubled' = {} PROVE Seen(q)'
  BY DEF Seen
<1>0. OnPath(q) /\ cur[q] \in Nodes /\ exists \subseteq Nodes
  BY DEF Paths, TypeOK
<1>1. made = {} /\ troubled = {} /\ exists' \subseteq exists
  BY DiskStep, TroubleStays
<1>1a. ~Meets(q)
  BY TroubleStays
<1>2. ASSUME cur'[q] = cur[q], open'[q] = open[q], todo'[q] = todo[q],
             pc'[q] = "rmdir" => pc[q] = "rmdir"
      PROVE  Seen(q)'
  BY <1>1, <1>2 DEF Seen, Entries
<1>3. ASSUME Fail(q) PROVE Seen(q)'
  <2>1. pc'[q] = "failed" /\ open'[q] = {}
    BY <1>3 DEF Fail, Goto, TypeOK
  <2> QED BY <2>1 DEF Seen
<1>4. ASSUME NEW p \in Procs, p # q, Remover(p) PROVE Seen(q)'
  BY <1>2, <1>4, OthersKeep
<1>5. CASE Start(q)
  BY <1>2, <1>5 DEF Start, Goto, TypeOK
<1>6. CASE Lstat(q)
  <2>0. ~Trouble(q)
    BY <1>1a DEF Trouble
  <2>1. CASE cur[q] \notin exists
    BY <1>0, <1>1, <1>6, <2>0, <2>1, ReturnSeen DEF Lstat
  <2>2. CASE cur[q] \in exists
    BY <1>2, <1>6, <2>0, <2>2 DEF Lstat, Goto, TypeOK
  <2> QED BY <2>1, <2>2
<1>7. CASE Unlink(q)
  <2>1. CASE Return(q) /\ open' = open
    <3>1. todo' = todo /\ pc[q] = "unlink"
      BY <1>7 DEF Unlink
    <3>2. cur[q] \notin exists'
      BY <1>7, <2>1 DEF Unlink, Trouble, Return, Fail, Goto, TypeOK
    <3> QED BY <1>0, <1>1, <2>1, <3>1, <3>2, ReturnSeen
  <2> QED BY <1>3, <1>7, <2>1 DEF Unlink, Trouble
<1>8. CASE Opendir(q)
  <2>1. CASE ~Fail(q)
    <3>0. cur[q] \in Dirs /\ Entries(cur[q]) \in SUBSET Nodes
      BY <1>0, <1>8 DEF Opendir, OnPath, Entries
    <3>1. pc'[q] = "next" /\ cur'[q] = cur[q] /\ exists' = exists
      BY <1>8, <2>1 DEF Opendir, Trouble, Goto, TypeOK
    <3>2. open'[q] = open[q] \cup {cur[q]}
      BY <1>8, <2>1 DEF Opendir, Trouble, TypeOK
    <3>3. todo' = [todo EXCEPT ![q][cur[q]] = Entries(cur[q])]
      BY <1>8, <2>1 DEF Opendir, Trouble
    <3>4. \A e \in Dirs :
            todo'[q][e] = IF e = cur[q] THEN Entries(cur[q]) ELSE todo[q][e]
      BY <3>0, <3>3, TodoSet
    <3>5. ASSUME NEW e \in exists \ {Root}, Parent[e] \in open'[q]
          PROVE  e \in todo'[q][Parent[e]] \cup Above(cur[q])
      <4>1. Parent[e] \in Dirs
        BY <1>0, <3>5, TreeAssumption
      <4>2. CASE Parent[e] = cur[q]
        BY <1>0, <3>4, <4>1, <4>2 DEF Entries
      <4>3. CASE Parent[e] # cur[q]
        BY <1>1, <3>2, <3>4, <3>5, <4>1, <4>3 DEF Seen
      <4> QED BY <4>2, <4>3
    <3> QED BY <3>1, <3>5 DEF Seen
  <2> QED BY <1>3, <2>1
<1>9. CASE NextEntry(q)
  <2>1. /\ cur[q] \in Dirs /\ open[q] = Above(cur[q])
        /\ todo[q][cur[q]] \subseteq Children(cur[q]) /\ exists' = exists
    BY <1>0, <1>9 DEF NextEntry, OnPath, Paths, Listed
  <2>2. ASSUME NEW n \in todo[q][cur[q]], cur' = [cur EXCEPT ![q] = n],
               todo' = [todo EXCEPT ![q][cur[q]] = @ \ {n}],
               Goto(q, "lstat"), UNCHANGED open
        PROVE  Seen(q)'
    <3>1. n \in Nodes \ {Root} /\ Parent[n] = cur[q]
      BY <2>1 DEF Children
    <3>2. Above(n) = {n} \cup Above(cur[q])
      BY <3>1, AboveStep
    <3>3. pc'[q] = "lstat" /\ cur'[q] = n /\ open'[q] = open[q]
      BY <2>2 DEF Goto, TypeOK
    <3>4. todo[q][cur[q]] \ {n} \in SUBSET Nodes
      BY <2>1 DEF TypeOK
    <3>5. \A e \in Dirs :
            todo'[q][e] = IF e = cur[q] THEN todo[q][cur[q]] \ {n} ELSE todo[q][e]
      BY <2>1, <2>2, <3>4, TodoSet
    <3>6. ASSUME NEW e \in exists \ {Root}, Parent[e] \in open[q]
          PROVE  e \in todo'[q][Parent[e]] \cup Above(n)
      <4>1. Parent[e] \in Dirs
        BY <1>0, <3>6, TreeAssumption
      <4>2. e \in todo[q][Parent[e]] \cup Above(cur[q])
        BY <1>1, <3>6 DEF Seen
      <4> QED BY <3>2, <3>5, <4>1, <4>2
    <3> QED BY <2>1, <3>3, <3>6 DEF Seen
  <2>3. ASSUME todo[q][cur[q]] = {}, open' = [open EXCEPT ![q] = @ \ {cur[q]}],
               Goto(q, "rmdir"), UNCHANGED <<cur, todo>>
        PROVE  Seen(q)'
    <3>1. cur'[q] = cur[q] /\ open'[q] = open[q] \ {cur[q]} /\ todo' = todo
      BY <2>3 DEF TypeOK
    <3>2. ASSUME NEW e \in Entries(cur[q]) PROVE FALSE
      <4>1. e \in exists \ {Root} /\ Parent[e] = cur[q] /\ e \in Nodes
        BY <3>2 DEF Entries
      <4>2. cur[q] \in Above(cur[q])
        BY <1>0, AboveStep
      <4>3. e \in Above(cur[q])
        BY <1>1, <2>1, <2>3, <4>1, <4>2 DEF Seen
      <4> QED BY <4>1, <4>3, NoCycle
    <3>3. Entries(cur[q])' = {}
      BY <2>1, <3>1, <3>2 DEF Entries
    <3> QED BY <1>1, <2>1, <3>1, <3>3 DEF Seen
  <2> QED BY <1>1a, <1>9, <2>2, <2>3 DEF NextEntry, Trouble
<1>10. CASE Rmdir(q)
  <2>1. CASE Return(q) /\ open' = open
    <3>1. todo' = todo /\ pc[q] = "rmdir"
      BY <1>10 DEF Rmdir
    <3>2. cur[q] \notin exists'
      BY <1>10, <2>1 DEF Rmdir, Trouble, Return, Fail, Goto, TypeOK
    <3> QED BY <1>0, <1>1, <2>1, <3>1, <3>2, ReturnSeen
  <2> QED BY <1>3, <1>10, <2>1 DEF Rmdir, Trouble
<1>11. ASSUME NEW n \in Nodes, Create(n) PROVE Seen(q)'
  BY <1>2, <1>11 DEF Create
<1>12. CASE UNCHANGED vars
  BY <1>2, <1>12 DEF vars
<1> QED BY <1>4, <1>5, <1>6, <1>7, <1>8, <1>9, <1>10, <1>11, <1>12
  DEF Next, Remover, Over

-----------------------------------------------------------------------------
(* Somebody to whom nothing has happened *)

\* who stays as it was, in a tree that stays as it was, stays fresh
LEMMA FreshKeeps ==
  ASSUME TypeOK, NEW q \in Procs, Fresh(q), exists' = exists,
         pc'[q] = pc[q], cur'[q] = cur[q], open'[q] = open[q]
  PROVE  Fresh(q)'
BY DEF Fresh, Active, Ended

\* a fresh remover goes on, and stays fresh unless it removes something
LEMMA FreshMoves ==
  ASSUME TypeOK, Paths, NEW p \in Procs, Fresh(p), Seen(p), made = {}, troubled = {}, ~Meets(p),
         Remover(p), exists' = exists, Root \in exists
  PROVE  Fresh(p)'
<1>0. OnPath(p) /\ cur[p] \in Nodes
  BY DEF Paths, TypeOK
<1>1. CASE Lstat(p)
  BY <1>1 DEF Lstat, Trouble, Return, Goto, TypeOK, Fresh, Active, Ended
<1>2. CASE Unlink(p)
  BY <1>2 DEF Unlink, Trouble, Fresh
<1>3. CASE Opendir(p)
  <2>1. /\ pc'[p] = "next" /\ open'[p] = open[p] \cup {cur[p]} /\ cur[p] \in exists
    BY <1>3 DEF Opendir, Trouble, Goto, TypeOK, Fresh
  <2> QED BY <2>1 DEF Fresh, Active, Ended
<1>4. CASE NextEntry(p)
  <2>1. cur[p] \in exists
    BY <1>0, <1>4, AboveStep DEF NextEntry, OnPath, Fresh
  <2>2. \/ pc'[p] = "lstat" /\ open'[p] = open[p]
        \/ /\ pc'[p] = "rmdir" /\ cur'[p] = cur[p]
           /\ open'[p] = open[p] \ {cur[p]}
    BY <1>4 DEF NextEntry, Trouble, Goto, TypeOK
  <2> QED BY <2>1, <2>2 DEF Fresh, Active, Ended
<1>5. CASE Rmdir(p)
  BY <1>5 DEF Rmdir, Trouble, Fresh, Seen
<1>6. CASE Start(p)
  BY <1>6 DEF Start, Fresh, Active
<1> QED BY <1>1, <1>2, <1>3, <1>4, <1>5, <1>6 DEF Remover

\* who has just removed something other than the box itself is fresh
LEMMA FreshRemoves ==
  ASSUME TypeOK, Paths, UpClosed(exists), NEW p \in Procs, Remover(p),
         exists' # exists, Root \in exists'
  PROVE  Fresh(p)'
<1>0. OnPath(p) /\ cur[p] \in Nodes /\ exists \subseteq Nodes
  BY DEF Paths, TypeOK
<1>1. Unlink(p) \/ Rmdir(p)
  BY DEF Remover, Start, Lstat, Opendir, NextEntry
<1>2. /\ cur[p] \in exists /\ exists' = exists \ {cur[p]}
      /\ Return(p) /\ open' = open
      /\ open[p] = Above(cur[p]) \ {cur[p]}
  BY <1>0, <1>1 DEF Unlink, Rmdir, OnPath
<1>3. pc'[p] = "next"
  BY <1>2 DEF Return, Goto, TypeOK
<1>4. open'[p] \subseteq exists'
  BY <1>0, <1>2, AboveExists
<1> QED BY <1>3, <1>4 DEF Fresh, Active, Ended

LEMMA FreshStep ==
  ASSUME TypeOK, Paths, UpClosed(exists), \A p \in Procs : Seen(p), SomeFresh,
         [Next]_vars
  PROVE  SomeFresh'
<1> SUFFICES ASSUME made' = {}, troubled' = {}, Root \in exists',
                    NEW p0 \in Procs, pc'[p0] # "idle"
             PROVE  \E q \in Procs : Fresh(q)'
  BY DEF SomeFresh
<1>0. made = {} /\ troubled = {} /\ Root \in exists
  BY DiskStep, TroubleStays
<1>1. ASSUME NEW p \in Procs, Remover(p) PROVE \E q \in Procs : Fresh(q)'
  <2>1. CASE exists' # exists
    BY <1>1, <2>1, FreshRemoves
  <2>2. CASE exists' = exists /\ Start(p)
    <3>1. open[p] = Above(Root) \ {Root} /\ Root \in Nodes
      BY <1>0, <2>2 DEF Start, Paths, OnPath, TypeOK
    <3>2. pc'[p] = "lstat" /\ open'[p] = {}
      BY <1>0, <2>2, <3>1, AboveStep DEF Start, Goto, TypeOK
    <3> QED BY <3>2 DEF Fresh, Active, Ended
  <2>3. CASE exists' = exists /\ ~Start(p)
    <3>1. pc[p] # "idle"
      BY <1>1, <2>3 DEF Remover, Lstat, Unlink, Opendir, NextEntry, Rmdir
    <3>2. PICK q \in Procs : Fresh(q)
      BY <1>0, <3>1 DEF SomeFresh
    <3>3. CASE q = p
      BY <1>0, <1>1, TroubleStays, <2>3, <3>2, <3>3, FreshMoves
    <3>4. CASE q # p
      BY <1>1, <2>3, <3>2, <3>4, OthersKeep, FreshKeeps
    <3> QED BY <3>3, <3>4
  <2> QED BY <2>1, <2>2, <2>3
<1>2. ASSUME NEW n \in Nodes, Create(n) PROVE FALSE
  BY <1>2 DEF Create
<1>3. CASE UNCHANGED vars
  <2>1. PICK q \in Procs : Fresh(q)
    BY <1>0, <1>3 DEF SomeFresh, vars
  <2> QED BY <1>3, <2>1, FreshKeeps DEF vars
<1> QED BY <1>1, <1>2, <1>3 DEF Next, Over

-----------------------------------------------------------------------------
(* Theorems *)

LEMMA InitIInv == Init => IInv
<1> SUFFICES ASSUME Init PROVE IInv OBVIOUS
<1>1. TypeOK
  BY InitType
<1>2. Root \in Nodes /\ Above(Root) = {Root}
  BY TreeAssumption, AboveStep
<1>3. \A p \in Procs : pc[p] = "idle" /\ cur[p] = Root /\ open[p] = {}
  BY DEF Init
<1>4. UpClosed(exists)
  BY TreeAssumption DEF Init, UpClosed
<1>5. Paths
  BY <1>2, <1>3 DEF Init, Paths, Listed, OnPath
<1>6. \A p \in Procs : Seen(p)
  BY <1>3 DEF Seen
<1>7. SuccessMeansGone /\ SomeFresh
  BY <1>3 DEF SuccessMeansGone, SomeFresh
<1> QED BY <1>1, <1>4, <1>5, <1>6, <1>7 DEF IInv

LEMMA IInvStep == IInv /\ [Next]_vars => IInv'
<1> SUFFICES ASSUME IInv, [Next]_vars PROVE IInv' OBVIOUS
<1> USE DEF IInv
<1>1. TypeOK' /\ UpClosed(exists)' /\ SuccessMeansGone' /\ SomeFresh'
  BY TypeStep, UpStep, GoneStep, FreshStep DEF UpClosed
<1>2. Paths'
  BY ListedStep, PathStep DEF Paths
<1>3. \A p \in Procs : Seen(p)'
  BY SeenStep
<1> QED BY <1>1, <1>2, <1>3

LEMMA Invariance == Spec => []IInv
BY InitIInv, IInvStep, PTL DEF Spec

\* the state of the removers is what the model says it is
THEOREM TypeCorrect == Spec => []TypeOK
BY Invariance, PTL DEF IInv

(***************************************************************************)
(* When lsandbox_remove_recursive has returned 0 for one of its callers,   *)
(* nothing of the box is left, whatever the others do and whatever was     *)
(* added to the box meanwhile.                                             *)
(***************************************************************************)
THEOREM SuccessIsReal == Spec => []SuccessMeansGone
BY Invariance, PTL DEF IInv

(***************************************************************************)
(* Any number of removers in each other's way: that some give up because   *)
(* of what others removed never means that all do, as long as nobody adds  *)
(* to the box and no call fails for a reason of its own.                   *)
(***************************************************************************)
THEOREM SomebodyFinishes == Spec => []BoxGoes
<1>1. IInv => BoxGoes
  BY DEF IInv, SomeFresh, Fresh, BoxGoes
<1> QED BY <1>1, Invariance, PTL
=============================================================================
