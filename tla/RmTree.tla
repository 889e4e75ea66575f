------------------------------- MODULE RmTree -------------------------------
(***************************************************************************)
(* lsandbox_remove_recursive on a box directory, by several processes at   *)
(* once: `lsandbox delete`, and every `run --rm` of that name whose        *)
(* command has ended.  rmtree1 works one system call at a time (lstat,     *)
(* then unlink, or opendir, the entries, rmdir), so that each may find     *)
(* that another was faster.  A command still running in the box may add    *)
(* files meanwhile.  Any call may also fail for a reason of its own: a     *)
(* path over 4096 bytes, a tree deeper than the descriptors the process    *)
(* may have, an entry that is mounted on or immutable, an I/O error.       *)
(***************************************************************************)
EXTENDS Naturals, FiniteSets

CONSTANTS
  Nodes,    \* the files and directories the box may have
  Dirs,     \* those that are directories
  Root,     \* sandboxes/<name>
  Parent,   \* the directory each other node is in
  Late,     \* the nodes that do not exist at first, but may be added
  Procs,    \* the processes that remove the box
  Deletes,  \* those of them that are `lsandbox delete`, which looks first
  Prone     \* those of them whose calls may fail without another's doing

ASSUME TreeAssumption ==
  /\ Root \in Dirs
  /\ Dirs \subseteq Nodes
  /\ Parent \in [Nodes \ {Root} -> Dirs]
  /\ \A S \in (SUBSET Nodes) \ {{}} :      \* every way up ends at the root
       (\A n \in S \ {Root} : Parent[n] \in S) => Root \in S
  /\ Late \subseteq Nodes \ {Root}
  /\ \A n \in Nodes \ {Root} : Parent[n] \in Late => n \in Late
  /\ Deletes \subseteq Procs
  /\ Prone \subseteq Procs

VARIABLES
  exists,   \* the nodes on disk
  made,     \* the late nodes that were added
  pc,       \* what each process does next, or how it ended
  cur,      \* the node rmtree1 was last called for
  open,     \* the directories the process is listing
  todo,     \* for each of them, the entries readdir has yet to return
  troubled  \* the processes that met an error other than losing a race

vars == <<exists, made, pc, cur, open, todo, troubled>>

Ended == {"ok", "failed"}

TypeOK ==
  /\ exists \subseteq Nodes
  /\ made \subseteq Late
  /\ pc \in [Procs -> {"idle", "lstat", "unlink", "opendir", "next", "rmdir"} \cup Ended]
  /\ cur \in [Procs -> Nodes]
  /\ open \in [Procs -> SUBSET Dirs]
  /\ todo \in [Procs -> [Dirs -> SUBSET Nodes]]
  /\ troubled \subseteq Prone

-----------------------------------------------------------------------------

Entries(d) == {n \in Nodes \ {Root} : Parent[n] = d /\ n \in exists}

Goto(p, step) == pc' = [pc EXCEPT ![p] = step]

\* rmtree1(cur) returns 0: to the loop of its caller, or out
Return(p) ==
  IF cur[p] = Root
  THEN Goto(p, "ok") /\ UNCHANGED cur
  ELSE Goto(p, "next") /\ cur' = [cur EXCEPT ![p] = Parent[cur[p]]]

\* rmtree1 returns -1, and so does every caller after its closedir
Fail(p) ==
  /\ Goto(p, "failed")
  /\ open' = [open EXCEPT ![p] = {}]
  /\ UNCHANGED cur

\* an error that has nothing to do with the other processes
Meets(p) == p \in Prone /\ troubled' = troubled \cup {p}
Trouble(p) == Fail(p) /\ Meets(p)

-----------------------------------------------------------------------------

\* lsandbox_manage_delete returns 1 when there is no such directory
Start(p) ==
  /\ pc[p] = "idle"
  /\ IF p \in Deletes /\ Root \notin exists THEN Goto(p, "failed") ELSE Goto(p, "lstat")
  /\ UNCHANGED <<exists, made, cur, open, todo, troubled>>

\* mutants: no S_ISDIR test; a vanished entry is an error
LstatNoType(p) ==
  /\ pc[p] = "lstat"
  /\ IF cur[p] \in exists THEN Goto(p, "opendir") /\ UNCHANGED cur ELSE Return(p)
  /\ UNCHANGED <<exists, made, open, todo, troubled>>

LstatStrict(p) ==
  /\ pc[p] = "lstat"
  /\ IF cur[p] \in exists
     THEN Goto(p, IF cur[p] \in Dirs THEN "opendir" ELSE "unlink") /\ UNCHANGED <<cur, open>>
     ELSE Fail(p)
  /\ UNCHANGED <<exists, made, todo, troubled>>

\* of the errors only ENOENT counts as success
Lstat(p) ==
  /\ pc[p] = "lstat"
  /\ \/ /\ \/ cur[p] \notin exists /\ Return(p)
           \/ cur[p] \in exists \cap Dirs /\ Goto(p, "opendir") /\ UNCHANGED cur
           \/ cur[p] \in exists \ Dirs /\ Goto(p, "unlink") /\ UNCHANGED cur
        /\ UNCHANGED <<open, troubled>>
     \/ Trouble(p)
  /\ UNCHANGED <<exists, made, todo>>

\* but here it does not
Unlink(p) ==
  /\ pc[p] = "unlink"
  /\ \/ /\ cur[p] \in exists /\ exists' = exists \ {cur[p]}
        /\ Return(p) /\ UNCHANGED <<open, troubled>>
     \/ cur[p] \notin exists /\ Fail(p) /\ UNCHANGED <<exists, troubled>>
     \/ Trouble(p) /\ UNCHANGED exists
  /\ UNCHANGED <<made, todo>>

\* opendir and the first readdir, which fetches all entries of a small directory
Opendir(p) ==
  /\ pc[p] = "opendir"
  /\ \/ /\ cur[p] \in exists
        /\ open' = [open EXCEPT ![p] = @ \cup {cur[p]}]
        /\ todo' = [todo EXCEPT ![p][cur[p]] = Entries(cur[p])]
        /\ Goto(p, "next") /\ UNCHANGED <<cur, troubled>>
     \/ cur[p] \notin exists /\ Fail(p) /\ UNCHANGED <<todo, troubled>>
     \/ Trouble(p) /\ UNCHANGED todo
  /\ UNCHANGED <<exists, made>>

\* mutant: rewinddir before every readdir, from the same buffer
NextEntryRewinds(p) ==
  LET d == cur[p] IN
  /\ pc[p] = "next"
  /\ \/ \E n \in todo[p][d] :
          cur' = [cur EXCEPT ![p] = n] /\ Goto(p, "lstat") /\ UNCHANGED open
     \/ /\ todo[p][d] = {}
        /\ open' = [open EXCEPT ![p] = @ \ {d}]
        /\ Goto(p, "rmdir")
        /\ UNCHANGED cur
  /\ UNCHANGED <<exists, made, todo, troubled>>

(***************************************************************************)
(* readdir: some entry, for which rmtree1 is called unless its path is too *)
(* long, or the end, for which an error of readdir is taken as well.       *)
(***************************************************************************)
NextEntry(p) ==
  LET d == cur[p] IN
  /\ pc[p] = "next"
  /\ \/ \E n \in todo[p][d] :
          /\ todo' = [todo EXCEPT ![p][d] = @ \ {n}]
          /\ cur' = [cur EXCEPT ![p] = n]
          /\ Goto(p, "lstat")
          /\ UNCHANGED <<open, troubled>>
     \/ todo[p][d] # {} /\ Trouble(p) /\ UNCHANGED todo
     \/ /\ IF todo[p][d] = {} THEN UNCHANGED troubled ELSE Meets(p)
        /\ open' = [open EXCEPT ![p] = @ \ {d}]
        /\ Goto(p, "rmdir")
        /\ UNCHANGED <<cur, todo>>
  /\ UNCHANGED <<exists, made>>

\* mutant: a failed rmdir is ignored
RmdirLax(p) ==
  LET gone == cur[p] \in exists /\ Entries(cur[p]) = {} IN
  /\ pc[p] = "rmdir"
  /\ exists' = IF gone THEN exists \ {cur[p]} ELSE exists
  /\ Return(p)
  /\ UNCHANGED <<made, open, todo, troubled>>

\* fails when the directory is gone or has entries, or by itself
Rmdir(p) ==
  LET gone == cur[p] \in exists /\ Entries(cur[p]) = {} IN
  /\ pc[p] = "rmdir"
  /\ \/ gone /\ exists' = exists \ {cur[p]} /\ Return(p) /\ UNCHANGED <<open, troubled>>
     \/ ~gone /\ Fail(p) /\ UNCHANGED <<exists, troubled>>
     \/ Trouble(p) /\ UNCHANGED exists
  /\ UNCHANGED <<made, todo>>

\* a command running in the box adds a file or directory, each at most once
Create(n) ==
  /\ n \in Late \ made
  /\ Parent[n] \in exists
  /\ exists' = exists \cup {n}
  /\ made' = made \cup {n}
  /\ UNCHANGED <<pc, cur, open, todo, troubled>>

-----------------------------------------------------------------------------

Init ==
  /\ exists = Nodes \ Late
  /\ made = {}
  /\ pc = [p \in Procs |-> "idle"]
  /\ cur = [p \in Procs |-> Root]
  /\ open = [p \in Procs |-> {}]
  /\ todo = [p \in Procs |-> [d \in Dirs |-> {}]]
  /\ troubled = {}

Remover(p) ==
  Start(p) \/ Lstat(p) \/ Unlink(p) \/ Opendir(p) \/ NextEntry(p) \/ Rmdir(p)

Over == (\A p \in Procs : pc[p] \in Ended) /\ UNCHANGED vars

Next == \/ \E p \in Procs : Remover(p)
        \/ \E n \in Nodes : Create(n)
        \/ Over

Spec == Init /\ [][Next]_vars

\* a process that was started keeps being scheduled
FairSpec == Spec /\ \A p \in Procs : WF_vars(Remover(p) /\ pc[p] # "idle")
-----------------------------------------------------------------------------
(* Properties *)

Active(p) == pc[p] \notin {"idle"} \cup Ended

(***************************************************************************)
(* Losing a race makes rmtree1 give up at once and report failure, but the *)
(* removers alone never leave the box half removed for good: as long as    *)
(* nobody has added anything and no call has failed for another reason,    *)
(* some remover is still at work or has finished the job.  With such an    *)
(* error the box may stay: rmtree1 gives up at the first one.              *)
(***************************************************************************)
BoxGoes ==
  made = {} /\ troubled = {} /\ Root \in exists /\ (\E p \in Procs : pc[p] = "failed") =>
    \E q \in Procs : Active(q)

\* A remover that reported success has left nothing behind, whatever was
\* added to the box meanwhile and whatever went wrong on the way.
SuccessMeansGone == (\E p \in Procs : pc[p] = "ok") => exists = {}

\* however often entries vanish or appear under it, a remover comes to an end
RemoverEnds == \A p \in Procs : pc[p] = "lstat" ~> pc[p] \in Ended
=============================================================================
