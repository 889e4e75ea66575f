----------------------------- MODULE MCSandbox -----------------------------
(* Small instances of Sandbox for TLC. *)
EXTENDS Sandbox

CONSTANTS a

Plain == [name |-> a, keep |-> FALSE, mem |-> "valid", pids |-> 1, ignchld |-> FALSE]

\* an ordinary run and one that cannot wait for its child
WaitOrNot == {Plain, [Plain EXCEPT !.ignchld = TRUE]}
OnlyPlain == {Plain}

GoodHost == [v2 |-> TRUE, ctl |-> {"memory", "pids", "cpu"}, swap |-> TRUE]
\* no cgroups v2: apply fails at once
NoV2     == [GoodHost EXCEPT !.v2 = FALSE]
OneHost  == {NoV2}
TwoHosts == {GoodHost, NoV2}

Default == {[drop |-> TRUE, mode |-> "basic"]}

\* set-up that works, fails early, or has nothing to execute
SomeRefused == {{}, {"overlay"}, {"execvp"}}
NothingRefused == {{}}

\* what may come in between: one event, or a delete
Every   == {{"kill"}, {"log"}, {"delete"}, {"clean"}}
Deleted == {{"delete"}}

\* a call the filter kills for, and the exit code that looks like it
TwoEnds == {Signaled(SIGSYS), Exited(128 + SIGSYS)}

\* no run has changed what child1 needs
OnlyNew == {[links |-> {}, resolv |-> "host's"]}

\* a log that fails only with a set-up that works; with others at work, only the
\* new box of a run with --rm, on a host where its group takes no time
MCInit ==
  /\ Init
  /\ \/ scene = {"kill"}
     \/ scene = {"log"} /\ refused = {}
     \/ refused = {} /\ rm /\ ~lcfg[self].ignchld /\ host = NoV2 /\ exists = {}

MCSpec == MCInit /\ [][Next]_vars /\ WF_vars(Launcher)
=============================================================================
