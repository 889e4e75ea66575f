------------------------------ MODULE Contract ------------------------------
(***************************************************************************)
(* What `lsandbox run` promises to whoever calls it, with no word about    *)
(* how: at most one box, in which the command is started at most once; the *)
(* call returns after the box is over and passes on how it ended, or it    *)
(* returns 1 without ever having had a box; a launcher that is killed      *)
(* leaves the box to itself.                                               *)
(***************************************************************************)
EXTENDS Integers

CONSTANTS
  Outcomes,      \* how the init of a box may end: records [how, n], with how
                 \* "exit" or "signal"
  SetupOutcomes  \* those possible before the command has started

VARIABLES
  waits,  \* whether the caller lets its children be waited for
  run,    \* "called", "returned", or "gone" when the launcher was killed
  box,    \* "none", "setup", "command" or "over"
  out,    \* how the box ended
  rc      \* what the call returned

vars == <<waits, run, box, out, rc>>

NoOutcome == [how |-> "none", n |-> 0]
NoCode    == -1

\* the convention of the shells
CodeOf(o) == IF o.how = "signal" THEN 128 + o.n ELSE o.n

Init ==
  /\ waits \in BOOLEAN
  /\ run = "called" /\ box = "none"
  /\ out = NoOutcome /\ rc = NoCode

Refuse ==
  /\ run = "called" /\ box = "none"
  /\ run' = "returned" /\ rc' = 1
  /\ UNCHANGED <<waits, box, out>>

Enter ==
  /\ run = "called" /\ box = "none"
  /\ box' = "setup"
  /\ UNCHANGED <<waits, run, out, rc>>

Start ==
  /\ box = "setup"
  /\ box' = "command"
  /\ UNCHANGED <<waits, run, out, rc>>

End(o) ==
  /\ box \in {"setup", "command"}
  /\ box = "setup" => o \in SetupOutcomes
  /\ box' = "over" /\ out' = o
  /\ UNCHANGED <<waits, run, rc>>

Return ==
  /\ run = "called" /\ box = "over"
  /\ run' = "returned"
  /\ rc' = IF waits THEN CodeOf(out) ELSE 1
  /\ UNCHANGED <<waits, box, out>>

Die ==
  /\ run = "called"
  /\ run' = "gone"
  /\ UNCHANGED <<waits, box, out, rc>>

Next == Refuse \/ Enter \/ Start \/ (\E o \in Outcomes : End(o)) \/ Return \/ Die

Spec == Init /\ [][Next]_vars
=============================================================================
