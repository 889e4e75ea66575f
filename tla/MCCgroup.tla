------------------------------ MODULE MCCgroup ------------------------------
(* Small instances of Cgroup for TLC. *)
EXTENDS Cgroup, TLC

CONSTANTS r1, r2, a, b

Conf(n, k, m, p, i) == [name |-> n, keep |-> k, mem |-> m, pids |-> p, ignchld |-> i]

MCPidsMax == 4

\* an ordinary run; one asked to keep its group; one with a --mem text that
\* does not parse, or is empty; one with a --pids the kernel refuses; one
\* started with SIGCHLD ignored
Ordinary(n) == Conf(n, FALSE, "valid", 1, FALSE)
Odd(n) == {Conf(n, TRUE, "valid", 1, FALSE), Conf(n, FALSE, "invalid", 1, FALSE),
           Conf(n, FALSE, "empty", 1, FALSE), Conf(n, FALSE, "valid", 5, FALSE),
           Conf(n, FALSE, "valid", 1, TRUE)}

SameName == {Ordinary(a)} \cup Odd(a)
\* whose limits may not all be applied, and another name
TwoNames == {Ordinary(a), Ordinary(b)}
              \cup {c \in Odd(a) : ~c.keep /\ ~c.ignchld}
\* runs that call cleanup from apply, or only after waitpid
Crossing == {Ordinary(a), Conf(a, FALSE, "invalid", 1, FALSE)}
Plain    == {Ordinary(a), Ordinary(b)}

GoodHost == [v2 |-> TRUE, ctl |-> {"memory", "pids", "cpu"}, swap |-> TRUE]
NoSwap   == [GoodHost EXCEPT !.swap = FALSE]
OnlySet  == [GoodHost EXCEPT !.ctl = {"memory", "pids", "cpuset"}]
NoCtl    == [GoodHost EXCEPT !.ctl = {"memory"}]
NoV2     == [GoodHost EXCEPT !.v2 = FALSE]

Symmetry == Permutations(Runs)

OneHost  == {GoodHost}
AllHosts == {GoodHost, NoSwap, OnlySet, NoCtl, NoV2}
=============================================================================
