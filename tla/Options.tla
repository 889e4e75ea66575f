------------------------------- MODULE Options -------------------------------
(***************************************************************************)
(* From the command line to the settings of a run and the numbers in the   *)
(* control files: the dispatch of main, the loop of opts over the          *)
(* arguments, cmdpos, which looks for the command on its own, and limmem,  *)
(* limpids and limcpu on a host that has all controllers.                  *)
(***************************************************************************)
EXTENDS Limits, Sequences, FiniteSetsExt, FiniteSets

CONSTANTS
  Lines,    \* the command lines considered: argv[1] and what follows it
  PidsMax   \* the largest value the kernel takes in pids.max

(***************************************************************************)
(* A word of the command line, with what it is when it is read as a        *)
(* number.  Words that are numbers all have word = "number".               *)
(***************************************************************************)
Word == [word: STRING, neg: BOOLEAN, has: BOOLEAN, num: Nat, tail: Tails]

Plain(w) == [word |-> w, neg |-> FALSE, has |-> FALSE, num |-> 0,
             tail |-> IF w = "" THEN "" ELSE "other"]
Number(n, t, s) == [word |-> "number", neg |-> s, has |-> TRUE, num |-> n, tail |-> t]

ASSUME OptionsAssumption ==
  /\ \A line \in Lines : line \in Seq(Word) /\ line # <<>>
  /\ PidsMax \in Nat

VARIABLES
  argv,   \* argv[1], argv[2], ... as argv[1] on
  at,     \* what is done next, or what became of it
  i,      \* where the loop of opts is
  conf,   \* the settings
  cmd,    \* index of the command, 0 before it is known
  limit   \* the numbers written: Unlimited for "max", Unset

vars == <<argv, at, i, conf, cmd, limit>>

Unset     == -1
Unlimited == -2

Flags    == {"--rm", "--overlay-workdir", "--no-drop-privs", "--keep-cgroup"}
Valued   == {"--name", "--net", "--seccomp", "--mem", "--pids", "--cpu"}
Managers == {"list", "inspect", "logs", "clean", "delete", "clean-cgroups"}

Ended == {"usage", "manage", "applied", "unlimited"}

TypeOK ==
  /\ Len(argv) > 0
  /\ at \in {"main", "opts", "cmdpos", "mem", "pids", "cpu"} \cup Ended
  /\ i \in 2 .. Len(argv) + 2
  /\ cmd \in 0 .. Len(argv)
  /\ conf.pids > 0 /\ conf.cpu \in 1 .. 100
  /\ DOMAIN limit = {"mem", "pids", "cpu"}

-----------------------------------------------------------------------------
(* main, opts, cmdpos *)

\* sandbox_config_init: the settings options can change
Defaults ==
  [name |-> Plain("default"), rm |-> FALSE, net |-> TRUE, mode |-> "basic",
   workdir |-> FALSE, drop |-> TRUE, keep |-> FALSE,
   mem |-> Number(1, "G", FALSE), pids |-> 128, cpu |-> 100]

Goto(step) == at' = step

\* help, and exit code 1
Usage == Goto("usage") /\ UNCHANGED <<argv, i, conf, cmd, limit>>

\* `inspect', `clean' and `delete' have an argument; the others none
Arity(word) == IF word \in {"inspect", "clean", "delete"} THEN 2 ELSE 1

Main ==
  /\ at = "main"
  /\ \/ /\ argv[1].word = "run" /\ Len(argv) >= 3
        /\ Goto("opts")
     \/ /\ argv[1].word \in Managers /\ Len(argv) = Arity(argv[1].word)
        /\ Goto("manage")
     \/ /\ ~(argv[1].word = "run" /\ Len(argv) >= 3)
        /\ ~(argv[1].word \in Managers /\ Len(argv) = Arity(argv[1].word))
        /\ Goto("usage")
  /\ UNCHANGED <<argv, i, conf, cmd, limit>>

\* opts goes on with the argument after the next n
Took(n) == i' = i + n /\ Goto("opts") /\ UNCHANGED <<argv, cmd, limit>>

\* "--", or no argument left
OptsEnds ==
  /\ at = "opts"
  /\ i <= Len(argv) => argv[i].word = "--"
  /\ Goto("cmdpos")
  /\ UNCHANGED <<argv, i, conf, cmd, limit>>

AtOption(words) == at = "opts" /\ i <= Len(argv) /\ argv[i].word \in words

Flag ==
  /\ AtOption(Flags)
  /\ conf' = CASE argv[i].word = "--rm"              -> [conf EXCEPT !.rm = TRUE]
               [] argv[i].word = "--overlay-workdir" -> [conf EXCEPT !.workdir = TRUE]
               [] argv[i].word = "--no-drop-privs"   -> [conf EXCEPT !.drop = FALSE]
               [] argv[i].word = "--keep-cgroup"     -> [conf EXCEPT !.keep = TRUE]
  /\ Took(1)

\* the value an option is given, and whether opts takes it
Given == argv[i + 1]

\* mutant: zero passes
AcceptableZero(option, arg) ==
  CASE option = "--net"     -> arg.word \in {"host", "off"}
    [] option = "--seccomp" -> arg.word \in {"off", "basic", "strict"}
    [] option = "--pids"    -> Atoi(arg) >= 0
    [] option = "--cpu"     -> Atoi(arg) \in 1 .. 100
    [] OTHER                -> TRUE

Acceptable(option, arg) ==
  CASE option = "--net"     -> arg.word \in {"host", "off"}
    [] option = "--seccomp" -> arg.word \in {"off", "basic", "strict"}
    [] option = "--pids"    -> Atoi(arg) > 0
    [] option = "--cpu"     -> Atoi(arg) \in 1 .. 100
    [] OTHER                -> TRUE

Changed(option, arg) ==
  CASE option = "--name"    -> [conf EXCEPT !.name = arg]
    [] option = "--net"     -> [conf EXCEPT !.net = arg.word = "host"]
    [] option = "--seccomp" -> [conf EXCEPT !.mode = arg.word]
    [] option = "--mem"     -> [conf EXCEPT !.mem = arg]
    [] option = "--pids"    -> [conf EXCEPT !.pids = Atoi(arg)]
    [] option = "--cpu"     -> [conf EXCEPT !.cpu = Atoi(arg)]

\* mutant: the loop does not step over the argument
TakesNoSkip ==
  /\ AtOption(Valued) /\ i < Len(argv) /\ Acceptable(argv[i].word, Given)
  /\ conf' = Changed(argv[i].word, Given)
  /\ Took(1)

Takes ==
  /\ AtOption(Valued) /\ i < Len(argv) /\ Acceptable(argv[i].word, Given)
  /\ conf' = Changed(argv[i].word, Given)
  /\ Took(2)

\* an unknown option, one without its argument, or with a wrong one
Rejects ==
  /\ at = "opts" /\ i <= Len(argv) /\ argv[i].word \notin {"--"} \cup Flags
  /\ argv[i].word \in Valued =>
       ~(i < Len(argv) /\ Acceptable(argv[i].word, Given))
  /\ Usage

Separators == {k \in 2 .. Len(argv) : argv[k].word = "--"}

\* mutant: the last "--" counts
CmdposLast ==
  LET here == {k \in Separators : \A j \in Separators : j <= k} IN
  /\ at = "cmdpos"
  /\ \E k \in here : k < Len(argv) /\ cmd' = k + 1
  /\ Goto("mem")
  /\ UNCHANGED <<argv, i, conf, limit>>

\* cmdpos starts anew, at the first "--" of all arguments
Cmdpos ==
  LET here == {k \in Separators : \A j \in Separators : k <= j} IN
  /\ at = "cmdpos"
  /\ \E k \in here : k < Len(argv) /\ cmd' = k + 1
  /\ Goto("mem")
  /\ UNCHANGED <<argv, i, conf, limit>>

NoCommand ==
  /\ at = "cmdpos"
  /\ \A k \in Separators : k < Len(argv) => \E j \in Separators : j < k
  /\ Usage

-----------------------------------------------------------------------------
(* limmem, limpids, limcpu, as lsandbox_cgroup_apply calls them *)

Wrote(file, n) == limit' = [limit EXCEPT ![file] = n]

\* an empty text means no limit; one that sizeto refuses ends apply, without limits
LimMem ==
  /\ at = "mem"
  /\ \/ Empty(conf.mem) /\ Goto("pids") /\ UNCHANGED limit
     \/ ~Empty(conf.mem) /\ SizeOk(conf.mem)
          /\ Goto("pids") /\ Wrote("mem", SizeTo(conf.mem))
     \/ ~Empty(conf.mem) /\ ~SizeOk(conf.mem) /\ Goto("unlimited") /\ UNCHANGED limit
  /\ UNCHANGED <<argv, i, conf, cmd>>

\* the kernel refuses a larger number, and cgw does not notice
LimPids ==
  /\ at = "pids"
  /\ Goto("cpu")
  /\ IF conf.pids <= PidsMax THEN Wrote("pids", conf.pids) ELSE UNCHANGED limit
  /\ UNCHANGED <<argv, i, conf, cmd>>

LimCpu ==
  /\ at = "cpu"
  /\ Goto("applied")
  /\ Wrote("cpu", IF conf.cpu >= 100 THEN Unlimited ELSE Quota(conf.cpu))
  /\ UNCHANGED <<argv, i, conf, cmd>>

Init ==
  /\ argv \in Lines
  /\ at = "main"
  /\ i = 2
  /\ conf = Defaults
  /\ cmd = 0
  /\ limit = [file \in {"mem", "pids", "cpu"} |-> Unset]

Over == at \in Ended /\ UNCHANGED vars

Next == \/ Main \/ OptsEnds \/ Flag \/ Takes \/ Rejects \/ Cmdpos \/ NoCommand
        \/ LimMem \/ LimPids \/ LimCpu \/ Over

Spec == Init /\ [][Next]_vars
-----------------------------------------------------------------------------
(* What a command line means, said without a loop *)

\* word k is the argument of an option: right before it stand an odd number of
\* words that want one, each of them but the first, third, ... an argument itself
Argument(k) ==
  LET before == {j \in 2 .. k - 1 : \A m \in j .. k - 1 : argv[m].word \in Valued}
  IN Cardinality(before) % 2 = 1

\* position k is where an option or the "--" stands, not where an argument does
Heads == {k \in 2 .. Len(argv) :
            /\ ~Argument(k)
            /\ \A j \in 2 .. k - 1 : ~Argument(j) => argv[j].word \in Flags \cup Valued}

\* the value of an option is its last argument, or what the help text says
Uses(heads, option) == {k \in heads : argv[k].word = option}
Value(heads, option, default) ==
  IF Uses(heads, option) = {} THEN default ELSE argv[Max(Uses(heads, option)) + 1]

HelpDefaults == [mem |-> Number(1, "G", FALSE), pids |-> Number(128, "", FALSE),
                 cpu |-> Number(100, "", FALSE)]

\* the settings that the options at some positions ask for
Meant(heads) ==
  [name    |-> Value(heads, "--name", Plain("default")),
   rm      |-> Uses(heads, "--rm") # {},
   net     |-> Value(heads, "--net", Plain("host")).word = "host",
   mode    |-> Value(heads, "--seccomp", Plain("basic")).word,
   workdir |-> Uses(heads, "--overlay-workdir") # {},
   drop    |-> Uses(heads, "--no-drop-privs") = {},
   keep    |-> Uses(heads, "--keep-cgroup") # {},
   mem     |-> Value(heads, "--mem", HelpDefaults.mem),
   pids    |-> Atoi(Value(heads, "--pids", HelpDefaults.pids)),
   cpu     |-> Atoi(Value(heads, "--cpu", HelpDefaults.cpu))]

-----------------------------------------------------------------------------
(* Properties *)

Runs == at \in {"mem", "pids", "cpu", "applied", "unlimited"}

(***************************************************************************)
(* A run has the settings its options give, the last of each counting, and *)
(* the defaults of the help text for the others; an option's argument is   *)
(* never taken for an option, nor a word of the command.                   *)
(***************************************************************************)
OptionsAsGiven == Runs => conf = Meant(Heads)

(***************************************************************************)
(* opts and cmdpos look for the "--" separately, and find the same one     *)
(* unless an option was given "--" as its argument: then what runs is      *)
(* exactly what the user put after it.                                     *)
(***************************************************************************)
CommandAfterOptions ==
  Runs /\ (\A k \in Heads : argv[k].word \in Valued => argv[k + 1].word # "--")
    => cmd = i + 1 /\ argv[i].word = "--"

\* the number the user means
Asked(t) ==
  LET kilo == Unit
      mega == Unit * kilo
      giga == Unit * mega
      times == CASE t.tail = "K" -> kilo [] t.tail = "M" -> mega [] t.tail = "G" -> giga
                 [] OTHER -> 1
  IN (IF t.neg THEN -t.num ELSE t.num) * times

(***************************************************************************)
(* A memory limit that fits the type is written to the byte, and a text    *)
(* with no number, or another suffix, never becomes a limit.               *)
(***************************************************************************)
MemExact ==
  LET text == Value(Heads, "--mem", HelpDefaults.mem) IN
  at = "applied" /\ ~Empty(text) =>
    /\ text.has /\ text.tail # "other"
    /\ Asked(text) \in 0 .. Span(LongMax) - 1 => limit["mem"] = Asked(text)

(***************************************************************************)
(* A number of processes is at least one whatever atoi made of the text,   *)
(* and an ordinary one (it fits an int) is the one that was asked for.     *)
(***************************************************************************)
PidsExact ==
  LET text == Value(Heads, "--pids", HelpDefaults.pids) IN
  at = "applied" =>
    /\ limit["pids"] = Unset \/ limit["pids"] >= 1
    /\ ~text.neg /\ text.num <= IntMax =>
         limit["pids"] = IF text.num <= PidsMax THEN text.num ELSE Unset

\* a CPU share in percent is written without rounding, and is never below the
\* kernel's least quota, 1000 microseconds
CpuExact ==
  at = "applied" /\ limit["cpu"] # Unlimited =>
    /\ limit["cpu"] * 100 = conf.cpu * Period
    /\ limit["cpu"] >= 1000 /\ limit["cpu"] < Period
=============================================================================
