---------------------------- MODULE OptionsProofs ----------------------------
(***************************************************************************)
(* Proofs about Options, for every set of command lines of any length, and *)
(* every size of int and long.  The loop of opts is followed with the      *)
(* options it has taken so far (Taken): the settings are always the ones   *)
(* those options mean, and at the "--", or the end, they are all there     *)
(* are.  What the limit functions write then follows from the settings.    *)
(***************************************************************************)
EXTENDS Options, FiniteSetTheorems, TLAPS

Line == argv \in Seq(Word) /\ Len(argv) \in Nat \ {0}

Places ==
  /\ at \in {"main", "opts", "cmdpos", "mem", "pids", "cpu"} \cup Ended
  /\ i \in 2 .. Len(argv) + 2
  /\ at = "main" => i = 2
  /\ cmd \in 0 .. Len(argv)

\* the two settings opts checks are in their ranges, before and after
Checked ==
  /\ conf = [s \in DOMAIN conf |-> conf[s]]
  /\ {"pids", "cpu"} \subseteq DOMAIN conf
  /\ conf.pids > 0
  /\ conf.cpu \in 1 .. 100

\* limcpu is the last to write, and writes the quota of the setting
Shares ==
  /\ limit = [file \in {"mem", "pids", "cpu"} |-> limit[file]]
  /\ at = "applied" =>
       limit["cpu"] = IF conf.cpu >= 100 THEN Unlimited ELSE Quota(conf.cpu)

\* the options taken so far
Taken == {j \in 2 .. i - 1 : ~Argument(j)}

\* the two limits that are read as numbers later are words of the line, or defaults
TextNumbers ==
  /\ Value(Taken, "--mem", HelpDefaults.mem).num \in Nat
  /\ Value(Taken, "--pids", HelpDefaults.pids).num \in Nat

\* opts stands at a word that is no argument, and the settings are the ones that
\* the options before it mean
Looped ==
  at \notin {"usage", "manage"} =>
    /\ i <= Len(argv) + 1
    /\ ~Argument(i)
    /\ \A j \in Taken : argv[j].word \in Flags \cup Valued
    /\ conf = Meant(Taken)
    /\ TextNumbers

\* opts stops at a "--" or after the last word, and i stays there
Stopped == (at = "cmdpos" \/ Runs) /\ i <= Len(argv) => argv[i].word = "--"

\* the command is what follows the first "--"
Commanded ==
  Runs => \E k \in Separators : cmd = k + 1 /\ \A j \in Separators : k <= j

\* what limmem and limpids have written is what the settings say
Limited ==
  /\ at \in {"pids", "cpu", "applied"} =>
       Empty(conf.mem) \/ (SizeOk(conf.mem) /\ limit["mem"] = SizeTo(conf.mem))
  /\ limit["pids"] = IF at \in {"cpu", "applied"} /\ conf.pids <= PidsMax
                     THEN conf.pids ELSE Unset

Meaning == Looped /\ Stopped /\ Commanded /\ Limited

IInv == Line /\ Places /\ Checked /\ Shares /\ Meaning

-----------------------------------------------------------------------------
(* Arithmetic *)

LEMMA ModSmall == ASSUME NEW n \in Nat, NEW m \in Nat, n < m PROVE n % m = n
OBVIOUS
LEMMA ModSelf == ASSUME NEW m \in Nat, 0 < m PROVE m % m = 0
OBVIOUS
LEMMA ModRange == ASSUME NEW n \in Int, NEW m \in Nat, 0 < m PROVE n % m \in 0 .. m - 1
OBVIOUS

LEMMA SpanFacts == ASSUME NEW max \in Nat PROVE Span(max) \in Nat /\ Span(max) > max
BY DEF Span

\* atoi reads a number that fits an int as it is
LEMMA AtoiSmall ==
  ASSUME NEW t, t.num \in Nat, t.has, ~t.neg, t.num <= IntMax
  PROVE  Atoi(t) = t.num
<1>1. t.num % Span(IntMax) = t.num
  BY ModSmall, SpanFacts, LimitsAssumption
<1> QED BY <1>1, LimitsAssumption DEF Atoi, ToInt

LEMMA AtoiInt == ASSUME NEW t, t.num \in Nat PROVE Atoi(t) \in Int
<1>1. ASSUME NEW n \in Int PROVE ToInt(n) \in Int
  BY ModRange, SpanFacts, LimitsAssumption DEF ToInt
<1> QED BY <1>1, LimitsAssumption DEF Atoi

-----------------------------------------------------------------------------
(* The words of a line *)

LEMMA NoneYet == ~Argument(2)
<1>1. {j \in 2 .. 2 - 1 : \A m \in j .. 2 - 1 : argv[m].word \in Valued} = {}
  OBVIOUS
<1> QED BY <1>1, FS_EmptySet DEF Argument

\* a word is an argument exactly if the one before it is an option that wants one
LEMMA ArgumentNext ==
  ASSUME NEW k \in Nat, k >= 2
  PROVE  Argument(k + 1) <=> argv[k].word \in Valued /\ ~Argument(k)
<1> DEFINE Wants(n) == {j \in 2 .. n - 1 : \A m \in j .. n - 1 : argv[m].word \in Valued}
<1> HIDE DEF Wants
<1>1. \A n : Argument(n) <=> Cardinality(Wants(n)) % 2 = 1
  BY DEF Argument, Wants
<1>2. CASE argv[k].word \notin Valued
  <2>1. Wants(k + 1) = {}
    BY <1>2 DEF Wants
  <2> QED BY <1>1, <1>2, <2>1, FS_EmptySet
<1>3. CASE argv[k].word \in Valued
  <2>1. Wants(k + 1) = Wants(k) \cup {k} /\ k \notin Wants(k)
    BY <1>3 DEF Wants
  <2>2. IsFiniteSet(Wants(k))
    <3>1. Wants(k) \subseteq 2 .. k - 1
      BY DEF Wants
    <3>2. IsFiniteSet(2 .. k - 1)
      BY FS_Interval
    <3> QED BY <3>1, <3>2, FS_Subset
  <2>3. Cardinality(Wants(k + 1)) = Cardinality(Wants(k)) + 1 /\ Cardinality(Wants(k)) \in Nat
    BY <2>1, <2>2, FS_AddElement, FS_CardinalityType
  <2> QED BY <1>1, <1>3, <2>3
<1> QED BY <1>2, <1>3

\* nothing but the positions of an option matters to it
LEMMA UsesNext ==
  ASSUME NEW n, NEW heads, NEW option
  PROVE  /\ argv[n].word = option =>
               Uses(heads \cup {n}, option) = Uses(heads, option) \cup {n}
         /\ argv[n].word # option => Uses(heads \cup {n}, option) = Uses(heads, option)
BY DEF Uses

LEMMA MaxNext ==
  ASSUME NEW n \in Nat, NEW S \in SUBSET (2 .. n - 1) PROVE Max(S \cup {n}) = n
<1>1. \A j \in S : j \in Nat /\ j < n
  OBVIOUS
<1>2. \A x \in S \cup {n} : (\A y \in S \cup {n} : x >= y) <=> x = n
  BY <1>1
<1> QED BY <1>2 DEF Max

LEMMA ValueNext ==
  ASSUME NEW n \in Nat, NEW heads \in SUBSET (2 .. n - 1), NEW option, NEW default
  PROVE  /\ argv[n].word = option => Value(heads \cup {n}, option, default) = argv[n + 1]
         /\ argv[n].word # option =>
              Value(heads \cup {n}, option, default) = Value(heads, option, default)
<1>1. CASE argv[n].word = option
  <2>1. Uses(heads, option) \in SUBSET (2 .. n - 1)
    BY DEF Uses
  <2>2. Max(Uses(heads, option) \cup {n}) = n
    BY <2>1, MaxNext
  <2>3. Uses(heads \cup {n}, option) = Uses(heads, option) \cup {n}
    BY <1>1, UsesNext
  <2> QED BY <1>1, <2>2, <2>3 DEF Value
<1>2. CASE argv[n].word # option
  <2>1. Uses(heads \cup {n}, option) = Uses(heads, option)
    BY <1>2, UsesNext
  <2> QED BY <1>2, <2>1 DEF Value
<1> QED BY <1>1, <1>2

\* what a line means depends on nothing but the line
LEMMA SameValue ==
  ASSUME argv' = argv, NEW heads, Taken' = heads
  PROVE  /\ \A option : Uses(Taken, option)' = Uses(heads, option)
         /\ \A option, default : Value(Taken, option, default)' = Value(heads, option, default)
<1>1. \A option : Uses(Taken, option)' = Uses(heads, option)
  BY DEF Uses
<1>2. \A option, default : Value(Taken, option, default)' = Value(heads, option, default)
  BY <1>1 DEF Value
<1> QED BY <1>1, <1>2

LEMMA SameMeant ==
  ASSUME argv' = argv, NEW heads, Taken' = heads
  PROVE  Meant(Taken)' = Meant(heads)
BY SameValue DEF Meant

LEMMA SameArgument == ASSUME argv' = argv PROVE \A k : Argument(k)' <=> Argument(k)
BY DEF Argument

-----------------------------------------------------------------------------
(* The loop of opts *)

\* sandbox_config_init sets what the help text says
LEMMA NothingMeant == Meant({}) = Defaults
<1>1. /\ \A option : Uses({}, option) = {}
      /\ \A option, default : Value({}, option, default) = default
  BY DEF Uses, Value
<1>2. ASSUME NEW t, NEW n \in 1 .. 128, t.num = n, t.has, ~t.neg PROVE Atoi(t) = n
  BY <1>2, AtoiSmall, LimitsAssumption
<1>3. /\ HelpDefaults.pids.num = 128 /\ HelpDefaults.cpu.num = 100
      /\ HelpDefaults.pids.has /\ ~HelpDefaults.pids.neg
      /\ HelpDefaults.cpu.has /\ ~HelpDefaults.cpu.neg
      /\ HelpDefaults.mem = Number(1, "G", FALSE)
  BY DEF HelpDefaults, Number
<1>4. Atoi(HelpDefaults.pids) = 128 /\ Atoi(HelpDefaults.cpu) = 100
  BY <1>2, <1>3
<1>5. Plain("host").word = "host" /\ Plain("basic").word = "basic"
  BY DEF Plain
<1>6. ASSUME NEW none, \A option : Uses(none, option) = {},
             \A option, default : Value(none, option, default) = default
      PROVE  Meant(none) = Defaults
  <2>1. /\ Value(none, "--name", Plain("default")) = Plain("default")
        /\ Value(none, "--net", Plain("host")).word = "host"
        /\ Value(none, "--seccomp", Plain("basic")).word = "basic"
    BY <1>5, <1>6
  <2>2. /\ Atoi(Value(none, "--pids", HelpDefaults.pids)) = 128
        /\ Atoi(Value(none, "--cpu", HelpDefaults.cpu)) = 100
    BY <1>4, <1>6
  <2>3. Value(none, "--mem", HelpDefaults.mem) = HelpDefaults.mem
    BY <1>6
  <2>4. Value(none, "--mem", HelpDefaults.mem) = Number(1, "G", FALSE)
    BY <1>3, <2>3, Zenon
  <2> QED BY <1>6, <2>1, <2>2, <2>4 DEF Meant, Defaults
<1> QED BY <1>1, <1>6

LEMMA InitLooped == Init => Looped
<1> SUFFICES ASSUME Init PROVE Looped OBVIOUS
<1>1. Taken = {}
  BY DEF Init, Taken
<1>2. Len(argv) \in Nat \ {0}
  BY OptionsAssumption DEF Init
<1>3. TextNumbers
  <2>1. \A option : Uses(Taken, option) = {}
    BY <1>1 DEF Uses
  <2> QED BY <2>1 DEF TextNumbers, Value, HelpDefaults, Number
<1> QED BY <1>1, <1>2, <1>3, NoneYet, NothingMeant DEF Init, Looped

\* an option that is taken is one more of them, and the next word is no argument
LEMMA TakenNext ==
  ASSUME argv' = argv, i \in Nat, i >= 2, ~Argument(i),
         i' = IF argv[i].word \in Valued THEN i + 2 ELSE i + 1
  PROVE  Taken' = Taken \cup {i} /\ ~Argument(i')
<1>1. \A k : Argument(k)' <=> Argument(k)
  BY SameArgument
<1>2. Argument(i + 1) <=> argv[i].word \in Valued
  BY ArgumentNext
<1>3. argv[i].word \in Valued => ~Argument(i + 2)
  <2>1. Argument((i + 1) + 1) <=> argv[i + 1].word \in Valued /\ ~Argument(i + 1)
    BY ArgumentNext
  <2>2. (i + 1) + 1 = i + 2
    OBVIOUS
  <2> QED BY <1>2, <2>1, <2>2
<1>4. Taken' = {j \in 2 .. i' - 1 : ~Argument(j)}
  BY <1>1 DEF Taken
<1>5. CASE argv[i].word \in Valued
  BY <1>2, <1>3, <1>4, <1>5 DEF Taken
<1>6. CASE argv[i].word \notin Valued
  BY <1>2, <1>4, <1>6 DEF Taken
<1> QED BY <1>5, <1>6

LEMMA FlagMeans ==
  ASSUME conf = Meant(Taken), i \in Nat, Flag
  PROVE  conf' = Meant(Taken \cup {i})
<1> DEFINE w == argv[i].word
<1>1. w \in Flags
  BY DEF Flag, AtOption
<1>2. Taken \in SUBSET (2 .. i - 1)
  BY DEF Taken
<1>3. \A option \in Valued : \A default :
        Value(Taken \cup {i}, option, default) = Value(Taken, option, default)
  <2>1. w \notin Valued
    BY <1>1 DEF Flags, Valued
  <2> QED BY <1>2, <2>1, ValueNext
<1>4. ASSUME NEW option
      PROVE  /\ w # option => Uses(Taken \cup {i}, option) = Uses(Taken, option)
             /\ w = option => Uses(Taken \cup {i}, option) # {}
  <2>1. w # option => Uses(Taken \cup {i}, option) = Uses(Taken, option)
    BY DEF Uses
  <2>2. w = option => i \in Uses(Taken \cup {i}, option)
    BY DEF Uses
  <2> QED BY <2>1, <2>2
<1>5. CASE w = "--rm"
  BY <1>3, <1>4, <1>5 DEF Flag, Meant, Valued
<1>6. CASE w = "--overlay-workdir"
  BY <1>3, <1>4, <1>6 DEF Flag, Meant, Valued
<1>7. CASE w = "--no-drop-privs"
  BY <1>3, <1>4, <1>7 DEF Flag, Meant, Valued
<1>8. CASE w = "--keep-cgroup"
  BY <1>3, <1>4, <1>8 DEF Flag, Meant, Valued
<1> QED BY <1>1, <1>5, <1>6, <1>7, <1>8 DEF Flags

\* one more option with an argument changes its setting, and no other
LEMMA ChangedMeans ==
  ASSUME NEW old, NEW new, NEW w \in Valued, NEW arg,
         \A option \in Flags : Uses(new, option) = Uses(old, option),
         \A option, default :
           /\ w = option => Value(new, option, default) = arg
           /\ w # option => Value(new, option, default) = Value(old, option, default),
         conf = Meant(old), conf' = Changed(w, arg)
  PROVE  conf' = Meant(new)
<1>1. CASE w = "--name"
  BY <1>1 DEF Changed, Meant, Flags
<1>2. CASE w = "--net"
  BY <1>2 DEF Changed, Meant, Flags
<1>3. CASE w = "--seccomp"
  BY <1>3 DEF Changed, Meant, Flags
<1>4. CASE w = "--mem"
  BY <1>4 DEF Changed, Meant, Flags
<1>5. CASE w = "--pids"
  BY <1>5 DEF Changed, Meant, Flags
<1>6. CASE w = "--cpu"
  BY <1>6 DEF Changed, Meant, Flags
<1> QED BY <1>1, <1>2, <1>3, <1>4, <1>5, <1>6 DEF Valued

LEMMA TakesMeans ==
  ASSUME conf = Meant(Taken), i \in Nat, Takes
  PROVE  conf' = Meant(Taken \cup {i})
<1> DEFINE w == argv[i].word
           next == Taken \cup {i}
           arg == argv[i + 1]
<1>1. w \in Valued /\ conf' = Changed(w, arg)
  BY DEF Takes, AtOption, Given
<1>2. Taken \in SUBSET (2 .. i - 1)
  BY DEF Taken
<1>3. \A option, default :
        /\ w = option => Value(next, option, default) = arg
        /\ w # option =>
             Value(next, option, default) = Value(Taken, option, default)
  BY <1>2, ValueNext
<1>4. ASSUME NEW option \in Flags
      PROVE  Uses(next, option) = Uses(Taken, option)
  <2>1. w # option
    BY <1>1 DEF Flags, Valued
  <2> QED BY <2>1 DEF Uses
<1> QED BY <1>1, <1>3, <1>4, ChangedMeans

\* opts takes one more option, with its argument if it wants one
LEMMA OptionStep ==
  ASSUME Line, Looped, at = "opts", i \in Nat, i >= 2, argv' = argv, at' = "opts",
         i <= Len(argv), argv[i].word \in Flags \cup Valued,
         conf' = Meant(Taken \cup {i}),
         argv[i].word \in Valued => i < Len(argv),
         i' = IF argv[i].word \in Valued THEN i + 2 ELSE i + 1
  PROVE  Looped'
<1>1. ~Argument(i) /\ \A j \in Taken : argv[j].word \in Flags \cup Valued
  BY DEF Looped
<1>2. Taken' = Taken \cup {i} /\ ~Argument(i')
  BY <1>1, TakenNext
<1>3. ~Argument(i)'
  BY <1>2, SameArgument DEF Argument
<1>4. Meant(Taken)' = Meant(Taken \cup {i})
  BY <1>2, SameMeant
<1>5. i' <= Len(argv) + 1
  BY DEF Line
<1>6. TextNumbers'
  <2>1. Taken \in SUBSET (2 .. i - 1)
    BY DEF Taken
  <2>2. \A option, default :
          /\ argv[i].word = option => Value(Taken \cup {i}, option, default) = argv[i + 1]
          /\ argv[i].word # option =>
               Value(Taken \cup {i}, option, default) = Value(Taken, option, default)
    BY <2>1, ValueNext
  <2>3. ASSUME NEW option \in Valued, NEW default, Value(Taken, option, default).num \in Nat
        PROVE  Value(Taken \cup {i}, option, default).num \in Nat
    <3>1. CASE argv[i].word = option
      <4>1. Value(Taken \cup {i}, option, default) = argv[i + 1]
        BY <2>2, <3>1
      <4>2. i + 1 \in 1 .. Len(argv)
        BY <3>1 DEF Line
      <4>3. argv[i + 1] \in Word
        BY <4>2 DEF Line
      <4> QED BY <4>1, <4>3 DEF Word
    <3>2. CASE argv[i].word # option
      BY <2>2, <2>3, <3>2
    <3> QED BY <3>1, <3>2
  <2>4. TextNumbers
    BY DEF Looped
  <2>5. \A option, default : Value(Taken, option, default)' = Value(Taken \cup {i}, option, default)
    BY <1>2, SameValue
  <2> QED BY <2>3, <2>4, <2>5 DEF TextNumbers, Valued
<1> QED BY <1>1, <1>2, <1>3, <1>4, <1>5, <1>6 DEF Looped

LEMMA LoopedStep == IInv /\ [Next]_vars => Looped'
<1> SUFFICES ASSUME IInv, [Next]_vars PROVE Looped' OBVIOUS
<1> USE DEF Goto
<1>1. Line /\ Looped /\ i \in Nat /\ i >= 2
  BY DEF IInv, Meaning, Places, Line
<1>2. CASE Flag
  <2>1. argv[i].word \in Flags /\ argv[i].word \notin Valued
    BY <1>2 DEF Flag, AtOption, Flags, Valued
  <2>2. conf' = Meant(Taken \cup {i})
    BY <1>1, <1>2, FlagMeans DEF Looped, Flag, AtOption
  <2> QED BY <1>1, <1>2, <2>1, <2>2, OptionStep DEF Flag, AtOption, Took
<1>3. CASE Takes
  <2>1. conf' = Meant(Taken \cup {i})
    BY <1>1, <1>3, TakesMeans DEF Looped, Takes, AtOption
  <2> QED BY <1>1, <1>3, <2>1, OptionStep DEF Takes, AtOption, Took
<1>4. ASSUME argv' = argv, i' = i, conf' = conf,
             at' \notin {"usage", "manage"} => at \notin {"usage", "manage"}
      PROVE  Looped'
  <2>1. \A k : Argument(k)' <=> Argument(k)
    BY <1>4, SameArgument
  <2>2. Taken' = Taken
    BY <1>4, <2>1 DEF Taken
  <2>3. Meant(Taken)' = Meant(Taken)
    BY <1>4, <2>2, SameMeant
  <2>4. Argument(i)' <=> Argument(i)
    BY <1>4 DEF Argument
  <2>5. \A option, default : Value(Taken, option, default)' = Value(Taken, option, default)
    BY <1>4, <2>2, SameValue
  <2>6. TextNumbers => TextNumbers'
    BY <2>5 DEF TextNumbers
  <2> QED BY <1>1, <1>4, <2>2, <2>3, <2>4, <2>6 DEF Looped
<1>5. CASE Main
  BY <1>4, <1>5 DEF Main
<1>6. CASE OptsEnds \/ Rejects \/ Cmdpos \/ NoCommand
  BY <1>4, <1>6 DEF OptsEnds, Rejects, Usage, Cmdpos, NoCommand
<1>7. CASE LimMem \/ LimPids \/ LimCpu
  BY <1>4, <1>7 DEF LimMem, LimPids, LimCpu
<1>8. CASE UNCHANGED vars
  BY <1>4, <1>8 DEF vars
<1> QED BY <1>2, <1>3, <1>5, <1>6, <1>7, <1>8 DEF Next, Over

\* the loop ends at a "--" or after the last word, and stays there
LEMMA StoppedStep == IInv /\ [Next]_vars => Stopped'
<1> SUFFICES ASSUME IInv, [Next]_vars PROVE Stopped' OBVIOUS
<1> USE DEF IInv, Meaning, Stopped, Runs, Goto
<1>1. CASE Main
  BY <1>1 DEF Main
<1>2. CASE OptsEnds
  BY <1>2 DEF OptsEnds
<1>3. CASE Flag \/ Takes
  BY <1>3 DEF Flag, Takes, Took
<1>4. CASE Rejects \/ NoCommand
  BY <1>4 DEF Rejects, NoCommand, Usage
<1>5. CASE Cmdpos
  BY <1>5 DEF Cmdpos
<1>6. CASE LimMem \/ LimPids \/ LimCpu
  BY <1>6 DEF LimMem, LimPids, LimCpu
<1>7. CASE UNCHANGED vars
  BY <1>7 DEF vars
<1> QED BY <1>1, <1>2, <1>3, <1>4, <1>5, <1>6, <1>7 DEF Next, Over

LEMMA CommandedStep == IInv /\ [Next]_vars => Commanded'
<1> SUFFICES ASSUME IInv, [Next]_vars PROVE Commanded' OBVIOUS
<1> USE DEF Goto
<1>1. CASE Cmdpos
  BY <1>1 DEF Cmdpos, Commanded, Separators
<1>2. ASSUME argv' = argv, cmd' = cmd, Runs' => Runs PROVE Commanded'
  BY <1>2 DEF IInv, Meaning, Commanded, Separators
<1>3. CASE Main \/ OptsEnds \/ Rejects \/ NoCommand
  BY <1>3 DEF Commanded, Runs, Main, OptsEnds, Rejects, NoCommand, Usage
<1>4. CASE Flag \/ Takes
  BY <1>4 DEF Commanded, Runs, Flag, Takes, Took
<1>5. CASE LimMem \/ LimPids \/ LimCpu
  BY <1>2, <1>5 DEF Runs, LimMem, LimPids, LimCpu
<1>6. CASE UNCHANGED vars
  BY <1>2, <1>6 DEF Runs, vars
<1> QED BY <1>1, <1>3, <1>4, <1>5, <1>6 DEF Next, Over

LEMMA LimitedStep == IInv /\ [Next]_vars => Limited'
<1> SUFFICES ASSUME IInv, [Next]_vars PROVE Limited' OBVIOUS
<1> USE DEF IInv, Meaning, Shares, Limited, Goto
<1>1. CASE LimMem
  BY <1>1 DEF LimMem, Wrote
<1>2. CASE LimPids
  BY <1>2 DEF LimPids, Wrote
<1>3. CASE LimCpu
  BY <1>3 DEF LimCpu, Wrote
<1>4. CASE Flag \/ Takes
  BY <1>4 DEF Flag, Takes, AtOption, Took
<1>5. CASE Main \/ OptsEnds \/ Rejects \/ Cmdpos \/ NoCommand
  BY <1>5 DEF Main, OptsEnds, Rejects, Cmdpos, NoCommand, Usage
<1>6. CASE UNCHANGED vars
  BY <1>6 DEF vars
<1> QED BY <1>1, <1>2, <1>3, <1>4, <1>5, <1>6 DEF Next, Over

-----------------------------------------------------------------------------
(* The invariant *)

LEMMA InitIInv == Init => IInv
<1> SUFFICES ASSUME Init PROVE IInv OBVIOUS
<1>1. Line
  BY OptionsAssumption DEF Init, Line
<1>2. Checked
  BY DEF Init, Checked, Defaults
<1>3. Places /\ Shares
  BY <1>1 DEF Init, Places, Shares, Line, Ended
<1>4. Stopped /\ Commanded /\ Limited
  BY DEF Init, Stopped, Commanded, Limited, Runs
<1> QED BY <1>1, <1>2, <1>3, <1>4, InitLooped DEF IInv, Meaning

LEMMA LineStep == IInv /\ [Next]_vars => Line' /\ Places'
<1> SUFFICES ASSUME IInv, [Next]_vars PROVE Line' /\ Places' OBVIOUS
<1> USE DEF IInv, Line, Places, Ended, Goto
<1>1. CASE Main
  BY <1>1 DEF Main
<1>2. CASE OptsEnds
  BY <1>2 DEF OptsEnds
<1>3. CASE Flag
  BY <1>3 DEF Flag, AtOption, Took
<1>4. CASE Takes
  BY <1>4 DEF Takes, AtOption, Took
<1>5. CASE Rejects
  BY <1>5 DEF Rejects, Usage
<1>6. CASE Cmdpos
  <2>1. PICK k \in Separators : k < Len(argv) /\ cmd' = k + 1
    BY <1>6 DEF Cmdpos
  <2>2. k \in Nat
    BY DEF Separators
  <2> QED BY <1>6, <2>1, <2>2 DEF Cmdpos
<1>7. CASE NoCommand
  BY <1>7 DEF NoCommand, Usage
<1>8. CASE LimMem \/ LimPids \/ LimCpu
  BY <1>8 DEF LimMem, LimPids, LimCpu
<1>9. CASE UNCHANGED vars
  BY <1>9 DEF vars
<1> QED BY <1>1, <1>2, <1>3, <1>4, <1>5, <1>6, <1>7, <1>8, <1>9 DEF Next, Over

LEMMA CheckedStep == IInv /\ [Next]_vars => Checked'
<1> SUFFICES ASSUME IInv, [Next]_vars PROVE Checked' OBVIOUS
<1>1. CASE conf' = conf
  BY <1>1 DEF IInv, Checked
<1>2. CASE Flag
  <2>1. \E s \in {"rm", "workdir", "drop", "keep"}, v \in BOOLEAN :
          conf' = [conf EXCEPT ![s] = v]
    BY <1>2 DEF Flag, AtOption, Flags
  <2> QED BY <2>1 DEF IInv, Checked
\* only --pids and --cpu touch the two, and opts has looked at their argument
<1>3. CASE Takes
  <2>1. PICK s \in {"name", "net", "mode", "mem", "pids", "cpu"} :
          \E v : /\ conf' = [conf EXCEPT ![s] = v]
                 /\ s = "pids" => v > 0
                 /\ s = "cpu" => v \in 1 .. 100
    BY <1>3 DEF Takes, AtOption, Valued, Acceptable, Changed
  <2> QED BY <2>1 DEF IInv, Checked
<1> QED
  BY <1>1, <1>2, <1>3 DEF Next, Main, OptsEnds, Rejects, Usage, Cmdpos, NoCommand,
    LimMem, LimPids, LimCpu, Over, vars

LEMMA SharesStep == IInv /\ [Next]_vars => Shares'
<1> SUFFICES ASSUME IInv, [Next]_vars PROVE Shares' OBVIOUS
<1> USE DEF IInv, Shares, Goto
<1>1. CASE LimCpu
  BY <1>1 DEF LimCpu, Wrote
<1>2. CASE LimMem \/ LimPids
  <2>1. at' # "applied" /\ \/ limit' = limit
                           \/ \E f, n : limit' = [limit EXCEPT ![f] = n]
    BY <1>2 DEF LimMem, LimPids, Wrote
  <2> QED BY <2>1
<1>3. CASE UNCHANGED vars
  BY <1>3 DEF vars
<1>4. ASSUME limit' = limit, at' # "applied" PROVE Shares'
  BY <1>4
<1>5. CASE Main \/ OptsEnds \/ Flag \/ Takes \/ Rejects \/ Cmdpos \/ NoCommand
  BY <1>4, <1>5 DEF Main, OptsEnds, Flag, Takes, Took, Rejects, Usage, Cmdpos, NoCommand
<1> QED BY <1>1, <1>2, <1>3, <1>5 DEF Next, Over

LEMMA Invariance == Spec => []IInv
<1>1. IInv /\ [Next]_vars => IInv'
  BY LineStep, CheckedStep, SharesStep, LoopedStep, StoppedStep, CommandedStep,
    LimitedStep DEF IInv, Meaning
<1> QED BY <1>1, InitIInv, PTL DEF Spec

-----------------------------------------------------------------------------
(* What the invariant says of a run *)

\* when a run starts, the options taken are all the options there are
LEMMA AllTaken ==
  ASSUME IInv, Runs PROVE \A option \in Flags \cup Valued : Uses(Heads, option) = Uses(Taken, option)
<1>1. /\ i \in Nat /\ Len(argv) \in Nat /\ 2 <= i /\ i <= Len(argv) + 1
      /\ ~Argument(i)
      /\ i <= Len(argv) => argv[i].word = "--"
      /\ \A j \in Taken : argv[j].word \in Flags \cup Valued
  BY DEF IInv, Meaning, Line, Places, Looped, Stopped, Runs
<1>2. "--" \notin Flags \cup Valued
  BY DEF Flags, Valued
<1>3. \A k \in Taken : k \in Heads
  BY <1>1 DEF Taken, Heads
<1>4. \A k \in Heads : k \in Taken \/ argv[k].word = "--"
  <2> SUFFICES ASSUME NEW k \in Heads PROVE k \in Taken \/ argv[k].word = "--"
    OBVIOUS
  <2>1. k \in 2 .. Len(argv) /\ ~Argument(k)
    BY DEF Heads
  <2>2. CASE k < i
    BY <1>1, <2>1, <2>2 DEF Taken
  <2>3. CASE k = i
    BY <1>1, <2>1, <2>3
  <2>4. CASE i < k
    <3>1. argv[i].word \in Flags \cup Valued
      BY <1>1, <2>1, <2>4 DEF Heads
    <3> QED BY <1>1, <1>2, <2>1, <2>4, <3>1
  <2> QED BY <1>1, <2>1, <2>2, <2>3, <2>4
<1> QED BY <1>2, <1>3, <1>4 DEF Uses

\* what options mean depends only on where they are used
LEMMA SameUses ==
  ASSUME NEW old, NEW new, \A option \in Flags \cup Valued : Uses(new, option) = Uses(old, option)
  PROVE  /\ \A option \in Valued : \A default : Value(new, option, default) = Value(old, option, default)
         /\ Meant(new) = Meant(old)
<1>1. \A option \in Valued : \A default : Value(new, option, default) = Value(old, option, default)
  BY DEF Value
<1> QED BY <1>1 DEF Meant, Flags, Valued

LEMMA GivenHolds == IInv => OptionsAsGiven
<1> SUFFICES ASSUME IInv, Runs PROVE conf = Meant(Heads)
  BY DEF OptionsAsGiven
<1>1. conf = Meant(Taken)
  BY DEF IInv, Meaning, Looped, Runs
<1> QED BY <1>1, AllTaken, SameUses

LEMMA CommandHolds == IInv => CommandAfterOptions
<1> SUFFICES ASSUME IInv, Runs,
                    \A k \in Heads : argv[k].word \in Valued => argv[k + 1].word # "--"
             PROVE  cmd = i + 1 /\ argv[i].word = "--"
  BY DEF CommandAfterOptions
<1>1. /\ i \in Nat /\ Len(argv) \in Nat /\ 2 <= i /\ i <= Len(argv) + 1
      /\ i <= Len(argv) => argv[i].word = "--"
      /\ \A j \in Taken : argv[j].word \in Flags \cup Valued
  BY DEF IInv, Meaning, Line, Places, Looped, Stopped, Runs
<1>2. PICK k \in Separators : cmd = k + 1 /\ \A j \in Separators : k <= j
  BY DEF IInv, Meaning, Commanded
<1>3. k \in 2 .. Len(argv) /\ argv[k].word = "--"
  BY DEF Separators
<1>4. "--" \notin Flags \cup Valued
  BY DEF Flags, Valued
\* the first "--" is neither an option that was taken nor the argument of one
<1>5. ~(k < i)
  <2> SUFFICES ASSUME k < i PROVE FALSE OBVIOUS
  <2>1. CASE ~Argument(k)
    BY <1>1, <1>3, <1>4, <2>1 DEF Taken
  <2>2. CASE Argument(k)
    <3>1. k # 2
      BY <2>2, NoneYet
    <3>2. k - 1 \in Nat /\ k - 1 >= 2 /\ (k - 1) + 1 = k
      BY <1>3, <3>1
    <3>3. argv[k - 1].word \in Valued /\ ~Argument(k - 1)
      BY <2>2, <3>2, ArgumentNext
    <3>4. k - 1 \in Heads
      BY <1>1, <1>3, <3>2, <3>3 DEF Heads, Taken
    <3> QED BY <1>3, <3>2, <3>3, <3>4
  <2> QED BY <2>1, <2>2
<1>6. i <= Len(argv) /\ argv[i].word = "--"
  BY <1>1, <1>3, <1>5
<1>7. k <= i
  BY <1>1, <1>2, <1>6 DEF Separators
<1> QED BY <1>1, <1>2, <1>3, <1>5, <1>6, <1>7

\* sizeto does not wrap around when the size that is asked for fits
LEMMA SizeIsAsked ==
  ASSUME NEW t, t.num \in Nat, SizeOk(t), Asked(t) \in 0 .. Span(LongMax) - 1
  PROVE  SizeTo(t) = Asked(t)
<1> DEFINE f == Factor(t.tail)
           n == IF t.neg THEN -t.num ELSE t.num
           m == Span(LongMax)
<1>1. f \in Nat /\ f >= 1 /\ Asked(t) = n * f
  <2>1. Unit \in Nat /\ Unit >= 1
    BY LimitsAssumption
  <2>2. Unit * Unit \in Nat /\ Unit * Unit >= 1
    BY <2>1
  <2>3. /\ Unit * Unit * Unit \in Nat /\ Unit * Unit * Unit >= 1
        /\ Unit * (Unit * Unit) = Unit * Unit * Unit
    BY <2>1, <2>2
  <2>4. CASE t.tail = "K"
    <3>1. f = Unit
      BY <2>4 DEF Factor
    <3>2. Asked(t) = n * Unit
      BY <2>4 DEF Asked
    <3> QED BY <2>1, <3>1, <3>2
  <2>5. CASE t.tail = "M"
    <3>1. f = Unit * Unit
      BY <2>5 DEF Factor
    <3>2. Asked(t) = n * (Unit * Unit)
      BY <2>5 DEF Asked
    <3> QED BY <2>2, <3>1, <3>2
  <2>6. CASE t.tail = "G"
    <3>1. f = Unit * Unit * Unit
      BY <2>6 DEF Factor
    <3>2. Asked(t) = n * (Unit * (Unit * Unit))
      BY <2>6 DEF Asked
    <3> QED BY <2>3, <3>1, <3>2
  <2>7. CASE t.tail \notin {"K", "M", "G"}
    <3>1. f = 1
      BY <2>7 DEF Factor
    <3>2. Asked(t) = n * 1
      BY <2>7 DEF Asked
    <3> QED BY <3>1, <3>2
  <2> QED BY <2>4, <2>5, <2>6, <2>7
<1>2. m \in Nat /\ m > 0
  BY SpanFacts, LimitsAssumption
<1> HIDE DEF f, m
<1>3. CASE ~t.neg
  <2>1. SizeTo(t) = (t.num * f) % m
    BY <1>3 DEF SizeTo, Strtoull, f, m
  <2>2. t.num * f \in Nat /\ t.num * f < m /\ Asked(t) = t.num * f
    BY <1>1, <1>2, <1>3 DEF m
  <2> QED BY <1>2, <2>1, <2>2, ModSmall
\* a negative number that does not wrap around is zero
<1>4. CASE t.neg
  <2>1. t.num = 0
    <3>1. (-t.num) * f >= 0
      BY <1>1, <1>4 DEF m
    <3> QED BY <1>1, <3>1
  <2>2. Strtoull(t) = 0
    BY <1>2, <1>4, <2>1, ModSelf DEF Strtoull, m
  <2>3. SizeTo(t) = 0
    BY <1>1, <1>2, <2>2, ModSmall DEF SizeTo, f, m
  <2> QED BY <1>1, <1>4, <2>1, <2>3
<1> QED BY <1>3, <1>4

LEMMA MemHolds == IInv => MemExact
<1> DEFINE text == Value(Heads, "--mem", HelpDefaults.mem)
<1> SUFFICES ASSUME IInv, at = "applied", ~Empty(text)
             PROVE  /\ text.has /\ text.tail # "other"
                    /\ Asked(text) \in 0 .. Span(LongMax) - 1 => limit["mem"] = Asked(text)
  BY DEF MemExact
<1>1. Runs
  BY DEF Runs
<1>2. conf = Meant(Heads)
  BY <1>1, GivenHolds DEF OptionsAsGiven
<1>3. conf.mem = text
  BY <1>2 DEF Meant
<1>4. text.num \in Nat
  <2>1. TextNumbers
    BY DEF IInv, Meaning, Looped
  <2>2. text = Value(Taken, "--mem", HelpDefaults.mem)
    BY <1>1, AllTaken, SameUses DEF Valued
  <2> QED BY <2>1, <2>2 DEF TextNumbers
<1> HIDE DEF text
<1>5. SizeOk(text) /\ limit["mem"] = SizeTo(text)
  BY <1>3 DEF IInv, Meaning, Limited
<1>6. text.has /\ text.tail # "other"
  BY <1>5 DEF SizeOk, InRange
<1> QED BY <1>4, <1>5, <1>6, SizeIsAsked

LEMMA PidsHolds == IInv => PidsExact
<1> DEFINE text == Value(Heads, "--pids", HelpDefaults.pids)
<1> SUFFICES ASSUME IInv, at = "applied"
             PROVE  /\ limit["pids"] = Unset \/ limit["pids"] >= 1
                    /\ ~text.neg /\ text.num <= IntMax =>
                         limit["pids"] = IF text.num <= PidsMax THEN text.num ELSE Unset
  BY DEF PidsExact
<1>1. Runs
  BY DEF Runs
<1>2. conf = Meant(Heads)
  BY <1>1, GivenHolds DEF OptionsAsGiven
<1>3. conf.pids = Atoi(text)
  BY <1>2 DEF Meant
<1>4. text.num \in Nat
  <2>1. TextNumbers
    BY DEF IInv, Meaning, Looped
  <2>2. text = Value(Taken, "--pids", HelpDefaults.pids)
    BY <1>1, AllTaken, SameUses DEF Valued
  <2> QED BY <2>1, <2>2 DEF TextNumbers
<1> HIDE DEF text
<1>5. /\ limit["pids"] = IF conf.pids <= PidsMax THEN conf.pids ELSE Unset
      /\ conf.pids > 0
  BY DEF IInv, Meaning, Limited, Checked
<1>6. text.has
  BY <1>3, <1>5 DEF Atoi
<1>7. ~text.neg /\ text.num <= IntMax => conf.pids = text.num
  BY <1>3, <1>4, <1>6, AtoiSmall
<1> QED BY <1>3, <1>4, <1>5, <1>7, AtoiInt

-----------------------------------------------------------------------------
\* opts never leaves the line, and what it accepts is in its range
THEOREM TypeCorrect == Spec => []TypeOK
<1>1. IInv => TypeOK
  BY DEF IInv, Line, Places, Checked, Shares, TypeOK
<1> QED BY <1>1, Invariance, PTL

(***************************************************************************)
(* Every percentage that opts lets through becomes a quota without         *)
(* rounding (limcpu), and one the kernel takes.                            *)
(***************************************************************************)
THEOREM QuotaIsExact == Spec => []CpuExact
<1>1. ASSUME NEW c \in 1 .. 99 PROVE Quota(c) = 1000 * c
  BY DEF Quota, Period
<1>2. IInv => CpuExact
  BY <1>1 DEF IInv, Checked, Shares, CpuExact, Period
<1> QED BY <1>2, Invariance, PTL

(***************************************************************************)
(* The settings of a run are the ones the options of its command line mean *)
(* (opts, secopt): the last of each kind counts, and no argument is taken  *)
(* for an option.                                                          *)
(***************************************************************************)
THEOREM SettingsAreMeant == Spec => []OptionsAsGiven
BY Invariance, GivenHolds, PTL

(***************************************************************************)
(* cmdpos finds the "--" that opts stopped at, unless an option was given  *)
(* "--" as its argument.                                                   *)
(***************************************************************************)
THEOREM CommandIsMeant == Spec => []CommandAfterOptions
BY Invariance, CommandHolds, PTL

\* limmem writes the size that was asked for, if it fits, and no other text
THEOREM MemoryIsExact == Spec => []MemExact
BY Invariance, MemHolds, PTL

\* limpids writes the number that was asked for, if it fits an int, and never 0
THEOREM PidsAreExact == Spec => []PidsExact
BY Invariance, PidsHolds, PTL
=============================================================================
