------------------------------- MODULE Limits -------------------------------
(***************************************************************************)
(* The arithmetic of --mem, --pids and --cpu: what atoi makes of a text,   *)
(* what sizeto makes of it, and the quota of limcpu.  C arithmetic wraps:  *)
(* a long is in -LongMax - 1 .. LongMax, an int in -IntMax - 1 .. IntMax,  *)
(* and an unsigned long long has as many values as a long.                 *)
(***************************************************************************)
EXTENDS Integers

CONSTANTS
  LongMax,  \* LONG_MAX (2^63 - 1)
  IntMax,   \* INT_MAX (2^31 - 1)
  Unit      \* K, M and G multiply by Unit, Unit^2 and Unit^3 (1024)

\* an int holds the default of --pids, 128
ASSUME LimitsAssumption ==
  /\ IntMax \in Nat /\ LongMax \in Nat /\ 128 <= IntMax /\ IntMax <= LongMax
  /\ Unit \in Nat \ {0}

\* what follows the digits of a text; a text is a record with a minus sign or
\* not, digits or none, their number, and one of these
Tails == {"", "K", "M", "G", "other"}

-----------------------------------------------------------------------------
(* C *)

\* how many values a type has that goes up to max, signed
Span(max) == 2 * (max + 1)

\* strtoull negates a number with a minus sign in the unsigned type
Strtoull(t) == IF t.neg THEN (Span(LongMax) - t.num) % Span(LongMax) ELSE t.num

Empty(t) == ~t.neg /\ ~t.has /\ t.tail = ""

InRange(t) == t.has /\ t.num < Span(LongMax)

\* two's complement
ToInt(n) ==
  LET low == n % Span(IntMax)
  IN IF low <= IntMax THEN low ELSE low - Span(IntMax)

\* atoi is strtol, which stops at the ends of long, cast to int
Atoi(t) ==
  IF ~t.has THEN 0
  ELSE IF t.neg THEN ToInt(IF t.num > LongMax + 1 THEN -(LongMax + 1) ELSE -t.num)
  ELSE ToInt(IF t.num > LongMax THEN LongMax ELSE t.num)

\* mutant: M multiplies like K
FactorSlip(tail) == CASE tail \in {"K", "M"} -> Unit
                      [] tail = "G" -> Unit * Unit * Unit
                      [] OTHER      -> 1

Factor(tail) == CASE tail = "K" -> Unit
                  [] tail = "M" -> Unit * Unit
                  [] tail = "G" -> Unit * Unit * Unit
                  [] OTHER      -> 1

\* sizeto succeeds, and what it then returns: the product is taken mod Span(LongMax)
SizeOk(t) == InRange(t) /\ t.tail # "other"
SizeTo(t) == (Strtoull(t) * Factor(t.tail)) % Span(LongMax)

Period == 100000
\* mutant: a period of 1000
QuotaSmall(percent) == (1000 * percent) \div 100

Quota(percent) == (Period * percent) \div 100

=============================================================================
