------------------------------ MODULE MCOptions ------------------------------
(* A scaled-down machine (LONG_MAX 511, INT_MAX 255, units of 4) and command  *)
(* lines of three kinds, for TLC.                                             *)
EXTENDS Options

Upto(words, n) == UNION {[1 .. k -> words] : k \in 0 .. n}

Run == <<Plain("run")>>
Dash == Plain("--")
Rest == <<Dash, Plain("ls")>>

\* the grammar: any order of a few words that matter to it
FewWords == {Plain(w) : w \in {"--name", "--rm", "--", "ls"}}
              \cup {Plain("--pids"), Number(5, "", FALSE)}
GrammarLines == {Run \o s : s \in Upto(FewWords, 5)}

\* the table: every option and value, before a command
AllWords == {Plain(w) : w \in Flags \cup Valued \cup {"host", "off", "strict", "", "bogus"}}
              \cup {Number(7, "K", FALSE), Number(100, "", FALSE), Number(3, "", TRUE)}
TableLines == {Run \o s \o Rest : s \in Upto(AllWords, 3)}

\* the numbers: every boundary of the machine
Digits == (0 .. 17) \cup (60 .. 68) \cup (98 .. 102) \cup (126 .. 130)
            \cup {239, 240, 241, 255, 256, 257, 510, 511, 512, 513, 1023, 1024, 1025}
Texts == {Number(n, t, s) : n \in Digits, t \in Tails, s \in BOOLEAN}
NumberLines == {Run \o <<Plain(o), t>> \o Rest : o \in {"--mem", "--pids", "--cpu"}, t \in Texts}

OtherLines == {<<Plain(c)>> \o s : c \in Managers \cup {"run", "bogus"},
                                   s \in Upto({Plain("box"), Plain("--")}, 2)}

MCLines == GrammarLines \cup TableLines \cup NumberLines \cup OtherLines
=============================================================================
