----------------------------- MODULE MCCalcStack -----------------------------
(* Small programs for CalcStack.                                             *)
EXTENDS CalcStackInv, SequencesExt

O(name, n) == [op |-> name, arg |-> n]
Sizes == 0..2
Sized(name, sizes) == {O(name, n) : n \in sizes}
Simple == {O("in", 0), O("out", 0), O("tget", 1), O("tput", 1)}
Small ==
  Simple \cup Sized("if", 0..1) \cup Sized("else", 0..1) \cup {O("sel", 0), O("tsav", 1)}
         \cup Sized("case", 0..1) \cup Sized("dflt", 0..1)

\* Every program of a few operations, misplaced ones included; ...
Short == SeqOf(Small, 4)
\* ... and longer ones that begin with a branch, or with two nested ones.
Tails(n) == SeqOf(Simple \cup {O("if", 1)}, n)
After(head, n) == {head \o t : t \in Tails(n)}
Long ==
  UNION {After(<<O("in", 0), O("if", a), O("else", b)>>, 4) : a, b \in Sizes}
  \cup UNION {After(<<O("in", 0), O("sel", 0), O("case", a), O("case", b)>>, 3) :
                a, b \in Sizes}
  \cup UNION {After(<<O("in", 0), O("sel", 0), O("case", a), O("dflt", b)>>, 4) :
                a, b \in Sizes}
  \cup UNION {After(<<O("in", 0), O("in", 0), O("sel", 0), O("case", a), O("dflt", b),
                      O("sel", 0), O("case", c), O("dflt", d)>>, 3) :
                a \in {3, 4}, b, c, d \in 0..1}
  \cup UNION {After(<<O("in", 0), O("in", 0), O("if", a), O("if", b)>>, 3) :
                a, b \in 0..3}

MCPrograms == Short \cup Long
=============================================================================
