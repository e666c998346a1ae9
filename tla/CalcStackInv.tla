----------------------------- MODULE CalcStackInv -----------------------------
(* What Begin's judgements promise of every pixel.                           *)
EXTENDS CalcStack

\* The machine's state has its types: the stack has no negative size, and a
\* sequence never starts outside the operations of the one that runs it.
CalcTypeOK ==
  /\ prog \in Programs
  /\ phase \in {"new", "refused", "ready", "running"}
  /\ tempReset \in BOOLEAN /\ stale \in BOOLEAN
  /\ stack \in Nat /\ fresh \subseteq Temps
  /\ ret \in {"none", "true", "false"} /\ result \in {"none", "true", "false"}
  /\ fault \in {"none", "underflow", "stray", "layout", "depth"}
  /\ frames \in Seq([at : 0..Len(prog), end : 0..Len(prog)])
  /\ \A k \in DOMAIN frames :
       /\ frames[k].at <= frames[k].end
       /\ k > 1 => frames[k - 1].at < frames[k].at /\ frames[k].end <= frames[k - 1].end
  /\ frames # << >> <=> phase = "running"
  /\ Len(frames) <= MaxDepth + 2

\* Every select runs one of its bodies.
SelectsDecide(p) ==
  \A i \in 0..(Len(p) - 1) : IsAt(p, Len(p), i, "sel") => HasDefault(p, Len(p), i)

\* A program that Begin accepted finds its arguments on the stack and its bodies
\* in place, whichever branches the values of a pixel choose.  (Two things Begin
\* does not judge: an else, case or default behind the end of a body, and the
\* depth of nesting.)
AcceptedProgramsRun == SelectsDecide(prog) => fault \notin {"underflow", "layout"}

\* The stack of a program that Begin accepted never exceeds the limit, so that
\* no pixel makes it grow without bound, and none makes it shrink below nothing.
\* (Once a body has failed, the sequences around a select go on with what it has
\* left on the stack.)
StackWithinLimit ==
  CalcTypeOK /\ (SelectsDecide(prog) /\ fault = "none" => stack <= MaxStack)

\* Where the reset of the temporaries is skipped, no pixel reads what the pixel
\* before it, or nobody, left in one.
TempsFresh == ~stale
=============================================================================
