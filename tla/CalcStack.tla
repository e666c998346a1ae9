------------------------------- MODULE CalcStack -------------------------------
(***************************************************************************)
(* The stack machine of the calculator element (IccProfLib/IccMpeCalc.cpp):*)
(* Begin judges a program once, walking it without its values; Apply then  *)
(* runs it for every pixel.  What is judged is whether the stack can run   *)
(* empty or over, and whether the temporaries have to be zeroed.           *)
(*                                                                         *)
(* A program is a flat sequence of operations; the body of an if, else,    *)
(* case or default is the operations its size spans, and runs as a         *)
(* sequence of its own.  Values are left out: the stack is its depth, an   *)
(* if goes either way and a select takes any selector.  The operations     *)
(* without control stand for all those that pop and push fixed counts.     *)
(***************************************************************************)
EXTENDS Integers, Sequences, FiniteSets, FiniteSetsExt

CONSTANTS
  Programs,  \* the programs judged and run
  NTemps,    \* m_nTempChannels
  MaxStack,  \* nMaxStack, icMaxDataStackSize
  MaxDepth   \* kMaxCalcRecursionDepth

Temps == 1..NTemps
Plain == {"in", "out", "tget", "tput", "tsav"}
Branching == {"if", "else", "sel", "case", "dflt"}
\* arg: the temporary of a temp operation, the size of a body.
Ops == [op : Plain \cup Branching, arg : Nat]

ASSUME ProgramsAssumption ==
  \A p \in Programs :
    /\ p \in Seq(Ops)
    /\ \A i \in DOMAIN p : p[i].op \in {"tget", "tput", "tsav"} => p[i].arg \in Temps
ASSUME LimitsAssumption == {NTemps, MaxStack, MaxDepth} \subseteq Nat

VARIABLES
  prog,      \* m_Op
  phase,     \* "new", "refused", "ready" or "running"
  tempReset, \* m_bNeedTempReset
  stack,     \* size of the value stack
  fresh,     \* temporaries that have a value of this pixel
  frames,    \* the ApplySequence calls under way, the innermost last
  ret,       \* what the innermost one returns: "none" while it runs
  fault,     \* history: why the first sequence that failed for this pixel did
  stale,     \* history: a temporary was read that has no value of this pixel
  result     \* what Apply returned for the last pixel

calcVars == <<prog, phase, tempReset, stack, fresh, frames, ret, fault, stale, result>>

(* The operations of a program p count from 0.  A sequence is what there is up  *)
(* to an end, and runs from where it starts.                                    *)
At(p, i) == p[i + 1]
IsAt(p, end, i, op) == i < end /\ At(p, i).op = op
Fits(end, start, size) == start + size <= end

Uses(o) == IF o.op \in {"out", "tput", "tsav", "if", "sel"} THEN 1 ELSE 0
Pushes(o) == IF o.op \in {"in", "tget", "tsav"} THEN 1 ELSE 0
Reads(o) == IF o.op = "tget" THEN {o.arg} ELSE {}
Writes(o) == IF o.op \in {"tput", "tsav"} THEN {o.arg} ELSE {}

(* The layout of an if at i: the first body follows the else if there is   *)
(* one, the second the first.                                              *)
HasElse(p, end, i) == IsAt(p, end, i + 1, "else")
IfBody(p, end, i) == i + IF HasElse(p, end, i) THEN 2 ELSE 1
ElseBody(p, end, i) == IfBody(p, end, i) + At(p, i).arg
AfterIf(p, end, i) == ElseBody(p, end, i) + IF HasElse(p, end, i) THEN At(p, i + 1).arg ELSE 0

(* The layout of a select at i: cases, perhaps a default, then their bodies *)
(* in the same order.                                                      *)
Cases(p, end, i) == Max({k \in 0..end : \A j \in 1..k : IsAt(p, end, i + j, "case")})
HasDefault(p, end, i) == Cases(p, end, i) > 0 /\ IsAt(p, end, i + Cases(p, end, i) + 1, "dflt")
Bodies(p, end, i) == Cases(p, end, i) + IF HasDefault(p, end, i) THEN 1 ELSE 0
\* Where the k-th body starts, and where the one after the last would.
BodyStart(p, end, i, k) ==
  LET behind[n \in 0..(k - 1)] ==
        IF n = 0 THEN i + 1 + Bodies(p, end, i) ELSE behind[n - 1] + At(p, i + n).arg
  IN  behind[k - 1]
AfterSelect(p, end, i) == BodyStart(p, end, i, Bodies(p, end, i) + 1)

\* Where the sequence goes on after the branch at i.
Behind(p, end, i) == IF At(p, i).op = "if" THEN AfterIf(p, end, i) ELSE AfterSelect(p, end, i)
-----------------------------------------------------------------------------
(* The judgements of Begin *)

\* InitSelectOps: at least one operation follows the cases, and the bodies fit.
SelectsFit(p) ==
  \A i \in 0..(Len(p) - 1) : IsAt(p, Len(p), i, "sel") =>
    /\ i + Cases(p, Len(p), i) + 1 < Len(p)
    /\ AfterSelect(p, Len(p), i) <= Len(p)

\* HasValidOperations: what stands before what.  The first operation is not
\* looked at.
Preceded(p, i, op, before) == i > 0 /\ IsAt(p, Len(p), i, op) => At(p, i - 1).op \in before
WellOrdered(p) ==
  \A i \in 0..(Len(p) - 1) :
    /\ IsAt(p, Len(p), i, "sel") /\ i + 1 < Len(p) => IsAt(p, Len(p), i + 1, "case")
    /\ Preceded(p, i, "else", {"if"})
    /\ Preceded(p, i, "case", {"sel", "case"})
    /\ Preceded(p, i, "dflt", {"case"})

(* CheckUnderflowOverflow walks a sequence with the depth of the stack, counting *)
(* on the least (low) or the most a branch leaves.                               *)
Walks(p) == [at : 0..Len(p), end : 0..Len(p), depth : 0..MaxStack, low : BOOLEAN]
Refused == -1
\* Fault: both walks count on what the fuller branch leaves.
Fuller(low, depths) == Max(depths)
\* Fault: both walks count on what the emptier branch leaves.
Emptier(low, depths) == Min(depths)
Branched(low, depths) == IF low THEN Min(depths) ELSE Max(depths)

\* x is where a walk is, and d what is left of shorter ones at their ends.
Now(p, x) == x.depth - Uses(At(p, x.at)) + Pushes(At(p, x.at))
Left(p, d, x, start, size) ==
  IF Fits(x.end, start, size)
  THEN d[[x EXCEPT !.at = start, !.end = start + size, !.depth = Now(p, x)]]
  ELSE Refused
IfLeaves(p, d, x) ==
  {Left(p, d, x, IfBody(p, x.end, x.at), At(p, x.at).arg),
   IF HasElse(p, x.end, x.at) THEN Left(p, d, x, ElseBody(p, x.end, x.at), At(p, x.at + 1).arg)
   ELSE Now(p, x)}
SelectLeaves(p, d, x) ==
  {LET start == BodyStart(p, x.end, x.at, k)
   IN  IF start < x.end THEN Left(p, d, x, start, At(p, x.at + k).arg) ELSE Refused :
     k \in 1..Bodies(p, x.end, x.at)}
Leaves(p, d, x) == IF At(p, x.at).op = "if" THEN IfLeaves(p, d, x) ELSE SelectLeaves(p, d, x)
\* The depth at the end of the walk, or that an operation is refused.
Judged(p, d, x) ==
  IF x.at >= x.end THEN x.depth
  ELSE IF Uses(At(p, x.at)) > x.depth \/ Now(p, x) > MaxStack THEN Refused
  ELSE IF At(p, x.at).op \in {"if", "sel"}
  THEN LET depths == Leaves(p, d, x)
       IN  IF depths = {} \/ Refused \in depths THEN Refused
           ELSE d[[x EXCEPT !.at = Behind(p, x.end, x.at), !.depth = Branched(x.low, depths)]]
  ELSE d[[x EXCEPT !.at = @ + 1, !.depth = Now(p, x)]]
Depth(p) == LET d[x \in Walks(p)] == Judged(p, d, x) IN d

\* Validity of the whole, as Begin sees it.
Accepted(p) ==
  /\ SelectsFit(p)
  /\ WellOrdered(p)
  /\ \A low \in BOOLEAN :
       Depth(p)[[at |-> 0, end |-> Len(p), depth |-> 0, low |-> low]] # Refused

(* SequenceNeedTempReset walks it with the temporaries written on every way,    *)
(* with Old among them once one may be read before it is written.               *)
Passes(p) == [at : 0..Len(p), end : 0..Len(p), written : SUBSET Temps]
Old == 0
\* Fault: what one branch writes counts as written after both.
EitherWrites(s, t) == s \cup t
BothWrite(s, t) == s \cap t

Body(f, x, start, size) ==
  IF Fits(x.end, start, size) THEN f[[x EXCEPT !.at = start, !.end = start + size]] ELSE {Old}
IfWrites(p, f, x) == Body(f, x, IfBody(p, x.end, x.at), At(p, x.at).arg)
ElseWrites(p, f, x) ==
  IF HasElse(p, x.end, x.at) THEN Body(f, x, ElseBody(p, x.end, x.at), At(p, x.at + 1).arg)
  ELSE x.written
Followed(p, f, x) ==
  IF x.at >= x.end THEN x.written
  ELSE IF ~(Reads(At(p, x.at)) \subseteq x.written) \/ At(p, x.at).op = "sel" THEN {Old}
  ELSE IF At(p, x.at).op = "if"
  THEN IF Old \in IfWrites(p, f, x) \cup ElseWrites(p, f, x) THEN {Old}
       ELSE f[[x EXCEPT !.at = AfterIf(p, x.end, x.at),
                        !.written = @ \cup BothWrite(IfWrites(p, f, x), ElseWrites(p, f, x))]]
  ELSE f[[x EXCEPT !.at = @ + 1, !.written = @ \cup Writes(At(p, x.at))]]
WrittenAfter(p) == LET f[x \in Passes(p)] == Followed(p, f, x) IN f

NeedTempReset(p) == Old \in WrittenAfter(p)[[at |-> 0, end |-> Len(p), written |-> {}]]
-----------------------------------------------------------------------------
CalcInit ==
  /\ prog \in Programs
  /\ phase = "new"
  /\ tempReset = FALSE
  /\ stack = 0 /\ fresh = {} /\ frames = << >> /\ ret = "none"
  /\ fault = "none" /\ stale = FALSE /\ result = "none"

\* CIccMpeCalculator::Begin; it may be called again.
Begin ==
  /\ phase # "running"
  /\ tempReset' = NeedTempReset(prog)
  /\ phase' = IF Accepted(prog) THEN "ready" ELSE "refused"
  /\ UNCHANGED <<prog, stack, fresh, frames, ret, fault, stale, result>>

\* One pixel.  Temporaries that are not zeroed hold those of the pixel before,
\* or what malloc left.
Apply ==
  /\ phase = "ready"
  /\ phase' = "running"
  /\ stack' = 0
  /\ fresh' = IF tempReset THEN Temps ELSE {}
  /\ frames' = << [at |-> 0, end |-> Len(prog)] >>
  /\ fault' = "none" /\ stale' = FALSE
  /\ UNCHANGED <<prog, tempReset, ret, result>>

(* ApplySequence *)

Frame == frames[Len(frames)]
Running == phase = "running" /\ ret = "none"
Op == At(prog, Frame.at)
Executing(ops) == Running /\ Frame.at < Frame.end /\ Op.op \in ops
Enough == stack >= Uses(Op)

Noted(why) == IF fault = "none" THEN why ELSE fault
Fail(why) ==
  /\ ret' = "false"
  /\ fault' = Noted(why)
  /\ UNCHANGED <<prog, phase, tempReset, stack, fresh, frames, stale, result>>

Exec ==
  /\ Executing(Plain)
  /\ Enough
  /\ stack' = stack - Uses(Op) + Pushes(Op)
  /\ stale' = (stale \/ ~(Reads(Op) \subseteq fresh))
  /\ fresh' = fresh \cup Writes(Op)
  /\ frames' = [frames EXCEPT ![Len(frames)].at = @ + 1]
  /\ UNCHANGED <<prog, phase, tempReset, ret, fault, result>>

\* The cases, counted over the whole program, and all bodies are in the sequence.
\* (The code finds out about the last ones after it has run one.)
LaidOut(end, i) ==
  At(prog, i).op = "sel" =>
    /\ Cases(prog, Len(prog), i) > 0
    /\ i + 1 + Cases(prog, Len(prog), i) < end
    /\ AfterSelect(prog, end, i) <= end

\* An operation or a condition that the stack has no arguments for, or a select
\* without its bodies.
Break ==
  /\ Executing(Plain \cup {"if", "sel"})
  /\ ~(Enough /\ LaidOut(Frame.end, Frame.at))
  /\ Fail(IF Enough THEN "layout" ELSE "underflow")

\* An else, case or default that follows no if or select of its own sequence is
\* executed like any operation, and has no definition.
Stray == Executing({"else", "case", "dflt"}) /\ Fail("stray")

\* The body of a branch is run, if there is one, in a sequence of its own.  One
\* nested too deep returns at once.
Branch(start, size) ==
  /\ stack' = stack - 1
  /\ IF ~Fits(Frame.end, start, size)
     THEN ret' = "false" /\ fault' = Noted("layout") /\ UNCHANGED frames
     ELSE /\ frames' = Append(frames, [at |-> start, end |-> start + size])
          /\ IF Len(frames) > MaxDepth
             THEN ret' = "false" /\ fault' = Noted("depth")
             ELSE UNCHANGED <<ret, fault>>
  /\ UNCHANGED <<prog, phase, tempReset, fresh, stale, result>>

If ==
  LET i == Frame.at  end == Frame.end
  IN  /\ Executing({"if"})
      /\ Enough
      /\ \/ Branch(IfBody(prog, end, i), Op.arg)
         \/ HasElse(prog, end, i) /\ Branch(ElseBody(prog, end, i), At(prog, i + 1).arg)

\* Neither body runs.
Skip(next) ==
  /\ stack' = stack - 1
  /\ frames' = [frames EXCEPT ![Len(frames)].at = next]
  /\ UNCHANGED <<prog, phase, tempReset, fresh, ret, fault, stale, result>>
SkipIf ==
  /\ Executing({"if"})
  /\ Enough
  /\ ~HasElse(prog, Frame.end, Frame.at)
  /\ Skip(AfterIf(prog, Frame.end, Frame.at))

Select ==
  LET i == Frame.at  end == Frame.end
  IN  /\ Executing({"sel"})
      /\ Enough
      /\ LaidOut(end, i)
      /\ \E k \in 1..Bodies(prog, end, i) : Branch(BodyStart(prog, end, i, k), At(prog, i + k).arg)
SkipSelect ==
  LET i == Frame.at  end == Frame.end
  IN  /\ Executing({"sel"})
      /\ Enough
      /\ LaidOut(end, i)
      /\ ~HasDefault(prog, end, i)
      /\ Skip(AfterSelect(prog, end, i))

\* A sequence ends at its last operation, or past it after an if whose bodies
\* are.
EndOfSequence ==
  /\ Running
  /\ Frame.at >= Frame.end
  /\ ret' = "true"
  /\ UNCHANGED <<prog, phase, tempReset, stack, fresh, frames, fault, stale, result>>

\* The sequence that ran the body goes on behind the bodies.  When the body has
\* failed it fails too at an if, and returns true at a select.
Caller == frames[Len(frames) - 1]
ReturnBody ==
  /\ ret # "none"
  /\ Len(frames) > 1
  /\ frames' =
       [SubSeq(frames, 1, Len(frames) - 1) EXCEPT
          ![Len(frames) - 1].at =
            IF ret = "true" THEN Behind(prog, Caller.end, @) ELSE @]
  /\ ret' = IF ret = "true" THEN "none"
            ELSE IF At(prog, Caller.at).op = "if" THEN "false" ELSE "true"
  /\ UNCHANGED <<prog, phase, tempReset, stack, fresh, fault, stale, result>>

ReturnPixel ==
  /\ ret # "none"
  /\ Len(frames) = 1
  /\ result' = ret
  /\ phase' = "ready"
  /\ frames' = << >> /\ ret' = "none"
  /\ UNCHANGED <<prog, tempReset, stack, fresh, fault, stale>>
-----------------------------------------------------------------------------
CalcNext ==
  \/ Begin \/ Apply
  \/ Exec \/ Break \/ Stray
  \/ If \/ SkipIf \/ Select \/ SkipSelect
  \/ EndOfSequence \/ ReturnBody \/ ReturnPixel
CalcSpec == CalcInit /\ [][CalcNext]_calcVars
=============================================================================
