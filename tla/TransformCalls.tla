---------------------------- MODULE TransformCalls ----------------------------
(***************************************************************************)
(* What the handles of the ICM colour management module promise: a handle  *)
(* names one transform from its creation to its deletion; a call works     *)
(* from its first to its last row on the transform its handle named when   *)
(* it was made, whatever is deleted or created in between; and a transform *)
(* exists exactly as long as a handle names it or a call is at work on it. *)
(* There is no lock, counter or handle arithmetic at this level.           *)
(***************************************************************************)
EXTENDS Naturals, Sequences, FiniteSets, Functions

CONSTANTS
  Threads,
  Handles,
  Cmms,     \* transforms, as far as they can exist at the same time
  Limit,    \* transforms that can be named at the same time
  MaxRows   \* rows of a call

VARIABLES
  named,    \* handle -> transform, of the handles in use
  calls,    \* of each thread, its nested calls: transform, rows left, whether
            \* the transform is one being created
  alive     \* the transforms that exist

vars == <<named, calls, alive>>

Engaged(cs) == UNION {{call.cmm : call \in Range(cs[th])} : th \in Threads}

Init ==
  /\ named = << >>
  /\ calls = [th \in Threads |-> << >>]
  /\ alive = {}

\* Whatever a step does to names and calls, it destroys what both have left.
Settle == alive' = Range(named') \cup Engaged(calls')

Push(th, c, rows, new) ==
  calls' = [calls EXCEPT ![th] =
              Append(@, [cmm |-> c, left |-> rows, new |-> new])]

Build(th) ==
  /\ \E c \in Cmms \ alive : Push(th, c, 0, TRUE)
  /\ UNCHANGED named
  /\ Settle

Name(th) ==
  /\ calls[th] # << >>
  /\ Cardinality(DOMAIN named) < Limit
  /\ LET d == Len(calls[th])
     IN  /\ calls[th][d].new
         /\ \E h \in Handles \ DOMAIN named :
              named' = [k \in DOMAIN named \cup {h} |->
                          IF k = h THEN calls[th][d].cmm ELSE named[k]]
         /\ calls' = [calls EXCEPT ![th][d].new = FALSE]
  /\ Settle

\* No name is given only when all that may be are.
Refuse(th) ==
  /\ calls[th] # << >>
  /\ Cardinality(DOMAIN named) = Limit
  /\ LET d == Len(calls[th])
     IN  /\ calls[th][d].new
         /\ calls' = [calls EXCEPT ![th][d].new = FALSE]
  /\ UNCHANGED named
  /\ Settle

Unname(th) ==
  \E h \in DOMAIN named :
    /\ named' = Restrict(named, DOMAIN named \ {h})
    /\ Push(th, named[h], 0, FALSE)
    /\ Settle

Begin(th) ==
  /\ \E h \in DOMAIN named, rows \in 1..MaxRows : Push(th, named[h], rows, FALSE)
  /\ UNCHANGED named
  /\ Settle

Row(th) ==
  /\ calls[th] # << >>
  /\ LET d == Len(calls[th])
     IN  /\ calls[th][d].left > 0
         /\ calls' = [calls EXCEPT ![th][d].left = @ - 1]
  /\ UNCHANGED named
  /\ Settle

Return(th) ==
  /\ calls[th] # << >> /\ ~calls[th][Len(calls[th])].new
  /\ calls' = [calls EXCEPT ![th] = SubSeq(@, 1, Len(@) - 1)]
  /\ UNCHANGED named
  /\ Settle

Next == \E th \in Threads :
  \/ Build(th) \/ Name(th) \/ Refuse(th) \/ Unname(th)
  \/ Begin(th) \/ Row(th) \/ Return(th)

Spec == Init /\ [][Next]_vars
=============================================================================
