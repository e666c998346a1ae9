------------------------------ MODULE MruOrder ------------------------------
(***************************************************************************)
(* What CIccMruCache promises about its contents: it holds the source      *)
(* pixels used last, the most recent first, and as many as fit; a pixel    *)
(* that is looked for is found if and only if it is one of them.           *)
(***************************************************************************)
EXTENDS Integers, Sequences

CONSTANTS
  Pixels,     \* the source pixels
  Sizes,      \* the sizes a cache may have
  None        \* not a pixel

VARIABLES
  size,       \* how many entries the cache has room for
  order,      \* the cached source pixels, the one used last first
  sought      \* the pixel that is looked for, or None

vars == <<size, order, sought>>

Init == size \in Sizes /\ order = <<>> /\ sought = None

New ==
  /\ sought = None
  /\ size' \in Sizes /\ order' = <<>> /\ sought' = None

Seek ==
  /\ sought = None
  /\ sought' \in Pixels
  /\ UNCHANGED <<size, order>>

\* A pixel found comes to the front, before those used since.  The next one
\* may be looked for at once.
UseAgain(at) ==
  /\ order[at] = sought
  /\ order' = [j \in DOMAIN order |->
                 IF j = 1 THEN order[at]
                 ELSE IF j <= at THEN order[j - 1] ELSE order[j]]
  /\ sought' \in Pixels \cup {None}
  /\ UNCHANGED size

\* A new pixel comes to the front, and pushes out the oldest of a full cache.
UseNew ==
  /\ sought \in Pixels
  /\ \A j \in DOMAIN order : order[j] # sought
  /\ order' = [j \in 1..(IF Len(order) < size THEN Len(order) + 1 ELSE size) |->
                 IF j = 1 THEN sought ELSE order[j - 1]]
  /\ sought' = None
  /\ UNCHANGED size

Next == New \/ Seek \/ (\E at \in DOMAIN order : UseAgain(at)) \/ UseNew

Spec == Init /\ [][Next]_vars
=============================================================================
