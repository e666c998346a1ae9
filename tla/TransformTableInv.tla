-------------------------- MODULE TransformTableInv --------------------------
(* What the table of transforms and their locks are meant to keep.           *)
EXTENDS TransformTable, Sequences

\* The state has its types; the bounds are those of the constants.
TypeOK ==
  /\ table \in [DOMAIN table -> Cmms] /\ DOMAIN table \subseteq Handles
  /\ nextHandle \in Handles
  /\ refs \in [Cmms -> Nat]
  /\ lock \in [Cmms -> [owner : Threads \cup {Nobody}, count : Nat]]
  /\ depth \in [Threads -> 0..MaxDepth]
  /\ frame \in [Threads -> [1..MaxDepth -> Frames]]
  /\ made \in Nat
  /\ since \in [Handles -> 0..Spare]

Calls == {p \in Threads \X (1..MaxDepth) : p[2] <= depth[p[1]]}
CallAt(p) == frame[p[1]][p[2]]

\* A thread holds at most the mutex of the call it runs, and only while that
\* call is in its CMM: never while it waits for another mutex or is in a
\* client's callback, so two callbacks that use each other's transforms cannot
\* block one another.
NoHoldAndWait ==
  \A th \in Threads, c \in Cmms : lock[c].owner = th =>
    /\ depth[th] > 0
    /\ Top(th).cmm = c /\ Top(th).at \in Holding

\* The mutable scratch pixels and the cache of a CMM are used by one call at a
\* time, whether two threads translate with it or one thread nests a call on
\* it in the callback of another.
OneCallInCmm ==
  \A p, q \in Calls :
    /\ CallAt(p).at \in Holding /\ CallAt(q).at \in Holding
    /\ CallAt(p).cmm = CallAt(q).cmm
    => p = q

\* References are counted exactly: a transform, and the mutex in it, exists
\* while the table or a call refers to it and no longer.
RefsExact ==
  /\ TypeOK
  /\ \A c \in Cmms :
       refs[c] = Cardinality({h \in DOMAIN table : table[h] = c})
                 + Cardinality({p \in Calls : CallAt(p).cmm = c})

\* A client that keeps a handle it has deleted does not meet another transform
\* under it before as many others were stored as the table leaves handles free.
HandlesRotate ==
  [][\A h \in DOMAIN table' \ DOMAIN table :
       since[h] = Spare]_vars

AbstractCalls ==
  [th \in Threads |->
     [d \in 1..depth[th] |->
        [cmm |-> frame[th][d].cmm, left |-> frame[th][d].left,
         new |-> frame[th][d].at = "store"]]]
Abstract == INSTANCE TransformCalls WITH
  named <- table, calls <- AbstractCalls,
  alive <- {c \in Cmms : refs[c] > 0}
\* A client sees only handles that name transforms and calls that stay with
\* theirs.
ImplementsTransformCalls == Abstract!Spec
=============================================================================
