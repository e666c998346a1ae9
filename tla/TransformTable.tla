---------------------------- MODULE TransformTable ----------------------------
(***************************************************************************)
(* The transforms of the Windows ICM module (Tools/Winnt/IccDEVCmm/        *)
(* IccDEVCmm.cpp): a table from 16-bit handles to reference-counted        *)
(* transforms under one mutex, a recursive mutex in each transform, held   *)
(* while its CMM is used and released around the client's progress         *)
(* callback, in which the client may call the module again.                *)
(*                                                                         *)
(* A thread is a stack of calls, the top one running, all others inside    *)
(* their callbacks.  The table mutex is held for no blocking operation, so *)
(* a region under it is one step.  The pixels of a row and the building of *)
(* the CMM are one step each, with any outcome.                            *)
(***************************************************************************)
EXTENDS Integers, FiniteSets, Functions

CONSTANTS
  Threads,    \* client threads
  MinHandle,  \* MIN_TRANSFORM_HANDLE
  MaxHandle,  \* MAX_TRANSFORM_HANDLE
  Limit,      \* AVAILABLE_TRANSFORMS
  Cmms,       \* transforms that can exist at once
  MaxRows,    \* bound on the rows of a call
  MaxDepth,   \* bound on the calls nested on one thread
  MaxCalls    \* bound on the calls that use a transform

Handles == MinHandle..MaxHandle
Spare == MaxHandle - MinHandle + 1 - Limit  \* handles always free
Nobody == "nobody"
NoCmm == "none"

ASSUME HandlesAssumption ==
  /\ MinHandle \in Nat /\ MaxHandle \in Nat /\ MinHandle <= MaxHandle
  /\ Limit \in 1..(MaxHandle - MinHandle + 1)
ASSUME ClientsAssumption ==
  /\ MaxRows \in Nat /\ MaxDepth \in Nat /\ MaxCalls \in Nat
  /\ Nobody \notin Threads /\ NoCmm \notin Cmms

VARIABLES
  table,      \* g_Transforms
  nextHandle, \* g_NextTransformHandle
  refs,       \* shared_ptr count of each transform, 0 when it does not exist
  lock,       \* m_Mutex of each transform: its owner and how often he holds it
  depth,      \* number of nested calls of each thread
  frame,      \* the calls of each thread
  made,       \* calls made so far, for the bound
  since       \* history: transforms stored since each handle was last issued,
              \* counted up to Spare

callVars == <<depth, frame, made>>
vars == <<table, nextHandle, refs, lock, callVars, since>>

(* The calls of a thread *)

\* "store": about to be put into the table        "enter": waits for the lock
\* "body": uses the CMM, lock held                "leave": returns, lock held
\* "callback": runs the client's function         "drop": gives up its reference
\* "resume", "cancel": waits for the lock after a callback that went well or not
Places == {"store", "enter", "body", "leave", "callback", "resume", "cancel",
           "drop"}
Holding == {"body", "leave"}
NoFrame == [cmm |-> NoCmm, left |-> 0, calling |-> FALSE, at |-> "drop"]
Frames == [cmm : Cmms \cup {NoCmm}, left : 0..MaxRows, calling : BOOLEAN,
           at : Places]

Top(th) == frame[th][depth[th]]
RunsAt(th, place) == depth[th] > 0 /\ Top(th).at = place
\* A thread makes a call when it is in none, or in a callback.
MayCall(th) ==
  /\ depth[th] < MaxDepth
  /\ depth[th] = 0 \/ RunsAt(th, "callback")
Become(th, f) == frame' = [frame EXCEPT ![th][depth[th]] = f]
GoTo(th, place) == Become(th, [Top(th) EXCEPT !.at = place])
\* A row is done.
RowOver(th, place) ==
  Become(th, [Top(th) EXCEPT !.left = Top(th).left - 1, !.at = place])
PushCall(th, f) ==
  /\ depth' = [depth EXCEPT ![th] = @ + 1]
  /\ frame' = [frame EXCEPT ![th][depth[th] + 1] = f]

(* The recursive mutex of a transform *)

MayLock(th, c) == lock[c].owner \in {Nobody, th}
\* Fault: the guard is a temporary, gone at the end of its statement.
LockedBriefly(th, c) == lock
Locked(th, c) == [lock EXCEPT ![c] = [owner |-> th, count |-> @.count + 1]]
Unlocked(c) ==
  [lock EXCEPT ![c] =
     [owner |-> IF @.count = 1 THEN Nobody ELSE @.owner, count |-> @.count - 1]]
-----------------------------------------------------------------------------
Init ==
  /\ table = << >>
  /\ nextHandle = MinHandle
  /\ refs = [c \in Cmms |-> 0]
  /\ lock = [c \in Cmms |-> [owner |-> Nobody, count |-> 0]]
  /\ depth = [th \in Threads |-> 0]
  /\ frame = [th \in Threads |-> [d \in 1..MaxDepth |-> NoFrame]]
  /\ made = 0
  /\ since = [h \in Handles |-> Spare]

(* Creation: CMCreateMultiProfileTransform, CMCreateTransformExt(W) *)

\* A CMM is built, of which nothing else knows.  (One that cannot be is
\* deleted again, and the call returns NULL: no state of this module changes.)
Create(th) ==
  /\ MayCall(th)
  /\ \E c \in Cmms :
       /\ refs[c] = 0
       /\ refs' = [refs EXCEPT ![c] = 1]
       /\ PushCall(th, [cmm |-> c, left |-> 0, calling |-> FALSE, at |-> "store"])
  /\ UNCHANGED <<table, nextHandle, lock, made, since>>

Rotated(h) == IF h = MaxHandle THEN MinHandle ELSE h + 1
\* Fault: the lowest free handle is taken.
FromLowest(h) == h - MinHandle
\* How far behind the next handle h is, going round.
Ahead(h) == (h - nextHandle) % (MaxHandle - MinHandle + 1)
\* The attempts of StoreTransform end at the first handle that is not in use.
FreeHandle(h) ==
  /\ h \in Handles \ DOMAIN table
  /\ \A k \in Handles \ DOMAIN table : Ahead(h) <= Ahead(k)

\* Fault: off by one.
TableOverfull == Cardinality(DOMAIN table) > Limit
TableFull == Cardinality(DOMAIN table) >= Limit

StoreTransform(th) ==
  /\ RunsAt(th, "store")
  /\ ~TableFull
  /\ LET c == Top(th).cmm
     IN  \E h \in Handles :
           /\ FreeHandle(h)
           /\ table' = [k \in DOMAIN table \cup {h} |->
                          IF k = h THEN c ELSE table[k]]
           /\ nextHandle' = Rotated(h)
           /\ refs' = [refs EXCEPT ![c] = @ + 1]
           /\ since' = [k \in Handles |->
                          IF k = h THEN 0
                          ELSE IF since[k] < Spare
                               THEN since[k] + 1 ELSE since[k]]
  /\ GoTo(th, "drop")
  /\ UNCHANGED <<lock, depth, made>>

StoreRefused(th) ==
  /\ RunsAt(th, "store")
  /\ TableFull
  /\ GoTo(th, "drop")
  /\ UNCHANGED <<table, nextHandle, refs, lock, depth, made, since>>

(* CMDeleteTransform *)

\* The table's reference is moved to the call, which drops it after the region.
Delete(th) ==
  /\ MayCall(th)
  /\ \E h \in DOMAIN table :
       /\ PushCall(th, [cmm |-> table[h], left |-> 0, calling |-> FALSE,
                        at |-> "drop"])
       /\ table' = Restrict(table, DOMAIN table \ {h})
  /\ UNCHANGED <<nextHandle, refs, lock, made, since>>

(* Use: CMTranslateRGBsExt and CMCheckRGBs, with a callback or not, and    *)
(* CMTranslateColors, CMTranslateRGB, CMCheckColors(InGamut), without one  *)

\* The call gets its own copy of the reference in the table.
\* Fault: it uses the table's.
Borrowed(c) == refs
Shared(c) == [refs EXCEPT ![c] = @ + 1]
\* FindTransform succeeds.  (A call of no rows goes the way of one whose types
\* are refused; one whose arguments are refused before the lock only drops.)
Find(th) ==
  /\ MayCall(th)
  /\ made < MaxCalls
  /\ \E h \in DOMAIN table, rows \in 1..MaxRows, calling \in BOOLEAN :
       /\ PushCall(th, [cmm |-> table[h], left |-> rows, calling |-> calling,
                        at |-> "enter"])
       /\ refs' = Shared(table[h])
  /\ made' = made + 1
  /\ UNCHANGED <<table, nextHandle, lock, since>>

\* The lock, then the check of the colour types.
Enter(th) ==
  /\ RunsAt(th, "enter")
  /\ MayLock(th, Top(th).cmm)
  /\ lock' = Locked(th, Top(th).cmm)
  /\ \E valid \in BOOLEAN :
       GoTo(th, IF valid THEN "body" ELSE "leave")
  /\ UNCHANGED <<table, nextHandle, refs, depth, made, since>>

\* A pixel or its type is refused.
RowFails(th) ==
  /\ RunsAt(th, "body")
  /\ GoTo(th, "leave")
  /\ UNCHANGED <<table, nextHandle, refs, lock, depth, made, since>>

\* The last row of a call without a callback ends it.
RowDone(th) ==
  /\ RunsAt(th, "body")
  /\ ~Top(th).calling
  /\ RowOver(th, IF Top(th).left = 1 THEN "leave" ELSE "body")
  /\ UNCHANGED <<table, nextHandle, refs, lock, depth, made, since>>

\* Fault: the callback runs with the lock held.
StillLocked(c) == lock
\* Only the callback is outside the lock.
LockAroundCallback(c) == Unlocked(c)
RowReported(th) ==
  /\ RunsAt(th, "body")
  /\ Top(th).calling
  /\ lock' = LockAroundCallback(Top(th).cmm)
  /\ RowOver(th, "callback")
  /\ UNCHANGED <<table, nextHandle, refs, depth, made, since>>

\* The client's function returns whether to go on.
CallbackReturns(th) ==
  /\ RunsAt(th, "callback")
  /\ \E keepGoing \in BOOLEAN : GoTo(th, IF keepGoing THEN "resume" ELSE "cancel")
  /\ UNCHANGED <<table, nextHandle, refs, lock, depth, made, since>>

AfterCallback(f) == IF f.at = "resume" /\ f.left > 0 THEN "body" ELSE "leave"
Resume(th) ==
  /\ RunsAt(th, "resume") \/ RunsAt(th, "cancel")
  /\ MayLock(th, Top(th).cmm)
  /\ lock' = Locked(th, Top(th).cmm)
  /\ GoTo(th, AfterCallback(Top(th)))
  /\ UNCHANGED <<table, nextHandle, refs, depth, made, since>>

\* The locals of the call are destroyed: the lock guard, then the reference.
Leave(th) ==
  /\ RunsAt(th, "leave")
  /\ lock' = Unlocked(Top(th).cmm)
  /\ GoTo(th, "drop")
  /\ UNCHANGED <<table, nextHandle, refs, depth, made, since>>

Drop(th) ==
  /\ RunsAt(th, "drop")
  /\ refs' = [refs EXCEPT ![Top(th).cmm] = @ - 1]
  /\ depth' = [depth EXCEPT ![th] = @ - 1]
  /\ Become(th, NoFrame)
  /\ UNCHANGED <<table, nextHandle, lock, made, since>>
-----------------------------------------------------------------------------
Start(th) == Create(th) \/ Delete(th) \/ Find(th)
Proceed(th) ==
  \/ StoreTransform(th) \/ StoreRefused(th)
  \/ Enter(th) \/ RowFails(th) \/ RowDone(th) \/ RowReported(th)
  \/ CallbackReturns(th) \/ Resume(th) \/ Leave(th) \/ Drop(th)

Next == \E th \in Threads : Start(th) \/ Proceed(th)
Spec == Init /\ [][Next]_vars
=============================================================================
