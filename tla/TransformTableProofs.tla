------------------------- MODULE TransformTableProofs -------------------------
(***************************************************************************)
(* TransformTable for any number of threads, handles and transforms and    *)
(* any nesting of calls in callbacks.                                      *)
(*                                                                         *)
(* Locks.  Only the call a thread runs can be in a CMM: those below it     *)
(* wait in their callbacks, without a lock.  So a mutex, recursive as it   *)
(* is, is never held more than once, its owner is the thread whose running *)
(* call is in that CMM, and a thread that asks for a mutex holds none.     *)
(*                                                                         *)
(* References.  A step changes the running call of a thread, adds a call   *)
(* on top or removes it, and the count of a transform follows the set of   *)
(* handles that name it and the set of calls that use it.                  *)
(*                                                                         *)
(* Clients.  So what exists is what TransformCalls says does, and each     *)
(* step is one of its steps or changes nothing clients see.                *)
(*                                                                         *)
(* Handles.  The handles issued before h, or in use, are at most as many   *)
(* as were stored since h was issued, and those that were in use then.     *)
(* When h comes round they are all the others.                             *)
(***************************************************************************)
EXTENDS TransformTableInv, TLAPS, FiniteSetTheorems, SequenceTheorems

Positions == 1..MaxDepth
\* Frames, without their bound on the rows.
Calling == [cmm : Cmms \cup {NoCmm}, left : Int, calling : BOOLEAN, at : Places]

Types ==
  /\ depth \in [Threads -> 0..MaxDepth]
  /\ frame \in [Threads -> [Positions -> Calling]]
  /\ lock \in [Cmms -> [owner : Threads \cup {Nobody}, count : Nat]]
\* What a handle names, and what a call uses, is a transform.
TableNames == \A h \in DOMAIN table : table[h] \in Cmms
CallsUse ==
  \A th \in Threads, d \in Positions : d <= depth[th] => frame[th][d].cmm \in Cmms
\* Calls that do not run are in their callbacks.
OthersInCallback ==
  \A th \in Threads, d \in Positions :
    d < depth[th] => frame[th][d].at = "callback"
HeldOnce == \A c \in Cmms : lock[c].count = IF lock[c].owner = Nobody THEN 0 ELSE 1
InCmm(th, c) == depth[th] > 0 /\ Top(th).cmm = c /\ Top(th).at \in Holding
OwnerInCmm == \A th \in Threads, c \in Cmms : lock[c].owner = th <=> InCmm(th, c)

CallInv == Types /\ CallsUse /\ OthersInCallback /\ HeldOnce /\ OwnerInCmm
LockInv == TableNames /\ CallInv
-----------------------------------------------------------------------------
(* The steps, by what they do to the calls of a thread and to the locks.   *)

\* The running call of th becomes f.
Becomes(th, f) ==
  /\ depth[th] > 0
  /\ f \in Calling /\ f.cmm = Top(th).cmm
  /\ depth' = depth
  /\ frame' = [frame EXCEPT ![th] = [frame[th] EXCEPT ![depth[th]] = f]]

Pushes(th, f) ==
  /\ MayCall(th)
  /\ f \in Calling /\ f.cmm \in Cmms /\ f.at \notin Holding
  /\ depth' = [depth EXCEPT ![th] = @ + 1]
  /\ frame' = [frame EXCEPT ![th] = [frame[th] EXCEPT ![depth[th] + 1] = f]]
  /\ lock' = lock
Moves(th, f) ==
  /\ Becomes(th, f)
  /\ f.at \in Holding <=> Top(th).at \in Holding
  /\ lock' = lock
Acquires(th, f) ==
  /\ Becomes(th, f)
  /\ Top(th).at \notin Holding /\ f.at \in Holding
  /\ MayLock(th, f.cmm)
  /\ lock' = Locked(th, f.cmm)
Releases(th, f) ==
  /\ Becomes(th, f)
  /\ Top(th).at \in Holding /\ f.at \notin Holding
  /\ lock' = Unlocked(f.cmm)
Pops(th) ==
  /\ depth[th] > 0 /\ Top(th).at \notin Holding
  /\ depth' = [depth EXCEPT ![th] = @ - 1]
  /\ \E f \in Calling :
       frame' = [frame EXCEPT ![th] = [frame[th] EXCEPT ![depth[th]] = f]]
  /\ lock' = lock

LEMMA TopIsCall ==
  ASSUME Types, NEW th \in Threads, depth[th] > 0
  PROVE  Top(th) \in Calling /\ depth[th] \in Positions
BY ClientsAssumption DEF Types, Top, Positions

LEMMA TopUsesCmm ==
  ASSUME CallInv, NEW th \in Threads, depth[th] > 0
  PROVE  Top(th) \in Calling /\ Top(th).cmm \in Cmms /\ depth[th] \in Positions
<1>1. Top(th) \in Calling /\ depth[th] \in Positions
  BY TopIsCall DEF CallInv
<1>2. Top(th).cmm \in Cmms
  BY <1>1 DEF CallInv, CallsUse, Top, Positions
<1> QED
  BY <1>1, <1>2

LEMMA MoveBecomes ==
  ASSUME Types, NEW th \in Threads, depth[th] > 0, NEW f \in Calling,
         f.cmm = Top(th).cmm, Become(th, f), depth' = depth
  PROVE  Becomes(th, f)
BY DEF Become, Becomes, Types

\* A call that only moves on becomes itself at another place.
LEMMA GoesTo ==
  ASSUME Types, NEW th \in Threads, depth[th] > 0, NEW place \in Places,
         GoTo(th, place), depth' = depth
  PROVE  \E f \in Calling : f.at = place /\ Becomes(th, f)
<1> DEFINE f == [Top(th) EXCEPT !.at = place]
<1>1. Top(th) \in Calling
  BY TopIsCall
<1>2. f \in Calling /\ f.at = place /\ f.cmm = Top(th).cmm
  BY <1>1 DEF Calling
<1>3. Become(th, f)
  BY DEF GoTo
<1> HIDE DEF f
<1> QED
  BY <1>2, <1>3, MoveBecomes

LEMMA CallUpdated ==
  ASSUME NEW call \in Calling, NEW n \in Int, NEW place \in Places
  PROVE  /\ [call EXCEPT !.left = n, !.at = place] \in Calling
         /\ [call EXCEPT !.left = n, !.at = place].at = place
         /\ [call EXCEPT !.left = n, !.at = place].cmm = call.cmm
BY DEF Calling

LEMMA RowCounted ==
  ASSUME Types, NEW th \in Threads, depth[th] > 0, NEW place \in Places,
         RowOver(th, place), depth' = depth
  PROVE  \E f \in Calling : f.at = place /\ Becomes(th, f)
<1> DEFINE f == [Top(th) EXCEPT !.left = Top(th).left - 1, !.at = place]
<1>1. Top(th) \in Calling
  BY TopIsCall
<1>2. f \in Calling /\ f.at = place /\ f.cmm = Top(th).cmm
  <2>1. Top(th).left - 1 \in Int
    BY <1>1 DEF Calling
  <2> QED
    BY <1>1, <2>1, CallUpdated
<1>3. Become(th, f)
  BY DEF RowOver
<1> HIDE DEF f
<1> QED
  BY <1>2, <1>3, MoveBecomes
-----------------------------------------------------------------------------
(* Each kind of step keeps the invariant of the calls and the locks.       *)

\* Replacing the running call leaves all others, and where it stands, alone.
LEMMA BecomesKeeps ==
  ASSUME CallInv, NEW th \in Threads, NEW f, Becomes(th, f)
  PROVE  /\ depth' \in [Threads -> 0..MaxDepth]
         /\ frame' \in [Threads -> [Positions -> Calling]]
         /\ CallsUse' /\ OthersInCallback'
         /\ \A u \in Threads, c \in Cmms :
              InCmm(u, c)' <=> IF u = th THEN f.cmm = c /\ f.at \in Holding
                               ELSE InCmm(u, c)
<1> USE DEF CallInv, Becomes
<1>0. depth[th] \in Positions /\ f \in Calling
  BY TopIsCall
<1>1. depth' \in [Threads -> 0..MaxDepth]
  BY DEF Types
<1>2. frame' \in [Threads -> [Positions -> Calling]]
  BY <1>0 DEF Types
<1>3. /\ \A u \in Threads \ {th} : frame'[u] = frame[u]
      /\ \A d \in Positions :
           frame'[th][d] = IF d = depth[th] THEN f ELSE frame[th][d]
  BY <1>0 DEF Types
<1>4. f.cmm \in Cmms
  BY TopUsesCmm
<1>5. CallsUse'
  BY <1>3, <1>4 DEF CallsUse
<1>6. OthersInCallback'
  BY <1>0, <1>3 DEF OthersInCallback, Positions, Types
<1>7. ASSUME NEW u \in Threads, NEW c \in Cmms
      PROVE  InCmm(u, c)' <=> IF u = th THEN f.cmm = c /\ f.at \in Holding
                              ELSE InCmm(u, c)
  BY <1>0, <1>3 DEF InCmm, Top, Types, Positions
<1> QED
  BY <1>1, <1>2, <1>5, <1>6, <1>7

LEMMA MovesKeeps ==
  ASSUME CallInv, NEW th \in Threads, NEW f, Moves(th, f)
  PROVE  CallInv'
<1>1. Becomes(th, f) /\ lock' = lock /\ (f.at \in Holding <=> Top(th).at \in Holding)
  BY DEF Moves
<1>2. Types' /\ CallsUse' /\ OthersInCallback' /\ HeldOnce'
  BY <1>1, BecomesKeeps DEF CallInv, Types, HeldOnce
<1>3. \A u \in Threads, c \in Cmms : InCmm(u, c)' <=> InCmm(u, c)
  <2>1. \A u \in Threads, c \in Cmms :
          InCmm(u, c)' <=> IF u = th THEN f.cmm = c /\ f.at \in Holding
                           ELSE InCmm(u, c)
    BY <1>1, BecomesKeeps
  <2>2. \A c \in Cmms : InCmm(th, c) <=> f.cmm = c /\ f.at \in Holding
    BY <1>1 DEF InCmm, Becomes
  <2> QED
    BY <2>1, <2>2
<1>4. OwnerInCmm'
  BY <1>1, <1>3 DEF OwnerInCmm, CallInv
<1> QED
  BY <1>2, <1>4 DEF CallInv

\* A thread that may have a mutex and is in no CMM finds it free.
LEMMA AcquiresKeeps ==
  ASSUME CallInv, NEW th \in Threads, NEW f, Acquires(th, f)
  PROVE  CallInv'
<1>1. /\ Becomes(th, f) /\ Top(th).at \notin Holding /\ f.at \in Holding
      /\ MayLock(th, f.cmm) /\ lock' = Locked(th, f.cmm)
  BY DEF Acquires
<1>2. f.cmm \in Cmms /\ Nobody \notin Threads
  BY <1>1, TopUsesCmm, ClientsAssumption DEF Becomes
<1>3. lock[f.cmm].owner = Nobody /\ lock[f.cmm].count = 0
  BY <1>1, <1>2 DEF MayLock, CallInv, OwnerInCmm, InCmm, HeldOnce
<1>4. /\ lock' \in [Cmms -> [owner : Threads \cup {Nobody}, count : Nat]]
      /\ \A c \in Cmms \ {f.cmm} : lock'[c] = lock[c]
      /\ lock'[f.cmm].owner = th /\ lock'[f.cmm].count = 1
  BY <1>1, <1>2, <1>3 DEF Locked, CallInv, Types
<1>5. Types' /\ CallsUse' /\ OthersInCallback'
  BY <1>1, <1>4, BecomesKeeps DEF Types
<1>6. HeldOnce'
  BY <1>2, <1>4 DEF HeldOnce, CallInv
<1>7. \A c \in Cmms : ~InCmm(th, c)
  BY <1>1 DEF InCmm
<1>8. \A u \in Threads, c \in Cmms :
        InCmm(u, c)' <=> IF u = th THEN f.cmm = c ELSE InCmm(u, c)
  BY <1>1, BecomesKeeps
<1>9. OwnerInCmm'
  BY <1>2, <1>3, <1>4, <1>7, <1>8 DEF OwnerInCmm, CallInv
<1> QED
  BY <1>5, <1>6, <1>9 DEF CallInv

\* The mutex is held once, so one unlock frees it.
LEMMA ReleasesKeeps ==
  ASSUME CallInv, NEW th \in Threads, NEW f, Releases(th, f)
  PROVE  CallInv'
<1>1. /\ Becomes(th, f) /\ Top(th).at \in Holding /\ f.at \notin Holding
      /\ lock' = Unlocked(f.cmm)
  BY DEF Releases
<1>2. f.cmm \in Cmms /\ Nobody \notin Threads
  BY <1>1, TopUsesCmm, ClientsAssumption DEF Becomes
<1>3. lock[f.cmm].owner = th /\ lock[f.cmm].count = 1
  BY <1>1, <1>2 DEF CallInv, OwnerInCmm, InCmm, HeldOnce, Becomes
<1>4. /\ lock' \in [Cmms -> [owner : Threads \cup {Nobody}, count : Nat]]
      /\ \A c \in Cmms \ {f.cmm} : lock'[c] = lock[c]
      /\ lock'[f.cmm].owner = Nobody /\ lock'[f.cmm].count = 0
  BY <1>1, <1>2, <1>3 DEF Unlocked, CallInv, Types
<1>5. Types' /\ CallsUse' /\ OthersInCallback'
  BY <1>1, <1>4, BecomesKeeps DEF Types
<1>6. HeldOnce'
  BY <1>2, <1>4 DEF HeldOnce, CallInv
<1>7. \A c \in Cmms : InCmm(th, c) <=> c = f.cmm
  BY <1>1 DEF InCmm, Becomes
<1>8. \A u \in Threads, c \in Cmms :
        InCmm(u, c)' <=> u # th /\ InCmm(u, c)
  BY <1>1, BecomesKeeps
<1>9. OwnerInCmm'
  BY <1>2, <1>3, <1>4, <1>7, <1>8 DEF OwnerInCmm, CallInv
<1> QED
  BY <1>5, <1>6, <1>9 DEF CallInv

\* A call is only made outside all CMMs.
LEMMA PushesKeeps ==
  ASSUME CallInv, NEW th \in Threads, NEW f, Pushes(th, f)
  PROVE  CallInv'
<1> USE DEF CallInv
<1> DEFINE n == depth[th] + 1
<1>1. n \in Positions /\ depth[th] \in 0..MaxDepth /\ f \in Calling
  BY ClientsAssumption DEF Pushes, MayCall, Types, Positions
<1>2. /\ \A u \in Threads \ {th} : depth'[u] = depth[u] /\ frame'[u] = frame[u]
      /\ depth'[th] = n
      /\ \A d \in Positions : frame'[th][d] = IF d = n THEN f ELSE frame[th][d]
  BY <1>1 DEF Pushes, Types
<1>3. Types'
  BY <1>1 DEF Pushes, Types, Positions
<1>4. CallsUse'
  BY <1>1, <1>2 DEF CallsUse, Pushes, Positions
<1>5. OthersInCallback'
  <2>1. depth[th] > 0 => frame[th][depth[th]].at = "callback"
    BY <1>1 DEF Pushes, MayCall, RunsAt, Top
  <2> QED
    BY <1>1, <1>2, <2>1 DEF OthersInCallback, Positions
<1>6. HeldOnce'
  BY DEF HeldOnce, Pushes
<1>7. \A c \in Cmms : ~InCmm(th, c)
  BY <1>1 DEF Pushes, MayCall, RunsAt, InCmm, Holding
<1>8. \A u \in Threads, c \in Cmms : InCmm(u, c)' <=> InCmm(u, c)
  <2>1. \A c \in Cmms : ~InCmm(th, c)'
    BY <1>1, <1>2 DEF InCmm, Top, Pushes
  <2> QED
    BY <1>2, <1>7, <2>1 DEF InCmm, Top
<1>9. OwnerInCmm'
  BY <1>8 DEF OwnerInCmm, Pushes
<1> QED
  BY <1>3, <1>4, <1>5, <1>6, <1>9

\* The call below, if there is one, is in its callback.
LEMMA PopsKeeps ==
  ASSUME CallInv, NEW th \in Threads, Pops(th)
  PROVE  CallInv'
<1> USE DEF CallInv
<1> DEFINE n == depth[th]
<1>1. n \in Positions /\ n > 0 /\ n \in Nat
  BY TopIsCall DEF Pops, Positions
<1>2. PICK f \in Calling :
        frame' = [frame EXCEPT ![th] = [frame[th] EXCEPT ![n] = f]]
  BY DEF Pops
<1>3. /\ \A u \in Threads \ {th} : depth'[u] = depth[u] /\ frame'[u] = frame[u]
      /\ depth'[th] = n - 1
      /\ \A d \in Positions : d # n => frame'[th][d] = frame[th][d]
  BY <1>1, <1>2 DEF Pops, Types
<1>4. Types'
  <2>1. n - 1 \in 0..MaxDepth
    BY <1>1, ClientsAssumption DEF Positions
  <2>2. depth' \in [Threads -> 0..MaxDepth]
    BY <2>1 DEF Pops, Types
  <2>3. frame' \in [Threads -> [Positions -> Calling]]
    BY <1>1, <1>2 DEF Types
  <2> QED
    BY <2>2, <2>3 DEF Pops, Types
<1>5. CallsUse'
  BY <1>1, <1>3 DEF CallsUse, Positions
<1>6. OthersInCallback'
  BY <1>1, <1>3 DEF OthersInCallback, Positions
<1>7. HeldOnce'
  BY DEF HeldOnce, Pops
<1>8. \A u \in Threads, c \in Cmms : InCmm(u, c)' <=> InCmm(u, c)
  <2>1. n - 1 > 0 => n - 1 \in Positions /\ frame'[th][n - 1].at = "callback"
    <3>1. n - 1 > 0 => n - 1 \in Positions
      BY <1>1, ClientsAssumption DEF Positions
    <3> QED
      BY <1>1, <1>3, <3>1 DEF OthersInCallback
  <2>2. \A c \in Cmms : ~InCmm(th, c)
    BY DEF InCmm, Pops
  <2>3. \A c \in Cmms : ~InCmm(th, c)'
    BY <1>1, <1>3, <2>1 DEF InCmm, Top, Holding
  <2> QED
    BY <1>3, <2>2, <2>3 DEF InCmm, Top
<1>9. OwnerInCmm'
  BY <1>8 DEF OwnerInCmm, Pops
<1> QED
  BY <1>4, <1>5, <1>6, <1>7, <1>9
-----------------------------------------------------------------------------
(* Every action is a step of one of these kinds.                           *)

LEMMA NewCallPushes ==
  ASSUME Types, NEW th \in Threads, MayCall(th), NEW c \in Cmms, NEW n \in Int,
         NEW calling \in BOOLEAN, NEW place \in Places \ Holding,
         PushCall(th, [cmm |-> c, left |-> n, calling |-> calling, at |-> place]),
         lock' = lock
  PROVE  Pushes(th, [cmm |-> c, left |-> n, calling |-> calling, at |-> place])
<1> DEFINE f == [cmm |-> c, left |-> n, calling |-> calling, at |-> place]
<1>1. f \in Calling /\ f.cmm \in Cmms /\ f.at \notin Holding
  BY DEF Calling
<1>2. PushCall(th, f)
  OBVIOUS
<1> HIDE DEF f
<1>3. Pushes(th, f)
  BY <1>1, <1>2 DEF Pushes, PushCall
<1> QED
  BY <1>3 DEF f

LEMMA StartKeeps ==
  ASSUME LockInv, NEW th \in Threads, Start(th)
  PROVE  LockInv'
<1>0. CallInv /\ Types
  BY DEF LockInv, CallInv
<1>01. 0 \in Int /\ FALSE \in BOOLEAN
  OBVIOUS
<1>1. CASE Create(th)
  <2>1. \E c \in Cmms :
          Pushes(th, [cmm |-> c, left |-> 0, calling |-> FALSE, at |-> "store"])
    <3>1. PICK c \in Cmms :
            PushCall(th, [cmm |-> c, left |-> 0, calling |-> FALSE, at |-> "store"])
      BY <1>1 DEF Create
    <3>2. "store" \in Places \ Holding /\ MayCall(th) /\ lock' = lock
      BY <1>1 DEF Create, Places, Holding
    <3>3. Pushes(th, [cmm |-> c, left |-> 0, calling |-> FALSE, at |-> "store"])
      BY <1>0, <3>1, <3>2, NewCallPushes, <1>01, Zenon
    <3> QED
      BY <3>3
  <2>2. TableNames'
    BY <1>1 DEF Create, TableNames, LockInv
  <2> QED
    BY <1>0, <2>1, <2>2, PushesKeeps DEF LockInv
<1>2. CASE Delete(th)
  <2>1. \E h \in DOMAIN table :
          /\ Pushes(th, [cmm |-> table[h], left |-> 0, calling |-> FALSE,
                         at |-> "drop"])
          /\ table' = Restrict(table, DOMAIN table \ {h})
    <3>1. PICK h \in DOMAIN table :
            /\ PushCall(th, [cmm |-> table[h], left |-> 0, calling |-> FALSE,
                             at |-> "drop"])
            /\ table' = Restrict(table, DOMAIN table \ {h})
      BY <1>2 DEF Delete
    <3>2. "drop" \in Places \ Holding /\ MayCall(th) /\ lock' = lock
      BY <1>2 DEF Delete, Places, Holding
    <3>3. table[h] \in Cmms
      BY DEF LockInv, TableNames
    <3>4. Pushes(th, [cmm |-> table[h], left |-> 0, calling |-> FALSE,
                      at |-> "drop"])
      BY <1>0, <3>1, <3>2, <3>3, NewCallPushes, <1>01, Zenon
    <3> QED
      BY <3>1, <3>4
  <2>2. TableNames'
    BY <2>1 DEF TableNames, Restrict, LockInv
  <2> QED
    BY <1>0, <2>1, <2>2, PushesKeeps DEF LockInv
<1>3. CASE Find(th)
  <2>1. \E h \in DOMAIN table, rows \in 1..MaxRows, calling \in BOOLEAN :
          Pushes(th, [cmm |-> table[h], left |-> rows, calling |-> calling,
                      at |-> "enter"])
    BY <1>0, <1>3, NewCallPushes, ClientsAssumption
       DEF Find, Places, Holding, LockInv, TableNames
  <2>2. TableNames'
    BY <1>3 DEF Find, TableNames, LockInv
  <2> QED
    BY <1>0, <2>1, <2>2, PushesKeeps DEF LockInv
<1> QED
  BY <1>1, <1>2, <1>3 DEF Start

\* A call that goes to a place on the same side of the lock.
LEMMA GoKeeps ==
  ASSUME CallInv, NEW th \in Threads, depth[th] > 0, NEW place \in Places,
         GoTo(th, place) \/ RowOver(th, place), depth' = depth, lock' = lock,
         place \in Holding <=> Top(th).at \in Holding
  PROVE  CallInv'
<1>1. PICK f \in Calling : f.at = place /\ Becomes(th, f)
  BY GoesTo, RowCounted DEF CallInv
<1> QED
  BY <1>1, MovesKeeps DEF Moves

LEMMA LockedKeeps ==
  ASSUME CallInv, NEW th \in Threads, depth[th] > 0, NEW place \in Holding,
         GoTo(th, place), depth' = depth, Top(th).at \notin Holding,
         MayLock(th, Top(th).cmm), lock' = Locked(th, Top(th).cmm)
  PROVE  CallInv'
<1>1. PICK f \in Calling : f.at = place /\ Becomes(th, f)
  BY GoesTo DEF CallInv, Holding, Places
<1>2. f.cmm = Top(th).cmm
  BY <1>1 DEF Becomes
<1> QED
  BY <1>1, <1>2, AcquiresKeeps DEF Acquires

LEMMA UnlockedKeeps ==
  ASSUME CallInv, NEW th \in Threads, depth[th] > 0, NEW place \in Places \ Holding,
         GoTo(th, place) \/ RowOver(th, place), depth' = depth,
         Top(th).at \in Holding, lock' = Unlocked(Top(th).cmm)
  PROVE  CallInv'
<1>1. PICK f \in Calling : f.at = place /\ Becomes(th, f)
  BY GoesTo, RowCounted DEF CallInv
<1>2. f.cmm = Top(th).cmm
  BY <1>1 DEF Becomes
<1> QED
  BY <1>1, <1>2, ReleasesKeeps DEF Releases

LEMMA ProceedKeeps ==
  ASSUME LockInv, NEW th \in Threads, Proceed(th)
  PROVE  LockInv'
<1>0. CallInv /\ TableNames
  BY DEF LockInv
<1>1. CASE StoreTransform(th)
  <2>1. RunsAt(th, "store") /\ GoTo(th, "drop") /\ lock' = lock /\ depth' = depth
    BY <1>1 DEF StoreTransform
  <2>2. CallInv'
    BY <1>0, <2>1, GoKeeps DEF RunsAt, Places, Holding
  <2>3. Top(th).cmm \in Cmms
    BY <1>0, <2>1, TopUsesCmm DEF RunsAt
  <2>4. TableNames'
    BY <1>0, <1>1, <2>3 DEF StoreTransform, TableNames
  <2> QED
    BY <2>2, <2>4 DEF LockInv
<1>2. CASE StoreRefused(th)
  <2>1. RunsAt(th, "store") /\ GoTo(th, "drop") /\ lock' = lock /\ depth' = depth
    BY <1>2 DEF StoreRefused
  <2>2. CallInv'
    BY <1>0, <2>1, GoKeeps DEF RunsAt, Places, Holding
  <2> QED
    BY <1>0, <1>2, <2>2 DEF StoreRefused, LockInv, TableNames
<1>3. CASE Enter(th)
  <2>1. PICK valid \in BOOLEAN : GoTo(th, IF valid THEN "body" ELSE "leave")
    BY <1>3 DEF Enter
  <2>2. /\ RunsAt(th, "enter") /\ depth' = depth /\ MayLock(th, Top(th).cmm)
        /\ lock' = Locked(th, Top(th).cmm)
    BY <1>3 DEF Enter
  <2>3. CallInv'
    BY <1>0, <2>1, <2>2, LockedKeeps DEF RunsAt, Holding
  <2> QED
    BY <1>0, <1>3, <2>3 DEF Enter, LockInv, TableNames
<1>4. CASE RowFails(th)
  <2>1. RunsAt(th, "body") /\ GoTo(th, "leave") /\ lock' = lock /\ depth' = depth
    BY <1>4 DEF RowFails
  <2>2. CallInv'
    BY <1>0, <2>1, GoKeeps DEF RunsAt, Places, Holding
  <2> QED
    BY <1>0, <1>4, <2>2 DEF RowFails, LockInv, TableNames
<1>5. CASE RowDone(th)
  <2>1. /\ RunsAt(th, "body") /\ lock' = lock /\ depth' = depth
        /\ RowOver(th, "leave") \/ RowOver(th, "body")
    BY <1>5 DEF RowDone
  <2>2. CallInv'
    BY <1>0, <2>1, GoKeeps DEF RunsAt, Places, Holding
  <2> QED
    BY <1>0, <1>5, <2>2 DEF RowDone, LockInv, TableNames
<1>6. CASE RowReported(th)
  <2>1. /\ RunsAt(th, "body") /\ depth' = depth /\ RowOver(th, "callback")
        /\ lock' = Unlocked(Top(th).cmm)
    BY <1>6 DEF RowReported, LockAroundCallback
  <2>2. CallInv'
    BY <1>0, <2>1, UnlockedKeeps DEF RunsAt, Places, Holding
  <2> QED
    BY <1>0, <1>6, <2>2 DEF RowReported, LockInv, TableNames
<1>7. CASE CallbackReturns(th)
  <2>1. /\ RunsAt(th, "callback") /\ lock' = lock /\ depth' = depth
        /\ GoTo(th, "resume") \/ GoTo(th, "cancel")
    BY <1>7 DEF CallbackReturns
  <2>2. CallInv'
    BY <1>0, <2>1, GoKeeps DEF RunsAt, Places, Holding
  <2> QED
    BY <1>0, <1>7, <2>2 DEF CallbackReturns, LockInv, TableNames
<1>8. CASE Resume(th)
  <2>1. /\ RunsAt(th, "resume") \/ RunsAt(th, "cancel")
        /\ depth' = depth /\ MayLock(th, Top(th).cmm)
        /\ lock' = Locked(th, Top(th).cmm)
        /\ GoTo(th, "body") \/ GoTo(th, "leave")
    BY <1>8 DEF Resume, AfterCallback
  <2>2. CallInv'
    BY <1>0, <2>1, LockedKeeps DEF RunsAt, Holding
  <2> QED
    BY <1>0, <1>8, <2>2 DEF Resume, LockInv, TableNames
<1>9. CASE Leave(th)
  <2>1. /\ RunsAt(th, "leave") /\ depth' = depth /\ GoTo(th, "drop")
        /\ lock' = Unlocked(Top(th).cmm)
    BY <1>9 DEF Leave
  <2>2. CallInv'
    BY <1>0, <2>1, UnlockedKeeps DEF RunsAt, Places, Holding
  <2> QED
    BY <1>0, <1>9, <2>2 DEF Leave, LockInv, TableNames
<1>10. CASE Drop(th)
  <2>1. NoFrame \in Calling
    BY DEF NoFrame, Calling, Places
  <2>2. Pops(th)
    <3>1. frame' = [frame EXCEPT ![th] = [frame[th] EXCEPT ![depth[th]] = NoFrame]]
      BY <1>0, <1>10 DEF Drop, Become, CallInv, Types
    <3> QED
      BY <1>10, <2>1, <3>1 DEF Drop, Pops, RunsAt, Holding
  <2> QED
    BY <1>0, <1>10, <2>2, PopsKeeps DEF Drop, LockInv, TableNames
<1> QED
  BY <1>1, <1>2, <1>3, <1>4, <1>5, <1>6, <1>7, <1>8, <1>9, <1>10 DEF Proceed
-----------------------------------------------------------------------------
LEMMA InitHasLockInv == Init => LockInv
<1> SUFFICES ASSUME Init PROVE LockInv
  OBVIOUS
<1>1. NoFrame \in Calling
  BY DEF NoFrame, Calling, Places
<1>2. depth \in [Threads -> 0..MaxDepth] /\ \A th \in Threads : depth[th] = 0
  BY ClientsAssumption DEF Init
<1>3. Types
  BY <1>1, <1>2 DEF Init, Types, Positions
<1>4. CallsUse /\ OthersInCallback
  BY <1>2, ClientsAssumption DEF CallsUse, OthersInCallback, Positions
<1>5. HeldOnce /\ OwnerInCmm
  BY <1>2, ClientsAssumption DEF Init, HeldOnce, OwnerInCmm, InCmm
<1>6. TableNames
  BY DEF Init, TableNames
<1> QED
  BY <1>3, <1>4, <1>5, <1>6 DEF LockInv, CallInv

\* The invariant of the calls and the locks is inductive.
LEMMA LockInvHolds == Spec => []LockInv
<1>1. ASSUME LockInv, [Next]_vars
      PROVE  LockInv'
  <2>1. CASE UNCHANGED vars
    BY <1>1, <2>1 DEF LockInv, CallInv, Types, TableNames, CallsUse,
       OthersInCallback, HeldOnce, OwnerInCmm, InCmm, Top, vars, callVars
  <2> QED
    BY <1>1, <2>1, StartKeeps, ProceedKeeps DEF Next
<1> QED
  BY <1>1, InitHasLockInv, PTL DEF Spec

\* No thread of the ICM module waits for a transform's mutex, or runs a
\* client's callback, while it holds one.
THEOREM CallbacksHoldNoLock == Spec => []NoHoldAndWait
<1>1. LockInv => NoHoldAndWait
  BY DEF LockInv, CallInv, OwnerInCmm, InCmm, NoHoldAndWait
<1> QED
  BY <1>1, LockInvHolds, PTL

\* A CMM is used by one call at a time, however calls nest and interleave.
THEOREM OneCallUsesCmm == Spec => []OneCallInCmm
<1>1. ASSUME LockInv, NEW p \in Calls, NEW q \in Calls,
             CallAt(p).at \in Holding, CallAt(q).at \in Holding,
             CallAt(p).cmm = CallAt(q).cmm
      PROVE  p = q
  <2>1. /\ p[1] \in Threads /\ p[2] \in Positions /\ p = <<p[1], p[2]>>
        /\ q[1] \in Threads /\ q[2] \in Positions /\ q = <<q[1], q[2]>>
        /\ p[2] <= depth[p[1]] /\ q[2] <= depth[q[1]]
    BY DEF Calls, Positions
  <2>2. p[2] = depth[p[1]] /\ q[2] = depth[q[1]]
    <3>1. \A r \in {p, q} : CallAt(r).at # "callback"
      BY <1>1 DEF Holding
    <3>2. depth[p[1]] \in Int /\ depth[q[1]] \in Int /\ p[2] \in Int /\ q[2] \in Int
      BY <1>1, <2>1, ClientsAssumption DEF LockInv, CallInv, Types, Positions
    <3>3. ~(p[2] < depth[p[1]]) /\ ~(q[2] < depth[q[1]])
      BY <1>1, <2>1, <3>1 DEF LockInv, CallInv, OthersInCallback, CallAt
    <3> QED
      BY <2>1, <3>2, <3>3
  <2>3. CallAt(p).cmm \in Cmms
    BY <1>1, <2>1 DEF LockInv, CallInv, CallsUse, CallAt
  <2>4. InCmm(p[1], CallAt(p).cmm) /\ InCmm(q[1], CallAt(p).cmm)
    BY <1>1, <2>1, <2>2, ClientsAssumption DEF InCmm, Top, CallAt, Positions
  <2>5. p[1] = q[1]
    BY <1>1, <2>1, <2>3, <2>4 DEF LockInv, CallInv, OwnerInCmm
  <2> QED
    BY <2>1, <2>2, <2>5
<1>2. LockInv => OneCallInCmm
  BY <1>1 DEF OneCallInCmm
<1> QED
  BY <1>2, LockInvHolds, PTL
-----------------------------------------------------------------------------
(* References                                                              *)

\* A call that has rows to do has at least one.
Owing == {f \in Frames : f.at \in {"enter", "body"} => f.left >= 1}
Named(c) == {h \in DOMAIN table : table[h] = c}
Using(c) == {p \in Calls : CallAt(p).cmm = c}

OtherTypes ==
  /\ table \in [DOMAIN table -> Cmms] /\ DOMAIN table \subseteq Handles
  /\ nextHandle \in Handles
  /\ made \in Nat
  /\ since \in [Handles -> 0..Spare]
FrameTypes == frame \in [Threads -> [Positions -> Owing]]
Counted ==
  /\ refs \in [Cmms -> Nat]
  /\ IsFiniteSet(Calls)
  /\ \A c \in Cmms : refs[c] = Cardinality(Named(c)) + Cardinality(Using(c))
RefInv == LockInv /\ OtherTypes /\ FrameTypes /\ Counted

\* What a step does to the calls of a thread.
Changes(th, f) ==
  /\ depth[th] > 0
  /\ f \in Owing /\ f.cmm = Top(th).cmm
  /\ depth' = depth
  /\ frame' = [frame EXCEPT ![th] = [frame[th] EXCEPT ![depth[th]] = f]]
Adds(th, f) ==
  /\ depth[th] < MaxDepth
  /\ f \in Owing /\ f.cmm \in Cmms
  /\ depth' = [depth EXCEPT ![th] = @ + 1]
  /\ frame' = [frame EXCEPT ![th] = [frame[th] EXCEPT ![depth[th] + 1] = f]]
Removes(th) ==
  /\ depth[th] > 0
  /\ depth' = [depth EXCEPT ![th] = @ - 1]
  /\ frame' = [frame EXCEPT ![th] = [frame[th] EXCEPT ![depth[th]] = NoFrame]]

LEMMA FramesTyped ==
  ASSUME FrameTypes, depth \in [Threads -> 0..MaxDepth], NEW th \in Threads
  PROVE  /\ frame[th] \in [Positions -> Owing]
         /\ depth[th] \in 0..MaxDepth
         /\ depth[th] > 0 => depth[th] \in Positions /\ Top(th) \in Owing
BY ClientsAssumption DEF FrameTypes, Positions, Top

LEMMA CallIsPair ==
  ASSUME NEW p
  PROVE  p \in Calls <=> /\ p = <<p[1], p[2]>> /\ p[1] \in Threads /\ p[2] \in Positions
                         /\ p[2] <= depth[p[1]]
BY DEF Calls, Positions

LEMMA ChangesCalls ==
  ASSUME FrameTypes, depth \in [Threads -> 0..MaxDepth], NEW th \in Threads,
         NEW f, Changes(th, f)
  PROVE  /\ FrameTypes'
         /\ Calls' = Calls
         /\ \A c \in Cmms : Using(c)' = Using(c)
<1>1. depth[th] \in Positions
  BY FramesTyped DEF Changes
<1>2. FrameTypes'
  BY <1>1 DEF Changes, FrameTypes
<1>3. Calls' = Calls
  BY DEF Changes, Calls
<1>4. ASSUME NEW p \in Calls
      PROVE  CallAt(p).cmm' = CallAt(p).cmm
  <2>1. p[1] \in Threads /\ p[2] \in Positions
    BY <1>4, CallIsPair
  <2>2. \A u \in Threads, d \in Positions : frame'[u][d] = IF u = th /\ d = depth[th] THEN f ELSE frame[u][d]
    BY <1>1 DEF Changes, FrameTypes
  <2> QED
    BY <2>1, <2>2 DEF CallAt, Changes, Top
<1> QED
  BY <1>2, <1>3, <1>4 DEF Using

LEMMA AddsCall ==
  ASSUME FrameTypes, depth \in [Threads -> 0..MaxDepth], NEW th \in Threads,
         NEW f, Adds(th, f)
  PROVE  /\ FrameTypes'
         /\ <<th, depth[th] + 1>> \notin Calls
         /\ Calls' = Calls \cup {<<th, depth[th] + 1>>}
         /\ \A c \in Cmms : Using(c)' = IF c = f.cmm THEN Using(c) \cup {<<th, depth[th] + 1>>}
                                                     ELSE Using(c)
<1> DEFINE n == depth[th] + 1
           new == <<th, n>>
<1>1. n \in Positions /\ depth[th] \in 0..MaxDepth
  BY ClientsAssumption DEF Adds, Positions
<1>2. /\ \A u \in Threads, d \in Positions :
            frame'[u][d] = IF u = th /\ d = n THEN f ELSE frame[u][d]
      /\ \A u \in Threads : depth'[u] = IF u = th THEN n ELSE depth[u]
  BY <1>1 DEF Adds, FrameTypes
<1>3. FrameTypes'
  BY <1>1 DEF Adds, FrameTypes
<1>4. new \notin Calls
  BY <1>1 DEF Calls
<1>5. ASSUME NEW p \in Threads \X Positions
      PROVE  p[2] <= depth'[p[1]] <=> p[2] <= depth[p[1]] \/ p = new
  <2>1. p = <<p[1], p[2]>> /\ p[1] \in Threads /\ p[2] \in Positions /\ p[2] \in Int
    BY <1>5 DEF Positions
  <2>2. CASE p[1] = th
    BY <1>1, <1>2, <2>1, <2>2
  <2>3. CASE p[1] # th
    BY <1>2, <2>1, <2>3
  <2> QED
    BY <2>2, <2>3
<1>6. Calls' = Calls \cup {new}
  <2>1. new \in Threads \X Positions
    BY <1>1
  <2> QED
    BY <1>5, <2>1 DEF Calls, Positions
<1>7. \A p \in Calls : CallAt(p)' = CallAt(p)
  <2> SUFFICES ASSUME NEW p \in Calls PROVE CallAt(p)' = CallAt(p)
    OBVIOUS
  <2>1. p = <<p[1], p[2]>> /\ p[1] \in Threads /\ p[2] \in Positions /\ p # new
    BY <1>4, CallIsPair
  <2> QED
    BY <1>2, <2>1 DEF CallAt
<1>8. frame'[new[1]][new[2]] = f
  BY <1>1, <1>2
<1>9. \A c \in Cmms : Using(c)' = IF c = f.cmm THEN Using(c) \cup {new} ELSE Using(c)
  BY <1>6, <1>7, <1>8 DEF Using, CallAt
<1> QED
  BY <1>3, <1>4, <1>6, <1>9

LEMMA RemovesCall ==
  ASSUME FrameTypes, depth \in [Threads -> 0..MaxDepth], NEW th \in Threads,
         Removes(th), NoFrame \in Owing
  PROVE  /\ FrameTypes'
         /\ <<th, depth[th]>> \in Calls
         /\ Calls' = Calls \ {<<th, depth[th]>>}
         /\ \A c \in Cmms : Using(c)' = IF c = Top(th).cmm THEN Using(c) \ {<<th, depth[th]>>}
                                                           ELSE Using(c)
<1> DEFINE n == depth[th]
           old == <<th, n>>
<1>1. n \in Positions /\ n \in Int
  BY FramesTyped DEF Removes, Positions
<1>2. /\ \A u \in Threads, d \in Positions :
            frame'[u][d] = IF u = th /\ d = n THEN NoFrame ELSE frame[u][d]
      /\ \A u \in Threads : depth'[u] = IF u = th THEN n - 1 ELSE depth[u]
  BY <1>1 DEF Removes, FrameTypes
<1>3. FrameTypes'
  BY <1>1 DEF Removes, FrameTypes
<1>4. old \in Calls
  BY <1>1 DEF Calls, Positions
<1>5. ASSUME NEW p \in Threads \X Positions
      PROVE  p[2] <= depth'[p[1]] <=> p[2] <= depth[p[1]] /\ p # old
  <2>1. p = <<p[1], p[2]>> /\ p[1] \in Threads /\ p[2] \in Positions /\ p[2] \in Int
    BY <1>5 DEF Positions
  <2>2. CASE p[1] = th
    BY <1>1, <1>2, <2>1, <2>2
  <2>3. CASE p[1] # th
    BY <1>2, <2>1, <2>3
  <2> QED
    BY <2>2, <2>3
<1>6. Calls' = Calls \ {old}
  BY <1>5 DEF Calls, Positions
<1>7. \A p \in Calls \ {old} : CallAt(p)' = CallAt(p)
  <2> SUFFICES ASSUME NEW p \in Calls \ {old} PROVE CallAt(p)' = CallAt(p)
    OBVIOUS
  <2>1. p = <<p[1], p[2]>> /\ p[1] \in Threads /\ p[2] \in Positions /\ p # old
    BY CallIsPair
  <2> QED
    BY <1>2, <2>1 DEF CallAt
<1>8. CallAt(old) = Top(th)
  BY DEF CallAt, Top
<1>9. \A c \in Cmms : Using(c)' = IF c = Top(th).cmm THEN Using(c) \ {old} ELSE Using(c)
  BY <1>6, <1>7, <1>8 DEF Using
<1> QED
  BY <1>3, <1>4, <1>6, <1>9

LEMMA GoesOn ==
  ASSUME FrameTypes, depth \in [Threads -> 0..MaxDepth], NEW th \in Threads,
         depth[th] > 0, NEW place \in Places,
         place \in {"enter", "body"} => Top(th).left >= 1,
         GoTo(th, place), depth' = depth
  PROVE  Changes(th, [Top(th) EXCEPT !.at = place])
<1> DEFINE f == [Top(th) EXCEPT !.at = place]
<1>1. Top(th) \in Frames
  BY FramesTyped DEF Owing
<1>2. f \in Frames /\ f.at = place /\ f.left = Top(th).left /\ f.cmm = Top(th).cmm
  BY <1>1 DEF Frames
<1>3. f \in Owing
  BY <1>2 DEF Owing
<1>4. Become(th, f)
  BY DEF GoTo
<1> HIDE DEF f
<1>5. Changes(th, f)
  BY <1>2, <1>3, <1>4 DEF Changes, Become, FrameTypes
<1> QED
  BY <1>5 DEF f

LEMMA RowGoesOn ==
  ASSUME FrameTypes, depth \in [Threads -> 0..MaxDepth], NEW th \in Threads,
         depth[th] > 0, NEW place \in Places, Top(th).left >= 1,
         place \in {"enter", "body"} => Top(th).left > 1,
         RowOver(th, place), depth' = depth
  PROVE  Changes(th, [Top(th) EXCEPT !.left = Top(th).left - 1, !.at = place])
<1> DEFINE f == [Top(th) EXCEPT !.left = Top(th).left - 1, !.at = place]
<1>1. Top(th) \in Frames
  BY FramesTyped DEF Owing
<1>2. Top(th).left \in 0..MaxRows
  BY <1>1 DEF Frames
<1>3. Top(th).left - 1 \in 0..MaxRows
  BY <1>2, ClientsAssumption
<1>4. f \in Frames /\ f.at = place /\ f.left = Top(th).left - 1 /\ f.cmm = Top(th).cmm
  BY <1>1, <1>3 DEF Frames
<1>6. Become(th, f)
  BY DEF RowOver
<1> HIDE DEF f
<1>5. f \in Owing
  BY <1>2, <1>4 DEF Owing
<1>7. Changes(th, f)
  BY <1>4, <1>5, <1>6 DEF Changes, Become, FrameTypes
<1> QED
  BY <1>7 DEF f

LEMMA CallAdded ==
  ASSUME FrameTypes, depth \in [Threads -> 0..MaxDepth], NEW th \in Threads,
         MayCall(th), NEW c \in Cmms, NEW rows \in 0..MaxRows, NEW calling \in BOOLEAN,
         NEW place \in Places, place \in {"enter", "body"} => rows >= 1,
         PushCall(th, [cmm |-> c, left |-> rows, calling |-> calling, at |-> place])
  PROVE  Adds(th, [cmm |-> c, left |-> rows, calling |-> calling, at |-> place])
<1> DEFINE f == [cmm |-> c, left |-> rows, calling |-> calling, at |-> place]
<1>1. f \in Owing /\ f.cmm \in Cmms
  BY DEF Owing, Frames
<1>2. PushCall(th, f)
  OBVIOUS
<1> HIDE DEF f
<1>3. Adds(th, f)
  BY <1>1, <1>2 DEF Adds, PushCall, MayCall, FrameTypes
<1> QED
  BY <1>3 DEF f

LEMMA NoFrameOwesNothing == NoFrame \in Owing
BY ClientsAssumption DEF NoFrame, Owing, Frames, Places

LEMMA NamedFinite ==
  ASSUME DOMAIN table \subseteq Handles
  PROVE  /\ IsFiniteSet(DOMAIN table)
         /\ \A c : IsFiniteSet(Named(c)) /\ Cardinality(Named(c)) \in Nat
<1>1. IsFiniteSet(Handles)
  BY HandlesAssumption, FS_Interval DEF Handles
<1>2. IsFiniteSet(DOMAIN table)
  BY <1>1, FS_Subset
<1>3. ASSUME NEW c
      PROVE  IsFiniteSet(Named(c)) /\ Cardinality(Named(c)) \in Nat
  <2>1. Named(c) \in SUBSET Handles
    BY DEF Named
  <2> QED
    BY <1>1, <2>1, FS_Subset, FS_CardinalityType
<1> QED
  BY <1>2, <1>3

LEMMA UsingFinite ==
  ASSUME IsFiniteSet(Calls)
  PROVE  \A c : IsFiniteSet(Using(c)) /\ Cardinality(Using(c)) \in Nat
<1> SUFFICES ASSUME NEW c
             PROVE  IsFiniteSet(Using(c)) /\ Cardinality(Using(c)) \in Nat
  OBVIOUS
<1>1. Using(c) \in SUBSET Calls
  BY DEF Using
<1> QED
  BY <1>1, FS_Subset, FS_CardinalityType

\* One set of references grows, or shrinks, by one, with the count.
LEMMA ChangesCounted ==
  ASSUME RefInv, NEW th \in Threads, NEW f, Changes(th, f),
         refs' = refs, table' = table
  PROVE  FrameTypes' /\ Counted'
<1>1. /\ FrameTypes' /\ Calls' = Calls
      /\ \A c \in Cmms : Using(c)' = Using(c)
  BY ChangesCalls DEF RefInv, LockInv, CallInv, Types
<1>2. \A c \in Cmms : Named(c)' = Named(c)
  BY DEF Named
<1> QED
  BY <1>1, <1>2 DEF RefInv, Counted

LEMMA AddsCounted ==
  ASSUME RefInv, NEW th \in Threads, NEW f, Adds(th, f),
         refs' = [refs EXCEPT ![f.cmm] = @ + 1], table' = table
  PROVE  FrameTypes' /\ Counted'
<1> DEFINE new == <<th, depth[th] + 1>>
<1>1. /\ FrameTypes' /\ new \notin Calls /\ Calls' = Calls \cup {new}
      /\ \A c \in Cmms : Using(c)' = IF c = f.cmm THEN Using(c) \cup {new} ELSE Using(c)
  BY AddsCall DEF RefInv, LockInv, CallInv, Types
<1>2. \A c \in Cmms : Named(c)' = Named(c)
  BY DEF Named
<1>3. refs' \in [Cmms -> Nat] /\ IsFiniteSet(Calls')
  BY <1>1, FS_AddElement DEF RefInv, Counted, Adds
<1>4. \A c \in Cmms : Cardinality(Using(c)') =
        IF c = f.cmm THEN Cardinality(Using(c)) + 1 ELSE Cardinality(Using(c))
  <2>1. \A c \in Cmms : new \notin Using(c)
    BY <1>1 DEF Using
  <2> HIDE DEF new
  <2> QED
    BY <1>1, <2>1, UsingFinite, FS_AddElement DEF RefInv, Counted
<1>5. \A c \in Cmms : Cardinality(Using(c)) \in Nat /\ Cardinality(Named(c)) \in Nat
  BY UsingFinite, NamedFinite DEF RefInv, Counted, OtherTypes
<1>6. \A c \in Cmms : refs'[c] = Cardinality(Named(c)') + Cardinality(Using(c)')
  BY <1>2, <1>4, <1>5 DEF RefInv, Counted
<1> QED
  BY <1>1, <1>3, <1>6 DEF Counted

LEMMA RemovesCounted ==
  ASSUME RefInv, NEW th \in Threads, Removes(th),
         refs' = [refs EXCEPT ![Top(th).cmm] = @ - 1], table' = table
  PROVE  FrameTypes' /\ Counted'
<1> DEFINE old == <<th, depth[th]>>
           g == Top(th).cmm
<1>1. /\ FrameTypes' /\ old \in Calls /\ Calls' = Calls \ {old}
      /\ \A c \in Cmms : Using(c)' = IF c = g THEN Using(c) \ {old} ELSE Using(c)
  BY RemovesCall, NoFrameOwesNothing DEF RefInv, LockInv, CallInv, Types
<1>2. \A c \in Cmms : Named(c)' = Named(c)
  BY DEF Named
<1>3. g \in Cmms /\ old \in Using(g)
  BY <1>1, TopUsesCmm DEF RefInv, LockInv, Removes, Using, CallAt, Top
<1>4. \A c \in Cmms : Cardinality(Using(c)) \in Nat /\ Cardinality(Named(c)) \in Nat
  BY UsingFinite, NamedFinite DEF RefInv, Counted, OtherTypes
<1> HIDE DEF old, g
<1>5. \A c \in Cmms : Cardinality(Using(c)') =
        IF c = g THEN Cardinality(Using(c)) - 1 ELSE Cardinality(Using(c))
  BY <1>1, <1>3, UsingFinite, FS_RemoveElement DEF RefInv, Counted
<1>6. refs[g] \in Nat /\ refs[g] - 1 \in Nat
  <2>1. Cardinality(Using(g)) # 0
    BY <1>3, UsingFinite, FS_EmptySet DEF RefInv, Counted
  <2> QED
    BY <1>3, <1>4, <2>1 DEF RefInv, Counted
<1>7. /\ refs' \in [Cmms -> Nat]
      /\ \A c \in Cmms : refs'[c] = IF c = g THEN refs[c] - 1 ELSE refs[c]
  BY <1>3, <1>6 DEF RefInv, Counted, g
<1>8. IsFiniteSet(Calls')
  BY <1>1, FS_RemoveElement DEF RefInv, Counted
<1>9. \A c \in Cmms : refs'[c] = Cardinality(Named(c)') + Cardinality(Using(c)')
  BY <1>2, <1>4, <1>5, <1>7 DEF RefInv, Counted
<1> QED
  BY <1>1, <1>7, <1>8, <1>9 DEF Counted

LEMMA StoreCounted ==
  ASSUME RefInv, NEW th \in Threads, StoreTransform(th)
  PROVE  FrameTypes' /\ Counted' /\ OtherTypes'
<1> DEFINE g == Top(th).cmm
<1>1. Changes(th, [Top(th) EXCEPT !.at = "drop"])
  BY GoesOn DEF StoreTransform, RunsAt, Places, RefInv, LockInv, CallInv, Types
<1>2. PICK h \in Handles :
        /\ h \notin DOMAIN table
        /\ table' = [k \in DOMAIN table \cup {h} |-> IF k = h THEN g ELSE table[k]]
        /\ nextHandle' = Rotated(h)
        /\ refs' = [refs EXCEPT ![g] = @ + 1]
        /\ since' = [k \in Handles |->
                       IF k = h THEN 0
                       ELSE IF since[k] < Spare THEN since[k] + 1 ELSE since[k]]
  BY DEF StoreTransform, FreeHandle
<1>3. g \in Cmms
  BY TopUsesCmm DEF RefInv, LockInv, StoreTransform, RunsAt
<1> HIDE DEF g
<1>4. /\ FrameTypes' /\ Calls' = Calls
      /\ \A c \in Cmms : Using(c)' = Using(c)
  BY <1>1, ChangesCalls DEF RefInv, LockInv, CallInv, Types
<1>5. \A c \in Cmms : /\ h \notin Named(c)
                      /\ Named(c)' = IF c = g THEN Named(c) \cup {h} ELSE Named(c)
  BY <1>2 DEF Named
<1>6. \A c \in Cmms : Cardinality(Using(c)) \in Nat /\ Cardinality(Named(c)) \in Nat
  BY UsingFinite, NamedFinite DEF RefInv, Counted, OtherTypes
<1>7. \A c \in Cmms : Cardinality(Named(c)') =
        IF c = g THEN Cardinality(Named(c)) + 1 ELSE Cardinality(Named(c))
  <2> SUFFICES ASSUME NEW c \in Cmms
               PROVE  Cardinality(Named(c)') =
                        IF c = g THEN Cardinality(Named(c)) + 1 ELSE Cardinality(Named(c))
    OBVIOUS
  <2>1. IsFiniteSet(Named(c))
    BY NamedFinite DEF RefInv, OtherTypes
  <2>2. Cardinality(Named(c) \cup {h}) = Cardinality(Named(c)) + 1
    BY <1>5, <2>1, FS_AddElement
  <2> QED
    BY <1>5, <2>2
<1>8. /\ refs' \in [Cmms -> Nat]
      /\ \A c \in Cmms : refs'[c] = Cardinality(Named(c)') + Cardinality(Using(c)')
  BY <1>2, <1>3, <1>4, <1>6, <1>7 DEF RefInv, Counted
<1>9. OtherTypes'
  <2>1. Rotated(h) \in Handles
    BY HandlesAssumption DEF Rotated, Handles
  <2>2. since' \in [Handles -> 0..Spare]
    BY <1>2, HandlesAssumption DEF RefInv, OtherTypes, Spare
  <2>3. table' \in [DOMAIN table' -> Cmms] /\ DOMAIN table' \subseteq Handles
    BY <1>2, <1>3 DEF RefInv, OtherTypes
  <2> QED
    BY <1>2, <2>1, <2>2, <2>3 DEF OtherTypes, StoreTransform, RefInv
<1> QED
  BY <1>4, <1>8, <1>9 DEF Counted, RefInv

LEMMA DeleteCounted ==
  ASSUME RefInv, NEW th \in Threads, Delete(th)
  PROVE  FrameTypes' /\ Counted' /\ OtherTypes'
<1>1. PICK h \in DOMAIN table :
        /\ PushCall(th, [cmm |-> table[h], left |-> 0, calling |-> FALSE, at |-> "drop"])
        /\ table' = Restrict(table, DOMAIN table \ {h})
  BY DEF Delete
<1> DEFINE f == [cmm |-> table[h], left |-> 0, calling |-> FALSE, at |-> "drop"]
           new == <<th, depth[th] + 1>>
<1>2. table[h] \in Cmms
  BY DEF RefInv, OtherTypes
<1>3. Adds(th, f) /\ f.cmm = table[h]
  <2>1. /\ 0 \in 0..MaxRows /\ FALSE \in BOOLEAN /\ "drop" \in Places
        /\ "drop" \notin {"enter", "body"} /\ MayCall(th)
    BY ClientsAssumption DEF Places, Delete
  <2>2. FrameTypes /\ depth \in [Threads -> 0..MaxDepth]
    BY DEF RefInv, LockInv, CallInv, Types
  <2>3. Adds(th, f)
    BY <1>1, <1>2, <2>1, <2>2, CallAdded, Zenon
  <2> QED
    BY <2>3
<1> HIDE DEF f
<1>4. /\ FrameTypes' /\ new \notin Calls /\ Calls' = Calls \cup {new}
      /\ \A c \in Cmms : Using(c)' = IF c = table[h] THEN Using(c) \cup {new} ELSE Using(c)
  BY <1>3, AddsCall DEF RefInv, LockInv, CallInv, Types
<1>5. \A c \in Cmms : new \notin Using(c)
  BY <1>4 DEF Using
<1> HIDE DEF new
<1>6. table' = [k \in DOMAIN table \ {h} |-> table[k]]
  BY <1>1 DEF Restrict
<1>7. \A c \in Cmms : /\ Named(c)' = IF c = table[h] THEN Named(c) \ {h} ELSE Named(c)
                      /\ c = table[h] => h \in Named(c)
  BY <1>6 DEF Named
<1>8. \A c \in Cmms : Cardinality(Using(c)) \in Nat /\ Cardinality(Named(c)) \in Nat
  BY UsingFinite, NamedFinite DEF RefInv, Counted, OtherTypes
<1>9. \A c \in Cmms : Cardinality(Using(c)') =
        IF c = table[h] THEN Cardinality(Using(c)) + 1 ELSE Cardinality(Using(c))
  <2> SUFFICES ASSUME NEW c \in Cmms
               PROVE  Cardinality(Using(c)') =
                        IF c = table[h] THEN Cardinality(Using(c)) + 1
                        ELSE Cardinality(Using(c))
    OBVIOUS
  <2>1. IsFiniteSet(Using(c))
    BY UsingFinite DEF RefInv, Counted
  <2>2. Cardinality(Using(c) \cup {new}) = Cardinality(Using(c)) + 1
    BY <1>5, <2>1, FS_AddElement
  <2> QED
    BY <1>4, <2>2
<1>10. \A c \in Cmms : Cardinality(Named(c)') =
         IF c = table[h] THEN Cardinality(Named(c)) - 1 ELSE Cardinality(Named(c))
  BY <1>7, NamedFinite, FS_RemoveElement DEF RefInv, OtherTypes
<1>11. refs' = refs
  BY DEF Delete
<1>12. \A c \in Cmms : refs'[c] = Cardinality(Named(c)') + Cardinality(Using(c)')
  BY <1>8, <1>9, <1>10, <1>11 DEF RefInv, Counted
<1>13. IsFiniteSet(Calls')
  BY <1>4, FS_AddElement DEF RefInv, Counted
<1>14. OtherTypes'
  BY <1>6 DEF OtherTypes, RefInv, Delete
<1> QED
  BY <1>4, <1>11, <1>12, <1>13, <1>14 DEF Counted, RefInv

LEMMA StartCounted ==
  ASSUME RefInv, NEW th \in Threads, Start(th)
  PROVE  RefInv'
<1>0. FrameTypes /\ depth \in [Threads -> 0..MaxDepth] /\ LockInv
  BY DEF RefInv, LockInv, CallInv, Types
<1>1. LockInv'
  BY <1>0, StartKeeps
<1>2. CASE Create(th)
  <2>1. PICK c \in Cmms :
          /\ refs[c] = 0 /\ refs' = [refs EXCEPT ![c] = 1]
          /\ PushCall(th, [cmm |-> c, left |-> 0, calling |-> FALSE, at |-> "store"])
    BY <1>2 DEF Create
  <2>2. Adds(th, [cmm |-> c, left |-> 0, calling |-> FALSE, at |-> "store"])
    <3>1. /\ 0 \in 0..MaxRows /\ FALSE \in BOOLEAN /\ "store" \in Places
          /\ "store" \notin {"enter", "body"} /\ MayCall(th)
      BY <1>2, ClientsAssumption DEF Places, Create
    <3> QED
      BY <1>0, <2>1, <3>1, CallAdded, Zenon
  <2>3. refs' = [refs EXCEPT ![c] = @ + 1] /\ table' = table
    <3>1. refs[c] + 1 = 1
      BY <2>1
    <3> QED
      BY <1>2, <2>1, <3>1 DEF Create
  <2>4. FrameTypes' /\ Counted'
    BY <2>2, <2>3, AddsCounted
  <2>5. OtherTypes'
    BY <1>2 DEF Create, OtherTypes, RefInv
  <2> QED
    BY <1>1, <2>4, <2>5 DEF RefInv
<1>3. CASE Delete(th)
  BY <1>1, <1>3, DeleteCounted DEF RefInv
<1>4. CASE Find(th)
  <2>1. PICK h \in DOMAIN table, rows \in 1..MaxRows, calling \in BOOLEAN :
          /\ PushCall(th, [cmm |-> table[h], left |-> rows, calling |-> calling,
                           at |-> "enter"])
          /\ refs' = [refs EXCEPT ![table[h]] = @ + 1]
    BY <1>4 DEF Find, Shared
  <2>2. Adds(th, [cmm |-> table[h], left |-> rows, calling |-> calling, at |-> "enter"])
    <3>1. /\ rows \in 0..MaxRows /\ rows >= 1 /\ "enter" \in Places /\ MayCall(th)
          /\ table[h] \in Cmms
      BY <1>4, ClientsAssumption DEF Places, Find, RefInv, OtherTypes
    <3> QED
      BY <1>0, <2>1, <3>1, CallAdded, Zenon
  <2>3. table' = table
    BY <1>4 DEF Find
  <2>4. FrameTypes' /\ Counted'
    BY <2>1, <2>2, <2>3, AddsCounted
  <2>5. OtherTypes'
    BY <1>4 DEF Find, OtherTypes, RefInv
  <2> QED
    BY <1>1, <2>4, <2>5 DEF RefInv
<1> QED
  BY <1>2, <1>3, <1>4 DEF Start

LEMMA ProceedCounted ==
  ASSUME RefInv, NEW th \in Threads, Proceed(th)
  PROVE  RefInv'
<1>0. FrameTypes /\ depth \in [Threads -> 0..MaxDepth] /\ LockInv
  BY DEF RefInv, LockInv, CallInv, Types
<1>1. LockInv'
  BY <1>0, ProceedKeeps
<1>2. depth[th] > 0 => Top(th) \in Owing
  BY <1>0, FramesTyped
<1>3. ASSUME table' = table, nextHandle' = nextHandle, made' = made, since' = since
      PROVE  OtherTypes'
  BY <1>3 DEF RefInv, OtherTypes
<1>4. ASSUME NEW f, Changes(th, f), refs' = refs, table' = table,
             nextHandle' = nextHandle, made' = made, since' = since
      PROVE  RefInv'
  BY <1>1, <1>3, <1>4, ChangesCounted DEF RefInv
<1>5. CASE StoreTransform(th)
  BY <1>1, <1>5, StoreCounted DEF RefInv
<1>6. CASE StoreRefused(th)
  <2>1. Changes(th, [Top(th) EXCEPT !.at = "drop"])
    BY <1>0, <1>6, GoesOn DEF StoreRefused, RunsAt, Places
  <2> QED
    BY <1>4, <1>6, <2>1 DEF StoreRefused
<1>7. CASE Enter(th)
  <2>1. Top(th).left >= 1
    BY <1>2, <1>7 DEF Enter, RunsAt, Owing
  <2>2. PICK valid \in BOOLEAN : GoTo(th, IF valid THEN "body" ELSE "leave")
    BY <1>7 DEF Enter
  <2>3. \E place \in Places : Changes(th, [Top(th) EXCEPT !.at = place])
    BY <1>0, <1>7, <2>1, <2>2, GoesOn DEF Enter, RunsAt, Places
  <2> QED
    BY <1>4, <1>7, <2>3 DEF Enter
<1>8. CASE RowFails(th)
  <2>1. Changes(th, [Top(th) EXCEPT !.at = "leave"])
    BY <1>0, <1>8, GoesOn DEF RowFails, RunsAt, Places
  <2> QED
    BY <1>4, <1>8, <2>1 DEF RowFails
<1>9. CASE RowDone(th)
  <2>1. Top(th).left >= 1 /\ Top(th).left \in Int
    BY <1>2, <1>9 DEF RowDone, RunsAt, Owing, Frames
  <2>2. \E place \in Places :
          Changes(th, [Top(th) EXCEPT !.left = Top(th).left - 1, !.at = place])
    <3>1. CASE Top(th).left = 1
      BY <1>0, <1>9, <2>1, <3>1, RowGoesOn DEF RowDone, RunsAt, Places
    <3>2. CASE Top(th).left > 1
      BY <1>0, <1>9, <2>1, <3>2, RowGoesOn DEF RowDone, RunsAt, Places
    <3> QED
      <4>1. Top(th).left = 1 \/ Top(th).left > 1
        BY <2>1
      <4> QED
        BY <3>1, <3>2, <4>1
  <2> QED
    BY <1>4, <1>9, <2>2 DEF RowDone
<1>10. CASE RowReported(th)
  <2>1. Top(th).left >= 1
    BY <1>2, <1>10 DEF RowReported, RunsAt, Owing
  <2>2. Changes(th, [Top(th) EXCEPT !.left = Top(th).left - 1, !.at = "callback"])
    BY <1>0, <1>10, <2>1, RowGoesOn DEF RowReported, RunsAt, Places
  <2> QED
    BY <1>4, <1>10, <2>2 DEF RowReported
<1>11. CASE CallbackReturns(th)
  <2>1. \E place \in Places : Changes(th, [Top(th) EXCEPT !.at = place])
    BY <1>0, <1>11, GoesOn DEF CallbackReturns, RunsAt, Places
  <2> QED
    BY <1>4, <1>11, <2>1 DEF CallbackReturns
<1>12. CASE Resume(th)
  <2>1. depth[th] > 0 /\ Top(th).left \in 0..MaxRows
    BY <1>2, <1>12 DEF Resume, RunsAt, Owing, Frames
  <2>2. \E place \in Places : Changes(th, [Top(th) EXCEPT !.at = place])
    <3>1. CASE AfterCallback(Top(th)) = "body"
      <4>1. Top(th).left >= 1
        BY <2>1, <3>1 DEF AfterCallback
      <4> QED
        BY <1>0, <1>12, <2>1, <3>1, <4>1, GoesOn DEF Resume, Places
    <3>2. CASE AfterCallback(Top(th)) = "leave"
      BY <1>0, <1>12, <2>1, <3>2, GoesOn DEF Resume, Places
    <3> QED
      BY <3>1, <3>2 DEF AfterCallback
  <2> QED
    BY <1>4, <1>12, <2>2 DEF Resume
<1>13. CASE Leave(th)
  <2>1. Changes(th, [Top(th) EXCEPT !.at = "drop"])
    BY <1>0, <1>13, GoesOn DEF Leave, RunsAt, Places
  <2> QED
    BY <1>4, <1>13, <2>1 DEF Leave
<1>14. CASE Drop(th)
  <2>1. Removes(th)
    BY <1>0, <1>14 DEF Drop, RunsAt, Removes, Become, FrameTypes
  <2>2. FrameTypes' /\ Counted'
    BY <1>14, <2>1, RemovesCounted DEF Drop
  <2> QED
    BY <1>1, <1>3, <1>14, <2>2 DEF Drop, RefInv
<1> QED
  BY <1>5, <1>6, <1>7, <1>8, <1>9, <1>10, <1>11, <1>12, <1>13, <1>14 DEF Proceed

LEMMA InitHasRefInv == Init => RefInv
<1> SUFFICES ASSUME Init PROVE RefInv
  OBVIOUS
<1>1. LockInv
  BY InitHasLockInv
<1>2. OtherTypes
  BY HandlesAssumption DEF Init, OtherTypes, Handles, Spare
<1>3. FrameTypes
  BY NoFrameOwesNothing DEF Init, FrameTypes, Positions
<1>4. Calls = {}
  BY ClientsAssumption DEF Init, Calls
<1>5. \A c \in Cmms : Named(c) = {} /\ Using(c) = {}
  BY <1>4 DEF Init, Named, Using
<1>6. Counted
  <2>1. refs \in [Cmms -> Nat] /\ \A c \in Cmms : refs[c] = 0 + 0
    BY DEF Init
  <2>2. IsFiniteSet(Calls)
    BY <1>4, FS_EmptySet
  <2>3. \A c \in Cmms : Cardinality(Named(c)) = 0 /\ Cardinality(Using(c)) = 0
    BY <1>5, FS_EmptySet
  <2> QED
    BY <2>1, <2>2, <2>3 DEF Counted
<1> QED
  BY <1>1, <1>2, <1>3, <1>6 DEF RefInv

\* The count of references is inductive, with the frames it counts.
LEMMA RefInvHolds == Spec => []RefInv
<1>1. ASSUME RefInv, [Next]_vars
      PROVE  RefInv'
  <2>1. CASE UNCHANGED vars
    <3>1. LockInv'
      BY <1>1, <2>1 DEF RefInv, LockInv, CallInv, Types, TableNames, CallsUse,
         OthersInCallback, HeldOnce, OwnerInCmm, InCmm, Top, vars, callVars
    <3> QED
      BY <1>1, <2>1, <3>1 DEF RefInv, OtherTypes, FrameTypes, Counted, Calls, Named, Using,
         CallAt, vars, callVars
  <2> QED
    BY <1>1, <2>1, StartCounted, ProceedCounted DEF Next
<1> QED
  BY <1>1, InitHasRefInv, PTL DEF Spec

\* For any number of threads, handles and transforms, the count of a transform's
\* shared_ptr is the number of handles that name it and of calls that use it.
THEOREM ReferencesExact == Spec => []RefsExact
<1>1. RefInv => TypeOK
  <2>1. RefInv => frame \in [Threads -> [1..MaxDepth -> Frames]]
    BY DEF RefInv, FrameTypes, Owing, Positions
  <2> QED
    BY <2>1 DEF RefInv, LockInv, CallInv, Types, OtherTypes, Counted, TypeOK
<1>2. RefInv => RefsExact
  BY <1>1 DEF RefInv, Counted, RefsExact, Named, Using
<1> QED
  BY <1>2, RefInvHolds, PTL
-----------------------------------------------------------------------------
(* What clients see                                                        *)

CallOf(f) == [cmm |-> f.cmm, left |-> f.left, new |-> f.at = "store"]
Seen == [cmm : Cmms \cup {NoCmm}, left : 0..MaxRows, new : BOOLEAN]
Alive == {c \in Cmms : refs[c] > 0}

LEMMA AppendIs ==
  ASSUME NEW S, NEW s \in Seq(S), NEW e \in S
  PROVE  Append(s, e) = [i \in 1..(Len(s) + 1) |-> IF i = Len(s) + 1 THEN e ELSE s[i]]
<1>1. Append(s, e) \in Seq(S) /\ Len(s) \in Nat
  BY AppendProperties, LenProperties
<1>2. Append(s, e) = [i \in 1..(Len(s) + 1) |-> Append(s, e)[i]]
  BY <1>1, AppendProperties, LenProperties
<1>3. \A i \in 1..(Len(s) + 1) : i # Len(s) + 1 => i \in 1..Len(s)
  BY <1>1
<1>4. \A i \in 1..(Len(s) + 1) : Append(s, e)[i] = IF i = Len(s) + 1 THEN e ELSE s[i]
  BY <1>3, AppendProperties
<1> QED
  BY <1>2, <1>4

LEMMA SeenCalls ==
  ASSUME FrameTypes, depth \in [Threads -> 0..MaxDepth]
  PROVE  /\ AbstractCalls \in [Threads -> Seq(Seen)]
         /\ \A th \in Threads :
              /\ Len(AbstractCalls[th]) = depth[th]
              /\ AbstractCalls[th] = [d \in 1..depth[th] |-> CallOf(frame[th][d])]
<1> SUFFICES ASSUME NEW th \in Threads
             PROVE  /\ AbstractCalls[th] = [d \in 1..depth[th] |-> CallOf(frame[th][d])]
                    /\ AbstractCalls[th] \in Seq(Seen)
                    /\ Len(AbstractCalls[th]) = depth[th]
  BY DEF AbstractCalls
<1>1. AbstractCalls[th] = [d \in 1..depth[th] |-> CallOf(frame[th][d])]
  BY DEF AbstractCalls, CallOf
<1>2. depth[th] \in Nat /\ 1..depth[th] \subseteq Positions
  BY FramesTyped, ClientsAssumption DEF Positions
<1>3. \A d \in 1..depth[th] : CallOf(frame[th][d]) \in Seen
  <2> SUFFICES ASSUME NEW d \in 1..depth[th] PROVE CallOf(frame[th][d]) \in Seen
    OBVIOUS
  <2>1. frame[th][d] \in Frames
    BY <1>2, FramesTyped DEF Owing
  <2>2. /\ frame[th][d].cmm \in Cmms \cup {NoCmm} /\ frame[th][d].left \in 0..MaxRows
        /\ (frame[th][d].at = "store") \in BOOLEAN
    BY <2>1 DEF Frames
  <2> QED
    BY <2>2 DEF CallOf, Seen
<1>4. AbstractCalls[th] \in [1..depth[th] -> Seen]
  BY <1>1, <1>3
<1>5. AbstractCalls[th] \in Seq(Seen) /\ Len(AbstractCalls[th]) = depth[th]
  BY <1>2, <1>4
<1> QED
  BY <1>1, <1>5

LEMMA SeenChange ==
  ASSUME FrameTypes, depth \in [Threads -> 0..MaxDepth], NEW th \in Threads,
         NEW f, Changes(th, f)
  PROVE  /\ depth[th] \in 1..Len(AbstractCalls[th])
         /\ AbstractCalls[th][depth[th]] = CallOf(Top(th))
         /\ AbstractCalls' =
              [AbstractCalls EXCEPT ![th] = [@ EXCEPT ![depth[th]] = CallOf(f)]]
<1> DEFINE n == depth[th]
<1>1. n \in Positions /\ n \in 1..n /\ \A u \in Threads : depth[u] \in 0..MaxDepth
  BY FramesTyped DEF Changes, Positions
<1>2. \A u \in Threads :
        /\ Len(AbstractCalls[u]) = depth[u]
        /\ AbstractCalls[u] = [d \in 1..depth[u] |-> CallOf(frame[u][d])]
  BY SeenCalls
<1>3. /\ DOMAIN AbstractCalls = Threads /\ DOMAIN AbstractCalls' = Threads
      /\ \A u \in Threads :
           AbstractCalls'[u] = [d \in 1..depth[u] |-> CallOf(frame'[u][d])]
  BY DEF AbstractCalls, CallOf, Changes
<1>4. \A u \in Threads, d \in Positions :
        frame'[u][d] = IF u = th /\ d = n THEN f ELSE frame[u][d]
  BY <1>1 DEF Changes, FrameTypes
<1>5. \A u \in Threads : \A d \in 1..depth[u] : d \in Positions
  BY <1>1, ClientsAssumption DEF Positions
<1>6. AbstractCalls'[th] = [AbstractCalls[th] EXCEPT ![n] = CallOf(f)]
  BY <1>1, <1>2, <1>3, <1>4, <1>5
<1>7. \A u \in Threads \ {th} : AbstractCalls'[u] = AbstractCalls[u]
  BY <1>2, <1>3, <1>4, <1>5
<1> HIDE DEF n
<1>8. AbstractCalls' = [AbstractCalls EXCEPT ![th] = [@ EXCEPT ![n] = CallOf(f)]]
  <2> DEFINE g == [AbstractCalls[th] EXCEPT ![n] = CallOf(f)]
  <2> HIDE DEF g
  <2>1. AbstractCalls'[th] = g
    BY <1>6 DEF g
  <2>2. AbstractCalls' = [u \in Threads |-> AbstractCalls'[u]]
    BY DEF AbstractCalls
  <2>3. AbstractCalls = [u \in Threads |-> AbstractCalls[u]]
    BY DEF AbstractCalls
  <2>4. AbstractCalls' = [AbstractCalls EXCEPT ![th] = g]
    BY <1>3, <1>7, <2>1, <2>2, <2>3
  <2> QED
    BY <2>4 DEF g
<1> QED
  BY <1>1, <1>2, <1>8 DEF Top, n

LEMMA SeenAdd ==
  ASSUME FrameTypes, depth \in [Threads -> 0..MaxDepth], NEW th \in Threads,
         NEW f, Adds(th, f)
  PROVE  AbstractCalls' = [AbstractCalls EXCEPT ![th] = Append(@, CallOf(f))]
<1> DEFINE n == depth[th]
<1>1. n \in Nat /\ n + 1 \in Positions /\ \A u \in Threads : depth[u] \in 0..MaxDepth
  BY FramesTyped, ClientsAssumption DEF Adds, Positions
<1>2. \A u \in Threads :
        /\ Len(AbstractCalls[u]) = depth[u]
        /\ AbstractCalls[u] = [d \in 1..depth[u] |-> CallOf(frame[u][d])]
        /\ AbstractCalls[u] \in Seq(Seen)
  BY SeenCalls
<1>3. /\ DOMAIN AbstractCalls = Threads /\ DOMAIN AbstractCalls' = Threads
      /\ \A u \in Threads :
           AbstractCalls'[u] = [d \in 1..depth'[u] |-> CallOf(frame'[u][d])]
  BY DEF AbstractCalls, CallOf
<1>4. /\ \A u \in Threads, d \in Positions :
           frame'[u][d] = IF u = th /\ d = n + 1 THEN f ELSE frame[u][d]
      /\ \A u \in Threads : depth'[u] = IF u = th THEN n + 1 ELSE depth[u]
  BY <1>1 DEF Adds, FrameTypes
<1>5. \A u \in Threads : \A d \in 1..depth[u] : d \in Positions
  BY <1>1, ClientsAssumption DEF Positions
<1>6. AbstractCalls'[th] = Append(AbstractCalls[th], CallOf(f))
  <2>1. CallOf(f) \in Seen
    <3>1. f \in Frames
      BY DEF Adds, Owing
    <3>2. /\ f.cmm \in Cmms \cup {NoCmm} /\ f.left \in 0..MaxRows
          /\ (f.at = "store") \in BOOLEAN
      BY <3>1 DEF Frames
    <3> QED
      BY <3>2 DEF CallOf, Seen
  <2>2. AbstractCalls'[th] =
          [d \in 1..(n + 1) |-> IF d = n + 1 THEN CallOf(f) ELSE AbstractCalls[th][d]]
    <3>1. \A d \in 1..(n + 1) : d \in Positions /\ (d # n + 1 => d \in 1..n)
      BY <1>1, ClientsAssumption DEF Positions
    <3> QED
      BY <1>2, <1>3, <1>4, <3>1
  <2>3. AbstractCalls[th] \in Seq(Seen) /\ Len(AbstractCalls[th]) = n
    BY <1>2
  <2>4. Append(AbstractCalls[th], CallOf(f)) =
          [d \in 1..(n + 1) |-> IF d = n + 1 THEN CallOf(f) ELSE AbstractCalls[th][d]]
    BY <2>1, <2>3, AppendIs
  <2> QED
    BY <2>2, <2>4
<1>7. \A u \in Threads \ {th} : AbstractCalls'[u] = AbstractCalls[u]
  <2> SUFFICES ASSUME NEW u \in Threads \ {th} PROVE AbstractCalls'[u] = AbstractCalls[u]
    OBVIOUS
  <2>1. depth'[u] = depth[u] /\ \A d \in 1..depth[u] : frame'[u][d] = frame[u][d]
    BY <1>4, <1>5
  <2>2. AbstractCalls[u] = [d \in 1..depth[u] |-> CallOf(frame[u][d])]
    BY <1>2
  <2>3. AbstractCalls'[u] = [d \in 1..depth'[u] |-> CallOf(frame'[u][d])]
    BY <1>3
  <2> QED
    BY <2>1, <2>2, <2>3
<1> DEFINE g == Append(AbstractCalls[th], CallOf(f))
<1> HIDE DEF g
<1>8. AbstractCalls'[th] = g
  BY <1>6 DEF g
<1>9. /\ AbstractCalls' = [u \in Threads |-> AbstractCalls'[u]]
      /\ AbstractCalls = [u \in Threads |-> AbstractCalls[u]]
  BY DEF AbstractCalls
<1>10. AbstractCalls' = [AbstractCalls EXCEPT ![th] = g]
  BY <1>3, <1>7, <1>8, <1>9
<1> QED
  BY <1>10 DEF g

LEMMA SeenRemove ==
  ASSUME FrameTypes, depth \in [Threads -> 0..MaxDepth], NEW th \in Threads, Removes(th)
  PROVE  /\ AbstractCalls[th] # << >>
         /\ AbstractCalls[th][Len(AbstractCalls[th])] = CallOf(Top(th))
         /\ AbstractCalls' = [AbstractCalls EXCEPT ![th] = SubSeq(@, 1, Len(@) - 1)]
<1> DEFINE n == depth[th]
<1>1. /\ n \in Nat /\ n \in 1..n /\ n - 1 \in Nat /\ n \in Positions
      /\ \A u \in Threads : depth[u] \in 0..MaxDepth
  BY FramesTyped, ClientsAssumption DEF Removes, Positions
<1>2. \A u \in Threads :
        /\ Len(AbstractCalls[u]) = depth[u]
        /\ AbstractCalls[u] = [d \in 1..depth[u] |-> CallOf(frame[u][d])]
        /\ AbstractCalls[u] \in Seq(Seen)
  BY SeenCalls
<1>3. /\ DOMAIN AbstractCalls = Threads /\ DOMAIN AbstractCalls' = Threads
      /\ \A u \in Threads :
           AbstractCalls'[u] = [d \in 1..depth'[u] |-> CallOf(frame'[u][d])]
  BY DEF AbstractCalls, CallOf
<1>4. /\ \A u \in Threads, d \in Positions :
           frame'[u][d] = IF u = th /\ d = n THEN NoFrame ELSE frame[u][d]
      /\ \A u \in Threads : depth'[u] = IF u = th THEN n - 1 ELSE depth[u]
  BY <1>1 DEF Removes, FrameTypes
<1>5. \A u \in Threads : \A d \in 1..depth[u] : d \in Positions
  BY <1>1, ClientsAssumption DEF Positions
<1>6. AbstractCalls'[th] = SubSeq(AbstractCalls[th], 1, n - 1)
  <2>1. AbstractCalls'[th] = [d \in 1..(n - 1) |-> AbstractCalls[th][d]]
    <3>1. \A d \in 1..(n - 1) : d \in Positions /\ d # n /\ d \in 1..n
      BY <1>1, ClientsAssumption DEF Positions
    <3> QED
      BY <1>2, <1>3, <1>4, <3>1
  <2> QED
    BY <1>1, <1>2, <2>1
<1>7. \A u \in Threads \ {th} : AbstractCalls'[u] = AbstractCalls[u]
  <2> SUFFICES ASSUME NEW u \in Threads \ {th} PROVE AbstractCalls'[u] = AbstractCalls[u]
    OBVIOUS
  <2>1. depth'[u] = depth[u] /\ \A d \in 1..depth[u] : frame'[u][d] = frame[u][d]
    BY <1>4, <1>5
  <2>2. AbstractCalls[u] = [d \in 1..depth[u] |-> CallOf(frame[u][d])]
    BY <1>2
  <2>3. AbstractCalls'[u] = [d \in 1..depth'[u] |-> CallOf(frame'[u][d])]
    BY <1>3
  <2> QED
    BY <2>1, <2>2, <2>3
<1> DEFINE g == SubSeq(AbstractCalls[th], 1, n - 1)
<1>8. AbstractCalls[th] # << >> /\ AbstractCalls[th][n] = CallOf(Top(th))
  <2>1. Len(AbstractCalls[th]) = n /\ n # 0
    <3>1. Len(AbstractCalls[th]) = n
      BY <1>2, Zenon
    <3>2. n # 0
      BY <1>1
    <3> QED
      BY <3>1, <3>2
  <2>2. AbstractCalls[th][n] = CallOf(frame[th][n])
    BY <1>1, <1>2
  <2>3. Len(<< >>) = 0
    BY EmptySeq
  <2>4. AbstractCalls[th] # << >>
    BY <2>1, <2>3, Zenon
  <2>5. AbstractCalls[th][n] = CallOf(Top(th))
    BY <2>2, Zenon DEF Top
  <2> QED
    BY <2>4, <2>5
<1> HIDE DEF g
<1>9. AbstractCalls'[th] = g
  BY <1>6 DEF g
<1>10. /\ AbstractCalls' = [u \in Threads |-> AbstractCalls'[u]]
       /\ AbstractCalls = [u \in Threads |-> AbstractCalls[u]]
  BY DEF AbstractCalls
<1>11. AbstractCalls' = [AbstractCalls EXCEPT ![th] = g]
  BY <1>3, <1>7, <1>9, <1>10
<1> QED
  BY <1>2, <1>8, <1>11 DEF g

\* What exists is what a handle names or a call uses.
Referred == Abstract!Range(table) \cup Abstract!Engaged(AbstractCalls)

LEMMA AliveIsReferred ==
  ASSUME RefInv
  PROVE  Alive = Referred
<1>1. \A c \in Cmms : refs[c] = Cardinality(Named(c)) + Cardinality(Using(c))
  BY DEF RefInv, Counted
<1>2. \A c \in Cmms : /\ Cardinality(Named(c)) \in Nat /\ Cardinality(Using(c)) \in Nat
                      /\ Cardinality(Named(c)) = 0 <=> Named(c) = {}
                      /\ Cardinality(Using(c)) = 0 <=> Using(c) = {}
  BY NamedFinite, UsingFinite, FS_EmptySet DEF RefInv, OtherTypes, Counted
<1>3. \A c \in Cmms : refs[c] > 0 <=> Named(c) # {} \/ Using(c) # {}
  BY <1>1, <1>2
<1>4. \A c : c \in Abstract!Range(table) <=> c \in Cmms /\ Named(c) # {}
  BY DEF Abstract!Range, Named, RefInv, OtherTypes
<1>5. \A c : c \in Abstract!Engaged(AbstractCalls) <=> c \in Cmms /\ Using(c) # {}
  <2> SUFFICES ASSUME NEW c
               PROVE  c \in Abstract!Engaged(AbstractCalls) <=> c \in Cmms /\ Using(c) # {}
    OBVIOUS
  <2>1. c \in Abstract!Engaged(AbstractCalls)
          <=> \E th \in Threads : \E call \in Abstract!Range(AbstractCalls[th]) : call.cmm = c
    BY DEF Abstract!Engaged
  <2>2. ASSUME NEW th \in Threads
        PROVE  (\E call \in Abstract!Range(AbstractCalls[th]) : call.cmm = c)
                 <=> \E d \in 1..depth[th] : frame[th][d].cmm = c
    <3>1. AbstractCalls[th] = [d \in 1..depth[th] |-> CallOf(frame[th][d])]
      BY SeenCalls DEF RefInv, LockInv, CallInv, Types
    <3>2. \A d : CallOf(frame[th][d]).cmm = frame[th][d].cmm
      BY DEF CallOf
    <3> QED
      BY <3>1, <3>2 DEF Abstract!Range
  <2>3. (\E th \in Threads : \E d \in 1..depth[th] : frame[th][d].cmm = c) <=> Using(c) # {}
    <3>1. \A th \in Threads : \A d \in 1..depth[th] : d \in 1..MaxDepth /\ d <= depth[th]
      BY ClientsAssumption DEF RefInv, LockInv, CallInv, Types
    <3>2. ASSUME NEW th \in Threads, NEW d \in 1..depth[th], frame[th][d].cmm = c
          PROVE  <<th, d>> \in Using(c)
      BY <3>1, <3>2 DEF Using, Calls, CallAt
    <3>3. ASSUME NEW p \in Using(c)
          PROVE  p[1] \in Threads /\ p[2] \in 1..depth[p[1]] /\ frame[p[1]][p[2]].cmm = c
      BY ClientsAssumption DEF Using, Calls, CallAt, RefInv, LockInv, CallInv, Types
    <3> QED
      BY <3>2, <3>3
  <2>4. Using(c) # {} => c \in Cmms
    BY DEF Using, Calls, CallAt, RefInv, LockInv, CallInv, CallsUse, Positions
  <2> QED
    BY <2>1, <2>2, <2>3, <2>4
<1>6. \A c : c \in Alive <=> c \in Cmms /\ refs[c] > 0
  BY DEF Alive
<1>7. \A c : c \in Alive <=> c \in Abstract!Range(table) \/ c \in Abstract!Engaged(AbstractCalls)
  BY <1>3, <1>4, <1>5, <1>6
<1> HIDE DEF Alive
<1> QED
  BY <1>7 DEF Referred
-----------------------------------------------------------------------------
\* The table is never over its limit.
Within == Cardinality(DOMAIN table) \in 0..Limit
TableInv == RefInv /\ Within

LEMMA WithinKept ==
  ASSUME RefInv, Within, [Next]_vars
  PROVE  Within'
<1>1. /\ IsFiniteSet(DOMAIN table) /\ Cardinality(DOMAIN table) \in 0..Limit
      /\ Limit \in Nat
  BY NamedFinite, HandlesAssumption DEF RefInv, OtherTypes, Within
<1>2. CASE table' = table
  BY <1>1, <1>2 DEF Within
<1>3. CASE \E th \in Threads : StoreTransform(th)
  <2>1. ~TableFull /\ \E h \in Handles :
          h \notin DOMAIN table /\ DOMAIN table' = DOMAIN table \cup {h}
    BY <1>3 DEF StoreTransform, FreeHandle
  <2>2. Cardinality(DOMAIN table') = Cardinality(DOMAIN table) + 1
    BY <1>1, <2>1, FS_AddElement
  <2> QED
    BY <1>1, <2>1, <2>2 DEF TableFull, Within
<1>4. CASE \E th \in Threads : Delete(th)
  <2>1. \E h \in DOMAIN table : DOMAIN table' = DOMAIN table \ {h}
    BY <1>4 DEF Delete, Restrict
  <2>2. Cardinality(DOMAIN table') = Cardinality(DOMAIN table) - 1
    BY <1>1, <2>1, FS_RemoveElement
  <2>3. Cardinality(DOMAIN table) # 0
    BY <1>1, <2>1, FS_EmptySet
  <2> QED
    BY <1>1, <2>2, <2>3 DEF Within
<1> QED
  BY <1>2, <1>3, <1>4 DEF Next, Start, Proceed, Create, Find, StoreRefused, Enter, RowFails,
     RowDone, RowReported, CallbackReturns, Resume, Leave, Drop, vars

LEMMA TableInvHolds == Spec => []TableInv
<1>1. Init => Within
  <2>1. Init => DOMAIN table = {}
    BY DEF Init
  <2> QED
    BY <2>1, FS_EmptySet, HandlesAssumption DEF Within
<1>2. RefInv /\ Within /\ [Next]_vars => Within'
  BY WithinKept
<1> QED
  BY <1>1, <1>2, RefInvHolds, PTL DEF Spec, TableInv

LEMMA AliveNext == RefInv' => Alive' = Referred'
<1>1. RefInv => Alive = Referred
  BY AliveIsReferred
<1>2. (RefInv => Alive = Referred)'
  BY <1>1, PTL
<1> QED
  BY <1>2

\* Settle holds of every step.
LEMMA Settled == RefInv' => Abstract!Settle
BY AliveNext DEF Abstract!Settle, Alive, Referred, Abstract!Range, Abstract!Engaged

LEMMA StartMapped ==
  ASSUME TableInv, RefInv', NEW th \in Threads, Start(th)
  PROVE  Abstract!Next
<1>0. FrameTypes /\ depth \in [Threads -> 0..MaxDepth] /\ Abstract!Settle
  BY Settled DEF TableInv, RefInv, LockInv, CallInv, Types
<1>1. CASE Create(th)
  <2>1. PICK c \in Cmms :
          /\ refs[c] = 0
          /\ PushCall(th, [cmm |-> c, left |-> 0, calling |-> FALSE, at |-> "store"])
    BY <1>1 DEF Create
  <2> DEFINE f == [cmm |-> c, left |-> 0, calling |-> FALSE, at |-> "store"]
  <2>2. Adds(th, f)
    <3>1. /\ 0 \in 0..MaxRows /\ FALSE \in BOOLEAN /\ "store" \in Places
          /\ "store" \notin {"enter", "body"} /\ MayCall(th)
      BY <1>1, ClientsAssumption DEF Places, Create
    <3> QED
      BY <1>0, <2>1, <3>1, CallAdded, Zenon
  <2>3. CallOf(f) = [cmm |-> c, left |-> 0, new |-> TRUE]
    BY DEF CallOf
  <2> HIDE DEF f
  <2>4. Abstract!Push(th, c, 0, TRUE)
    BY <1>0, <2>2, <2>3, SeenAdd DEF Abstract!Push
  <2>5. c \in Cmms \ {x \in Cmms : refs[x] > 0}
    BY <2>1
  <2>6. Abstract!Build(th)
    BY <1>0, <1>1, <2>4, <2>5 DEF Abstract!Build, Create
  <2> QED
    BY <2>6 DEF Abstract!Next
<1>2. CASE Delete(th)
  <2>1. PICK h \in DOMAIN table :
          /\ PushCall(th, [cmm |-> table[h], left |-> 0, calling |-> FALSE, at |-> "drop"])
          /\ table' = Restrict(table, DOMAIN table \ {h})
    BY <1>2 DEF Delete
  <2> DEFINE f == [cmm |-> table[h], left |-> 0, calling |-> FALSE, at |-> "drop"]
  <2>2. Adds(th, f)
    <3>1. /\ 0 \in 0..MaxRows /\ FALSE \in BOOLEAN /\ "drop" \in Places
          /\ "drop" \notin {"enter", "body"} /\ MayCall(th) /\ table[h] \in Cmms
      BY <1>2, ClientsAssumption DEF Places, Delete, TableInv, RefInv, OtherTypes
    <3> QED
      BY <1>0, <2>1, <3>1, CallAdded, Zenon
  <2>3. CallOf(f) = [cmm |-> table[h], left |-> 0, new |-> FALSE]
    BY DEF CallOf
  <2> HIDE DEF f
  <2>4. Abstract!Push(th, table[h], 0, FALSE)
    BY <1>0, <2>2, <2>3, SeenAdd DEF Abstract!Push
  <2>5. table' = Abstract!Restrict(table, DOMAIN table \ {h})
    BY <2>1 DEF Restrict, Abstract!Restrict
  <2>6. Abstract!Unname(th)
    BY <1>0, <2>4, <2>5 DEF Abstract!Unname
  <2> QED
    BY <2>6 DEF Abstract!Next
<1>3. CASE Find(th)
  <2>1. PICK h \in DOMAIN table, rows \in 1..MaxRows, calling \in BOOLEAN :
          PushCall(th, [cmm |-> table[h], left |-> rows, calling |-> calling, at |-> "enter"])
    BY <1>3 DEF Find
  <2> DEFINE f == [cmm |-> table[h], left |-> rows, calling |-> calling, at |-> "enter"]
  <2>2. Adds(th, f)
    <3>1. /\ rows \in 0..MaxRows /\ rows >= 1 /\ "enter" \in Places /\ MayCall(th)
          /\ table[h] \in Cmms
      BY <1>3, ClientsAssumption DEF Places, Find, TableInv, RefInv, OtherTypes
    <3> QED
      BY <1>0, <2>1, <3>1, CallAdded, Zenon
  <2>3. CallOf(f) = [cmm |-> table[h], left |-> rows, new |-> FALSE]
    BY DEF CallOf
  <2> HIDE DEF f
  <2>4. Abstract!Push(th, table[h], rows, FALSE)
    BY <1>0, <2>2, <2>3, SeenAdd DEF Abstract!Push
  <2>6. Abstract!Begin(th)
    BY <1>0, <1>3, <2>4 DEF Abstract!Begin, Find
  <2> QED
    BY <2>6 DEF Abstract!Next
<1> QED
  BY <1>1, <1>2, <1>3 DEF Start

LEMMA FrameFields ==
  ASSUME NEW call \in Frames, NEW n, NEW place
  PROVE  /\ [call EXCEPT !.at = place].cmm = call.cmm
         /\ [call EXCEPT !.at = place].left = call.left
         /\ [call EXCEPT !.at = place].at = place
         /\ [call EXCEPT !.left = n, !.at = place].cmm = call.cmm
         /\ [call EXCEPT !.left = n, !.at = place].left = n
         /\ [call EXCEPT !.left = n, !.at = place].at = place
BY DEF Frames

\* A call that is seen, put together again from its fields.
Shown == [cmm : Cmms \cup {NoCmm}, left : Int, new : BOOLEAN]

LEMMA SeenAgain ==
  ASSUME NEW call \in Shown, NEW n \in Int
  PROVE  /\ [call EXCEPT !.new = FALSE]
              = [cmm |-> call.cmm, left |-> call.left, new |-> FALSE]
         /\ [call EXCEPT !.left = n]
              = [cmm |-> call.cmm, left |-> n, new |-> call.new]
<1>1. \A s, t \in Shown : s.cmm = t.cmm /\ s.left = t.left /\ s.new = t.new => s = t
  BY DEF Shown
<1>2. /\ [call EXCEPT !.new = FALSE] \in Shown /\ [call EXCEPT !.left = n] \in Shown
  BY DEF Shown
<1>3. /\ [cmm |-> call.cmm, left |-> call.left, new |-> FALSE] \in Shown
      /\ [cmm |-> call.cmm, left |-> n, new |-> call.new] \in Shown
  BY DEF Shown
<1>4. LET e == [call EXCEPT !.new = FALSE]
      IN  e.cmm = call.cmm /\ e.left = call.left /\ e.new = FALSE
  BY DEF Shown
<1>5. LET e == [call EXCEPT !.left = n]
      IN  e.cmm = call.cmm /\ e.left = n /\ e.new = call.new
  BY DEF Shown
<1>6. [call EXCEPT !.new = FALSE] = [cmm |-> call.cmm, left |-> call.left, new |-> FALSE]
  BY <1>1, <1>2, <1>3, <1>4
<1>7. [call EXCEPT !.left = n] = [cmm |-> call.cmm, left |-> n, new |-> call.new]
  BY <1>1, <1>2, <1>3, <1>5
<1> QED
  BY <1>6, <1>7

\* The two levels count alike.
LEMMA CountsAlike == \A S : Abstract!Cardinality(S) = Cardinality(S)
BY DEF Abstract!Cardinality, Cardinality

LEMMA SeenTyped ==
  ASSUME NEW call \in Frames
  PROVE  CallOf(call) \in Shown
<1>1. call.cmm \in Cmms \cup {NoCmm} /\ call.left \in Int /\ (call.at = "store") \in BOOLEAN
  BY ClientsAssumption DEF Frames
<1> QED
  BY <1>1 DEF CallOf, Shown

\* The running call of th, as clients see it.
LEMMA TopSeen ==
  ASSUME FrameTypes, depth \in [Threads -> 0..MaxDepth], NEW th \in Threads, depth[th] > 0
  PROVE  /\ AbstractCalls[th] # << >> /\ Len(AbstractCalls[th]) = depth[th]
         /\ AbstractCalls[th][depth[th]] = CallOf(Top(th))
         /\ AbstractCalls \in [Threads -> Seq(Seen)]
         /\ depth[th] \in 1..Len(AbstractCalls[th])
<1>1. /\ AbstractCalls[th] = [d \in 1..depth[th] |-> CallOf(frame[th][d])]
      /\ Len(AbstractCalls[th]) = depth[th]
      /\ AbstractCalls \in [Threads -> Seq(Seen)]
  BY SeenCalls
<1>2. depth[th] \in 1..depth[th] /\ depth[th] # 0
  BY FramesTyped, ClientsAssumption DEF Positions
<1>3. AbstractCalls[th] # << >>
  <2>1. Len(<< >>) = 0
    BY EmptySeq
  <2> QED
    BY <1>1, <1>2, <2>1, Zenon
<1> QED
  BY <1>1, <1>2, <1>3 DEF Top

LEMMA ChangeStutters ==
  ASSUME FrameTypes, depth \in [Threads -> 0..MaxDepth], NEW th \in Threads,
         NEW f, Changes(th, f), CallOf(f) = CallOf(Top(th)),
         table' = table, refs' = refs
  PROVE  UNCHANGED Abstract!vars
<1> DEFINE n == depth[th]
<1>1. /\ AbstractCalls' = [AbstractCalls EXCEPT ![th] = [@ EXCEPT ![n] = CallOf(f)]]
      /\ AbstractCalls[th][n] = CallOf(f)
      /\ AbstractCalls \in [Threads -> Seq(Seen)]
      /\ n \in 1..Len(AbstractCalls[th])
  BY SeenChange, TopSeen DEF Changes
<1> HIDE DEF n
<1>2. [AbstractCalls[th] EXCEPT ![n] = CallOf(f)] = AbstractCalls[th]
  BY <1>1
<1>3. AbstractCalls' = AbstractCalls
  BY <1>1, <1>2
<1> QED
  BY <1>3 DEF Abstract!vars

LEMMA StoreMapped ==
  ASSUME TableInv, RefInv', NEW th \in Threads, StoreTransform(th)
  PROVE  Abstract!Name(th)
<1> DEFINE n == depth[th]
           f == [Top(th) EXCEPT !.at = "drop"]
           old == CallOf(Top(th))
<1>0. /\ FrameTypes /\ depth \in [Threads -> 0..MaxDepth] /\ Abstract!Settle
      /\ depth[th] > 0 /\ Top(th).at = "store" /\ Top(th) \in Frames
  BY Settled, FramesTyped
     DEF TableInv, RefInv, LockInv, CallInv, Types, StoreTransform, RunsAt, Owing
<1>1. Changes(th, f)
  BY <1>0, GoesOn DEF StoreTransform, RunsAt, Places
<1>2. old.new /\ old.cmm = Top(th).cmm /\ CallOf(f) = [old EXCEPT !.new = FALSE]
  <2>1. f.cmm = Top(th).cmm /\ f.left = Top(th).left /\ f.at = "drop"
    BY <1>0, FrameFields
  <2> HIDE DEF f
  <2>2. CallOf(f) = [cmm |-> Top(th).cmm, left |-> Top(th).left, new |-> FALSE]
    BY <2>1 DEF CallOf
  <2>3. old.cmm = Top(th).cmm /\ old.left = Top(th).left /\ old.new = TRUE
    BY <1>0 DEF CallOf
  <2>4. old \in Shown
    BY <1>0, SeenTyped
  <2> HIDE DEF old
  <2>5. 0 \in Int
    OBVIOUS
  <2>6. [old EXCEPT !.new = FALSE] = [cmm |-> old.cmm, left |-> old.left, new |-> FALSE]
    BY <2>4, <2>5, SeenAgain, Zenon
  <2> QED
    BY <2>2, <2>3, <2>6
<1> HIDE DEF f, old
<1>3. /\ AbstractCalls' = [AbstractCalls EXCEPT ![th] = [@ EXCEPT ![n] = CallOf(f)]]
      /\ AbstractCalls[th][n] = old /\ AbstractCalls[th] # << >>
      /\ Len(AbstractCalls[th]) = n
  BY <1>0, <1>1, SeenChange, TopSeen DEF old
<1>4. Cardinality(DOMAIN table) < Limit
  BY HandlesAssumption DEF StoreTransform, TableFull, TableInv, Within
<1>5. PICK h \in Handles \ DOMAIN table :
        table' = [k \in DOMAIN table \cup {h} |-> IF k = h THEN Top(th).cmm ELSE table[k]]
  BY DEF StoreTransform, FreeHandle
<1> HIDE DEF n
<1>6. AbstractCalls' = [AbstractCalls EXCEPT ![th][Len(AbstractCalls[th])].new = FALSE]
  BY <1>2, <1>3
<1>7. table' = [k \in DOMAIN table \cup {h} |->
                  IF k = h THEN AbstractCalls[th][Len(AbstractCalls[th])].cmm ELSE table[k]]
  BY <1>2, <1>3, <1>5
<1>8. AbstractCalls[th][Len(AbstractCalls[th])].new
  BY <1>2, <1>3
<1>9. /\ AbstractCalls[th] # << >> 
      /\ h \in Handles \ DOMAIN table
  BY <1>3, <1>5
<1> QED
  BY <1>0, <1>4, <1>6, <1>7, <1>8, <1>9, CountsAlike DEF Abstract!Name

LEMMA RefusalMapped ==
  ASSUME TableInv, RefInv', NEW th \in Threads, StoreRefused(th)
  PROVE  Abstract!Refuse(th)
<1> DEFINE n == depth[th]
           f == [Top(th) EXCEPT !.at = "drop"]
           old == CallOf(Top(th))
<1>0. /\ FrameTypes /\ depth \in [Threads -> 0..MaxDepth] /\ Abstract!Settle
      /\ depth[th] > 0 /\ Top(th).at = "store" /\ Top(th) \in Frames
  BY Settled, FramesTyped
     DEF TableInv, RefInv, LockInv, CallInv, Types, StoreRefused, RunsAt, Owing
<1>1. Changes(th, f)
  BY <1>0, GoesOn DEF StoreRefused, RunsAt, Places
<1>2. old.new /\ CallOf(f) = [old EXCEPT !.new = FALSE]
  <2>1. f.cmm = Top(th).cmm /\ f.left = Top(th).left /\ f.at = "drop"
    BY <1>0, FrameFields
  <2> HIDE DEF f
  <2>2. CallOf(f) = [cmm |-> Top(th).cmm, left |-> Top(th).left, new |-> FALSE]
    BY <2>1 DEF CallOf
  <2>3. old.cmm = Top(th).cmm /\ old.left = Top(th).left /\ old.new = TRUE
    BY <1>0 DEF CallOf
  <2>4. old \in Shown
    BY <1>0, SeenTyped
  <2> HIDE DEF old
  <2>5. 0 \in Int
    OBVIOUS
  <2>6. [old EXCEPT !.new = FALSE] = [cmm |-> old.cmm, left |-> old.left, new |-> FALSE]
    BY <2>4, <2>5, SeenAgain, Zenon
  <2> QED
    BY <2>2, <2>3, <2>6
<1> HIDE DEF f, old
<1>3. /\ AbstractCalls' = [AbstractCalls EXCEPT ![th] = [@ EXCEPT ![n] = CallOf(f)]]
      /\ AbstractCalls[th][n] = old /\ AbstractCalls[th] # << >>
      /\ Len(AbstractCalls[th]) = n
  BY <1>0, <1>1, SeenChange, TopSeen DEF old
<1>4. Cardinality(DOMAIN table) = Limit
  BY HandlesAssumption DEF StoreRefused, TableFull, TableInv, Within
<1> HIDE DEF n
<1>6. AbstractCalls' = [AbstractCalls EXCEPT ![th][Len(AbstractCalls[th])].new = FALSE]
  BY <1>2, <1>3
<1>7. table' = table
  BY DEF StoreRefused
<1>8. AbstractCalls[th][Len(AbstractCalls[th])].new
  BY <1>2, <1>3
<1>9. AbstractCalls[th] # << >> 
  BY <1>3
<1> QED
  BY <1>0, <1>4, <1>6, <1>7, <1>8, <1>9, CountsAlike DEF Abstract!Refuse

\* A row done, with or without a report, is a row of the call.
LEMMA RowMapped ==
  ASSUME TableInv, RefInv', NEW th \in Threads, RowDone(th) \/ RowReported(th)
  PROVE  Abstract!Row(th)
<1> DEFINE n == depth[th]
           old == CallOf(Top(th))
<1>0. /\ FrameTypes /\ depth \in [Threads -> 0..MaxDepth] /\ Abstract!Settle
      /\ depth[th] > 0 /\ Top(th).at = "body" /\ Top(th) \in Frames
      /\ Top(th).left \in Int /\ Top(th).left >= 1
  BY Settled, FramesTyped
     DEF TableInv, RefInv, LockInv, CallInv, Types, RowDone, RowReported, RunsAt, Owing, Frames
<1>1. PICK place \in Places :
        /\ Changes(th, [Top(th) EXCEPT !.left = Top(th).left - 1, !.at = place])
        /\ place # "store"
  <2>1. CASE RowReported(th)
    <3>1. Changes(th, [Top(th) EXCEPT !.left = Top(th).left - 1, !.at = "callback"])
      BY <1>0, <2>1, RowGoesOn DEF RowReported, Places
    <3> QED
      BY <3>1 DEF Places
  <2>2. CASE RowDone(th) /\ Top(th).left = 1
    <3>1. RowOver(th, "leave") /\ depth' = depth
      BY <2>2 DEF RowDone
    <3>2. Changes(th, [Top(th) EXCEPT !.left = Top(th).left - 1, !.at = "leave"])
      BY <1>0, <3>1, RowGoesOn DEF Places
    <3> QED
      BY <3>2 DEF Places
  <2>3. CASE RowDone(th) /\ Top(th).left > 1
    <3>1. RowOver(th, "body") /\ depth' = depth
      BY <2>3 DEF RowDone
    <3>2. Changes(th, [Top(th) EXCEPT !.left = Top(th).left - 1, !.at = "body"])
      BY <1>0, <2>3, <3>1, RowGoesOn DEF Places
    <3> QED
      BY <3>2 DEF Places
  <2>4. Top(th).left = 1 \/ Top(th).left > 1
    BY <1>0
  <2> QED
    BY <2>1, <2>2, <2>3, <2>4
<1> DEFINE f == [Top(th) EXCEPT !.left = Top(th).left - 1, !.at = place]
<1>2. old.left > 0 /\ CallOf(f) = [old EXCEPT !.left = @ - 1]
  <2>1. f.cmm = Top(th).cmm /\ f.left = Top(th).left - 1 /\ f.at = place
    BY <1>0, FrameFields
  <2> HIDE DEF f
  <2>2. CallOf(f) = [cmm |-> Top(th).cmm, left |-> Top(th).left - 1, new |-> FALSE]
    BY <1>1, <2>1 DEF CallOf
  <2>3. old.cmm = Top(th).cmm /\ old.left = Top(th).left /\ old.new = FALSE
    BY <1>0 DEF CallOf
  <2>4. old \in Shown /\ old.left - 1 \in Int
    BY <1>0, <2>3, SeenTyped
  <2> HIDE DEF old
  <2>5. [old EXCEPT !.left = old.left - 1]
          = [cmm |-> old.cmm, left |-> old.left - 1, new |-> old.new]
    BY <2>4, SeenAgain
  <2>6. old.left > 0
    BY <1>0, <2>3
  <2>7. CallOf(f) = [old EXCEPT !.left = old.left - 1]
    BY <2>2, <2>3, <2>5
  <2> HIDE DEF f, old
  <2> QED
    BY <2>6, <2>7
<1>a. Changes(th, f)
  BY <1>1
<1> HIDE DEF f, old
<1>3. /\ AbstractCalls' = [AbstractCalls EXCEPT ![th] = [@ EXCEPT ![n] = CallOf(f)]]
      /\ AbstractCalls[th][n] = old /\ AbstractCalls[th] # << >>
      /\ Len(AbstractCalls[th]) = n
  BY <1>0, <1>a, SeenChange, TopSeen DEF old
<1> HIDE DEF n
<1>6. AbstractCalls' = [AbstractCalls EXCEPT ![th][n].left = @ - 1]
  BY <1>2, <1>3
<1>7. table' = table
  BY DEF RowDone, RowReported
<1> QED
  BY <1>0, <1>2, <1>3, <1>6, <1>7 DEF Abstract!Row

LEMMA DropMapped ==
  ASSUME TableInv, RefInv', NEW th \in Threads, Drop(th)
  PROVE  Abstract!Return(th)
<1>0. /\ FrameTypes /\ depth \in [Threads -> 0..MaxDepth] /\ Abstract!Settle
      /\ depth[th] > 0 /\ Top(th).at = "drop"
  BY Settled DEF TableInv, RefInv, LockInv, CallInv, Types, Drop, RunsAt
<1>1. Removes(th)
  BY <1>0 DEF Drop, RunsAt, Removes, Become, FrameTypes
<1>2. /\ AbstractCalls[th] # << >>
      /\ AbstractCalls[th][Len(AbstractCalls[th])] = CallOf(Top(th))
      /\ AbstractCalls' = [AbstractCalls EXCEPT ![th] = SubSeq(@, 1, Len(@) - 1)]
  BY <1>0, <1>1, SeenRemove
<1>3. ~CallOf(Top(th)).new
  BY <1>0 DEF CallOf
<1> QED
  BY <1>0, <1>2, <1>3 DEF Abstract!Return, Drop

LEMMA QuietMapped ==
  ASSUME TableInv, NEW th \in Threads,
         RowFails(th) \/ CallbackReturns(th) \/ Resume(th) \/ Enter(th) \/ Leave(th)
  PROVE  UNCHANGED Abstract!vars
<1>0. /\ FrameTypes /\ depth \in [Threads -> 0..MaxDepth]
      /\ depth[th] > 0 /\ Top(th) \in Frames /\ Top(th).left \in 0..MaxRows
      /\ Top(th).at \in {"enter", "body"} => Top(th).left >= 1
  BY FramesTyped DEF TableInv, RefInv, LockInv, CallInv, Types, RowFails, CallbackReturns,
     Resume, Enter, Leave, RunsAt, Owing, Frames
<1>1. \E place \in Places \ {"store"} :
        /\ GoTo(th, place)
        /\ place \in {"enter", "body"} => Top(th).left >= 1
  <2>1. CASE RowFails(th)
    BY <2>1 DEF RowFails, Places
  <2>2. CASE CallbackReturns(th)
    BY <2>2 DEF CallbackReturns, Places
  <2>3. CASE Resume(th)
    <3>1. \/ AfterCallback(Top(th)) = "leave"
          \/ AfterCallback(Top(th)) = "body" /\ Top(th).left >= 1
      <4>1. CASE Top(th).at = "resume" /\ Top(th).left > 0
        <5>1. Top(th).left >= 1
          BY <1>0, <4>1
        <5> QED
          BY <4>1, <5>1 DEF AfterCallback
      <4>2. CASE ~(Top(th).at = "resume" /\ Top(th).left > 0)
        BY <4>2, Zenon DEF AfterCallback
      <4> QED
        BY <4>1, <4>2
    <3>2. GoTo(th, AfterCallback(Top(th)))
      BY <2>3 DEF Resume
    <3> QED
      BY <3>1, <3>2 DEF Places
  <2>4. CASE Enter(th)
    BY <1>0, <2>4 DEF Enter, RunsAt, Places
  <2>5. CASE Leave(th)
    BY <2>5 DEF Leave, Places
  <2> QED
    BY <2>1, <2>2, <2>3, <2>4, <2>5
<1>2. PICK place \in Places \ {"store"} :
        /\ GoTo(th, place)
        /\ place \in {"enter", "body"} => Top(th).left >= 1
  BY <1>1
<1>3. depth' = depth /\ table' = table /\ refs' = refs /\ Top(th).at # "store"
  BY DEF RowFails, CallbackReturns, Resume, Enter, Leave, RunsAt
<1> DEFINE f == [Top(th) EXCEPT !.at = place]
<1>4. Changes(th, f)
  BY <1>0, <1>2, <1>3, GoesOn
<1>5. f.cmm = Top(th).cmm /\ f.left = Top(th).left /\ f.at = place
  BY <1>0, FrameFields
<1> HIDE DEF f
<1>6. CallOf(f) = CallOf(Top(th))
  BY <1>2, <1>3, <1>5 DEF CallOf
<1> QED
  BY <1>0, <1>3, <1>4, <1>6, ChangeStutters

LEMMA InitMapped == Init => Abstract!Init
<1> SUFFICES ASSUME Init PROVE Abstract!Init
  OBVIOUS
<1>1. \A th \in Threads : AbstractCalls[th] = << >>
  <2> SUFFICES ASSUME NEW th \in Threads PROVE AbstractCalls[th] = << >>
    OBVIOUS
  <2>1. depth[th] = 0
    BY DEF Init
  <2>2. AbstractCalls[th] = [d \in 1..depth[th] |-> CallOf(frame[th][d])]
    BY DEF AbstractCalls, CallOf
  <2>3. 1..depth[th] = {}
    BY <2>1
  <2>4. AbstractCalls[th] \in Seq({}) /\ Len(AbstractCalls[th]) = 0
    BY <2>1, <2>2, <2>3
  <2> QED
    BY <2>4, EmptySeq
<1>2. AbstractCalls = [th \in Threads |-> << >>]
  <2>1. AbstractCalls = [th \in Threads |-> AbstractCalls[th]]
    BY DEF AbstractCalls
  <2> QED
    BY <1>1, <2>1
<1>3. {c \in Cmms : refs[c] > 0} = {}
  BY DEF Init
<1>4. table = << >>
  BY DEF Init
<1> QED
  BY <1>2, <1>3, <1>4 DEF Abstract!Init

\* Clients of the ICM module see what TransformCalls promises.
THEOREM TableImplementsCalls == Spec => ImplementsTransformCalls
<1>1. ASSUME TableInv, RefInv', [Next]_vars
      PROVE  [Abstract!Next]_(Abstract!vars)
  <2>1. CASE UNCHANGED vars
    <3>1. UNCHANGED Abstract!vars
      BY <2>1 DEF vars, callVars, Abstract!vars, AbstractCalls
    <3> QED
      BY <3>1
  <2>2. ASSUME NEW th \in Threads, Start(th)
        PROVE  Abstract!Next
    BY <1>1, <2>2, StartMapped
  <2>3. ASSUME NEW th \in Threads, Proceed(th)
        PROVE  Abstract!Next \/ UNCHANGED Abstract!vars
    BY <1>1, <2>3, StoreMapped, RefusalMapped, RowMapped, DropMapped, QuietMapped
       DEF Proceed, Abstract!Next
  <2> QED
    BY <1>1, <2>1, <2>2, <2>3 DEF Next
<1> QED
  BY <1>1, InitMapped, TableInvHolds, PTL
     DEF Spec, ImplementsTransformCalls, Abstract!Spec, TableInv
-----------------------------------------------------------------------------
(* The rotation of handles *)

Size == MaxHandle - MinHandle + 1
\* The handles that are issued before h, or are not free.
Between(h) == {k \in Handles \ {h} : Ahead(k) > Ahead(h) \/ k \in DOMAIN table}
\* A handle issued not long ago is far from being issued again.
FarAhead ==
  \A h \in Handles : since[h] < Spare => Cardinality(Between(h)) <= since[h] + Limit - 1
RotationInv == TableInv /\ FarAhead

LEMMA RemainderIs ==
  ASSUME NEW n \in Nat \ {0}, NEW k \in Int
  PROVE  /\ k \in 0..(n - 1) => k % n = k
         /\ k < 0 /\ k + n >= 0 => k % n = k + n
<1>1. CASE k \in 0..(n - 1)
  OBVIOUS
<1>2. CASE k < 0 /\ k + n >= 0
  OBVIOUS
<1> QED
  BY <1>1, <1>2

\* The distance from the next handle, going round, told without a remainder.
LEMMA AheadIs ==
  ASSUME nextHandle \in Handles, NEW h \in Handles
  PROVE  /\ Ahead(h) = IF h >= nextHandle THEN h - nextHandle
                       ELSE h - nextHandle + Size
         /\ Ahead(h) \in 0..(Size - 1)
<1>1. /\ Size \in Nat \ {0} /\ h - nextHandle \in Int
      /\ h >= nextHandle => h - nextHandle \in 0..(Size - 1)
      /\ h < nextHandle => h - nextHandle < 0 /\ h - nextHandle + Size \in 0..(Size - 1)
  BY HandlesAssumption DEF Handles, Size
<1>2. CASE h >= nextHandle
  <2>1. (h - nextHandle) % Size = h - nextHandle
    BY <1>1, <1>2, RemainderIs
  <2> QED
    BY <1>1, <1>2, <2>1 DEF Ahead, Size
<1>3. CASE ~(h >= nextHandle)
  <2>1. h < nextHandle
    BY <1>3, HandlesAssumption DEF Handles
  <2>2. (h - nextHandle) % Size = h - nextHandle + Size
    BY <1>1, <2>1, RemainderIs
  <2> QED
    BY <1>1, <1>3, <2>1, <2>2 DEF Ahead, Size
<1> QED
  BY <1>2, <1>3

\* What storing under k does to the distances.
LEMMA AheadNext ==
  ASSUME nextHandle \in Handles, NEW k \in Handles, nextHandle' = Rotated(k)
  PROVE  /\ nextHandle' \in Handles
         /\ \A h \in Handles :
              /\ Ahead(h) \in Int
              /\ Ahead(h)' = IF Ahead(h) > Ahead(k) THEN Ahead(h) - Ahead(k) - 1
                             ELSE Ahead(h) - Ahead(k) - 1 + Size
              /\ Ahead(h) = Ahead(k) => h = k
<1>1. nextHandle' \in Handles
  BY HandlesAssumption DEF Rotated, Handles
<1>2. ASSUME NEW h \in Handles
      PROVE  Ahead(h)' = IF h >= nextHandle' THEN h - nextHandle' ELSE h - nextHandle' + Size
  <2>1. \A n, j \in Handles : n \in Handles =>
          (j - n) % Size = IF j >= n THEN j - n ELSE j - n + Size
    <3> SUFFICES ASSUME NEW n \in Handles, NEW j \in Handles
                 PROVE  (j - n) % Size = IF j >= n THEN j - n ELSE j - n + Size
      OBVIOUS
    <3>1. /\ Size \in Nat \ {0} /\ j - n \in Int
          /\ j >= n => j - n \in 0..(Size - 1)
          /\ j < n => j - n < 0 /\ j - n + Size \in 0..(Size - 1)
          /\ ~(j >= n) => j < n
      BY HandlesAssumption DEF Handles, Size
    <3>2. CASE j >= n
      BY <3>1, <3>2, RemainderIs
    <3>3. CASE ~(j >= n)
      <4>1. (j - n) % Size = j - n + Size
        BY <3>1, <3>3, RemainderIs
      <4> QED
        BY <3>3, <4>1
    <3> QED
      BY <3>2, <3>3
  <2> QED
    BY <1>1, <2>1 DEF Ahead, Size
<1>3. ASSUME NEW h \in Handles
      PROVE  /\ Ahead(h) \in Int
             /\ Ahead(h)' = IF Ahead(h) > Ahead(k) THEN Ahead(h) - Ahead(k) - 1
                            ELSE Ahead(h) - Ahead(k) - 1 + Size
             /\ Ahead(h) = Ahead(k) => h = k
  <2>1. /\ Ahead(h) = IF h >= nextHandle THEN h - nextHandle ELSE h - nextHandle + Size
        /\ Ahead(k) = IF k >= nextHandle THEN k - nextHandle ELSE k - nextHandle + Size
        /\ Ahead(h)' = IF h >= nextHandle' THEN h - nextHandle' ELSE h - nextHandle' + Size
    BY <1>2, AheadIs
  <2>2. /\ h \in Int /\ k \in Int /\ nextHandle \in Int
        /\ MinHandle <= h /\ h <= MaxHandle /\ MinHandle <= k /\ k <= MaxHandle
        /\ MinHandle <= nextHandle /\ nextHandle <= MaxHandle
        /\ MinHandle \in Int /\ MaxHandle \in Int
    BY HandlesAssumption DEF Handles
  <2>3. nextHandle' = IF k = MaxHandle THEN MinHandle ELSE k + 1
    BY DEF Rotated
  <2> QED
    BY <2>1, <2>2, <2>3 DEF Size
<1> QED
  BY <1>1, <1>3

LEMMA HandlesFinite ==
  /\ IsFiniteSet(Handles) /\ Cardinality(Handles) = Size /\ Size \in Nat /\ Spare \in Nat
  /\ Spare = Size - Limit /\ Limit \in Nat
  /\ \A h \in Handles : Cardinality(Handles \ {h}) = Size - 1
<1>1. IsFiniteSet(Handles) /\ Cardinality(Handles) = Size /\ Size \in Nat
  BY HandlesAssumption, FS_Interval DEF Handles, Size
<1>2. Spare \in Nat /\ Spare = Size - Limit /\ Limit \in Nat
  BY HandlesAssumption DEF Spare, Size
<1>3. ASSUME NEW h \in Handles
      PROVE  Cardinality(Handles \ {h}) = Size - 1
  BY <1>1, FS_RemoveElement
<1> QED
  BY <1>1, <1>2, <1>3

LEMMA BetweenFinite ==
  ASSUME NEW h \in Handles
  PROVE  IsFiniteSet(Between(h)) /\ Cardinality(Between(h)) \in Nat
<1>1. Between(h) \in SUBSET Handles
  BY DEF Between
<1> QED
  BY <1>1, HandlesFinite, FS_Subset, FS_CardinalityType

\* A handle that is issued before a free one, or next, has waited its turn.
LEMMA Overtaken ==
  ASSUME RotationInv, NEW k, FreeHandle(k), NEW h \in Handles, Ahead(h) <= Ahead(k),
         h \in DOMAIN table \/ h = k
  PROVE  since[h] = Spare
<1>0. nextHandle \in Handles /\ since[h] \in 0..Spare /\ k \in Handles
  BY DEF RotationInv, TableInv, RefInv, OtherTypes, FreeHandle
<1>1. ASSUME NEW j \in Handles \ {h}
      PROVE  j \in Between(h)
  <2>1. Ahead(j) \in Int /\ Ahead(h) \in Int /\ Ahead(k) \in Int
    BY <1>0, AheadIs
  <2>2. CASE j \in DOMAIN table
    BY <2>2 DEF Between
  <2>3. CASE j \notin DOMAIN table
    <3>1. Ahead(k) <= Ahead(j)
      BY <2>3 DEF FreeHandle
    <3>2. Ahead(j) # Ahead(h)
      BY <1>0, AheadIs, HandlesAssumption DEF Handles, Size
    <3>3. Ahead(j) > Ahead(h)
      BY <2>1, <3>1, <3>2
    <3> QED
      BY <3>3 DEF Between
  <2> QED
    BY <2>2, <2>3
<1>2. Between(h) = Handles \ {h}
  BY <1>1 DEF Between
<1>3. Cardinality(Between(h)) = Size - 1
  BY <1>2, HandlesFinite
<1>4. since[h] < Spare => Size - 1 <= since[h] + Limit - 1
  BY <1>3 DEF RotationInv, FarAhead
<1> QED
  BY <1>0, <1>4, HandlesFinite

LEMMA StoreRotates ==
  ASSUME RotationInv, NEW th \in Threads, StoreTransform(th)
  PROVE  /\ FarAhead'
         /\ \A h \in DOMAIN table' \ DOMAIN table : since[h] = Spare
<1>0. /\ nextHandle \in Handles /\ since \in [Handles -> 0..Spare]
      /\ IsFiniteSet(DOMAIN table) /\ DOMAIN table \subseteq Handles
  BY NamedFinite DEF RotationInv, TableInv, RefInv, OtherTypes
<1>1. PICK k \in Handles :
        /\ FreeHandle(k)
        /\ DOMAIN table' = DOMAIN table \cup {k}
        /\ nextHandle' = Rotated(k)
        /\ since' = [h \in Handles |->
                       IF h = k THEN 0
                       ELSE IF since[h] < Spare THEN since[h] + 1 ELSE since[h]]
  BY DEF StoreTransform
<1>2. /\ \A h \in Handles :
           /\ Ahead(h) \in 0..(Size - 1)
           /\ Ahead(h)' = IF Ahead(h) > Ahead(k) THEN Ahead(h) - Ahead(k) - 1
                          ELSE Ahead(h) - Ahead(k) - 1 + Size
           /\ Ahead(h) = Ahead(k) => h = k
      /\ Size \in Nat /\ Limit \in Nat /\ Spare \in Nat
  BY <1>0, <1>1, AheadIs, AheadNext, HandlesFinite
<1>3. Cardinality(DOMAIN table) < Limit /\ Cardinality(DOMAIN table) \in Nat
  BY HandlesAssumption DEF StoreTransform, TableFull, RotationInv, TableInv, Within
<1>4. since[k] = Spare
  BY <1>1, <1>2, Overtaken
<1>5. ASSUME NEW h \in Handles, since'[h] < Spare
      PROVE  Cardinality(Between(h)') <= since'[h] + Limit - 1
  <2>1. CASE h = k
    <3>1. ASSUME NEW j \in Between(h)'
          PROVE  j \in DOMAIN table
      <4>1. j \in Handles \ {h} /\ (Ahead(j)' > Ahead(h)' \/ j \in DOMAIN table')
        BY <3>1 DEF Between
      <4>2. ~(Ahead(j)' > Ahead(h)')
        BY <1>1, <1>2, <2>1, <4>1
      <4> QED
        BY <1>1, <2>1, <4>1, <4>2
    <3>2. Between(h)' \subseteq DOMAIN table
      BY <3>1
    <3>3. Cardinality(Between(h)') <= Cardinality(DOMAIN table) /\ Cardinality(Between(h)') \in Nat
      BY <1>0, <3>2, FS_Subset, FS_CardinalityType
    <3>4. since'[h] = 0
      BY <1>1, <2>1
    <3> QED
      BY <1>2, <1>3, <3>3, <3>4
  <2>2. CASE h # k
    <3>1. since[h] < Spare /\ since'[h] = since[h] + 1 /\ since[h] \in Nat
      BY <1>0, <1>1, <1>5, <2>2
    <3>2. Ahead(h) > Ahead(k)
      <4>1. ASSUME Ahead(h) <= Ahead(k)
            PROVE  FALSE
        <5>1. h \in DOMAIN table
          BY <1>1, <1>2, <2>2, <4>1 DEF FreeHandle
        <5>2. since[h] = Spare
          BY <1>1, <4>1, <5>1, Overtaken
        <5> QED
          BY <1>2, <3>1, <5>2
      <4> QED
        BY <1>2, <4>1
    <3>3. ASSUME NEW j \in Between(h)'
          PROVE  j \in Between(h) \cup {k}
      <4>1. j \in Handles \ {h} /\ (Ahead(j)' > Ahead(h)' \/ j \in DOMAIN table')
        BY <3>3 DEF Between
      <4>2. CASE Ahead(j)' > Ahead(h)' /\ j # k
        <5>1. CASE Ahead(j) > Ahead(k)
          <6>1. Ahead(j) > Ahead(h)
            BY <1>1, <1>2, <3>2, <4>1, <4>2, <5>1
          <6> QED
            BY <4>1, <6>1 DEF Between
        <5>2. CASE Ahead(j) < Ahead(k)
          <6>1. j \in DOMAIN table
            BY <1>1, <1>2, <4>1, <5>2 DEF FreeHandle
          <6> QED
            BY <4>1, <6>1 DEF Between
        <5> QED
          BY <1>1, <1>2, <4>1, <4>2, <5>1, <5>2
      <4>3. CASE j \in DOMAIN table' /\ j # k
        BY <1>1, <4>1, <4>3 DEF Between
      <4> QED
        BY <4>1, <4>2, <4>3
    <3>4. Between(h)' \in SUBSET (Between(h) \cup {k})
      BY <3>3
    <3>5. /\ IsFiniteSet(Between(h) \cup {k})
          /\ Cardinality(Between(h) \cup {k}) <= Cardinality(Between(h)) + 1
          /\ Cardinality(Between(h) \cup {k}) \in Nat /\ Cardinality(Between(h)) \in Nat
      <4>1. IsFiniteSet(Between(h)) /\ Cardinality(Between(h)) \in Nat
        BY BetweenFinite
      <4>2. /\ IsFiniteSet(Between(h) \cup {k})
            /\ Cardinality(Between(h) \cup {k}) = IF k \in Between(h) THEN Cardinality(Between(h))
                                                  ELSE Cardinality(Between(h)) + 1
        BY <4>1, FS_AddElement
      <4> QED
        BY <4>1, <4>2
    <3>6. /\ Cardinality(Between(h)') <= Cardinality(Between(h) \cup {k})
          /\ Cardinality(Between(h)') \in Nat
      BY <3>4, <3>5, FS_Subset, FS_CardinalityType
    <3>7. Cardinality(Between(h)) <= since[h] + Limit - 1
      BY <3>1 DEF RotationInv, FarAhead
    <3> QED
      BY <1>2, <3>1, <3>5, <3>6, <3>7
  <2> QED
    BY <2>1, <2>2
<1>6. FarAhead'
  BY <1>5 DEF FarAhead
<1> QED
  BY <1>1, <1>4, <1>6

LEMMA DeleteRotates ==
  ASSUME RotationInv, NEW th \in Threads, Delete(th)
  PROVE  FarAhead' /\ DOMAIN table' \subseteq DOMAIN table
<1>1. /\ nextHandle' = nextHandle /\ since' = since /\ DOMAIN table' \subseteq DOMAIN table
      /\ since \in [Handles -> 0..Spare]
  BY DEF Delete, Restrict, RotationInv, TableInv, RefInv, OtherTypes
<1>2. ASSUME NEW h \in Handles, since'[h] < Spare
      PROVE  Cardinality(Between(h)') <= since'[h] + Limit - 1
  <2>1. Between(h)' \in SUBSET Between(h)
    BY <1>1 DEF Between, Ahead
  <2>2. /\ Cardinality(Between(h)') <= Cardinality(Between(h))
        /\ Cardinality(Between(h)') \in Nat /\ Cardinality(Between(h)) \in Nat
    BY <2>1, BetweenFinite, FS_Subset, FS_CardinalityType
  <2>3. Cardinality(Between(h)) <= since[h] + Limit - 1 /\ since[h] \in Nat
    BY <1>1, <1>2, HandlesFinite DEF RotationInv, FarAhead
  <2> QED
    BY <1>1, <2>2, <2>3, HandlesFinite
<1> QED
  BY <1>1, <1>2 DEF FarAhead

LEMMA FarAheadKept ==
  ASSUME RotationInv, [Next]_vars
  PROVE  /\ FarAhead'
         /\ \A h \in DOMAIN table' \ DOMAIN table : since[h] = Spare
<1>1. CASE UNCHANGED <<table, nextHandle, since>>
  BY <1>1 DEF RotationInv, FarAhead, Between, Ahead
<1> QED
  BY <1>1, StoreRotates, DeleteRotates DEF Next, Start, Proceed, Create, Find, StoreRefused,
     Enter, RowFails, RowDone, RowReported, CallbackReturns, Resume, Leave, Drop, vars

\* No handle is issued again before as many others were as the table leaves free.
THEOREM HandlesComeRound == Spec => HandlesRotate
<1>1. Init => FarAhead
  <2> SUFFICES ASSUME Init, NEW h \in Handles PROVE ~(since[h] < Spare)
    BY DEF FarAhead
  <2>1. since[h] = Spare
    BY DEF Init
  <2> QED
    BY <2>1, HandlesFinite
<1>2. RotationInv /\ [Next]_vars => FarAhead'
  BY FarAheadKept
<1>3. RotationInv /\ [Next]_vars =>
        [\A h \in DOMAIN table' \ DOMAIN table : since[h] = Spare]_vars
  BY FarAheadKept
<1> QED
  BY <1>1, <1>2, <1>3, TableInvHolds, PTL DEF Spec, RotationInv, HandlesRotate
=============================================================================
