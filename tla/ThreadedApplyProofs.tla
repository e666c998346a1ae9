------------------------- MODULE ThreadedApplyProofs -------------------------
(***************************************************************************)
(* Proofs about ThreadedApply, for every number of threads, every strip    *)
(* rule and every call size.  ControlInv and WriteInv are the inductive    *)
(* invariants (ThreadedApplyInv); the properties follow from them.         *)
(***************************************************************************)
EXTENDS ThreadedApplyInv, FiniteSetTheorems, WellFoundedInduction, TLAPS

-----------------------------------------------------------------------------
(* Arithmetic *)

LEMMA DivMod ==
  ASSUME NEW a \in Nat, NEW b \in Nat \ {0}
  PROVE  /\ a \div b \in Nat
         /\ a % b \in 0..(b - 1)
         /\ a = b * (a \div b) + (a % b)
OBVIOUS

LEMMA ProductMono ==
  ASSUME NEW a \in Nat, NEW b \in Nat, NEW c \in Nat, a <= b
  PROVE  a * c <= b * c
OBVIOUS

LEMMA NatMinimum ==
  ASSUME NEW S, S \subseteq Nat, S # {}
  PROVE  \E m \in S : \A k \in S : m <= k
<1>. DEFINE R == OpToRel(<, Nat)
<1>1. IsWellFoundedOn(R, Nat)
  BY NatLessThanWellFounded
<1>. HIDE DEF R
<1>2. PICK m \in S : \A k \in S : ~ (<<k, m>> \in R)
  BY <1>1, WFMin
<1>3. \A a, b \in Nat : a < b => <<a, b>> \in R
  BY DEF R, OpToRel
<1>4. ASSUME NEW k \in S
      PROVE  m <= k
  <2>1. k \in Nat /\ m \in Nat
    OBVIOUS
  <2>2. ~ (<<k, m>> \in R)
    BY <1>2
  <2>. QED  BY <2>1, <2>2, <1>3
<1>. QED  BY <1>4

\* A call of at least one pixel has work for at least one thread.
LEMMA UsefulThreadsType ==
  ASSUME NEW k \in Nat
  PROVE  UsefulThreads(k) \in Nat
<1>1. ASSUME NEW per \in Nat \ {0}
      PROVE  (k \div per) + (IF k % per # 0 THEN 1 ELSE 0) \in Nat
  BY DivMod
<1>. QED  BY <1>1, SizesAssumption DEF UsefulThreads

LEMMA StripCountType ==
  ASSUME NEW k \in Nat, NEW a \in Nat \ {0}, NEW i \in Nat
  PROVE  StripCount(k, a, i) \in Nat
BY DivMod DEF StripCount

\* One turn of the fill loop keeps the offset on its closed form, and within
\* the pixels of the call.
LEMMA OffsetStep ==
  ASSUME NEW k \in Nat, NEW a \in Nat \ {0}, NEW i \in Nat, i < a
  PROVE  /\ StripFirst(k, a, i) + StripCount(k, a, i) = StripFirst(k, a, i + 1)
         /\ StripFirst(k, a, i + 1) <= k
<1>. DEFINE q == k \div a
            r == k % a
<1>1. q \in Nat /\ r \in 0..(a - 1) /\ k = a * q + r
  BY DivMod
<1>2. /\ StripFirst(k, a, i) = i * q + Least(i, r)
      /\ StripFirst(k, a, i + 1) = (i + 1) * q + Least(i + 1, r)
      /\ StripCount(k, a, i) = q + (IF i < r THEN 1 ELSE 0)
  BY DEF StripFirst, StripCount
<1>. HIDE DEF q, r
<1>3. (i + 1) * q = i * q + q /\ i * q \in Nat /\ a * q \in Nat
  BY <1>1
<1>4. (i + 1) * q <= a * q
  BY <1>1, ProductMono
<1>. QED  BY <1>1, <1>2, <1>3, <1>4 DEF Least

LEMMA OffsetStart ==
  ASSUME NEW k \in Nat, NEW a \in Nat \ {0}
  PROVE  StripFirst(k, a, 0) = 0
BY DivMod DEF StripFirst, Least
-----------------------------------------------------------------------------
(* Threads *)

LEMMA PoolFinite ==
  /\ IsFiniteSet(Pool)
  /\ Cardinality(Pool) = MaxThreads - 1
  /\ \A S \in SUBSET Pool : /\ IsFiniteSet(S)
                            /\ Cardinality(S) \in 0..(MaxThreads - 1)
<1>1. IsFiniteSet(Pool) /\ Cardinality(Pool) = MaxThreads - 1
  BY FS_Interval, ThreadsAssumption DEF Pool
<1>. QED  BY <1>1, FS_Subset, FS_CardinalityType, ThreadsAssumption

\* No job is pending exactly when none is queued and no thread holds one.
LEMMA NothingPending ==
  ASSUME TypeOK, QueueInv, pending = 0
  PROVE  jobCount = 0 /\ Busy = {}
<1>1. Cardinality(Busy) \in Nat /\ IsFiniteSet(Busy)
  BY PoolFinite DEF Busy
<1>2. jobCount = 0 /\ Cardinality(Busy) = 0
  BY <1>1 DEF QueueInv, TypeOK
<1>. QED  BY <1>1, <1>2, FS_EmptySet
-----------------------------------------------------------------------------
(* The control invariant *)

\* A step that leaves the queue, the held jobs and the busy threads alone
\* keeps the accounting, if it keeps the phase of the call.
LEMMA QueueFrame ==
  ASSUME QueueInv, UNCHANGED <<poolVars, job>>, Busy' = Busy,
         pc' \notin {"run", "check", "asleep"} => pending = 0,
         Engaged' => Engaged /\ nActive' = nActive
  PROVE  QueueInv'
BY DEF QueueInv, poolVars, Engaged

LEMMA FillFrame ==
  ASSUME FillInv, UNCHANGED <<n, nActive, t, offset, tasks>>,
         Cut' => Cut, Engaged' => Engaged
  PROVE  FillInv'
BY DEF FillInv, End

LEMMA FreshTask ==
  /\ Ok \in Statuses
  /\ NoTask \in [worker : Slots \cup {0}, first : Nat, count : Nat,
                 status : Statuses]
BY DEF NoTask, Statuses

LEMMA ControlInit == Init => ControlInv
<1>. SUFFICES ASSUME Init PROVE ControlInv
  OBVIOUS
<1>1. TypeOK
  <2>1. tasks \in [Slots -> [worker : Slots \cup {0}, first : Nat,
                           count : Nat, status : Statuses]]
        /\ jobs \in [Slots -> Slots \cup {0}]
    BY FreshTask DEF Init
  <2>2. /\ tpc \in [Pool -> {"none", "check", "asleep", "run", "report",
                           "exited"}]
        /\ job \in [Pool -> Slots \cup {0}] /\ status \in [Pool -> Statuses]
    BY FreshTask DEF Init
  <2>3. /\ pc = "none" /\ base = "alive" /\ owned \in BOOLEAN /\ stop = FALSE
        /\ nThreads \in 1..MaxThreads /\ nWorkers \in 0..MaxThreads
        /\ nStarted \in 0..(MaxThreads - 1)
        /\ n \in 0..MaxPixels /\ nActive \in 0..MaxThreads
        /\ t \in 0..MaxThreads /\ offset \in Nat
        /\ jobHead \in 0..MaxThreads /\ jobCount \in 0..MaxThreads
        /\ pending \in 0..MaxThreads
    BY ThreadsAssumption, SizesAssumption DEF Init
  <2>4. own \in Statuses /\ rv \in Statuses \cup {AllocErr}
        /\ out \subseteq Nat \X Nat
    BY FreshTask DEF Init
  <2>. QED  BY <2>1, <2>2, <2>3, <2>4 DEF TypeOK
<1>2. LifeInv
  BY DEF Init, LifeInv, Pool, Cut, Engaged
<1>3. QueueInv
  <2>1. Busy = {}
    BY DEF Init, Busy
  <2>. QED  BY <2>1, FS_EmptySet DEF Init, QueueInv, Engaged
<1>4. FillInv
  BY DEF Init, FillInv, Cut, Engaged
<1>. QED  BY <1>1, <1>2, <1>3, <1>4 DEF ControlInv

LEMMA PixelsType ==
  ASSUME NEW first \in Nat, NEW count
  PROVE  Pixels(first, count) \subseteq Nat \X Nat
<1>1. DstAt(first) \in Nat /\ SrcAt(first) \in Nat
  <2>1. first * NDst \in Nat /\ first * NSrc \in Nat
    BY SizesAssumption
  <2>. QED  BY <2>1, DivMod, SizesAssumption DEF DstAt, SrcAt
<1>2. \A j \in 0..(count - 1) : j * NDst \in Nat /\ j * NSrc \in Nat
  <2>1. \A j \in Nat : j * NDst \in Nat /\ j * NSrc \in Nat
    BY SizesAssumption
  <2>. QED  BY <2>1
<1>. QED  BY <1>1, <1>2 DEF Pixels

\* The status collected is the caller's or that of some failed task.
LEMMA VerdictType ==
  ASSUME TypeOK
  PROVE  /\ Verdict \in Statuses
         /\ Verdict = Ok => own = Ok /\ Failed = {}
<1>1. CASE own # Ok \/ Failed = {}
  BY <1>1 DEF Verdict, TypeOK
<1>2. CASE own = Ok /\ Failed # {}
  <2>1. PICK i \in Failed : \A j \in Failed : i <= j
    <3>1. Failed \subseteq Nat /\ Failed # {}
      BY <1>2 DEF Failed, Slots
    <3>. QED  BY <3>1, NatMinimum
  <2>. DEFINE m == CHOOSE k \in Failed : \A j \in Failed : k <= j
  <2>2. m \in Failed
    BY <2>1
  <2>3. Verdict = tasks[m].status
    BY <1>2 DEF Verdict
  <2>. QED  BY <2>2, <2>3 DEF Failed, TypeOK
<1>. QED  BY <1>1, <1>2 DEF TypeOK

LEMMA ControlStep == ControlInv /\ [Next]_vars => ControlInv'
<1>. SUFFICES ASSUME TypeOK, LifeInv, QueueInv, FillInv, [Next]_vars
              PROVE  TypeOK' /\ LifeInv' /\ QueueInv' /\ FillInv'
  BY DEF ControlInv
<1>. USE ThreadsAssumption, SizesAssumption
<1>1. CASE Attach
  <2>1. \A request \in Requests, hw \in Hardware :
          ResolveThreadCount(request, hw) > 0
            => ResolveThreadCount(request, hw) \in 1..MaxThreads
    BY InputsAssumption DEF ResolveThreadCount, Least
  <2>2. TypeOK'
    <3>1. /\ tasks' \in [Slots -> [worker : Slots \cup {0}, first : Nat,
                                  count : Nat, status : Statuses]]
          /\ jobs' \in [Slots -> Slots \cup {0}]
      BY <1>1, FreshTask DEF Attach
    <3>2. /\ pc' = "idle" /\ base' = "alive" /\ owned' \in BOOLEAN
          /\ stop' = FALSE
          /\ nThreads' \in 1..MaxThreads /\ nWorkers' \in 0..MaxThreads
          /\ nStarted' \in 0..(MaxThreads - 1)
          /\ n' \in 0..MaxPixels /\ nActive' \in 0..MaxThreads
          /\ t' \in 0..MaxThreads /\ offset' \in Nat
          /\ jobHead' \in 0..MaxThreads /\ jobCount' \in 0..MaxThreads
          /\ pending' \in 0..MaxThreads
      BY <1>1, <2>1 DEF Attach
    <3>3. own' \in Statuses /\ rv' \in Statuses \cup {AllocErr}
          /\ out' \subseteq Nat \X Nat
      BY <1>1, FreshTask DEF Attach
    <3>4. UNCHANGED threadVars
      BY <1>1 DEF Attach
    <3>. QED  BY <3>1, <3>2, <3>3, <3>4 DEF TypeOK, threadVars
  <2>3. LifeInv'
    BY <1>1, <2>1 DEF LifeInv, TypeOK, Attach, Cut, Engaged, threadVars, Pool
  <2>4. QueueInv'
    <3>1. Busy' = {}
      BY <1>1 DEF LifeInv, Attach, Busy, threadVars, Pool
    <3>. QED  BY <1>1, <3>1, FS_EmptySet DEF QueueInv, Attach, Engaged
  <2>5. FillInv'
    BY <1>1 DEF FillInv, Attach, Cut, Engaged
  <2>. QED  BY <2>2, <2>3, <2>4, <2>5
<1>2. CASE AttachFails
  <2>. USE <1>2 DEF AttachFails, callVars, poolVars, threadVars
  <2>1. TypeOK'
    BY DEF TypeOK
  <2>2. LifeInv'
    BY DEF LifeInv, Cut, Engaged
  <2>3. QueueInv'
    BY QueueFrame DEF Busy, Engaged, QueueInv
  <2>4. FillInv'
    BY FillFrame DEF Cut, Engaged
  <2>. QED  BY <2>1, <2>2, <2>3, <2>4
<1>3. CASE DestroyCmm
  <2>. USE <1>3 DEF DestroyCmm, callVars, poolVars, threadVars
  <2>1. TypeOK'
    BY DEF TypeOK
  <2>2. LifeInv'
    BY DEF LifeInv, Cut, Engaged
  <2>3. QueueInv'
    BY QueueFrame DEF Busy, Engaged, QueueInv
  <2>4. FillInv'
    BY FillFrame DEF Cut, Engaged
  <2>. QED  BY <2>1, <2>2, <2>3, <2>4
<1>4. CASE StopPool
  <2>. USE <1>4 DEF StopPool, callVars, poolVars
  <2>1. TypeOK'
    BY DEF TypeOK
  <2>2. LifeInv'
    BY DEF LifeInv, Cut, Engaged, Asleep
  <2>3. QueueInv'
    BY QueueFrame DEF Busy, Asleep, Engaged, QueueInv, Pool
  <2>4. FillInv'
    BY FillFrame DEF Cut, Engaged
  <2>. QED  BY <2>1, <2>2, <2>3, <2>4
<1>5. CASE FreeWorkers
  <2>. USE <1>5 DEF FreeWorkers, callVars, poolVars
  <2>1. TypeOK'
    BY DEF TypeOK
  <2>2. LifeInv'
    BY DEF LifeInv, Cut, Engaged, Joined, Pool, TypeOK
  <2>3. QueueInv'
    BY QueueFrame, NothingPending DEF Busy, Joined, Engaged, QueueInv, Pool
  <2>4. FillInv'
    BY FillFrame DEF Cut, Engaged
  <2>. QED  BY <2>1, <2>2, <2>3, <2>4
<1>6. ASSUME NEW k \in 0..MaxPixels, Call(k)
      PROVE  TypeOK' /\ LifeInv' /\ QueueInv' /\ FillInv'
  <2>. USE <1>6 DEF Call, objectVars, poolVars, threadVars
  <2>1. TypeOK'
    BY DEF TypeOK
  <2>2. LifeInv'
    BY DEF LifeInv, Cut, Engaged
  <2>3. QueueInv'
    BY QueueFrame DEF Busy, Engaged, QueueInv
  <2>4. FillInv'
    BY DEF FillInv, Cut, Engaged
  <2>. QED  BY <2>1, <2>2, <2>3, <2>4
<1>7. CASE ReturnEmpty
  <2>. USE <1>7 DEF ReturnEmpty, objectVars, poolVars, threadVars
  <2>1. TypeOK'
    BY DEF TypeOK, Statuses
  <2>2. LifeInv'
    BY DEF LifeInv, Cut, Engaged
  <2>3. QueueInv'
    BY QueueFrame DEF Busy, Engaged, QueueInv
  <2>4. FillInv'
    BY FillFrame DEF Cut, Engaged
  <2>. QED  BY <2>1, <2>2, <2>3, <2>4
<1>8. CASE Divide
  <2>. USE <1>8 DEF Divide, objectVars, poolVars, threadVars
  <2>1. n \in Nat /\ UsefulThreads(n) \in Nat
    BY UsefulThreadsType DEF TypeOK
  <2>2. nActive' \in 0..nThreads
    BY <2>1 DEF Least, TypeOK
  <2>3. TypeOK'
    BY <2>2 DEF TypeOK
  <2>4. LifeInv'
    <3>1. pc' = "solo" => nActive' <= 1
      OBVIOUS
    <3>2. pc' = "workers" => nActive' \in 2..nThreads /\ n > 0
      BY <2>1, <2>2 DEF TypeOK
    <3>3. pc' \in {"solo", "workers"} /\ pc = "entry"
      OBVIOUS
    <3>. HIDE <1>8 DEF Divide
    <3>4. UNCHANGED <<objectVars, n, tpc>>
      BY <1>8 DEF Divide
    <3>. QED  BY <3>1, <3>2, <3>3, <3>4 DEF LifeInv, Cut, Engaged
  <2>5. QueueInv'
    BY QueueFrame DEF Busy, Engaged, QueueInv
  <2>6. FillInv'
    BY DEF FillInv, Cut, Engaged
  <2>. QED  BY <2>3, <2>4, <2>5, <2>6
<1>9. CASE Solo
  <2>. USE <1>9 DEF Solo, objectVars, poolVars, threadVars
  <2>1. TypeOK'
    <3>1. \A done : Pixels(0, done) \subseteq Nat \X Nat
      BY PixelsType
    <3>. QED  BY <3>1 DEF TypeOK, Transform
  <2>2. LifeInv'
    BY DEF LifeInv, Cut, Engaged
  <2>3. QueueInv'
    BY QueueFrame DEF Busy, Engaged, QueueInv
  <2>4. FillInv'
    BY FillFrame DEF Cut, Engaged
  <2>. QED  BY <2>1, <2>2, <2>3, <2>4
<1>10. CASE EnsureWorkers
  <2>. USE <1>10 DEF EnsureWorkers, WorkersNeeded, callVars, poolVars, threadVars
  <2>1. TypeOK'
    BY DEF TypeOK
  <2>2. LifeInv'
    BY DEF LifeInv, Cut, Engaged, TypeOK
  <2>3. QueueInv'
    BY QueueFrame DEF Busy, Engaged, QueueInv
  <2>4. FillInv'
    BY FillFrame DEF Cut, Engaged
  <2>. QED  BY <2>1, <2>2, <2>3, <2>4
<1>11. CASE EnsureWorkersFails \/ EnsureWorkerThreadsFails
  <2>. USE <1>11 DEF EnsureWorkersFails, EnsureWorkerThreadsFails, ReturnAllocErr,
                     objectVars, poolVars, threadVars
  <2>1. TypeOK'
    BY DEF TypeOK, Statuses
  <2>2. LifeInv'
    BY DEF LifeInv, Cut, Engaged
  <2>3. QueueInv'
    BY QueueFrame DEF Busy, Engaged, QueueInv
  <2>4. FillInv'
    BY FillFrame DEF Cut, Engaged
  <2>. QED  BY <2>1, <2>2, <2>3, <2>4
<1>12. CASE EnsureWorkerThreads
  <2>. USE <1>12 DEF EnsureWorkerThreads, poolVars
  <2>1. TypeOK'
    BY DEF TypeOK, LifeInv
  <2>2. LifeInv'
    <3>1. /\ pc = "threads" /\ pc' \in {"threads", "fill"}
          /\ UNCHANGED <<base, nThreads, nWorkers, stop, n, nActive>>
      OBVIOUS
    <3>2. nActive \in 2..nThreads /\ nThreads \in Nat /\ nStarted \in Nat
      BY DEF LifeInv, TypeOK
    <3>3. /\ nStarted' < nThreads
          /\ \A i \in Pool : tpc'[i] = "none" <=> nStarted' < i
          /\ \A i \in Pool : tpc'[i] # "exited"
      BY <3>2 DEF LifeInv, TypeOK, Pool
    <3>. HIDE <1>12 DEF EnsureWorkerThreads
    <3>. QED  BY <3>1, <3>3 DEF LifeInv, Cut, Engaged
  <2>3. QueueInv'
    BY QueueFrame DEF Busy, Engaged, QueueInv, LifeInv, Pool, TypeOK
  <2>4. FillInv'
    <3>1. CASE nStarted < nActive - 1
      BY <3>1, FillFrame DEF Cut, Engaged
    <3>2. CASE ~(nStarted < nActive - 1)
      <4>1. n \in Nat /\ nActive \in Nat \ {0}
        BY DEF TypeOK, LifeInv
      <4>2. StripFirst(n, nActive, 0) = 0
        BY <4>1, OffsetStart
      <4>. QED  BY <3>2, <4>1, <4>2 DEF FillInv, Cut, Engaged
    <3>. QED  BY <3>1, <3>2
  <2>. QED  BY <2>1, <2>2, <2>3, <2>4
<1>13. CASE FillTask
  <2>. DEFINE c == StripCount(n, nActive, t)
              new == [worker |-> t, first |-> offset, count |-> c, status |-> Ok]
  <2>1. /\ pc = "fill" /\ t < nActive - 1
        /\ tasks' = [tasks EXCEPT ![t] = new]
        /\ offset' = offset + c /\ t' = t + 1
        /\ UNCHANGED <<pc, objectVars, n, nActive, own, rv, poolVars, threadVars,
                       out>>
    BY <1>13 DEF FillTask, TaskWorker, NextOffset
  <2>2. /\ n \in Nat /\ nActive \in Nat \ {0} /\ t \in Nat /\ offset \in Nat
        /\ t \in Slots /\ t + 1 \in 0..MaxThreads
    BY <2>1 DEF TypeOK, LifeInv, FillInv, Cut, Slots
  <2>3. c \in Nat
    BY <2>2, StripCountType
  <2>. HIDE DEF c
  <2>4. /\ new \in [worker : Slots \cup {0}, first : Nat, count : Nat,
                    status : Statuses]
        /\ new.worker = t /\ new.first = offset /\ new.count = c
    BY <2>2, <2>3 DEF Statuses
  <2>. HIDE DEF new
  <2>5. TypeOK'
    <3>1. tasks' \in [Slots -> [worker : Slots \cup {0}, first : Nat,
                               count : Nat, status : Statuses]]
      BY <2>1, <2>4 DEF TypeOK
    <3>2. offset' \in Nat /\ t' \in 0..MaxThreads
      BY <2>1, <2>2, <2>3
    <3>. QED  BY <2>1, <3>1, <3>2 DEF TypeOK, objectVars, poolVars, threadVars
  <2>6. LifeInv'
    BY <2>1 DEF LifeInv, Cut, Engaged, objectVars, threadVars
  <2>7. QueueInv'
    BY <2>1, QueueFrame DEF Busy, Engaged, QueueInv, threadVars
  <2>8. FillInv'
    <3>1. /\ offset = StripFirst(n, nActive, t)
          /\ \A k \in 0..(t - 1) : tasks[k].worker = k /\ End(tasks[k]) <= offset
          /\ \A k, l \in 0..(t - 1) : k < l => End(tasks[k]) <= tasks[l].first
          /\ \A p \in 0..(n - 1) : p < offset =>
               \E k \in 0..(t - 1) : tasks[k].first <= p /\ p < End(tasks[k])
      BY <2>1 DEF FillInv, Cut
    <3>2. offset' = StripFirst(n, nActive, t') /\ offset' <= n
      <4>1. t < nActive
        BY <2>1, <2>2
      <4>2. /\ StripFirst(n, nActive, t) + c = StripFirst(n, nActive, t + 1)
            /\ StripFirst(n, nActive, t + 1) <= n
        BY <2>2, <4>1, OffsetStep DEF c
      <4>. QED  BY <2>1, <3>1, <4>2
    <3>3. t' - 1 = t /\ offset' \in Nat /\ offset <= offset'
      BY <2>1, <2>2, <2>3
    <3>4. /\ tasks'[t].worker = t /\ tasks'[t].first = offset
          /\ End(tasks'[t]) = offset'
      <4>1. tasks'[t] = new
        BY <2>1, <2>2 DEF TypeOK
      <4>. QED  BY <2>1, <2>4, <4>1 DEF End
    <3>5. \A k \in 0..(t - 1) :
            /\ tasks'[k] = tasks[k] /\ End(tasks'[k]) = End(tasks[k])
            /\ tasks[k].first \in Nat /\ End(tasks[k]) \in Nat
      BY <2>1, <2>2 DEF TypeOK, End, Slots
    <3>6. \A k \in 0..t : k = t \/ k \in 0..(t - 1)
      BY <2>2
    <3>7. ASSUME NEW k \in 0..t
          PROVE  tasks'[k].worker = k /\ End(tasks'[k]) <= offset'
      <4>1. CASE k = t
        BY <2>2, <3>3, <3>4, <4>1
      <4>2. CASE k \in 0..(t - 1)
        <5>1. End(tasks[k]) <= offset /\ End(tasks[k]) \in Nat /\ End(tasks'[k]) = End(tasks[k])
          BY <3>1, <3>5, <4>2
        <5>. QED  BY <2>2, <3>1, <3>3, <3>5, <4>2, <5>1
      <4>. QED  BY <3>6, <4>1, <4>2
    <3>8. \A k, l \in 0..t : k < l => End(tasks'[k]) <= tasks'[l].first
      BY <2>2, <3>1, <3>4, <3>5, <3>6
    <3>9. ASSUME NEW p \in 0..(n - 1), p < offset'
          PROVE  \E k \in 0..t : tasks'[k].first <= p /\ p < End(tasks'[k])
      <4>1. CASE p < offset
        <5>1. PICK k \in 0..(t - 1) : tasks[k].first <= p /\ p < End(tasks[k])
          BY <2>2, <3>1, <3>3, <4>1
        <5>. QED  BY <2>2, <3>5, <5>1
      <4>2. CASE offset <= p
        <5>1. tasks'[t].first <= p
          BY <3>4, <4>2
        <5>2. p < End(tasks'[t])
          <6>1. End(tasks'[t]) = offset'
            BY <3>4
          <6>. QED  BY <3>9, <6>1, Zenon
        <5>3. t \in 0..t
          BY <2>2
        <5>. QED  BY <5>1, <5>2, <5>3, Zenon
      <4>. QED  BY <2>2, <3>3, <4>1, <4>2
    <3>10. t' \in 0..(nActive' - 1) /\ ~ Engaged'
      BY <2>1, <2>2 DEF Engaged
    <3>. QED  BY <2>1, <3>2, <3>3, <3>7, <3>8, <3>9, <3>10 DEF FillInv
  <2>. QED  BY <2>5, <2>6, <2>7, <2>8
<1>14. CASE Publish
  <2>. USE <1>14 DEF Publish, objectVars, callVars
  <2>1. PICK woken \in SUBSET Asleep :
          tpc' = [i \in Pool |-> IF i \in woken THEN "check" ELSE tpc[i]]
    BY DEF NotifyThreads
  <2>2. nActive \in 2..nThreads /\ nThreads \in 1..MaxThreads
    BY DEF LifeInv, TypeOK, Cut
  <2>3. TypeOK'
    BY <2>1, <2>2 DEF TypeOK, Slots
  <2>4. LifeInv'
    BY <2>1 DEF LifeInv, Cut, Engaged, Asleep, Pool
  <2>5. QueueInv'
    <3>1. Busy = {}
      BY NothingPending DEF QueueInv
    <3>2. Busy' = {}
      BY <2>1, <3>1 DEF Busy, Asleep
    <3>. QED  BY <2>2, <3>2, FS_EmptySet DEF QueueInv, Engaged
  <2>6. FillInv'
    BY DEF FillInv, Cut, Engaged, End
  <2>. QED  BY <2>3, <2>4, <2>5, <2>6
<1>15. CASE RunOwnStrip
  <2>. USE <1>15 DEF RunOwnStrip, objectVars, poolVars, threadVars
  <2>1. TypeOK'
    <3>1. \A done : Pixels(offset, done) \subseteq Nat \X Nat
      BY PixelsType DEF TypeOK
    <3>. QED  BY <3>1 DEF TypeOK, Transform
  <2>2. LifeInv'
    BY DEF LifeInv, Cut, Engaged
  <2>3. QueueInv'
    BY QueueFrame DEF Busy, Engaged, QueueInv
  <2>4. FillInv'
    BY FillFrame DEF Cut, Engaged
  <2>. QED  BY <2>1, <2>2, <2>3, <2>4
<1>16. CASE AwaitDone
  <2>. USE <1>16 DEF AwaitDone, AllDone, objectVars, callVars, poolVars, threadVars
  <2>1. TypeOK'
    BY DEF TypeOK
  <2>2. LifeInv'
    BY DEF LifeInv, Cut, Engaged
  <2>3. QueueInv'
    BY QueueFrame DEF Busy, Engaged, QueueInv
  <2>4. FillInv'
    BY FillFrame DEF Cut, Engaged
  <2>. QED  BY <2>1, <2>2, <2>3, <2>4
<1>17. CASE Collect
  <2>. USE <1>17 DEF Collect, objectVars, poolVars, threadVars
  <2>1. Verdict \in Statuses
    BY VerdictType
  <2>2. TypeOK'
    BY <2>1 DEF TypeOK
  <2>3. LifeInv'
    BY DEF LifeInv, Cut, Engaged
  <2>4. QueueInv'
    BY QueueFrame DEF Busy, Engaged, QueueInv
  <2>5. FillInv'
    BY FillFrame DEF Cut, Engaged
  <2>. QED  BY <2>2, <2>3, <2>4, <2>5
<1>18. ASSUME NEW i \in Pool, TakeJob(i)
       PROVE  TypeOK' /\ LifeInv' /\ QueueInv' /\ FillInv'
  <2>. USE <1>18 DEF objectVars, callVars
  <2>1. CASE stop
    <3>. USE <2>1 DEF TakeJob, JobReady
    <3>1. TypeOK'
      BY DEF TypeOK
    <3>2. LifeInv'
      <4>1. pc = "join"
        BY DEF LifeInv, Pool, TypeOK
      <4>. QED  BY <4>1 DEF LifeInv, Cut, Engaged, TypeOK
    <3>3. QueueInv'
      BY QueueFrame DEF Busy, Engaged, QueueInv, poolVars, TypeOK
    <3>4. FillInv'
      BY FillFrame DEF Cut, Engaged
    <3>. QED  BY <3>1, <3>2, <3>3, <3>4
  <2>2. CASE ~ stop /\ jobCount = 0
    <3>. USE <2>2 DEF TakeJob, JobReady
    <3>1. TypeOK'
      BY DEF TypeOK
    <3>2. LifeInv'
      BY DEF LifeInv, Cut, Engaged, TypeOK
    <3>3. QueueInv'
      BY QueueFrame DEF Busy, Engaged, QueueInv, poolVars, TypeOK
    <3>4. FillInv'
      BY FillFrame DEF Cut, Engaged
    <3>. QED  BY <3>1, <3>2, <3>3, <3>4
  <2>3. CASE ~ stop /\ jobCount # 0
    <3>1. /\ tpc[i] = "check" /\ tpc' = [tpc EXCEPT ![i] = "run"]
          /\ job' = [job EXCEPT ![i] = jobs[jobHead]]
          /\ jobHead' = jobHead + 1 /\ jobCount' = jobCount - 1
          /\ UNCHANGED <<pc, objectVars, callVars, tasks, jobs, pending, status,
                         out>>
      BY <2>3 DEF TakeJob, JobReady
    <3>2. /\ jobHead \in Nat /\ jobCount \in Nat \ {0} /\ pending # 0
          /\ pc \in {"run", "check", "asleep"}
      <4>1. Cardinality(Busy) \in Nat
        BY PoolFinite DEF Busy
      <4>2. jobHead \in Nat /\ jobCount \in Nat /\ pending \in Nat
        BY DEF TypeOK
      <4>. QED  BY <2>3, <4>1, <4>2 DEF QueueInv
    <3>3. /\ jobHead + jobCount = nActive - 1 /\ nActive \in 2..MaxThreads
          /\ jobHead \in Slots /\ jobs[jobHead] = jobHead
      BY <2>3, <3>2 DEF QueueInv, LifeInv, Cut, Engaged, TypeOK, Slots
    <3>4. TypeOK'
      BY <3>1, <3>2, <3>3 DEF TypeOK
    <3>5. LifeInv'
      BY <3>1 DEF LifeInv, Cut, Engaged, TypeOK
    <3>6. QueueInv'
      <4>1. Busy' = Busy \cup {i} /\ i \notin Busy
        BY <3>1 DEF Busy, TypeOK
      <4>2. Cardinality(Busy') = Cardinality(Busy) + 1 /\ Cardinality(Busy) \in Nat
        <5>1. IsFiniteSet(Busy) /\ Cardinality(Busy) \in Nat
          BY PoolFinite DEF Busy
        <5>. QED  BY <4>1, <5>1, FS_AddElement
      <4>3. job'[i] = jobHead /\ \A j \in Busy : job'[j] = job[j]
        BY <3>1, <3>3, <4>1 DEF TypeOK, Busy
      <4>4. pending' = jobCount' + Cardinality(Busy')
        BY <3>1, <3>2, <4>2 DEF QueueInv, TypeOK
      <4>5. \A j \in Busy' : job'[j] \in Slots /\ job'[j] < jobHead'
        BY <3>1, <3>2, <3>3, <4>1, <4>3 DEF QueueInv, Slots
      <4>6. \A j, k \in Busy' : j # k => job'[j] # job'[k]
        BY <3>2, <4>1, <4>3 DEF QueueInv, Slots
      <4>7. \A k \in Slots :
              jobHead' <= k /\ k < jobHead' + jobCount' => jobs'[k] = k
        BY <2>3, <3>1, <3>2 DEF QueueInv, Slots
      <4>8. Engaged' => jobHead' + jobCount' = nActive' - 1
        BY <3>1, <3>2, <3>3
      <4>. QED  BY <3>1, <3>2, <4>4, <4>5, <4>6, <4>7, <4>8 DEF QueueInv
    <3>7. FillInv'
      BY <3>1, FillFrame DEF Cut, Engaged
    <3>. QED  BY <3>4, <3>5, <3>6, <3>7
  <2>. QED  BY <2>1, <2>2, <2>3
<1>19. ASSUME NEW i \in Pool, RunJob(i)
       PROVE  TypeOK' /\ LifeInv' /\ QueueInv' /\ FillInv'
  <2>1. PICK result \in Statuses :
          /\ Transform(tasks[job[i]].first, tasks[job[i]].count, result)
          /\ status' = [status EXCEPT ![i] = result]
    BY <1>19 DEF RunJob
  <2>2. /\ tpc[i] = "run" /\ tpc' = [tpc EXCEPT ![i] = "report"]
        /\ UNCHANGED <<pc, objectVars, callVars, tasks, poolVars, job>>
    BY <1>19 DEF RunJob
  <2>3. TypeOK'
    <3>1. job[i] \in Slots
      BY <2>2 DEF QueueInv, Busy
    <3>2. \A done : Pixels(tasks[job[i]].first, done) \subseteq Nat \X Nat
      BY <3>1, PixelsType DEF TypeOK
    <3>3. out' \subseteq Nat \X Nat
      BY <2>1, <3>2 DEF TypeOK, Transform
    <3>4. /\ tpc' \in [Pool -> {"none", "check", "asleep", "run", "report",
                               "exited"}]
          /\ status' \in [Pool -> Statuses]
      BY <2>1, <2>2 DEF TypeOK
    <3>. QED  BY <2>2, <3>3, <3>4 DEF TypeOK, objectVars, callVars, poolVars
  <2>4. LifeInv'
    BY <2>2 DEF LifeInv, Cut, Engaged, TypeOK, objectVars, callVars
  <2>5. QueueInv'
    BY <2>2, QueueFrame DEF Busy, Engaged, QueueInv, TypeOK, callVars
  <2>6. FillInv'
    BY <2>2, FillFrame DEF Cut, Engaged, callVars
  <2>. QED  BY <2>3, <2>4, <2>5, <2>6
<1>20. ASSUME NEW i \in Pool, ReportJob(i)
       PROVE  TypeOK' /\ LifeInv' /\ QueueInv' /\ FillInv'
  <2>1. /\ tpc[i] = "report" /\ tpc' = [tpc EXCEPT ![i] = "check"]
        /\ tasks' = [tasks EXCEPT ![job[i]].status = status[i]]
        /\ pending' = pending - 1
        /\ pc' = IF pending = 1 /\ pc = "asleep" THEN "check" ELSE pc
        /\ UNCHANGED <<objectVars, callVars, jobs, jobHead, jobCount, job, status,
                       out>>
    BY <1>20 DEF ReportJob, LastReport
  <2>2. i \in Busy /\ job[i] \in Slots
    BY <2>1 DEF QueueInv, Busy
  <2>3. /\ Busy' = Busy \ {i} /\ IsFiniteSet(Busy)
        /\ Cardinality(Busy') = Cardinality(Busy) - 1
        /\ Cardinality(Busy) \in Nat
    <3>1. Busy' = Busy \ {i}
      BY <2>1 DEF Busy, TypeOK
    <3>2. IsFiniteSet(Busy) /\ Cardinality(Busy) \in Nat
      BY PoolFinite DEF Busy
    <3>. QED  BY <2>2, <3>1, <3>2, FS_RemoveElement
  <2>4. /\ pending \in 1..MaxThreads
        /\ pc \in {"run", "check", "asleep"} /\ pc' \in {"run", "check", "asleep"}
    <3>1. Cardinality(Busy) # 0
      BY <2>2, <2>3, FS_EmptySet
    <3>2. pending \in 0..MaxThreads /\ jobCount \in Nat
      BY DEF TypeOK
    <3>3. pending \in 1..MaxThreads
      BY <2>3, <3>1, <3>2 DEF QueueInv
    <3>. QED  BY <2>1, <3>3 DEF QueueInv
  <2>5. \A k \in Slots :
          /\ tasks'[k].worker = tasks[k].worker /\ tasks'[k].first = tasks[k].first
          /\ tasks'[k].count = tasks[k].count /\ End(tasks'[k]) = End(tasks[k])
    BY <2>1, <2>2 DEF TypeOK, End
  <2>6. TypeOK'
    <3>1. tasks' \in [Slots -> [worker : Slots \cup {0}, first : Nat,
                               count : Nat, status : Statuses]]
      BY <2>1, <2>2 DEF TypeOK
    <3>2. pending' \in 0..MaxThreads
      BY <2>1, <2>4
    <3>. QED  BY <2>1, <2>4, <3>1, <3>2 DEF TypeOK, objectVars, callVars
  <2>7. LifeInv'
    BY <2>1, <2>4 DEF LifeInv, Cut, Engaged, TypeOK, objectVars, callVars
  <2>8. QueueInv'
    <3>1. pending' = jobCount' + Cardinality(Busy')
      BY <2>1, <2>3, <2>4 DEF QueueInv, TypeOK
    <3>2. Engaged => jobHead' + jobCount' = nActive' - 1
      BY <2>1 DEF QueueInv, callVars
    <3>3. Engaged
      BY <2>4 DEF Engaged
    <3>. QED  BY <2>1, <2>3, <2>4, <3>1, <3>2, <3>3 DEF QueueInv
  <2>9. FillInv'
    <3>1. Cut /\ (Cut' => t = nActive - 1) /\ t = nActive - 1
      BY <2>4 DEF FillInv, Cut, Engaged
    <3>2. \A k \in 0..(t - 1) : k \in Slots
      BY <3>1 DEF TypeOK, LifeInv, Slots
    <3>. QED  BY <2>1, <2>5, <3>1, <3>2 DEF FillInv, callVars
  <2>. QED  BY <2>6, <2>7, <2>8, <2>9
<1>21. CASE Wakeup
  <2>. USE <1>21 DEF Wakeup, SpuriousWake, Asleep, objectVars, callVars, poolVars
  <2>1. TypeOK'
    BY DEF TypeOK
  <2>2. LifeInv'
    BY DEF LifeInv, Cut, Engaged, TypeOK
  <2>3. QueueInv'
    BY QueueFrame DEF Busy, Engaged, QueueInv, TypeOK
  <2>4. FillInv'
    BY FillFrame DEF Cut, Engaged
  <2>. QED  BY <2>1, <2>2, <2>3, <2>4
<1>22. CASE UNCHANGED vars
  <2>. USE <1>22 DEF vars, objectVars, callVars, poolVars, threadVars
  <2>1. TypeOK'
    BY DEF TypeOK
  <2>2. LifeInv'
    BY DEF LifeInv, Cut, Engaged
  <2>3. QueueInv'
    BY QueueFrame DEF Busy, Engaged, QueueInv
  <2>4. FillInv'
    BY FillFrame DEF Cut, Engaged
  <2>. QED  BY <2>1, <2>2, <2>3, <2>4
<1>. QED
  BY <1>1, <1>2, <1>3, <1>4, <1>5, <1>6, <1>7, <1>8, <1>9, <1>10, <1>11, <1>12,
     <1>13, <1>14, <1>15, <1>16, <1>17, <1>18, <1>19, <1>20, <1>21, <1>22
     DEF Next, Client, Caller, Worker

\* The control invariant holds: the fill loop cuts consecutive strips, jobs are
\* queued and taken once each, and threads and apply objects live as long as
\* they should.
THEOREM ControlInvariant == SafeSpec => []ControlInv
<1>1. Init => ControlInv
  BY ControlInit
<1>2. ControlInv /\ [Next]_vars => ControlInv'
  BY ControlStep
<1>. QED  BY <1>1, <1>2, PTL DEF SafeSpec

\* Every variable keeps its type, the bounds of m_tasks and m_jobs included.
THEOREM TypeCorrect == SafeSpec => []TypeOK
<1>1. ControlInv => TypeOK
  BY DEF ControlInv
<1>. QED  BY <1>1, ControlInvariant, PTL
-----------------------------------------------------------------------------
(* What follows from the control invariant *)

\* A busy thread holds a task of the current call, with the worker object of
\* the task's own index.
LEMMA HeldTask ==
  ASSUME ControlInv, NEW i \in Busy
  PROVE  /\ pc \in {"run", "check", "asleep"} /\ t = nActive - 1
         /\ nActive \in 2..nThreads /\ nActive <= nWorkers
         /\ job[i] \in 0..(t - 1) /\ job[i] \in Slots
         /\ tasks[job[i]].worker = job[i]
<1>1. pending # 0
  BY NothingPending DEF ControlInv
<1>2. pc \in {"run", "check", "asleep"}
  BY <1>1 DEF ControlInv, QueueInv
<1>3. t = nActive - 1 /\ nActive \in 2..nThreads /\ nActive <= nWorkers
  BY <1>2 DEF ControlInv, FillInv, LifeInv, Cut, Engaged
<1>4. job[i] \in Slots /\ job[i] < jobHead /\ jobHead + jobCount = nActive - 1
      /\ jobHead \in Nat /\ jobCount \in Nat /\ nActive \in Nat
  BY <1>2 DEF ControlInv, QueueInv, TypeOK, Engaged
<1>5. job[i] \in 0..(t - 1)
  BY <1>3, <1>4 DEF Slots
<1>6. tasks[job[i]].worker = job[i]
  BY <1>2, <1>5 DEF ControlInv, FillInv, Cut, Engaged
<1>. QED  BY <1>2, <1>3, <1>4, <1>5, <1>6

\* Apply objects are never shared by two threads that transform.
THEOREM ApplyObjectsPrivate == SafeSpec => []NoSharedApplyObject
<1>1. ControlInv => NoSharedApplyObject
  <2>. SUFFICES ASSUME ControlInv PROVE NoSharedApplyObject
    OBVIOUS
  <2>1. Running \subseteq Busy
    BY DEF Running, Busy
  <2>2. \A i, j \in Running : i # j => tasks[job[i]].worker # tasks[job[j]].worker
    BY <2>1, HeldTask DEF ControlInv, QueueInv
  <2>3. \A i \in Running : tasks[job[i]].worker # OwnWorker
    <3>1. ASSUME NEW i \in Busy
          PROVE  tasks[job[i]].worker # nActive - 1
      BY HeldTask DEF ControlInv, TypeOK
    <3>. QED  BY <2>1, <3>1 DEF OwnWorker
  <2>4. pc = "solo" => Running = {}
    BY <2>1, HeldTask
  <2>. QED  BY <2>2, <2>3, <2>4 DEF NoSharedApplyObject
<1>. QED  BY <1>1, ControlInvariant, PTL

\* The caller writes m_tasks only while no thread holds a task, and no task
\* is held twice.
THEOREM TasksPrivate == SafeSpec => []TasksNotRaced
<1>1. ControlInv => TasksNotRaced
  BY HeldTask DEF TasksNotRaced, ControlInv, QueueInv
<1>. QED  BY <1>1, ControlInvariant, PTL

\* No vector of the pool is indexed out of its bounds.
THEOREM IndicesInBounds == SafeSpec => []InBounds
<1>1. ControlInv => InBounds
  <2>. SUFFICES ASSUME ControlInv PROVE InBounds
    OBVIOUS
  <2>. USE DEF ControlInv
  <2>1. pc \in {"solo", "workers"} => 0 < nWorkers
    BY DEF LifeInv, TypeOK
  <2>2. pc = "run" => OwnWorker \in 0..(nWorkers - 1)
    BY DEF LifeInv, TypeOK, OwnWorker, Cut, Engaged
  <2>3. pc = "fill" /\ t < nActive - 1 => t < nThreads - 1 /\ t < nWorkers
    BY DEF LifeInv, TypeOK, Cut, Engaged
  <2>4. jobCount # 0 => jobHead < nThreads - 1 /\ jobs[jobHead] < nThreads - 1
    <3>. SUFFICES ASSUME jobCount # 0
                  PROVE  jobHead < nThreads - 1 /\ jobs[jobHead] < nThreads - 1
      OBVIOUS
    <3>1. Engaged
      BY NothingPending DEF QueueInv, Engaged
    <3>2. /\ jobHead + jobCount = nActive - 1 /\ nActive \in 2..nThreads
          /\ nThreads \in 1..MaxThreads
          /\ jobHead \in Nat /\ jobCount \in Nat \ {0}
      BY <3>1 DEF QueueInv, LifeInv, Cut, TypeOK
    <3>3. jobHead \in Slots
      BY <3>2, ThreadsAssumption DEF Slots
    <3>4. jobs[jobHead] = jobHead
      BY <3>2, <3>3 DEF QueueInv
    <3>. QED  BY <3>2, <3>4
  <2>5. \A i \in Running : tasks[job[i]].worker < nWorkers
    <3>1. ASSUME NEW i \in Busy
          PROVE  tasks[job[i]].worker < nWorkers
      BY HeldTask DEF TypeOK
    <3>. QED  BY <3>1 DEF Running, Busy
  <2>. QED  BY <2>1, <2>2, <2>3, <2>4, <2>5 DEF InBounds
<1>. QED  BY <1>1, ControlInvariant, PTL

\* Teardown order: nothing transforms once the wrapped CMM is deleted, and no
\* pool thread survives the object.
THEOREM TeardownSafe == SafeSpec => []NoUseAfterFree
<1>1. ControlInv => NoUseAfterFree
  <2>. SUFFICES ASSUME ControlInv PROVE NoUseAfterFree
    OBVIOUS
  <2>1. base = "deleted" => Running = {} /\ pc \notin {"solo", "run"}
    BY HeldTask DEF ControlInv, LifeInv, Running, Busy
  <2>2. pc = "none" => \A i \in Pool : tpc[i] = "none"
    BY DEF ControlInv, LifeInv, Pool
  <2>. QED  BY <2>1, <2>2 DEF NoUseAfterFree
<1>. QED  BY <1>1, ControlInvariant, PTL
-----------------------------------------------------------------------------
(* The destination buffer, when every pixel offset fits the 32-bit products *)

\* A strip inside the call is written at the places of its own pixels.
LEMMA StripPlaces ==
  ASSUME FitsIndex, NEW first \in Nat, NEW count \in Nat, first + count <= MaxPixels
  PROVE  /\ DstAt(first) = first * NDst
         /\ \A done \in 0..count :
              Pixels(first, done)
                = {<<p * NDst, p * NSrc>> : p \in first..(first + done - 1)}
<1>. USE SizesAssumption
<1>1. first * NDst \in 0..(IndexLimit - 1) /\ first * NSrc \in 0..(IndexLimit - 1)
  <2>1. first * NDst <= MaxPixels * NDst /\ first * NSrc <= MaxPixels * NSrc
    BY ProductMono
  <2>2. /\ first * NDst \in Nat /\ first * NSrc \in Nat
        /\ MaxPixels * NDst \in Nat /\ MaxPixels * NSrc \in Nat
    OBVIOUS
  <2>. QED  BY <2>1, <2>2 DEF FitsIndex
<1>2. \A x \in 0..(IndexLimit - 1) : x % IndexLimit = x
  OBVIOUS
<1>3. DstAt(first) = first * NDst /\ SrcAt(first) = first * NSrc
  BY <1>1, <1>2 DEF DstAt, SrcAt
<1>4. ASSUME NEW j \in Nat
      PROVE  /\ first * NDst + j * NDst = (first + j) * NDst
             /\ first * NSrc + j * NSrc = (first + j) * NSrc
  OBVIOUS
<1>5. ASSUME NEW done \in 0..count
      PROVE  Pixels(first, done)
               = {<<p * NDst, p * NSrc>> : p \in first..(first + done - 1)}
  <2>. DEFINE Place(p) == <<p * NDst, p * NSrc>>
  <2>1. Pixels(first, done) = {Place(first + j) : j \in 0..(done - 1)}
    BY <1>3, <1>4 DEF Pixels
  <2>2. \A j \in 0..(done - 1) : first + j \in first..(first + done - 1)
    OBVIOUS
  <2>3. \A p \in first..(first + done - 1) :
          p - first \in 0..(done - 1) /\ first + (p - first) = p
    OBVIOUS
  <2>. HIDE DEF Place
  <2>4. {Place(first + j) : j \in 0..(done - 1)}
          = {Place(p) : p \in first..(first + done - 1)}
    BY <2>2, <2>3
  <2>. QED  BY <2>1, <2>4 DEF Place
<1>. QED  BY <1>3, <1>5

\* A transform of a strip inside the call writes images of its pixels, all of
\* them if it succeeds, and takes none away.
LEMMA TransformWrites ==
  ASSUME FitsIndex, TypeOK, OnlyImages, n' = n,
         NEW first \in Nat, NEW count \in Nat, first + count <= n,
         NEW result \in Statuses, Transform(first, count, result)
  PROVE  /\ out \subseteq out' /\ OnlyImages'
         /\ result = Ok =>
              \A p \in 0..(n - 1) : first <= p /\ p < first + count
                => <<p * NDst, p * NSrc>> \in out'
<1>1. PICK done \in 0..count :
        (result = Ok => done = count) /\ out' = out \cup Pixels(first, done)
  BY DEF Transform
<1>2. n \in Nat /\ n <= MaxPixels
  BY SizesAssumption DEF TypeOK
<1>3. first + count <= MaxPixels
  BY <1>2, SizesAssumption
<1>4. Pixels(first, done)
        = {<<p * NDst, p * NSrc>> : p \in first..(first + done - 1)}
  BY <1>3, StripPlaces
<1>5. \A p \in first..(first + done - 1) : p \in 0..(n - 1)
  BY <1>2
<1>6. OnlyImages'
  BY <1>1, <1>4, <1>5 DEF OnlyImages, Images
<1>7. ASSUME result = Ok, NEW p \in 0..(n - 1), first <= p, p < first + count
      PROVE  <<p * NDst, p * NSrc>> \in out'
  <2>1. p \in first..(first + done - 1)
    BY <1>1, <1>2, <1>7
  <2>. QED  BY <1>1, <1>4, <2>1
<1>. QED  BY <1>1, <1>6, <1>7

\* What is written stays written during a call.
LEMMA WrittenStays ==
  ASSUME out \subseteq out', n' = n, NEW first, NEW count, Written(first, count)
  PROVE  \A p \in 0..(n' - 1) :
           first <= p /\ p < first + count => <<p * NDst, p * NSrc>> \in out'
BY DEF Written

\* The strip of a held task lies inside the call.
LEMMA HeldStrip ==
  ASSUME ControlInv, NEW i \in Busy
  PROVE  /\ tasks[job[i]].first \in Nat /\ tasks[job[i]].count \in Nat
         /\ End(tasks[job[i]]) <= offset /\ offset \in Nat /\ offset <= n
<1>1. job[i] \in 0..(t - 1) /\ job[i] \in Slots /\ pc \in {"run", "check", "asleep"}
  BY HeldTask
<1>2. tasks[job[i]].first \in Nat /\ tasks[job[i]].count \in Nat /\ offset \in Nat
  BY <1>1 DEF ControlInv, TypeOK
<1>3. End(tasks[job[i]]) <= offset /\ offset <= n
  BY <1>1 DEF ControlInv, FillInv, Cut, Engaged
<1>. QED  BY <1>2, <1>3

\* While no strip of a call is outstanding, only its result has to be shown.
LEMMA WriteOutside ==
  TypeOK /\ QueueInv /\ pending = 0 /\ ~ Engaged /\ OnlyImages /\ ResultWritten
    => WriteInv
<1>. SUFFICES ASSUME TypeOK, QueueInv, pending = 0, ~ Engaged, OnlyImages,
                     ResultWritten
              PROVE  WriteInv
  OBVIOUS
<1>1. Busy = {}
  BY NothingPending
<1>2. HeldWritten
  BY <1>1 DEF HeldWritten, Busy
<1>. QED  BY <1>2 DEF WriteInv, DoneWritten, OwnWritten, Engaged

LEMMA WriteInit == Init => WriteInv
<1>. SUFFICES ASSUME Init PROVE WriteInv
  OBVIOUS
<1>1. ControlInv
  BY ControlInit
<1>2. OnlyImages /\ ResultWritten /\ ~ Engaged /\ pending = 0
  BY DEF Init, OnlyImages, ResultWritten, Engaged
<1>. QED  BY <1>1, <1>2, WriteOutside DEF ControlInv

LEMMA WriteStep ==
  FitsIndex /\ ControlInv /\ ControlInv' /\ WriteInv /\ [Next]_vars => WriteInv'
<1>. SUFFICES ASSUME FitsIndex, ControlInv, ControlInv', WriteInv, [Next]_vars
              PROVE  WriteInv'
  OBVIOUS
<1>0. TypeOK /\ TypeOK' /\ QueueInv' /\ OnlyImages
  BY DEF ControlInv, WriteInv
<1>a. ASSUME (pending = 0)', ~ Engaged', OnlyImages', ResultWritten'
      PROVE  WriteInv'
  BY <1>0, <1>a, WriteOutside, PTL
<1>b. ASSUME pending = 0, ~ Engaged', pc' # "idle", UNCHANGED <<n, out>>,
             pending' = pending
      PROVE  WriteInv'
  BY <1>0, <1>a, <1>b DEF OnlyImages, ResultWritten
<1>c. pc \notin {"run", "check", "asleep"} => pending = 0
  BY DEF ControlInv, QueueInv
<1>1. CASE Attach
  BY <1>1, <1>a DEF Attach, Engaged, OnlyImages, ResultWritten, Written
<1>2. CASE AttachFails \/ DestroyCmm \/ StopPool \/ FreeWorkers
  BY <1>2, <1>b, <1>c DEF AttachFails, DestroyCmm, StopPool, FreeWorkers, Engaged,
     callVars, poolVars
<1>3. ASSUME NEW k \in 0..MaxPixels, Call(k)
      PROVE  WriteInv'
  BY <1>3, <1>a, <1>c DEF Call, Engaged, OnlyImages, ResultWritten, poolVars
<1>4. CASE ReturnEmpty
  BY <1>0, <1>4, <1>a, <1>c
     DEF ReturnEmpty, Engaged, OnlyImages, ResultWritten, Written, poolVars
<1>5. CASE Divide \/ EnsureWorkers \/ EnsureWorkerThreads \/ FillTask
  BY <1>5, <1>b, <1>c DEF Divide, EnsureWorkers, EnsureWorkerThreads, FillTask,
     Engaged, callVars, poolVars
<1>6. CASE EnsureWorkersFails \/ EnsureWorkerThreadsFails
  BY <1>0, <1>6, <1>a, <1>c DEF EnsureWorkersFails, EnsureWorkerThreadsFails,
     ReturnAllocErr, Engaged, OnlyImages, ResultWritten, AllocErr, Ok, poolVars
<1>7. CASE Solo
  <2>1. PICK result \in Statuses : Transform(0, n, result) /\ rv' = result
    BY <1>7 DEF Solo
  <2>2. n \in Nat /\ 0 + n <= n /\ n' = n
    BY <1>0, <1>7 DEF TypeOK, Solo
  <2>3. OnlyImages' /\ (result = Ok =>
          \A p \in 0..(n - 1) : 0 <= p /\ p < 0 + n => <<p * NDst, p * NSrc>> \in out')
    BY <1>0, <2>1, <2>2, TransformWrites
  <2>4. nActive <= 1
    BY <1>7 DEF ControlInv, LifeInv, Solo
  <2>5. /\ pc' = "idle" /\ (pending = 0)' /\ nActive' = nActive
    BY <1>7, <1>c DEF Solo, poolVars
  <2>6. n' = n /\ rv' = Ok => Written(0, n)'
    BY <2>1, <2>3 DEF Written
  <2>7. ResultWritten'
    BY <1>0, <2>2, <2>4, <2>5, <2>6 DEF ResultWritten, TypeOK
  <2>. QED  BY <1>a, <2>3, <2>5, <2>7 DEF Engaged
<1>d. ASSUME n' = n, nActive' = nActive, out \subseteq out', OnlyImages',
             UNCHANGED <<tasks, job, status, jobHead, offset, own>>,
             Engaged' => Engaged, Busy' = Busy,
             \A i \in Pool : tpc'[i] = "report" <=> tpc[i] = "report",
             pc' \in {"check", "asleep", "collect"}
               => pc \in {"check", "asleep", "collect"},
             pc' # "idle"
      PROVE  WriteInv'
  BY <1>d DEF WriteInv, HeldWritten, DoneWritten, OwnWritten, ResultWritten, Written
<1>8. CASE Publish
  <2>1. (pending = 0) /\ pc' = "run" /\ jobHead' = 0
        /\ UNCHANGED <<n, nActive, out, status, job>>
    BY <1>8, <1>c DEF Publish, callVars
  <2>2. Busy = {}
    BY <2>1, NothingPending DEF ControlInv
  <2>3. \A i \in Pool : tpc'[i] # "report"
    BY <1>8, <2>2 DEF Publish, NotifyThreads, Busy
  <2>. QED  BY <1>0, <2>1, <2>3 DEF WriteInv, OnlyImages, HeldWritten, DoneWritten,
               OwnWritten, ResultWritten, ControlInv, TypeOK
<1>9. CASE RunOwnStrip
  <2>1. PICK result \in Statuses : Transform(offset, n - offset, result) /\ own' = result
    BY <1>9 DEF RunOwnStrip
  <2>2. /\ pc = "run" /\ pc' = "check"
        /\ UNCHANGED <<n, nActive, offset, tasks, jobHead, tpc, job, status>>
    BY <1>9 DEF RunOwnStrip, objectVars, poolVars, threadVars
  <2>3. offset \in Nat /\ n \in Nat /\ offset <= n
    BY <2>2 DEF ControlInv, FillInv, Cut, Engaged, TypeOK
  <2>4. n - offset \in Nat /\ offset + (n - offset) <= n
    BY <2>3
  <2>5. out \subseteq out' /\ OnlyImages' /\ (result = Ok =>
          \A p \in 0..(n - 1) : offset <= p /\ p < offset + (n - offset)
            => <<p * NDst, p * NSrc>> \in out')
    BY <1>0, <2>1, <2>2, <2>3, <2>4, TransformWrites
  <2>6. OwnWritten'
    BY <2>1, <2>2, <2>5 DEF OwnWritten, Written
  <2>7. HeldWritten' /\ DoneWritten'
    BY <2>2, <2>5 DEF WriteInv, HeldWritten, DoneWritten, Written, Engaged, Busy
  <2>. QED  BY <2>2, <2>5, <2>6, <2>7 DEF WriteInv, ResultWritten
<1>10. CASE AwaitDone
  BY <1>0, <1>10, <1>d DEF AwaitDone, AllDone, Engaged, Busy, OnlyImages, callVars, poolVars,
     threadVars
<1>11. CASE Collect
  <2>1. /\ pc = "collect" /\ pc' = "idle" /\ rv' = Verdict /\ pending = 0
        /\ pending' = pending /\ UNCHANGED <<n, nActive, own, tasks, out, offset>>
    BY <1>11, <1>c DEF Collect, poolVars
  <2>2. Busy = {} /\ jobCount = 0 /\ Engaged
    BY <2>1, NothingPending DEF ControlInv, Engaged
  <2>3. /\ jobHead = nActive - 1 /\ t = nActive - 1 /\ nActive \in 2..MaxThreads
        /\ offset \in Nat /\ n \in Nat /\ offset <= n
    BY <2>2 DEF ControlInv, QueueInv, FillInv, LifeInv, Cut, TypeOK
  <2>4. ASSUME Verdict = Ok
        PROVE  Written(0, n) /\ own = Ok /\ Failed = {}
    <3>1. own = Ok /\ Failed = {}
      BY <1>0, <2>4, VerdictType
    <3>2. Written(offset, n - offset)
      BY <2>1, <3>1 DEF WriteInv, OwnWritten
    <3>3. ASSUME NEW k \in 0..(nActive - 2)
          PROVE  /\ Written(tasks[k].first, tasks[k].count)
                 /\ tasks[k].first \in Nat /\ tasks[k].count \in Nat
      <4>1. k \in Slots /\ k < nActive - 1 /\ k < jobHead
        BY <2>3, ThreadsAssumption DEF Slots
      <4>2. tasks[k].status = Ok
        <5>1. k \notin Failed
          BY <3>1
        <5>. QED  BY <4>1, <5>1 DEF Failed
      <4>. QED  BY <1>0, <2>2, <4>1, <4>2 DEF WriteInv, DoneWritten, TypeOK
    <3>4. ASSUME NEW p \in 0..(n - 1)
          PROVE  <<p * NDst, p * NSrc>> \in out
      <4>1. CASE p < offset
        <5>1. \A q \in 0..(n - 1) : q < offset =>
                \E k \in 0..(t - 1) : tasks[k].first <= q /\ q < End(tasks[k])
          BY <2>2 DEF ControlInv, FillInv, Cut
        <5>. PICK k \in 0..(t - 1) : tasks[k].first <= p /\ p < End(tasks[k])
          BY <4>1, <5>1
        <5>2. k \in 0..(nActive - 2)
          BY <2>3
        <5>. QED  BY <3>3, <5>2 DEF Written, End
      <4>2. CASE offset <= p
        BY <2>3, <3>2, <4>2 DEF Written
      <4>. QED  BY <2>3, <4>1, <4>2
    <3>. QED  BY <3>1, <3>4 DEF Written
  <2>5. ResultWritten'
    BY <2>1, <2>4 DEF ResultWritten, Written, Failed
  <2>. QED  BY <1>0, <1>a, <2>1, <2>5 DEF OnlyImages, Engaged
<1>12. ASSUME NEW i \in Pool, TakeJob(i)
       PROVE  WriteInv'
  <2>1. /\ tpc[i] = "check" /\ UNCHANGED <<pc, n, nActive, tasks, status, offset,
                                           own, rv, out>>
        /\ \A j \in Pool : j # i => tpc'[j] = tpc[j] /\ job'[j] = job[j]
    BY <1>0, <1>12 DEF TakeJob, JobReady, callVars, TypeOK
  <2>2. \/ /\ tpc'[i] \in {"exited", "asleep"} /\ UNCHANGED <<job, jobHead>>
        \/ /\ tpc'[i] = "run" /\ jobCount # 0 /\ jobHead' = jobHead + 1
           /\ job'[i] = jobs[jobHead]
    BY <1>0, <1>12 DEF TakeJob, JobReady, TypeOK
  <2>3. HeldWritten'
    BY <2>1, <2>2 DEF WriteInv, HeldWritten, Written
  <2>4. DoneWritten'
    <3>1. CASE tpc'[i] \in {"exited", "asleep"} /\ UNCHANGED <<job, jobHead>>
      <4>1. Busy' = Busy
        BY <2>1, <3>1 DEF Busy
      <4>. QED  BY <2>1, <3>1, <4>1 DEF WriteInv, DoneWritten, Engaged, Written
    <3>2. CASE /\ tpc'[i] = "run" /\ jobCount # 0 /\ jobHead' = jobHead + 1
               /\ job'[i] = jobs[jobHead]
      <4>1. Busy' = Busy \cup {i} /\ i \notin Busy
        BY <2>1, <3>2 DEF Busy
      <4>2. Engaged /\ jobHead \in Nat /\ jobs[jobHead] = jobHead
        <5>1. pending # 0 /\ Engaged
          BY <1>0, <1>c, <3>2, NothingPending DEF ControlInv, Engaged
        <5>2. /\ jobHead + jobCount = nActive - 1 /\ nActive \in 2..MaxThreads
              /\ jobHead \in Nat /\ jobCount \in Nat \ {0}
          BY <3>2, <5>1 DEF ControlInv, QueueInv, LifeInv, Cut, TypeOK
        <5>3. jobHead \in Slots
          BY <5>2, ThreadsAssumption DEF Slots
        <5>. QED  BY <5>1, <5>2, <5>3 DEF ControlInv, QueueInv
      <4>3. \A j \in Busy : job'[j] = job[j]
        BY <2>1, <4>1 DEF Busy
      <4>4. ASSUME NEW k \in 0..(nActive - 2), k < jobHead', tasks[k].status = Ok,
                   \A j \in Busy' : job'[j] # k
            PROVE  Written(tasks[k].first, tasks[k].count)
        <5>1. k < jobHead
          BY <3>2, <4>1, <4>2, <4>4
        <5>2. \A j \in Busy : job[j] # k
          BY <4>1, <4>3, <4>4
        <5>. QED  BY <4>2, <4>4, <5>1, <5>2 DEF WriteInv, DoneWritten
      <4>. QED  BY <2>1, <4>4 DEF DoneWritten, Written
    <3>. QED  BY <2>2, <3>1, <3>2
  <2>. QED  BY <2>1, <2>3, <2>4 DEF WriteInv, OnlyImages, OwnWritten, ResultWritten,
               Written, Failed
<1>13. ASSUME NEW i \in Pool, RunJob(i)
       PROVE  WriteInv'
  <2>1. PICK result \in Statuses :
          /\ Transform(tasks[job[i]].first, tasks[job[i]].count, result)
          /\ status' = [status EXCEPT ![i] = result]
    BY <1>13 DEF RunJob
  <2>2. /\ tpc[i] = "run" /\ tpc' = [tpc EXCEPT ![i] = "report"]
        /\ UNCHANGED <<pc, n, nActive, offset, own, rv, tasks, jobHead, job>>
    BY <1>13 DEF RunJob, callVars, poolVars
  <2>3. i \in Busy /\ Busy' = Busy
    BY <1>0, <2>2 DEF Busy, TypeOK
  <2>. DEFINE first == tasks[job[i]].first
              count == tasks[job[i]].count
  <2>4. first \in Nat /\ count \in Nat /\ first + count <= n
    <3>1. n \in Nat
      BY <1>0 DEF TypeOK
    <3>. QED  BY <2>3, <3>1, HeldStrip DEF End
  <2>5. out \subseteq out' /\ OnlyImages' /\ (result = Ok =>
          \A p \in 0..(n - 1) : first <= p /\ p < first + count
            => <<p * NDst, p * NSrc>> \in out')
    <3>. HIDE DEF first, count
    <3>1. Transform(first, count, result)
      BY <2>1 DEF first, count
    <3>. QED  BY <1>0, <2>2, <2>4, <3>1, TransformWrites
  <2>6. HeldWritten'
    <3>1. ASSUME NEW j \in Pool, tpc'[j] = "report", status'[j] = Ok
          PROVE  \A p \in 0..(n - 1) :
                   tasks[job[j]].first <= p
                     /\ p < tasks[job[j]].first + tasks[job[j]].count
                   => <<p * NDst, p * NSrc>> \in out'
      <4>1. CASE j = i
        BY <1>0, <2>1, <2>5, <3>1, <4>1 DEF TypeOK
      <4>2. CASE j # i
        <5>1. tpc[j] = "report" /\ status[j] = Ok
          BY <1>0, <2>1, <2>2, <3>1, <4>2 DEF TypeOK
        <5>. QED  BY <2>5, <5>1 DEF WriteInv, HeldWritten, Written
      <4>. QED  BY <4>1, <4>2
    <3>. QED  BY <2>2, <3>1 DEF HeldWritten, Written
  <2>7. DoneWritten'
    BY <2>2, <2>3, <2>5 DEF WriteInv, DoneWritten, Written, Engaged
  <2>8. OwnWritten'
    BY <2>2, <2>5 DEF WriteInv, OwnWritten, Written
  <2>9. pc' # "idle"
    BY <2>2, <2>3, HeldTask
  <2>. QED  BY <2>5, <2>6, <2>7, <2>8, <2>9 DEF WriteInv, ResultWritten
<1>14. ASSUME NEW i \in Pool, ReportJob(i)
       PROVE  WriteInv'
  <2>1. /\ tpc[i] = "report" /\ tpc' = [tpc EXCEPT ![i] = "check"]
        /\ tasks' = [tasks EXCEPT ![job[i]].status = status[i]]
        /\ pc' = IF pending = 1 /\ pc = "asleep" THEN "check" ELSE pc
        /\ UNCHANGED <<n, nActive, offset, own, jobHead, job, status, out>>
    BY <1>14 DEF ReportJob, LastReport, callVars
  <2>2. i \in Busy /\ Busy' = Busy \ {i}
    BY <1>0, <2>1 DEF Busy, TypeOK
  <2>3. /\ pc \in {"run", "check", "asleep"} /\ job[i] \in Slots
        /\ nActive \in 2..MaxThreads
    BY <1>0, <2>2, HeldTask DEF TypeOK
  <2>4. \A k \in Slots :
          /\ tasks'[k].first = tasks[k].first /\ tasks'[k].count = tasks[k].count
          /\ tasks'[k].status = IF k = job[i] THEN status[i] ELSE tasks[k].status
    BY <1>0, <2>1, <2>3 DEF TypeOK
  <2>5. \A j \in Busy : job[j] \in Slots
    BY HeldTask
  <2>6. HeldWritten'
    <3>1. ASSUME NEW j \in Pool, tpc'[j] = "report", status'[j] = Ok
          PROVE  Written(tasks[job[j]].first, tasks[job[j]].count) /\ j \in Busy
      BY <1>0, <2>1, <3>1 DEF WriteInv, HeldWritten, Busy, TypeOK
    <3>. QED  BY <2>1, <2>4, <2>5, <3>1 DEF HeldWritten, Written
  <2>7. DoneWritten'
    <3>1. ASSUME NEW k \in 0..(nActive - 2), k < jobHead, tasks'[k].status = Ok,
                 \A j \in Busy' : job[j] # k
          PROVE  Written(tasks[k].first, tasks[k].count) /\ k \in Slots
      <4>1. k \in Slots
        BY <2>3, ThreadsAssumption DEF Slots
      <4>2. CASE k = job[i]
        <5>1. status[i] = Ok
          BY <2>4, <3>1, <4>1, <4>2
        <5>2. Written(tasks[job[i]].first, tasks[job[i]].count)
          BY <2>1, <5>1 DEF WriteInv, HeldWritten
        <5>. QED  BY <4>1, <4>2, <5>2
      <4>3. CASE k # job[i]
        <5>1. tasks[k].status = Ok /\ \A j \in Busy : job[j] # k
          BY <2>2, <2>4, <3>1, <4>1, <4>3
        <5>. QED  BY <2>3, <3>1, <4>1, <5>1 DEF WriteInv, DoneWritten, Engaged
      <4>. QED  BY <4>2, <4>3
    <3>. QED  BY <2>1, <2>4, <3>1 DEF DoneWritten, Written
  <2>8. OwnWritten' /\ pc' # "idle"
    BY <2>1, <2>3 DEF WriteInv, OwnWritten, Written
  <2>. QED  BY <2>1, <2>6, <2>7, <2>8 DEF WriteInv, OnlyImages, ResultWritten
<1>15. CASE Wakeup
  <2>1. /\ UNCHANGED <<n, nActive, out, tasks, job, status, jobHead, offset, own>>
        /\ pc' = pc \/ (pc = "asleep" /\ pc' = "check")
        /\ \A i \in Pool : tpc'[i] = tpc[i]
                            \/ (tpc[i] = "asleep" /\ tpc'[i] = "check")
    BY <1>0, <1>15 DEF Wakeup, SpuriousWake, Asleep, callVars, poolVars, TypeOK
  <2>2. Busy' = Busy
    BY <2>1 DEF Busy
  <2>3. CASE pc' # "idle"
    BY <1>0, <1>d, <2>1, <2>2, <2>3 DEF Engaged, OnlyImages
  <2>4. CASE pc' = "idle"
    <3>1. pc = "idle" /\ pending = 0 /\ pending' = pending /\ rv' = rv
      BY <1>15, <1>c, <2>1, <2>4 DEF Wakeup, poolVars, callVars
    <3>2. ResultWritten'
      BY <2>1, <2>4, <3>1 DEF WriteInv, ResultWritten, Written, Failed
    <3>. QED  BY <1>0, <1>a, <2>1, <2>4, <3>1, <3>2 DEF Engaged, OnlyImages
  <2>. QED  BY <2>3, <2>4
<1>16. CASE UNCHANGED vars
  BY <1>16 DEF vars, objectVars, callVars, poolVars, threadVars, WriteInv, OnlyImages,
     HeldWritten, DoneWritten, OwnWritten, ResultWritten, Written, Failed, Engaged, Busy
<1>. QED
  BY <1>1, <1>2, <1>3, <1>4, <1>5, <1>6, <1>7, <1>8, <1>9, <1>10, <1>11, <1>12,
     <1>13, <1>14, <1>15, <1>16 DEF Next, Client, Caller, Worker

THEOREM WriteInvariant == FitsIndex => (SafeSpec => []WriteInv)
<1>. SUFFICES ASSUME FitsIndex PROVE SafeSpec => []WriteInv
  OBVIOUS
<1>1. Init => WriteInv
  BY WriteInit
<1>2. ControlInv /\ ControlInv' /\ WriteInv /\ [Next]_vars => WriteInv'
  BY WriteStep
<1>. QED  BY <1>1, <1>2, ControlInvariant, PTL DEF SafeSpec

\* A multi-pixel Apply that returns Ok has transformed every pixel into its own
\* place, and no strip of it failed: whatever the interleaving.
THEOREM OkIsHonest == FitsIndex => (SafeSpec => []OkMeansTransformed)
<1>1. TypeOK /\ WriteInv => OkMeansTransformed
  <2>. SUFFICES ASSUME TypeOK, WriteInv, pc = "idle", rv = Ok
                PROVE  /\ Images(n) \subseteq out
                       /\ n # 0 /\ nActive > 1 => own = Ok /\ Failed = {}
    BY DEF OkMeansTransformed
  <2>1. \A p \in 0..(n - 1) : <<p * NDst, p * NSrc>> \in out
    BY DEF WriteInv, ResultWritten, Written, TypeOK
  <2>. QED  BY <2>1 DEF WriteInv, ResultWritten, Images
<1>. QED  BY <1>1, TypeCorrect, WriteInvariant, PTL

\* No two threads that transform may write the same destination sample.
THEOREM StripsDisjoint == FitsIndex => (SafeSpec => []DisjointStrips)
<1>. SUFFICES ASSUME FitsIndex PROVE SafeSpec => []DisjointStrips
  OBVIOUS
<1>1. ASSUME NEW f \in Nat, NEW c \in Nat, NEW g \in Nat, NEW d \in Nat,
             f + c <= g, g + d <= MaxPixels
      PROVE  Footprint(f, c) \cap Footprint(g, d) = {}
  <2>1. f + c <= MaxPixels /\ DstAt(f) = f * NDst /\ DstAt(g) = g * NDst
    BY <1>1, StripPlaces, SizesAssumption
  <2>2. f * NDst + c * NDst = (f + c) * NDst /\ (f + c) * NDst <= g * NDst
    BY <1>1, ProductMono, SizesAssumption
  <2>3. /\ f * NDst \in Nat /\ c * NDst \in Nat /\ g * NDst \in Nat
        /\ d * NDst \in Nat
    BY SizesAssumption
  <2>. QED  BY <2>1, <2>2, <2>3 DEF Footprint
<1>2. ControlInv => DisjointStrips
  <2>. SUFFICES ASSUME ControlInv PROVE DisjointStrips
    OBVIOUS
  <2>1. n \in Nat /\ n <= MaxPixels
    BY SizesAssumption DEF ControlInv, TypeOK
  <2>2. ASSUME NEW i \in Busy, NEW j \in Busy, job[i] < job[j]
        PROVE  End(tasks[job[i]]) <= tasks[job[j]].first
    <3>1. /\ job[i] \in 0..(t - 1) /\ job[j] \in 0..(t - 1)
          /\ pc \in {"run", "check", "asleep"}
      BY HeldTask
    <3>. QED  BY <2>2, <3>1 DEF ControlInv, FillInv, Cut, Engaged
  <2>3. ASSUME NEW i \in Busy, NEW j \in Busy, job[i] < job[j]
        PROVE  Footprint(tasks[job[i]].first, tasks[job[i]].count)
                 \cap Footprint(tasks[job[j]].first, tasks[job[j]].count) = {}
    <3>1. /\ tasks[job[i]].first \in Nat /\ tasks[job[i]].count \in Nat
          /\ tasks[job[j]].first \in Nat /\ tasks[job[j]].count \in Nat
          /\ tasks[job[i]].first + tasks[job[i]].count <= tasks[job[j]].first
          /\ tasks[job[j]].first + tasks[job[j]].count <= MaxPixels
      <4>1. /\ tasks[job[i]].first \in Nat /\ tasks[job[i]].count \in Nat
            /\ tasks[job[j]].first \in Nat /\ tasks[job[j]].count \in Nat
            /\ End(tasks[job[j]]) <= offset /\ offset \in Nat /\ offset <= n
        BY HeldStrip
      <4>2. End(tasks[job[i]]) <= tasks[job[j]].first
        BY <2>2, <2>3
      <4>. QED  BY <2>1, <4>1, <4>2, SizesAssumption DEF End
    <3>. QED  BY <1>1, <3>1
  <2>4. ASSUME NEW i \in Busy
        PROVE  Footprint(tasks[job[i]].first, tasks[job[i]].count)
                 \cap Footprint(offset, n - offset) = {}
    <3>1. /\ tasks[job[i]].first \in Nat /\ tasks[job[i]].count \in Nat
          /\ tasks[job[i]].first + tasks[job[i]].count <= offset
          /\ offset \in Nat /\ n - offset \in Nat /\ offset + (n - offset) <= MaxPixels
      BY <2>1, HeldStrip DEF End
    <3>. QED  BY <1>1, <3>1
  <2>5. \A i, j \in Busy : i # j => job[i] < job[j] \/ job[j] < job[i]
    <3>1. ASSUME NEW i \in Busy
          PROVE  job[i] \in Nat
      <4>1. job[i] \in Slots
        BY HeldTask
      <4>. QED  BY <4>1, ThreadsAssumption DEF Slots
    <3>2. \A i, j \in Busy : i # j => job[i] # job[j]
      BY DEF ControlInv, QueueInv
    <3>3. \A a, b \in Nat : a # b => a < b \/ b < a
      OBVIOUS
    <3>. QED  BY <3>1, <3>2, <3>3
  <2>6. Running \subseteq Busy
    BY DEF Running, Busy
  <2>7. ASSUME NEW i \in Running, NEW j \in Running, i # j
        PROVE  Footprint(tasks[job[i]].first, tasks[job[i]].count)
                 \cap Footprint(tasks[job[j]].first, tasks[job[j]].count) = {}
    BY <2>3, <2>5, <2>6, <2>7
  <2>. QED  BY <2>4, <2>6, <2>7 DEF DisjointStrips
<1>. QED  BY <1>2, ControlInvariant, PTL
-----------------------------------------------------------------------------
(* Refinement of BulkApply *)

LEMMA BulkStep ==
  /\ ControlInv /\ ControlInv' /\ WriteInv /\ WriteInv' /\ [Next]_vars
    => [Bulk!Next]_Bulk!vars
<1>. SUFFICES ASSUME ControlInv, ControlInv', WriteInv, WriteInv', [Next]_vars
              PROVE  Bulk!Next \/ UNCHANGED <<Mode, n, out, rv>>
  BY DEF Bulk!vars
<1>0. TypeOK /\ TypeOK' /\ OnlyImages /\ OnlyImages' /\ ResultWritten'
  BY DEF ControlInv, WriteInv
<1>. USE DEF Mode
<1>a. Images(n) = Bulk!Images(n)
  BY DEF Images, Bulk!Images
\* A call returns: what is in the destination by then is what the status says.
<1>b. ASSUME Mode = "busy", pc' = "idle", n' = n, out \subseteq out'
      PROVE  Bulk!Next
  <2>1. rv' \in Statuses \cup {AllocErr} /\ n' \in Nat
    BY <1>0 DEF TypeOK
  <2>2. out' \subseteq Images(n)
    BY <1>0, <1>b DEF OnlyImages, Images
  <2>3. rv' = Ok => out' = Images(n)
    <3>. SUFFICES ASSUME rv' = Ok PROVE Images(n) \subseteq out'
      BY <2>2
    <3>1. \A p \in 0..(n' - 1) : <<p * NDst, p * NSrc>> \in out'
      BY <1>0, <1>b, <2>1 DEF ResultWritten, Written
    <3>. QED  BY <1>b, <3>1 DEF Images
  <2>4. Bulk!Return(rv')
    BY <1>a, <1>b, <2>2, <2>3 DEF Bulk!Return, Ok
  <2>. QED  BY <2>1, <2>4 DEF Bulk!Next
\* Pixels reach the destination during a call.
<1>c. ASSUME Mode = "busy", Mode' = "busy", UNCHANGED <<n, rv>>, out \subseteq out'
      PROVE  Bulk!Next \/ UNCHANGED <<Mode, n, out, rv>>
  <2>1. out' \subseteq Images(n)
    BY <1>0, <1>c DEF OnlyImages, Images
  <2>. QED  BY <1>a, <1>c, <2>1 DEF Bulk!Next, Bulk!Produce
<1>1. CASE Attach
  BY <1>1 DEF Attach, Bulk!Next, Bulk!Attach, Ok
<1>2. CASE AttachFails \/ StopPool
  BY <1>2 DEF AttachFails, StopPool, callVars
<1>3. CASE DestroyCmm
  BY <1>3 DEF DestroyCmm, callVars, Bulk!Next, Bulk!Destroy
<1>4. CASE FreeWorkers
  BY <1>4 DEF FreeWorkers, callVars, Bulk!Next, Bulk!Ended
<1>5. ASSUME NEW k \in 0..MaxPixels, Call(k)
      PROVE  Bulk!Next
  BY <1>5 DEF Call, Bulk!Next, Bulk!Call
<1>6. CASE ReturnEmpty \/ EnsureWorkersFails \/ EnsureWorkerThreadsFails \/ Collect
  BY <1>6, <1>b DEF ReturnEmpty, EnsureWorkersFails, EnsureWorkerThreadsFails,
     ReturnAllocErr, Collect
<1>7. CASE Divide \/ EnsureWorkers \/ EnsureWorkerThreads \/ FillTask \/ Publish
           \/ AwaitDone
  BY <1>7, <1>c DEF Divide, EnsureWorkers, EnsureWorkerThreads, FillTask, Publish,
     AwaitDone, callVars
<1>8. CASE Solo
  BY <1>8, <1>b DEF Solo, Transform
<1>9. CASE RunOwnStrip
  BY <1>9, <1>c DEF RunOwnStrip, Transform
<1>10. ASSUME NEW i \in Pool, TakeJob(i)
       PROVE  UNCHANGED <<Mode, n, out, rv>>
  BY <1>10 DEF TakeJob, JobReady, callVars
<1>11. ASSUME NEW i \in Pool, RunJob(i)
       PROVE  Bulk!Next \/ UNCHANGED <<Mode, n, out, rv>>
  <2>1. i \in Busy
    BY <1>11 DEF RunJob, Busy
  <2>2. pc \in {"run", "check", "asleep"}
    BY <2>1, HeldTask
  <2>3. UNCHANGED <<pc, n, rv>> /\ out \subseteq out'
    BY <1>11 DEF RunJob, Transform, callVars
  <2>. QED  BY <1>c, <2>2, <2>3
<1>12. ASSUME NEW i \in Pool, ReportJob(i)
       PROVE  UNCHANGED <<Mode, n, out, rv>>
  BY <1>12 DEF ReportJob, LastReport, callVars
<1>13. CASE Wakeup
  BY <1>13 DEF Wakeup, SpuriousWake, callVars
<1>14. CASE UNCHANGED vars
  BY <1>14 DEF vars, callVars
<1>. QED
  BY <1>1, <1>2, <1>3, <1>4, <1>5, <1>6, <1>7, <1>8, <1>9, <1>10, <1>11, <1>12,
     <1>13, <1>14 DEF Next, Client, Caller, Worker

\* The pool implements the bulk Apply of one client: its threads, its queue
\* and its condition variables cannot be told from outside.
THEOREM PoolImplementsBulkApply == FitsIndex => (SafeSpec => ImplementsBulkApply)
<1>. SUFFICES ASSUME FitsIndex PROVE SafeSpec => Bulk!SafeSpec
  BY DEF ImplementsBulkApply
<1>1. Init => Bulk!Init
  BY DEF Init, Bulk!Init, Mode, Ok
<1>2. /\ ControlInv /\ ControlInv' /\ WriteInv /\ WriteInv' /\ [Next]_vars
        => [Bulk!Next]_Bulk!vars
  BY BulkStep
<1>. QED  BY <1>1, <1>2, ControlInvariant, WriteInvariant, PTL
          DEF SafeSpec, Bulk!SafeSpec
=============================================================================
