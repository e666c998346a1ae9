------------------------- MODULE IsapiRequestsProofs -------------------------
(***************************************************************************)
(* What IsapiRequests promises, for any number of threads and any limits.  *)
(*                                                                         *)
(* The limiter: the exchange succeeds only while the counter is what the   *)
(* thread has read, so it is one more after it just as the set of admitted *)
(* requests is; all else that happens to a request inside leaves both      *)
(* alone, until its release.  A thread that has read a full counter has    *)
(* seen the limit reached.                                                 *)
(*                                                                         *)
(* The root: the threads that prune it have looked at it one after the     *)
(* other.  What a thread leaves there, of the directories nobody missed,   *)
(* with one for each that has looked no later, is never more than the      *)
(* bound.  To look again puts a thread last in that order, a removal takes *)
(* away what was counted or was to go, one that fails adds to what was     *)
(* missed, and a new directory takes the room of its maker, whom those     *)
(* that looked before give theirs.  Of the directories that no thread is   *)
(* to remove, each listing leaves less than the root is to keep, whatever  *)
(* it finds; until the next one there come only those of the threads that  *)
(* prune then.                                                             *)
(***************************************************************************)
EXTENDS IsapiRequests, FiniteSetTheorems, SequenceTheorems, TLAPS

CounterTypes ==
  /\ active \in Nat
  /\ at \in [Threads -> Places]
  /\ seen \in [Threads -> Nat]
  /\ full \in [Threads -> BOOLEAN]

\* Who has read that there is no slot has been there when there was none.
FullWasSeen ==
  \A t \in Threads : at[t] = "trying" /\ GivesUp(t) => full[t]

IInv == CounterTypes /\ LimitKept /\ FullWasSeen

-----------------------------------------------------------------------------
\* A step inside a request, that only moves it on.
Inside(t) ==
  /\ at[t] \notin {"idle", "trying", "leaving"}
  /\ \E place \in Places \ {"idle", "trying"} : at' = [at EXCEPT ![t] = place]
  /\ UNCHANGED <<active, seen>>
  /\ Noticed(active)

\* The other operations of a thread are of this kind: the limiter does not
\* know the directories.
LEMMA WorkIsInside ==
  ASSUME CounterTypes, NEW t \in Threads,
         \/ GiveUp(t) \/ Cleanup(t) \/ Prune(t) \/ MakeDirectory(t)
         \/ WriteFiles(t) \/ Finish(t) \/ Throw(t) \/ Discard(t)
  PROVE  Inside(t)
<1> USE DEF CounterTypes, Places
<1> at[t] \in Places => at = [at EXCEPT ![t] = at[t]]
  OBVIOUS
<1>1. CASE GiveUp(t)
  BY <1>1 DEF GiveUp, Inside, GoTo
<1>2. CASE Cleanup(t)
  BY <1>2 DEF Cleanup, Inside, GoTo
<1>3. CASE Prune(t)
  BY <1>3 DEF Prune, Inside
<1>4. CASE MakeDirectory(t)
  BY <1>4 DEF MakeDirectory, Inside, GoTo
<1>5. CASE WriteFiles(t)
  BY <1>5 DEF WriteFiles, Inside
<1>6. CASE Finish(t)
  BY <1>6 DEF Finish, Inside, GoTo
<1>7. CASE Throw(t)
  BY <1>7 DEF Throw, Inside, GoTo
<1>8. CASE Discard(t)
  BY <1>8 DEF Discard, Inside, GoTo
<1> QED
  BY <1>1, <1>2, <1>3, <1>4, <1>5, <1>6, <1>7, <1>8

\* Admitted requests are finitely many; one that enters or leaves changes their
\* number by one.
LEMMA AdmittedFinite == IsFiniteSet(Admitted) /\ Cardinality(Admitted) \in Nat
<1>1. Admitted \subseteq Threads
  BY DEF Admitted
<1>2. IsFiniteSet(Admitted)
  BY <1>1, ThreadsAssumption, FS_Subset
<1> QED
  BY <1>2, FS_CardinalityType

Outside == {"idle", "trying"}
LEMMA AdmittedCount ==
  ASSUME CounterTypes, NEW t \in Threads, NEW place \in Places,
         at' = [at EXCEPT ![t] = place]
  PROVE  /\ (at[t] \in Outside <=> place \in Outside) =>
              Cardinality(Admitted') = Cardinality(Admitted)
         /\ at[t] \in Outside /\ place \notin Outside =>
              Cardinality(Admitted') = Cardinality(Admitted) + 1
         /\ at[t] \notin Outside /\ place \in Outside =>
              Cardinality(Admitted') = Cardinality(Admitted) - 1
<1> DEFINE Others == Admitted \ {t}
<1>1. IsFiniteSet(Others) /\ t \notin Others
  BY AdmittedFinite, FS_RemoveElement
<1>2. Cardinality(Others) \in Nat /\ Cardinality(Others \cup {t}) = Cardinality(Others) + 1
  BY <1>1, FS_AddElement, FS_CardinalityType
<1>3. Admitted = IF at[t] \in Outside THEN Others ELSE Others \cup {t}
  BY DEF Admitted, Outside
<1>4. Admitted' = IF place \in Outside THEN Others ELSE Others \cup {t}
  BY DEF Admitted, CounterTypes, Outside
<1> HIDE DEF Others
<1> QED
  BY <1>2, <1>3, <1>4
-----------------------------------------------------------------------------
LEMMA InitInvariant == Init => IInv
<1> SUFFICES ASSUME Init PROVE IInv
  OBVIOUS
<1> USE DEF Init
<1>1. CounterTypes
  BY DEF CounterTypes, Places
<1>2. Admitted = {}
  BY DEF Admitted
<1>3. LimitKept
  BY <1>2, FS_EmptySet, LimitsAssumption DEF LimitKept
<1>4. FullWasSeen
  BY DEF FullWasSeen
<1> QED
  BY <1>1, <1>3, <1>4 DEF IInv

\* The parts of the invariant that every step keeps in the same way.
LEMMA NoticedKeepsTypes ==
  ASSUME CounterTypes, NEW n \in Nat, Noticed(n), at' \in [Threads -> Places]
  PROVE  full' \in [Threads -> BOOLEAN]
BY DEF Noticed, CounterTypes

LEMMA StepInvariant == IInv /\ [Next]_vars => IInv'
<1> SUFFICES ASSUME IInv, [Next]_vars PROVE IInv'
  OBVIOUS
<1> USE LimitsAssumption
<1>0. CounterTypes /\ LimitKept /\ FullWasSeen
  BY DEF IInv
<1>1. CASE UNCHANGED vars
  BY <1>0, <1>1 DEF vars, IInv, CounterTypes, LimitKept, Admitted, FullWasSeen, GivesUp
<1>2. ASSUME NEW t \in Threads, Load(t)
      PROVE  IInv'
  <2>1. CounterTypes'
    BY <1>0, <1>2 DEF Load, CounterTypes, GoTo, Noticed, Places
  <2>2. Cardinality(Admitted') = Cardinality(Admitted)
    <3>1. at[t] = "idle" /\ "trying" \in Places /\ at' = [at EXCEPT ![t] = "trying"]
      BY <1>2 DEF Load, GoTo, Places
    <3> QED
      BY <1>0, <3>1, AdmittedCount DEF Outside
  <2>3. LimitKept'
    BY <1>0, <1>2, <2>2 DEF Load, LimitKept
  <2>4. FullWasSeen'
    BY <1>0, <1>2 DEF Load, GoTo, Noticed, FullWasSeen, GivesUp, CounterTypes
  <2> QED
    BY <2>1, <2>3, <2>4 DEF IInv
<1>3. ASSUME NEW t \in Threads, Exchange(t)
      PROVE  IInv'
  <2>1. active' = active + 1 /\ active < Limit
    BY <1>0, <1>3 DEF Exchange, Compares, GivesUp, CounterTypes
  <2>2. CounterTypes'
    BY <1>0, <1>3 DEF Exchange, CounterTypes, GoTo, Noticed, Places
  <2>3. Cardinality(Admitted') = Cardinality(Admitted) + 1
    <3>1. at[t] = "trying" /\ "admitted" \in Places /\ at' = [at EXCEPT ![t] = "admitted"]
      BY <1>3 DEF Exchange, GoTo, Places
    <3> QED
      BY <1>0, <3>1, AdmittedCount DEF Outside
  <2>4. LimitKept'
    BY <1>0, <2>1, <2>3 DEF LimitKept, CounterTypes
  <2>5. FullWasSeen'
    BY <1>0, <1>3 DEF Exchange, GoTo, Noticed, FullWasSeen, GivesUp, CounterTypes
  <2> QED
    BY <2>2, <2>4, <2>5 DEF IInv
<1>4. ASSUME NEW t \in Threads, ExchangeFails(t)
      PROVE  IInv'
  <2>1. CounterTypes'
    BY <1>0, <1>4 DEF ExchangeFails, CounterTypes, Noticed
  <2>2. LimitKept'
    BY <1>0, <1>4 DEF ExchangeFails, LimitKept, Admitted
  <2>3. FullWasSeen'
    BY <1>0, <1>4 DEF ExchangeFails, Noticed, FullWasSeen, GivesUp, CounterTypes
  <2> QED
    BY <2>1, <2>2, <2>3 DEF IInv
<1>5. ASSUME NEW t \in Threads, Refuse(t)
      PROVE  IInv'
  <2>1. CounterTypes'
    BY <1>0, <1>5 DEF Refuse, CounterTypes, GoTo, Noticed, Places
  <2>2. Cardinality(Admitted') = Cardinality(Admitted)
    <3>1. at[t] = "trying" /\ "idle" \in Places /\ at' = [at EXCEPT ![t] = "idle"]
      BY <1>5 DEF Refuse, GoTo, Places
    <3> QED
      BY <1>0, <3>1, AdmittedCount DEF Outside
  <2>3. LimitKept'
    BY <1>0, <1>5, <2>2 DEF Refuse, LimitKept
  <2>4. FullWasSeen'
    BY <1>0, <1>5 DEF Refuse, GoTo, Noticed, FullWasSeen, GivesUp, CounterTypes
  <2> QED
    BY <2>1, <2>3, <2>4 DEF IInv
<1>6. ASSUME NEW t \in Threads, Release(t)
      PROVE  IInv'
  <2>1. Cardinality(Admitted') = Cardinality(Admitted) - 1
    <3>1. at[t] = "leaving" /\ "idle" \in Places /\ at' = [at EXCEPT ![t] = "idle"]
      BY <1>6 DEF Release, GoTo, Places
    <3> QED
      BY <1>0, <3>1, AdmittedCount DEF Outside
  <2>2. Cardinality(Admitted') \in Nat
    <3>1. Admitted' \subseteq Threads
      BY DEF Admitted
    <3> QED
      BY <3>1, ThreadsAssumption, FS_Subset, FS_CardinalityType
  <2>3. LimitKept'
    BY <1>0, <1>6, <2>1 DEF Release, LimitKept, CounterTypes
  <2>4. active' \in Nat
    BY <2>2, <2>3 DEF LimitKept
  <2>5. CounterTypes'
    BY <1>0, <1>6, <2>4 DEF Release, CounterTypes, GoTo, Noticed, Places
  <2>6. FullWasSeen'
    BY <1>0, <1>6 DEF Release, GoTo, Noticed, FullWasSeen, GivesUp, CounterTypes
  <2> QED
    BY <2>3, <2>5, <2>6 DEF IInv
<1>7. ASSUME NEW t \in Threads, Inside(t)
      PROVE  IInv'
  <2>1. PICK place \in Places \ {"idle", "trying"} : at' = [at EXCEPT ![t] = place]
    BY <1>7 DEF Inside
  <2>2. CounterTypes'
    BY <1>0, <1>7, <2>1 DEF Inside, CounterTypes, Noticed
  <2>3. Cardinality(Admitted') = Cardinality(Admitted)
    <3>1. at[t] \notin Outside /\ place \in Places /\ place \notin Outside
      BY <1>7 DEF Inside, Outside
    <3> QED
      BY <1>0, <2>1, <3>1, AdmittedCount
  <2>4. LimitKept'
    BY <1>0, <1>7, <2>3 DEF Inside, LimitKept
  <2>5. FullWasSeen'
    BY <1>0, <1>7, <2>1 DEF Inside, Noticed, FullWasSeen, GivesUp, CounterTypes
  <2> QED
    BY <2>2, <2>4, <2>5 DEF IInv
<1>8. CASE Next
  BY <1>0, <1>2, <1>3, <1>4, <1>5, <1>6, <1>7, <1>8, WorkIsInside DEF Next
<1> QED
  BY <1>1, <1>8

LEMMA Invariant == Spec => []IInv
BY InitInvariant, StepInvariant, PTL DEF Spec

\* For any number of threads and any limit, the counter of ToolRequestGuard is
\* always the number of requests inside, which never exceeds the limit.
THEOREM LimitIsKept == Spec => []LimitKept
BY Invariant, PTL DEF IInv

\* A request is answered 429 only when the limit was reached at some moment
\* since it first read the counter.
THEOREM RefusalsAreHonest == Spec => RefusedOnlyWhenFull
<1>1. IInv /\ [Next]_vars =>
        [\A t \in Threads : at[t] = "trying" /\ at'[t] = "idle" => full[t]]_vars
  <2> SUFFICES ASSUME IInv, Next, NEW t \in Threads,
                      at[t] = "trying", at'[t] = "idle"
               PROVE  full[t]
    OBVIOUS
  <2>0. CounterTypes /\ FullWasSeen
    BY DEF IInv
  <2>1. PICK u \in Threads :
          \/ Load(u) \/ Exchange(u) \/ ExchangeFails(u) \/ Refuse(u) \/ Release(u)
          \/ Inside(u)
    BY <2>0, WorkIsInside DEF Next
  <2>2. Refuse(u) => full[t]
    BY <2>0 DEF Refuse, GoTo, FullWasSeen, CounterTypes
  <2>3. ~(Load(u) \/ Exchange(u) \/ ExchangeFails(u) \/ Release(u) \/ Inside(u))
    BY <2>0 DEF Load, Exchange, ExchangeFails, Release, Inside, GoTo, CounterTypes
  <2> QED
    BY <2>1, <2>2, <2>3
<1> QED
  BY <1>1, Invariant, PTL DEF Spec, RefusedOnlyWhenFull
-----------------------------------------------------------------------------
(* The directories                                                         *)

Distinct(s) == \A i, j \in DOMAIN s : s[i] = s[j] => i = j
Elements(s) == {s[i] : i \in DOMAIN s}

LEMMA RemovalIs ==
  ASSUME NEW s \in Seq(Int), Distinct(s), NEW i \in DOMAIN s
  PROVE  /\ RemoveAt(s, i) \in Seq(Int) /\ Distinct(RemoveAt(s, i))
         /\ Elements(RemoveAt(s, i)) = Elements(s) \ {s[i]}
<1> DEFINE n == Len(s)
           a == SubSeq(s, 1, i - 1)
           b == SubSeq(s, i + 1, n)
           q == RemoveAt(s, i)
<1>1. n \in Nat /\ DOMAIN s = 1..n /\ i \in 1..n /\ \A j \in 1..n : s[j] \in Int
  OBVIOUS
<1>2. /\ a \in Seq(Int) /\ Len(a) = i - 1
      /\ \A j \in 1..(i - 1) : a[j] = s[j]
  BY <1>1
<1>3. /\ b \in Seq(Int) /\ Len(b) = n - i
      /\ \A j \in 1..(n - i) : b[j] = s[j + i]
  <2>1. \A j \in (i + 1)..n : s[j] \in Int
    BY <1>1
  <2>2. /\ b \in Seq(Int) /\ Len(b) = IF i + 1 <= n THEN n - (i + 1) + 1 ELSE 0
        /\ \A j \in 1..(n - (i + 1) + 1) : b[j] = s[i + 1 + j - 1]
    BY <1>1, <2>1, SubSeqProperties
  <2> HIDE DEF b
  <2>3. Len(b) = n - i /\ n - (i + 1) + 1 = n - i
    BY <1>1, <2>2
  <2>4. \A j \in 1..(n - i) : b[j] = s[i + 1 + j - 1]
    BY <2>2, <2>3
  <2>5. ASSUME NEW j \in 1..(n - i)
        PROVE  b[j] = s[j + i]
    <3>1. i + 1 + j - 1 = j + i
      BY <1>1
    <3> QED
      BY <2>4, <3>1
  <2>6. DOMAIN b = 1..(n - i)
    BY <2>2, <2>3
  <2> QED
    BY <2>2, <2>3, <2>5, <2>6
<1>4. q = a \o b
  BY DEF RemoveAt
<1> HIDE DEF a, b, q
<1>5. /\ q \in Seq(Int) /\ Len(q) = n - 1
      /\ \A j \in 1..(n - 1) : q[j] = IF j <= i - 1 THEN a[j] ELSE b[j - (i - 1)]
  <2>1. i - 1 + (n - i) = n - 1
    BY <1>1
  <2>2. /\ q \in Seq(Int) /\ Len(q) = Len(a) + Len(b)
        /\ \A j \in 1..(Len(a) + Len(b)) :
             q[j] = IF j <= Len(a) THEN a[j] ELSE b[j - Len(a)]
    BY <1>2, <1>3, <1>4, ConcatProperties
  <2>3. Len(a) + Len(b) = n - 1
    BY <1>2, <1>3, <2>1
  <2> QED
    BY <1>2, <2>2, <2>3
<1>6. \A j \in 1..(n - 1) : q[j] = IF j < i THEN s[j] ELSE s[j + 1]
  <2> SUFFICES ASSUME NEW j \in 1..(n - 1)
               PROVE  q[j] = IF j < i THEN s[j] ELSE s[j + 1]
    OBVIOUS
  <2>1. CASE j < i
    BY <1>1, <1>2, <1>5, <2>1
  <2>2. CASE ~(j < i)
    <3>1. j - (i - 1) \in 1..(n - i) /\ j - (i - 1) + i = j + 1 /\ ~(j <= i - 1)
      BY <1>1, <2>2
    <3> QED
      BY <1>3, <1>5, <2>2, <3>1
  <2> QED
    BY <2>1, <2>2
<1>7. DOMAIN q = 1..(n - 1)
  BY <1>1, <1>5
<1>8. Distinct(q)
  <2> SUFFICES ASSUME NEW j \in 1..(n - 1), NEW k \in 1..(n - 1), q[j] = q[k]
               PROVE  j = k
    BY <1>7 DEF Distinct
  <2> DEFINE J == IF j < i THEN j ELSE j + 1
             K == IF k < i THEN k ELSE k + 1
  <2>1. J \in 1..n /\ K \in 1..n /\ s[J] = s[K]
    BY <1>1, <1>6
  <2>2. J = K
    BY <1>1, <2>1 DEF Distinct
  <2> QED
    BY <1>1, <2>2
<1>9. ASSUME NEW x
      PROVE  x \in Elements(q) <=> x \in Elements(s) /\ x # s[i]
  <2>1. ASSUME NEW j \in 1..(n - 1)
        PROVE  q[j] \in Elements(s) /\ q[j] # s[i]
    <3> DEFINE J == IF j < i THEN j ELSE j + 1
    <3>1. J \in 1..n /\ q[j] = s[J] /\ J # i
      BY <1>1, <1>6
    <3> HIDE DEF J
    <3> QED
      BY <1>1, <3>1 DEF Elements, Distinct
  <2>2. ASSUME NEW j \in 1..n, s[j] # s[i]
        PROVE  s[j] \in Elements(q)
    <3> DEFINE J == IF j < i THEN j ELSE j - 1
    <3>1. j # i
      BY <2>2
    <3>2. J \in 1..(n - 1) /\ q[J] = s[j]
      BY <1>1, <1>6, <3>1
    <3> HIDE DEF J
    <3> QED
      BY <1>7, <3>2 DEF Elements
  <2> QED
    BY <1>1, <1>7, <2>1, <2>2 DEF Elements
<1> QED
  BY <1>5, <1>8, <1>9 DEF q

LEMMA AppendedIs ==
  ASSUME NEW s \in Seq(Int), Distinct(s), NEW x \in Int, x \notin Elements(s)
  PROVE  /\ Append(s, x) \in Seq(Int) /\ Distinct(Append(s, x))
         /\ Elements(Append(s, x)) = Elements(s) \cup {x}
<1> DEFINE n == Len(s)
           q == Append(s, x)
<1>1. /\ n \in Nat /\ DOMAIN s = 1..n
      /\ q \in Seq(Int) /\ DOMAIN q = 1..(n + 1)
      /\ q[n + 1] = x /\ \A j \in 1..n : q[j] = s[j]
  BY AppendProperties
<1> HIDE DEF q
<1>2. \A j \in 1..(n + 1) : j = n + 1 \/ j \in 1..n
  BY <1>1
<1>3. \A j \in 1..n : j \in 1..(n + 1) /\ q[j] # x
  BY <1>1 DEF Elements
<1>4. n + 1 \in 1..(n + 1)
  BY <1>1
<1>5. Distinct(q)
  BY <1>1, <1>2, <1>3 DEF Distinct
<1>6. \A y : y \in Elements(q) <=> y \in Elements(s) \/ y = x
  <2>1. \A j \in 1..(n + 1) : q[j] \in Elements(s) \/ q[j] = x
    BY <1>1, <1>2 DEF Elements
  <2>2. \A j \in 1..n : s[j] \in Elements(q)
    BY <1>1, <1>3 DEF Elements
  <2>3. x \in Elements(q)
    BY <1>1, <1>4 DEF Elements
  <2> QED
    BY <1>1, <2>1, <2>2, <2>3 DEF Elements
<1> QED
  BY <1>1, <1>5, <1>6 DEF q
-----------------------------------------------------------------------------
Pruning == {t \in Threads : at[t] = "pruning"}
\* The directories that no request missed.
Clean == OnDisk \ missed
\* What t leaves of them, of what there is now.
Left(t) == Cardinality(Clean \ doomed[t])
\* The threads that looked at the root no later than t, in the order of r.
Earlier(r, t) == {u \in Pruning : r[u] <= r[t]}
Room == MaxWorkspaces - 1 + Limit
\* The directories that are there to stay, as far as the latest listing knows.
Staying == OnDisk \ (skipped \cup Awaited)

DirTypes ==
  /\ issued \in 0..MaxRequests
  /\ disk \in Seq(Int) /\ Distinct(disk) /\ OnDisk \subseteq 1..issued
  /\ doomed \in [Threads -> SUBSET (1..issued)]
  /\ space \in [Threads -> 0..issued]
  /\ missed \subseteq 1..issued /\ skipped \subseteq missed
\* Of the threads that prune, the last to look has left room for all of them;
\* each in turn becomes the last.
HasRoom(r) ==
  \A t \in Pruning : Left(t) + Cardinality(Earlier(r, t)) <= Room
Ranked(r, m) == \A t \in Threads : r[t] <= m
OrderedRoom == \E r \in [Threads -> Nat], m \in Nat : Ranked(r, m) /\ HasRoom(r)
Fits == Cardinality(Clean) <= Room
\* There is room to stay for one more directory of each thread that prunes.
StayRoom == Cardinality(Staying) + Cardinality(Pruning) <= Room
DirInv == DirTypes /\ OrderedRoom /\ Fits /\ StayRoom
WorkInv == IInv /\ DirInv

LEMMA RoomType == Room \in Nat
BY LimitsAssumption DEF Room

LEMMA DirsFinite ==
  ASSUME DirTypes
  PROVE  /\ IsFiniteSet(OnDisk)
         /\ IsFiniteSet(Clean) /\ Cardinality(Clean) \in Nat
         /\ IsFiniteSet(Staying) /\ Cardinality(Staying) \in Nat
         /\ \A t \in Threads : IsFiniteSet(Clean \ doomed[t]) /\ Left(t) \in Nat
<1>1. IsFiniteSet(1..issued)
  BY FS_Interval, LimitsAssumption DEF DirTypes
<1>2. IsFiniteSet(OnDisk)
  BY <1>1, FS_Subset DEF DirTypes
<1>3. ASSUME NEW S \in SUBSET OnDisk
      PROVE  IsFiniteSet(S) /\ Cardinality(S) \in Nat
  BY <1>2, FS_Subset, FS_CardinalityType
<1>4. Clean \in SUBSET OnDisk /\ Staying \in SUBSET OnDisk
  BY DEF Clean, Staying
<1>5. \A t \in Threads : Clean \ doomed[t] \in SUBSET OnDisk
  BY DEF Clean
<1> QED
  BY <1>2, <1>3, <1>4, <1>5 DEF Left

LEMMA PruningFinite ==
  /\ IsFiniteSet(Pruning) /\ Cardinality(Pruning) \in Nat
  /\ \A r, t : IsFiniteSet(Earlier(r, t)) /\ Cardinality(Earlier(r, t)) \in Nat
<1>1. Pruning \in SUBSET Threads
  BY DEF Pruning
<1>2. ASSUME NEW S \in SUBSET Threads
      PROVE  IsFiniteSet(S) /\ Cardinality(S) \in Nat
  BY ThreadsAssumption, FS_Subset, FS_CardinalityType
<1>3. \A r, t : Earlier(r, t) \in SUBSET Threads
  BY <1>1 DEF Earlier
<1> QED
  BY <1>1, <1>2, <1>3

LEMMA SmallerCount ==
  ASSUME NEW S, IsFiniteSet(S), NEW T \in SUBSET S
  PROVE  /\ Cardinality(T) \in Nat /\ Cardinality(S) \in Nat
         /\ Cardinality(T) <= Cardinality(S)
BY FS_Subset, FS_CardinalityType

\* No directory comes, no thread begins to prune, and what a thread has still
\* to remove is removed or missed.
LetsGo ==
  /\ Clean' \subseteq Clean
  /\ Staying' \subseteq Staying
  /\ Pruning' \subseteq Pruning
  /\ \A t \in Pruning' : (Clean \ doomed[t])' \subseteq Clean \ doomed[t]

LEMMA RoomKept ==
  ASSUME DirInv, LetsGo, DirTypes'
  PROVE  DirInv'
<1>0. DirTypes
  BY DEF DirInv
<1>1. PICK r \in [Threads -> Nat], m \in Nat : Ranked(r, m) /\ HasRoom(r)
  BY DEF DirInv, OrderedRoom
<1>2. ASSUME NEW t \in Pruning'
      PROVE  Left(t)' + Cardinality(Earlier(r, t)') <= Room
  <2>1. t \in Pruning /\ t \in Threads /\ Earlier(r, t)' \in SUBSET Earlier(r, t)
    BY DEF Earlier, Pruning, LetsGo
  <2>2. /\ Cardinality(Earlier(r, t)') <= Cardinality(Earlier(r, t))
        /\ Cardinality(Earlier(r, t)') \in Nat /\ Cardinality(Earlier(r, t)) \in Nat
    BY <2>1, PruningFinite, SmallerCount
  <2>3. Left(t) + Cardinality(Earlier(r, t)) <= Room
    BY <1>1, <2>1 DEF HasRoom
  <2>4. (Clean \ doomed[t])' \in SUBSET (Clean \ doomed[t]) /\ IsFiniteSet(Clean \ doomed[t])
    BY <1>0, <2>1, DirsFinite DEF LetsGo
  <2>5. Left(t)' \in Nat /\ Left(t) \in Nat /\ Left(t)' <= Left(t)
    BY <2>4, SmallerCount DEF Left
  <2> QED
    BY <2>2, <2>3, <2>5, RoomType
<1>3. HasRoom(r)'
  BY <1>2 DEF HasRoom, Room
<1>4. OrderedRoom'
  BY <1>1, <1>3 DEF OrderedRoom, Ranked
<1>5. Fits'
  <2>1. Clean' \in SUBSET Clean /\ IsFiniteSet(Clean)
    BY <1>0, DirsFinite DEF LetsGo
  <2>2. /\ Cardinality(Clean') \in Nat /\ Cardinality(Clean) \in Nat
        /\ Cardinality(Clean') <= Cardinality(Clean)
    BY <2>1, SmallerCount
  <2> QED
    BY <2>2, RoomType DEF DirInv, Fits, Room
<1>6. StayRoom'
  <2>1. Staying' \in SUBSET Staying /\ IsFiniteSet(Staying)
    BY <1>0, DirsFinite DEF LetsGo
  <2>2. Pruning' \in SUBSET Pruning /\ IsFiniteSet(Pruning)
    BY PruningFinite DEF LetsGo
  <2>3. /\ Cardinality(Staying') \in Nat /\ Cardinality(Staying) \in Nat
        /\ Cardinality(Staying') <= Cardinality(Staying)
    BY <2>1, SmallerCount
  <2>4. /\ Cardinality(Pruning') \in Nat /\ Cardinality(Pruning) \in Nat
        /\ Cardinality(Pruning') <= Cardinality(Pruning)
    BY <2>2, SmallerCount
  <2> QED
    BY <2>3, <2>4, RoomType DEF DirInv, StayRoom, Room
<1> QED
  BY <1>4, <1>5, <1>6 DEF DirInv
-----------------------------------------------------------------------------
LEMMA RemovedIs ==
  ASSUME DirTypes, NEW w, RemoveAll(w)
  PROVE  disk' \in Seq(Int) /\ Distinct(disk') /\ OnDisk' = OnDisk \ {w}
<1>1. CASE w \notin OnDisk /\ disk' = disk
  BY <1>1 DEF DirTypes, OnDisk
<1>2. CASE \E i \in DOMAIN disk : disk[i] = w /\ disk' = RemoveAt(disk, i)
  <2>1. PICK i \in DOMAIN disk : disk[i] = w /\ disk' = RemoveAt(disk, i)
    BY <1>2
  <2>2. /\ RemoveAt(disk, i) \in Seq(Int) /\ Distinct(RemoveAt(disk, i))
        /\ Elements(RemoveAt(disk, i)) = Elements(disk) \ {w}
    BY <2>1, RemovalIs DEF DirTypes
  <2> QED
    BY <2>1, <2>2 DEF OnDisk, Elements
<1> QED
  BY <1>1, <1>2 DEF RemoveAll

LEMMA TouchedIs ==
  ASSUME DirTypes, NEW w, Touch(w)
  PROVE  disk' \in Seq(Int) /\ Distinct(disk') /\ OnDisk' = OnDisk
<1>1. PICK i \in DOMAIN disk : disk[i] = w /\ disk' = Append(RemoveAt(disk, i), w)
  BY DEF Touch
<1> DEFINE s == RemoveAt(disk, i)
<1>2. s \in Seq(Int) /\ Distinct(s) /\ Elements(s) = Elements(disk) \ {w}
  BY <1>1, RemovalIs DEF DirTypes
<1>3. w \in Int /\ w \in Elements(disk)
  BY <1>1 DEF DirTypes, Elements
<1>4. disk' = Append(s, w)
  BY <1>1
<1> HIDE DEF s
<1>5. disk' \in Seq(Int) /\ Distinct(disk') /\ Elements(disk') = Elements(s) \cup {w}
  BY <1>2, <1>3, <1>4, AppendedIs
<1> QED
  BY <1>2, <1>3, <1>5 DEF OnDisk, Elements

LEMMA ResistedIs ==
  ASSUME DirTypes, NEW w, Resists(w)
  PROVE  disk' \in Seq(Int) /\ Distinct(disk') /\ OnDisk' = OnDisk
<1>1. CASE disk' = disk
  BY <1>1 DEF DirTypes, OnDisk
<1>2. CASE Touch(w)
  BY <1>2, TouchedIs
<1> QED
  BY <1>1, <1>2 DEF Resists

\* Who gives up leaves what it did not remove as missed.
LEMMA GiveUpKeepsRoom ==
  ASSUME DirInv, CounterTypes, NEW t \in Threads, GiveUp(t)
  PROVE  DirInv'
<1>0. DirTypes
  BY DEF DirInv
<1>1. /\ doomed' = [doomed EXCEPT ![t] = {}] /\ at' = [at EXCEPT ![t] = "leaving"]
      /\ disk' = disk /\ issued' = issued /\ space' = space
      /\ missed' = missed \cup doomed[t] /\ skipped' = skipped \cup doomed[t]
  BY DEF GiveUp, GoTo, Misses
<1>2. OnDisk' = OnDisk
  BY <1>1 DEF OnDisk
<1>3. DirTypes'
  BY <1>0, <1>1, <1>2 DEF DirTypes
<1>4. \A u \in Pruning' : u \in Pruning /\ u \in Threads /\ doomed'[u] = doomed[u]
  BY <1>0, <1>1 DEF Pruning, CounterTypes, DirTypes
<1>5. Clean' \subseteq Clean
  BY <1>1, <1>2 DEF Clean
<1>6. \A u \in Threads : u = t \/ doomed'[u] = doomed[u]
  BY <1>0, <1>1 DEF DirTypes
<1>7. Awaited \subseteq Awaited' \cup doomed[t]
  BY <1>6 DEF Awaited
<1>8. Staying' \subseteq Staying
  BY <1>1, <1>2, <1>7 DEF Staying
<1>9. LetsGo
  BY <1>4, <1>5, <1>8 DEF LetsGo
<1> QED
  BY <1>0, <1>3, <1>9, RoomKept

\* What is removed leaves the disk; what resists is missed from then on.
LEMMA PruneKeepsRoom ==
  ASSUME DirInv, CounterTypes, NEW t \in Threads, Prune(t)
  PROVE  DirInv'
<1>0. DirTypes
  BY DEF DirInv
<1>1. PICK w \in doomed[t] :
        /\ \/ RemoveAll(w) /\ Misses({})
           \/ Resists(w) /\ Misses({w})
        /\ doomed' = [doomed EXCEPT ![t] = @ \ {w}]
  BY DEF Prune
<1>2. at' = at /\ issued' = issued /\ space' = space
  BY DEF Prune
<1>3. w \in 1..issued /\ doomed[t] \subseteq 1..issued
  BY <1>0, <1>1 DEF DirTypes
<1>4. /\ doomed' \in [Threads -> SUBSET (1..issued)]
      /\ doomed'[t] = doomed[t] \ {w}
      /\ \A u \in Threads : u = t \/ doomed'[u] = doomed[u]
  BY <1>0, <1>1, <1>3 DEF DirTypes
<1>5. /\ disk' \in Seq(Int) /\ Distinct(disk')
      /\ \/ OnDisk' = OnDisk \ {w} /\ missed' = missed /\ skipped' = skipped
         \/ OnDisk' = OnDisk /\ missed' = missed \cup {w} /\ skipped' = skipped \cup {w}
  <2>1. CASE RemoveAll(w) /\ Misses({})
    BY <1>0, <2>1, RemovedIs DEF Misses
  <2>2. CASE Resists(w) /\ Misses({w})
    BY <1>0, <2>2, ResistedIs DEF Misses
  <2> QED
    BY <1>1, <2>1, <2>2
<1>6. DirTypes'
  BY <1>0, <1>2, <1>3, <1>4, <1>5 DEF DirTypes
<1>7. Pruning' = Pruning /\ Pruning \subseteq Threads
  BY <1>2 DEF Pruning
<1>8. Clean' \subseteq Clean \ {w}
  BY <1>5 DEF Clean
<1>9. \A u \in Pruning' : (Clean \ doomed[u])' \subseteq Clean \ doomed[u]
  <2> SUFFICES ASSUME NEW u \in Pruning'
               PROVE  Clean' \ doomed'[u] \subseteq Clean \ doomed[u]
    OBVIOUS
  <2>1. CASE u = t
    BY <1>4, <1>8, <2>1
  <2>2. CASE u # t
    BY <1>4, <1>7, <1>8, <2>2
  <2> QED
    BY <2>1, <2>2
<1>10. Awaited \subseteq Awaited' \cup {w}
  BY <1>4 DEF Awaited
<1>11. Staying' \subseteq Staying
  BY <1>5, <1>10 DEF Staying
<1>12. LetsGo
  BY <1>7, <1>8, <1>9, <1>11 DEF LetsGo
<1> QED
  BY <1>0, <1>6, <1>12, RoomKept

\* The other steps neither list the root nor make a directory.
LEMMA OthersKeepRoom ==
  ASSUME DirInv, CounterTypes, NEW t \in Threads,
         \/ Load(t) \/ Exchange(t) \/ ExchangeFails(t) \/ Refuse(t) \/ Release(t)
         \/ WriteFiles(t) \/ Finish(t) \/ Throw(t) \/ Discard(t)
  PROVE  DirInv'
<1>0. DirTypes
  BY DEF DirInv
<1>1. /\ doomed' = doomed /\ issued' = issued /\ missed' = missed /\ skipped' = skipped
      /\ space' \in [Threads -> 0..issued]
  BY <1>0 DEF DirTypes, Load, Exchange, ExchangeFails, Refuse, Release, WriteFiles, Finish,
     Throw, Discard
<1>2. Pruning' \subseteq Pruning
  BY DEF Pruning, CounterTypes, GoTo, Load, Exchange, ExchangeFails, Refuse, Release,
     WriteFiles, Finish, Throw, Discard
<1>3. disk' \in Seq(Int) /\ Distinct(disk') /\ OnDisk' \subseteq OnDisk
  <2>1. CASE disk' = disk
    BY <1>0, <2>1 DEF DirTypes, OnDisk
  <2>2. CASE RemoveAll(space[t])
    BY <1>0, <2>2, RemovedIs
  <2>3. CASE Touch(space[t])
    BY <1>0, <2>3, TouchedIs
  <2>4. CASE Resists(space[t])
    BY <1>0, <2>4, ResistedIs
  <2> QED
    BY <2>1, <2>2, <2>3, <2>4 DEF Load, Exchange, ExchangeFails, Refuse, Release, WriteFiles,
       Finish, Throw, Discard
<1>4. DirTypes'
  BY <1>0, <1>1, <1>3 DEF DirTypes
<1>5. Awaited' = Awaited
  BY <1>1 DEF Awaited
<1>6. /\ Clean' \subseteq Clean /\ Staying' \subseteq Staying
      /\ \A u \in Pruning' : (Clean \ doomed[u])' \subseteq Clean \ doomed[u]
  BY <1>1, <1>3, <1>5 DEF Clean, Staying
<1>7. LetsGo
  BY <1>2, <1>6 DEF LetsGo
<1> QED
  BY <1>0, <1>4, <1>7, RoomKept

\* A new directory takes the room left for its maker, who is last or gives way
\* to one that is.
LEMMA MakeKeepsRoom ==
  ASSUME DirInv, CounterTypes, NEW v \in Threads, MakeDirectory(v)
  PROVE  DirInv'
<1> DEFINE new == issued + 1
<1>0. DirTypes /\ MaxRequests \in Nat
  BY LimitsAssumption DEF DirInv
<1>1. /\ issued < MaxRequests /\ issued' = new /\ disk' = Append(disk, new)
      /\ space' = [space EXCEPT ![v] = new] /\ doomed' = doomed
      /\ missed' = missed /\ skipped' = skipped
      /\ at' = [at EXCEPT ![v] = "working"] /\ at[v] = "pruning" /\ doomed[v] = {}
  BY DEF MakeDirectory, GoTo
<1>2. new \in Nat /\ new \notin 1..issued /\ 1..issued \subseteq 1..new /\ new \in 1..new
  BY <1>0 DEF DirTypes
<1>a. new \in 0..MaxRequests /\ 0..issued \subseteq 0..new /\ new \in 0..new
  BY <1>0, <1>1 DEF DirTypes
<1> HIDE DEF new
<1>3. disk' \in Seq(Int) /\ Distinct(disk') /\ OnDisk' = OnDisk \cup {new} /\ new \notin OnDisk
  <2>1. disk \in Seq(Int) /\ Distinct(disk) /\ Elements(disk) = OnDisk
    BY <1>0 DEF DirTypes, OnDisk, Elements
  <2>2. new \in Int /\ new \notin OnDisk
    BY <1>0, <1>2 DEF DirTypes
  <2>3. /\ disk' \in Seq(Int) /\ Distinct(disk')
        /\ Elements(disk') = Elements(disk) \cup {new}
    BY <1>1, <2>1, <2>2, AppendedIs
  <2>4. OnDisk' = Elements(disk')
    BY DEF OnDisk, Elements
  <2> QED
    BY <2>1, <2>2, <2>3, <2>4
<1>4. \A t \in Threads : doomed[t] \subseteq 1..issued /\ new \notin doomed[t]
  BY <1>0, <1>2 DEF DirTypes
<1>5. DirTypes'
  <2>1. doomed' \in [Threads -> SUBSET (1..new)]
    BY <1>0, <1>1, <1>2, <1>4 DEF DirTypes
  <2>2. space' \in [Threads -> 0..new]
    BY <1>0, <1>1, <1>a DEF DirTypes
  <2> QED
    BY <1>0, <1>1, <1>2, <1>a, <1>3, <2>1, <2>2 DEF DirTypes
<1>6. Pruning' = Pruning \ {v} /\ v \in Pruning
  BY <1>1 DEF Pruning, CounterTypes
<1>c. Clean' = Clean \cup {new} /\ new \notin Clean
  BY <1>0, <1>1, <1>2, <1>3 DEF Clean, DirTypes
<1>7. PICK r \in [Threads -> Nat], m \in Nat : Ranked(r, m) /\ HasRoom(r)
  BY DEF DirInv, OrderedRoom
<1>8. /\ Cardinality(Clean) + Cardinality(Earlier(r, v)) <= Room
      /\ v \in Earlier(r, v)
      /\ IsFiniteSet(Clean) /\ Cardinality(Clean) \in Nat
      /\ Cardinality(Earlier(r, v)) \in Nat /\ Cardinality(Earlier(r, v)) # 0
      /\ IsFiniteSet(Earlier(r, v))
  <2>1. Left(v) = Cardinality(Clean)
    <3>1. Clean \ doomed[v] = Clean
      BY <1>1
    <3> QED
      BY <3>1 DEF Left
  <2>2. v \in Earlier(r, v) /\ IsFiniteSet(Earlier(r, v)) /\ Cardinality(Earlier(r, v)) \in Nat
    BY <1>6, <1>7, PruningFinite DEF Earlier
  <2>3. Cardinality(Earlier(r, v)) # 0
    BY <2>2, FS_EmptySet
  <2>4. Left(v) + Cardinality(Earlier(r, v)) <= Room
    BY <1>6, <1>7 DEF HasRoom
  <2>5. IsFiniteSet(Clean) /\ Cardinality(Clean) \in Nat
    BY <1>0, DirsFinite
  <2> QED
    BY <2>1, <2>2, <2>3, <2>4, <2>5
<1> DEFINE r2 == [u \in Threads |-> IF r[u] < r[v] THEN r[v] ELSE r[u]]
<1>9. r2 \in [Threads -> Nat] /\ Ranked(r2, m)
  BY <1>7 DEF Ranked
<1>10. ASSUME NEW t \in Pruning'
       PROVE  Left(t)' + Cardinality(Earlier(r2, t)') <= Room
  <2>1. t \in Threads /\ t \in Pruning /\ t # v
    BY <1>6 DEF Pruning
  <2>2. Left(t)' = Left(t) + 1 /\ Left(t) \in Nat
    <3> DEFINE K == Clean \ doomed[t]
    <3>1. (Clean \ doomed[t])' = K \cup {new} /\ new \notin K
      BY <1>1, <1>c, <1>4, <2>1
    <3>2. IsFiniteSet(K) /\ Left(t) \in Nat /\ Left(t) = Cardinality(K)
      BY <1>0, <2>1, DirsFinite DEF Left
    <3> HIDE DEF K
    <3>3. Cardinality(K \cup {new}) = Cardinality(K) + 1
      BY <3>1, <3>2, FS_AddElement
    <3> QED
      BY <3>1, <3>2, <3>3 DEF Left
  <2>3. CASE r[t] >= r[v]
    <3>1. v \in Earlier(r, t)
      BY <1>6, <1>7, <2>3 DEF Earlier
    <3>2. Earlier(r2, t)' = Earlier(r, t) \ {v}
      BY <1>6, <1>7, <2>1, <2>3 DEF Earlier, Pruning
    <3> HIDE DEF r2
    <3>3. Cardinality(Earlier(r, t) \ {v}) = Cardinality(Earlier(r, t)) - 1
      BY <3>1, PruningFinite, FS_RemoveElement
    <3>4. Left(t) + Cardinality(Earlier(r, t)) <= Room /\ Cardinality(Earlier(r, t)) \in Nat
      BY <1>7, <2>1, PruningFinite DEF HasRoom
    <3> QED
      BY <2>2, <3>2, <3>3, <3>4, RoomType
  <2>4. CASE r[t] < r[v]
    <3>1. Earlier(r2, t)' = Earlier(r, v) \ {v}
      BY <1>6, <1>7, <2>1, <2>4 DEF Earlier, Pruning
    <3> HIDE DEF r2
    <3>2. Cardinality(Earlier(r, v) \ {v}) = Cardinality(Earlier(r, v)) - 1
      BY <1>8, FS_RemoveElement
    <3>3. Left(t) <= Cardinality(Clean)
      <4>1. Clean \ doomed[t] \in SUBSET Clean
        OBVIOUS
      <4> QED
        BY <1>8, <4>1, SmallerCount DEF Left
    <3> QED
      BY <1>8, <2>2, <3>1, <3>2, <3>3, RoomType
  <2>5. r[t] >= r[v] \/ r[t] < r[v]
    BY <1>7, <2>1
  <2> QED
    BY <2>3, <2>4, <2>5
<1>b. r2 \in [Threads -> Nat] /\ Ranked(r2, m)
  BY <1>9
<1> HIDE DEF r2
<1>11. HasRoom(r2)'
  BY <1>10 DEF HasRoom, Room
<1>12. OrderedRoom'
  BY <1>7, <1>b, <1>11 DEF OrderedRoom, Ranked
<1>13. Fits'
  <2>1. Cardinality(Clean') = Cardinality(Clean) + 1
    BY <1>c, <1>8, FS_AddElement
  <2> QED
    BY <1>8, <2>1, RoomType DEF Fits, Room
<1>14. StayRoom'
  <2>1. Awaited' = Awaited
    BY <1>1 DEF Awaited
  <2>2. Staying' \in SUBSET (Staying \cup {new})
    BY <1>1, <1>3, <2>1 DEF Staying
  <2>3. IsFiniteSet(Staying) /\ Cardinality(Staying) \in Nat
    BY <1>0, DirsFinite
  <2>4. /\ IsFiniteSet(Staying \cup {new})
        /\ Cardinality(Staying \cup {new}) <= Cardinality(Staying) + 1
    <3>1. new \notin Staying
      BY <1>3 DEF Staying
    <3>2. /\ IsFiniteSet(Staying \cup {new})
          /\ Cardinality(Staying \cup {new}) = Cardinality(Staying) + 1
      BY <2>3, <3>1, FS_AddElement
    <3> QED
      BY <2>3, <3>2
  <2>5. /\ Cardinality(Staying') \in Nat /\ Cardinality(Staying \cup {new}) \in Nat
        /\ Cardinality(Staying') <= Cardinality(Staying \cup {new})
    BY <2>2, <2>4, SmallerCount
  <2>6. /\ Cardinality(Pruning') = Cardinality(Pruning) - 1
        /\ Cardinality(Pruning) \in Nat
    BY <1>6, PruningFinite, FS_RemoveElement
  <2> QED
    BY <2>3, <2>4, <2>5, <2>6, RoomType DEF DirInv, StayRoom, Room
<1> QED
  BY <1>5, <1>12, <1>13, <1>14 DEF DirInv
-----------------------------------------------------------------------------
\* Requests that prune are no more than the limit.
LEMMA PruningLimited == IInv => Cardinality(Pruning) <= Limit
<1> SUFFICES ASSUME IInv PROVE Cardinality(Pruning) <= Limit
  OBVIOUS
<1>1. Pruning \in SUBSET Admitted
  BY DEF Pruning, Admitted
<1>2. /\ Cardinality(Pruning) <= Cardinality(Admitted)
      /\ Cardinality(Pruning) \in Nat /\ Cardinality(Admitted) \in Nat
  BY <1>1, AdmittedFinite, SmallerCount
<1>3. Cardinality(Admitted) <= Limit
  BY DEF IInv, LimitKept
<1> QED
  BY <1>2, <1>3, LimitsAssumption

LEMMA PruningLimitedNext == IInv' => (Cardinality(Pruning) <= Limit)'
<1>1. IInv => Cardinality(Pruning) <= Limit
  BY PruningLimited
<1> QED
  BY <1>1, PTL

\* Of what a listing shows, less is kept than the root is to hold.
LEMMA KeptCount ==
  ASSUME NEW kept, IsFiniteSet(kept), NEW surplus \in SUBSET kept,
         Cardinality(surplus) = Excess(Cardinality(kept))
  PROVE  /\ IsFiniteSet(kept \ surplus) /\ Cardinality(kept \ surplus) \in Nat
         /\ Cardinality(kept \ surplus) <= MaxWorkspaces - 1
<1>1. kept \cap surplus = surplus
  OBVIOUS
<1>2. /\ IsFiniteSet(kept \ surplus)
      /\ Cardinality(kept \ surplus) = Cardinality(kept) - Cardinality(surplus)
  BY <1>1, FS_Difference
<1>3. Cardinality(kept) \in Nat /\ Cardinality(kept \ surplus) \in Nat
  BY <1>2, FS_CardinalityType
<1> QED
  BY <1>2, <1>3, LimitsAssumption DEF Excess

\* Who looks at the root keeps no more of what it sees than leaves the room to
\* make one; it is the last to look.
LEMMA CleanupKeepsRoom ==
  ASSUME DirInv, IInv, IInv', NEW v \in Threads, Cleanup(v)
  PROVE  DirInv'
<1>0. DirTypes /\ CounterTypes
  BY DEF DirInv, IInv
<1>1. PICK listed \in SUBSET OnDisk : \E expired \in SUBSET (listed \ InUse) :
        LET kept == listed \ expired
        IN  /\ Oldest(expired, listed)
            /\ \E surplus \in SUBSET kept :
                 /\ Oldest(surplus, kept)
                 /\ Cardinality(surplus) = Excess(Cardinality(kept))
                 /\ doomed' = [doomed EXCEPT ![v] = expired \cup surplus]
            /\ missed' = missed \cup (OnDisk \ listed)
            /\ skipped' = OnDisk \ listed
  BY DEF Cleanup
<1>e. PICK expired \in SUBSET (listed \ InUse) :
        /\ \E surplus \in SUBSET (listed \ expired) :
             /\ Cardinality(surplus) = Excess(Cardinality(listed \ expired))
             /\ doomed' = [doomed EXCEPT ![v] = expired \cup surplus]
        /\ missed' = missed \cup (OnDisk \ listed)
        /\ skipped' = OnDisk \ listed
  BY <1>1
<1>2. PICK surplus \in SUBSET (listed \ expired) :
        /\ Cardinality(surplus) = Excess(Cardinality(listed \ expired))
        /\ doomed' = [doomed EXCEPT ![v] = expired \cup surplus]
        /\ missed' = missed \cup (OnDisk \ listed)
        /\ skipped' = OnDisk \ listed
  BY <1>e
<1>3. /\ at[v] = "admitted" /\ at' = [at EXCEPT ![v] = "pruning"]
      /\ disk' = disk /\ space' = space /\ issued' = issued
  BY DEF Cleanup, GoTo
<1> DEFINE gone == expired \cup surplus
           stays == (listed \ expired) \ surplus
<1>4. IsFiniteSet(stays) /\ Cardinality(stays) \in Nat /\ Cardinality(stays) <= MaxWorkspaces - 1
  <2>1. IsFiniteSet(listed \ expired)
    BY <1>0, DirsFinite, FS_Subset
  <2> QED
    BY <1>2, <2>1, KeptCount
<1>5. gone \subseteq listed /\ stays = listed \ gone /\ doomed' = [doomed EXCEPT ![v] = gone]
  BY <1>2
<1> HIDE DEF gone, stays
<1>6. OnDisk' = OnDisk /\ OnDisk \subseteq 1..issued
  BY <1>0, <1>3 DEF OnDisk, DirTypes
<1>7. /\ doomed' \in [Threads -> SUBSET (1..issued)]
      /\ doomed'[v] = gone
      /\ \A t \in Threads \ {v} : doomed'[t] = doomed[t]
  BY <1>0, <1>5, <1>6 DEF DirTypes
<1>8. DirTypes'
  BY <1>0, <1>2, <1>3, <1>6, <1>7 DEF DirTypes
<1>9. /\ Pruning' = Pruning \cup {v} /\ v \notin Pruning /\ Pruning \subseteq Threads
  BY <1>0, <1>3 DEF Pruning, CounterTypes
<1>a. Clean' \subseteq Clean /\ Clean' \subseteq listed
  BY <1>2, <1>6 DEF Clean
<1>10. PICK r \in [Threads -> Nat], m \in Nat : Ranked(r, m) /\ HasRoom(r)
  BY DEF DirInv, OrderedRoom
<1> DEFINE r2 == [r EXCEPT ![v] = m + 1]
<1>11. r2 \in [Threads -> Nat] /\ Ranked(r2, m + 1) /\ m + 1 \in Nat
  BY <1>10 DEF Ranked
<1>12. ASSUME NEW t \in Threads \ {v}, t \in Pruning'
       PROVE  Left(t)' + Cardinality(Earlier(r2, t)') <= Room
  <2>1. t \in Pruning
    BY <1>9, <1>12
  <2>2. Earlier(r2, t)' = Earlier(r, t)
    <3>1. r2[t] = r[t] /\ r2[v] = m + 1 /\ ~(m + 1 <= r[t])
      BY <1>10 DEF Ranked
    <3>2. \A u \in Threads \ {v} : r2[u] = r[u]
      BY <1>10
    <3> HIDE DEF r2
    <3>3. Earlier(r2, t)' = {u \in Pruning' : r2[u] <= r2[t]}
      BY DEF Earlier
    <3> QED
      BY <1>9, <3>1, <3>2, <3>3 DEF Earlier
  <2>3. (Clean \ doomed[t])' \in SUBSET (Clean \ doomed[t]) /\ IsFiniteSet(Clean \ doomed[t])
    BY <1>0, <1>7, <1>a, DirsFinite
  <2>4. Left(t)' \in Nat /\ Left(t) \in Nat /\ Left(t)' <= Left(t)
    BY <2>3, SmallerCount DEF Left
  <2>5. Left(t) + Cardinality(Earlier(r, t)) <= Room
    BY <1>10, <2>1 DEF HasRoom
  <2>6. Cardinality(Earlier(r, t)) \in Nat
    BY PruningFinite
  <2> HIDE DEF r2
  <2> QED
    BY <2>2, <2>4, <2>5, <2>6, RoomType
<1>p. Cardinality(Pruning') \in Nat /\ Cardinality(Pruning') <= Limit
  <2>1. Pruning' \in SUBSET Threads
    BY <1>9
  <2> QED
    BY <2>1, PruningLimitedNext, ThreadsAssumption, SmallerCount
<1>13. Left(v)' + Cardinality(Earlier(r2, v)') <= Room
  <2>1. Earlier(r2, v)' = Pruning'
    <3>1. r2[v] = m + 1 /\ \A u \in Threads : r2[u] \in Nat /\ r2[u] <= m + 1
      BY <1>10, <1>11 DEF Ranked
    <3> HIDE DEF r2
    <3>2. Earlier(r2, v)' = {u \in Pruning' : r2[u] <= r2[v]}
      BY DEF Earlier
    <3> QED
      BY <1>9, <3>1, <3>2
  <2>2. (Clean \ doomed[v])' \in SUBSET stays
    BY <1>5, <1>7, <1>a
  <2>3. Left(v)' \in Nat /\ Left(v)' <= Cardinality(stays)
    BY <1>4, <2>2, SmallerCount DEF Left
  <2> HIDE DEF r2
  <2> QED
    BY <1>4, <1>p, <2>1, <2>3, LimitsAssumption DEF Room
<1>b. r2 \in [Threads -> Nat] /\ Ranked(r2, m + 1) /\ m + 1 \in Nat
  BY <1>11
<1> HIDE DEF r2
<1>14. HasRoom(r2)'
  BY <1>9, <1>12, <1>13 DEF HasRoom, Room
<1>15. OrderedRoom'
  BY <1>b, <1>14 DEF OrderedRoom, Ranked
<1>16. Fits'
  <2>1. Clean' \in SUBSET Clean /\ IsFiniteSet(Clean)
    BY <1>0, <1>a, DirsFinite
  <2>2. /\ Cardinality(Clean') \in Nat /\ Cardinality(Clean) \in Nat
        /\ Cardinality(Clean') <= Cardinality(Clean)
    BY <2>1, SmallerCount
  <2> QED
    BY <2>2, RoomType DEF DirInv, Fits, Room
<1>17. StayRoom'
  <2>1. gone \subseteq Awaited'
    BY <1>7 DEF Awaited
  <2>2. Staying' \in SUBSET stays
    BY <1>2, <1>5, <1>6, <2>1 DEF Staying
  <2>3. Cardinality(Staying') \in Nat /\ Cardinality(Staying') <= Cardinality(stays)
    BY <1>4, <2>2, SmallerCount
  <2> QED
    BY <1>4, <1>p, <2>3, LimitsAssumption DEF StayRoom, Room
<1> QED
  BY <1>8, <1>15, <1>16, <1>17 DEF DirInv
-----------------------------------------------------------------------------
LEMMA InitRoom == Init => DirInv
<1> SUFFICES ASSUME Init PROVE DirInv
  OBVIOUS
<1>1. OnDisk = {} /\ Pruning = {} /\ Clean = {} /\ Staying = {}
  BY DEF Init, OnDisk, Pruning, Clean, Staying
<1>2. DirTypes
  BY <1>1, LimitsAssumption DEF DirTypes, Init, Distinct
<1>3. OrderedRoom
  <2> DEFINE r == [t \in Threads |-> 0]
  <2>1. r \in [Threads -> Nat] /\ 0 \in Nat /\ Ranked(r, 0)
    BY DEF Ranked
  <2>2. HasRoom(r)
    BY <1>1 DEF HasRoom
  <2> HIDE DEF r
  <2> QED
    BY <2>1, <2>2 DEF OrderedRoom
<1>4. Fits /\ StayRoom
  BY <1>1, FS_EmptySet, RoomType DEF Fits, StayRoom
<1> QED
  BY <1>2, <1>3, <1>4 DEF DirInv

LEMMA StepRoom == WorkInv /\ [Next]_vars => WorkInv'
<1> SUFFICES ASSUME IInv, DirInv, [Next]_vars PROVE IInv' /\ DirInv'
  BY DEF WorkInv
<1>1. IInv' /\ CounterTypes
  BY StepInvariant DEF IInv
<1>2. ASSUME NEW t \in Threads,
             \/ Load(t) \/ Exchange(t) \/ ExchangeFails(t) \/ Refuse(t) \/ Release(t)
             \/ GiveUp(t) \/ Cleanup(t) \/ Prune(t) \/ MakeDirectory(t)
             \/ WriteFiles(t) \/ Finish(t) \/ Throw(t) \/ Discard(t)
      PROVE  DirInv'
  <2>1. CASE Cleanup(t)
    BY <1>1, <2>1, CleanupKeepsRoom
  <2>2. CASE Prune(t)
    BY <1>1, <2>2, PruneKeepsRoom
  <2>3. CASE MakeDirectory(t)
    BY <1>1, <2>3, MakeKeepsRoom
  <2>4. CASE GiveUp(t)
    BY <1>1, <2>4, GiveUpKeepsRoom
  <2> QED
    BY <1>1, <1>2, <2>1, <2>2, <2>3, <2>4, OthersKeepRoom
<1>3. CASE UNCHANGED vars
  <2>1. DirTypes
    BY DEF DirInv
  <2>2. OnDisk' = OnDisk /\ Pruning' = Pruning /\ Awaited' = Awaited /\ doomed' = doomed
        /\ missed' = missed /\ skipped' = skipped
    BY <1>3 DEF vars, OnDisk, Pruning, Awaited
  <2>3. DirTypes'
    BY <1>3, <2>1, <2>2 DEF vars, DirTypes
  <2>4. LetsGo
    BY <2>2 DEF LetsGo, Clean, Staying
  <2> QED
    BY <1>1, <2>3, <2>4, RoomKept
<1> QED
  BY <1>1, <1>2, <1>3 DEF Next

LEMMA RoomInvariant == Spec => []WorkInv
<1>1. Init => WorkInv
  BY InitInvariant, InitRoom DEF WorkInv
<1> QED
  BY <1>1, StepRoom, PTL DEF Spec

\* However many requests prune the root at once, the directories that every
\* request saw, and could remove when it meant to, are never more than the root
\* is to keep and one for each request that may be inside at the same time.
\* Whatever earlier requests missed, the same holds of those that the latest
\* listing showed and that no request is still to remove, but for those whose
\* removal failed since.
THEOREM WorkspacesStayBounded == Spec => []WorkspacesBounded
<1>1. WorkInv => WorkspacesBounded
  <2> SUFFICES ASSUME DirTypes, Fits, StayRoom PROVE WorkspacesBounded
    BY DEF WorkInv, DirInv
  <2>1. Cardinality(Staying) <= Room
    BY DirsFinite, PruningFinite, RoomType DEF StayRoom
  <2> QED
    BY <2>1 DEF Fits, Clean, Staying, Room, WorkspacesBounded
<1> QED
  BY <1>1, RoomInvariant, PTL

\* Directories are numbered as they are made, and every thread knows only those.
THEOREM TypeCorrect == Spec => []TypeOK
<1>1. WorkInv => TypeOK
  <2> SUFFICES ASSUME CounterTypes, DirTypes PROVE TypeOK
    BY DEF WorkInv, IInv, DirInv
  <2>1. ASSUME NEW s \in Seq(Int), Elements(s) \subseteq 1..issued
        PROVE  s \in Seq(1..issued)
    <3>1. s \in [1..Len(s) -> Int] /\ Len(s) \in Nat
      OBVIOUS
    <3>2. \A i \in 1..Len(s) : s[i] \in 1..issued
      BY <2>1 DEF Elements
    <3> DEFINE S == 1..issued
               n == Len(s)
    <3>3. s \in [1..n -> S] /\ n \in Nat
      BY <3>1, <3>2
    <3> HIDE DEF S, n
    <3>4. s \in UNION {[1..k -> S] : k \in Nat}
      BY <3>3
    <3>5. s \in Seq(S)
      BY <3>4, SeqDef
    <3> QED
      BY <3>5 DEF S
  <2>2. disk \in Seq(1..issued)
    BY <2>1 DEF DirTypes, OnDisk, Elements
  <2> QED
    BY <2>2 DEF TypeOK, CounterTypes, DirTypes
<1> QED
  BY <1>1, RoomInvariant, PTL
=============================================================================
