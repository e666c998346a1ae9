--------------------------- MODULE MruCacheProofs ---------------------------
(***************************************************************************)
(* Proofs about MruCache, for caches of any size: the list stays a list of *)
(* the nodes in use, no pixel has two entries, answers are the transform's *)
(* where it has not failed, and the contents are those of MruOrder.        *)
(***************************************************************************)
EXTENDS MruCacheInv, WellFoundedInduction, TLAPS

(* Buffers *)

LEMMA BufferFacts ==
  ASSUME NEW b \in Buffers
  PROVE  /\ Len(b) \in 0..MaxPixels /\ DOMAIN b = 1..Len(b)
         /\ b \in [DOMAIN b -> Pixels]
BY SizeAssumption DEF Buffers

LEMMA EmptyBuffer ==
  <<>> \in Buffers /\ DOMAIN <<>> = {} /\ <<>> \in [DOMAIN <<>> -> Pixels \cup {Junk}]
BY SizeAssumption DEF Buffers

\* What the cache and the transform read is the client's pixel.
LEMMA SourceIsSrc ==
  ASSUME TypeOK, UnreadInv, pc \in {"scan", "transform"}
  PROVE  k \in DOMAIN src /\ Source = src[k] /\ Source \in Pixels
<1>1. k \in DOMAIN src /\ src \in [DOMAIN src -> Pixels]
  BY BufferFacts DEF TypeOK
<1>. QED  BY <1>1 DEF UnreadInv, Source, TypeOK
-----------------------------------------------------------------------------
(* Relinking *)

\* The order s of m nodes with the p'th brought to the front.
Front(s, m, p) ==
  [j \in 1..m |-> IF j = 1 THEN s[p] ELSE IF j <= p THEN s[j - 1] ELSE s[j]]

\* The order s of m nodes with node m put in front.
Pushed(s, m) == [j \in 1..(m + 1) |-> IF j = 1 THEN m ELSE s[j - 1]]

\* s names each of the first m nodes once.
Permutes(s, m) ==
  /\ s \in [1..m -> 0..(m - 1)]
  /\ \A j, l \in 1..m : s[j] = s[l] => j = l
  /\ \A x \in 0..(m - 1) : \E j \in 1..m : s[j] = x

LEMMA FrontPermutes ==
  ASSUME NEW m \in Nat, NEW s, NEW p \in 1..m, Permutes(s, m)
  PROVE  Permutes(Front(s, m, p), m)
<1> DEFINE f == Front(s, m, p)
           From(j) == IF j = 1 THEN p ELSE IF j <= p THEN j - 1 ELSE j
<1>1. \A j \in 1..m : From(j) \in 1..m /\ f[j] = s[From(j)]
  BY DEF Front
<1>2. f \in [1..m -> 0..(m - 1)]
  BY DEF Front, Permutes
<1>3. \A j, l \in 1..m : From(j) = From(l) => j = l
  OBVIOUS
<1>4. \A q \in 1..m : \E j \in 1..m : From(j) = q
  <2>1. SUFFICES ASSUME NEW q \in 1..m
                 PROVE  \E j \in 1..m : From(j) = q
    OBVIOUS
  <2>2. CASE q = p
    <3>1. 1 \in 1..m /\ From(1) = q
      BY <2>2
    <3>. QED  BY <3>1
  <2>3. CASE q < p
    <3>1. q + 1 \in 1..m /\ From(q + 1) = q
      BY <2>3
    <3>. QED  BY <3>1
  <2>4. CASE q > p
    <3>1. From(q) = q
      BY <2>4
    <3>. QED  BY <3>1
  <2>. QED  BY <2>2, <2>3, <2>4
<1> HIDE DEF f, From
<1>5. \A j, l \in 1..m : f[j] = f[l] => j = l
  BY <1>1, <1>3 DEF Permutes
<1>6. ASSUME NEW x \in 0..(m - 1)
      PROVE  \E j \in 1..m : f[j] = x
  <2>1. PICK q \in 1..m : s[q] = x
    BY DEF Permutes
  <2>2. PICK j \in 1..m : From(j) = q
    BY <1>4
  <2>. QED  BY <1>1, <2>1, <2>2
<1>. QED  BY <1>2, <1>5, <1>6 DEF f, Permutes

\* The p'th node of the list is taken from its place and put in front; the
\* next unused node is.
Fronted(s, p) ==
  /\ first' = s[p]
  /\ next' = IF p = 1 THEN next
             ELSE [next EXCEPT ![s[p - 1]] = next[s[p]], ![s[p]] = first]

Linked(m) == first' = m /\ next' = [next EXCEPT ![m] = first]

\* A node taken from its place and put in front leaves a list of the same nodes.
LEMMA FrontListed ==
  ASSUME NEW m, m \in Nat, m <= MaxCacheSize, NEW p, p \in 1..m,
         NEW s, s \in [1..m -> 0..(m - 1)],
         next \in [Nodes -> Links], ListedBy(s, m), Fronted(s, p)
  PROVE  /\ Front(s, m, p) \in [1..m -> 0..(m - 1)]
         /\ ListedBy(Front(s, m, p), m)'
<1> DEFINE f == Front(s, m, p)
<1>1. \A j \in 1..m : f[j] = IF j = 1 THEN s[p]
                             ELSE IF j <= p THEN s[j - 1] ELSE s[j]
  BY DEF Front
<1>2. /\ f \in [1..m -> 0..(m - 1)]
      /\ \A j, l \in 1..m : f[j] = f[l] => j = l
      /\ \A x \in 0..(m - 1) : \E j \in 1..m : f[j] = x
  <2>1. Permutes(s, m)
    BY DEF ListedBy, Permutes
  <2>2. Permutes(f, m)
    BY <2>1, FrontPermutes
  <2>. QED  BY <2>2 DEF Permutes
<1> HIDE DEF f
<1>3. /\ first = s[1]
      /\ \A j \in 1..m : s[j] \in Nodes
      /\ \A j \in 1..m : next[s[j]] = IF j = m THEN Null ELSE s[j + 1]
      /\ \A j, l \in 1..m : s[j] = s[l] => j = l
  BY SizeAssumption DEF ListedBy, Nodes
<1>4. ASSUME NEW j \in 1..m
      PROVE  next'[f[j]] = IF j = m THEN Null ELSE f[j + 1]
  <2>1. CASE p = 1
    BY <1>1, <1>3, <2>1 DEF Fronted
  <2>2. CASE p # 1
    <3>1. p - 1 \in 1..m /\ s[p - 1] # s[p]
      BY <1>3, <2>2
    <3>2. \A x \in Nodes : next'[x] = IF x = s[p] THEN s[1]
                                      ELSE IF x = s[p - 1] THEN next[s[p]]
                                      ELSE next[x]
      BY <1>3, <2>2, <3>1 DEF Fronted
    <3>3. CASE j = 1
      BY <1>1, <1>3, <2>2, <3>2, <3>3
    <3>4. CASE j # 1 /\ j < p
      <4>1. j - 1 \in 1..m /\ s[j - 1] # s[p] /\ s[j - 1] # s[p - 1]
        BY <1>3, <3>1, <3>4
      <4>2. f[j] = s[j - 1] /\ f[j + 1] = s[j] /\ next[s[j - 1]] = s[j] /\ j # m
        BY <1>1, <1>3, <3>4, <4>1
      <4>. QED  BY <1>3, <3>2, <4>1, <4>2
    <3>5. CASE j # 1 /\ j = p
      <4>1. f[j] = s[p - 1] /\ next'[s[p - 1]] = next[s[p]]
        BY <1>1, <1>3, <3>1, <3>2, <3>5
      <4>2. j # m => f[j + 1] = s[p + 1]
        BY <1>1, <3>5
      <4>. QED  BY <1>3, <3>5, <4>1, <4>2
    <3>6. CASE j # 1 /\ j > p
      <4>1. s[j] # s[p] /\ s[j] # s[p - 1] /\ f[j] = s[j]
        BY <1>1, <1>3, <3>1, <3>6
      <4>2. j # m => f[j + 1] = s[j + 1]
        BY <1>1, <3>6
      <4>. QED  BY <1>3, <3>2, <4>1, <4>2
    <3>. QED  BY <3>3, <3>4, <3>5, <3>6
  <2>. QED  BY <2>1, <2>2
<1>5. first' = f[1] /\ m # 0
  BY <1>1 DEF Fronted
<1>. QED  BY <1>2, <1>4, <1>5 DEF ListedBy, f

\* The next unused node, linked in front, makes a list one longer.
LEMMA PushedListed ==
  ASSUME NEW m, m \in Nat, m < MaxCacheSize,
         NEW s, s \in [1..m -> 0..(m - 1)],
         next \in [Nodes -> Links], ListedBy(s, m), Linked(m)
  PROVE  /\ Pushed(s, m) \in [1..(m + 1) -> 0..m]
         /\ ListedBy(Pushed(s, m), m + 1)'
<1> DEFINE f == Pushed(s, m)
<1>1. \A j \in 1..(m + 1) : f[j] = IF j = 1 THEN m ELSE s[j - 1]
  BY DEF Pushed
<1>2. f \in [1..(m + 1) -> 0..m]
  BY DEF Pushed
<1> HIDE DEF f
<1>3. /\ m \in Nodes /\ \A j \in 1..m : s[j] \in Nodes /\ s[j] # m
      /\ first = IF m = 0 THEN Null ELSE s[1]
      /\ \A j \in 1..m : next[s[j]] = IF j = m THEN Null ELSE s[j + 1]
      /\ \A j, l \in 1..m : s[j] = s[l] => j = l
      /\ \A x \in 0..(m - 1) : \E j \in 1..m : s[j] = x
  BY SizeAssumption DEF ListedBy, Nodes
<1>4. ASSUME NEW j \in 1..(m + 1)
      PROVE  next'[f[j]] = IF j = m + 1 THEN Null ELSE f[j + 1]
  <2>1. CASE j = 1
    BY <1>1, <1>3, <2>1 DEF Linked
  <2>2. CASE j # 1
    <3>1. j - 1 \in 1..m /\ f[j] = s[j - 1]
      BY <1>1, <2>2
    <3>2. next'[s[j - 1]] = next[s[j - 1]]
      BY <1>3, <3>1 DEF Linked
    <3>3. j # m + 1 => f[j + 1] = s[j]
      BY <1>1, <2>2
    <3>. QED  BY <1>3, <3>1, <3>2, <3>3
  <2>. QED  BY <2>1, <2>2
<1>5. ASSUME NEW j \in 1..(m + 1), NEW l \in 1..(m + 1), f[j] = f[l]
      PROVE  j = l
  BY <1>1, <1>3, <1>5
<1>6. ASSUME NEW x \in 0..m
      PROVE  \E j \in 1..(m + 1) : f[j] = x
  <2>1. CASE x = m
    BY <1>1, <2>1
  <2>2. CASE x # m
    <3>1. PICK q \in 1..m : s[q] = x
      BY <1>3, <2>2
    <3>2. q + 1 \in 1..(m + 1) /\ f[q + 1] = x
      BY <1>1, <3>1
    <3>. QED  BY <3>2
  <2>. QED  BY <2>1, <2>2
<1>7. first' = f[1]
  BY <1>1 DEF Linked
<1>. QED  BY <1>2, <1>4, <1>5, <1>6, <1>7 DEF ListedBy, f
-----------------------------------------------------------------------------
(* The list through a hit and a miss *)

\* Used says the same of equal keys.
\* A list, and a scan of it that stands at its head, if there is one.
LEMMA ListMade ==
  ASSUME NEW m, m \in Nat, m <= size', Used' = 0..(m - 1),
         NEW s, s \in [1..m -> 0..(m - 1)], ListedBy(s, m)',
         pc' = "scan" => ptr' = first' /\ last' = Null /\ prev' = Null /\ i' = 0
  PROVE  ListInv'
<1>1. ScanAt(s, m)'
  BY DEF ScanAt, ListedBy
<1>. QED  BY <1>1 DEF ListInv

LEMMA ListFrame ==
  ASSUME TypeOK, ListInv, UNCHANGED <<size, first, next, key>>,
         pc' = "scan" => ptr' = first' /\ last' = Null /\ prev' = Null /\ i' = 0
  PROVE  ListInv'
<1>1. PICK m, s :
        /\ m \in 0..size /\ s \in [1..m -> 0..(m - 1)] /\ Used = 0..(m - 1)
        /\ ListedBy(s, m)
  BY DEF ListInv
<1>2. m \in Nat /\ m <= size' /\ Used' = 0..(m - 1) /\ ListedBy(s, m)'
  BY <1>1 DEF ListedBy, Used, TypeOK
<1>. QED  BY <1>1, <1>2, ListMade

\* A hit at the p'th node of the list.
HitAt(s, m, p) ==
  /\ m \in 0..size /\ Used = 0..(m - 1)
  /\ s \in [1..m -> 0..(m - 1)] /\ ListedBy(s, m)
  /\ p \in 1..m /\ ptr = s[p] /\ key[s[p]] = Source
  /\ ListedBy(Front(s, m, p), m)'
  /\ Front(s, m, p) \in [1..m -> 0..(m - 1)]

LEMMA HitRelinks ==
  ASSUME TypeOK, ListInv, Hit
  PROVE  \E m, s, p : HitAt(s, m, p)
<1>1. PICK m, s :
        /\ m \in 0..size /\ s \in [1..m -> 0..(m - 1)] /\ Used = 0..(m - 1)
        /\ ListedBy(s, m) /\ ScanAt(s, m)
  BY DEF ListInv
<1>0. PICK p : p = i + 1
  OBVIOUS
<1>2. p \in 1..m /\ m \in Nat /\ ptr = s[p] /\ i \in Nat /\ (p # 1 => last = s[p - 1])
  BY <1>0, <1>1 DEF Hit, AtEnd, ScanAt, TypeOK
<1>3. key[s[p]] = Source
  BY <1>2 DEF Hit
<1>4. /\ first = s[1] /\ m \in Nat /\ m <= MaxCacheSize
      /\ next \in [Nodes -> Links]
  BY <1>1, <1>2, SizeAssumption DEF ListedBy, TypeOK
<1>5. ptr = first <=> p = 1
  BY <1>1, <1>2, <1>4 DEF ListedBy
<1>6. Fronted(s, p)
  BY <1>2, <1>4, <1>5 DEF Hit, MoveToFront, Fronted
<1>7. /\ Front(s, m, p) \in [1..m -> 0..(m - 1)]
      /\ ListedBy(Front(s, m, p), m)'
  BY <1>1, <1>2, <1>4, <1>6, FrontListed
<1>. QED  BY <1>1, <1>2, <1>3, <1>7 DEF HitAt

\* A miss on a list of m nodes: the next free node or the last one is put in
\* front and gets the key.
MissAt(s, m) ==
  /\ m \in 0..size /\ Used = 0..(m - 1)
  /\ s \in [1..m -> 0..(m - 1)] /\ ListedBy(s, m)
  /\ \A x \in Used : key[x] # Source
  /\ first' \in Nodes /\ key' = [key EXCEPT ![first'] = Source]
  /\ \/ /\ m < size /\ first' = m
        /\ Used' = 0..m
        /\ Pushed(s, m) \in [1..(m + 1) -> 0..m]
        /\ ListedBy(Pushed(s, m), m + 1)'
     \/ /\ m = size /\ first' = s[m]
        /\ Used' = 0..(m - 1)
        /\ Front(s, m, m) \in [1..m -> 0..(m - 1)]
        /\ ListedBy(Front(s, m, m), m)'

LEMMA MissRelinks ==
  ASSUME TypeOK, ListInv, UnreadInv, Miss
  PROVE  \E m, s : MissAt(s, m)
<1>1. PICK m, s :
        /\ m \in 0..size /\ s \in [1..m -> 0..(m - 1)] /\ Used = 0..(m - 1)
        /\ ListedBy(s, m) /\ ScanAt(s, m)
  BY DEF ListInv
<1>2. /\ i = m /\ m \in Nat /\ size \in 1..MaxCacheSize
      /\ last = (IF m = 0 THEN Null ELSE s[m])
      /\ prev = (IF m <= 1 THEN Null ELSE s[m - 1])
      /\ \A j \in 1..m : key[s[j]] # Source
  BY <1>1 DEF Miss, AtEnd, ScanAt, TypeOK, Null
<1>3. \A x \in Used : key[x] # Source
  BY <1>1, <1>2 DEF ListedBy
<1>4. /\ next \in [Nodes -> Links] /\ key \in [Nodes -> Pixels \cup {Junk}]
      /\ Source # Junk
  BY SourceIsSrc, ImageAssumption DEF TypeOK, Miss
<1>5. CASE m < size
  <2>1. Linked(m) /\ m \in Nodes /\ m < MaxCacheSize
    BY <1>2, <1>5, SizeAssumption DEF Miss, Room, Nodes, Linked
  <2>2. /\ Pushed(s, m) \in [1..(m + 1) -> 0..m]
        /\ ListedBy(Pushed(s, m), m + 1)'
    BY <1>1, <1>2, <1>4, <1>5, <2>1, PushedListed
  <2>3. first' = m /\ key' = [key EXCEPT ![m] = Source]
    BY <2>1 DEF Miss, Linked
  <2>4. Used' = 0..m
    BY <1>1, <1>2, <1>4, <2>1, <2>3 DEF Used, Nodes
  <2>. QED  BY <1>1, <1>2, <1>3, <1>5, <2>1, <2>2, <2>3, <2>4 DEF MissAt
<1>6. CASE m = size
  <2>1. m \in 1..m /\ m <= MaxCacheSize /\ ReuseOldest
    BY <1>2, <1>6 DEF Miss, Room
  <2>0. s[m] \in 0..(m - 1) /\ s[m] \in Nodes /\ last = s[m]
    BY <1>1, <1>2, <2>1, SizeAssumption DEF Nodes
  <2>7. first = s[1] /\ next[s[m]] = Null
    BY <1>1, <2>1 DEF ListedBy
  <2>2. last = first <=> m = 1
    BY <1>1, <2>1, <2>0, <2>7 DEF ListedBy
  <2>3. Fronted(s, m)
    BY <1>2, <2>1, <2>0, <2>7, <2>2 DEF ReuseOldest, Fronted
  <2>4. /\ Front(s, m, m) \in [1..m -> 0..(m - 1)]
        /\ ListedBy(Front(s, m, m), m)'
    BY <1>1, <1>2, <1>4, <2>1, <2>3, FrontListed
  <2>5. /\ first' = s[m] /\ s[m] \in Used
        /\ key' = [key EXCEPT ![s[m]] = Source]
    BY <1>1, <2>0, <2>3 DEF Miss, Fronted
  <2>6. Used' = 0..(m - 1)
    BY <1>1, <1>4, <2>0, <2>5 DEF Used
  <2>. QED  BY <1>1, <1>3, <1>6, <2>0, <2>4, <2>5, <2>6 DEF MissAt
<1>. QED  BY <1>1, <1>2, <1>5, <1>6
-----------------------------------------------------------------------------
(* The cache's invariant *)

Empty ==
  /\ first = Null /\ key = [x \in Nodes |-> Junk]
  /\ size \in Nat /\ pc # "scan"

LEMMA EmptyCache == Empty => ListInv /\ KeysDistinct
<1> SUFFICES ASSUME Empty PROVE ListInv /\ KeysDistinct
  OBVIOUS
<1> USE DEF Empty
<1>1. Used = {}
  BY DEF Used
<1> DEFINE e == [j \in 1..0 |-> 0]
<1>2. e \in [1..0 -> 0..(0 - 1)] /\ Used = 0..(0 - 1) /\ 0 \in 0..size
  BY <1>1
<1>3. ListedBy(e, 0) /\ ScanAt(e, 0)
  BY DEF ListedBy, ScanAt
<1>4. ListInv
  BY <1>2, <1>3 DEF ListInv
<1>. QED  BY <1>1, <1>4 DEF KeysDistinct

LEMMA CacheInit == Init => CacheInv
<1> SUFFICES ASSUME Init PROVE CacheInv
  OBVIOUS
<1>1. TypeOK
  <2>1. src \in Buffers /\ dst \in [DOMAIN src -> Pixels \cup {Junk}]
    BY EmptyBuffer DEF Init
  <2>. QED  BY <2>1, SizeAssumption DEF Init, TypeOK, Links, Nodes
<1>2. ListInv /\ KeysDistinct
  BY EmptyCache, SizeAssumption DEF Init, Empty
<1>. QED  BY <1>1, <1>2 DEF Init, CacheInv, HeadInv, UnreadInv

\* Attach and Destroy make the cache anew.
LEMMA NewCacheStep ==
  ASSUME NewCache, size' \in Nat, pc' # "scan"
  PROVE  ListInv' /\ KeysDistinct'
<1>1. Empty'
  BY DEF NewCache, Empty
<1>. QED  BY <1>1, EmptyCache, PTL

\* What is left of the call when a pixel is done, with the list's new head.
Advanced ==
  /\ ptr' \in Links /\ last' = Null /\ prev' = Null /\ i' = 0
  /\ k' \in Nat \ {0} /\ rv' \in {Ok} \cup Failures
  /\ \/ pc' = "idle" /\ k = Len(src)
     \/ pc' = "scan" /\ ptr' = first' /\ k' = k + 1 /\ k' \in 1..Len(src)

LEMMA AdvanceAdvances ==
  ASSUME TypeOK, pc \in {"scan", "transform"}, Advance, first' \in Links
  PROVE  Advanced
<1>1. /\ k \in 1..Len(src) /\ Len(src) \in Nat /\ k \in Nat \ {0}
      /\ rv \in {Ok} \cup Failures
  BY BufferFacts DEF TypeOK
<1>2. CASE k = Len(src)
  BY <1>1, <1>2 DEF Advance, EndScan, BeginScan, Advanced, Links
<1>3. CASE k # Len(src)
  BY <1>1, <1>3 DEF Advance, BeginScan, Advanced
<1>. QED  BY <1>2, <1>3

\* Only the current pixel is written.
LEMMA UnreadStep ==
  ASSUME TypeOK, UnreadInv, pc \in {"scan", "transform"}, Advanced,
         UNCHANGED <<src, inPlace>>, NEW v, dst' = [dst EXCEPT ![k] = v]
  PROVE  UnreadInv'
<1>1. SUFFICES ASSUME pc' = "scan", inPlace, NEW j \in DOMAIN src, k' <= j
               PROVE  dst'[j] = src[j]
  BY DEF UnreadInv, Advanced
<1>2. /\ j \in Nat /\ k \in Nat /\ k' = k + 1
      /\ dst \in [DOMAIN src -> Pixels \cup {Junk}]
  BY <1>1, BufferFacts DEF TypeOK, Advanced
<1>3. k <= j /\ k # j
  BY <1>1, <1>2
<1>. QED  BY <1>1, <1>2, <1>3 DEF UnreadInv

LEMMA CacheStep == CacheInv /\ [Next]_vars => CacheInv'
<1> SUFFICES ASSUME CacheInv, [Next]_vars PROVE CacheInv'
  OBVIOUS
<1> USE DEF CacheInv
<1>1. ASSUME NEW c \in 0..MaxCacheSize, Attach(c)
      PROVE  CacheInv'
  <2>1. TypeOK'
    <3>1. src' \in Buffers /\ dst' \in [DOMAIN src' -> Pixels \cup {Junk}]
      BY <1>1, EmptyBuffer DEF Attach
    <3>. QED  BY <1>1, <3>1, SizeAssumption DEF Attach, NewCache, TypeOK, Links,
                                             Nodes, scanVars
  <2>2. ListInv' /\ KeysDistinct'
    BY <1>1, <2>1, NewCacheStep DEF Attach, TypeOK
  <2>. QED  BY <1>1, <2>1, <2>2 DEF Attach, HeadInv, UnreadInv
<1>2. ASSUME AttachRefused \/ AttachOutOfMemory
      PROVE  CacheInv'
  <2>1. TypeOK'
    BY <1>2 DEF AttachRefused, AttachOutOfMemory, TypeOK, listVars, scanVars,
                callVars
  <2>2. ListInv'
    BY <1>2, ListFrame DEF AttachRefused, AttachOutOfMemory, listVars
  <2>. QED  BY <1>2, <2>1, <2>2 DEF AttachRefused, AttachOutOfMemory, listVars,
                                    KeysDistinct, Used, HeadInv, UnreadInv
<1>3. ASSUME Destroy
      PROVE  CacheInv'
  <2>1. TypeOK'
    BY <1>3, SizeAssumption DEF Destroy, NewCache, TypeOK, Links, Nodes, scanVars,
                                callVars
  <2>2. ListInv' /\ KeysDistinct'
    BY <1>3, <2>1, NewCacheStep DEF Destroy, TypeOK
  <2>. QED  BY <1>3, <2>1, <2>2 DEF Destroy, HeadInv, UnreadInv
<1>4. ASSUME NEW pixels \in Buffers, NEW same \in BOOLEAN, Call(pixels, same)
      PROVE  CacheInv'
  <2>1. /\ Len(pixels) \in 0..MaxPixels /\ DOMAIN pixels = 1..Len(pixels)
        /\ pixels \in [DOMAIN pixels -> Pixels]
    BY BufferFacts
  <2>2. TypeOK'
    <3>1. src' \in Buffers /\ dst' \in [DOMAIN src' -> Pixels \cup {Junk}]
      BY <1>4, <2>1 DEF Call
    <3>2. /\ ptr' \in Links /\ last' \in Links /\ prev' \in Links
          /\ i' \in 0..MaxCacheSize
      BY <1>4, SizeAssumption DEF Call, BeginScan, TypeOK, Links, scanVars
    <3>3. /\ pc' \in {"idle", "scan"} /\ k' = 1 /\ rv' \in {Ok} \cup Failures
          /\ pc' = "scan" => 1 \in 1..Len(src')
          /\ inPlace' \in BOOLEAN
      BY <1>4, <2>1, SizeAssumption DEF Call, TypeOK
    <3>. QED  BY <1>4, <3>1, <3>2, <3>3 DEF Call, TypeOK, objectVars, listVars
  <2>3. ListInv'
    BY <1>4, ListFrame DEF Call, BeginScan, objectVars, listVars
  <2>. QED  BY <1>4, <2>2, <2>3 DEF Call, objectVars, listVars, KeysDistinct, Used,
                                    HeadInv, UnreadInv
<1>5. CASE Scan
  <2>1. ptr \in Nodes /\ next[ptr] \in Links
    BY <1>5 DEF Scan, AtEnd, TypeOK, Links
  <2>2. TypeOK'
    BY <1>5, <2>1, SizeAssumption DEF Scan, TypeOK, Links, objectVars, listVars,
                                      callVars
  <2>3. ListInv'
    <3>1. PICK m, s :
            /\ m \in 0..size /\ s \in [1..m -> 0..(m - 1)] /\ Used = 0..(m - 1)
            /\ ListedBy(s, m) /\ ScanAt(s, m)
      BY DEF ListInv
    <3>0. /\ pc = "scan" /\ ptr # Null /\ key[ptr] # Source
          /\ m \in Nat /\ MaxCacheSize \in Nat /\ m <= MaxCacheSize
      BY <1>5, <3>1, SizeAssumption DEF Scan, AtEnd, TypeOK
    <3>2. /\ i \in 0..(m - 1) /\ ptr = s[i + 1]
          /\ last = (IF i = 0 THEN Null ELSE s[i])
          /\ \A j \in 1..i : key[s[j]] # Source
      BY <3>0, <3>1 DEF ScanAt
    <3>3. next[ptr] = IF i + 1 = m THEN Null ELSE s[i + 2]
      <4>1. PICK p : p = i + 1
        OBVIOUS
      <4>2. p \in 1..m /\ ptr = s[p] /\ p + 1 = i + 2
        BY <3>0, <3>2, <4>1
      <4>3. next[s[p]] = IF p = m THEN Null ELSE s[p + 1]
        BY <3>1, <4>2 DEF ListedBy
      <4>. QED  BY <4>1, <4>2, <4>3
    <3>4. /\ i' = i + 1 /\ ptr' = next[ptr] /\ last' = ptr /\ prev' = last
          /\ key[ptr] # Source /\ Source' = Source
          /\ UNCHANGED <<pc, size, first, next, key>>
      <4>1. i < MaxCacheSize
        BY <3>0, <3>2
      <4>. QED  BY <1>5, <4>1 DEF Scan, Source, objectVars, listVars, callVars
    <3>5. ScanAt(s, m)'
      <4>1. \A j \in 1..(i + 1) : key[s[j]] # Source
        BY <3>0, <3>2
      <4>2. i + 1 \in 0..m /\ i + 1 # 0
        BY <3>0, <3>2
      <4>. QED  BY <3>0, <3>2, <3>3, <3>4, <4>1, <4>2 DEF ScanAt
    <3>6. ListedBy(s, m)' /\ Used' = 0..(m - 1)
      BY <3>1, <3>4 DEF ListedBy, Used
    <3>. QED  BY <3>1, <3>4, <3>5, <3>6 DEF ListInv
  <2>. QED  BY <1>5, <2>2, <2>3 DEF Scan, objectVars, listVars, callVars,
                                    KeysDistinct, Used, HeadInv, UnreadInv
<1>6. CASE Hit
  <2>1. PICK m, s, p : HitAt(s, m, p)
    BY <1>6, HitRelinks
  <2>2. /\ pc = "scan" /\ ptr \in Nodes /\ last \in Links /\ key[ptr] = Source
        /\ UNCHANGED <<objectVars, key, val, src, inPlace, failed>> /\ Advance
        /\ dst' = [dst EXCEPT ![k] = val[ptr]]
    BY <1>6 DEF Hit, AtEnd, TypeOK, Links
  <2>9. k \in DOMAIN src /\ DOMAIN src = 1..Len(src) /\ Len(src) \in Nat
    <3>1. k \in DOMAIN src
      BY <2>2, SourceIsSrc
    <3>. QED  BY <3>1, BufferFacts DEF TypeOK
  <2>3. TypeOK'
    <3>1. /\ dst' \in [DOMAIN src' -> Pixels \cup {Junk}] /\ src' = src
      BY <1>6, <2>2 DEF Hit, TypeOK
    <3>2. first' \in Links /\ next' \in [Nodes -> Links]
      BY <1>6, <2>2 DEF Hit, MoveToFront, TypeOK, Links
    <3>3. Advanced
      BY <2>2, <3>2, AdvanceAdvances
    <3>. QED  BY <2>2, <3>1, <3>2, <3>3, SizeAssumption DEF Advanced, TypeOK, Links,
                                                             objectVars
  <2>7. Advanced
    BY <2>2, <2>3, AdvanceAdvances DEF TypeOK
  <2>4. UNCHANGED <<key, size>> /\ Used' = Used
    BY <1>6 DEF Hit, Used, objectVars
  <2>5. ListInv'
    <3>1. pc' = "scan" => ptr' = first' /\ last' = Null /\ prev' = Null /\ i' = 0
      BY <2>7 DEF Advanced
    <3>2. size' \in Nat /\ size' = size
      BY <2>3, <2>4 DEF TypeOK
    <3>3. /\ m \in Nat /\ m <= size' /\ Used' = 0..(m - 1)
          /\ Front(s, m, p) \in [1..m -> 0..(m - 1)]
          /\ ListedBy(Front(s, m, p), m)'
      BY <2>1, <2>4, <3>2 DEF HitAt
    <3>. QED  BY <3>1, <3>3, ListMade
  <2>6. UnreadInv'
    BY <2>2, <2>7, UnreadStep
  <2>8. KeysDistinct'
    BY <2>4 DEF KeysDistinct
  <2>. QED  BY <2>3, <2>5, <2>6, <2>7, <2>8 DEF Advanced, HeadInv
<1>7. CASE Miss
  <2>1. PICK m, s : MissAt(s, m)
    BY <1>7, MissRelinks
  <2>2. /\ k \in DOMAIN src /\ Source \in Pixels /\ Source # Junk /\ Source' = Source
        /\ first' \in Nodes /\ key' = [key EXCEPT ![first'] = Source]
        /\ UNCHANGED <<objectVars, val, callVars, k, dst, failed>>
        /\ pc = "scan" /\ pc' = "transform"
    BY <1>7, <2>1, SourceIsSrc, ImageAssumption DEF Miss, MissAt, Source, callVars
  <2>3. TypeOK'
    <3>1. first' \in Links /\ next' \in [Nodes -> Links]
      BY <1>7, <2>2 DEF Miss, ReuseOldest, TypeOK, Links
    <3>2. key' \in [Nodes -> Pixels \cup {Junk}]
      BY <2>2 DEF TypeOK
    <3>3. /\ ptr' \in Links /\ last' \in Links /\ prev' \in Links
          /\ i' \in 0..MaxCacheSize
      BY <1>7, SizeAssumption DEF Miss, BeginScan, EndScan, Links
    <3>. QED  BY <2>2, <3>1, <3>2, <3>3 DEF TypeOK, objectVars, callVars
  <2>4. ListInv'
    <3>1. size' = size /\ size \in Nat
      BY <2>2 DEF TypeOK, objectVars
    <3>2. CASE m < size
      <4>1. PICK n : n = m + 1
        OBVIOUS
      <4>2. /\ n \in Nat /\ n <= size' /\ Used' = 0..(n - 1)
            /\ Pushed(s, m) \in [1..n -> 0..(n - 1)]
            /\ ListedBy(Pushed(s, m), n)'
        BY <2>1, <3>1, <3>2, <4>1 DEF MissAt
      <4>. QED  BY <2>2, <4>2, ListMade
    <3>3. CASE m = size
      <4>1. /\ m \in Nat /\ m <= size' /\ Used' = 0..(m - 1)
            /\ Front(s, m, m) \in [1..m -> 0..(m - 1)]
            /\ ListedBy(Front(s, m, m), m)'
        BY <2>1, <3>1, <3>3 DEF MissAt
      <4>. QED  BY <2>2, <4>1, ListMade
    <3>. QED  BY <2>1, <3>1, <3>2, <3>3 DEF MissAt
  <2>5. KeysDistinct'
    <3>1. \A x \in Used' : x # first' => x \in Used /\ key'[x] = key[x]
      BY <2>2 DEF Used, TypeOK
    <3>2. \A x \in Used : key[x] # Source
      BY <2>1 DEF MissAt
    <3>. QED  BY <2>2, <3>1, <3>2 DEF KeysDistinct, TypeOK
  <2>6. HeadInv'
    BY <2>2 DEF HeadInv, Used, TypeOK
  <2>7. UnreadInv'
    BY <2>2 DEF UnreadInv, callVars
  <2>. QED  BY <2>3, <2>4, <2>5, <2>6, <2>7
<1>8. CASE Transform
  <2>0. /\ pc = "transform" /\ first' = first /\ Advance
        /\ UNCHANGED <<objectVars, next, key, src, inPlace, failed>>
        /\ dst' = [dst EXCEPT ![k] = Image[Source]]
        /\ val' = [val EXCEPT ![first] = Image[Source]]
    BY <1>8 DEF Transform, Update
  <2>1. k \in DOMAIN src /\ Source \in Pixels /\ first \in Nodes /\ first \in Links
    BY <2>0, SourceIsSrc DEF HeadInv, Used, TypeOK
  <2>7. Advanced
    BY <2>0, <2>1, AdvanceAdvances
  <2>2. TypeOK'
    <3>1. Image[Source] \in Pixels
      BY <2>1, ImageAssumption
    <3>2. /\ dst' \in [DOMAIN src' -> Pixels \cup {Junk}] /\ src' = src
          /\ val' \in [Nodes -> Pixels \cup {Junk}]
      BY <2>0, <2>1, <3>1 DEF TypeOK
    <3>. QED  BY <2>0, <2>1, <2>7, <3>2, SizeAssumption DEF Advanced, TypeOK, Links,
                                                             objectVars
  <2>3. UNCHANGED <<size, first, next, key>>
    BY <2>0 DEF objectVars
  <2>4. ListInv'
    BY <2>3, <2>7, ListFrame DEF Advanced
  <2>5. UnreadInv'
    BY <2>0, <2>7, UnreadStep
  <2>. QED  BY <2>2, <2>3, <2>4, <2>5, <2>7 DEF Advanced, KeysDistinct, Used, HeadInv
<1>9. CASE TransformFails
  <2>0. Source \in Pixels
    BY <1>9, SourceIsSrc DEF TransformFails
  <2>1. TypeOK'
    BY <1>9, <2>0 DEF TransformFails, TypeOK, objectVars, listVars, scanVars
  <2>2. ListInv'
    BY <1>9, ListFrame DEF TransformFails, objectVars, listVars
  <2>. QED  BY <1>9, <2>1, <2>2 DEF TransformFails, listVars, KeysDistinct, Used,
                                    HeadInv, UnreadInv
<1>10. CASE UNCHANGED vars
  <2>1. TypeOK' /\ UnreadInv' /\ HeadInv' /\ KeysDistinct'
    BY <1>10 DEF vars, TypeOK, objectVars, listVars, scanVars, callVars, UnreadInv,
                 HeadInv, KeysDistinct, Used, Source
  <2>2. ListInv'
    <3>1. PICK m, s :
            /\ m \in 0..size /\ s \in [1..m -> 0..(m - 1)] /\ Used = 0..(m - 1)
            /\ ListedBy(s, m) /\ ScanAt(s, m)
      BY DEF ListInv
    <3>2. /\ UNCHANGED <<pc, size, first, next, key, ptr, last, prev, i>>
          /\ Source' = Source
      BY <1>10 DEF vars, Source, objectVars, listVars, scanVars, callVars
    <3>3. ListedBy(s, m)' /\ ScanAt(s, m)' /\ Used' = 0..(m - 1)
      BY <3>1, <3>2 DEF ListedBy, ScanAt, Used
    <3>. QED  BY <3>1, <3>2, <3>3 DEF ListInv
  <2>. QED  BY <2>1, <2>2
<1>. QED  BY <1>1, <1>2, <1>3, <1>4, <1>5, <1>6, <1>7, <1>8, <1>9, <1>10
          DEF Next, Client, Apply

\* In every state the list is a list of the nodes in use, the scan stands where
\* its locals say, no pixel has two entries, and the entry made by a miss is at
\* the head when its transform returns.
THEOREM CacheInvariant == SafeSpec => []CacheInv
<1>. QED  BY CacheInit, CacheStep, PTL DEF SafeSpec

\* Every variable keeps its type, the bound of m_cache included.
THEOREM TypeCorrect == SafeSpec => []TypeOK
<1>1. CacheInv => TypeOK
  BY DEF CacheInv
<1>. QED  BY CacheInvariant, <1>1, PTL

\* Relinking through raw pointers never loses, shares or cycles a node.
THEOREM ListIsWellFormed == SafeSpec => []ListWellFormed
<1>1. CacheInv => ListWellFormed
  BY DEF CacheInv, ListInv, ListWellFormed
<1>. QED  BY CacheInvariant, <1>1, PTL

\* No source pixel is cached twice.
THEOREM KeysAreDistinct == SafeSpec => []KeysDistinct
<1>1. CacheInv => KeysDistinct
  BY DEF CacheInv
<1>. QED  BY CacheInvariant, <1>1, PTL
-----------------------------------------------------------------------------
(* The answers *)

LEMMA PassedStep ==
  ASSUME TypeOK, UnreadInv, PassedInv, pc \in {"scan", "transform"}, Advanced,
         UNCHANGED <<src, failed>>, NEW v, dst' = [dst EXCEPT ![k] = v],
         v = Image[Source] \/ Source \in failed
  PROVE  PassedInv'
<1>0. k \in DOMAIN src /\ Source = src[k]
  BY SourceIsSrc
<1>1. /\ k \in DOMAIN src /\ k \in Nat /\ Source = src[k]
      /\ DOMAIN src = 1..Len(src) /\ Len(src) \in Nat
      /\ dst \in [DOMAIN src -> Pixels \cup {Junk}]
  <2>1. /\ src \in Buffers /\ k \in Nat
        /\ dst \in [DOMAIN src -> Pixels \cup {Junk}]
    BY DEF TypeOK
  <2>. QED  BY <1>0, <2>1, BufferFacts
<1>2. \A j \in DOMAIN src : j <= k => dst'[j] = Image[src[j]] \/ src[j] \in failed
  <2>1. SUFFICES ASSUME NEW j \in DOMAIN src, j <= k
                 PROVE  dst'[j] = Image[src[j]] \/ src[j] \in failed
    OBVIOUS
  <2>2. CASE j = k
    BY <1>1, <2>2
  <2>3. CASE j # k
    <3>1. j < k
      BY <1>1, <2>1, <2>3
    <3>. QED  BY <1>1, <2>3, <3>1 DEF PassedInv
  <2>. QED  BY <2>2, <2>3
<1>3. CASE pc' = "idle" /\ k = Len(src)
  BY <1>1, <1>2, <1>3 DEF PassedInv, OkMeansImages
<1>4. CASE pc' = "scan" /\ k' = k + 1
  BY <1>1, <1>2, <1>4 DEF PassedInv, OkMeansImages
<1>. QED  BY <1>3, <1>4 DEF Advanced

LEMMA AnswersStep ==
  ASSUME CacheInv, EntriesInv, PassedInv, [Next]_vars
  PROVE  EntriesInv' /\ PassedInv'
<1> USE DEF CacheInv
<1>1. ASSUME NEW c \in 0..MaxCacheSize, Attach(c)
      PROVE  EntriesInv' /\ PassedInv'
  BY <1>1 DEF Attach, NewCache, EntriesInv, PassedInv, OkMeansImages, Used
<1>2. ASSUME AttachRefused \/ AttachOutOfMemory
      PROVE  EntriesInv' /\ PassedInv'
  BY <1>2 DEF AttachRefused, AttachOutOfMemory, listVars, EntriesInv, PassedInv,
              OkMeansImages, Used
<1>3. ASSUME Destroy
      PROVE  EntriesInv' /\ PassedInv'
  BY <1>3 DEF Destroy, NewCache, EntriesInv, PassedInv, OkMeansImages, Used
<1>4. ASSUME NEW pixels \in Buffers, NEW same \in BOOLEAN, Call(pixels, same)
      PROVE  EntriesInv' /\ PassedInv'
  <2>1. /\ pc = "idle" /\ src' = pixels /\ k' = 1
        /\ UNCHANGED <<key, val, failed>>
        /\ IF Len(pixels) = 0 THEN pc' = "idle" ELSE pc' = "scan"
    BY <1>4 DEF Call, listVars
  <2>2. DOMAIN pixels = 1..Len(pixels) /\ Len(pixels) \in Nat
    BY BufferFacts
  <2>3. EntriesInv'
    BY <2>1 DEF EntriesInv, Used
  <2>4. PassedInv'
    BY <2>1, <2>2 DEF PassedInv, OkMeansImages
  <2>. QED  BY <2>3, <2>4
<1>5. CASE Scan
  <2>1. UNCHANGED <<pc, key, val, k, src, dst, failed>> /\ pc = "scan"
    BY <1>5 DEF Scan, listVars, callVars
  <2>. QED  BY <2>1 DEF EntriesInv, PassedInv, OkMeansImages, Used
<1>6. CASE Hit
  <2>1. /\ pc = "scan" /\ ptr \in Nodes /\ key[ptr] = Source
        /\ UNCHANGED <<key, val, src, failed>> /\ Advance
        /\ dst' = [dst EXCEPT ![k] = val[ptr]]
    BY <1>6 DEF Hit, AtEnd, TypeOK, Links
  <2>2. Source \in Pixels
    BY <2>1, SourceIsSrc
  <2>3. ptr \in Used /\ (val[ptr] = Image[Source] \/ Source \in failed)
    BY <2>1, <2>2, ImageAssumption DEF Used, EntriesInv
  <2>4. first' \in Links
    BY <1>6, <2>1 DEF Hit, MoveToFront, TypeOK, Links
  <2>5. Advanced
    BY <2>1, <2>4, AdvanceAdvances
  <2>6. PassedInv'
    BY <2>1, <2>3, <2>5, PassedStep
  <2>7. EntriesInv'
    BY <2>1 DEF EntriesInv, Used
  <2>. QED  BY <2>6, <2>7
<1>7. CASE Miss
  <2>1. /\ pc = "scan" /\ pc' = "transform" /\ key' = [key EXCEPT ![first'] = Source]
        /\ UNCHANGED <<val, src, k, dst, failed>>
    BY <1>7 DEF Miss, callVars
  <2>2. \A x \in Used' : x # first' => x \in Used /\ key'[x] = key[x]
    BY <2>1 DEF Used, TypeOK
  <2>3. EntriesInv'
    BY <2>1, <2>2 DEF EntriesInv
  <2>4. PassedInv'
    BY <2>1 DEF PassedInv, OkMeansImages
  <2>. QED  BY <2>3, <2>4
<1>8. CASE Transform
  <2>1. /\ pc = "transform" /\ first' = first /\ Advance
        /\ UNCHANGED <<key, src, failed>>
        /\ dst' = [dst EXCEPT ![k] = Image[Source]]
        /\ val' = [val EXCEPT ![first] = Image[Source]]
    BY <1>8 DEF Transform, Update
  <2>2. first \in Used /\ first \in Nodes /\ key[first] = Source /\ first \in Links
    BY <2>1 DEF HeadInv, Used, TypeOK
  <2>3. Advanced
    BY <2>1, <2>2, AdvanceAdvances
  <2>4. PassedInv'
    BY <2>1, <2>3, PassedStep
  <2>5. EntriesInv'
    <3>1. SUFFICES ASSUME NEW x \in Used
                   PROVE  val'[x] = Image[key[x]] \/ key[x] \in failed
      BY <2>1 DEF EntriesInv, Used
    <3>2. CASE x = first
      BY <2>1, <2>2, <3>2 DEF TypeOK
    <3>3. CASE x # first
      BY <2>1, <2>2, <3>3 DEF TypeOK, EntriesInv
    <3>. QED  BY <3>2, <3>3
  <2>. QED  BY <2>4, <2>5
<1>9. CASE TransformFails
  <2>1. /\ pc = "transform" /\ pc' = "idle" /\ rv' \in Failures
        /\ UNCHANGED <<key, val, src, dst>> /\ failed' = failed \cup {Source}
    BY <1>9 DEF TransformFails, listVars
  <2>2. first \in Used => key[first] = Source
    BY <2>1 DEF HeadInv
  <2>3. EntriesInv'
    BY <2>1, <2>2 DEF EntriesInv, Used
  <2>4. PassedInv'
    BY <2>1, ImageAssumption DEF PassedInv, OkMeansImages
  <2>. QED  BY <2>3, <2>4
<1>10. CASE UNCHANGED vars
  BY <1>10 DEF vars, listVars, callVars, EntriesInv, PassedInv, OkMeansImages, Used
<1>. QED  BY <1>1, <1>2, <1>3, <1>4, <1>5, <1>6, <1>7, <1>8, <1>9, <1>10
          DEF Next, Client, Apply

\* What a call returns Ok with is what the transform makes of every pixel,
\* wherever it came from, but for pixels it has failed on in this cache.
THEOREM AnswersAreImages == SafeSpec => []OkMeansImages
<1>1. Init => EntriesInv /\ PassedInv
  BY DEF Init, EntriesInv, PassedInv, OkMeansImages, Used
<1>2. CacheInv /\ EntriesInv /\ PassedInv /\ [Next]_vars => EntriesInv' /\ PassedInv'
  BY AnswersStep
<1>3. PassedInv => OkMeansImages
  BY DEF PassedInv
<1>. QED  BY CacheInvariant, <1>1, <1>2, <1>3, PTL DEF SafeSpec
-----------------------------------------------------------------------------
(* The order of the entries *)

Less == {ss \in Nat \X Nat : ss[1] < ss[2]}

LEMMA LessIsOpToRel == Less = OpToRel(<, Nat)
BY Zenon DEF Less, OpToRel

LEMMA Smallest ==
  ASSUME NEW T, T \subseteq Nat, T # {}
  PROVE  \E x \in T : \A y \in T : x <= y
<1>1. IsWellFoundedOn(Less, Nat)
  BY NatLessThanWellFounded, LessIsOpToRel
<1>2. PICK x \in T : \A y \in T : <<y, x>> \notin Less
  BY WFMin, <1>1
<1>3. ASSUME NEW y \in T PROVE x <= y
  <2>1. <<y, x>> \notin Less /\ x \in Nat /\ y \in Nat
    BY <1>2
  <2>2. ~ (y < x)
    BY <2>1 DEF Less
  <2>. QED  BY <2>1, <2>2
<1>. QED  BY <1>3

\* s is the order of the m nodes in use.
IsOrder(s, m) ==
  /\ size \in Nat /\ m \in 0..size /\ Used = 0..(m - 1)
  /\ s \in [1..m -> 0..(m - 1)] /\ ListedBy(s, m)

\* The walk from the head along the links, as a function of the number of steps.
Walks(f, m) == f = [j \in 1..m |-> IF j = 1 THEN first ELSE next[f[j - 1]]]

\* An order is such a walk.
LEMMA OrderWalks ==
  ASSUME NEW m, NEW s, IsOrder(s, m)
  PROVE  Walks(s, m)
<1>1. m \in Nat /\ s = [j \in 1..m |-> s[j]]
  BY DEF IsOrder
<1>2. ASSUME NEW j \in 1..m
      PROVE  s[j] = IF j = 1 THEN first ELSE next[s[j - 1]]
  <2>1. CASE j = 1
    BY <1>1, <2>1 DEF IsOrder, ListedBy
  <2>2. CASE j # 1
    <3>1. PICK w : w = j - 1
      OBVIOUS
    <3>2. w \in 1..m /\ w # m /\ w + 1 = j
      BY <1>1, <2>2, <3>1
    <3>3. next[s[w]] = s[w + 1]
      BY <3>2 DEF IsOrder, ListedBy
    <3>. QED  BY <2>2, <3>1, <3>2, <3>3
  <2>. QED  BY <2>1, <2>2
<1>. QED  BY <1>1, <1>2 DEF Walks

\* The head and the links leave one walk only.
LEMMA OneWalk ==
  ASSUME NEW m \in Nat, NEW s, NEW t, Walks(s, m), Walks(t, m)
  PROVE  s = t
<1> DEFINE T == {j \in 1..m : s[j] # t[j]}
<1>1. T \subseteq Nat
  OBVIOUS
<1>4. \A j : j \in T <=> j \in 1..m /\ s[j] # t[j]
  OBVIOUS
<1>5. \A j \in 1..m : /\ s[j] = IF j = 1 THEN first ELSE next[s[j - 1]]
                     /\ t[j] = IF j = 1 THEN first ELSE next[t[j - 1]]
  BY DEF Walks
<1> HIDE DEF T
<1>2. ASSUME T # {} PROVE FALSE
  <2>1. PICK x \in T : \A y \in T : x <= y
    BY <1>1, <1>2, Smallest
  <2>2. x \in 1..m /\ s[x] # t[x]
    BY <1>4
  <2>3. x # 1
    BY <1>5, <2>2
  <2>4. PICK w : w = x - 1
    OBVIOUS
  <2>5. w \in 1..m /\ s[w] = t[w]
    BY <1>4, <2>1, <2>2, <2>3, <2>4
  <2>. QED  BY <1>5, <2>2, <2>3, <2>4, <2>5
<1>3. \A j \in 1..m : s[j] = t[j]
  BY <1>2, <1>4
<1>. QED  BY <1>3 DEF Walks

LEMMA OrderKnown == \A m, s : IsOrder(s, m) => Order = s
<1> SUFFICES ASSUME NEW m, NEW s, IsOrder(s, m) PROVE Order = s
  OBVIOUS
<1>1. m \in Nat /\ \A n \in 0..size : Used = 0..(n - 1) => n = m
  BY DEF IsOrder
<1>2. Length = m
  BY <1>1 DEF Length, IsOrder
<1>3. Order = CHOOSE f : Walks(f, m)
  BY <1>2 DEF Order, Walks
<1>4. Walks(s, m)
  BY OrderWalks
<1>5. \A t : Walks(t, m) => t = s
  BY <1>1, <1>4, OneWalk
<1>. QED  BY <1>3, <1>4, <1>5

LEMMA OrderKnownNext == \A m, s : IsOrder(s, m)' => Order' = s
<1>1. (\A m, s : IsOrder(s, m) => Order = s)'
  BY OrderKnown, PTL
<1>. QED  BY <1>1

LEMMA EmptyOrder == Empty => KeysOf(Order) = <<>>
<1> SUFFICES ASSUME Empty PROVE KeysOf(Order) = <<>>
  OBVIOUS
<1> DEFINE e == [j \in 1..0 |-> 0]
<1>1. IsOrder(e, 0)
  <2>1. Used = 0..(0 - 1)
    BY DEF Used, Empty
  <2>. QED  BY <2>1 DEF IsOrder, ListedBy, Empty
<1>2. Order = e
  BY <1>1, OrderKnown
<1>. QED  BY <1>2 DEF KeysOf

LEMMA SameOrder ==
  ASSUME CacheInv, UNCHANGED <<size, first, next, key>>
  PROVE  size' = size /\ KeysOf(Order)' = KeysOf(Order)
<1>1. PICK m, s : IsOrder(s, m)
  BY DEF CacheInv, ListInv, IsOrder, TypeOK
<1>2. IsOrder(s, m)'
  BY <1>1 DEF IsOrder, ListedBy, Used
<1>3. Order = s /\ Order' = s
  BY <1>1, <1>2, OrderKnown, OrderKnownNext
<1>. QED  BY <1>3 DEF KeysOf

LEMMA SoughtType == CacheInv => Sought \in Pixels \cup {Junk}
BY SourceIsSrc DEF CacheInv, Sought

\* The cache is left as it is, and no pixel was looked for.
LEMMA Seeks ==
  ASSUME CacheInv, CacheInv', UNCHANGED <<size, first, next, key>>, pc # "scan"
  PROVE  Mru!Seek \/ UNCHANGED Mru!vars
<1>1. Sought = Junk
  BY DEF Sought
<1>2. (Sought \in Pixels \cup {Junk})'
  BY SoughtType, PTL
<1>. QED  BY <1>1, <1>2, SameOrder DEF Mru!Seek, Mru!vars

LEMMA HitUsesAgain ==
  ASSUME CacheInv, CacheInv', Hit
  PROVE  \E at \in DOMAIN KeysOf(Order) : Mru!UseAgain(at)
<1>1. PICK m, s, p : HitAt(s, m, p)
  BY HitRelinks DEF CacheInv
<1>2. UNCHANGED <<key, size>> /\ Used' = Used /\ size \in Nat
  BY DEF Hit, Used, objectVars, CacheInv, TypeOK
<1>3. IsOrder(s, m) /\ IsOrder(Front(s, m, p), m)'
  BY <1>1, <1>2 DEF HitAt, IsOrder
<1>4. Order = s /\ Order' = Front(s, m, p)
  BY <1>3, OrderKnown, OrderKnownNext
<1>5. DOMAIN s = 1..m /\ p \in 1..m /\ m \in Nat
  BY <1>1, <1>2 DEF HitAt
<1>6. KeysOf(Order) = [j \in 1..m |-> key[s[j]]]
  BY <1>4, <1>5 DEF KeysOf
<1>7. KeysOf(Order)' = [j \in 1..m |-> IF j = 1 THEN key[s[p]]
                                        ELSE IF j <= p THEN key[s[j - 1]] ELSE key[s[j]]]
  <2>0. DOMAIN Front(s, m, p) = 1..m
    BY DEF Front
  <2>1. KeysOf(Order)' = [j \in 1..m |-> key[Front(s, m, p)[j]]]
    BY <1>2, <1>4, <2>0 DEF KeysOf
  <2>2. \A j \in 1..m : key[Front(s, m, p)[j]] =
          IF j = 1 THEN key[s[p]] ELSE IF j <= p THEN key[s[j - 1]] ELSE key[s[j]]
    BY DEF Front
  <2>3. [j \in 1..m |-> key[Front(s, m, p)[j]]]
          = [j \in 1..m |-> IF j = 1 THEN key[s[p]]
                            ELSE IF j <= p THEN key[s[j - 1]] ELSE key[s[j]]]
    BY <2>2, Zenon
  <2>. QED  BY <2>1, <2>3, Zenon
<1>8. \A j \in 1..m : j # 1 /\ j <= p => j - 1 \in 1..m
  BY <1>5
<1>9. Mru!UseAgain(p)
  <2> DEFINE o == KeysOf(Order)
             n == KeysOf(Order)'
  <2>1. DOMAIN o = 1..m /\ \A j \in 1..m : o[j] = key[s[j]]
    BY <1>6
  <2>2. n = [j \in 1..m |-> IF j = 1 THEN o[p] ELSE IF j <= p THEN o[j - 1] ELSE o[j]]
    BY <1>5, <1>7, <1>8, <2>1
  <2>3. Sought = o[p]
    BY <1>1, <1>5, <2>1 DEF Sought, Hit, HitAt
  <2>4. (Sought \in Pixels \cup {Junk})'
    BY SoughtType, PTL
  <2>. QED  BY <1>2, <2>1, <2>2, <2>3, <2>4 DEF Mru!UseAgain
<1>. QED  BY <1>5, <1>6, <1>9

LEMMA MissUsesNew ==
  ASSUME CacheInv, Miss
  PROVE  Mru!UseNew
<1>1. PICK m, s : MissAt(s, m)
  BY MissRelinks DEF CacheInv
<1>2. /\ Source \in Pixels /\ size' = size /\ size \in Nat \ {0}
      /\ key \in [Nodes -> Pixels \cup {Junk}]
  BY SourceIsSrc DEF Miss, objectVars, CacheInv, TypeOK
<1>9. Sought = Source /\ Sought' = Junk
  BY DEF Sought, Miss
<1>3. /\ m \in Nat /\ DOMAIN s = 1..m /\ IsOrder(s, m)
      /\ \A j \in 1..m : s[j] \in Used /\ s[j] \in Nodes
      /\ \A j, l \in 1..m : s[j] = s[l] => j = l
  <2>1. /\ m \in 0..size /\ Used = 0..(m - 1) /\ s \in [1..m -> 0..(m - 1)]
        /\ ListedBy(s, m)
    BY <1>1 DEF MissAt
  <2>2. m \in Nat /\ DOMAIN s = 1..m /\ IsOrder(s, m)
    BY <1>2, <2>1 DEF IsOrder
  <2>3. \A j \in 1..m : s[j] \in Used
    BY <2>1
  <2>4. \A x \in Used : x \in Nodes
    BY DEF Used
  <2>. QED  BY <2>1, <2>2, <2>3, <2>4 DEF ListedBy
<1>4. KeysOf(Order) = [j \in 1..m |-> key[s[j]]]
  BY <1>3, OrderKnown DEF KeysOf
<1>5. \A j \in 1..m : KeysOf(Order)[j] # Source
  BY <1>1, <1>3, <1>4 DEF MissAt
<1>6. Len(KeysOf(Order)) = m
  BY <1>3, <1>4
<1>7. CASE m < size /\ first' = m
  <2>1. IsOrder(Pushed(s, m), m + 1)'
    BY <1>1, <1>2, <1>3, <1>7 DEF MissAt, IsOrder
  <2>2. Order' = Pushed(s, m)
    BY <2>1, OrderKnownNext
  <2>3. \A j \in 1..m : s[j] # m /\ key'[s[j]] = key[s[j]]
    BY <1>1, <1>3, <1>7 DEF MissAt
  <2>4. key'[m] = Source
    BY <1>1, <1>2, <1>7 DEF MissAt
  <2>5. KeysOf(Order)' = [j \in 1..(m + 1) |-> IF j = 1 THEN Source ELSE key[s[j - 1]]]
    BY <1>3, <2>2, <2>3, <2>4 DEF KeysOf, Pushed
  <2>. QED  BY <1>2, <1>3, <1>4, <1>5, <1>6, <1>7, <2>5, <1>9 DEF Mru!UseNew
<1>8. CASE m = size /\ first' = s[m]
  <2>1. IsOrder(Front(s, m, m), m)'
    BY <1>1, <1>2, <1>3, <1>8 DEF MissAt, IsOrder
  <2>2. Order' = Front(s, m, m)
    BY <2>1, OrderKnownNext
  <2>3. \A j \in 1..m : j # m => key'[s[j]] = key[s[j]]
    BY <1>1, <1>2, <1>3, <1>8 DEF MissAt
  <2>4. key'[s[m]] = Source
    BY <1>1, <1>2, <1>8 DEF MissAt
  <2>5. KeysOf(Order)' = [j \in 1..m |-> IF j = 1 THEN Source ELSE key[s[j - 1]]]
    BY <1>3, <2>2, <2>3, <2>4 DEF KeysOf, Front
  <2>. QED  BY <1>2, <1>3, <1>4, <1>5, <1>6, <1>8, <2>5, <1>9 DEF Mru!UseNew
<1>. QED  BY <1>1, <1>7, <1>8 DEF MissAt

\* The pointers of the code keep the order of the abstract cache: a hit and a
\* miss are its two operations, Attach and Destroy begin it anew, and nothing
\* else touches it.
THEOREM RefinesMruOrder == SafeSpec => ImplementsMruOrder
<1>1. Init => Mru!Init
  <2> SUFFICES ASSUME Init PROVE Mru!Init
    OBVIOUS
  <2>1. Empty /\ size \in 1..MaxCacheSize /\ Sought = Junk
    BY SizeAssumption DEF Init, Empty, Sought
  <2>. QED  BY <2>1, EmptyOrder DEF Mru!Init
<1>2. CacheInv /\ CacheInv' /\ [Next]_vars => [Mru!Next]_(Mru!vars)
  <2> SUFFICES ASSUME CacheInv, CacheInv', [Next]_vars PROVE [Mru!Next]_(Mru!vars)
    OBVIOUS
  <2>1. ASSUME NewCache, size' \in 1..MaxCacheSize, pc # "scan", pc' # "scan"
        PROVE  Mru!New
    <3>1. Empty'
      BY <2>1, SizeAssumption DEF NewCache, Empty
    <3>2. (KeysOf(Order) = <<>>)'
      BY <3>1, EmptyOrder, PTL
    <3>3. Sought = Junk /\ Sought' = Junk
      BY <2>1 DEF Sought
    <3>. QED  BY <2>1, <3>2, <3>3 DEF Mru!New
  <2>2. ASSUME NEW c \in 0..MaxCacheSize, Attach(c)
        PROVE  Mru!New
    BY <2>1, <2>2, SizeAssumption DEF Attach
  <2>3. ASSUME Destroy
        PROVE  Mru!New
    <3>1. /\ NewCache /\ size' = size /\ size \in 1..MaxCacheSize
          /\ pc # "scan" /\ pc' # "scan"
      BY <2>3 DEF Destroy, CacheInv, TypeOK
    <3>. QED  BY <2>1, <3>1
  <2>4. CASE AttachRefused \/ AttachOutOfMemory
    BY <2>4, Seeks DEF AttachRefused, AttachOutOfMemory, listVars, Mru!Next
  <2>5. ASSUME NEW pixels \in Buffers, NEW same \in BOOLEAN, Call(pixels, same)
        PROVE  Mru!Seek \/ UNCHANGED Mru!vars
    BY <2>5, Seeks DEF Call, objectVars, listVars
  <2>6. CASE Transform \/ TransformFails
    BY <2>6, Seeks DEF Transform, TransformFails, objectVars, listVars, Mru!Next
  <2>7. CASE Scan \/ UNCHANGED vars
    <3>1. UNCHANGED <<size, first, next, key>> /\ Sought' = Sought
      BY <2>7 DEF Scan, vars, objectVars, listVars, callVars, Sought, Source
    <3>. QED  BY <3>1, SameOrder DEF Mru!vars
  <2>8. CASE Hit
    BY <2>8, HitUsesAgain DEF Mru!Next
  <2>9. CASE Miss
    BY <2>9, MissUsesNew DEF Mru!Next
  <2>. QED  BY <2>2, <2>3, <2>4, <2>5, <2>6, <2>7, <2>8, <2>9
            DEF Next, Client, Apply, Mru!Next
<1>3. CacheInv /\ [Next]_vars => CacheInv'
  BY CacheStep
<1>. QED  BY CacheInvariant, <1>1, <1>2, <1>3, PTL
          DEF SafeSpec, ImplementsMruOrder, Mru!Spec
=============================================================================
