------------------------------ MODULE MruCache ------------------------------
(***************************************************************************)
(* CIccMruCmm / CIccApplyMruCmm / CIccMruCache (IccProfLib/IccCmm.cpp):    *)
(* one apply object that remembers the last few source pixels with their   *)
(* transforms in a singly linked list, the most recently used first.       *)
(*                                                                         *)
(* The list is the code's: node x is m_cache[x], whose pixel data is the   *)
(* x'th slice of m_pixelData.  The scan is taken a node at a time, and the *)
(* transform of a missed pixel is a step of its own, because the key is in *)
(* the list before the transform has run.                                  *)
(***************************************************************************)
EXTENDS Integers, Sequences, FiniteSets

CONSTANTS
  MaxCacheSize,  \* bound on nCacheSize (255 in the code)
  Pixels,        \* pixel values, of the source and of the destination
  Image,         \* what the cached CMM makes of a pixel
  Junk,          \* what memory holds that nobody has written
  Failures,      \* the statuses other than Ok a transform may return
  Failing,       \* the pixels it may fail on
  MaxPixels      \* bound on nPixels

Ok == "Ok"

ASSUME SizeAssumption == MaxCacheSize \in Nat \ {0} /\ MaxPixels \in Nat
ASSUME ImageAssumption ==
  /\ Image \in [Pixels -> Pixels] /\ Junk \notin Pixels /\ Ok \notin Failures

VARIABLES
  pc,       \* "none", "refused", or where the apply object is in a call
  cmm,      \* the cached CMM: "alive" or "deleted"
  owned,    \* m_bDeleteCmm, or the argument of a refused Attach
  size,     \* m_nCacheSize
  first,    \* m_pFirst
  next,     \* pNext of each node
  key,      \* the source half of each node's pixel data
  val,      \* the destination half
  ptr,      \* locals of CIccMruCache::Apply: the node looked at,
  last,     \*   the node before it,
  prev,     \*   the node before that,
  i,        \*   and how many have been passed
  k,        \* index of the call's current pixel
  src,      \* the pixels the client passed
  inPlace,  \* DstPixel = SrcPixel
  dst,      \* the destination buffer
  rv,       \* status the last call returned
  failed    \* history: the pixels a transform has failed on, in this cache

objectVars == <<cmm, owned, size>>
listVars == <<first, next, key, val>>
scanVars == <<ptr, last, prev, i>>
callVars == <<src, inPlace, rv>>
vars == <<pc, objectVars, listVars, scanVars, callVars, k, dst, failed>>

Nodes == 0..(MaxCacheSize - 1)
Null == -1
Links == Nodes \cup {Null}

\* The nodes that have been given an entry.
Used == {x \in Nodes : key[x] # Junk}

\* The pixel the cache and the transform read: in place, the buffer itself.
Source == IF inPlace THEN dst[k] ELSE src[k]
-----------------------------------------------------------------------------
(* Life of the object *)

NewCache ==
  /\ first' = Null /\ next' = [x \in Nodes |-> Null]
  /\ key' = [x \in Nodes |-> Junk] /\ val' = [x \in Nodes |-> Junk]

Init ==
  /\ pc = "none" /\ cmm = "alive" /\ owned \in BOOLEAN /\ size = 1
  /\ first = Null /\ next = [x \in Nodes |-> Null]
  /\ key = [x \in Nodes |-> Junk] /\ val = [x \in Nodes |-> Junk]
  /\ ptr = Null /\ last = Null /\ prev = Null /\ i = 0
  /\ k = 1 /\ src = <<>> /\ inPlace = FALSE /\ dst = <<>> /\ rv = Ok
  /\ failed = {}

\* CIccMruCmm::Attach on a valid CMM, down to CIccMruCache::Init.
Attach(n) ==
  /\ pc \in {"none", "refused"} /\ n > 0
  /\ pc' = "idle" /\ cmm' = "alive" /\ owned' \in BOOLEAN /\ size' = n
  /\ NewCache
  /\ src' = <<>> /\ dst' = <<>> /\ rv' = Ok /\ failed' = {}
  /\ UNCHANGED <<scanVars, k, inPlace>>

\* An invalid CMM, an empty cache, or a Begin that fails.
AttachRefused ==
  /\ pc \in {"none", "refused"}
  /\ pc' = "refused" /\ owned' \in BOOLEAN
  /\ cmm' = IF owned' THEN "deleted" ELSE "alive"
  /\ UNCHANGED <<size, listVars, scanVars, callVars, k, dst, failed>>

\* The CIccMruCmm itself cannot be allocated.
AttachOutOfMemory ==
  /\ pc \in {"none", "refused"}
  /\ pc' = "refused" /\ owned' \in BOOLEAN /\ cmm' = "alive"
  /\ UNCHANGED <<size, listVars, scanVars, callVars, k, dst, failed>>

Destroy ==
  /\ pc = "idle"
  /\ pc' = "none"
  /\ cmm' = IF owned THEN "deleted" ELSE cmm
  /\ NewCache
  /\ UNCHANGED <<owned, size, scanVars, callVars, k, dst, failed>>
-----------------------------------------------------------------------------
(* Apply *)

\* CIccMruCache::Apply begins on a pixel of the call, or its locals are gone.
BeginScan(head) == ptr' = head /\ last' = Null /\ prev' = Null /\ i' = 0
EndScan == BeginScan(Null)

\* The client passes a buffer of pixels (one pixel: the other overload).
Call(pixels, same) ==
  /\ pc = "idle"
  /\ src' = pixels /\ inPlace' = same
  /\ dst' = IF same THEN pixels ELSE [j \in DOMAIN pixels |-> Junk]
  /\ k' = 1
  /\ IF Len(pixels) = 0 THEN /\ rv' = Ok
                              /\ UNCHANGED <<pc, scanVars>>
     ELSE /\ pc' = "scan"
          /\ BeginScan(first)
          /\ UNCHANGED rv
  /\ UNCHANGED <<objectVars, listVars, failed>>

\* Go on to the next pixel, with the list as this one leaves it, or return.
Advance ==
  /\ IF k = Len(src) THEN /\ pc' = "idle" /\ rv' = Ok
                          /\ EndScan
                          /\ UNCHANGED k
     ELSE /\ pc' = "scan" /\ k' = k + 1
          /\ BeginScan(first')
          /\ UNCHANGED rv

\* Fault: the loop ends a node before the bound.
AtBound == ptr = Null \/ i + 1 = size

\* The loop has passed the tail.
AtEnd == ptr = Null

\* The count is only compared with m_nCacheSize, and stops where that is known.
Scan ==
  /\ pc = "scan" /\ ~ AtEnd /\ key[ptr] # Source
  /\ prev' = last /\ last' = ptr /\ ptr' = next[ptr]
  /\ i' = IF i < MaxCacheSize THEN i + 1 ELSE i
  /\ UNCHANGED <<pc, objectVars, listVars, callVars, k, dst, failed>>

\* Fault: a hit leaves the node where it is.
StayPut == UNCHANGED <<first, next>>

\* A hit comes to the front of the list.
MoveToFront ==
  IF ptr = first THEN UNCHANGED <<first, next>>
  ELSE /\ next' = [next EXCEPT ![last] = next[ptr], ![ptr] = first]
       /\ first' = ptr

Hit ==
  /\ pc = "scan" /\ ~ AtEnd /\ key[ptr] = Source
  /\ dst' = [dst EXCEPT ![k] = val[ptr]]
  /\ MoveToFront
  /\ Advance
  /\ UNCHANGED <<objectVars, key, val, src, inPlace, failed>>

\* Fault: the tail of a one-entry list is linked to itself.
AlwaysRelink ==
  /\ next' = [x \in Nodes |-> IF x = last THEN first
                              ELSE IF x = prev THEN Null ELSE next[x]]
  /\ first' = last

\* The oldest entry comes to the front: prev becomes the tail, unless the list
\* has one node only, which stays as it is.
ReuseOldest ==
  IF last = first THEN UNCHANGED <<first, next>>
  ELSE /\ next' = [next EXCEPT ![prev] = Null, ![last] = first]
       /\ first' = last

\* A node of m_cache has not been used yet.
Room == i < size

\* The source pixel is not in the list: its key goes to the head entry.
Miss ==
  /\ pc = "scan" /\ AtEnd
  /\ IF Room
     THEN first' = i /\ next' = [next EXCEPT ![i] = first]
     ELSE ReuseOldest
  /\ key' = [key EXCEPT ![first'] = Source]
  /\ pc' = "transform"
  /\ EndScan
  /\ UNCHANGED <<objectVars, val, callVars, k, dst, failed>>

\* Fault: the result is put into the node that came last into use.
UpdateNewest == [val EXCEPT ![Cardinality(Used) - 1] = Image[Source]]

\* CIccMruCache::Update writes the destination half of the head entry.
Update == [val EXCEPT ![first] = Image[Source]]

\* The cached CMM's own apply object transforms the pixel.
Transform ==
  /\ pc = "transform"
  /\ dst' = [dst EXCEPT ![k] = Image[Source]]
  /\ val' = Update
  /\ first' = first
  /\ Advance
  /\ UNCHANGED <<objectVars, next, key, src, inPlace, failed>>

\* It fails: the call ends here, and the destination pixel keeps its value.
TransformFails ==
  /\ pc = "transform" /\ Source \in Failing
  /\ rv' \in Failures
  /\ pc' = "idle" /\ failed' = failed \cup {Source}
  /\ UNCHANGED <<objectVars, listVars, scanVars, k, src, inPlace, dst>>
-----------------------------------------------------------------------------
Buffers == UNION {[1..m -> Pixels] : m \in 0..MaxPixels}

Client ==
  \/ \E n \in 0..MaxCacheSize : Attach(n)
  \/ AttachRefused \/ AttachOutOfMemory \/ Destroy
  \/ \E pixels \in Buffers, same \in BOOLEAN : Call(pixels, same)

Apply == Scan \/ Hit \/ Miss \/ Transform \/ TransformFails

Next == Client \/ Apply

SafeSpec == Init /\ [][Next]_vars

\* The thread that called Apply runs on; nobody has to call it.
Spec == SafeSpec /\ WF_vars(Apply)
-----------------------------------------------------------------------------
(* Properties *)

TypeOK ==
  /\ pc \in {"none", "refused", "idle", "scan", "transform"}
  /\ cmm \in {"alive", "deleted"} /\ owned \in BOOLEAN
  /\ size \in 1..MaxCacheSize
  /\ first \in Links /\ next \in [Nodes -> Links]
  /\ key \in [Nodes -> Pixels \cup {Junk}] /\ val \in [Nodes -> Pixels \cup {Junk}]
  /\ ptr \in Links /\ last \in Links /\ prev \in Links /\ i \in 0..MaxCacheSize
  /\ k \in Nat \ {0} /\ inPlace \in BOOLEAN
  /\ src \in Buffers /\ dst \in [DOMAIN src -> Pixels \cup {Junk}]
  /\ pc \in {"scan", "transform"} => k \in 1..Len(src)
  /\ rv \in {Ok} \cup Failures /\ failed \subseteq Pixels

\* s goes from the head of the list to its tail, through m nodes, each once.
ListedBy(s, m) ==
  /\ first = IF m = 0 THEN Null ELSE s[1]
  /\ \A j \in 1..m : next[s[j]] = IF j = m THEN Null ELSE s[j + 1]
  /\ \A j, l \in 1..m : s[j] = s[l] => j = l
  /\ \A x \in 0..(m - 1) : \E j \in 1..m : s[j] = x

\* The list ends, never comes back to a node, and holds exactly the nodes used
\* so far, which are the first ones of m_cache: no entry is lost by relinking,
\* none is shared, and the next free node is the one the count points at.
ListWellFormed ==
  /\ TypeOK
  /\ \E m \in 0..size :
       /\ Used = 0..(m - 1)
       /\ \E s \in [1..m -> 0..(m - 1)] : ListedBy(s, m)

\* No source pixel has two entries, one of which a hit would hide.
KeysDistinct == \A x, y \in Used : key[x] = key[y] => x = y

\* A call that returns Ok has put the image of every source pixel at its own
\* place of the destination, whether it came from the cache or not and whether
\* the buffers are one or two; but not so of a pixel that a transform has failed on
\* since the cache was made.
OkMeansImages ==
  pc = "idle" /\ rv = Ok =>
    \A j \in DOMAIN src : dst[j] = Image[src[j]] \/ src[j] \in failed

\* The same of every pixel, which is what a cache promises.
OkAlwaysMeansImages ==
  pc = "idle" /\ rv = Ok => \A j \in DOMAIN src : dst[j] = Image[src[j]]

\* The nodes in list order, and how many there are.
Length == CHOOSE m \in 0..size : Used = 0..(m - 1)
Order ==
  LET walk[j \in 1..Length] == IF j = 1 THEN first ELSE next[walk[j - 1]]
  IN  walk

\* The source pixels of the nodes s.
KeysOf(s) == [j \in DOMAIN s |-> key[s[j]]]

\* The pixel the scan looks for.
Sought == IF pc = "scan" THEN Source ELSE Junk

Mru == INSTANCE MruOrder WITH
         Sizes <- 1..MaxCacheSize, None <- Junk,
         order <- KeysOf(Order), sought <- Sought

\* The cache holds the pixels used last, the most recent first, and a pixel is
\* found in it exactly when it is one of them.
ImplementsMruOrder == Mru!Spec

\* Every Apply returns: the scan never goes round in the list.
ApplyReturns == pc \in {"scan", "transform"} ~> pc = "idle"
=============================================================================
