----------------------------- MODULE MruCacheInv -----------------------------
(***************************************************************************)
(* The inductive invariants of MruCache, as named parts.  TLC checks them  *)
(* on small instances; MruCacheProofs proves them.                         *)
(***************************************************************************)
EXTENDS MruCache

\* The scan stands on the node after the i it has passed, in the order s of
\* the m nodes of the list, and knows the last two of them.
ScanAt(s, m) ==
  pc = "scan" =>
    /\ i \in 0..m
    /\ ptr = IF i = m THEN Null ELSE s[i + 1]
    /\ last = IF i = 0 THEN Null ELSE s[i]
    /\ prev = IF i <= 1 THEN Null ELSE s[i - 1]
    /\ \A j \in 1..i : key[s[j]] # Source

\* The list is a list, and the scan is on its way along it.
ListInv ==
  \E m \in 0..size :
    /\ Used = 0..(m - 1)
    /\ \E s \in [1..m -> 0..(m - 1)] : ListedBy(s, m) /\ ScanAt(s, m)

\* A pixel whose transform is awaited has the head entry.
HeadInv == pc = "transform" => first \in Used /\ key[first] = Source

\* What the call has still to read is what the client passed.
UnreadInv ==
  pc \in {"scan", "transform"} /\ inPlace =>
    \A j \in DOMAIN src : k <= j => dst[j] = src[j]

\* All entries are right but the one awaited and those of pixels on which a
\* transform has failed, and so are all pixels before the current one.
EntriesInv ==
  \A x \in Used : \/ val[x] = Image[key[x]] \/ key[x] \in failed
                  \/ pc = "transform" /\ x = first

PassedInv ==
  /\ pc \in {"scan", "transform"} =>
       \A j \in DOMAIN src : j < k => dst[j] = Image[src[j]] \/ src[j] \in failed
  /\ OkMeansImages

CacheInv == TypeOK /\ ListInv /\ KeysDistinct /\ HeadInv /\ UnreadInv
=============================================================================
