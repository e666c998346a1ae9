----------------------------- MODULE MCMruCache -----------------------------
(* Small instances of MruCache: the transform turns pixel p into the next.  *)
EXTENDS MruCacheInv

MCPixels == 1..4
MCImage == [p \in MCPixels |-> (p % 4) + 1]
=============================================================================
