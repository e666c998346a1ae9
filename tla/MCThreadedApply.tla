--------------------------- MODULE MCThreadedApply ---------------------------
(* Small instances of ThreadedApply.                                        *)
EXTENDS ThreadedApplyInv

\* A rejected count, the automatic one and an explicit one.
MCRequests == {-1, 0, 3, 4}
=============================================================================
