--------------------------- MODULE MCIsapiRequests ---------------------------
(* Small instances of IsapiRequests.                                         *)
EXTENDS IsapiRequests, TLC

CONSTANTS a, b, c

MCThreads == {a, b, c}
\* Threads are only compared.
Symmetry == Permutations(MCThreads)
=============================================================================
