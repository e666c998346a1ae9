--------------------------- MODULE MCTransformTable ---------------------------
(* Small instances of TransformTable.                                        *)
EXTENDS TransformTableInv, TLC

CONSTANTS a, b, x, y, z

MCThreads == {a, b}
MCCmms == {x, y, z}
\* Threads and transforms are only compared.
Symmetry == Permutations(MCThreads) \cup Permutations(MCCmms)
=============================================================================
