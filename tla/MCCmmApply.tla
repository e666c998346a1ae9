------------------------------ MODULE MCCmmApply ------------------------------
(* Chains for TLC: all of up to four transforms that fit together.           *)
EXTENDS CmmApplyInv, FiniteSets

MCChains ==
  {c \in UNION {[1..n -> Kinds] : n \in 0..4} :
     \A k \in 1..(Len(c) - 1) : Gives(c[k]) = Takes(c[k + 1])}
=============================================================================
