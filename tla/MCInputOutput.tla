----------------------------- MODULE MCInputOutput -----------------------------
(* Small instances of ByteIO and ProfileIO.  They have no variable in common, *)
(* so a behaviour is one of either, the other standing where it begins.       *)
EXTENDS ByteIOInv, ProfileIOInv, TLC

CONSTANTS prof1, prof2, prof3, io1, io2, io3, io4

\* Seeks a little beyond either end, and around the word.
MCOffsets == -2..(Word + 1)

MCProfiles == {prof1, prof2, prof3}
MCIos == {io1, io2, io3, io4}
\* IO objects are only compared.
Symmetry == Permutations(MCIos)

VARIABLE part \* the module that takes the steps

MCInit ==
  /\ ByteInit /\ Init
  /\ part \in {"bytes", "owners"}
  /\ part = "owners" => base = NullIO
\* An overrun is the end of the program.
MCEnd == base.crashed /\ UNCHANGED byteVars
MCNext ==
  /\ \/ part = "bytes" /\ (ByteNext \/ MCEnd) /\ UNCHANGED vars
     \/ part = "owners" /\ Next /\ UNCHANGED byteVars
  /\ UNCHANGED part
MCSpec == MCInit /\ [][MCNext]_<<part, byteVars, vars>>
=============================================================================
