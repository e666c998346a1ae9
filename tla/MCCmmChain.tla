------------------------------ MODULE MCCmmChain ------------------------------
(* Small instances of CmmChain.                                              *)
EXTENDS CmmChainInv

Header(class, space, pcs) ==
  [class |-> class, space |-> space, pcs |-> pcs, mcs |-> FALSE,
   extended |-> FALSE, hToS |-> FALSE]
WithMcs(p) == [p EXCEPT !.mcs = TRUE]

MCProfile ==
  [hdr  |-> [Header("input", "RGB", "XYZ") EXCEPT !.extended = TRUE, !.hToS = TRUE],
   lnk  |-> Header("link", "CMYK", "RGB"),
   abs  |-> Header("abstract", "Lab", "Lab"),
   cam  |-> WithMcs(Header("input", "RGB", "Lab")),
   mvis |-> WithMcs(Header("mvis", "none", "XYZ")),
   out  |-> WithMcs(Header("output", "CMYK", "Lab")),
   mlnk |-> WithMcs(Header("mlnk", "RGB", "none"))]

\* An input profile and a profile that would read its MCS, and one that reads its PCS.
MCRefused ==
  [cam |-> MCProfile["cam"], mvis |-> MCProfile["mvis"],
   prt |-> Header("output", "CMYK", "Lab")]
=============================================================================
