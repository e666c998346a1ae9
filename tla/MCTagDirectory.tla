--------------------------- MODULE MCTagDirectory ---------------------------
(* Small instances of TagDirectory.                                         *)
EXTENDS TagDirectory, TLC

MCSigs == {"A", "B", "C"}
MCContents == {"u", "v"}
MCSize == [c \in MCContents |-> IF c = "u" THEN 3 ELSE 2]

\* Three tags of their own; and a file of two entries that share their data
\* and a third that comes first.  The places are those of files of 33 words of
\* header and 3 words an entry.
MCApart ==
  [dir |-> << [sig |-> "A", offset |-> 42, size |-> 2],
              [sig |-> "B", offset |-> 44, size |-> 3],
              [sig |-> "C", offset |-> 47, size |-> 2] >>,
   data |-> (42 :> "v" @@ 44 :> "u" @@ 47 :> "v")]
MCShared ==
  [dir |-> << [sig |-> "C", offset |-> 42, size |-> 3],
              [sig |-> "A", offset |-> 45, size |-> 2],
              [sig |-> "B", offset |-> 45, size |-> 2] >>,
   data |-> (42 :> "u" @@ 45 :> "v")]
\* A broken file: its entry points into the header.
MCBroken == [dir |-> << [sig |-> "B", offset |-> 2, size |-> 2] >>, data |-> << >>]

MCFiles == {MCApart, MCShared, MCBroken}
=============================================================================
