---------------------------- MODULE TagDirectory ----------------------------
(***************************************************************************)
(* The tag directory of one CIccProfile (IccProfLib/IccProfile.cpp):       *)
(* m_Tags, the list of entries, m_TagVals, the tag objects the profile     *)
(* owns, and the file it is attached to, from which entries are loaded     *)
(* when they are first asked for.                                          *)
(*                                                                         *)
(* Places and sizes are counted in 4-byte words.  A file is its directory  *)
(* and its data; a tag's data is a member of Contents.  Each entry carries *)
(* "means", the content the file or the client gave it under its           *)
(* signature, which the code does not keep: properties compare with it.    *)
(***************************************************************************)
EXTENDS Integers, Sequences, FiniteSets

CONSTANTS
  Sigs,        \* tag signatures
  Contents,    \* what a tag may contain
  Size,        \* words a content takes in a file, Align32 included
  HeadWords,   \* header and tag count (33 words)
  EntryWords,  \* a directory entry (3 words)
  Files,       \* the profiles that can be opened
  MaxTags,     \* bound on the tag objects alive at a time
  MaxEntries,  \* bound on the directory
  LazyTags     \* bound on the tag objects alive when the client writes a
               \* profile it has not read completely

ASSUME SizesAssumption ==
  /\ Size \in [Contents -> Nat \ {0}]
  /\ HeadWords \in Nat \ {0} /\ EntryWords \in Nat \ {0}
  /\ MaxTags \in Nat /\ MaxEntries \in Nat /\ LazyTags \in Int
\* An entry may point anywhere; no tag's data is in the header.
IsFile(f) ==
  /\ f.dir \in Seq([sig : Sigs, offset : Nat, size : Nat])
  /\ DOMAIN f.data \subseteq Nat \ {0}
  /\ \A p \in DOMAIN f.data : f.data[p] \in Contents
ASSUME FilesAssumption == Contents # {} /\ \A f \in Files : IsFile(f)

VARIABLES
  pc,        \* "idle", or in a loop over the directory: "read", "full", "shallow"
  at,        \* index of that loop
  entries,   \* m_Tags
  tagVals,   \* m_TagVals
  live,      \* the tag objects that exist
  content,   \* what each tag object holds
  io,        \* the file m_pAttachIO reads, or NoFile
  reading,   \* the file CIccProfile::Read is given
  saved,     \* the file just written completely, until the client goes on
  mixed      \* history: some offsets were of a file written, some of that read,
             \* and the tags loaded then are not all gone

vars == <<pc, at, entries, tagVals, live, content, io, reading, saved, mixed>>

Tags == 1..MaxTags
NoTag == 0
NoFile == [dir |-> <<>>, data |-> <<>>]

Nothing == "nothing" \* what an entry means that points to no tag

Entries(dir, data) ==
  [r \in DOMAIN dir |->
     [sig |-> dir[r].sig, offset |-> dir[r].offset, size |-> dir[r].size, tag |-> NoTag,
      means |-> IF dir[r].offset \in DOMAIN data THEN data[dir[r].offset] ELSE Nothing]]

Owned == {tagVals[v] : v \in DOMAIN tagVals}

\* A new tag object.
FreeTag == CHOOSE g \in Tags : g \notin live

\* GetTag: the first entry of a signature, or 0.
GetTag(sig) ==
  LET hits == {i \in DOMAIN entries : entries[i].sig = sig}
  IN  IF hits = {} THEN 0 ELSE CHOOSE i \in hits : \A j \in hits : i <= j

Without(seq, i) == SubSeq(seq, 1, i - 1) \o SubSeq(seq, i + 1, Len(seq))

\* The place of an owned tag object in m_TagVals.
Place(g) ==
  CHOOSE v \in DOMAIN tagVals : tagVals[v] = g /\ \A u \in 1..(v - 1) : tagVals[u] # g
-----------------------------------------------------------------------------
Init ==
  /\ pc = "idle" /\ at = 0
  /\ entries = <<>> /\ tagVals = <<>> /\ live = {}
  /\ content \in [Tags -> {CHOOSE c \in Contents : TRUE}]
  /\ io = NoFile /\ reading = NoFile /\ saved = NoFile
  /\ mixed = FALSE

\* Cleanup: the tags are deleted, the file is let go.
Cleanup ==
  /\ entries' = <<>> /\ tagVals' = <<>> /\ live' = live \ Owned
  /\ io' = NoFile

\* ReadBasic on a fresh directory.
ReadBasic(f) ==
  /\ entries' = Entries(f.dir, f.data)
  /\ IF entries # <<>> THEN tagVals' = <<>> /\ live' = live \ Owned
                       ELSE UNCHANGED <<tagVals, live>>

\* Attach: the directory is read, the tags are not.
Attach(f) ==
  /\ pc = "idle"
  /\ ReadBasic(f)
  /\ io' = f
  /\ saved' = NoFile /\ mixed' = (mixed /\ entries = <<>>)
  /\ UNCHANGED <<pc, at, content, reading>>

\* The file is not a profile.
AttachFails ==
  /\ pc = "idle"
  /\ Cleanup
  /\ saved' = NoFile /\ mixed' = FALSE
  /\ UNCHANGED <<pc, at, content, reading>>

\* Read: the directory is read, then every tag, from a file that is not kept.
Read(f) ==
  /\ pc = "idle"
  /\ ReadBasic(f)
  /\ io' = NoFile /\ reading' = f
  /\ pc' = "read" /\ at' = 1
  /\ saved' = NoFile /\ mixed' = (mixed /\ entries = <<>>)
  /\ UNCHANGED content

\* ReadTags ("full") and FindAllTags ("shallow") need the attached file.
LoadTags(mode) ==
  /\ pc = "idle" /\ io # NoFile
  /\ pc' = mode /\ at' = 1
  /\ saved' = NoFile
  /\ UNCHANGED <<entries, tagVals, live, content, io, reading, mixed>>

Detach ==
  /\ pc = "idle" /\ io # NoFile
  /\ io' = NoFile /\ saved' = NoFile
  /\ UNCHANGED <<pc, at, entries, tagVals, live, content, reading, mixed>>
-----------------------------------------------------------------------------
(* LoadTag *)

\* Fault: only the entry that was asked for gets the tag.
SameEntry(i, j) == j = i

\* Entries that share the data of entry i: all of them get the tag.
SharesData(i, j) == entries[j].offset = entries[i].offset

\* The tag of entry i is read from file f into a new object.
LoadTag(i, f) ==
  /\ entries[i].tag = NoTag /\ live # Tags
  /\ entries[i].offset \in DOMAIN f.data
  /\ live' = live \cup {FreeTag}
  /\ content' = [content EXCEPT ![FreeTag] = f.data[entries[i].offset]]
  /\ tagVals' = Append(tagVals, FreeTag)
  /\ entries' = [j \in DOMAIN entries |->
       IF SharesData(i, j) THEN [entries[j] EXCEPT !.tag = FreeTag] ELSE entries[j]]

\* FindTag on an entry that is not loaded yet.
FindTag(sig) ==
  /\ pc = "idle" /\ io # NoFile
  /\ GetTag(sig) # 0
  /\ LoadTag(GetTag(sig), io)
  /\ saved' = NoFile
  /\ UNCHANGED <<pc, at, io, reading, mixed>>

Source == IF pc = "read" THEN reading ELSE io

\* The loop of Read or loadTags: the next entry, already loaded or loaded now.
LoadNext ==
  /\ pc # "idle" /\ at \in DOMAIN entries
  /\ \/ entries[at].tag # NoTag /\ UNCHANGED <<entries, tagVals, live, content>>
     \/ LoadTag(at, Source)
  /\ at' = at + 1
  /\ UNCHANGED <<pc, io, reading, saved, mixed>>

\* The tag's data is bad, or there is no memory: Read gives the profile up,
\* ReadTags stops, FindAllTags goes on.
LoadNextFails ==
  /\ pc # "idle" /\ at \in DOMAIN entries /\ entries[at].tag = NoTag
  /\ IF pc = "read" THEN Cleanup ELSE UNCHANGED <<entries, tagVals, live, io>>
  /\ IF pc = "shallow" THEN pc' = pc /\ at' = at + 1 ELSE pc' = "idle" /\ at' = 0
  /\ reading' = IF pc = "shallow" THEN reading ELSE NoFile
  /\ UNCHANGED <<content, saved, mixed>>

LoadDone ==
  /\ pc # "idle" /\ at \notin DOMAIN entries
  /\ pc' = "idle" /\ at' = 0 /\ reading' = NoFile
  /\ UNCHANGED <<entries, tagVals, live, content, io, saved, mixed>>
-----------------------------------------------------------------------------
(* AttachTag, DeleteTag *)

\* Fault: the owned tags are not searched.
AlwaysPush(g) == Append(tagVals, g)

\* The tag becomes the profile's, unless it already is.
Owning(g) == IF g \in Owned THEN tagVals ELSE Append(tagVals, g)

\* Give a signature that has no entry a tag object.
AttachTag(sig, g, c) ==
  /\ pc = "idle" /\ GetTag(sig) = 0 /\ Len(entries) < MaxEntries
  /\ entries' = Append(entries, [sig |-> sig, offset |-> 0, size |-> 0,
                                 tag |-> g, means |-> c])
  /\ tagVals' = Owning(g)
  /\ live' = live \cup {g} /\ content' = [content EXCEPT ![g] = c]
  /\ saved' = NoFile
  /\ UNCHANGED <<pc, at, io, reading, mixed>>

\* Fault: the tag is taken to be used by its entry alone.
NoOtherEntry(g, rest) == TRUE

\* No entry left refers to the tag.
Unused(g, rest) == \A j \in DOMAIN rest : rest[j].tag # g

\* Drop the first entry of a signature, and its tag with the last entry that
\* refers to it.
DeleteTag(sig) ==
  /\ pc = "idle" /\ GetTag(sig) # 0
  /\ LET i == GetTag(sig)
         g == entries[i].tag
         rest == Without(entries, i)
     IN  /\ entries' = rest
         /\ IF g # NoTag /\ Unused(g, rest)
            THEN /\ tagVals' = IF g \in Owned THEN Without(tagVals, Place(g)) ELSE tagVals
                 /\ live' = live \ {g}
            ELSE UNCHANGED <<tagVals, live>>
  /\ saved' = NoFile
  /\ UNCHANGED <<pc, at, content, io, reading, mixed>>
-----------------------------------------------------------------------------
(* Write *)

Loaded == {i \in DOMAIN entries : entries[i].tag # NoTag}

\* Entries of the directory that is written: those that are loaded.
DirEntries == Cardinality(Loaded)

\* Fault: shared data is written for every entry.
EachUse(i) == i

\* The first entry with entry i's tag: the one the data is written for.
FirstUse(i) ==
  CHOOSE j \in Loaded : /\ entries[j].tag = entries[i].tag
                        /\ \A k \in Loaded : entries[k].tag = entries[i].tag => j <= k

\* The length of the file when the loop over the tags gets to each entry.
FileLength ==
  LET p[i \in 1..(Len(entries) + 1)] ==
        IF i = 1 THEN HeadWords + EntryWords * DirEntries
        ELSE p[i - 1] + (IF (i - 1) \in Loaded /\ FirstUse(i - 1) = i - 1
                         THEN Size[content[entries[i - 1].tag]] ELSE 0)
  IN  p

Placed(i) == [entries[i] EXCEPT !.offset = FileLength[FirstUse(i)],
                                !.size = Size[content[entries[i].tag]]]
Blank(i) == [entries[i] EXCEPT !.offset = 0, !.size = 0]
Begun(i) == [Placed(i) EXCEPT !.size = 0]

\* The position of a loaded entry in the directory that is written.
DirIndex(i) == Cardinality({j \in Loaded : j <= i})

MayWrite == Loaded = DOMAIN entries \/ Cardinality(live) <= LazyTags
\* A profile of which some tags are unread keeps their old offsets.
Mixed == mixed \/ Loaded # DOMAIN entries

Write ==
  /\ pc = "idle" /\ MayWrite
  /\ entries' = [i \in DOMAIN entries |->
                   IF i \in Loaded THEN Placed(i) ELSE entries[i]]
  /\ saved' =
       [dir |-> [r \in 1..Cardinality(Loaded) |->
                   LET i == CHOOSE j \in Loaded : DirIndex(j) = r
                   IN  [sig |-> entries'[i].sig, offset |-> entries'[i].offset,
                        size |-> entries'[i].size]],
        data |-> [p \in {FileLength[i] : i \in {j \in Loaded : FirstUse(j) = j}} |->
                   content[entries[CHOOSE i \in Loaded :
                                     FirstUse(i) = i /\ FileLength[i] = p].tag]]]
  /\ mixed' = Mixed
  /\ UNCHANGED <<pc, at, tagVals, live, content, io, reading>>

\* The file cannot be written to the end: the entries were blanked one by one,
\* and when all were, tags were placed one by one; the data of the next one may
\* have been begun.
WriteFails ==
  /\ pc = "idle" /\ MayWrite
  /\ \E blanked, placed \in 0..Cardinality(Loaded), begun \in BOOLEAN :
       /\ placed > 0 \/ begun => blanked = Cardinality(Loaded)
       /\ entries' = [i \in DOMAIN entries |->
            IF i \in Loaded /\ DirIndex(i) <= placed THEN Placed(i)
            ELSE IF begun /\ i \in Loaded /\ DirIndex(i) = placed + 1 /\ FirstUse(i) = i
            THEN Begun(i)
            ELSE IF i \in Loaded /\ DirIndex(i) <= blanked THEN Blank(i)
            ELSE entries[i]]
  /\ saved' = NoFile
  /\ mixed' = Mixed
  /\ UNCHANGED <<pc, at, tagVals, live, content, io, reading>>
-----------------------------------------------------------------------------
(* Copying *)

\* The copy's tag object for the one the profile owns: they come in the order
\* of m_TagVals.
CopyOf(g) == IF g \in Owned THEN Place(g) ELSE NoTag

\* The profile is copied, and the client goes on with the copy: it owns copies of
\* all the tags, its entries refer to those, and it is attached to nothing until
\* CopyAttach lends it the file of the first profile.
Copy(lend) ==
  /\ pc = "idle"
  /\ tagVals' = [v \in DOMAIN tagVals |-> v] /\ live' = DOMAIN tagVals
  /\ content' = [g \in Tags |-> IF g \in DOMAIN tagVals THEN content[tagVals[g]]
                                                       ELSE content[g]]
  /\ entries' = [i \in DOMAIN entries |-> [entries[i] EXCEPT !.tag = CopyOf(@)]]
  /\ io' = IF lend THEN io ELSE NoFile
  /\ saved' = NoFile
  /\ UNCHANGED <<pc, at, reading, mixed>>
-----------------------------------------------------------------------------
Client ==
  \/ \E f \in Files : Attach(f) \/ Read(f)
  \/ saved # NoFile /\ Read(saved)
  \/ AttachFails \/ LoadTags("full") \/ LoadTags("shallow") \/ Detach
  \/ \E sig \in Sigs :
       \/ FindTag(sig) \/ DeleteTag(sig)
       \/ live # Tags /\ \E c \in Contents : AttachTag(sig, FreeTag, c)
       \/ \E g \in Owned : AttachTag(sig, g, content[g])
  \/ Write \/ WriteFails
  \/ \E lend \in BOOLEAN : Copy(lend)

Next == Client \/ LoadNext \/ LoadNextFails \/ LoadDone

Spec == Init /\ [][Next]_vars
-----------------------------------------------------------------------------
(* Properties *)

TypeOK ==
  /\ pc \in {"idle", "read", "full", "shallow"} /\ at \in 0..(Len(entries) + 1)
  /\ \A i \in DOMAIN entries :
       /\ entries[i].sig \in Sigs /\ entries[i].means \in Contents \cup {Nothing}
       /\ entries[i].offset \in Nat /\ entries[i].size \in Nat
       /\ entries[i].tag \in Tags \cup {NoTag}
  /\ live \subseteq Tags /\ content \in [Tags -> Contents]
  /\ io \in Files \cup {NoFile} /\ mixed \in BOOLEAN

\* A loaded entry refers to a tag object the profile owns, every owned object
\* exists and is owned once: nothing dangles, nothing is deleted twice.  Unless
\* a half-loaded profile was written, each can be reached, and deleted, through
\* an entry.  The state has its types.
EntriesOwned ==
  /\ TypeOK
  /\ \A i \in Loaded : entries[i].tag \in Owned
  /\ Owned \subseteq live
  /\ Cardinality(Owned) = Len(tagVals)
  /\ ~mixed => \A g \in Owned : \E i \in Loaded : entries[i].tag = g

\* What FindTag gives for a loaded entry is what the file or the client put
\* under its signature, whatever was loaded, deleted or written before.
FindTagAlwaysHonest ==
  \A i \in Loaded : content[entries[i].tag] = entries[i].means

\* So it is unless a half-loaded profile was written.
FindTagHonest == ~mixed => FindTagAlwaysHonest

\* Entries whose data a file shares, once loaded, share their tag object, unless
\* a half-loaded profile was written.
SharingKept ==
  io # NoFile /\ ~mixed => \A i, j \in Loaded :
    entries[i].offset # 0 /\ entries[i].offset = entries[j].offset
      => entries[i].tag = entries[j].tag

Extent(e) == e.offset..(e.offset + e.size - 1)

\* A file that was written completely says of every loaded entry what it means,
\* in the order of the directory, with no data over the directory or over other
\* data, and one copy of the data that entries share.
SavedReadsBack ==
  saved' \notin {saved, NoFile} =>
    LET dir == saved'.dir
        data == saved'.data
    IN  /\ Len(dir) = Cardinality(Loaded)
        /\ \A i \in Loaded :
             LET e == dir[DirIndex(i)]
             IN  /\ e.sig = entries[i].sig
                 /\ e.offset \in DOMAIN data /\ data[e.offset] = content[entries[i].tag]
                 /\ e.offset >= HeadWords + EntryWords * Len(dir)
        /\ \A r, q \in DOMAIN dir :
             dir[r].offset # dir[q].offset => Extent(dir[r]) \cap Extent(dir[q]) = {}
        /\ Cardinality(DOMAIN data) = Cardinality({entries[i].tag : i \in Loaded})

WriteFaithful == [][SavedReadsBack]_vars
=============================================================================
