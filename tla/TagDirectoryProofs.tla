------------------------- MODULE TagDirectoryProofs -------------------------
(***************************************************************************)
(* Proofs about TagDirectory, for every set of files and whatever bounds.  *)
(*                                                                         *)
(* IInv, the inductive invariant, says of the directory and the owned tags *)
(* what EntriesOwned, FindTagHonest and SharingKept need to stay true when *)
(* a tag is loaded: that no loaded entry has the place of one that is not  *)
(* (Apart), and that an entry that is not loaded means what the file it    *)
(* will be loaded from holds there (Promised).  Both end when a profile    *)
(* with unread tags is written.  What the operations keep of it is Data;   *)
(* LoopInv is about the loop that reads the tags.                          *)
(*                                                                         *)
(* The layout of a written file is a sum over the entries: FileLengthIs,   *)
(* PlacesApart and DirIndexIs say what the places are, and WriteReadsBack  *)
(* concludes that the file reads back.                                     *)
(***************************************************************************)
EXTENDS TagDirectory, FiniteSetTheorems, SequenceTheorems, WellFoundedInduction, TLAPS
-----------------------------------------------------------------------------
\* A directory entry.
Entry == [sig : Sigs, offset : Nat, size : Nat, tag : Tags \cup {NoTag},
          means : Contents \cup {Nothing}]

\* The variables have their types.
DirTypes ==
  /\ entries \in Seq(Entry) /\ tagVals \in Seq(Tags)
  /\ live \subseteq Tags /\ content \in [Tags -> Contents]
  /\ io \in Files \cup {NoFile} /\ mixed \in BOOLEAN
  /\ IsFile(reading) /\ IsFile(saved)

\* The loop that reads the tags.
LoopInv ==
  /\ pc \in {"idle", "read", "full", "shallow"}
  /\ IF pc = "idle" THEN at = 0 ELSE at \in 1..(Len(entries) + 1)
  /\ pc = "read" => io = NoFile

\* Tag objects are owned once, exist, and are all that entries refer to.
OwnInv ==
  /\ \A u, v \in DOMAIN tagVals : tagVals[u] = tagVals[v] => u = v
  /\ Owned \subseteq live
  /\ \A i \in Loaded : entries[i].tag \in Owned

\* Entries whose tags were not asked for yet.
Unloaded == DOMAIN entries \ Loaded

\* Every owned tag object has an entry.
Reached == \A g \in Owned : \E i \in Loaded : entries[i].tag = g
\* No entry that is loaded shares its data with one that is not.
Apart ==
  \A i \in Unloaded, j \in Loaded :
    entries[i].offset # 0 => entries[i].offset # entries[j].offset
\* An entry that is not loaded means what the file holds in its place.
Promised ==
  \A i \in Unloaded :
    entries[i].offset \in DOMAIN Source.data => entries[i].means = Source.data[entries[i].offset]
\* Entries that share their data share their tag.
Sharing ==
  io # NoFile => \A i, j \in Loaded :
    entries[i].offset # 0 /\ entries[i].offset = entries[j].offset
      => entries[i].tag = entries[j].tag

\* What holds until a half-loaded profile is written.
Unmixed == Reached /\ Apart /\ Promised /\ FindTagAlwaysHonest /\ Sharing

\* The inductive invariant.
IInv == DirTypes /\ LoopInv /\ OwnInv /\ (~mixed => Unmixed)
-----------------------------------------------------------------------------
(* Sequences, tag objects and places                                       *)

\* A set of numbers has a least one.
LEMMA NatMinimum ==
  ASSUME NEW S, S \subseteq Nat, S # {}
  PROVE  \E m \in S : \A k \in S : m <= k
<1> DEFINE R == OpToRel(<, Nat)
<1>1. IsWellFoundedOn(R, Nat)
  BY NatLessThanWellFounded
<1> HIDE DEF R
<1>2. PICK m \in S : \A k \in S : ~ (<<k, m>> \in R)
  BY <1>1, WFMin
<1>3. \A a, b \in Nat : a < b => <<a, b>> \in R
  BY DEF R, OpToRel
<1>4. ASSUME NEW k \in S
      PROVE  m <= k
  <2>1. k \in Nat /\ m \in Nat
    OBVIOUS
  <2>2. ~ (<<k, m>> \in R)
    BY <1>2
  <2> QED
    BY <2>1, <2>2, <1>3
<1> QED
  BY <1>4

\* A function on 1..n is a sequence of n elements.
LEMMA FunctionIsSeq ==
  ASSUME NEW S, NEW n \in Nat, NEW f \in [1..n -> S]
  PROVE  f \in Seq(S) /\ Len(f) = n /\ DOMAIN f = 1..n
<1>1. f \in UNION {[1..k -> S] : k \in Nat}
  OBVIOUS
<1>2. f \in Seq(S)
  BY <1>1, SeqDef
<1>3. DOMAIN f = 1..n /\ DOMAIN f = 1..Len(f) /\ Len(f) \in Nat
  BY <1>2
<1>4. Len(f) = n
  BY <1>3
<1> QED
  BY <1>2, <1>3, <1>4

\* Where element j of the rest was before element i went.
Skip(i, j) == IF j < i THEN j ELSE j + 1
\* What is left of a sequence without its element i.
LEMMA WithoutIs ==
  ASSUME NEW S, NEW s \in Seq(S), NEW i \in DOMAIN s
  PROVE  LET q == Without(s, i)
         IN  /\ q \in Seq(S) /\ DOMAIN q = 1..(Len(s) - 1)
             /\ \A j \in DOMAIN q : Skip(i, j) \in DOMAIN s /\ Skip(i, j) # i
                                    /\ q[j] = s[Skip(i, j)]
             /\ \A k \in DOMAIN s : k # i => \E j \in DOMAIN q : k = Skip(i, j)
             /\ \A j, k \in DOMAIN q : Skip(i, j) = Skip(i, k) => j = k
<1> DEFINE n == Len(s)
           a == SubSeq(s, 1, i - 1)
           b == SubSeq(s, i + 1, n)
           q == Without(s, i)
<1>1. n \in Nat /\ DOMAIN s = 1..n /\ i \in 1..n /\ \A j \in 1..n : s[j] \in S
  OBVIOUS
<1>2. /\ a \in Seq(S) /\ Len(a) = i - 1
      /\ \A j \in 1..(i - 1) : a[j] = s[j]
  BY <1>1
<1>3. /\ b \in Seq(S) /\ Len(b) = n - i
      /\ \A j \in 1..(n - i) : b[j] = s[j + i]
  <2>1. \A j \in (i + 1)..n : s[j] \in S
    BY <1>1
  <2>2. /\ b \in Seq(S) /\ Len(b) = IF i + 1 <= n THEN n - (i + 1) + 1 ELSE 0
        /\ \A j \in 1..(n - (i + 1) + 1) : b[j] = s[i + 1 + j - 1]
    BY <1>1, <2>1, SubSeqProperties
  <2> HIDE DEF b
  <2>3. Len(b) = n - i /\ n - (i + 1) + 1 = n - i
    BY <1>1, <2>2
  <2>4. \A j \in 1..(n - i) : b[j] = s[i + 1 + j - 1]
    BY <2>2, <2>3
  <2>5. ASSUME NEW j \in 1..(n - i)
        PROVE  b[j] = s[j + i]
    <3>1. i + 1 + j - 1 = j + i
      BY <1>1
    <3> QED
      BY <2>4, <3>1
  <2> QED
    BY <2>2, <2>3, <2>5
<1>4. q = a \o b
  BY DEF Without
<1> HIDE DEF a, b, q
<1>5. /\ q \in Seq(S) /\ Len(q) = n - 1
      /\ \A j \in 1..(n - 1) : q[j] = IF j <= i - 1 THEN a[j] ELSE b[j - (i - 1)]
  <2>1. i - 1 + (n - i) = n - 1
    BY <1>1
  <2>2. /\ q \in Seq(S) /\ Len(q) = Len(a) + Len(b)
        /\ \A j \in 1..(Len(a) + Len(b)) :
             q[j] = IF j <= Len(a) THEN a[j] ELSE b[j - Len(a)]
    BY <1>2, <1>3, <1>4, ConcatProperties
  <2>3. Len(a) + Len(b) = n - 1
    BY <1>2, <1>3, <2>1
  <2> QED
    BY <1>2, <2>2, <2>3
<1>6. DOMAIN q = 1..(n - 1)
  BY <1>1, <1>5
<1>7. ASSUME NEW j \in 1..(n - 1)
      PROVE  Skip(i, j) \in 1..n /\ Skip(i, j) # i /\ q[j] = s[Skip(i, j)]
  <2>1. CASE j < i
    BY <1>1, <1>2, <1>5, <2>1 DEF Skip
  <2>2. CASE ~(j < i)
    <3>1. j - (i - 1) \in 1..(n - i) /\ j - (i - 1) + i = j + 1 /\ ~(j <= i - 1)
      BY <1>1, <2>2
    <3>2. Skip(i, j) = j + 1 /\ j + 1 \in 1..n /\ j + 1 # i
      BY <1>1, <2>2 DEF Skip
    <3>3. q[j] = b[j - (i - 1)]
      BY <1>5, <3>1
    <3>4. b[j - (i - 1)] = s[j - (i - 1) + i]
      BY <1>3, <3>1
    <3> QED
      BY <3>1, <3>2, <3>3, <3>4
  <2> QED
    BY <2>1, <2>2
<1>8. ASSUME NEW k \in 1..n, k # i
      PROVE  \E j \in 1..(n - 1) : k = Skip(i, j)
  <2>1. CASE k < i
    BY <1>1, <2>1 DEF Skip
  <2>2. CASE k > i
    <3>1. k - 1 \in 1..(n - 1) /\ k = Skip(i, k - 1)
      BY <1>1, <2>2 DEF Skip
    <3> QED
      BY <3>1
  <2> QED
    BY <1>1, <1>8, <2>1, <2>2
<1>9. \A j, k \in 1..(n - 1) : Skip(i, j) = Skip(i, k) => j = k
  BY <1>1 DEF Skip
<1> QED
  BY <1>1, <1>5, <1>6, <1>7, <1>8, <1>9 DEF q

\* A new tag object is none that exists.
LEMMA FreeTagIs ==
  ASSUME live \subseteq Tags, live # Tags
  PROVE  FreeTag \in Tags /\ FreeTag \notin live
<1>1. \E g \in Tags : g \notin live
  OBVIOUS
<1> QED
  BY <1>1 DEF FreeTag

\* Tag objects are numbered from 1, and NoTag is none of them.
LEMMA TagsAreNot == NoTag \notin Tags /\ Tags \subseteq Nat /\ IsFiniteSet(Tags)
<1>1. MaxTags \in Nat
  BY SizesAssumption
<1>2. NoTag \notin Tags /\ Tags \subseteq Nat
  BY <1>1 DEF NoTag, Tags
<1>3. IsFiniteSet(Tags)
  BY <1>1, FS_Interval DEF Tags
<1> QED
  BY <1>2, <1>3

\* GetTag finds an entry of the signature it is given.
LEMMA GetTagIs ==
  ASSUME DirTypes, NEW sig, GetTag(sig) # 0
  PROVE  GetTag(sig) \in DOMAIN entries /\ entries[GetTag(sig)].sig = sig
<1> DEFINE hits == {i \in DOMAIN entries : entries[i].sig = sig}
<1>1. hits # {} /\ GetTag(sig) = CHOOSE i \in hits : \A j \in hits : i <= j
  BY DEF GetTag
<1>2. hits \subseteq Nat
  BY DEF DirTypes
<1>3. \E i \in hits : \A j \in hits : i <= j
  <2> HIDE DEF hits
  <2> QED
    BY <1>1, <1>2, NatMinimum
<1> QED
  BY <1>1, <1>3

\* The place of an owned tag object.
LEMMA PlaceIs ==
  ASSUME tagVals \in Seq(Tags), NEW g \in Owned
  PROVE  Place(g) \in DOMAIN tagVals /\ tagVals[Place(g)] = g
<1> DEFINE hits == {v \in DOMAIN tagVals : tagVals[v] = g}
<1>1. hits # {} /\ hits \subseteq Nat
  BY DEF Owned
<1>2. PICK v \in hits : \A u \in hits : v <= u
  <2> HIDE DEF hits
  <2> QED
    BY <1>1, NatMinimum
<1>3. \A u \in 1..(v - 1) : tagVals[u] # g
  <2>1. v \in 1..Len(tagVals) /\ Len(tagVals) \in Nat
    OBVIOUS
  <2>2. \A u \in 1..(v - 1) : u \in 1..Len(tagVals) /\ ~(v <= u)
    BY <2>1
  <2> QED
    BY <1>2, <2>2
<1>4. \E u \in DOMAIN tagVals : tagVals[u] = g /\ \A w \in 1..(u - 1) : tagVals[w] # g
  BY <1>3
<1> QED
  BY <1>4 DEF Place

\* The loop over the directory reads from a file.
LEMMA SourceIsFile == DirTypes => IsFile(io) /\ IsFile(Source) /\ IsFile(NoFile)
<1>1. IsFile(NoFile)
  BY DEF IsFile, NoFile
<1> QED
  BY <1>1, FilesAssumption DEF DirTypes, Source
-----------------------------------------------------------------------------
(* What the operations keep, loop and history aside                        *)

Data == DirTypes /\ OwnInv /\ (~mixed => Unmixed)

\* A new tag is what every entry at its place refers to then; none of these was
\* loaded, and none of the others is concerned.
LEMMA LoadTagKeeps ==
  ASSUME Data, NEW i \in DOMAIN entries, LoadTag(i, Source),
         UNCHANGED <<io, reading, mixed>>, Source' = Source, IsFile(saved')
  PROVE  Data' /\ Len(entries') = Len(entries)
<1> DEFINE g == FreeTag
           o == entries[i].offset
           n == Len(entries)
<1>0. DirTypes /\ OwnInv
  BY DEF Data
<1>1. /\ entries[i].tag = NoTag /\ live # Tags /\ o \in DOMAIN Source.data
      /\ live' = live \cup {g} /\ content' = [content EXCEPT ![g] = Source.data[o]]
      /\ tagVals' = Append(tagVals, g)
      /\ entries' = [j \in DOMAIN entries |->
           IF entries[j].offset = o THEN [entries[j] EXCEPT !.tag = g] ELSE entries[j]]
  BY DEF LoadTag, SharesData
<1>2. g \in Tags /\ g \notin live /\ g # NoTag
  BY <1>0, <1>1, FreeTagIs, TagsAreNot DEF DirTypes
<1>3. Source.data[o] \in Contents /\ o # 0
  BY <1>0, <1>1, SourceIsFile DEF IsFile
<1>4. n \in Nat /\ DOMAIN entries = 1..n /\ \A j \in 1..n : entries[j] \in Entry
  BY <1>0 DEF DirTypes
<1> HIDE DEF g, o, n
<1>5. entries' \in Seq(Entry) /\ Len(entries') = n /\ DOMAIN entries' = 1..n
  <2>1. \A j \in 1..n : [entries[j] EXCEPT !.tag = g] \in Entry
    BY <1>2, <1>4 DEF Entry
  <2>2. entries' \in [1..n -> Entry]
    BY <1>1, <1>4, <2>1
  <2> QED
    BY <1>4, <2>2, FunctionIsSeq
<1>6. \A j \in 1..n :
        /\ entries'[j].offset = entries[j].offset /\ entries'[j].means = entries[j].means
        /\ entries'[j].tag = IF entries[j].offset = o THEN g ELSE entries[j].tag
  BY <1>1, <1>4 DEF Entry
<1>7. /\ \A j \in 1..n : j \in Loaded <=> entries[j].tag # NoTag
      /\ \A j \in 1..n : j \in Loaded' <=> entries[j].offset = o \/ entries[j].tag # NoTag
      /\ Loaded \subseteq 1..n /\ Loaded' \subseteq 1..n
      /\ Unloaded' \subseteq 1..n /\ \A j \in 1..n : j \in Unloaded <=> j \notin Loaded
  BY <1>2, <1>4, <1>5, <1>6 DEF Loaded, Unloaded
<1>8. /\ tagVals' \in Seq(Tags) /\ Len(tagVals') = Len(tagVals) + 1
      /\ DOMAIN tagVals' = 1..(Len(tagVals) + 1) /\ DOMAIN tagVals = 1..Len(tagVals)
      /\ Len(tagVals) \in Nat
      /\ tagVals'[Len(tagVals) + 1] = g
      /\ \A v \in 1..Len(tagVals) : tagVals'[v] = tagVals[v]
  BY <1>0, <1>1, <1>2, AppendProperties DEF DirTypes
<1>9. Owned' = Owned \cup {g} /\ g \notin Owned
  <2>1. \A v \in 1..(Len(tagVals) + 1) : v = Len(tagVals) + 1 \/ v \in 1..Len(tagVals)
    BY <1>8
  <2>2. \A v \in 1..Len(tagVals) : v \in 1..(Len(tagVals) + 1)
    BY <1>8
  <2>3. Len(tagVals) + 1 \in 1..(Len(tagVals) + 1)
    BY <1>8
  <2>4. g \notin Owned
    BY <1>0, <1>2 DEF OwnInv
  <2> QED
    BY <1>8, <2>1, <2>2, <2>3, <2>4 DEF Owned
<1>10. DirTypes'
  BY <1>0, <1>1, <1>2, <1>3, <1>5, <1>8 DEF DirTypes
<1>11. OwnInv'
  <2>1. ASSUME NEW u \in DOMAIN tagVals', NEW v \in DOMAIN tagVals', tagVals'[u] = tagVals'[v]
        PROVE  u = v
    <3>1. \A w \in 1..Len(tagVals) : tagVals'[w] # g
      BY <1>8, <1>9 DEF Owned
    <3>2. u \in 1..Len(tagVals) \/ u = Len(tagVals) + 1
      BY <1>8
    <3>3. v \in 1..Len(tagVals) \/ v = Len(tagVals) + 1
      BY <1>8
    <3> QED
      BY <1>0, <1>8, <2>1, <3>1, <3>2, <3>3 DEF OwnInv
  <2>2. \A j \in Loaded' : entries'[j].tag \in Owned'
    BY <1>0, <1>6, <1>7, <1>9 DEF OwnInv
  <2> QED
    BY <1>0, <1>1, <1>9, <2>1, <2>2 DEF OwnInv
<1>12. ASSUME ~mixed'
       PROVE  Unmixed'
  <2>1. Unmixed
    BY <1>12 DEF Data
  <2>2. \A j \in Loaded : entries[j].offset # o
    BY <1>1, <1>3, <1>4, <1>7, <2>1 DEF Unmixed, Apart, o
  <2>3. \A j \in Loaded : entries'[j].tag = entries[j].tag /\ entries[j].tag # g
    BY <1>0, <1>6, <1>7, <1>9, <2>2 DEF OwnInv
  <2>4. Reached'
    <3>1. ASSUME NEW h \in Owned
          PROVE  \E j \in Loaded' : entries'[j].tag = h
      <4>1. PICK j \in Loaded : entries[j].tag = h
        BY <2>1 DEF Unmixed, Reached
      <4> QED
        BY <1>7, <2>3, <4>1
    <3>2. i \in Loaded' /\ entries'[i].tag = g
      BY <1>4, <1>6, <1>7 DEF o
    <3> QED
      BY <1>9, <3>1, <3>2 DEF Reached
  <2>5. Apart'
    <3> SUFFICES ASSUME NEW j \in Unloaded', NEW k \in Loaded',
                        entries'[j].offset # 0, entries'[j].offset = entries'[k].offset
                 PROVE  FALSE
      BY DEF Apart
    <3>1. j \in 1..n /\ j \notin Loaded' /\ k \in 1..n
      BY <1>7 DEF Unloaded
    <3>2. j \in Unloaded /\ entries[j].offset # o /\ entries[j].offset # 0
      BY <1>6, <1>7, <3>1
    <3>3. k \in Loaded /\ entries[j].offset = entries[k].offset
      BY <1>6, <1>7, <3>1, <3>2
    <3> QED
      BY <2>1, <3>2, <3>3 DEF Unmixed, Apart
  <2>6. Promised'
    <3> SUFFICES ASSUME NEW j \in Unloaded', entries'[j].offset \in DOMAIN Source.data
                 PROVE  entries'[j].means = Source.data[entries'[j].offset]
      BY DEF Promised
    <3>1. j \in 1..n /\ j \in Unloaded
      BY <1>7 DEF Unloaded
    <3> QED
      BY <1>6, <2>1, <3>1 DEF Unmixed, Promised
  <2>7. FindTagAlwaysHonest'
    <3> SUFFICES ASSUME NEW j \in Loaded'
                 PROVE  content'[entries'[j].tag] = entries'[j].means
      BY DEF FindTagAlwaysHonest
    <3>0. j \in 1..n
      BY <1>7
    <3>1. CASE entries[j].offset = o
      <4>1. j \in Unloaded /\ entries[j].means = Source.data[o]
        BY <1>1, <1>7, <2>1, <2>2, <3>0, <3>1 DEF Unmixed, Promised
      <4>2. content'[g] = Source.data[o]
        BY <1>0, <1>1, <1>2 DEF DirTypes
      <4> QED
        BY <1>6, <3>0, <3>1, <4>1, <4>2
    <3>2. CASE entries[j].offset # o
      <4>1. j \in Loaded /\ entries[j].tag # g /\ entries[j].tag \in Tags
        BY <1>4, <1>7, <2>3, <3>0, <3>2 DEF Entry
      <4>2. content'[entries[j].tag] = content[entries[j].tag]
        BY <1>0, <1>1, <4>1 DEF DirTypes
      <4> QED
        BY <1>6, <2>1, <3>0, <3>2, <4>1, <4>2 DEF Unmixed, FindTagAlwaysHonest
    <3> QED
      BY <3>1, <3>2
  <2>8. Sharing'
    <3> SUFFICES ASSUME io # NoFile, NEW j \in Loaded', NEW k \in Loaded',
                        entries'[j].offset # 0, entries'[j].offset = entries'[k].offset
                 PROVE  entries'[j].tag = entries'[k].tag
      BY DEF Sharing
    <3>1. j \in 1..n /\ k \in 1..n
      BY <1>7
    <3> QED
      BY <1>6, <1>7, <2>1, <3>1 DEF Unmixed, Sharing
  <2> QED
    BY <2>4, <2>5, <2>6, <2>7, <2>8 DEF Unmixed
<1> QED
  BY <1>5, <1>10, <1>11, <1>12 DEF Data, n

\* The tag that is attached is new, or owned already, with its own content.
LEMMA AttachTagKeeps ==
  ASSUME Data, NEW sig \in Sigs, NEW g \in Tags, NEW c \in Contents, AttachTag(sig, g, c),
         g \notin live \/ (g \in Owned /\ c = content[g])
  PROVE  Data' /\ at' = at /\ pc' = pc
<1> DEFINE n == Len(entries)
           new == [sig |-> sig, offset |-> 0, size |-> 0, tag |-> g, means |-> c]
<1>0. DirTypes /\ OwnInv
  BY DEF Data
<1>1. /\ entries' = Append(entries, new) /\ tagVals' = Owning(g)
      /\ live' = live \cup {g} /\ content' = [content EXCEPT ![g] = c]
      /\ saved' = NoFile /\ io' = io /\ reading' = reading /\ mixed' = mixed
      /\ at' = at /\ pc' = pc
  BY DEF AttachTag
<1>2. g # NoTag
  BY TagsAreNot
<1>3. new \in Entry
  BY DEF Entry
<1>a. new.tag = g /\ new.offset = 0 /\ new.means = c
  OBVIOUS
<1>4. n \in Nat /\ DOMAIN entries = 1..n /\ \A j \in 1..n : entries[j] \in Entry
  BY <1>0 DEF DirTypes
<1> HIDE DEF new
<1>5. /\ entries' \in Seq(Entry) /\ DOMAIN entries' = 1..(n + 1)
      /\ entries'[n + 1] = new /\ \A j \in 1..n : entries'[j] = entries[j]
  BY <1>0, <1>1, <1>3, AppendProperties DEF DirTypes
<1> HIDE DEF n
<1>6. /\ \A j \in 1..n : j \in 1..(n + 1) /\ j # n + 1
      /\ \A j \in 1..(n + 1) : j \in 1..n \/ j = n + 1
      /\ n + 1 \in 1..(n + 1)
  BY <1>4
<1>7. Loaded' = Loaded \cup {n + 1} /\ Unloaded' = Unloaded /\ Loaded \subseteq 1..n
      /\ Unloaded \subseteq 1..n
  BY <1>2, <1>a, <1>4, <1>5, <1>6 DEF Loaded, Unloaded
<1>8. /\ tagVals' \in Seq(Tags) /\ Owned' = Owned \cup {g}
      /\ \A u, v \in DOMAIN tagVals' : tagVals'[u] = tagVals'[v] => u = v
  <2>1. CASE g \in Owned
    BY <1>0, <1>1, <2>1 DEF Owning, Owned, DirTypes, OwnInv
  <2>2. CASE g \notin Owned
    <3> DEFINE m == Len(tagVals)
    <3>1. /\ tagVals' \in Seq(Tags)
          /\ DOMAIN tagVals' = 1..(m + 1) /\ DOMAIN tagVals = 1..m /\ m \in Nat
          /\ tagVals'[m + 1] = g /\ \A v \in 1..m : tagVals'[v] = tagVals[v]
      BY <1>0, <1>1, <2>2, AppendProperties DEF DirTypes, Owning
    <3> HIDE DEF m
    <3>2. /\ \A v \in 1..(m + 1) : v = m + 1 \/ v \in 1..m
          /\ \A v \in 1..m : v \in 1..(m + 1)
          /\ m + 1 \in 1..(m + 1)
      BY <3>1
    <3>3. Owned' = Owned \cup {g}
      BY <3>1, <3>2 DEF Owned
    <3>4. \A v \in 1..m : tagVals'[v] # g
      BY <2>2, <3>1 DEF Owned
    <3> QED
      BY <1>0, <3>1, <3>2, <3>3, <3>4 DEF OwnInv
  <2> QED
    BY <2>1, <2>2
<1>9. DirTypes'
  BY <1>0, <1>1, <1>5, <1>8, SourceIsFile DEF DirTypes
<1>10. OwnInv'
  <2>1. Owned' \subseteq live'
    BY <1>0, <1>1, <1>8 DEF OwnInv
  <2>2. ASSUME NEW j \in Loaded'
        PROVE  entries'[j].tag \in Owned'
    <3>1. CASE j \in Loaded
      BY <1>0, <1>5, <1>7, <1>8, <3>1 DEF OwnInv
    <3>2. CASE j = n + 1
      BY <1>a, <1>5, <1>8, <3>2
    <3> QED
      BY <1>7, <3>1, <3>2
  <2> QED
    BY <1>8, <2>1, <2>2 DEF OwnInv
<1>11. ASSUME ~mixed'
       PROVE  Unmixed'
  <2>1. Unmixed
    BY <1>1, <1>11 DEF Data
  <2>2. Reached'
    BY <1>a, <1>5, <1>7, <1>8, <2>1 DEF Reached, Unmixed
  <2>3. Apart'
    <3> SUFFICES ASSUME NEW j \in Unloaded', NEW k \in Loaded', entries'[j].offset # 0
                 PROVE  entries'[j].offset # entries'[k].offset
      BY DEF Apart
    <3>1. j \in Unloaded /\ entries'[j] = entries[j] /\ entries[j].offset # 0
      BY <1>5, <1>7
    <3>2. CASE k \in Loaded
      BY <1>5, <1>7, <2>1, <3>1, <3>2 DEF Apart, Unmixed
    <3>3. CASE k = n + 1
      BY <1>a, <1>5, <3>1, <3>3
    <3> QED
      BY <1>7, <3>2, <3>3
  <2>4. Promised'
    BY <1>1, <1>5, <1>7, <2>1 DEF Promised, Unmixed, Source
  <2>5. FindTagAlwaysHonest'
    <3>1. content'[g] = c
      BY <1>0, <1>1 DEF DirTypes
    <3>2. ASSUME NEW j \in Loaded
          PROVE  content'[entries[j].tag] = content[entries[j].tag]
      <4>1. entries[j].tag \in Owned /\ Owned \subseteq live /\ live \subseteq Tags
        BY <1>0 DEF OwnInv, DirTypes
      <4>2. CASE entries[j].tag = g
        BY <1>0, <3>1, <4>1, <4>2
      <4>3. CASE entries[j].tag # g
        BY <1>0, <1>1, <4>1, <4>3 DEF DirTypes
      <4> QED
        BY <4>2, <4>3
    <3> QED
      <4>1. \A j \in Loaded : content[entries[j].tag] = entries[j].means
        BY <2>1 DEF FindTagAlwaysHonest, Unmixed
      <4>2. \A j \in Loaded : content'[entries'[j].tag] = entries'[j].means
        BY <1>5, <1>7, <3>2, <4>1
      <4>3. content'[entries'[n + 1].tag] = entries'[n + 1].means
        BY <1>a, <1>5, <3>1
      <4> QED
        BY <1>7, <4>2, <4>3 DEF FindTagAlwaysHonest
  <2>6. Sharing'
    <3> SUFFICES ASSUME io # NoFile, NEW j \in Loaded', NEW k \in Loaded',
                        entries'[j].offset # 0, entries'[j].offset = entries'[k].offset
                 PROVE  entries'[j].tag = entries'[k].tag
      BY <1>1 DEF Sharing
    <3>1. entries'[n + 1].offset = 0
      BY <1>a, <1>5
    <3>2. j \in Loaded /\ k \in Loaded
      BY <1>7, <3>1
    <3>3. entries'[j] = entries[j] /\ entries'[k] = entries[k]
      BY <1>5, <1>7, <3>2
    <3> QED
      BY <2>1, <3>2, <3>3 DEF Sharing, Unmixed
  <2> QED
    BY <2>2, <2>3, <2>4, <2>5, <2>6 DEF Unmixed
<1> QED
  BY <1>1, <1>9, <1>10, <1>11 DEF Data

\* The tag goes with the last entry that refers to it.
LEMMA DeleteTagKeeps ==
  ASSUME Data, NEW sig, DeleteTag(sig)
  PROVE  Data' /\ at' = at /\ pc' = pc
<1> DEFINE i == GetTag(sig)
           g == entries[i].tag
           rest == Without(entries, i)
<1>0. DirTypes /\ OwnInv
  BY DEF Data
<1>1. /\ i # 0 /\ entries' = rest /\ content' = content
      /\ saved' = NoFile /\ io' = io /\ reading' = reading /\ mixed' = mixed
      /\ at' = at /\ pc' = pc
      /\ IF g # NoTag /\ Unused(g, rest)
         THEN /\ tagVals' = IF g \in Owned THEN Without(tagVals, Place(g)) ELSE tagVals
              /\ live' = live \ {g}
         ELSE tagVals' = tagVals /\ live' = live
  BY DEF DeleteTag
<1>2. i \in DOMAIN entries
  BY <1>0, <1>1, GetTagIs
<1> HIDE DEF i
<1>3. /\ rest \in Seq(Entry)
      /\ \A j \in DOMAIN rest : Skip(i, j) \in DOMAIN entries /\ rest[j] = entries[Skip(i, j)]
      /\ \A k \in DOMAIN entries : k # i => \E j \in DOMAIN rest : k = Skip(i, j)
  BY <1>0, <1>2, WithoutIs DEF DirTypes
<1> HIDE DEF g, rest
<1>4. /\ \A j \in Loaded' : Skip(i, j) \in Loaded /\ rest[j] = entries[Skip(i, j)]
      /\ \A j \in Unloaded' : Skip(i, j) \in Unloaded /\ rest[j] = entries[Skip(i, j)]
      /\ \A k \in Loaded : k # i => \E j \in Loaded' : rest[j] = entries[k]
  BY <1>1, <1>3 DEF Loaded, Unloaded
<1>5. ASSUME g # NoTag /\ Unused(g, rest)
      PROVE  DirTypes' /\ OwnInv' /\ (Reached => Reached')
  <2>1. g \in Owned /\ i \in Loaded
    BY <1>0, <1>2, <1>5 DEF OwnInv, Loaded, g
  <2>2. Place(g) \in DOMAIN tagVals /\ tagVals[Place(g)] = g
    BY <1>0, <2>1, PlaceIs DEF DirTypes
  <2> DEFINE p == Place(g)
             q == Without(tagVals, p)
  <2>3. tagVals' = q /\ live' = live \ {g}
    BY <1>1, <1>5, <2>1
  <2>4. /\ q \in Seq(Tags)
        /\ \A j \in DOMAIN q : /\ Skip(p, j) \in DOMAIN tagVals /\ Skip(p, j) # p
                               /\ q[j] = tagVals[Skip(p, j)]
        /\ \A k \in DOMAIN tagVals : k # p => \E j \in DOMAIN q : k = Skip(p, j)
        /\ \A j, k \in DOMAIN q : Skip(p, j) = Skip(p, k) => j = k
    BY <1>0, <2>2, WithoutIs DEF DirTypes
  <2>a. p \in DOMAIN tagVals /\ tagVals[p] = g
    BY <2>2
  <2> HIDE DEF p, q
  <2>5. Owned' = Owned \ {g}
    <3>1. \A u \in DOMAIN tagVals : tagVals[u] = g => u = p
      BY <1>0, <2>a DEF OwnInv
    <3>2. \A j \in DOMAIN q : q[j] \in Owned \ {g}
      BY <2>4, <3>1 DEF Owned
    <3>3. \A u \in DOMAIN tagVals : tagVals[u] # g => \E j \in DOMAIN q : q[j] = tagVals[u]
      BY <2>a, <2>4
    <3>4. Owned' = {q[j] : j \in DOMAIN q}
      BY <2>3 DEF Owned
    <3> QED
      BY <3>2, <3>3, <3>4 DEF Owned
  <2>6. \A j \in Loaded' : rest[j].tag \in Owned \ {g}
    BY <1>0, <1>1, <1>4, <1>5 DEF OwnInv, Unused, Loaded
  <2>7. DirTypes'
    BY <1>0, <1>1, <1>3, <2>3, <2>4, SourceIsFile DEF DirTypes
  <2>8. OwnInv'
    BY <1>0, <1>1, <2>3, <2>4, <2>5, <2>6 DEF OwnInv
  <2>9. ASSUME Reached
        PROVE  Reached'
    BY <1>1, <1>4, <2>5, <2>9 DEF Reached, g
  <2> QED
    BY <2>7, <2>8, <2>9
<1>6. ASSUME ~(g # NoTag /\ Unused(g, rest))
      PROVE  DirTypes' /\ OwnInv' /\ (Reached => Reached')
  <2>1. tagVals' = tagVals /\ live' = live /\ Owned' = Owned
    BY <1>1, <1>6 DEF Owned
  <2>2. DirTypes'
    BY <1>0, <1>1, <1>3, <2>1, SourceIsFile DEF DirTypes
  <2>3. OwnInv'
    <3>1. \A j \in Loaded' : entries'[j].tag \in Owned
      BY <1>0, <1>1, <1>4 DEF OwnInv
    <3> QED
      BY <1>0, <2>1, <3>1 DEF OwnInv
  <2>4. ASSUME Reached
        PROVE  Reached'
    <3> SUFFICES ASSUME NEW h \in Owned
                 PROVE  \E j \in Loaded' : entries'[j].tag = h
      BY <2>1 DEF Reached
    <3>a. entries' = rest
      BY <1>1
    <3>1. PICK k \in Loaded : entries[k].tag = h
      BY <2>4 DEF Reached
    <3>2. CASE k = i
      <4>1. g # NoTag /\ g = h
        BY <3>1, <3>2 DEF Loaded, g
      <4>2. PICK j \in DOMAIN rest : rest[j].tag = g
        BY <1>6, <4>1 DEF Unused
      <4>3. j \in Loaded'
        BY <1>1, <4>1, <4>2 DEF Loaded
      <4> QED
        BY <3>a, <4>1, <4>2, <4>3
    <3>3. CASE k # i
      BY <1>4, <3>a, <3>1, <3>3
    <3> QED
      BY <3>2, <3>3
  <2> QED
    BY <2>2, <2>3, <2>4
<1>7. ASSUME ~mixed'
      PROVE  Unmixed'
  <2>1. Unmixed
    BY <1>1, <1>7 DEF Data
  <2>2. Reached'
    BY <1>5, <1>6, <2>1 DEF Unmixed
  <2>3. Apart'
    BY <1>1, <1>4, <2>1 DEF Apart, Unmixed
  <2>4. Promised'
    BY <1>1, <1>4, <2>1 DEF Promised, Unmixed, Source
  <2>5. FindTagAlwaysHonest'
    BY <1>1, <1>4, <2>1 DEF FindTagAlwaysHonest, Unmixed
  <2>6. Sharing'
    BY <1>1, <1>4, <2>1 DEF Sharing, Unmixed
  <2> QED
    BY <2>2, <2>3, <2>4, <2>5, <2>6 DEF Unmixed
<1> QED
  BY <1>1, <1>5, <1>6, <1>7 DEF Data

\* The parts of a sequence.
LEMMA SeqParts ==
  ASSUME NEW S, NEW s \in Seq(S)
  PROVE  Len(s) \in Nat /\ DOMAIN s = 1..Len(s) /\ \A i \in 1..Len(s) : s[i] \in S
OBVIOUS

\* A directory read anew has nothing loaded; the old tags have gone with it.
LEMMA ReadBasicKeeps ==
  ASSUME Data, NEW f, IsFile(f), ReadBasic(f), content' = content,
         mixed' = (mixed /\ entries = << >>), io' \in Files \cup {NoFile},
         IsFile(reading'), IsFile(saved'), Source' = f
  PROVE  Data' /\ Len(entries') \in Nat
<1>0. DirTypes /\ OwnInv
  BY DEF Data
<1>1. /\ entries' = Entries(f.dir, f.data)
      /\ \/ entries # << >> /\ tagVals' = << >> /\ live' = live \ Owned
         \/ entries = << >> /\ tagVals' = tagVals /\ live' = live
  BY DEF ReadBasic
<1> DEFINE n == Len(f.dir)
<1>2. /\ n \in Nat /\ DOMAIN f.dir = 1..n
      /\ \A r \in 1..n : f.dir[r] \in [sig : Sigs, offset : Nat, size : Nat]
      /\ \A p \in DOMAIN f.data : f.data[p] \in Contents
  <2>1. f.dir \in Seq([sig : Sigs, offset : Nat, size : Nat])
    BY DEF IsFile
  <2>2. \A p \in DOMAIN f.data : f.data[p] \in Contents
    BY DEF IsFile
  <2> QED
    BY <2>1, <2>2, SeqParts
<1> HIDE DEF n
<1>3. /\ DOMAIN entries' = 1..n
      /\ \A j \in 1..n :
           /\ entries'[j] \in Entry
           /\ entries'[j].tag = NoTag /\ entries'[j].offset = f.dir[j].offset
           /\ f.dir[j].offset \in DOMAIN f.data =>
                entries'[j].means = f.data[f.dir[j].offset]
  <2>1. /\ DOMAIN entries' = 1..n
        /\ \A j \in 1..n : entries'[j] =
             [sig |-> f.dir[j].sig, offset |-> f.dir[j].offset, size |-> f.dir[j].size,
              tag |-> NoTag,
              means |-> IF f.dir[j].offset \in DOMAIN f.data THEN f.data[f.dir[j].offset]
                                                            ELSE Nothing]
    BY <1>1, <1>2 DEF Entries
  <2>2. ASSUME NEW j \in 1..n
        PROVE  /\ entries'[j] \in Entry
               /\ entries'[j].tag = NoTag /\ entries'[j].offset = f.dir[j].offset
               /\ f.dir[j].offset \in DOMAIN f.data =>
                    entries'[j].means = f.data[f.dir[j].offset]
    <3>1. /\ f.dir[j].sig \in Sigs /\ f.dir[j].offset \in Nat /\ f.dir[j].size \in Nat
      BY <1>2
    <3>2. (IF f.dir[j].offset \in DOMAIN f.data THEN f.data[f.dir[j].offset] ELSE Nothing)
            \in Contents \cup {Nothing}
      BY <1>2
    <3> QED
      BY <2>1, <3>1, <3>2 DEF Entry
  <2> QED
    BY <2>1, <2>2
<1>4. entries' \in Seq(Entry) /\ Len(entries') = n
  <2>1. entries' = [j \in 1..n |-> entries'[j]]
    BY <1>1, <1>2 DEF Entries
  <2>2. entries' \in [1..n -> Entry]
    BY <1>3, <2>1
  <2> QED
    BY <1>2, <2>2, FunctionIsSeq
<1>5. Loaded' = {} /\ Unloaded' = 1..n
  BY <1>3 DEF Loaded, Unloaded
<1>6. tagVals' \in Seq(Tags) /\ live' \subseteq live
  <2>1. << >> \in Seq(Tags) /\ tagVals \in Seq(Tags) /\ live \ Owned \subseteq live
    BY <1>0 DEF DirTypes
  <2> QED
    BY <1>1, <2>1
<1>7. Owned' = IF entries = << >> THEN Owned ELSE {}
  BY <1>1 DEF Owned
<1>8. DirTypes'
  <2>1. content' \in [Tags -> Contents] /\ live' \subseteq Tags /\ mixed' \in BOOLEAN
    BY <1>0, <1>6 DEF DirTypes
  <2> QED
    BY <1>4, <1>6, <2>1 DEF DirTypes
<1>9. OwnInv'
  <2>1. CASE entries = << >>
    BY <1>0, <1>1, <1>5, <1>7, <2>1 DEF OwnInv
  <2>2. CASE entries # << >>
    BY <1>1, <1>5, <1>7, <2>2 DEF OwnInv
  <2> QED
    BY <2>1, <2>2
<1>10. ASSUME ~mixed'
       PROVE  Unmixed'
  <2>1. Owned' = {}
    <3>1. CASE entries = << >>
      <4>1. Reached
        BY <1>10, <3>1 DEF Data, Unmixed
      <4>2. Loaded = {}
        BY <3>1 DEF Loaded
      <4> QED
        BY <1>7, <3>1, <4>1, <4>2 DEF Reached
    <3> QED
      BY <1>7, <3>1
  <2>2. Promised'
    BY <1>3, <1>5 DEF Promised
  <2> QED
    BY <1>5, <2>1, <2>2 DEF Unmixed, Reached, Apart, FindTagAlwaysHonest, Sharing
<1> QED
  BY <1>2, <1>4, <1>8, <1>9, <1>10 DEF Data

\* Nothing is left to go wrong.
LEMMA CleanupKeeps ==
  ASSUME Data, Cleanup, content' = content, mixed' \in BOOLEAN,
         IsFile(reading'), IsFile(saved')
  PROVE  Data'
<1>1. /\ entries' = << >> /\ tagVals' = << >> /\ live' \subseteq live /\ io' = NoFile
  BY DEF Cleanup
<1>2. Loaded' = {} /\ Unloaded' = {} /\ Owned' = {}
  BY <1>1 DEF Loaded, Unloaded, Owned
<1>3. DirTypes'
  BY <1>1 DEF Data, DirTypes
<1>4. OwnInv'
  BY <1>1, <1>2 DEF OwnInv
<1>5. Unmixed'
  BY <1>1, <1>2 DEF Unmixed, Reached, Apart, Promised, FindTagAlwaysHonest, Sharing
<1> QED
  BY <1>3, <1>4, <1>5 DEF Data

\* The file may be let go.
LEMMA SameDirectoryKeeps ==
  ASSUME Data, UNCHANGED <<entries, tagVals, live, content, mixed>>,
         io' \in {io, NoFile}, Source' \in {Source, NoFile},
         IsFile(reading'), IsFile(saved')
  PROVE  Data'
<1>1. Loaded' = Loaded /\ Unloaded' = Unloaded /\ Owned' = Owned
  BY DEF Loaded, Unloaded, Owned
<1>2. DirTypes'
  BY DEF Data, DirTypes
<1>3. OwnInv'
  BY <1>1 DEF Data, OwnInv
<1>4. ASSUME ~mixed'
      PROVE  Unmixed'
  <2>1. Unmixed
    BY <1>4 DEF Data
  <2>2. Promised'
    <3>1. CASE Source' = Source
      BY <1>1, <2>1, <3>1 DEF Unmixed, Promised
    <3>2. CASE Source' = NoFile
      BY <3>2 DEF Promised, NoFile
    <3> QED
      BY <3>1, <3>2
  <2>3. Sharing'
    BY <1>1, <2>1 DEF Unmixed, Sharing
  <2>4. Reached' /\ Apart' /\ FindTagAlwaysHonest'
    BY <1>1, <2>1 DEF Unmixed, Reached, Apart, FindTagAlwaysHonest
  <2> QED
    BY <2>2, <2>3, <2>4 DEF Unmixed
<1> QED
  BY <1>2, <1>3, <1>4 DEF Data

\* A copied entry refers to the copy of the tag the entry referred to.
LEMMA CopyKeeps ==
  ASSUME Data, NEW lend, Copy(lend)
  PROVE  Data' /\ at' = at /\ pc' = pc
<1> DEFINE n == Len(entries)
           m == Len(tagVals)
<1>0. DirTypes /\ OwnInv
  BY DEF Data
<1>1. /\ tagVals' = [v \in DOMAIN tagVals |-> v] /\ live' = DOMAIN tagVals
      /\ content' = [g \in Tags |-> IF g \in DOMAIN tagVals THEN content[tagVals[g]]
                                                           ELSE content[g]]
      /\ entries' = [i \in DOMAIN entries |-> [entries[i] EXCEPT !.tag = CopyOf(@)]]
      /\ io' \in {io, NoFile} /\ saved' = NoFile /\ pc = "idle"
      /\ at' = at /\ pc' = pc /\ reading' = reading /\ mixed' = mixed
  BY DEF Copy
<1>2. /\ n \in Nat /\ DOMAIN entries = 1..n /\ \A i \in 1..n : entries[i] \in Entry
      /\ m \in Nat /\ DOMAIN tagVals = 1..m /\ \A v \in 1..m : tagVals[v] \in Tags
  BY <1>0 DEF DirTypes
<1> HIDE DEF n, m
<1>3. 1..m \subseteq Tags
  <2>1. tagVals \in Injection(1..m, Tags)
    <3>1. tagVals \in [1..m -> Tags]
      BY <1>0, <1>2 DEF DirTypes
    <3>2. \A u, v \in 1..m : tagVals[u] = tagVals[v] => u = v
      BY <1>0, <1>2 DEF OwnInv
    <3> QED
      BY <3>1, <3>2 DEF Injection, IsInjective
  <2>2. IsFiniteSet(Tags) /\ Cardinality(Tags) = MaxTags /\ MaxTags \in Nat
    BY SizesAssumption, FS_Interval DEF Tags
  <2>3. Cardinality(1..m) = m
    BY <1>2, FS_Interval
  <2>4. m <= MaxTags
    BY <2>1, <2>2, <2>3, FS_Injection
  <2> QED
    BY <1>2, <2>2, <2>4 DEF Tags
<1>4. /\ tagVals' \in Seq(Tags) /\ DOMAIN tagVals' = 1..m /\ Owned' = 1..m
      /\ \A v \in 1..m : tagVals'[v] = v
  <2>1. tagVals' \in [1..m -> Tags] /\ \A v \in 1..m : tagVals'[v] = v
    BY <1>1, <1>2, <1>3
  <2>2. tagVals' \in Seq(Tags) /\ DOMAIN tagVals' = 1..m
    BY <1>2, <2>1, FunctionIsSeq
  <2> QED
    BY <2>1, <2>2 DEF Owned
<1>5. \A g \in Owned : Place(g) \in 1..m /\ tagVals[Place(g)] = g
  BY <1>0, <1>2, PlaceIs DEF DirTypes
<1>6. NoTag \notin Owned /\ CopyOf(NoTag) = NoTag /\ NoTag \notin 1..m
  BY <1>0, <1>3, TagsAreNot DEF OwnInv, DirTypes, CopyOf
<1>7. /\ \A i \in Loaded : entries[i].tag \in Owned /\ CopyOf(entries[i].tag) = Place(entries[i].tag)
      /\ \A i \in 1..n : i \notin Loaded => CopyOf(entries[i].tag) = NoTag
      /\ Loaded \subseteq 1..n
  BY <1>0, <1>2, <1>6 DEF OwnInv, CopyOf, Loaded
<1>8. \A i \in 1..n : CopyOf(entries[i].tag) \in Tags \cup {NoTag}
  BY <1>3, <1>5, <1>7
<1>9. /\ DOMAIN entries' = 1..n
      /\ \A i \in 1..n :
           /\ entries'[i] \in Entry
           /\ entries'[i].tag = CopyOf(entries[i].tag)
           /\ entries'[i].offset = entries[i].offset /\ entries'[i].means = entries[i].means
  BY <1>1, <1>2, <1>8 DEF Entry
<1>10. entries' \in Seq(Entry)
  <2>1. entries' = [i \in 1..n |-> entries'[i]]
    BY <1>1, <1>2
  <2>2. entries' \in [1..n -> Entry]
    BY <1>9, <2>1
  <2> QED
    BY <1>2, <2>2, FunctionIsSeq
<1>11. Loaded' = Loaded /\ Unloaded' = Unloaded
  <2>1. \A i \in 1..n : entries'[i].tag # NoTag <=> i \in Loaded
    BY <1>5, <1>6, <1>7, <1>9
  <2>2. Loaded' = Loaded
    BY <1>7, <1>9, <2>1 DEF Loaded
  <2> QED
    BY <1>2, <1>9, <2>2 DEF Unloaded
<1>12. /\ content' \in [Tags -> Contents]
       /\ \A g \in Owned : content'[Place(g)] = content[g]
  BY <1>0, <1>1, <1>2, <1>3, <1>5 DEF DirTypes
<1>13. DirTypes'
  BY <1>0, <1>1, <1>2, <1>3, <1>4, <1>10, <1>12, SourceIsFile DEF DirTypes
<1>14. OwnInv'
  <2>1. \A i \in Loaded' : entries'[i].tag \in Owned'
    BY <1>4, <1>5, <1>7, <1>9, <1>11
  <2> QED
    BY <1>1, <1>2, <1>4, <2>1 DEF OwnInv
<1>15. ASSUME ~mixed'
       PROVE  Unmixed'
  <2>1. Unmixed
    BY <1>1, <1>15 DEF Data
  <2>2. Reached'
    <3> SUFFICES ASSUME NEW v \in 1..m
                 PROVE  \E i \in Loaded : entries'[i].tag = v
      BY <1>4, <1>11 DEF Reached
    <3>1. tagVals[v] \in Owned
      BY <1>2 DEF Owned
    <3>2. PICK i \in Loaded : entries[i].tag = tagVals[v]
      BY <2>1, <3>1 DEF Unmixed, Reached
    <3>3. Place(tagVals[v]) = v
      BY <1>0, <1>2, <1>5, <3>1 DEF OwnInv
    <3> QED
      BY <1>7, <1>9, <3>2, <3>3
  <2>3. Apart'
    BY <1>2, <1>7, <1>9, <1>11, <2>1 DEF Unmixed, Apart, Unloaded
  <2>4. Promised'
    <3> SUFFICES ASSUME NEW i \in Unloaded, entries'[i].offset \in DOMAIN Source'.data
                 PROVE  entries'[i].means = Source'.data[entries'[i].offset]
      BY <1>11 DEF Promised
    <3>1. i \in 1..n
      BY <1>2 DEF Unloaded
    <3>2. Source' = Source
      BY <1>1 DEF Source, NoFile
    <3> QED
      BY <1>9, <2>1, <3>1, <3>2 DEF Unmixed, Promised
  <2>5. FindTagAlwaysHonest'
    BY <1>7, <1>9, <1>11, <1>12, <2>1 DEF Unmixed, FindTagAlwaysHonest
  <2>6. Sharing'
    <3> SUFFICES ASSUME io # NoFile, NEW i \in Loaded, NEW j \in Loaded,
                        entries'[i].offset # 0, entries'[i].offset = entries'[j].offset
                 PROVE  entries'[i].tag = entries'[j].tag
      BY <1>1, <1>11 DEF Sharing
    <3> QED
      BY <1>7, <1>9, <2>1 DEF Unmixed, Sharing
  <2> QED
    BY <2>2, <2>3, <2>4, <2>5, <2>6 DEF Unmixed
<1> QED
  BY <1>1, <1>13, <1>14, <1>15 DEF Data
-----------------------------------------------------------------------------
(* The layout of a file                                                    *)

\* What a sum that grows step by step starts from and grows by.
LEMMA SumExists ==
  ASSUME NEW n \in Nat, NEW base \in Nat, NEW inc \in [1..n -> Nat]
  PROVE  \E q \in [1..(n + 1) -> Nat] :
           q[1] = base /\ \A j \in 1..n : q[j + 1] = q[j] + inc[j]
<1> DEFINE Sum(k, q) == q[1] = base /\ \A j \in 1..k : q[j + 1] = q[j] + inc[j]
           Bad == {k \in 0..n : ~ \E q \in [1..(k + 1) -> Nat] : Sum(k, q)}
<1>1. ASSUME NEW m \in Bad, \A k \in Bad : m <= k
      PROVE  FALSE
  <2>1. m \in 0..n
    OBVIOUS
  <2>2. CASE m = 0
    <3> DEFINE q == [j \in 1..1 |-> base]
    <3>1. q \in [1..(0 + 1) -> Nat] /\ Sum(0, q)
      OBVIOUS
    <3> HIDE DEF Sum, q
    <3> QED
      BY <2>2, <3>1
  <2>3. CASE m # 0
    <3>1. m - 1 \in 0..n /\ m - 1 \notin Bad
      <4>1. m - 1 \in 0..n /\ ~(m <= m - 1)
        BY <2>1, <2>3
      <4> HIDE DEF Bad
      <4> QED
        BY <1>1, <4>1
    <3>2. PICK p \in [1..(m - 1 + 1) -> Nat] : Sum(m - 1, p)
      BY <3>1
    <3>3. m - 1 + 1 = m /\ m \in 1..n
      BY <2>1, <2>3
    <3> DEFINE q == [j \in 1..(m + 1) |-> IF j = m + 1 THEN p[m] + inc[m] ELSE p[j]]
    <3>4. p[m] + inc[m] \in Nat /\ \A j \in 1..m : p[j] \in Nat
      BY <3>2, <3>3
    <3>5. \A j \in 1..(m + 1) : j = m + 1 \/ j \in 1..m
      BY <3>3
    <3>6. q \in [1..(m + 1) -> Nat]
      BY <3>4, <3>5
    <3>7. /\ q[1] = p[1] /\ \A j \in 1..m : q[j] = p[j]
          /\ q[m + 1] = p[m] + inc[m]
      BY <3>3
    <3> HIDE DEF q
    <3>8. ASSUME NEW j \in 1..m
          PROVE  q[j + 1] = q[j] + inc[j]
      <4>1. CASE j = m
        BY <3>3, <3>7, <4>1
      <4>2. CASE j # m
        <5>1. j \in 1..(m - 1) /\ j + 1 \in 1..m
          BY <3>3, <4>2
        <5>2. p[j + 1] = p[j] + inc[j]
          BY <3>2, <5>1
        <5> QED
          BY <3>7, <5>1, <5>2
      <4> QED
        BY <4>1, <4>2
    <3>9. Sum(m, q)
      BY <3>2, <3>7, <3>8
    <3> HIDE DEF Sum
    <3> QED
      BY <3>6, <3>9
  <2> QED
    BY <2>2, <2>3
<1>2. Bad = {}
  <2>1. Bad \subseteq Nat
    OBVIOUS
  <2> HIDE DEF Bad
  <2> QED
    BY <1>1, <2>1, NatMinimum
<1>3. n \in 0..n
  OBVIOUS
<1>4. \E q \in [1..(n + 1) -> Nat] : Sum(n, q)
  BY <1>2, <1>3
<1> QED
  BY <1>4

\* Words the loop over the tags writes for entry j.
Grown(j) == IF j \in Loaded /\ FirstUse(j) = j THEN Size[content[entries[j].tag]] ELSE 0
Base == HeadWords + EntryWords * DirEntries

\* The numbers the layout is made of.
LEMMA LoadedParts ==
  ASSUME DirTypes
  PROVE  /\ IsFiniteSet(Loaded) /\ DirEntries \in Nat /\ Base \in Nat /\ Base > 0
         /\ Len(entries) \in Nat /\ DOMAIN entries = 1..Len(entries) /\ Loaded \subseteq 1..Len(entries)
         /\ \A j \in Loaded : /\ entries[j] \in Entry /\ entries[j].tag \in Tags
                              /\ content[entries[j].tag] \in Contents
                              /\ Size[content[entries[j].tag]] \in Nat \ {0}
         /\ \A j \in 1..Len(entries) : Grown(j) \in Nat
<1>1. Len(entries) \in Nat /\ DOMAIN entries = 1..Len(entries) /\ \A j \in 1..Len(entries) : entries[j] \in Entry
  BY SeqParts DEF DirTypes
<1>2. Loaded \subseteq 1..Len(entries) /\ \A j \in Loaded : entries[j].tag \in Tags
  BY <1>1 DEF Loaded, Entry
<1>3. IsFiniteSet(Loaded) /\ DirEntries \in Nat
  <2>1. IsFiniteSet(1..Len(entries)) /\ Loaded \in SUBSET (1..Len(entries))
    BY <1>1, <1>2, FS_Interval
  <2> QED
    BY <2>1, FS_Subset, FS_CardinalityType DEF DirEntries
<1>4. Base \in Nat /\ Base > 0
  <2>1. /\ HeadWords \in Nat /\ HeadWords > 0 /\ EntryWords \in Nat
    BY SizesAssumption
  <2>2. EntryWords * DirEntries \in Nat
    BY <1>3, <2>1
  <2> QED
    BY <2>1, <2>2 DEF Base
<1>5. \A j \in Loaded : content[entries[j].tag] \in Contents
  BY <1>2 DEF DirTypes
<1>6. \A j \in Loaded : Size[content[entries[j].tag]] \in Nat \ {0}
  BY <1>5, SizesAssumption
<1>7. \A j \in 1..Len(entries) : Grown(j) \in Nat
  BY <1>6 DEF Grown
<1> QED
  BY <1>1, <1>2, <1>3, <1>4, <1>5, <1>6, <1>7

\* FileLength is the sum of what the loop writes.
LEMMA FileLengthIs ==
  ASSUME DirTypes
  PROVE  /\ DOMAIN FileLength = 1..(Len(entries) + 1)
         /\ \A i \in 1..(Len(entries) + 1) : FileLength[i] \in Nat
         /\ FileLength[1] = Base
         /\ \A j \in 1..Len(entries) : FileLength[j + 1] = FileLength[j] + Grown(j)
<1> DEFINE n == Len(entries)
           Laid(q) == q = [i \in 1..(n + 1) |->
                             IF i = 1 THEN Base ELSE q[i - 1] + Grown(i - 1)]
           inc == [j \in 1..n |-> Grown(j)]
<1>1. n \in Nat /\ Base \in Nat /\ \A j \in 1..n : Grown(j) \in Nat
  BY LoadedParts
<1>2. FileLength = CHOOSE q : Laid(q)
  BY DEF FileLength, Grown, Base
<1> HIDE DEF n
<1>3. inc \in [1..n -> Nat] /\ \A j \in 1..n : inc[j] = Grown(j)
  BY <1>1
<1> HIDE DEF inc
<1>4. PICK q \in [1..(n + 1) -> Nat] :
        q[1] = Base /\ \A j \in 1..n : q[j + 1] = q[j] + inc[j]
  BY <1>1, <1>3, SumExists
<1>5. Laid(q)
  <2>1. ASSUME NEW i \in 1..(n + 1), i # 1
        PROVE  q[i] = q[i - 1] + Grown(i - 1)
    <3>1. i - 1 \in 1..n /\ i - 1 + 1 = i
      BY <1>1, <2>1
    <3> QED
      BY <1>3, <1>4, <3>1
  <2> QED
    BY <1>4, <2>1
<1>6. Laid(FileLength)
  <2> HIDE DEF Laid
  <2> QED
    BY <1>2, <1>5
<1>7. /\ DOMAIN FileLength = 1..(n + 1) /\ 1 \in 1..(n + 1)
      /\ \A i \in 1..(n + 1) :
           FileLength[i] = IF i = 1 THEN Base ELSE FileLength[i - 1] + Grown(i - 1)
  <2>1. 1 \in 1..(n + 1)
    BY <1>1
  <2> QED
    BY <1>6, <2>1
<1>8. ASSUME NEW j \in 1..n
      PROVE  FileLength[j + 1] = FileLength[j] + Grown(j)
  <2>1. j + 1 \in 1..(n + 1) /\ j + 1 # 1 /\ j + 1 - 1 = j
    BY <1>1
  <2> QED
    BY <1>7, <2>1
<1> DEFINE Bad == {i \in 1..(n + 1) : FileLength[i] \notin Nat}
<1>9. Bad = {}
  <2>1. ASSUME NEW i \in Bad, \A k \in Bad : i <= k
        PROVE  FALSE
    <3>1. CASE i = 1
      BY <1>1, <1>7, <3>1
    <3>2. CASE i # 1
      <4>1. i - 1 \in 1..n /\ i - 1 + 1 = i /\ i - 1 \in 1..(n + 1) /\ ~(i <= i - 1)
        BY <1>1, <3>2
      <4>2. FileLength[i - 1] \in Nat
        BY <2>1, <4>1
      <4> QED
        BY <1>1, <1>8, <4>1, <4>2
    <3> QED
      BY <3>1, <3>2
  <2>2. Bad \subseteq Nat
    OBVIOUS
  <2> HIDE DEF Bad
  <2> QED
    BY <2>1, <2>2, NatMinimum
<1> QED
  BY <1>7, <1>8, <1>9 DEF n

\* The file never shrinks.
LEMMA FileLengthGrows ==
  ASSUME DirTypes, NEW a \in 1..(Len(entries) + 1), NEW b \in 1..(Len(entries) + 1), a <= b
  PROVE  FileLength[a] <= FileLength[b]
<1> DEFINE n == Len(entries)
           p == FileLength
<1>1. /\ n \in Nat /\ \A i \in 1..(n + 1) : p[i] \in Nat
      /\ \A j \in 1..n : p[j + 1] = p[j] + Grown(j) /\ Grown(j) \in Nat
  BY FileLengthIs, LoadedParts
<1>a. a \in 1..(n + 1) /\ b \in 1..(n + 1)
  OBVIOUS
<1> HIDE DEF n, p
<1> DEFINE Bad == {i \in 1..(n + 1) : a <= i /\ p[i] < p[a]}
<1>2. Bad = {}
  <2>1. ASSUME NEW i \in Bad, \A k \in Bad : i <= k
        PROVE  FALSE
    <3>1. i # a /\ a <= i /\ p[i] < p[a] /\ i \in 1..(n + 1)
      BY <1>1, <1>a
    <3>2. i - 1 \in 1..n /\ i - 1 + 1 = i /\ a <= i - 1 /\ i - 1 \in 1..(n + 1) /\ ~(i <= i - 1)
      BY <1>1, <1>a, <3>1
    <3>3. ~(p[i - 1] < p[a])
      BY <2>1, <3>2
    <3>4. p[i] = p[i - 1] + Grown(i - 1) /\ Grown(i - 1) \in Nat
      BY <1>1, <3>2
    <3>5. p[i - 1] \in Nat /\ p[a] \in Nat /\ p[i] \in Nat
      BY <1>1, <1>a, <3>1, <3>2
    <3> QED
      BY <3>1, <3>3, <3>4, <3>5
  <2>2. Bad \subseteq Nat
    OBVIOUS
  <2> HIDE DEF Bad
  <2> QED
    BY <2>1, <2>2, NatMinimum
<1>3. ~(p[b] < p[a]) /\ p[a] \in Nat /\ p[b] \in Nat
  BY <1>1, <1>a, <1>2
<1>4. p[a] <= p[b]
  BY <1>3
<1> QED
  BY <1>4 DEF p

\* The entries the data is written for.
Firsts == {i \in Loaded : FirstUse(i) = i}

\* Entries of one tag have one first use.
LEMMA FirstUseIs ==
  ASSUME DirTypes, NEW i \in Loaded
  PROVE  /\ FirstUse(i) \in Firsts /\ entries[FirstUse(i)].tag = entries[i].tag
         /\ \A k \in Loaded : entries[k].tag = entries[i].tag => FirstUse(k) = FirstUse(i)
<1> DEFINE Uses(k) == {j \in Loaded : entries[j].tag = entries[k].tag}
           First(k, j) == /\ j \in Loaded /\ entries[j].tag = entries[k].tag
                          /\ \A u \in Loaded : entries[u].tag = entries[k].tag => j <= u
<1>1. Loaded \subseteq Nat
  BY LoadedParts
<1>2. ASSUME NEW k \in Loaded
      PROVE  First(k, FirstUse(k))
  <2>1. Uses(k) \subseteq Nat /\ Uses(k) # {}
    BY <1>1
  <2>2. PICK m \in Uses(k) : \A u \in Uses(k) : m <= u
    <3> HIDE DEF Uses
    <3> QED
      BY <2>1, NatMinimum
  <2>3. \E j \in Loaded : /\ entries[j].tag = entries[k].tag
                          /\ \A u \in Loaded : entries[u].tag = entries[k].tag => j <= u
    BY <2>2
  <2> QED
    BY <2>3 DEF FirstUse
<1>3. ASSUME NEW k \in Loaded, entries[k].tag = entries[i].tag
      PROVE  FirstUse(k) = FirstUse(i)
  <2>1. First(k, FirstUse(k)) /\ First(i, FirstUse(i))
    BY <1>2
  <2>2. FirstUse(k) <= FirstUse(i) /\ FirstUse(i) <= FirstUse(k)
    BY <1>3, <2>1
  <2>3. FirstUse(k) \in Nat /\ FirstUse(i) \in Nat
    BY <1>1, <2>1
  <2> QED
    BY <2>2, <2>3
<1>4. FirstUse(i) \in Loaded /\ entries[FirstUse(i)].tag = entries[i].tag
  BY <1>2
<1>5. FirstUse(FirstUse(i)) = FirstUse(i)
  BY <1>3, <1>4
<1> QED
  BY <1>3, <1>4, <1>5 DEF Firsts

\* The data of different tags lie apart, past the directory.
LEMMA PlacesApart ==
  ASSUME DirTypes, NEW a \in Firsts, NEW b \in Firsts
  PROVE  /\ FileLength[a] \in Nat /\ Base <= FileLength[a]
         /\ a < b => FileLength[a] + Size[content[entries[a].tag]] <= FileLength[b]
         /\ FileLength[a] = FileLength[b] => a = b
<1> DEFINE n == Len(entries)
           p == FileLength
           s(k) == Size[content[entries[k].tag]]
<1>1. /\ n \in Nat /\ a \in 1..n /\ b \in 1..n
      /\ s(a) \in Nat /\ s(a) > 0 /\ s(b) \in Nat /\ s(b) > 0
      /\ Base \in Nat
    BY LoadedParts DEF Firsts
<1>2. /\ 1 \in 1..(n + 1) /\ a \in 1..(n + 1) /\ b \in 1..(n + 1)
      /\ a + 1 \in 1..(n + 1) /\ b + 1 \in 1..(n + 1) /\ 1 <= a
  BY <1>1
<1>3. /\ p[a] \in Nat /\ p[b] \in Nat /\ p[1] = Base
      /\ p[a + 1] = p[a] + s(a) /\ p[b + 1] = p[b] + s(b)
  BY <1>1, <1>2, FileLengthIs DEF Grown, Firsts
<1>4. p[1] <= p[a]
  BY <1>2, FileLengthGrows
<1>5. a < b => p[a + 1] <= p[b]
  <2>1. a < b => a + 1 <= b
    BY <1>1
  <2> QED
    BY <1>2, <2>1, FileLengthGrows
<1>6. b < a => p[b + 1] <= p[a]
  <2>1. b < a => b + 1 <= a
    BY <1>1
  <2> QED
    BY <1>2, <2>1, FileLengthGrows
<1> HIDE DEF n, p, s
<1>7. /\ p[a] \in Nat /\ Base <= p[a] /\ (a < b => p[a] + s(a) <= p[b])
  BY <1>3, <1>4, <1>5
<1>8. p[a] = p[b] => a = b
  <2>1. a < b \/ b < a \/ a = b
    BY <1>1
  <2>2. a < b => p[a] # p[b]
    BY <1>1, <1>3, <1>5
  <2>3. b < a => p[a] # p[b]
    BY <1>1, <1>3, <1>6
  <2> QED
    BY <2>1, <2>2, <2>3
<1> QED
  BY <1>7, <1>8 DEF p, s

\* The loaded entries are numbered without gaps.
LEMMA DirIndexIs ==
  ASSUME DirTypes
  PROVE  /\ \A i \in Loaded : DirIndex(i) \in 1..Cardinality(Loaded)
         /\ \A i, j \in Loaded : DirIndex(i) = DirIndex(j) => i = j
         /\ \A r \in 1..Cardinality(Loaded) : \E i \in Loaded : DirIndex(i) = r
<1> DEFINE c == Cardinality(Loaded)
           UpTo(i) == {j \in Loaded : j <= i}
           index == [i \in Loaded |-> DirIndex(i)]
<1>1. IsFiniteSet(Loaded) /\ c \in Nat /\ Loaded \subseteq Nat
  BY LoadedParts DEF DirEntries
<1>2. ASSUME NEW i \in Loaded
      PROVE  /\ IsFiniteSet(UpTo(i)) /\ DirIndex(i) \in Nat /\ DirIndex(i) <= c
             /\ DirIndex(i) # 0
  <2>1. UpTo(i) \in SUBSET Loaded /\ i \in UpTo(i) /\ DirIndex(i) = Cardinality(UpTo(i))
    BY <1>1 DEF DirIndex
  <2> HIDE DEF UpTo
  <2>2. IsFiniteSet(UpTo(i)) /\ Cardinality(UpTo(i)) <= c /\ Cardinality(UpTo(i)) \in Nat
    BY <1>1, <2>1, FS_Subset, FS_CardinalityType
  <2>3. Cardinality(UpTo(i)) # 0
    BY <2>1, <2>2, FS_EmptySet
  <2> QED
    BY <2>1, <2>2, <2>3
<1>3. ASSUME NEW i \in Loaded, NEW j \in Loaded, i < j
      PROVE  DirIndex(i) < DirIndex(j)
  <2>b. i \in Nat /\ j \in Nat /\ \A k \in Loaded : k \in Nat
    BY <1>1
  <2>c. \A k \in Loaded : k <= i => k <= j
    BY <1>3, <2>b
  <2>d. j <= j /\ ~(j <= i)
    BY <1>3, <2>b
  <2>1. UpTo(i) \in SUBSET UpTo(j) /\ j \in UpTo(j) /\ j \notin UpTo(i)
    BY <2>c, <2>d
  <2>2. IsFiniteSet(UpTo(j)) /\ IsFiniteSet(UpTo(i))
    BY <1>2
  <2>3. DirIndex(i) = Cardinality(UpTo(i)) /\ DirIndex(j) = Cardinality(UpTo(j))
    BY DEF DirIndex
  <2>a. UpTo(i) # UpTo(j)
    BY <2>1
  <2> HIDE DEF UpTo
  <2>4. Cardinality(UpTo(i)) <= Cardinality(UpTo(j)) /\ Cardinality(UpTo(i)) # Cardinality(UpTo(j))
    BY <2>1, <2>2, <2>a, FS_Subset
  <2> QED
    <3>1. DirIndex(i) \in Nat /\ DirIndex(j) \in Nat
      BY <1>2
    <3> QED
      BY <2>3, <2>4, <3>1
<1>4. \A i, j \in Loaded : DirIndex(i) = DirIndex(j) => i = j
  <2> SUFFICES ASSUME NEW i \in Loaded, NEW j \in Loaded, DirIndex(i) = DirIndex(j)
               PROVE  i = j
    OBVIOUS
  <2>1. i < j \/ j < i \/ i = j
    BY <1>1
  <2>2. DirIndex(i) \in Nat /\ DirIndex(j) \in Nat
    BY <1>2
  <2> QED
    BY <1>3, <2>1, <2>2
<1>5. \A i \in Loaded : DirIndex(i) \in 1..c
  <2> SUFFICES ASSUME NEW i \in Loaded PROVE DirIndex(i) \in 1..c
    OBVIOUS
  <2>1. DirIndex(i) \in Nat /\ DirIndex(i) <= c /\ DirIndex(i) # 0
    BY <1>2
  <2> HIDE DEF c
  <2> QED
    BY <1>1, <2>1
<1>6. index \in Injection(Loaded, 1..c)
  <2>1. index \in [Loaded -> 1..c]
    BY <1>5
  <2>2. \A i, j \in Loaded : index[i] = index[j] => i = j
    BY <1>4
  <2> HIDE DEF index
  <2> QED
    BY <2>1, <2>2 DEF Injection, IsInjective
<1>7. IsFiniteSet(1..c) /\ Cardinality(1..c) = c
  <2> HIDE DEF c
  <2>1. IsFiniteSet(1..c) /\ Cardinality(1..c) = IF 1 > c THEN 0 ELSE c - 1 + 1
    BY <1>1, FS_Interval
  <2> QED
    BY <1>1, <2>1
<1>8. index \in Surjection(Loaded, 1..c)
  <2>1. Cardinality(Loaded) = Cardinality(1..c)
    BY <1>7
  <2> HIDE DEF index, c
  <2> QED
    BY <1>6, <1>7, <2>1, FS_Injection
<1>9. \A r \in 1..c : \E i \in Loaded : index[i] = r
  <2> HIDE DEF index, c
  <2> QED
    BY <1>8 DEF Surjection
<1> QED
  BY <1>4, <1>5, <1>9
-----------------------------------------------------------------------------
(* Writing                                                                 *)

\* A write gives the loaded entries other places, and only those.
Moved ==
  /\ entries' \in Seq(Entry) /\ DOMAIN entries' = DOMAIN entries
  /\ \A i \in DOMAIN entries :
       entries'[i].tag = entries[i].tag /\ entries'[i].means = entries[i].means
  /\ UNCHANGED <<tagVals, live, content, io, reading>>
  /\ mixed' = Mixed

\* Other places in the file, the same tags.
LEMMA MovedKeeps ==
  ASSUME Data, Moved, IsFile(saved'), ~mixed' => Sharing'
  PROVE  Data'
<1>1. Loaded' = Loaded /\ Unloaded' = Unloaded /\ Owned' = Owned
  BY DEF Moved, Loaded, Unloaded, Owned
<1>2. DirTypes'
  BY DEF Data, DirTypes, Moved, Mixed
<1>3. OwnInv'
  BY <1>1 DEF Data, OwnInv, Moved, Loaded
<1>4. ASSUME ~mixed'
      PROVE  Unmixed'
  <2>1. ~mixed /\ Unloaded = {} /\ Unmixed
    BY <1>4 DEF Data, Moved, Mixed, Unloaded
  <2>2. Reached'
    BY <1>1, <2>1 DEF Unmixed, Reached, Moved, Loaded
  <2>3. FindTagAlwaysHonest'
    BY <1>1, <2>1 DEF Unmixed, FindTagAlwaysHonest, Moved, Loaded
  <2>4. Apart' /\ Promised'
    BY <1>1, <2>1 DEF Apart, Promised
  <2> QED
    BY <1>4, <2>2, <2>3, <2>4 DEF Unmixed
<1> QED
  BY <1>2, <1>3, <1>4 DEF Data

\* An entry with another place.
LEMMA PlacedIs ==
  ASSUME DirTypes, NEW i \in Loaded
  PROVE  /\ Placed(i) \in Entry /\ Blank(i) \in Entry /\ Begun(i) \in Entry
         /\ Placed(i).sig = entries[i].sig
         /\ Placed(i).tag = entries[i].tag /\ Blank(i).tag = entries[i].tag
         /\ Placed(i).means = entries[i].means /\ Blank(i).means = entries[i].means
         /\ Begun(i).tag = entries[i].tag /\ Begun(i).means = entries[i].means
         /\ Placed(i).offset = FileLength[FirstUse(i)] /\ Blank(i).offset = 0
         /\ Begun(i).offset = Placed(i).offset
         /\ Placed(i).size = Size[content[entries[i].tag]]
         /\ Placed(i).offset \in Nat /\ Placed(i).offset >= Base
<1>1. entries[i] \in Entry /\ Size[content[entries[i].tag]] \in Nat
  BY LoadedParts
<1>2. FileLength[FirstUse(i)] \in Nat /\ FileLength[FirstUse(i)] >= Base
  <2>1. FirstUse(i) \in Firsts
    BY FirstUseIs
  <2>2. FileLength[FirstUse(i)] \in Nat /\ Base <= FileLength[FirstUse(i)] /\ Base \in Nat
    BY <2>1, PlacesApart, LoadedParts
  <2> QED
    BY <2>2
<1>3. 0 \in Nat
  OBVIOUS
<1> QED
  BY <1>1, <1>2, <1>3 DEF Placed, Blank, Begun, Entry

\* Entries at one place refer to one tag.
LEMMA PlacedShare ==
  ASSUME DirTypes, NEW i \in Loaded, NEW j \in Loaded, Placed(i).offset = Placed(j).offset
  PROVE  entries[i].tag = entries[j].tag
<1>1. FirstUse(i) \in Firsts /\ FirstUse(j) \in Firsts
  BY FirstUseIs
<1>2. FileLength[FirstUse(i)] = FileLength[FirstUse(j)]
  BY PlacedIs
<1>3. FirstUse(i) = FirstUse(j)
  BY <1>1, <1>2, PlacesApart
<1> QED
  BY <1>3, FirstUseIs

\* Where the loaded entries are all placed or blank, or all of the old file or blank,
\* those at one place still share their tag.
LEMMA WriteFailsKeeps ==
  ASSUME Data, WriteFails
  PROVE  Data' /\ at' = at /\ pc' = pc /\ DOMAIN entries' = DOMAIN entries
<1> DEFINE n == Len(entries)
           c == Cardinality(Loaded)
<1>0. DirTypes
  BY DEF Data
<1>1. PICK blanked \in 0..c, placed \in 0..c, begun \in BOOLEAN :
        /\ placed > 0 \/ begun => blanked = c
        /\ entries' = [i \in DOMAIN entries |->
             IF i \in Loaded /\ DirIndex(i) <= placed THEN Placed(i)
             ELSE IF begun /\ i \in Loaded /\ DirIndex(i) = placed + 1 /\ FirstUse(i) = i
             THEN Begun(i)
             ELSE IF i \in Loaded /\ DirIndex(i) <= blanked THEN Blank(i)
             ELSE entries[i]]
  BY DEF WriteFails
<1>2. n \in Nat /\ DOMAIN entries = 1..n /\ Loaded \subseteq 1..n /\ c \in Nat
      /\ \A i \in 1..n : entries[i] \in Entry
  <2>1. n \in Nat /\ DOMAIN entries = 1..n /\ Loaded \subseteq 1..n /\ c \in Nat
    BY <1>0, LoadedParts DEF DirEntries
  <2>2. \A i \in 1..n : entries[i] \in Entry
    BY <1>0, SeqParts DEF DirTypes
  <2> QED
    BY <2>1, <2>2
<1>3. \A i \in Loaded : DirIndex(i) \in Nat /\ DirIndex(i) <= c
  <2>1. \A i \in Loaded : DirIndex(i) \in 1..c
    BY <1>0, DirIndexIs
  <2> HIDE DEF c
  <2> QED
    BY <1>2, <2>1
<1> HIDE DEF n, c
<1>4. \A i \in 1..n : entries'[i] \in {Placed(i), Begun(i), Blank(i), entries[i]}
                      /\ (i \notin Loaded => entries'[i] = entries[i])
  BY <1>1, <1>2
<1>5. DOMAIN entries' = 1..n /\ entries' = [i \in 1..n |-> entries'[i]]
  BY <1>1, <1>2
<1>6. \A i \in 1..n : /\ entries'[i] \in Entry
                      /\ entries'[i].tag = entries[i].tag
                      /\ entries'[i].means = entries[i].means
  <2> SUFFICES ASSUME NEW i \in 1..n
               PROVE  /\ entries'[i] \in Entry
                      /\ entries'[i].tag = entries[i].tag
                      /\ entries'[i].means = entries[i].means
    OBVIOUS
  <2>1. CASE i \in Loaded
    BY <1>0, <1>2, <1>4, <2>1, PlacedIs
  <2>2. CASE i \notin Loaded
    BY <1>2, <1>4, <2>2
  <2> QED
    BY <2>1, <2>2
<1>7. entries' \in Seq(Entry)
  <2>1. entries' \in [1..n -> Entry]
    BY <1>5, <1>6
  <2> QED
    BY <1>2, <2>1, FunctionIsSeq
<1>8. Moved
  BY <1>2, <1>5, <1>6, <1>7 DEF Moved, WriteFails
<1>9. ASSUME ~mixed'
      PROVE  Sharing'
  <2>1. ~mixed /\ Loaded = 1..n /\ Unmixed
    BY <1>2, <1>8, <1>9 DEF Moved, Mixed, Data
  <2>2. Loaded' = Loaded /\ io' = io
    BY <1>2, <1>5, <1>6, <1>8 DEF Loaded, Moved
  <2> SUFFICES ASSUME io # NoFile, NEW i \in Loaded, NEW j \in Loaded,
                      entries'[i].offset # 0, entries'[i].offset = entries'[j].offset
               PROVE  entries'[i].tag = entries'[j].tag
    BY <2>2 DEF Sharing
  <2>3. i \in 1..n /\ j \in 1..n
    BY <1>2
  <2>4. CASE placed > 0 \/ begun
    <3>1. \A k \in Loaded : entries'[k] \in {Placed(k), Begun(k), Blank(k)}
      BY <1>1, <1>2, <1>3, <2>4
    <3>2. Placed(i).offset = Placed(j).offset
      <4>1. \A k \in Loaded : entries'[k].offset = 0 \/ entries'[k].offset = Placed(k).offset
        BY <1>0, <3>1, PlacedIs
      <4> QED
        BY <4>1
    <3>3. entries[i].tag = entries[j].tag
      BY <1>0, <3>2, PlacedShare
    <3> QED
      BY <1>6, <2>3, <3>3
  <2>5. CASE ~(placed > 0 \/ begun)
    <3>1. \A k \in Loaded : DirIndex(k) # 0
      <4>1. \A k \in Loaded : DirIndex(k) \in 1..c
        BY <1>0, DirIndexIs DEF c
      <4> QED
        BY <1>2, <4>1
    <3>2. \A k \in Loaded : ~(DirIndex(k) <= placed)
      BY <1>1, <1>2, <1>3, <2>5, <3>1
    <3>3. \A k \in Loaded : entries'[k] = entries[k] \/ entries'[k] = Blank(k)
      <4>1. ~begun
        BY <2>5
      <4>2. SUFFICES ASSUME NEW k \in Loaded
                     PROVE  entries'[k] = entries[k] \/ entries'[k] = Blank(k)
        OBVIOUS
      <4>3. entries'[k] = IF DirIndex(k) <= blanked THEN Blank(k) ELSE entries[k]
        BY <1>1, <1>2, <3>2, <4>1
      <4> QED
        BY <4>3
    <3>4. entries'[i] = entries[i] /\ entries'[j] = entries[j]
      <4>1. \A k \in Loaded : Blank(k).offset = 0
        BY <1>0, PlacedIs
      <4> QED
        BY <3>3, <4>1
    <3>5. entries[i].tag = entries[j].tag
      BY <2>1, <3>4 DEF Unmixed, Sharing
    <3> QED
      BY <1>6, <2>3, <3>5
  <2> QED
    BY <2>4, <2>5
<1>10. IsFile(saved')
  <2>1. saved' = NoFile
    BY DEF WriteFails
  <2> QED
    BY <1>0, <2>1, SourceIsFile
<1> QED
  BY <1>2, <1>5, <1>8, <1>9, <1>10, MovedKeeps DEF WriteFails

\* What is written: an entry of the directory for each that is loaded, and the
\* data of each tag at the place of its first use.
LEMMA WriteIs ==
  ASSUME DirTypes, Write
  PROVE  /\ Moved
         /\ \A i \in Loaded : entries'[i] = Placed(i)
         /\ Loaded' = Loaded
         /\ saved'.dir \in Seq([sig : Sigs, offset : Nat, size : Nat])
         /\ Len(saved'.dir) = Cardinality(Loaded)
         /\ \A i \in Loaded : saved'.dir[DirIndex(i)] =
              [sig |-> entries[i].sig, offset |-> Placed(i).offset, size |-> Placed(i).size]
         /\ DOMAIN saved'.data = {FileLength[i] : i \in Firsts}
         /\ \A i \in Firsts : saved'.data[FileLength[i]] = content[entries[i].tag]
<1> DEFINE n == Len(entries)
           c == Cardinality(Loaded)
           dir == saved'.dir
           data == saved'.data
           Row(i) == [sig |-> entries[i].sig, offset |-> Placed(i).offset,
                      size |-> Placed(i).size]
           At(r) == CHOOSE j \in Loaded : DirIndex(j) = r
<1>1. /\ entries' = [i \in DOMAIN entries |-> IF i \in Loaded THEN Placed(i) ELSE entries[i]]
      /\ dir = [r \in 1..c |->
           [sig |-> entries'[At(r)].sig, offset |-> entries'[At(r)].offset,
            size |-> entries'[At(r)].size]]
      /\ data = [p \in {FileLength[i] : i \in {j \in Loaded : FirstUse(j) = j}} |->
           content[entries[CHOOSE i \in Loaded :
                             FirstUse(i) = i /\ FileLength[i] = p].tag]]
  BY DEF Write
<1>2. n \in Nat /\ DOMAIN entries = 1..n /\ Loaded \subseteq 1..n /\ c \in Nat
      /\ \A i \in 1..n : entries[i] \in Entry
  <2>1. n \in Nat /\ DOMAIN entries = 1..n /\ Loaded \subseteq 1..n /\ c \in Nat
    BY LoadedParts DEF DirEntries
  <2>2. \A i \in 1..n : entries[i] \in Entry
    BY SeqParts DEF DirTypes
  <2> QED
    BY <2>1, <2>2
<1>3. /\ \A i \in Loaded : DirIndex(i) \in 1..c
      /\ \A i, j \in Loaded : DirIndex(i) = DirIndex(j) => i = j
      /\ \A r \in 1..c : \E i \in Loaded : DirIndex(i) = r
  BY DirIndexIs
<1> HIDE DEF n, c, dir, data
<1>4. /\ DOMAIN entries' = 1..n /\ entries' = [i \in 1..n |-> entries'[i]]
      /\ \A i \in Loaded : entries'[i] = Placed(i)
      /\ \A i \in 1..n : i \notin Loaded => entries'[i] = entries[i]
  BY <1>1, <1>2
<1>5. \A i \in 1..n : /\ entries'[i] \in Entry
                      /\ entries'[i].tag = entries[i].tag
                      /\ entries'[i].means = entries[i].means
  <2> SUFFICES ASSUME NEW i \in 1..n
               PROVE  /\ entries'[i] \in Entry
                      /\ entries'[i].tag = entries[i].tag
                      /\ entries'[i].means = entries[i].means
    OBVIOUS
  <2>1. CASE i \in Loaded
    BY <1>4, <2>1, PlacedIs
  <2>2. CASE i \notin Loaded
    BY <1>2, <1>4, <2>2
  <2> QED
    BY <2>1, <2>2
<1>6. entries' \in Seq(Entry)
  <2>1. entries' \in [1..n -> Entry]
    BY <1>4, <1>5
  <2> QED
    BY <1>2, <2>1, FunctionIsSeq
<1>7. Moved
  BY <1>2, <1>4, <1>5, <1>6 DEF Moved, Write
<1>8. Loaded' = Loaded
  BY <1>2, <1>4, <1>5 DEF Loaded
<1>9. ASSUME NEW i \in Loaded
      PROVE  At(DirIndex(i)) = i /\ DirIndex(i) \in 1..c /\ dir[DirIndex(i)] = Row(i)
  <2>1. \E j \in Loaded : DirIndex(j) = DirIndex(i)
    OBVIOUS
  <2>2. At(DirIndex(i)) \in Loaded /\ DirIndex(At(DirIndex(i))) = DirIndex(i)
    BY <2>1
  <2>3. At(DirIndex(i)) = i
    BY <1>3, <2>2
  <2>4. DirIndex(i) \in 1..c
    BY <1>3
  <2>5. entries'[i] = Placed(i) /\ Placed(i).sig = entries[i].sig
    BY <1>4, PlacedIs
  <2>6. dir[DirIndex(i)] =
          [sig |-> entries'[At(DirIndex(i))].sig, offset |-> entries'[At(DirIndex(i))].offset,
           size |-> entries'[At(DirIndex(i))].size]
    <3> HIDE DEF At
    <3> QED
      BY <1>1, <2>4
  <2> HIDE DEF At
  <2> QED
    BY <2>3, <2>4, <2>5, <2>6
<1>10. dir \in Seq([sig : Sigs, offset : Nat, size : Nat]) /\ Len(dir) = c
  <2>1. ASSUME NEW r \in 1..c
        PROVE  dir[r] \in [sig : Sigs, offset : Nat, size : Nat]
    <3>1. PICK i \in Loaded : DirIndex(i) = r
      BY <1>3
    <3>2. dir[r] = Row(i)
      BY <1>9, <3>1
    <3>3. Placed(i) \in Entry /\ entries[i].sig = Placed(i).sig
      BY PlacedIs
    <3> QED
      BY <3>2, <3>3 DEF Entry
  <2>2. dir = [r \in 1..c |-> dir[r]]
    BY <1>1
  <2>3. dir \in [1..c -> [sig : Sigs, offset : Nat, size : Nat]]
    BY <2>1, <2>2
  <2> QED
    BY <1>2, <2>3, FunctionIsSeq
<1>11. DOMAIN data = {FileLength[i] : i \in Firsts}
  BY <1>1 DEF Firsts
<1>12. ASSUME NEW i \in Firsts
       PROVE  data[FileLength[i]] = content[entries[i].tag]
  <2> DEFINE k == CHOOSE j \in Loaded : FirstUse(j) = j /\ FileLength[j] = FileLength[i]
  <2>1. \E j \in Loaded : FirstUse(j) = j /\ FileLength[j] = FileLength[i]
    BY DEF Firsts
  <2>2. k \in Firsts /\ FileLength[k] = FileLength[i]
    BY <2>1 DEF Firsts
  <2>3. data[FileLength[i]] = content[entries[k].tag]
    BY <1>1 DEF Firsts
  <2> HIDE DEF k
  <2>4. k = i
    BY <2>2, PlacesApart
  <2> QED
    BY <2>3, <2>4
<1> QED
  BY <1>4, <1>7, <1>8, <1>9, <1>10, <1>11, <1>12 DEF dir, data, c

\* The file written is one that can be read.
LEMMA WriteKeeps ==
  ASSUME Data, Write
  PROVE  Data' /\ at' = at /\ pc' = pc /\ DOMAIN entries' = DOMAIN entries
<1>0. DirTypes
  BY DEF Data
<1>1. Moved /\ Loaded' = Loaded /\ \A i \in Loaded : entries'[i] = Placed(i)
  BY <1>0, WriteIs
<1>2. Sharing'
  <2> SUFFICES ASSUME NEW i \in Loaded, NEW j \in Loaded,
                      entries'[i].offset = entries'[j].offset
               PROVE  entries'[i].tag = entries'[j].tag
    BY <1>1 DEF Sharing
  <2>1. entries[i].tag = entries[j].tag
    BY <1>0, <1>1, PlacedShare
  <2> QED
    BY <1>0, <1>1, <2>1, PlacedIs
<1>3. IsFile(saved')
  <2>1. /\ saved'.dir \in Seq([sig : Sigs, offset : Nat, size : Nat])
        /\ DOMAIN saved'.data = {FileLength[i] : i \in Firsts}
        /\ \A i \in Firsts : saved'.data[FileLength[i]] = content[entries[i].tag]
    BY <1>0, WriteIs
  <2>2. \A i \in Firsts : FileLength[i] \in Nat \ {0} /\ content[entries[i].tag] \in Contents
    <3> SUFFICES ASSUME NEW i \in Firsts
                 PROVE  FileLength[i] \in Nat \ {0} /\ content[entries[i].tag] \in Contents
      OBVIOUS
    <3>1. FileLength[i] \in Nat /\ Base <= FileLength[i] /\ Base \in Nat /\ Base > 0
      BY <1>0, PlacesApart, LoadedParts
    <3>2. content[entries[i].tag] \in Contents
      BY <1>0, LoadedParts DEF Firsts
    <3> QED
      BY <3>1, <3>2
  <2> QED
    BY <2>1, <2>2 DEF IsFile
<1> QED
  BY <1>1, <1>2, <1>3, MovedKeeps DEF Write, Moved
-----------------------------------------------------------------------------
(* The inductive invariant                                                 *)

\* A profile starts empty.
LEMMA InitHolds == Init => IInv
<1> SUFFICES ASSUME Init PROVE IInv
  OBVIOUS
<1>1. /\ pc = "idle" /\ at = 0 /\ entries = << >> /\ tagVals = << >> /\ live = {}
      /\ content \in [Tags -> {CHOOSE c \in Contents : TRUE}]
      /\ io = NoFile /\ reading = NoFile /\ saved = NoFile /\ mixed = FALSE
  BY DEF Init
<1>2. (CHOOSE c \in Contents : TRUE) \in Contents
  BY FilesAssumption
<1>3. content \in [Tags -> Contents]
  BY <1>1, <1>2
<1>4. IsFile(NoFile)
  BY DEF IsFile, NoFile
<1>5. DirTypes
  <2>1. entries \in Seq(Entry) /\ tagVals \in Seq(Tags) /\ live \subseteq Tags
    BY <1>1
  <2>2. IsFile(reading) /\ IsFile(saved) /\ io \in Files \cup {NoFile} /\ mixed \in BOOLEAN
    BY <1>1, <1>4
  <2> QED
    BY <1>3, <2>1, <2>2 DEF DirTypes
<1>6. Loaded = {} /\ Unloaded = {} /\ Owned = {}
  <2>1. entries = << >> /\ tagVals = << >>
    BY <1>1
  <2> QED
    BY <2>1 DEF Loaded, Unloaded, Owned
<1>7. OwnInv
  <2>1. DOMAIN tagVals = {}
    BY <1>1
  <2> QED
    BY <1>6, <2>1 DEF OwnInv
<1>8. Unmixed
  BY <1>6 DEF Unmixed, Reached, Apart, Promised, FindTagAlwaysHonest, Sharing
<1>9. LoopInv
  BY <1>1 DEF LoopInv
<1> QED
  BY <1>5, <1>7, <1>8, <1>9 DEF IInv

\* Between two calls the loop is at rest, and the file read is the one attached.
LEMMA IdleIs ==
  ASSUME IInv
  PROVE  /\ Data /\ Len(entries) \in Nat
         /\ pc = "idle" => at = 0 /\ Source = io
         /\ pc # "read" => Source = io
         /\ pc = "read" => io = NoFile /\ Source = reading
         /\ IsFile(reading) /\ IsFile(saved) /\ IsFile(io) /\ IsFile(NoFile)
<1>1. DirTypes /\ LoopInv /\ Data
  BY DEF IInv, Data
<1>2. Len(entries) \in Nat
  BY <1>1, SeqParts DEF DirTypes
<1> QED
  BY <1>1, <1>2, SourceIsFile DEF LoopInv, Source, DirTypes

\* A call that leaves the loop at rest.
LEMMA RestKeeps ==
  ASSUME IInv, pc = "idle", Data', at' = at, pc' = pc
  PROVE  IInv'
<1>1. LoopInv'
  BY DEF IInv, LoopInv
<1> QED
  BY <1>1 DEF IInv, Data

\* Attach and Read leave nothing of the old directory.
LEMMA OpenKeeps ==
  ASSUME IInv, NEW f, IsFile(f), (f \in Files /\ Attach(f)) \/ Read(f)
  PROVE  IInv'
<1>1. Data /\ IsFile(reading) /\ IsFile(NoFile) /\ pc = "idle" /\ at = 0
  BY IdleIs DEF Attach, Read
<1>2. CASE f \in Files /\ Attach(f)
  <2>1. /\ ReadBasic(f) /\ io' = f /\ saved' = NoFile /\ content' = content
        /\ mixed' = (mixed /\ entries = << >>) /\ pc' = pc /\ at' = at /\ reading' = reading
    BY <1>2 DEF Attach
  <2>2. Source' = f
    BY <1>1, <2>1 DEF Source
  <2>3. Data'
    BY <1>1, <1>2, <2>1, <2>2, ReadBasicKeeps
  <2> QED
    BY <1>1, <2>1, <2>3, RestKeeps
<1>3. CASE Read(f)
  <2>1. /\ ReadBasic(f) /\ io' = NoFile /\ saved' = NoFile /\ content' = content
        /\ mixed' = (mixed /\ entries = << >>) /\ pc' = "read" /\ at' = 1 /\ reading' = f
    BY <1>3 DEF Read
  <2>2. Source' = f
    BY <2>1 DEF Source
  <2>3. Data' /\ Len(entries') \in Nat
    BY <1>1, <2>1, <2>2, ReadBasicKeeps
  <2>4. LoopInv'
    BY <2>1, <2>3 DEF LoopInv
  <2> QED
    BY <2>3, <2>4 DEF IInv, Data
<1> QED
  BY <1>2, <1>3

\* A file that is no profile leaves an empty directory.
LEMMA AttachFailsKeeps ==
  ASSUME IInv, AttachFails
  PROVE  IInv'
<1>1. /\ pc = "idle" /\ Cleanup /\ saved' = NoFile /\ mixed' = FALSE
      /\ pc' = pc /\ at' = at /\ content' = content /\ reading' = reading
  BY DEF AttachFails
<1>2. Data'
  BY <1>1, IdleIs, CleanupKeeps
<1> QED
  BY <1>1, <1>2, RestKeeps

\* The loop starts before the first entry.
LEMMA LoopStartKeeps ==
  ASSUME IInv, NEW mode \in {"full", "shallow"}, LoadTags(mode)
  PROVE  IInv'
<1>1. /\ pc = "idle" /\ pc' = mode /\ at' = 1 /\ saved' = NoFile
      /\ UNCHANGED <<entries, tagVals, live, content, io, reading, mixed>>
  BY DEF LoadTags
<1>2. Source' = Source
  BY <1>1 DEF Source
<1>3. Data'
  BY <1>1, <1>2, IdleIs, SameDirectoryKeeps
<1>4. LoopInv'
  BY <1>1, IdleIs DEF LoopInv
<1> QED
  BY <1>3, <1>4 DEF IInv, Data

\* What is not loaded can be loaded no more.
LEMMA DetachKeeps ==
  ASSUME IInv, Detach
  PROVE  IInv'
<1>1. /\ pc = "idle" /\ io' = NoFile /\ saved' = NoFile
      /\ UNCHANGED <<pc, at, entries, tagVals, live, content, reading, mixed>>
  BY DEF Detach
<1>2. Source' = NoFile
  BY <1>1 DEF Source
<1>3. Data'
  BY <1>1, <1>2, IdleIs, SameDirectoryKeeps
<1> QED
  BY <1>1, <1>3, RestKeeps

\* FindTag loads from the attached file.
LEMMA FindTagKeeps ==
  ASSUME IInv, NEW sig, FindTag(sig)
  PROVE  IInv'
<1>1. /\ pc = "idle" /\ GetTag(sig) # 0 /\ LoadTag(GetTag(sig), io)
      /\ saved' = NoFile /\ UNCHANGED <<pc, at, io, reading, mixed>>
  BY DEF FindTag
<1>2. Data /\ DirTypes /\ Source = io /\ IsFile(NoFile)
  BY <1>1, IdleIs DEF Data
<1>3. GetTag(sig) \in DOMAIN entries
  BY <1>1, <1>2, GetTagIs
<1>4. Source' = Source
  BY <1>1 DEF Source
<1>5. Data'
  BY <1>1, <1>2, <1>3, <1>4, LoadTagKeeps
<1> QED
  BY <1>1, <1>5, RestKeeps

\* The loop goes on, with the entry loaded.
LEMMA LoadNextKeeps ==
  ASSUME IInv, LoadNext
  PROVE  IInv'
<1>1. /\ pc # "idle" /\ at \in DOMAIN entries
      /\ at' = at + 1 /\ UNCHANGED <<pc, io, reading, saved, mixed>>
      /\ UNCHANGED <<entries, tagVals, live, content>> \/ LoadTag(at, Source)
  BY DEF LoadNext
<1>2. Data /\ IsFile(saved) /\ IsFile(reading) /\ LoopInv /\ DirTypes
  BY IdleIs DEF IInv
<1>3. Source' = Source
  BY <1>1 DEF Source
<1>4. Data' /\ Len(entries') = Len(entries)
  <2>1. CASE UNCHANGED <<entries, tagVals, live, content>>
    BY <1>1, <1>2, <1>3, <2>1, SameDirectoryKeeps
  <2>2. CASE LoadTag(at, Source)
    BY <1>1, <1>2, <1>3, <2>2, LoadTagKeeps
  <2> QED
    BY <1>1, <2>1, <2>2
<1>5. at \in 1..Len(entries) /\ Len(entries) \in Nat
  BY <1>1, <1>2, SeqParts DEF DirTypes
<1>6. LoopInv'
  BY <1>1, <1>2, <1>4, <1>5 DEF LoopInv
<1> QED
  BY <1>4, <1>6 DEF IInv, Data

\* The loop goes on, ends, or leaves an empty directory.
LEMMA LoadNextFailsKeeps ==
  ASSUME IInv, LoadNextFails
  PROVE  IInv'
<1>1. /\ pc # "idle" /\ at \in DOMAIN entries
      /\ content' = content /\ saved' = saved /\ mixed' = mixed
  BY DEF LoadNextFails
<1>2. /\ Data /\ IsFile(saved) /\ IsFile(reading) /\ IsFile(NoFile) /\ LoopInv /\ DirTypes
      /\ mixed \in BOOLEAN /\ (pc # "read" => Source = io)
  BY IdleIs DEF IInv, DirTypes
<1>3. CASE pc = "read"
  <2>1. Cleanup /\ pc' = "idle" /\ at' = 0 /\ reading' = NoFile
    BY <1>3 DEF LoadNextFails
  <2>2. Data'
    BY <1>1, <1>2, <2>1, CleanupKeeps
  <2>3. LoopInv'
    BY <2>1 DEF LoopInv
  <2> QED
    BY <2>2, <2>3 DEF IInv, Data
<1>4. CASE pc # "read"
  <2>1. UNCHANGED <<entries, tagVals, live, io>>
    BY <1>4 DEF LoadNextFails
  <2>2. \/ pc = "shallow" /\ pc' = pc /\ at' = at + 1 /\ reading' = reading
        \/ pc' = "idle" /\ at' = 0 /\ reading' = NoFile
    BY <1>4 DEF LoadNextFails
  <2>3. Source' = Source /\ IsFile(reading')
    BY <1>2, <1>4, <2>1, <2>2 DEF Source
  <2>4. Data'
    BY <1>1, <1>2, <2>1, <2>3, SameDirectoryKeeps
  <2>5. at \in 1..Len(entries) /\ Len(entries) \in Nat
    BY <1>1, <1>2, SeqParts DEF DirTypes
  <2>6. LoopInv'
    BY <1>2, <2>1, <2>2, <2>5 DEF LoopInv
  <2> QED
    BY <2>4, <2>6 DEF IInv, Data
<1> QED
  BY <1>3, <1>4

\* The loop comes to rest.
LEMMA LoadDoneKeeps ==
  ASSUME IInv, LoadDone
  PROVE  IInv'
<1>1. /\ pc # "idle" /\ pc' = "idle" /\ at' = 0 /\ reading' = NoFile
      /\ UNCHANGED <<entries, tagVals, live, content, io, saved, mixed>>
  BY DEF LoadDone
<1>2. Source' \in {Source, NoFile}
  BY <1>1, IdleIs DEF Source
<1>3. Data'
  BY <1>1, <1>2, IdleIs, SameDirectoryKeeps
<1>4. LoopInv'
  BY <1>1 DEF LoopInv
<1> QED
  BY <1>3, <1>4 DEF IInv, Data

\* The client attaches a new tag or one the profile owns.
LEMMA AttachTagAny ==
  ASSUME IInv, NEW sig \in Sigs,
         \/ live # Tags /\ \E c \in Contents : AttachTag(sig, FreeTag, c)
         \/ \E g \in Owned : AttachTag(sig, g, content[g])
  PROVE  IInv'
<1>1. Data /\ DirTypes /\ OwnInv
  BY IdleIs DEF IInv
<1>2. PICK g \in Tags, c \in Contents :
        AttachTag(sig, g, c) /\ (g \notin live \/ (g \in Owned /\ c = content[g]))
  <2>1. CASE live # Tags /\ \E c \in Contents : AttachTag(sig, FreeTag, c)
    BY <1>1, <2>1, FreeTagIs DEF DirTypes
  <2>2. CASE \E g \in Owned : AttachTag(sig, g, content[g])
    <3>1. PICK g \in Owned : AttachTag(sig, g, content[g])
      BY <2>2
    <3>2. g \in Tags /\ content[g] \in Contents
      BY <1>1 DEF DirTypes, OwnInv
    <3> QED
      BY <3>1, <3>2
  <2> QED
    BY <2>1, <2>2
<1>3. Data' /\ at' = at /\ pc' = pc
  BY <1>1, <1>2, AttachTagKeeps
<1>4. pc = "idle"
  BY <1>2 DEF AttachTag
<1> QED
  BY <1>3, <1>4, RestKeeps

\* Every step keeps the invariant.
LEMMA NextKeeps == IInv /\ [Next]_vars => IInv'
<1> SUFFICES ASSUME IInv, [Next]_vars PROVE IInv'
  OBVIOUS
<1>0. Data /\ IsFile(saved) /\ IsFile(reading)
  BY IdleIs
<1>1. ASSUME NEW f \in Files, Attach(f) \/ Read(f)
      PROVE  IInv'
  <2>1. IsFile(f)
    BY FilesAssumption
  <2> QED
    BY <1>1, <2>1, OpenKeeps
<1>2. CASE saved # NoFile /\ Read(saved)
  BY <1>0, <1>2, OpenKeeps
<1>3. CASE AttachFails
  BY <1>3, AttachFailsKeeps
<1>4. CASE LoadTags("full") \/ LoadTags("shallow")
  BY <1>4, LoopStartKeeps
<1>5. CASE Detach
  BY <1>5, DetachKeeps
<1>6. ASSUME NEW sig \in Sigs,
             \/ FindTag(sig) \/ DeleteTag(sig)
             \/ live # Tags /\ \E c \in Contents : AttachTag(sig, FreeTag, c)
             \/ \E g \in Owned : AttachTag(sig, g, content[g])
      PROVE  IInv'
  <2>1. CASE FindTag(sig)
    BY <2>1, FindTagKeeps
  <2>2. CASE DeleteTag(sig)
    <3>1. Data' /\ at' = at /\ pc' = pc
      BY <1>0, <2>2, DeleteTagKeeps
    <3>2. pc = "idle"
      BY <2>2 DEF DeleteTag
    <3> QED
      BY <3>1, <3>2, RestKeeps
  <2>3. CASE \/ live # Tags /\ \E c \in Contents : AttachTag(sig, FreeTag, c)
             \/ \E g \in Owned : AttachTag(sig, g, content[g])
    BY <2>3, AttachTagAny
  <2> QED
    BY <1>6, <2>1, <2>2, <2>3
<1>7. CASE Write
  <2>1. Data' /\ at' = at /\ pc' = pc
    BY <1>0, <1>7, WriteKeeps
  <2>2. pc = "idle"
    BY <1>7 DEF Write
  <2> QED
    BY <2>1, <2>2, RestKeeps
<1>8. CASE WriteFails
  <2>1. Data' /\ at' = at /\ pc' = pc
    BY <1>0, <1>8, WriteFailsKeeps
  <2>2. pc = "idle"
    BY <1>8 DEF WriteFails
  <2> QED
    BY <2>1, <2>2, RestKeeps
<1>9. ASSUME NEW lend \in BOOLEAN, Copy(lend)
      PROVE  IInv'
  <2>1. Data' /\ at' = at /\ pc' = pc
    BY <1>0, <1>9, CopyKeeps
  <2>2. pc = "idle"
    BY <1>9 DEF Copy
  <2> QED
    BY <2>1, <2>2, RestKeeps
<1>10. CASE LoadNext
  BY <1>10, LoadNextKeeps
<1>11. CASE LoadNextFails
  BY <1>11, LoadNextFailsKeeps
<1>12. CASE LoadDone
  BY <1>12, LoadDoneKeeps
<1>13. CASE UNCHANGED vars
  <2>1. Data'
    <3>1. /\ UNCHANGED <<entries, tagVals, live, content, mixed>> /\ io' = io
          /\ Source' = Source /\ reading' = reading /\ saved' = saved
      BY <1>13 DEF vars, Source
    <3> QED
      BY <1>0, <3>1, SameDirectoryKeeps
  <2>2. LoopInv'
    BY <1>13 DEF vars, IInv, LoopInv
  <2> QED
    BY <2>1, <2>2 DEF IInv, Data
<1> QED
  BY <1>1, <1>2, <1>3, <1>4, <1>5, <1>6, <1>7, <1>8, <1>9, <1>10, <1>11, <1>12, <1>13
     DEF Next, Client

\* The invariant holds in every state that can be reached.
LEMMA IInvHolds == Spec => []IInv
<1> QED
  BY InitHolds, NextKeeps, PTL DEF Spec
-----------------------------------------------------------------------------
(* The theorems                                                            *)

\* A tag object that is owned once has one place among the owned ones.
LEMMA OwnedOnce ==
  ASSUME DirTypes, OwnInv
  PROVE  Cardinality(Owned) = Len(tagVals)
<1> DEFINE m == Len(tagVals)
<1>1. m \in Nat /\ DOMAIN tagVals = 1..m
  BY SeqParts DEF DirTypes
<1> HIDE DEF m
<1>2. tagVals \in Bijection(1..m, Owned)
  <2>1. tagVals \in [1..m -> Owned]
    <3>1. \A v \in 1..m : tagVals[v] \in Owned
      BY <1>1 DEF Owned
    <3>2. tagVals = [v \in 1..m |-> tagVals[v]]
      BY <1>1 DEF DirTypes
    <3> QED
      BY <3>1, <3>2
  <2>2. \A u, v \in 1..m : tagVals[u] = tagVals[v] => u = v
    BY <1>1 DEF OwnInv
  <2>3. \A g \in Owned : \E v \in 1..m : tagVals[v] = g
    BY <1>1 DEF Owned
  <2> QED
    BY <2>1, <2>2, <2>3 DEF Bijection, Injection, Surjection, IsInjective
<1>3. IsFiniteSet(1..m) /\ Cardinality(1..m) = IF 1 > m THEN 0 ELSE m - 1 + 1
  BY <1>1, FS_Interval
<1>4. Cardinality(1..m) = m
  BY <1>1, <1>3
<1>5. Cardinality(Owned) = Cardinality(1..m)
  BY <1>2, <1>3, FS_Bijection DEF ExistsBijection
<1> QED
  BY <1>4, <1>5 DEF m

\* CIccProfile owns the tags its entries refer to, each once, and each is alive;
\* until a half-loaded profile is written, none is out of reach of every entry.
THEOREM EntriesStayOwned == Spec => []EntriesOwned
<1>1. IInv => EntriesOwned
  <2> SUFFICES ASSUME IInv PROVE EntriesOwned
    OBVIOUS
  <2>1. DirTypes /\ OwnInv /\ LoopInv
    BY DEF IInv
  <2>2. TypeOK
    <3>1. Len(entries) \in Nat /\ DOMAIN entries = 1..Len(entries)
      BY <2>1, SeqParts DEF DirTypes
    <3>2. \A i \in DOMAIN entries : entries[i] \in Entry
      BY <2>1, SeqParts DEF DirTypes
    <3>3. \A i \in DOMAIN entries :
            /\ entries[i].sig \in Sigs /\ entries[i].means \in Contents \cup {Nothing}
            /\ entries[i].offset \in Nat /\ entries[i].size \in Nat
            /\ entries[i].tag \in Tags \cup {NoTag}
      BY <3>2 DEF Entry
    <3>4. at \in 0..(Len(entries) + 1)
      BY <2>1, <3>1 DEF LoopInv
    <3> QED
      BY <2>1, <3>3, <3>4 DEF TypeOK, DirTypes, LoopInv
  <2>3. Cardinality(Owned) = Len(tagVals)
    BY <2>1, OwnedOnce
  <2>4. ~mixed => Reached
    BY DEF IInv, Unmixed
  <2> QED
    BY <2>1, <2>2, <2>3, <2>4 DEF EntriesOwned, OwnInv, Reached
<1> QED
  BY <1>1, IInvHolds, PTL

\* FindTag gives what the file or the client put under the signature, until a
\* half-loaded profile is written.
THEOREM FindTagIsHonest == Spec => []FindTagHonest
<1>1. IInv => FindTagHonest
  BY DEF IInv, Unmixed, FindTagHonest
<1> QED
  BY <1>1, IInvHolds, PTL

\* Entries that share their data in the attached file share their tag once it is
\* loaded, whichever is asked for first, until a half-loaded profile is written.
THEOREM SharingIsKept == Spec => []SharingKept
<1>1. IInv => SharingKept
  BY DEF IInv, Unmixed, Sharing, SharingKept
<1> QED
  BY <1>1, IInvHolds, PTL

\* As many places hold data as there are tags.
LEMMA OneCopyEach ==
  ASSUME DirTypes
  PROVE  Cardinality({FileLength[i] : i \in Firsts})
           = Cardinality({entries[i].tag : i \in Loaded})
<1> DEFINE places == {FileLength[i] : i \in Firsts}
           tags == {entries[i].tag : i \in Loaded}
           f == [i \in Firsts |-> FileLength[i]]
           g == [i \in Firsts |-> entries[i].tag]
<1>1. IsFiniteSet(Firsts)
  <2>1. IsFiniteSet(Loaded) /\ Firsts \in SUBSET Loaded
    BY LoadedParts DEF Firsts
  <2> QED
    BY <2>1, FS_Subset
<1>2. f \in Bijection(Firsts, places)
  <2>1. f \in [Firsts -> places] /\ \A p \in places : \E i \in Firsts : f[i] = p
    OBVIOUS
  <2>2. \A i, j \in Firsts : f[i] = f[j] => i = j
    BY PlacesApart
  <2> HIDE DEF f, places
  <2> QED
    BY <2>1, <2>2 DEF Bijection, Injection, Surjection, IsInjective
<1>3. g \in Bijection(Firsts, tags)
  <2>1. g \in [Firsts -> tags]
    BY DEF Firsts
  <2>2. \A t \in tags : \E i \in Firsts : g[i] = t
    <3> SUFFICES ASSUME NEW i \in Loaded PROVE \E j \in Firsts : g[j] = entries[i].tag
      OBVIOUS
    <3>1. FirstUse(i) \in Firsts /\ entries[FirstUse(i)].tag = entries[i].tag
      BY FirstUseIs
    <3> QED
      BY <3>1
  <2>3. \A i, j \in Firsts : g[i] = g[j] => i = j
    <3> SUFFICES ASSUME NEW i \in Firsts, NEW j \in Firsts, entries[i].tag = entries[j].tag
                 PROVE  i = j
      OBVIOUS
    <3>1. i \in Loaded /\ j \in Loaded /\ FirstUse(i) = i /\ FirstUse(j) = j
      BY DEF Firsts
    <3>2. FirstUse(j) = FirstUse(i)
      BY <3>1, FirstUseIs
    <3> QED
      BY <3>1, <3>2
  <2> HIDE DEF g, tags
  <2> QED
    BY <2>1, <2>2, <2>3 DEF Bijection, Injection, Surjection, IsInjective
<1> HIDE DEF f, g, places, tags
<1>4. Cardinality(places) = Cardinality(Firsts)
  BY <1>1, <1>2, FS_Bijection DEF ExistsBijection
<1>5. Cardinality(tags) = Cardinality(Firsts)
  BY <1>1, <1>3, FS_Bijection DEF ExistsBijection
<1> QED
  BY <1>4, <1>5 DEF places, tags

\* What Write writes is laid out as it should be.
LEMMA WriteReadsBack ==
  ASSUME DirTypes, Write
  PROVE  SavedReadsBack
<1> DEFINE c == Cardinality(Loaded)
           dir == saved'.dir
           data == saved'.data
           s(i) == Size[content[entries[i].tag]]
<1>1. /\ dir \in Seq([sig : Sigs, offset : Nat, size : Nat]) /\ Len(dir) = c
      /\ \A i \in Loaded : dir[DirIndex(i)] =
           [sig |-> entries[i].sig, offset |-> Placed(i).offset, size |-> Placed(i).size]
      /\ DOMAIN data = {FileLength[i] : i \in Firsts}
      /\ \A i \in Firsts : data[FileLength[i]] = content[entries[i].tag]
  BY WriteIs
<1>2. DOMAIN dir = 1..c /\ c \in Nat
  BY <1>1, LoadedParts DEF DirEntries
<1>3. \A r \in 1..c : \E i \in Loaded : DirIndex(i) = r
  BY DirIndexIs
<1> HIDE DEF c, dir, data
<1>4. ASSUME NEW i \in Loaded
      PROVE  /\ dir[DirIndex(i)].sig = entries[i].sig
             /\ dir[DirIndex(i)].offset = FileLength[FirstUse(i)]
             /\ dir[DirIndex(i)].size = s(FirstUse(i))
             /\ FirstUse(i) \in Firsts
             /\ content[entries[FirstUse(i)].tag] = content[entries[i].tag]
  <2>1. FirstUse(i) \in Firsts /\ entries[FirstUse(i)].tag = entries[i].tag
    BY FirstUseIs
  <2>2. Placed(i).offset = FileLength[FirstUse(i)] /\ Placed(i).size = s(i)
    BY PlacedIs
  <2>3. dir[DirIndex(i)] =
          [sig |-> entries[i].sig, offset |-> Placed(i).offset, size |-> Placed(i).size]
    BY <1>1
  <2>4. content[entries[FirstUse(i)].tag] = content[entries[i].tag] /\ s(FirstUse(i)) = s(i)
    BY <2>1
  <2> HIDE DEF s
  <2> QED
    BY <2>1, <2>2, <2>3, <2>4
<1>5. ASSUME NEW i \in Loaded
      PROVE  /\ dir[DirIndex(i)].sig = entries[i].sig
             /\ dir[DirIndex(i)].offset \in DOMAIN data
             /\ data[dir[DirIndex(i)].offset] = content[entries[i].tag]
             /\ dir[DirIndex(i)].offset >= HeadWords + EntryWords * Len(dir)
  <2>1. FileLength[FirstUse(i)] \in Nat /\ Base <= FileLength[FirstUse(i)] /\ Base \in Nat
    BY <1>4, PlacesApart, LoadedParts
  <2>2. Base = HeadWords + EntryWords * Len(dir)
    BY <1>1 DEF Base, DirEntries, c
  <2>3. dir[DirIndex(i)].offset >= Base
    BY <1>4, <2>1
  <2>4. /\ dir[DirIndex(i)].sig = entries[i].sig
        /\ dir[DirIndex(i)].offset = FileLength[FirstUse(i)] /\ FirstUse(i) \in Firsts
        /\ content[entries[FirstUse(i)].tag] = content[entries[i].tag]
    BY <1>4
  <2>5. /\ FileLength[FirstUse(i)] \in DOMAIN data
        /\ data[FileLength[FirstUse(i)]] = content[entries[FirstUse(i)].tag]
    BY <1>1, <2>4
  <2> QED
    BY <2>2, <2>3, <2>4, <2>5
<1>6. ASSUME NEW a \in Firsts, NEW b \in Firsts, a < b
      PROVE  (FileLength[a]..(FileLength[a] + s(a) - 1))
               \cap (FileLength[b]..(FileLength[b] + s(b) - 1)) = {}
  <2>1. /\ FileLength[a] \in Nat /\ FileLength[b] \in Nat
        /\ FileLength[a] + s(a) <= FileLength[b]
    BY <1>6, PlacesApart
  <2>2. s(a) \in Nat /\ s(b) \in Nat
    BY LoadedParts DEF Firsts
  <2> HIDE DEF s
  <2> QED
    BY <2>1, <2>2
<1>7. ASSUME NEW r \in DOMAIN dir, NEW q \in DOMAIN dir, dir[r].offset # dir[q].offset
      PROVE  Extent(dir[r]) \cap Extent(dir[q]) = {}
  <2>1. PICK i \in Loaded, j \in Loaded : DirIndex(i) = r /\ DirIndex(j) = q
    BY <1>2, <1>3
  <2> DEFINE a == FirstUse(i)
             b == FirstUse(j)
  <2>2. /\ a \in Firsts /\ b \in Firsts
        /\ dir[r].offset = FileLength[a] /\ dir[r].size = s(a)
        /\ dir[q].offset = FileLength[b] /\ dir[q].size = s(b)
    BY <1>4, <2>1
  <2> HIDE DEF a, b, s
  <2>3. a # b /\ a \in Nat /\ b \in Nat
    BY <1>7, <2>2, LoadedParts DEF Firsts
  <2>4. a < b \/ b < a
    BY <2>3
  <2>5. /\ Extent(dir[r]) = FileLength[a]..(FileLength[a] + s(a) - 1)
        /\ Extent(dir[q]) = FileLength[b]..(FileLength[b] + s(b) - 1)
    BY <2>2 DEF Extent
  <2>6. CASE a < b
    BY <1>6, <2>2, <2>5, <2>6
  <2>7. CASE b < a
    <3>1. Extent(dir[q]) \cap Extent(dir[r]) = {}
      BY <1>6, <2>2, <2>5, <2>7
    <3> QED
      BY <3>1
  <2> QED
    BY <2>4, <2>6, <2>7
<1>8. Cardinality(DOMAIN data) = Cardinality({entries[i].tag : i \in Loaded})
  BY <1>1, OneCopyEach
<1> QED
  BY <1>1, <1>5, <1>7, <1>8 DEF SavedReadsBack, c, dir, data

\* A profile that CIccProfile::Write wrote to the end reads back as what it was:
\* every loaded tag under its signature, no data over the directory or over other
\* data, and shared data once.
THEOREM WritesAreFaithful == Spec => WriteFaithful
<1>1. IInv /\ [Next]_vars => [SavedReadsBack]_vars
  <2> SUFFICES ASSUME IInv, Next, saved' \notin {saved, NoFile} PROVE SavedReadsBack
    BY DEF SavedReadsBack
  <2>1. Write
    BY DEF Next, Client, Attach, Read, AttachFails, LoadTags, Detach, FindTag, DeleteTag,
           AttachTag, WriteFails, Copy, LoadNext, LoadNextFails, LoadDone
  <2> QED
    BY <2>1, WriteReadsBack DEF IInv
<1> QED
  BY <1>1, IInvHolds, PTL DEF Spec, WriteFaithful
=============================================================================
