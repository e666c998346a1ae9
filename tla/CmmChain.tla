------------------------------- MODULE CmmChain -------------------------------
(***************************************************************************)
(* The life of a colour management module (CIccCmm, IccProfLib/IccCmm.cpp):*)
(* profiles are added one after the other, each linked to the one before   *)
(* by its colour spaces; Begin inserts the range and PCS conversions the   *)
(* chain needs, checks its ends and makes the object that applies it; and  *)
(* the destructor frees what the CMM owns.  One thread, a call is one step.*)
(*                                                                         *)
(* A transform is known by the spaces it reads and writes, by what it      *)
(* reports about itself and by the profile it uses and perhaps owns.       *)
(* Pixels, intents, hints, spectral PCSs, previews, BRDFs and named colours*)
(* are left out.  What depends on tag data (a tag that is missing, a       *)
(* connection that is the identity, a step that cannot be allocated) has   *)
(* any outcome.                                                            *)
(***************************************************************************)
EXTENDS Integers, Sequences, FiniteSets, SequencesExt

CONSTANTS
  Profile,    \* the profiles there are: name -> header and tags, see below
  Sources,    \* nSrcSpace and
  Dests,      \* nDestSpace of the constructor
  McsSamples, \* the channels of the MCS of those that have one
  MaxAdds,    \* bound on the calls of AddXform
  MaxRefused, \* bound on those of them that are refused
  MaxBegins   \* bound on the calls of Begin that get to work

Unknown == "unknown"   \* icSigUnknownData
PcsSpaces == {"XYZ", "Lab"}
Samples == [unknown |-> 0, none |-> 0, gamt |-> 1, RGB |-> 3, XYZ |-> 3,
            Lab |-> 3, CMYK |-> 4, MCS |-> McsSamples]
Spaces == DOMAIN Samples
Classes == {"input", "output", "link", "abstract", "mid", "mvis", "mlnk"}
McsClasses == {"mid", "mvis", "mlnk"}

\* mcs: the profile has an MCS and the tag that connects its class to it.
\* extended, hToS: the icExtendedRangePCS flag, and a usable HToSx tag.
\* A device side that is XYZ or Lab, which the code tells from the PCS, is left out.
ASSUME ProfileAssumption ==
  \A k \in DOMAIN Profile :
    /\ Profile[k] \in [class : Classes, space : Spaces, pcs : Spaces,
                       mcs : BOOLEAN, extended : BOOLEAN, hToS : BOOLEAN]
    /\ Profile[k].space \in PcsSpaces => Profile[k].class = "abstract"
ASSUME BoundsAssumption ==
  /\ McsSamples \in Nat \ {0} /\ Sources \cup Dests \subseteq Spaces
  /\ MaxAdds \in Nat /\ MaxRefused \in Nat /\ MaxBegins \in Nat

VARIABLES
  src, dest,  \* m_nSrcSpace, m_nDestSpace
  last,       \* m_nLastSpace
  lastInput,  \* m_bLastInput
  chain,      \* m_Xforms
  valid,      \* m_bValid
  applied,    \* the transforms m_pApply applies, << >> when it is NULL
  objs,       \* the profile objects handed to the CMM so far
  freed,      \* how often each of them was deleted
  begun,      \* calls of Begin so far, for the bound
  alive,      \* the CMM exists
  lost        \* history: PCS transforms that nothing refers to

endVars == <<src, dest, last, lastInput>>
vars == <<endVars, chain, valid, applied, objs, freed, begun, alive, lost>>

(* Transforms *)

Xforms == [kind : {"profile", "hToS", "pcs"}, obj : 0..MaxAdds, owns : BOOLEAN,
           input : BOOLEAN, mcs : {"no", "to", "from"}, gamut : BOOLEAN,
           from : Spaces, to : Spaces]

IsCompatSpace(s, t) == s = t \/ {s, t} \subseteq PcsSpaces

ProfileOf(x) == Profile[objs[x.obj].kind]
IsExtendedPCS(x) == x.kind # "pcs" /\ ProfileOf(x).extended
IsAbstract(x) == x.kind = "hToS" \/ (x.kind = "profile" /\ ProfileOf(x).class = "abstract")
IsMCS(x) == x.mcs # "no"

\* What a transform says of itself.  Only the sample count knows of an MCS source.
GetSrcSpace(x) ==
  IF x.kind # "profile" THEN x.from
  ELSE IF x.input THEN ProfileOf(x).space ELSE ProfileOf(x).pcs
GetDstSpace(x) == x.to

\* The transform CIccXform::Create makes of profile object n, of kind k.
Created(n, k, lut, input) ==
  LET p == Profile[k]
      mcs == IF lut # "mcs" THEN "no"
             ELSE IF p.class \in {"mid", "input"} THEN "to" ELSE "from"
      in == CASE lut = "gamut" -> FALSE
              [] lut = "mcs"   -> p.class # "mlnk"
              [] OTHER         -> input
  IN  [kind |-> "profile", obj |-> n, owns |-> TRUE, input |-> in, mcs |-> mcs,
       gamut |-> lut = "gamut",
       from |-> CASE mcs = "from" -> "MCS" [] in -> p.space [] OTHER -> p.pcs,
       to |-> CASE lut = "gamut" -> "gamt" [] mcs = "to" -> "MCS"
                [] in -> p.pcs [] OTHER -> p.space]

PcsXform(s, t) ==
  [kind |-> "pcs", obj |-> 0, owns |-> TRUE, input |-> TRUE, mcs |-> "no",
   gamut |-> FALSE, from |-> s, to |-> t]

\* Fault: the conversion believes it owns the profile of its neighbour.
OwningHToS(x) == [x EXCEPT !.kind = "hToS", !.mcs = "no", !.from = ProfileOf(x).pcs]
\* It shares the profile of the transform it follows.
HToSXform(x) ==
  [x EXCEPT !.kind = "hToS", !.owns = FALSE, !.mcs = "no", !.from = ProfileOf(x).pcs]
-----------------------------------------------------------------------------
Init ==
  /\ src \in Sources
  /\ dest \in Dests
  /\ last = src
  /\ lastInput \in BOOLEAN
  /\ chain = << >> /\ applied = << >>
  /\ valid = FALSE
  /\ objs = << >> /\ freed = << >>
  /\ begun = 0 /\ lost = 0
  /\ alive = TRUE

(* AddXform *)

\* The LUTs asked for; with a multiplex profile there is no choice.
Luts(k) ==
  CASE Profile[k].class \in McsClasses -> {"mcs"}
    [] Profile[k].class \in {"link", "abstract"} -> {"color"}
    [] OTHER -> {"color", "gamut", "mcs"}

\* A transform other than the first joins on through its PCS, MCS or device
\* side, as the one before left off.
Linkable(k, lut) ==
  \/ lut = "gamut"
  \/ ~lastInput
  \/ lut = "color" /\ Profile[k].class # "link"
  \/ lut = "mcs" /\ chain # << >> /\ Profile[k].class \in {"mvis", "output", "mlnk"}

LinkFrom(k, lut) ==
  CASE lut = "gamut" -> Profile[k].pcs
    [] lut # "gamut" /\ ~lastInput -> Profile[k].space
    [] lut = "color" /\ lastInput -> Profile[k].pcs
    [] lut = "mcs" /\ lastInput -> "MCS"
LinkTo(k, lut) ==
  CASE lut = "gamut" -> "gamt"
    [] lut = "color" /\ ~lastInput -> Profile[k].pcs
    [] lut = "mcs" /\ ~lastInput -> "MCS"
    [] lut = "mcs" /\ lastInput /\ Profile[k].class # "mlnk" -> Profile[k].pcs
    [] OTHER -> Profile[k].space
\* How Create is told to use the profile, and m_bLastInput after it.
AsInput(k, lut) ==
  \/ lut = "gamut" \/ ~lastInput
  \/ Profile[k].class \in {"abstract", "mvis"}
  \/ lut = "mcs" /\ Profile[k].class = "output"

Fits(k, lut) ==
  IF chain = << >> THEN src = Unknown \/ IsCompatSpace(src, LinkFrom(k, lut))
  ELSE IsCompatSpace(last, LinkFrom(k, lut))

\* A profile joining through the MCS has the transform before it created again,
\* through the MCS, from the profile that transform goes on owning.
JoinsByMcs(k, lut) == lut = "mcs" /\ lastInput /\ chain # << >>
TagFound(n, tag) == tag \in objs[n].loaded \/ objs[n].io = "own"
McsConvertible(x) ==
  /\ ProfileOf(x).mcs
  /\ ProfileOf(x).class \notin {"link", "abstract"}
  /\ TagFound(x.obj, "mcs")
Converted(x) == Created(x.obj, objs[x.obj].kind, "mcs", x.input)
Joined(k, lut) ==
  IF JoinsByMcs(k, lut) THEN Front(chain) \o <<Converted(Last(chain))>> ELSE chain

\* The three ways to hand over a profile: read into memory, opened with an IO
\* of its own, or copied by AddXform(CIccProfile&), the caller's IO borrowed.
Ways == {"read", "opened", "borrowed"}
\* Fault: the tags Begin looks for are not read while the IO is there.
NotPreloaded(k) == {}
Preloaded(k) == IF Profile[k].extended THEN {"hToS"} ELSE {}
Tags(k) ==
  {tag \in {"mcs", "hToS"} : IF tag = "mcs" THEN Profile[k].mcs ELSE Profile[k].hToS}
Loaded(k, way, lut) ==
  Tags(k) \cap
    CASE way = "read" -> {"mcs", "hToS"}
      [] way = "opened" -> {lut}
      [] way = "borrowed" -> {lut} \cup Preloaded(k)
Added(k, way, lut) ==
  [kind |-> k, io |-> IF way = "opened" THEN "own" ELSE "none",
   loaded |-> Loaded(k, way, lut)]

\* Profiles are added to a CMM that has not begun.
MayAdd == alive /\ begun = 0 /\ Len(objs) < MaxAdds

\* The copy of a profile without a PCS goes no further.
CopyRefused(k, way) == way = "borrowed" /\ Profile[k].pcs = "none"

FirstEnds(k, lut) ==
  src' = IF chain = << >> /\ src = Unknown THEN LinkFrom(k, lut) ELSE src

AddXform(k, way, lut) ==
  /\ MayAdd
  /\ ~CopyRefused(k, way)
  /\ Linkable(k, lut)
  /\ JoinsByMcs(k, lut) => McsConvertible(Last(chain))
  /\ Fits(k, lut)
  /\ lut = "mcs" => Profile[k].mcs
  /\ FirstEnds(k, lut)
  /\ last' = LinkTo(k, lut)
  /\ lastInput' = AsInput(k, lut)
  /\ objs' = Append(objs, Added(k, way, lut))
  /\ freed' = Append(freed, 0)
  /\ chain' = Append(Joined(k, lut),
                     Created(Len(objs) + 1, k, lut, AsInput(k, lut)))
  /\ UNCHANGED <<dest, valid, applied, begun, alive, lost>>

\* The refusals before the previous transform is touched ...
LinkRefused(k, lut) ==
  \/ lut = "color" /\ ~Linkable(k, lut)
  \/ lut = "mcs" /\ lastInput /\ chain = << >>
  \/ JoinsByMcs(k, lut) /\ ~McsConvertible(Last(chain))
\* ... and after it, up to the creation of the new one.
JoinRefused(k, lut) ==
  /\ ~LinkRefused(k, lut)
  /\ ~Linkable(k, lut) \/ ~Fits(k, lut)

ChainRefused(k, way, lut) ==
  IF CopyRefused(k, way) \/ LinkRefused(k, lut) THEN chain ELSE Joined(k, lut)

AddXformRefused(k, way, lut) ==
  /\ MayAdd
  /\ Cardinality({n \in DOMAIN freed : freed[n] > 0}) < MaxRefused
  /\ \/ CopyRefused(k, way) /\ UNCHANGED <<src, last>>
     \/ LinkRefused(k, lut) /\ UNCHANGED <<src, last>>
     \/ JoinRefused(k, lut) /\ UNCHANGED <<src, last>>
     \* Create fails: the first profile has given the CMM its source by then.
     \/ /\ ~CopyRefused(k, way) /\ ~LinkRefused(k, lut) /\ ~JoinRefused(k, lut)
        /\ lut = "mcs" => ~Profile[k].mcs
        /\ FirstEnds(k, lut)
        /\ last' = IF chain = << >> /\ src = Unknown THEN src' ELSE last
  /\ chain' = ChainRefused(k, way, lut)
  /\ objs' = Append(objs, Added(k, way, lut))
  /\ freed' = Append(freed, 1)
  /\ UNCHANGED <<dest, lastInput, valid, applied, begun, alive, lost>>
-----------------------------------------------------------------------------
(* Begin *)

\* Every transform of r, each between what is inserted before and after it.
Threaded(r, extra(_)) ==
  FlattenSeq([i \in 1..Len(r) |-> <<r[i]>> \o extra(i)])

\* CheckPCSRangeConversions: an extended PCS is converted where one that is not
\* follows, if the tag for it can be read.
NeedsRange(r, i) ==
  /\ i < Len(r)
  /\ r[i].input
  /\ IsExtendedPCS(r[i])
  /\ GetDstSpace(r[i]) \in PcsSpaces
  /\ ~IsExtendedPCS(r[i + 1])
ConvertsRange(r, i) ==
  /\ NeedsRange(r, i)
  /\ ProfileOf(r[i]).hToS
  /\ TagFound(r[i].obj, "hToS")
WithRange(r) ==
  LET inserted(i) == IF ConvertsRange(r, i) THEN <<HToSXform(r[i])>> ELSE << >>
  IN  Threaded(r, inserted)
RangeTagsRead ==
  [n \in DOMAIN objs |->
     IF \E i \in DOMAIN chain : chain[i].obj = n /\ ConvertsRange(chain, i)
     THEN [objs[n] EXCEPT !.loaded = @ \cup {"hToS"}] ELSE objs[n]]

\* CheckPCSConnections.  Edge 0 leads into the first transform of r, edge i out
\* of the i-th.  Begin looks for a connection at some edges; at an edge it is
\* refused, or the identity and left out, or a transform of its own.
Looks(r, i) ==
  IF i = 0 THEN ~r[1].input /\ GetSrcSpace(r[1]) \in PcsSpaces
  ELSE IF i = Len(r) THEN r[i].input /\ GetDstSpace(r[i]) \in PcsSpaces
  ELSE \/ r[i].input /\ IsMCS(r[i]) /\ IsMCS(r[i + 1])
       \/ {GetDstSpace(r[i]), GetSrcSpace(r[i + 1])} \cap PcsSpaces # {}
Before(r, i) ==
  IF i = 0 THEN src ELSE IF i < Len(r) /\ IsMCS(r[i]) /\ IsMCS(r[i + 1])
                         THEN "MCS" ELSE GetDstSpace(r[i])
After(r, i) ==
  IF i = Len(r) THEN dest' ELSE IF i > 0 /\ IsMCS(r[i]) /\ IsMCS(r[i + 1])
                                THEN "MCS" ELSE GetSrcSpace(r[i + 1])
EdgeRefused(r, i) ==
  /\ i \in 1..(Len(r) - 1)
  /\ Looks(r, i)
  /\ ~(IsMCS(r[i]) /\ IsMCS(r[i + 1]))
  /\ \/ ~r[i].input \/ (r[i + 1].input /\ ~IsAbstract(r[i + 1]))
     \/ ~({Before(r, i), After(r, i)} \subseteq PcsSpaces)
\* Fault: sides that are compatible are taken for equal.
UnlikeSides(r, i) == Looks(r, i) /\ ~IsCompatSpace(Before(r, i), After(r, i))
MustConvert(r, i) ==
  /\ Looks(r, i)
  /\ {Before(r, i), After(r, i)} \subseteq PcsSpaces
  /\ Before(r, i) # After(r, i)
WithPcs(r, edges) ==
  LET pcs(i) == IF i \in edges THEN <<PcsXform(Before(r, i), After(r, i))>> ELSE << >>
  IN  pcs(0) \o Threaded(r, pcs)

MayBegin ==
  /\ alive
  /\ chain # << >>        \* client contract
  /\ applied = << >>      \* else Begin returns at once
  /\ begun < MaxBegins

EndRefused ==
  dest # Unknown /\ (~IsCompatSpace(dest, last) \/ Samples[dest] # Samples[last])

BeginRefused ==
  /\ MayBegin
  /\ EndRefused
  /\ begun' = begun + 1
  /\ UNCHANGED <<endVars, chain, valid, applied, objs, freed, alive, lost>>

\* What Begin does before the transforms begin.
BeginEnds ==
  /\ MayBegin
  /\ ~EndRefused
  /\ dest' = IF dest = Unknown THEN last ELSE dest
  /\ begun' = begun + 1
  /\ objs' = RangeTagsRead
  /\ UNCHANGED <<src, last, lastInput, freed, alive>>

SourceMatches(r) == Samples[src] = Samples[r[1].from]

\* The first sample count differs, or a transform cannot begin.
BeginFails ==
  /\ BeginEnds
  /\ chain' = WithRange(chain)
  /\ UNCHANGED <<valid, applied, lost>>

\* The ways to connect the edges of r before edge k, by those that get a
\* transform of their own.
Connections(r, k) ==
  LET looks == {i \in 0..(k - 1) : Looks(r, i)}
  IN  {edges \in SUBSET looks :
         \A i \in looks : ~EdgeRefused(r, i) /\ (MustConvert(r, i) => i \in edges)}

\* A connection fails, and with it goes the list of those made before it.
ConnectFails ==
  LET r == WithRange(chain)
  IN  /\ BeginEnds
      /\ SourceMatches(r)
      /\ chain' = r
      /\ \E k \in 0..Len(r) :
           /\ Looks(r, k)
           /\ \E edges \in Connections(r, k) : lost' = lost + Cardinality(edges)
      /\ UNCHANGED <<valid, applied>>

Connect ==
  LET r == WithRange(chain)
  IN  /\ BeginEnds
      /\ SourceMatches(r)
      /\ \E edges \in Connections(r, Len(r) + 1) : chain' = WithPcs(r, edges)
      /\ UNCHANGED lost

DestMatches == Samples[dest'] = Samples[Last(chain').to]

\* The last sample count differs, or the apply object cannot be made.
ApplyFails ==
  /\ Connect
  /\ UNCHANGED <<valid, applied>>

Begin(allocApply) ==
  /\ Connect
  /\ DestMatches
  /\ valid' = TRUE
  /\ applied' = IF allocApply THEN chain' ELSE << >>
-----------------------------------------------------------------------------
\* RemoveAllIO: every profile lets go of its IO.
RemoveAllIO ==
  /\ alive /\ valid
  /\ objs' = [n \in DOMAIN objs |-> [objs[n] EXCEPT !.io = "none"]]
  /\ UNCHANGED <<endVars, chain, valid, applied, freed, begun, alive, lost>>

Owners(n) == {i \in DOMAIN chain : chain[i].obj = n /\ chain[i].owns}
\* ~CIccCmm
Delete ==
  /\ alive
  /\ freed' = [n \in DOMAIN freed |-> freed[n] + Cardinality(Owners(n))]
  /\ chain' = << >> /\ applied' = << >>
  /\ alive' = FALSE
  /\ UNCHANGED <<endVars, valid, objs, begun, lost>>

Next ==
  \/ \E k \in DOMAIN Profile, way \in Ways :
       \E lut \in Luts(k) : AddXform(k, way, lut) \/ AddXformRefused(k, way, lut)
  \/ BeginRefused \/ BeginFails \/ ConnectFails \/ ApplyFails
  \/ \E allocApply \in BOOLEAN : Begin(allocApply)
  \/ RemoveAllIO \/ Delete
Spec == Init /\ [][Next]_vars
=============================================================================
