----------------------------- MODULE CmmChainInv -----------------------------
(***************************************************************************)
(* The properties of CmmChain.                                             *)
(***************************************************************************)
EXTENDS CmmChain

\* The state of a CMM is what CmmChain says it is: types, an apply
\* object only of a valid CMM, and a destroyed CMM without transforms.
TypeOK ==
  /\ {src, dest, last} \subseteq Spaces
  /\ lastInput \in BOOLEAN /\ valid \in BOOLEAN /\ alive \in BOOLEAN
  /\ \A c \in {chain, applied} : \A i \in DOMAIN c : c[i] \in Xforms
  /\ \A n \in DOMAIN objs :
       /\ objs[n].kind \in DOMAIN Profile
       /\ objs[n].io \in {"none", "own"}
       /\ objs[n].loaded \subseteq {"mcs", "hToS"}
  /\ DOMAIN freed = DOMAIN objs
  /\ begun \in 0..MaxBegins /\ lost \in Nat
  /\ applied # << >> => valid
  /\ ~alive => chain = << >>

\* In a CMM that Begin has declared valid, where a transform writes a PCS or the
\* next one reads one, it is the same PCS on both sides, whatever the profiles:
\* CheckPCSConnections puts a conversion between those that differ and refuses a
\* PCS beside anything else.  Excepted is where it routes channels of an MCS, and
\* a range conversion that a second Begin, which fails, has put before one.
Routed(x, y) ==
  \/ (IsMCS(x) \/ x.kind = "hToS") /\ IsMCS(y)
  \/ x.kind = "pcs" /\ x.to = "MCS"
  \/ y.kind = "pcs" /\ y.from = "MCS"
PcsSidesMeet ==
  valid => \A i \in 1..(Len(chain) - 1) :
    \/ Routed(chain[i], chain[i + 1])
    \/ {chain[i].to, GetSrcSpace(chain[i + 1])} \cap PcsSpaces = {}
    \/ chain[i].to = GetSrcSpace(chain[i + 1])

\* The transforms made from profiles, and where an MCS is written that the next
\* of them does not read, or read that the one before does not write.
ProfileXforms == SelectSeq(chain, LAMBDA x : x.kind = "profile")
LeftOpen(made, i) ==
  /\ made[i].mcs = "to"
  /\ IF i = Len(made) THEN last # "MCS" ELSE made[i + 1].mcs # "from"
OpensIn(made, i) ==
  /\ made[i].mcs = "from"
  /\ i = 1 \/ made[i - 1].mcs # "to"

\* A CMM that Begin has declared valid is one pipe: every transform but the
\* first reads exactly what the one before it writes, and the ends are the source
\* and the destination space, converted where a PCS is written or read.  AddXform
\* lets any two PCSs follow each other; it is for CheckPCSConnections to put a
\* conversion between those that differ.  This is not so of a CMM in which an MCS
\* is written and not read or read and not written, as SpacesMatch shows; but a
\* transform writes an MCS that is not read only when AddXform has refused the
\* profile that was to read it.
ChainLinked ==
  LET made == ProfileXforms
  IN  /\ PcsSidesMeet
      /\ alive => \A i \in DOMAIN made : LeftOpen(made, i) =>
           \E n \in DOMAIN freed : n > made[i].obj /\ freed[n] > 0
      /\ valid /\ alive =>
           /\ Unknown \notin {src, dest}
           /\ \/ \E i \in DOMAIN made : LeftOpen(made, i) \/ OpensIn(made, i)
              \/ /\ \A i \in 1..(Len(chain) - 1) : chain[i].to = chain[i + 1].from
                 /\ IsCompatSpace(chain[1].from, src) /\ IsCompatSpace(Last(chain).to, dest)
                 /\ ~chain[1].input => chain[1].from = src
                 /\ Last(chain).input => Last(chain).to = dest

\* While profiles are added to a CMM, the first transform reads its source space
\* and each other what the one before it writes, up to the conversion of a PCS:
\* AddXform makes sure of it ("Make sure colorspaces match with previous xforms").
SpacesMatch ==
  alive /\ begun = 0 /\ chain # << >> =>
    /\ IsCompatSpace(src, chain[1].from)
    /\ \A i \in 1..(Len(chain) - 1) : IsCompatSpace(chain[i].to, chain[i + 1].from)

\* Where a profile with an HDR-to-SDR tag writes an extended-range PCS that the
\* next profile does not read, the range is converted, exactly once, and it is
\* converted nowhere else, however the profiles were handed over: Begin reads
\* the tag long after AddXform(CIccProfile&) has given back the borrowed IO.
\* (After one Begin; another finds the conversion extended too, and repeats it.)
NextProfiles(i) == {j \in DOMAIN chain : j > i /\ chain[j].kind = "profile"}
Conversions(i) ==
  {j \in DOMAIN chain :
     /\ j > i /\ chain[j].kind = "hToS"
     /\ \A k \in NextProfiles(i) : j < k}
OwesConversion(i) ==
  LET x == chain[i]
  IN  /\ x.input /\ x.to \in PcsSpaces
      /\ ProfileOf(x).extended /\ ProfileOf(x).hToS
      /\ \E j \in NextProfiles(i) :
           /\ \A k \in NextProfiles(i) : j <= k
           /\ ~ProfileOf(chain[j]).extended
ConvertedOnce ==
  valid /\ alive /\ begun = 1 =>
    \A i \in DOMAIN chain : chain[i].kind = "profile" =>
      Cardinality(Conversions(i)) = IF OwesConversion(i) THEN 1 ELSE 0

\* A profile handed to the CMM belongs to exactly one transform of the chain or
\* has been deleted, once; no transform uses a deleted profile; and when the
\* CMM is gone each profile has been deleted.  AddXform deletes what it refuses,
\* Create what it cannot use, a range conversion uses its neighbour's profile,
\* and one transform replaces another made from the same profile.  The state has
\* its types.
ProfilesOwnedOnce ==
  /\ TypeOK
  /\ \A n \in DOMAIN objs : Cardinality(Owners(n)) + freed[n] = 1
  /\ \A i \in DOMAIN chain :
       chain[i].kind # "pcs" => freed[chain[i].obj] = 0
=============================================================================
