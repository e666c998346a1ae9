----------------------------- MODULE ProfileIOInv -----------------------------
(***************************************************************************)
(* What makes the ownership of IO objects right.                           *)
(***************************************************************************)
EXTENDS ProfileIO

\* Who will delete an IO object: the client, the profile attached to it, the
\* window that owns it.
Owners(x) ==
  {<<"client", y>> : y \in hand \cap {x}}
    \cup {<<"profile", q>> : q \in {r \in DOMAIN prof :
                                      prof[r].io = x /\ ~prof[r].shared}}
    \cup {<<"window", w>> : w \in {v \in DOMAIN ios \ lost :
                                     ios[v].owns /\ ios[v].over = x}}

\* Types; the set of profiles and the set of IO objects that exist included, and
\* that the profile around an embedded one exists (~CIccTagEmbeddedProfile).
TypeOK ==
  /\ DOMAIN prof \subseteq Profiles
  /\ \A q \in DOMAIN prof :
       /\ prof[q] \in ProfileStates
       /\ prof[q].parent \in DOMAIN prof \cup {NoProfile}
  /\ DOMAIN ios \subseteq Ios
  /\ \A x \in DOMAIN ios : ios[x] \in [over : Ios \cup {NoIo}, owns : BOOLEAN]
  /\ hand \subseteq Ios /\ lost \subseteq Ios

\* Every IO object is deleted once: it has one owner, and one that is gone has
\* none (Cleanup, Detach, ~CIccEmbedIO, the callers of Attach).  One without an
\* owner was dropped at a known place: giving back what was not borrowed,
\* attaching twice without tags between, wrapping a sub-profile that is none.
\* The state has its types.
OwnedOnce ==
  /\ TypeOK
  /\ \A x \in Ios :
       /\ \A a, b \in Owners(x) : a = b
       /\ x \notin DOMAIN ios => Owners(x) = {}
       /\ x \in DOMAIN ios => Owners(x) # {} \/ x \in lost

\* Nothing reads through an IO object that was deleted: whatever a profile is
\* attached to exists, and what that is a window onto.
NoDangling ==
  /\ \A q \in DOMAIN prof : HasIO(q) => prof[q].io \in DOMAIN ios
  /\ \A w \in DOMAIN ios \ lost : ios[w].over # NoIo => ios[w].over \in DOMAIN ios

\* A profile in a tag that reads through the IO of the profile around it does so
\* only while that one has it: owner or borrower, by Detach or by giving back,
\* it tells its tags before it lets go.
InnerLetsGo ==
  \A q \in DOMAIN prof :
    /\ HasIO(q) /\ prof[q].io \in DOMAIN ios
    /\ ios[prof[q].io].over # NoIo /\ ~ios[prof[q].io].owns
    /\ ~prof[q].shared
    => /\ prof[q].parent \in DOMAIN prof
       /\ prof[prof[q].parent].io = ios[prof[q].io].over
=============================================================================
