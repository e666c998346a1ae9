------------------------------- MODULE ProfileIO -------------------------------
(***************************************************************************)
(* Who owns the IO objects that profiles read through (IccProfile.cpp,     *)
(* IccTagEmbedIcc.cpp): a profile owns the IO it is attached to, or has    *)
(* borrowed it (m_bSharedIO); a profile inside a tag of another reads      *)
(* through a window onto the IO of the outer one, and must let go of it    *)
(* when that one does; an attached sub-profile owns a window that owns     *)
(* what it wraps.                                                          *)
(*                                                                         *)
(* Of a tag directory this module keeps whether it has entries and whether *)
(* an embedded profile is still unread.  What the client must observe is   *)
(* in the guards: it works on profiles it owns, deletes an IO only while   *)
(* that is in its hands, borrows into a profile that has no IO, and an     *)
(* owner does not let go of an IO while it is borrowed.                    *)
(***************************************************************************)
EXTENDS Naturals, FiniteSets, Functions

CONSTANTS
  Profiles, \* profile objects that can exist at once
  Ios,      \* IO objects that can exist at once
  MaxNested \* bound on how deep profiles are embedded

NoIo == "no IO"
NoProfile == "none"

ASSUME NestingAssumption == MaxNested \in Nat \ {0}
ASSUME ObjectsAssumption ==
  IsFiniteSet(Profiles) /\ NoProfile \notin Profiles /\ NoIo \notin Ios

VARIABLES
  prof, \* the profiles that exist: their tags and their IO
  ios,  \* the IO objects that exist: what each is a window onto, if any
  hand, \* IO objects the client opened and still has
  lost  \* history: objects that were dropped without being deleted

vars == <<prof, ios, hand, lost>>

\* m_Tags has no entry; one is an embedded profile not read yet; all are read
Dirs == {"empty", "unread", "read"}
ProfileStates ==
  [parent : Profiles \cup {NoProfile}, \* the profile whose tag owns this one
   dir : Dirs,
   io : Ios \cup {NoIo},               \* m_pAttachIO
   shared : BOOLEAN]                   \* m_bSharedIO
Plain == [over |-> NoIo, owns |-> FALSE]
Fresh == [parent |-> NoProfile, dir |-> "empty", io |-> NoIo, shared |-> FALSE]

Outer == {q \in DOMAIN prof : prof[q].parent = NoProfile}
HasIO(q) == prof[q].io # NoIo

\* Fault: the profiles in its tags are not reached.
OnlyIt(q) == {q}
\* The profiles inside the tags of q, at all depths, q included.
Tree(q) ==
  LET within[n \in 0..MaxNested] ==
        IF n = 0 THEN {q}
        ELSE within[n - 1]
               \cup {r \in DOMAIN prof : prof[r].parent \in within[n - 1]}
  IN  within[MaxNested]
Inside(q) == Tree(q) \ {q}
Depth(q) == Cardinality({r \in DOMAIN prof : q \in Inside(r)})

\* Deleting an IO object deletes what it owns.
Deleted(x) == IF ios[x].owns THEN {x, ios[x].over} ELSE {x}
\* The IO objects the profiles of a set own, and delete when they let go.
OwnedBy(qs) == {prof[q].io : q \in {r \in qs : HasIO(r) /\ ~prof[r].shared}}
DeletedWith(qs) == UNION {Deleted(x) : x \in OwnedBy(qs)}

\* What the client must observe: an owner lets go of nothing that is borrowed.
Borrowed == {prof[q].io : q \in {r \in DOMAIN prof : prof[r].shared}}
NotLent(qs) == OwnedBy(qs) \cap Borrowed = {}

\* All profiles but those of the set gone, and q as given.
Without(gone, q, record) ==
  [r \in (DOMAIN prof \ gone) \cup {q} |-> IF r = q THEN record ELSE prof[r]]
\* All IO objects but those of the set gone, and x as given.
IosWithout(gone, x, record) ==
  [y \in (DOMAIN ios \ gone) \cup {x} |-> IF y = x THEN record ELSE ios[y]]
-----------------------------------------------------------------------------
Init ==
  /\ prof = << >>
  /\ ios = << >>
  /\ hand = {}
  /\ lost = {}

(* The client's IO objects and profiles *)

OpenIO ==
  /\ \E x \in Ios \ DOMAIN ios :
       ios' = IosWithout({}, x, Plain) /\ hand' = hand \cup {x}
  /\ UNCHANGED <<prof, lost>>

\* After a refused Attach, and after Read.
CloseIO ==
  /\ \E x \in hand :
       /\ ios' = Restrict(ios, DOMAIN ios \ {x})
       /\ hand' = hand \ {x}
  /\ UNCHANGED <<prof, lost>>

NewProfile ==
  /\ \E q \in Profiles \ DOMAIN prof : prof' = Without({}, q, Fresh)
  /\ UNCHANGED <<ios, hand, lost>>

\* A copy has the tags and no IO; nor have the profiles in its tags.
CopyOf(r) == [Fresh EXCEPT !.dir = prof[r].dir]
NewCopy ==
  /\ \E q \in Profiles \ DOMAIN prof, r \in DOMAIN prof :
       prof' = Without({}, q, CopyOf(r))
  /\ UNCHANGED <<ios, hand, lost>>

\* operator=
Assign ==
  /\ \E q \in Outer, r \in DOMAIN prof :
       /\ r \notin Tree(q)
       /\ NotLent(Tree(q))
       /\ prof' = Without(Tree(q), q, CopyOf(r))
       /\ ios' = Restrict(ios, DOMAIN ios \ DeletedWith(Tree(q)))
  /\ UNCHANGED <<hand, lost>>

Destroy ==
  /\ \E q \in Outer :
       /\ NotLent(Tree(q))
       /\ prof' = Restrict(prof, DOMAIN prof \ Tree(q))
       /\ ios' = Restrict(ios, DOMAIN ios \ DeletedWith(Tree(q)))
  /\ UNCHANGED <<hand, lost>>

(* Attach *)

\* The file is no profile.
AttachRefused ==
  /\ \E q \in Outer, x \in hand :
       /\ NotLent(Tree(q))
       /\ prof' = Without(Tree(q), q, Fresh)
       /\ ios' = Restrict(ios, DOMAIN ios \ DeletedWith(Tree(q)))
  /\ UNCHANGED <<hand, lost>>

\* The profile lets go of all it had if it has tags; else only its IO is
\* replaced.
LetGo(q) == IF prof[q].dir = "empty" THEN {} ELSE DeletedWith(Tree(q))
Replaced(q) == IF prof[q].dir = "empty" THEN DeletedWith({q}) ELSE {}
Attach ==
  \E q \in Outer, x \in hand, dir \in Dirs :
    /\ NotLent(Tree(q))
    /\ prof' = Without(Tree(q), q, [Fresh EXCEPT
                 !.dir = dir, !.io = x, !.shared = FALSE])
    /\ ios' = Restrict(ios, DOMAIN ios \ LetGo(q))
    /\ hand' = hand \ {x}
    /\ lost' = lost \cup Replaced(q)

\* The profile in the embedded profile tag is attached in place of the file's,
\* through a window that owns the file.
AttachSub ==
  \E q \in Outer, x \in hand, w \in Ios \ DOMAIN ios, dir \in Dirs :
    /\ NotLent(Tree(q))
    /\ prof' = Without(Tree(q), q, [Fresh EXCEPT !.dir = dir, !.io = w])
    /\ ios' = IosWithout(DeletedWith(Tree(q)), w, [over |-> x, owns |-> TRUE])
    /\ hand' = hand \ {x}
    /\ UNCHANGED lost

\* It is no profile: its window stays behind, and the client has its file back.
AttachSubFails ==
  /\ \E q \in Outer, x \in hand, w \in Ios \ DOMAIN ios :
       /\ NotLent(Tree(q))
       /\ prof' = Without(Tree(q), q, Fresh)
       /\ ios' = IosWithout(DeletedWith(Tree(q)), w, [over |-> x, owns |-> TRUE])
       /\ lost' = lost \cup {w}
  /\ UNCHANGED hand

(* Reading *)

\* An embedded profile tag of q is read from x.  If q has an IO, the profile in
\* it is attached to a window onto x; if not, it is read at once.
\* Fault: the window owns what it wraps.
WindowOwning(x) == [over |-> x, owns |-> TRUE]
WindowOnto(x) == [over |-> x, owns |-> FALSE]
ReadEmbedded(q, x, record, attached, released) ==
  IF attached
  THEN \E c \in Profiles \ (DOMAIN prof \cup {q}), w \in Ios \ DOMAIN ios, dir \in Dirs :
         /\ Depth(q) < MaxNested
         /\ prof' = [r \in (DOMAIN prof \ Inside(q)) \cup {c} |->
                       IF r = q THEN record
                       ELSE IF r = c THEN [parent |-> q, dir |-> dir, io |-> w,
                                           shared |-> FALSE]
                       ELSE prof[r]]
         /\ ios' = IosWithout(released, w, WindowOnto(x))
  ELSE /\ prof' = Without(Inside(q), q, record)
       /\ ios' = Restrict(ios, DOMAIN ios \ released)

\* LoadTag, by FindTag or any of the loops.
FindTag ==
  /\ \E q \in DOMAIN prof :
       /\ prof[q].dir = "unread" /\ HasIO(q)
       /\ ReadEmbedded(q, prof[q].io, [prof[q] EXCEPT !.dir = "read"], TRUE, {})
  /\ UNCHANGED <<hand, lost>>

\* ReadTags with another profile's IO, for a copy that has none.
ReadTagsThrough ==
  /\ \E q \in Outer, p \in DOMAIN prof :
       /\ prof[q].dir = "unread" /\ ~HasIO(q) /\ HasIO(p)
       /\ ReadEmbedded(q, prof[p].io, [prof[q] EXCEPT !.dir = "read"],
                       HasIO(q), {})
  /\ UNCHANGED <<hand, lost>>

\* Fault: an IO borrowed before there were tags stays attached.
StaleIo(q) == IF prof[q].dir = "empty" THEN prof[q].io ELSE NoIo
\* What is attached after Read has let go of an earlier use.
IoInRead(q) == NoIo
\* Read leaves nothing attached: all is in memory.
Read ==
  /\ \E q \in Outer, x \in hand :
       /\ NotLent(Tree(q))
       /\ \/ ReadEmbedded(q, x, [Fresh EXCEPT !.dir = "read", !.io = IoInRead(q),
                                   !.shared = IoInRead(q) # NoIo],
                          IoInRead(q) # NoIo, DeletedWith(Tree(q)))
          \/ /\ prof' = Without(Tree(q), q, Fresh)
             /\ ios' = Restrict(ios, DOMAIN ios \ DeletedWith(Tree(q)))
  /\ UNCHANGED <<hand, lost>>

\* All entries are deleted.
DeleteTags ==
  /\ \E q \in DOMAIN prof :
       /\ prof[q].dir # "empty"
       /\ NotLent(Inside(q))
       /\ prof' = Without(Inside(q), q, [prof[q] EXCEPT !.dir = "empty"])
       /\ ios' = Restrict(ios, DOMAIN ios \ DeletedWith(Inside(q)))
  /\ UNCHANGED <<hand, lost>>

\* SetProfile, and AttachTag with the tag: a profile of the client's, with the
\* IO it has, goes into a tag of another.
Embed ==
  /\ \E q, r \in Outer :
       /\ q # r
       /\ prof[q].dir = "empty"
       /\ NotLent(Tree(r))
       /\ \A s \in Tree(r) : Depth(s) < MaxNested
       /\ prof' = [prof EXCEPT ![q].dir = "read", ![r].parent = q]
  /\ UNCHANGED <<ios, hand, lost>>

(* Letting go *)

\* The profiles that let go with q: those in tags of one that has an IO.
Told(q) ==
  LET within[n \in 0..MaxNested] ==
        IF n = 0 THEN {q}
        ELSE within[n - 1]
               \cup {r \in DOMAIN prof : /\ prof[r].parent \in within[n - 1]
                                         /\ HasIO(prof[r].parent)}
  IN  within[MaxNested]
LetGoOf(qs) ==
  [r \in DOMAIN prof |->
     IF r \in qs THEN [prof[r] EXCEPT !.io = NoIo, !.shared = FALSE] ELSE prof[r]]

Detach ==
  /\ \E q \in DOMAIN prof :
       /\ HasIO(q) \/ prof[q].shared
       /\ NotLent(Tree(q))
       /\ prof' = LetGoOf(Told(q))
       /\ ios' = Restrict(ios, DOMAIN ios \ DeletedWith(Told(q)))
  /\ UNCHANGED <<hand, lost>>

\* CopyAttach with a profile
Borrow ==
  /\ \E q \in Outer, p \in DOMAIN prof :
       /\ ~HasIO(q) /\ p \notin Tree(q)
       /\ prof' = [prof EXCEPT ![q].io = prof[p].io, ![q].shared = TRUE]
  /\ UNCHANGED <<ios, hand, lost>>

\* CopyAttach without: the IO is dropped, be it the profile's own or not.
GiveBack ==
  /\ \E q \in Outer :
       /\ HasIO(q) \/ prof[q].shared
       /\ NotLent(Tree(q))
       /\ prof' = LetGoOf(Told(q))
       /\ ios' = Restrict(ios, DOMAIN ios \ DeletedWith(Told(q) \ {q}))
       /\ lost' = lost \cup DeletedWith({q})
  /\ UNCHANGED hand
-----------------------------------------------------------------------------
Next ==
  \/ OpenIO \/ CloseIO \/ NewProfile \/ NewCopy \/ Assign \/ Destroy
  \/ AttachRefused \/ Attach \/ AttachSub \/ AttachSubFails
  \/ FindTag \/ ReadTagsThrough \/ Read \/ DeleteTags \/ Embed
  \/ Detach \/ Borrow \/ GiveBack

Spec == Init /\ [][Next]_vars
=============================================================================
