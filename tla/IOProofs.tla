------------------------------- MODULE IOProofs -------------------------------
(***************************************************************************)
(* Proofs about the IO layer: about ProfileIO, for any profiles and IO     *)
(* objects and whatever depth of embedding, and about ByteIO, for any      *)
(* lengths and however many windows in windows.                            *)
(*                                                                         *)
(* IInv, the inductive invariant of ProfileIO, has two halves.  Good says  *)
(* who owns what and what windows are onto; of any profiles P, IO objects  *)
(* I, those in the client's hands H and those lost L, so that an action    *)
(* that deletes, makes and attaches in one step is followed change by      *)
(* change through states that are not the program's.  Forest says that     *)
(* profiles are embedded in others that have tags, never in themselves;    *)
(* only with it do the MaxNested rounds of Tree and Told reach all that is *)
(* in the tags of a profile (LayersReach), without which a deleted profile *)
(* would leave others behind that read through its IO.                     *)
(***************************************************************************)
EXTENDS ProfileIOInv, ByteIOInv, SequenceTheorems, FiniteSetTheorems, WellFoundedInduction, TLAPS
-----------------------------------------------------------------------------
(* The invariant, of any profiles P, IO objects I, those in the client's    *)
(* hands H and those lost L.                                                *)

Kinds == [over : Ios \cup {NoIo}, owns : BOOLEAN]
\* Profile q of P owns IO object x.
Holds(P, q, x) == P[q].io = x /\ x # NoIo /\ ~P[q].shared
\* Window w of I owns what it wraps.
Wraps(I, L, w, x) == w \in DOMAIN I \ L /\ I[w].owns /\ I[w].over = x

Types(P, I, H, L) ==
  /\ P \in [DOMAIN P -> ProfileStates] /\ DOMAIN P \subseteq Profiles
  /\ I \in [DOMAIN I -> Kinds] /\ DOMAIN I \subseteq Ios
  /\ H \subseteq DOMAIN I \ L /\ L \subseteq DOMAIN I

\* An IO object is in the client's hands, ...
InHand(P, I, H, L) ==
  \A x \in H : I[x].over = NoIo /\ ~I[x].owns
\* ... or some profile's, ...
Held(P, I, H, L) ==
  \A q \in DOMAIN P, x \in Ios : Holds(P, q, x) =>
    /\ x \in DOMAIN I \ (H \cup L)
    /\ \A r \in DOMAIN P : Holds(P, r, x) => r = q
\* ... or in a window that is some profile's, ...
Wrapped(P, I, H, L) ==
  \A w \in Ios, x \in Ios \cup {NoIo} : Wraps(I, L, w, x) =>
    /\ x \in DOMAIN I \ (H \cup L)
    /\ I[x].over = NoIo
    /\ \A q \in DOMAIN P : ~Holds(P, q, x)
    /\ \A v \in Ios : Wraps(I, L, v, x) => v = w
\* ... and always one of these, unless it is lost.
Kept(P, I, H, L) ==
  \A x \in DOMAIN I \ L :
    \/ x \in H
    \/ \E q \in DOMAIN P : Holds(P, q, x)
    \/ \E w \in DOMAIN I : Wraps(I, L, w, x)
\* What is borrowed is some profile's.
Lent(P) ==
  \A q \in DOMAIN P : P[q].shared /\ P[q].io # NoIo =>
    \E r \in DOMAIN P : Holds(P, r, P[q].io)
\* A window that does not own what it wraps is onto the IO of the profile around.
Inner(P, I) ==
  \A q \in DOMAIN P, x \in DOMAIN I :
    Holds(P, q, x) /\ I[x].over # NoIo /\ ~I[x].owns =>
      P[q].parent \in DOMAIN P /\ P[P[q].parent].io = I[x].over

Good(P, I, H, L) ==
  /\ Types(P, I, H, L) /\ InHand(P, I, H, L) /\ Held(P, I, H, L)
  /\ Wrapped(P, I, H, L) /\ Kept(P, I, H, L) /\ Lent(P) /\ Inner(P, I)

\* Profiles are embedded in others that have tags, not too deep and not in
\* themselves.
Leveled(P, level) ==
  /\ level \in [DOMAIN P -> 0..MaxNested]
  /\ \A q \in DOMAIN P : P[q].parent = NoProfile => level[q] = 0
  /\ \A q \in DOMAIN P : P[q].parent # NoProfile =>
       /\ P[q].parent \in DOMAIN P /\ P[P[q].parent].dir = "read"
       /\ level[q] = level[P[q].parent] + 1
Forest(P) == \E level \in [DOMAIN P -> 0..MaxNested] : Leveled(P, level)

IInv == Good(prof, ios, hand, lost) /\ Forest(prof)
-----------------------------------------------------------------------------
(* What becomes of the invariant when ...                                   *)

Released(P, T) ==
  [q \in DOMAIN P |-> IF q \in T THEN [P[q] EXCEPT !.io = NoIo, !.shared = FALSE]
                                  ELSE P[q]]
\* y goes when the profiles of T let go.
Goes(P, I, T, y) ==
  \E q \in T, x \in Ios : Holds(P, q, x) /\ (y = x \/ (I[x].owns /\ y = I[x].over))
Cut(I, S) == [x \in DOMAIN I \ S |-> I[x]]

\* ... profiles let go of their IO, and those in the tags of the ones that have
\* any do too.
LEMMA LetGoGood ==
  ASSUME NEW P, NEW I, NEW H, NEW L, Good(P, I, H, L),
         NEW T \in SUBSET DOMAIN P, NEW D, \A y : y \in D <=> Goes(P, I, T, y),
         \A r \in DOMAIN P : P[r].parent \in T /\ P[P[r].parent].io # NoIo => r \in T,
         \A q \in T, x \in Ios, r \in DOMAIN P : Holds(P, q, x) /\ P[r].shared => P[r].io # x
  PROVE  Good(Released(P, T), Cut(I, D), H, L) /\ D \cap (H \cup L) = {} /\ D \subseteq DOMAIN I
<1> DEFINE P2 == Released(P, T)
           I2 == Cut(I, D)
<1>1. /\ DOMAIN P2 = DOMAIN P /\ \A q \in DOMAIN P : q \notin T => P2[q] = P[q]
      /\ \A q \in T : /\ P2[q].io = NoIo /\ ~P2[q].shared
                      /\ P2[q] \in ProfileStates
  <2>1. /\ DOMAIN P2 = DOMAIN P /\ \A q \in DOMAIN P : q \notin T => P2[q] = P[q]
        /\ \A q \in T : P2[q] = [P[q] EXCEPT !.io = NoIo, !.shared = FALSE]
    BY DEF Released
  <2>2. \A q \in T : P[q] \in ProfileStates
    BY DEF Good, Types
  <2> HIDE DEF P2
  <2>3. ASSUME NEW q \in T
        PROVE  P2[q].io = NoIo /\ ~P2[q].shared /\ P2[q] \in ProfileStates
    <3>1. P[q] \in ProfileStates /\ P2[q] = [P[q] EXCEPT !.io = NoIo, !.shared = FALSE]
      BY <2>1, <2>2
    <3> QED
      BY <3>1 DEF ProfileStates
  <2> QED
    BY <2>1, <2>3
<1>2. DOMAIN I2 = DOMAIN I \ D /\ \A x \in DOMAIN I2 : I2[x] = I[x]
  BY DEF Cut
<1>3. Types(P, I, H, L) /\ NoIo \notin Ios
  BY ObjectsAssumption DEF Good
<1>4. P2 = [q \in DOMAIN P2 |-> P2[q]] /\ I2 = [x \in DOMAIN I2 |-> I2[x]]
  BY DEF Released, Cut
<1> HIDE DEF P2, I2
<1>5. \A q \in DOMAIN P : \A x : Holds(P2, q, x) <=> Holds(P, q, x) /\ q \notin T
  BY <1>1 DEF Holds
<1>6. \A q \in T, x \in Ios : Holds(P, q, x) /\ I[x].owns =>
        Wraps(I, L, x, I[x].over) /\ I[x].over \in Ios
  <2> SUFFICES ASSUME NEW q \in T, NEW x \in Ios, Holds(P, q, x), I[x].owns
               PROVE  Wraps(I, L, x, I[x].over) /\ I[x].over \in Ios
    OBVIOUS
  <2>1. x \in DOMAIN I \ L
    BY DEF Good, Held
  <2>2. I[x].over \in Ios \cup {NoIo}
    BY <1>3, <2>1 DEF Types, Kinds
  <2>3. Wraps(I, L, x, I[x].over)
    BY <2>1 DEF Wraps
  <2>4. I[x].over \in DOMAIN I
    BY <2>2, <2>3 DEF Good, Wrapped
  <2> QED
    BY <1>3, <2>3, <2>4 DEF Types
<1>7. D \cap (H \cup L) = {} /\ D \subseteq DOMAIN I
  <2> SUFFICES ASSUME NEW y \in D PROVE y \in DOMAIN I \ (H \cup L)
    OBVIOUS
  <2>1. PICK q \in T, x \in Ios : Holds(P, q, x) /\ (y = x \/ (I[x].owns /\ y = I[x].over))
    BY DEF Goes
  <2>2. CASE y = x
    BY <2>1, <2>2 DEF Good, Held
  <2>3. CASE I[x].owns /\ y = I[x].over
    BY <1>6, <2>1, <2>3 DEF Good, Wrapped
  <2> QED
    BY <2>1, <2>2, <2>3
<1>8. ASSUME NEW q \in DOMAIN P, q \notin T, NEW x \in Ios, Holds(P, q, x)
      PROVE  x \notin D
  <2> SUFFICES ASSUME x \in D PROVE FALSE
    OBVIOUS
  <2>1. PICK r \in T, y \in Ios : Holds(P, r, y) /\ (x = y \/ (I[y].owns /\ x = I[y].over))
    BY DEF Goes
  <2>2. CASE x = y
    BY <1>8, <2>1, <2>2 DEF Good, Held
  <2>3. CASE I[y].owns /\ x = I[y].over
    BY <1>6, <1>8, <2>1, <2>3 DEF Good, Wrapped
  <2> QED
    BY <2>1, <2>2, <2>3
<1>9. ASSUME NEW w \in Ios, NEW x \in Ios \cup {NoIo}, Wraps(I, L, w, x), w \notin D
      PROVE  x \notin D
  <2> SUFFICES ASSUME x \in D PROVE FALSE
    OBVIOUS
  <2>1. PICK r \in T, y \in Ios : Holds(P, r, y) /\ (x = y \/ (I[y].owns /\ x = I[y].over))
    BY DEF Goes
  <2>2. CASE x = y
    BY <1>9, <2>1, <2>2 DEF Good, Wrapped
  <2>3. CASE I[y].owns /\ x = I[y].over
    <3>1. Wraps(I, L, y, x)
      BY <1>6, <2>1, <2>3
    <3>2. y = w
      BY <1>9, <3>1 DEF Good, Wrapped
    <3>3. y \in D
      BY <2>1 DEF Goes
    <3> QED
      BY <1>9, <3>2, <3>3
  <2> QED
    BY <2>1, <2>2, <2>3
<1>10. \A w, x : Wraps(I2, L, w, x) <=> Wraps(I, L, w, x) /\ w \notin D
  BY <1>2 DEF Wraps
<1>11. Types(P2, I2, H, L)
  <2>1. \A q \in DOMAIN P2 : P2[q] \in ProfileStates
    BY <1>1, <1>3 DEF Types
  <2>2. \A x \in DOMAIN I2 : I2[x] \in Kinds
    BY <1>2, <1>3 DEF Types
  <2>3. P2 \in [DOMAIN P2 -> ProfileStates] /\ I2 \in [DOMAIN I2 -> Kinds]
    BY <1>4, <2>1, <2>2
  <2> QED
    BY <1>1, <1>2, <1>3, <1>7, <2>3 DEF Types
<1>12. InHand(P2, I2, H, L)
  BY <1>2, <1>3, <1>7 DEF Good, InHand, Types
<1>13. Held(P2, I2, H, L)
  <2> SUFFICES ASSUME NEW q \in DOMAIN P, NEW x \in Ios, Holds(P2, q, x)
               PROVE  /\ x \in DOMAIN I2 \ (H \cup L)
                      /\ \A r \in DOMAIN P : Holds(P2, r, x) => r = q
    BY <1>1 DEF Held
  <2> QED
    BY <1>2, <1>5, <1>8 DEF Good, Held
<1>14. Wrapped(P2, I2, H, L)
  <2> SUFFICES ASSUME NEW w \in Ios, NEW x \in Ios \cup {NoIo}, Wraps(I2, L, w, x)
               PROVE  /\ x \in DOMAIN I2 \ (H \cup L)
                      /\ I2[x].over = NoIo
                      /\ \A q \in DOMAIN P : ~Holds(P2, q, x)
                      /\ \A v \in Ios : Wraps(I2, L, v, x) => v = w
    BY <1>1 DEF Wrapped
  <2>1. Wraps(I, L, w, x) /\ x \notin D
    BY <1>9, <1>10
  <2> QED
    BY <1>2, <1>5, <1>10, <2>1 DEF Good, Wrapped
<1>15. Kept(P2, I2, H, L)
  <2> SUFFICES ASSUME NEW x \in DOMAIN I2 \ L, x \notin H
               PROVE  \/ \E q \in DOMAIN P : Holds(P2, q, x)
                      \/ \E w \in DOMAIN I2 : Wraps(I2, L, w, x)
    BY <1>1 DEF Kept
  <2>1. x \in DOMAIN I \ L /\ x \notin D /\ x \in Ios
    BY <1>2, <1>3 DEF Types
  <2>2. CASE \E q \in DOMAIN P : Holds(P, q, x)
    BY <1>5, <2>1, <2>2 DEF Goes
  <2>3. CASE \E w \in DOMAIN I : Wraps(I, L, w, x)
    <3>1. PICK w \in DOMAIN I : Wraps(I, L, w, x)
      BY <2>3
    <3>2. w \in Ios /\ I[w].owns /\ I[w].over = x
      BY <1>3, <3>1 DEF Types, Wraps
    <3>3. ASSUME w \in D
          PROVE  FALSE
      <4>1. PICK q \in T, y \in Ios : Holds(P, q, y) /\ (w = y \/ (I[y].owns /\ w = I[y].over))
        BY <3>3 DEF Goes
      <4>2. CASE w = y
        BY <2>1, <3>2, <4>1, <4>2 DEF Goes
      <4>3. CASE I[y].owns /\ w = I[y].over
        <5>1. I[w].over = NoIo
          BY <1>6, <4>1, <4>3 DEF Good, Wrapped
        <5> QED
          BY <1>3, <2>1, <3>2, <5>1
      <4> QED
        BY <4>1, <4>2, <4>3
    <3> QED
      BY <1>2, <1>10, <3>1, <3>3
  <2> QED
    BY <2>1, <2>2, <2>3 DEF Good, Kept
<1>16. Lent(P2)
  <2> SUFFICES ASSUME NEW q \in DOMAIN P, P2[q].shared, P2[q].io # NoIo
               PROVE  \E r \in DOMAIN P : Holds(P2, r, P2[q].io)
    BY <1>1 DEF Lent
  <2>1. q \notin T /\ P2[q] = P[q]
    BY <1>1
  <2>2. PICK r \in DOMAIN P : Holds(P, r, P[q].io)
    BY <2>1 DEF Good, Lent
  <2>3. P[q].io \in Ios
    BY <1>3, <2>1, <2>2 DEF Types, ProfileStates
  <2>4. r \notin T
    BY <2>1, <2>2, <2>3
  <2> QED
    BY <1>5, <2>1, <2>2, <2>4
<1>17. Inner(P2, I2)
  <2> SUFFICES ASSUME NEW q \in DOMAIN P, NEW x \in DOMAIN I2, Holds(P2, q, x),
                      I2[x].over # NoIo, ~I2[x].owns
               PROVE  P2[q].parent \in DOMAIN P /\ P2[P2[q].parent].io = I2[x].over
    BY <1>1 DEF Inner
  <2>1. q \notin T /\ P2[q] = P[q] /\ Holds(P, q, x) /\ x \in DOMAIN I /\ I2[x] = I[x]
    BY <1>1, <1>2, <1>5
  <2>2. P[q].parent \in DOMAIN P /\ P[P[q].parent].io = I[x].over
    BY <2>1 DEF Good, Inner
  <2>3. P[q].parent \notin T
    BY <2>1, <2>2
  <2> QED
    BY <1>1, <2>1, <2>2, <2>3
<1> QED
  BY <1>7, <1>11, <1>12, <1>13, <1>14, <1>15, <1>16, <1>17 DEF Good, P2, I2
-----------------------------------------------------------------------------
\* f with v for q.
Put(f, q, v) == [r \in DOMAIN f \cup {q} |-> IF r = q THEN v ELSE f[r]]

\* Changing or adding an entry keeps the type of what is in a function.
LEMMA PutType ==
  ASSUME NEW S, NEW f, f \in [DOMAIN f -> S], NEW q, NEW v \in S
  PROVE  Put(f, q, v) \in [DOMAIN f \cup {q} -> S]
BY DEF Put

\* A function without some entries.
LEMMA CutIs ==
  ASSUME NEW f, NEW D
  PROVE  LET g == Cut(f, D)
         IN  /\ DOMAIN g = DOMAIN f \ D
             /\ \A r \in DOMAIN g : g[r] = f[r]
             /\ \A S : f \in [DOMAIN f -> S] => g \in [DOMAIN g -> S]
BY DEF Cut

\* ... IO objects are lost that could have been deleted.
LEMMA LoseGood ==
  ASSUME NEW P, NEW I, NEW H, NEW L, NEW D, D \subseteq DOMAIN I, D \cap (H \cup L) = {},
         Types(P, I, H, L), Good(P, Cut(I, D), H, L)
  PROVE  Good(P, I, H, L \cup D)
<1> DEFINE I2 == Cut(I, D)
           L2 == L \cup D
<1>1. DOMAIN I2 = DOMAIN I \ D /\ \A x \in DOMAIN I2 : I2[x] = I[x]
  BY CutIs
<1> HIDE DEF I2
<1>2. \A w, x : Wraps(I, L2, w, x) <=> Wraps(I2, L, w, x)
  BY <1>1 DEF Wraps
<1>3. DOMAIN I2 \ (H \cup L) = DOMAIN I \ (H \cup L2) /\ DOMAIN I2 \ L = DOMAIN I \ L2
  BY <1>1
<1>g. Good(P, I2, H, L)
  BY DEF I2
<1>4. Types(P, I, H, L2)
  BY DEF Types
<1>5. InHand(P, I, H, L2)
  BY <1>g, <1>1 DEF Good, InHand, Types
<1>6. Held(P, I, H, L2)
  BY <1>g, <1>3 DEF Good, Held
<1>7. Wrapped(P, I, H, L2)
  <2> SUFFICES ASSUME NEW w \in Ios, NEW x \in Ios \cup {NoIo}, Wraps(I, L2, w, x)
               PROVE  /\ x \in DOMAIN I \ (H \cup L2)
                      /\ I[x].over = NoIo
                      /\ \A q \in DOMAIN P : ~Holds(P, q, x)
                      /\ \A v \in Ios : Wraps(I, L2, v, x) => v = w
    BY DEF Wrapped
  <2>1. Wraps(I2, L, w, x)
    BY <1>2
  <2> QED
    BY <1>g, <1>1, <1>2, <1>3, <2>1 DEF Good, Wrapped
<1>8. Kept(P, I, H, L2)
  <2> SUFFICES ASSUME NEW x \in DOMAIN I \ L2, x \notin H
               PROVE  \/ \E q \in DOMAIN P : Holds(P, q, x)
                      \/ \E w \in DOMAIN I : Wraps(I, L2, w, x)
    BY DEF Kept
  <2> QED
    BY <1>g, <1>1, <1>2, <1>3 DEF Good, Kept
<1>9. Inner(P, I)
  <2> SUFFICES ASSUME NEW q \in DOMAIN P, NEW x \in DOMAIN I, Holds(P, q, x),
                      I[x].over # NoIo, ~I[x].owns
               PROVE  P[q].parent \in DOMAIN P /\ P[P[q].parent].io = I[x].over
    BY DEF Inner
  <2>1. x \in DOMAIN I2
    BY <1>g DEF Good, Held, Types
  <2> QED
    BY <1>g, <1>1, <2>1 DEF Good, Inner
<1> QED
  BY <1>g, <1>4, <1>5, <1>6, <1>7, <1>8, <1>9 DEF Good

\* ... nothing changes about the profiles that own an IO.
LEMMA HoldersGood ==
  ASSUME NEW P, NEW I, NEW H, NEW L, Good(P, I, H, L), NEW P2,
         P2 \in [DOMAIN P2 -> ProfileStates], DOMAIN P2 \subseteq Profiles,
         \A q, x : q \in DOMAIN P2 /\ Holds(P2, q, x) <=> q \in DOMAIN P /\ Holds(P, q, x),
         \A q \in DOMAIN P2 : P2[q].shared /\ P2[q].io # NoIo =>
           \E r \in DOMAIN P : Holds(P, r, P2[q].io),
         Inner(P2, I)
  PROVE  Good(P2, I, H, L)
<1>1. Types(P2, I, H, L)
  BY DEF Good, Types
<1>2. InHand(P2, I, H, L)
  BY DEF Good, InHand
<1>3. Held(P2, I, H, L)
  BY DEF Good, Held
<1>4. Wrapped(P2, I, H, L)
  BY DEF Good, Wrapped
<1>5. Kept(P2, I, H, L)
  BY DEF Good, Kept
<1>6. Lent(P2)
  <2> SUFFICES ASSUME NEW q \in DOMAIN P2, P2[q].shared, P2[q].io # NoIo
               PROVE  \E r \in DOMAIN P2 : Holds(P2, r, P2[q].io)
    BY DEF Lent
  <2>1. PICK r \in DOMAIN P : Holds(P, r, P2[q].io)
    OBVIOUS
  <2> QED
    BY <2>1
<1> QED
  BY <1>1, <1>2, <1>3, <1>4, <1>5, <1>6 DEF Good

\* ... profiles go that have no IO, with all that is in their tags.
LEMMA DropGood ==
  ASSUME NEW P, NEW I, NEW H, NEW L, Good(P, I, H, L), NEW S,
         \A q \in DOMAIN P \cap S : P[q].io = NoIo,
         \A r \in DOMAIN P : P[r].parent \in S => r \in S
  PROVE  Good(Cut(P, S), I, H, L)
<1> DEFINE P2 == Cut(P, S)
<1>1. /\ DOMAIN P2 = DOMAIN P \ S /\ \A q \in DOMAIN P2 : P2[q] = P[q]
      /\ P2 \in [DOMAIN P2 -> ProfileStates] /\ DOMAIN P2 \subseteq Profiles
  <2>1. P \in [DOMAIN P -> ProfileStates] /\ DOMAIN P \subseteq Profiles
    BY DEF Good, Types
  <2> QED
    BY <2>1, CutIs
<1> HIDE DEF P2
<1>2. \A q, x : q \in DOMAIN P2 /\ Holds(P2, q, x) <=> q \in DOMAIN P /\ Holds(P, q, x)
  BY <1>1 DEF Holds
<1>3. \A q \in DOMAIN P2 : P2[q].shared /\ P2[q].io # NoIo =>
        \E r \in DOMAIN P : Holds(P, r, P2[q].io)
  BY <1>1 DEF Good, Lent
<1>4. Inner(P2, I)
  BY <1>1, <1>2 DEF Good, Inner
<1>5. Good(P2, I, H, L)
  BY <1>1, <1>2, <1>3, <1>4, HoldersGood
<1> QED
  BY <1>5 DEF P2

\* ... there is a new profile, with no IO.
LEMMA NewGood ==
  ASSUME NEW P, NEW I, NEW H, NEW L, Good(P, I, H, L), NEW q \in Profiles \ DOMAIN P,
         NEW v \in ProfileStates, v.io = NoIo
  PROVE  Good(Put(P, q, v), I, H, L)
<1> DEFINE P2 == Put(P, q, v)
<1>1. /\ DOMAIN P2 = DOMAIN P \cup {q} /\ P2[q] = v /\ \A r \in DOMAIN P : P2[r] = P[r]
      /\ P2 \in [DOMAIN P2 -> ProfileStates] /\ DOMAIN P2 \subseteq Profiles
  <2>1. P \in [DOMAIN P -> ProfileStates] /\ DOMAIN P \subseteq Profiles
    BY DEF Good, Types
  <2>2. /\ DOMAIN P2 = DOMAIN P \cup {q} /\ P2[q] = v
        /\ \A r \in DOMAIN P : r # q => P2[r] = P[r]
    BY DEF Put
  <2>3. P2 \in [DOMAIN P \cup {q} -> ProfileStates]
    BY <2>1, PutType
  <2> HIDE DEF P2
  <2> QED
    BY <2>1, <2>2, <2>3
<1> HIDE DEF P2
<1>2. \A r, x : r \in DOMAIN P2 /\ Holds(P2, r, x) <=> r \in DOMAIN P /\ Holds(P, r, x)
  BY <1>1 DEF Holds
<1>3. \A r \in DOMAIN P2 : P2[r].shared /\ P2[r].io # NoIo =>
        \E s \in DOMAIN P : Holds(P, s, P2[r].io)
  BY <1>1 DEF Good, Lent
<1>4. Inner(P2, I)
  BY <1>1, <1>2 DEF Good, Inner
<1>5. Good(P2, I, H, L)
  BY <1>1, <1>2, <1>3, <1>4, HoldersGood
<1> QED
  BY <1>5 DEF P2

\* ... a profile has other tags.
LEMMA DirGood ==
  ASSUME NEW P, NEW I, NEW H, NEW L, Good(P, I, H, L), NEW q \in DOMAIN P, NEW dir \in Dirs
  PROVE  Good(Put(P, q, [P[q] EXCEPT !.dir = dir]), I, H, L)
<1> DEFINE v == [P[q] EXCEPT !.dir = dir]
           P2 == Put(P, q, v)
<1>0. P \in [DOMAIN P -> ProfileStates] /\ DOMAIN P \subseteq Profiles
  BY DEF Good, Types
<1>1. /\ v \in ProfileStates /\ v.io = P[q].io /\ v.shared = P[q].shared
      /\ v.parent = P[q].parent
  BY <1>0 DEF ProfileStates
<1> HIDE DEF v
<1>2. /\ DOMAIN P2 = DOMAIN P
      /\ \A r \in DOMAIN P : /\ P2[r].io = P[r].io /\ P2[r].shared = P[r].shared
                             /\ P2[r].parent = P[r].parent
      /\ P2 \in [DOMAIN P2 -> ProfileStates] /\ DOMAIN P2 \subseteq Profiles
  <2>1. /\ DOMAIN P2 = DOMAIN P \cup {q} /\ P2[q] = v
        /\ \A r \in DOMAIN P : r # q => P2[r] = P[r]
    BY DEF Put
  <2>2. P2 \in [DOMAIN P \cup {q} -> ProfileStates]
    BY <1>0, <1>1, PutType
  <2> HIDE DEF P2
  <2> QED
    BY <1>0, <1>1, <2>1, <2>2
<1> HIDE DEF P2
<1>3. \A r, x : r \in DOMAIN P2 /\ Holds(P2, r, x) <=> r \in DOMAIN P /\ Holds(P, r, x)
  BY <1>2 DEF Holds
<1>4. \A r \in DOMAIN P2 : P2[r].shared /\ P2[r].io # NoIo =>
        \E s \in DOMAIN P : Holds(P, s, P2[r].io)
  BY <1>2 DEF Good, Lent
<1>5. Inner(P2, I)
  BY <1>2, <1>3 DEF Good, Inner
<1>6. Good(P2, I, H, L)
  BY <1>2, <1>3, <1>4, <1>5, HoldersGood
<1> QED
  BY <1>6 DEF P2, v

\* ... a profile goes into a tag of another.
LEMMA EmbedGood ==
  ASSUME NEW P, NEW I, NEW H, NEW L, Good(P, I, H, L), NEW q \in DOMAIN P, NEW r \in DOMAIN P,
         P[r].parent = NoProfile, q # r
  PROVE  Good([P EXCEPT ![q].dir = "read", ![r].parent = q], I, H, L)
<1> DEFINE P2 == [P EXCEPT ![q].dir = "read", ![r].parent = q]
<1>0. /\ P \in [DOMAIN P -> ProfileStates] /\ DOMAIN P \subseteq Profiles
      /\ NoProfile \notin DOMAIN P
  BY ObjectsAssumption DEF Good, Types
<1>1. /\ DOMAIN P2 = DOMAIN P /\ P2[q] = [P[q] EXCEPT !.dir = "read"]
      /\ P2[r] = [P[r] EXCEPT !.parent = q]
      /\ \A s \in DOMAIN P : s # q /\ s # r => P2[s] = P[s]
      /\ P2 = [s \in DOMAIN P |-> P2[s]]
  BY <1>0
<1> HIDE DEF P2
<1>2. \A s \in DOMAIN P : /\ P2[s] \in ProfileStates
                          /\ P2[s].io = P[s].io /\ P2[s].shared = P[s].shared
                          /\ s # r => P2[s].parent = P[s].parent
  <2>1. P[q] \in ProfileStates /\ P[r] \in ProfileStates /\ q \in Profiles
    BY <1>0
  <2>2. /\ P2[q] \in ProfileStates /\ P2[q].io = P[q].io /\ P2[q].shared = P[q].shared
        /\ P2[q].parent = P[q].parent
    BY <1>1, <2>1 DEF ProfileStates, Dirs
  <2>3. /\ P2[r] \in ProfileStates /\ P2[r].io = P[r].io /\ P2[r].shared = P[r].shared
    BY <1>1, <2>1 DEF ProfileStates
  <2> QED
    BY <1>0, <1>1, <2>2, <2>3
<1>3. P2 \in [DOMAIN P2 -> ProfileStates] /\ DOMAIN P2 \subseteq Profiles
  BY <1>0, <1>1, <1>2
<1>4. \A s, x : s \in DOMAIN P2 /\ Holds(P2, s, x) <=> s \in DOMAIN P /\ Holds(P, s, x)
  BY <1>1, <1>2 DEF Holds
<1>5. \A s \in DOMAIN P2 : P2[s].shared /\ P2[s].io # NoIo =>
        \E t \in DOMAIN P : Holds(P, t, P2[s].io)
  BY <1>1, <1>2 DEF Good, Lent
<1>6. Inner(P2, I)
  <2> SUFFICES ASSUME NEW s \in DOMAIN P, NEW x \in DOMAIN I, Holds(P2, s, x),
                      I[x].over # NoIo, ~I[x].owns
               PROVE  P2[s].parent \in DOMAIN P /\ P2[P2[s].parent].io = I[x].over
    BY <1>1 DEF Inner
  <2>1. Holds(P, s, x)
    BY <1>1, <1>4
  <2>2. P[s].parent \in DOMAIN P /\ P[P[s].parent].io = I[x].over
    BY <2>1 DEF Good, Inner
  <2>3. s # r
    BY <1>0, <2>2
  <2> QED
    BY <1>2, <2>2, <2>3
<1>7. Good(P2, I, H, L)
  BY <1>3, <1>4, <1>5, <1>6, HoldersGood
<1> QED
  BY <1>7 DEF P2

\* ... a profile borrows the IO of another.
LEMMA BorrowGood ==
  ASSUME NEW P, NEW I, NEW H, NEW L, Good(P, I, H, L), NEW q \in DOMAIN P, NEW p \in DOMAIN P,
         P[q].io = NoIo
  PROVE  Good([P EXCEPT ![q].io = P[p].io, ![q].shared = TRUE], I, H, L)
<1> DEFINE P2 == [P EXCEPT ![q].io = P[p].io, ![q].shared = TRUE]
<1>0. P \in [DOMAIN P -> ProfileStates] /\ DOMAIN P \subseteq Profiles
  BY DEF Good, Types
<1>1. /\ DOMAIN P2 = DOMAIN P /\ P2[q] = [P[q] EXCEPT !.io = P[p].io, !.shared = TRUE]
      /\ \A s \in DOMAIN P : s # q => P2[s] = P[s]
      /\ P2 = [s \in DOMAIN P |-> P2[s]]
  BY <1>0
<1> HIDE DEF P2
<1>2. /\ P2[q] \in ProfileStates /\ P2[q].io = P[p].io /\ P2[q].shared
      /\ P2[q].parent = P[q].parent
  <2>1. P[q] \in ProfileStates /\ P[p].io \in Ios \cup {NoIo}
    BY <1>0 DEF ProfileStates
  <2> QED
    BY <1>1, <2>1 DEF ProfileStates
<1>3. P2 \in [DOMAIN P2 -> ProfileStates] /\ DOMAIN P2 \subseteq Profiles
  BY <1>0, <1>1, <1>2
<1>4. \A s, x : s \in DOMAIN P2 /\ Holds(P2, s, x) <=> s \in DOMAIN P /\ Holds(P, s, x)
  BY <1>1, <1>2 DEF Holds
<1>5. \A s \in DOMAIN P2 : P2[s].shared /\ P2[s].io # NoIo =>
        \E t \in DOMAIN P : Holds(P, t, P2[s].io)
  <2> SUFFICES ASSUME NEW s \in DOMAIN P, P2[s].shared, P2[s].io # NoIo
               PROVE  \E t \in DOMAIN P : Holds(P, t, P2[s].io)
    BY <1>1
  <2>1. CASE s # q
    BY <1>1, <2>1 DEF Good, Lent
  <2>2. CASE s = q /\ P[p].shared
    BY <1>2, <2>2 DEF Good, Lent
  <2>3. CASE s = q /\ ~P[p].shared
    BY <1>2, <2>3 DEF Holds
  <2> QED
    BY <2>1, <2>2, <2>3
<1>6. Inner(P2, I)
  <2> SUFFICES ASSUME NEW s \in DOMAIN P, NEW x \in DOMAIN I, Holds(P2, s, x),
                      I[x].over # NoIo, ~I[x].owns
               PROVE  P2[s].parent \in DOMAIN P /\ P2[P2[s].parent].io = I[x].over
    BY <1>1 DEF Inner
  <2>1. Holds(P, s, x)
    BY <1>1, <1>4
  <2>2. P[s].parent \in DOMAIN P /\ P[P[s].parent].io = I[x].over
    BY <2>1 DEF Good, Inner
  <2>3. P[s].parent # q /\ s # q
    BY <2>1, <2>2 DEF Holds
  <2> QED
    BY <1>1, <2>2, <2>3
<1>7. Good(P2, I, H, L)
  BY <1>3, <1>4, <1>5, <1>6, HoldersGood
<1> QED
  BY <1>7 DEF P2
-----------------------------------------------------------------------------
\* ... the client opens an IO.
LEMMA OpenGood ==
  ASSUME NEW P, NEW I, NEW H, NEW L, Good(P, I, H, L), NEW x \in Ios \ DOMAIN I
  PROVE  Good(P, Put(I, x, Plain), H \cup {x}, L)
<1> DEFINE I2 == Put(I, x, Plain)
<1>0. Types(P, I, H, L)
  BY DEF Good
<1>1. /\ DOMAIN I2 = DOMAIN I \cup {x} /\ I2[x] = Plain
      /\ \A y \in DOMAIN I : I2[y] = I[y]
  BY DEF Put
<1>2. I2 \in [DOMAIN I \cup {x} -> Kinds]
  <2>1. Plain \in Kinds
    BY DEF Plain, Kinds
  <2> QED
    BY <1>0, <2>1, PutType DEF Types
<1> HIDE DEF I2
<1>3. \A w, y : Wraps(I2, L, w, y) <=> Wraps(I, L, w, y)
  BY <1>1 DEF Wraps, Plain
<1>4. Types(P, I2, H \cup {x}, L)
  BY <1>0, <1>1, <1>2 DEF Types
<1>5. InHand(P, I2, H \cup {x}, L)
  BY <1>0, <1>1 DEF Good, InHand, Plain, Types
<1>6. Held(P, I2, H \cup {x}, L)
  BY <1>1 DEF Good, Held
<1>7. Wrapped(P, I2, H \cup {x}, L)
  <2> SUFFICES ASSUME NEW w \in Ios, NEW y \in Ios \cup {NoIo}, Wraps(I2, L, w, y)
               PROVE  /\ y \in DOMAIN I2 \ (H \cup {x} \cup L)
                      /\ I2[y].over = NoIo
                      /\ \A q \in DOMAIN P : ~Holds(P, q, y)
                      /\ \A v \in Ios : Wraps(I2, L, v, y) => v = w
    BY DEF Wrapped
  <2>1. Wraps(I, L, w, y)
    BY <1>3
  <2> QED
    BY <1>1, <1>3, <2>1 DEF Good, Wrapped
<1>8. Kept(P, I2, H \cup {x}, L)
  <2> SUFFICES ASSUME NEW y \in DOMAIN I \ L, y \notin H
               PROVE  \/ \E q \in DOMAIN P : Holds(P, q, y)
                      \/ \E w \in DOMAIN I2 : Wraps(I2, L, w, y)
    BY <1>1 DEF Kept
  <2> QED
    BY <1>1, <1>3 DEF Good, Kept
<1>9. Inner(P, I2)
  <2> SUFFICES ASSUME NEW q \in DOMAIN P, NEW y \in DOMAIN I2, Holds(P, q, y),
                      I2[y].over # NoIo, ~I2[y].owns
               PROVE  P[q].parent \in DOMAIN P /\ P[P[q].parent].io = I2[y].over
    BY DEF Inner
  <2>1. y # x
    BY <1>1 DEF Plain
  <2> QED
    BY <1>1, <2>1 DEF Good, Inner
<1> QED
  BY <1>4, <1>5, <1>6, <1>7, <1>8, <1>9 DEF Good, I2

\* ... the client deletes one it has.
LEMMA CloseGood ==
  ASSUME NEW P, NEW I, NEW H, NEW L, Good(P, I, H, L), NEW x \in H
  PROVE  Good(P, Cut(I, {x}), H \ {x}, L)
<1> DEFINE I2 == Cut(I, {x})
           H2 == H \ {x}
<1>0. Types(P, I, H, L)
  BY DEF Good
<1>1. /\ DOMAIN I2 = DOMAIN I \ {x} /\ \A y \in DOMAIN I2 : I2[y] = I[y]
  BY DEF Cut
<1>2. I2 \in [DOMAIN I2 -> Kinds]
  BY <1>0, CutIs DEF Types
<1> HIDE DEF I2
<1>a. \A w : ~Wraps(I, L, x, w)
  BY DEF Good, InHand, Wraps
<1>3. \A w, y : Wraps(I2, L, w, y) <=> Wraps(I, L, w, y)
  BY <1>1, <1>a DEF Wraps
<1>4. Types(P, I2, H2, L)
  BY <1>0, <1>1, <1>2 DEF Types
<1>5. InHand(P, I2, H2, L)
  BY <1>0, <1>1 DEF Good, InHand, Types
<1>6. Held(P, I2, H2, L)
  BY <1>1 DEF Good, Held
<1>7. Wrapped(P, I2, H2, L)
  <2> SUFFICES ASSUME NEW w \in Ios, NEW y \in Ios \cup {NoIo}, Wraps(I2, L, w, y)
               PROVE  /\ y \in DOMAIN I2 \ (H2 \cup L)
                      /\ I2[y].over = NoIo
                      /\ \A q \in DOMAIN P : ~Holds(P, q, y)
                      /\ \A v \in Ios : Wraps(I2, L, v, y) => v = w
    BY DEF Wrapped
  <2>1. Wraps(I, L, w, y)
    BY <1>3
  <2>2. y \in DOMAIN I \ (H \cup L) /\ I[y].over = NoIo
    BY <2>1 DEF Good, Wrapped
  <2>3. y \in DOMAIN I2 /\ y \notin H2 \cup L /\ I2[y] = I[y]
    BY <1>1, <2>2
  <2> QED
    BY <1>3, <2>1, <2>2, <2>3 DEF Good, Wrapped
<1>8. Kept(P, I2, H2, L)
  <2> SUFFICES ASSUME NEW y \in DOMAIN I \ L, y \notin H
               PROVE  \/ \E q \in DOMAIN P : Holds(P, q, y)
                      \/ \E w \in DOMAIN I2 : Wraps(I2, L, w, y)
    BY <1>1 DEF Kept
  <2>1. CASE \E w \in DOMAIN I : Wraps(I, L, w, y)
    <3>1. PICK w \in DOMAIN I : Wraps(I, L, w, y)
      BY <2>1
    <3>2. w # x
      BY <1>a, <3>1
    <3> QED
      BY <1>1, <1>3, <3>1, <3>2
  <2> QED
    BY <2>1 DEF Good, Kept
<1>9. Inner(P, I2)
  BY <1>1 DEF Good, Inner
<1> QED
  BY <1>4, <1>5, <1>6, <1>7, <1>8, <1>9 DEF Good, I2

\* ... a profile takes one over.
LEMMA TakeGood ==
  ASSUME NEW P, NEW I, NEW H, NEW L, Good(P, I, H, L), NEW q \in DOMAIN P, NEW x \in H,
         P[q].io = NoIo
  PROVE  Good(Put(P, q, [P[q] EXCEPT !.io = x, !.shared = FALSE]), I, H \ {x}, L)
<1> DEFINE v == [P[q] EXCEPT !.io = x, !.shared = FALSE]
           P2 == Put(P, q, v)
           H2 == H \ {x}
<1>0. Types(P, I, H, L) /\ P[q] \in ProfileStates /\ x \in Ios /\ NoIo \notin Ios
  BY ObjectsAssumption DEF Good, Types
<1>1. v \in ProfileStates /\ v.io = x /\ ~v.shared
  BY <1>0 DEF ProfileStates
<1> HIDE DEF v
<1>2. /\ DOMAIN P2 = DOMAIN P /\ P2[q] = v /\ \A r \in DOMAIN P : r # q => P2[r] = P[r]
  BY DEF Put
<1>3. P2 \in [DOMAIN P2 -> ProfileStates]
  <2>1. P2 \in [DOMAIN P \cup {q} -> ProfileStates]
    BY <1>0, <1>1, PutType DEF Types
  <2> QED
    BY <2>1, <1>2
<1> HIDE DEF P2
<1>4. \A r \in DOMAIN P : \A y : Holds(P2, r, y) <=> Holds(P, r, y) \/ (r = q /\ y = x)
  BY <1>0, <1>1, <1>2 DEF Holds
<1>5. \A r \in DOMAIN P : ~Holds(P, r, x)
  BY <1>0 DEF Good, Held
<1>6. Types(P2, I, H2, L)
  BY <1>0, <1>2, <1>3 DEF Types
<1>7. InHand(P2, I, H2, L)
  BY DEF Good, InHand
<1>8. Held(P2, I, H2, L)
  <2> SUFFICES ASSUME NEW r \in DOMAIN P, NEW y \in Ios, Holds(P2, r, y)
               PROVE  /\ y \in DOMAIN I \ (H2 \cup L)
                      /\ \A s \in DOMAIN P : Holds(P2, s, y) => s = r
    BY <1>2 DEF Held
  <2>1. CASE y = x
    BY <1>0, <1>4, <1>5, <2>1 DEF Types
  <2>2. CASE y # x
    BY <1>4, <2>2 DEF Good, Held
  <2> QED
    BY <2>1, <2>2
<1>9. Wrapped(P2, I, H2, L)
  <2> SUFFICES ASSUME NEW w \in Ios, NEW y \in Ios \cup {NoIo}, Wraps(I, L, w, y)
               PROVE  /\ y \in DOMAIN I \ (H2 \cup L)
                      /\ I[y].over = NoIo
                      /\ \A r \in DOMAIN P : ~Holds(P2, r, y)
                      /\ \A u \in Ios : Wraps(I, L, u, y) => u = w
    BY <1>2 DEF Wrapped
  <2>1. /\ y \in DOMAIN I \ (H \cup L) /\ I[y].over = NoIo
        /\ \A r \in DOMAIN P : ~Holds(P, r, y)
        /\ \A u \in Ios : Wraps(I, L, u, y) => u = w
    BY DEF Good, Wrapped
  <2> QED
    BY <1>4, <2>1
<1>10. Kept(P2, I, H2, L)
  BY <1>2, <1>4 DEF Good, Kept
<1>11. Lent(P2)
  <2> SUFFICES ASSUME NEW r \in DOMAIN P, P2[r].shared, P2[r].io # NoIo
               PROVE  \E s \in DOMAIN P : Holds(P2, s, P2[r].io)
    BY <1>2 DEF Lent
  <2>1. r # q /\ P2[r] = P[r]
    BY <1>1, <1>2
  <2>2. PICK s \in DOMAIN P : Holds(P, s, P[r].io)
    BY <2>1 DEF Good, Lent
  <2> QED
    BY <1>4, <2>1, <2>2
<1>12. Inner(P2, I)
  <2> SUFFICES ASSUME NEW r \in DOMAIN P, NEW y \in DOMAIN I, Holds(P2, r, y),
                      I[y].over # NoIo, ~I[y].owns
               PROVE  P2[r].parent \in DOMAIN P /\ P2[P2[r].parent].io = I[y].over
    BY <1>2 DEF Inner
  <2>1. y # x
    BY DEF Good, InHand
  <2>2. Holds(P, r, y)
    BY <1>4, <2>1
  <2>3. r # q
    BY <2>2 DEF Holds
  <2>4. P[r].parent \in DOMAIN P /\ P[P[r].parent].io = I[y].over
    BY <2>2 DEF Good, Inner
  <2> QED
    BY <1>2, <2>3, <2>4
<1> QED
  BY <1>6, <1>7, <1>8, <1>9, <1>10, <1>11, <1>12 DEF Good, P2, v

\* A window onto x.
Window(x, owns) == [over |-> x, owns |-> owns]

\* ... a profile takes one over in a window that owns it.
LEMMA WrapGood ==
  ASSUME NEW P, NEW I, NEW H, NEW L, Good(P, I, H, L), NEW q \in DOMAIN P, NEW x \in H,
         NEW w \in Ios \ DOMAIN I, P[q].io = NoIo
  PROVE  Good(Put(P, q, [P[q] EXCEPT !.io = w, !.shared = FALSE]),
              Put(I, w, Window(x, TRUE)), H \ {x}, L)
<1> DEFINE v == [P[q] EXCEPT !.io = w, !.shared = FALSE]
           P2 == Put(P, q, v)
           I2 == Put(I, w, Window(x, TRUE))
           H2 == H \ {x}
<1>0. /\ Types(P, I, H, L) /\ P[q] \in ProfileStates /\ x \in Ios /\ NoIo \notin Ios
      /\ x \in DOMAIN I \ L /\ x # w /\ w \notin L
  BY ObjectsAssumption DEF Good, Types
<1>1. v \in ProfileStates /\ v.io = w /\ ~v.shared
  BY <1>0 DEF ProfileStates
<1> HIDE DEF v
<1>2. /\ DOMAIN P2 = DOMAIN P /\ P2[q] = v /\ \A r \in DOMAIN P : r # q => P2[r] = P[r]
  BY DEF Put
<1>3. P2 \in [DOMAIN P2 -> ProfileStates]
  <2>1. P2 \in [DOMAIN P \cup {q} -> ProfileStates]
    BY <1>0, <1>1, PutType DEF Types
  <2> QED
    BY <2>1, <1>2
<1>a. /\ DOMAIN I2 = DOMAIN I \cup {w} /\ I2[w] = Window(x, TRUE)
      /\ \A y \in DOMAIN I : I2[y] = I[y]
  BY DEF Put
<1>b. I2 \in [DOMAIN I \cup {w} -> Kinds]
  <2>1. Window(x, TRUE) \in Kinds
    BY <1>0 DEF Window, Kinds
  <2> QED
    BY <1>0, <2>1, PutType DEF Types
<1> HIDE DEF P2, I2
<1>4. \A r \in DOMAIN P : \A y : Holds(P2, r, y) <=> Holds(P, r, y) \/ (r = q /\ y = w)
  BY <1>0, <1>1, <1>2 DEF Holds
<1>c. \A u, y : Wraps(I2, L, u, y) <=> Wraps(I, L, u, y) \/ (u = w /\ y = x)
  BY <1>0, <1>a DEF Wraps, Window
<1>5. \A r \in DOMAIN P : ~Holds(P, r, x) /\ ~Holds(P, r, w)
  BY <1>0 DEF Good, Held
<1>d. \A u \in Ios : ~Wraps(I, L, u, x) /\ ~Wraps(I, L, u, w)
  BY <1>0 DEF Good, Wrapped
<1>6. Types(P2, I2, H2, L)
  BY <1>0, <1>2, <1>3, <1>a, <1>b DEF Types
<1>7. InHand(P2, I2, H2, L)
  BY <1>0, <1>a DEF Good, InHand, Types
<1>8. Held(P2, I2, H2, L)
  <2> SUFFICES ASSUME NEW r \in DOMAIN P, NEW y \in Ios, Holds(P2, r, y)
               PROVE  /\ y \in DOMAIN I2 \ (H2 \cup L)
                      /\ \A s \in DOMAIN P : Holds(P2, s, y) => s = r
    BY <1>2 DEF Held
  <2>1. CASE y = w
    BY <1>0, <1>4, <1>5, <1>a, <2>1 DEF Types
  <2>2. CASE y # w
    BY <1>4, <1>a, <2>2 DEF Good, Held
  <2> QED
    BY <2>1, <2>2
<1>9. Wrapped(P2, I2, H2, L)
  <2> SUFFICES ASSUME NEW u \in Ios, NEW y \in Ios \cup {NoIo}, Wraps(I2, L, u, y)
               PROVE  /\ y \in DOMAIN I2 \ (H2 \cup L)
                      /\ I2[y].over = NoIo
                      /\ \A r \in DOMAIN P : ~Holds(P2, r, y)
                      /\ \A t \in Ios : Wraps(I2, L, t, y) => t = u
    BY <1>2 DEF Wrapped
  <2>1. CASE u = w /\ y = x
    <3>1. I[x].over = NoIo
      BY DEF Good, InHand
    <3>2. x \in DOMAIN I2 \ (H2 \cup L) /\ I2[x].over = NoIo
      BY <1>0, <1>a, <3>1
    <3>3. \A r \in DOMAIN P : ~Holds(P2, r, x)
      BY <1>0, <1>4, <1>5
    <3>4. \A t \in Ios : Wraps(I2, L, t, x) => t = w
      BY <1>c, <1>d
    <3> QED
      BY <2>1, <3>2, <3>3, <3>4
  <2>2. CASE Wraps(I, L, u, y)
    <3>1. /\ y \in DOMAIN I \ (H \cup L) /\ I[y].over = NoIo
          /\ \A r \in DOMAIN P : ~Holds(P, r, y)
          /\ \A t \in Ios : Wraps(I, L, t, y) => t = u
      BY <2>2 DEF Good, Wrapped
    <3>2. y # x /\ y # w
      BY <3>1
    <3> QED
      BY <1>4, <1>a, <1>c, <3>1, <3>2
  <2> QED
    BY <1>c, <2>1, <2>2
<1>10. Kept(P2, I2, H2, L)
  <2> SUFFICES ASSUME NEW y \in DOMAIN I2 \ L, y \notin H2
               PROVE  \/ \E r \in DOMAIN P : Holds(P2, r, y)
                      \/ \E u \in DOMAIN I2 : Wraps(I2, L, u, y)
    BY <1>2 DEF Kept
  <2>1. CASE y = w
    BY <1>4, <2>1
  <2>2. CASE y = x
    BY <1>a, <1>c, <2>2
  <2>3. CASE y # w /\ y # x
    <3>1. \/ \E r \in DOMAIN P : Holds(P, r, y)
          \/ \E u \in DOMAIN I : Wraps(I, L, u, y)
      BY <1>a, <2>3 DEF Good, Kept
    <3> QED
      BY <1>4, <1>a, <1>c, <3>1
  <2> QED
    BY <2>1, <2>2, <2>3
<1>11. Lent(P2)
  <2> SUFFICES ASSUME NEW r \in DOMAIN P, P2[r].shared, P2[r].io # NoIo
               PROVE  \E s \in DOMAIN P : Holds(P2, s, P2[r].io)
    BY <1>2 DEF Lent
  <2>1. r # q /\ P2[r] = P[r]
    BY <1>1, <1>2
  <2>2. PICK s \in DOMAIN P : Holds(P, s, P[r].io)
    BY <2>1 DEF Good, Lent
  <2> QED
    BY <1>4, <2>1, <2>2
<1>12. Inner(P2, I2)
  <2> SUFFICES ASSUME NEW r \in DOMAIN P, NEW y \in DOMAIN I2, Holds(P2, r, y),
                      I2[y].over # NoIo, ~I2[y].owns
               PROVE  P2[r].parent \in DOMAIN P /\ P2[P2[r].parent].io = I2[y].over
    BY <1>2 DEF Inner
  <2>1. y # w
    BY <1>a DEF Window
  <2>2. Holds(P, r, y) /\ y \in DOMAIN I /\ I2[y] = I[y]
    BY <1>4, <1>a, <2>1
  <2>3. r # q
    BY <2>2 DEF Holds
  <2>4. P[r].parent \in DOMAIN P /\ P[P[r].parent].io = I[y].over
    BY <2>2 DEF Good, Inner
  <2>5. P[r].parent # q
    BY <2>2, <2>4
  <2> QED
    BY <1>2, <2>2, <2>3, <2>4, <2>5
<1> QED
  BY <1>6, <1>7, <1>8, <1>9, <1>10, <1>11, <1>12 DEF Good, P2, I2, v

\* ... a window is left behind that nobody has.
LEMMA LeftGood ==
  ASSUME NEW P, NEW I, NEW H, NEW L, Good(P, I, H, L), NEW x \in H, NEW w \in Ios \ DOMAIN I
  PROVE  Good(P, Put(I, w, Window(x, TRUE)), H, L \cup {w})
<1> DEFINE I2 == Put(I, w, Window(x, TRUE))
           L2 == L \cup {w}
<1>0. Types(P, I, H, L) /\ x \in Ios
  BY DEF Good, Types
<1>a. /\ DOMAIN I2 = DOMAIN I \cup {w} /\ I2[w] = Window(x, TRUE)
      /\ \A y \in DOMAIN I : I2[y] = I[y]
  BY DEF Put
<1>b. I2 \in [DOMAIN I \cup {w} -> Kinds]
  <2>1. Window(x, TRUE) \in Kinds
    BY <1>0 DEF Window, Kinds
  <2> QED
    BY <1>0, <2>1, PutType DEF Types
<1> HIDE DEF I2
<1>c. \A u, y : Wraps(I2, L2, u, y) <=> Wraps(I, L, u, y)
  BY <1>a DEF Wraps
<1>6. Types(P, I2, H, L2)
  BY <1>0, <1>a, <1>b DEF Types
<1>7. InHand(P, I2, H, L2)
  BY <1>0, <1>a DEF Good, InHand, Types
<1>8. Held(P, I2, H, L2)
  BY <1>a DEF Good, Held
<1>9. Wrapped(P, I2, H, L2)
  <2> SUFFICES ASSUME NEW u \in Ios, NEW y \in Ios \cup {NoIo}, Wraps(I2, L2, u, y)
               PROVE  /\ y \in DOMAIN I2 \ (H \cup L2)
                      /\ I2[y].over = NoIo
                      /\ \A r \in DOMAIN P : ~Holds(P, r, y)
                      /\ \A t \in Ios : Wraps(I2, L2, t, y) => t = u
    BY DEF Wrapped
  <2>1. Wraps(I, L, u, y)
    BY <1>c
  <2> QED
    BY <1>a, <1>c, <2>1 DEF Good, Wrapped
<1>10. Kept(P, I2, H, L2)
  <2> SUFFICES ASSUME NEW y \in DOMAIN I \ L, y \notin H
               PROVE  \/ \E r \in DOMAIN P : Holds(P, r, y)
                      \/ \E u \in DOMAIN I2 : Wraps(I2, L2, u, y)
    BY <1>a DEF Kept
  <2> QED
    BY <1>a, <1>c DEF Good, Kept
<1>11. Inner(P, I2)
  <2> SUFFICES ASSUME NEW r \in DOMAIN P, NEW y \in DOMAIN I2, Holds(P, r, y),
                      I2[y].over # NoIo, ~I2[y].owns
               PROVE  P[r].parent \in DOMAIN P /\ P[P[r].parent].io = I2[y].over
    BY DEF Inner
  <2>1. y \in DOMAIN I
    BY <1>a DEF Window
  <2> QED
    BY <1>a, <2>1 DEF Good, Inner
<1> QED
  BY <1>6, <1>7, <1>8, <1>9, <1>10, <1>11 DEF Good, I2

\* ... a profile in a tag is attached to a window onto the IO of the one around.
LEMMA ChildGood ==
  ASSUME NEW P, NEW I, NEW H, NEW L, Good(P, I, H, L), NEW q \in DOMAIN P,
         P[q].io # NoIo, NEW c \in Profiles \ DOMAIN P, NEW w \in Ios \ DOMAIN I,
         NEW dir \in Dirs
  PROVE  Good(Put(P, c, [parent |-> q, dir |-> dir, io |-> w, shared |-> FALSE]),
              Put(I, w, Window(P[q].io, FALSE)), H, L)
<1> DEFINE v == [parent |-> q, dir |-> dir, io |-> w, shared |-> FALSE]
           P2 == Put(P, c, v)
           x == P[q].io
           I2 == Put(I, w, Window(x, FALSE))
<1>0. /\ Types(P, I, H, L) /\ P[q] \in ProfileStates /\ NoIo \notin Ios
      /\ q \in Profiles /\ w \notin H \cup L /\ x \in Ios \cup {NoIo}
  <2>1. Types(P, I, H, L) /\ P[q] \in ProfileStates /\ q \in Profiles
    BY DEF Good, Types
  <2> QED
    BY <2>1, ObjectsAssumption DEF ProfileStates, Types
<1>1. v \in ProfileStates /\ v.io = w /\ ~v.shared /\ v.parent = q
  BY <1>0 DEF ProfileStates
<1> HIDE DEF v, x
<1>2. /\ DOMAIN P2 = DOMAIN P \cup {c} /\ P2[c] = v /\ \A r \in DOMAIN P : P2[r] = P[r]
  BY DEF Put
<1>3. P2 \in [DOMAIN P \cup {c} -> ProfileStates]
  BY <1>0, <1>1, PutType DEF Types
<1>a. /\ DOMAIN I2 = DOMAIN I \cup {w} /\ I2[w] = Window(x, FALSE)
      /\ \A y \in DOMAIN I : I2[y] = I[y]
  BY DEF Put
<1>b. I2 \in [DOMAIN I \cup {w} -> Kinds]
  <2>1. Window(x, FALSE) \in Kinds
    BY <1>0 DEF Window, Kinds
  <2> QED
    BY <1>0, <2>1, PutType DEF Types
<1> HIDE DEF P2, I2
<1>4. \A r, y : r \in DOMAIN P2 /\ Holds(P2, r, y) <=>
        (r \in DOMAIN P /\ Holds(P, r, y)) \/ (r = c /\ y = w)
  BY <1>0, <1>1, <1>2 DEF Holds
<1>c. \A u, y : Wraps(I2, L, u, y) <=> Wraps(I, L, u, y)
  BY <1>0, <1>a DEF Wraps, Window
<1>5. \A r \in DOMAIN P : ~Holds(P, r, w)
  BY <1>0 DEF Good, Held
<1>6. Types(P2, I2, H, L)
  BY <1>0, <1>2, <1>3, <1>a, <1>b DEF Types
<1>7. InHand(P2, I2, H, L)
  BY <1>0, <1>a DEF Good, InHand, Types
<1>8. Held(P2, I2, H, L)
  <2> SUFFICES ASSUME NEW r \in DOMAIN P2, NEW y \in Ios, Holds(P2, r, y)
               PROVE  /\ y \in DOMAIN I2 \ (H \cup L)
                      /\ \A s \in DOMAIN P2 : Holds(P2, s, y) => s = r
    BY DEF Held
  <2>1. CASE y = w
    BY <1>0, <1>4, <1>5, <1>a, <2>1
  <2>2. CASE y # w
    BY <1>4, <1>a, <2>2 DEF Good, Held
  <2> QED
    BY <2>1, <2>2
<1>9. Wrapped(P2, I2, H, L)
  <2> SUFFICES ASSUME NEW u \in Ios, NEW y \in Ios \cup {NoIo}, Wraps(I2, L, u, y)
               PROVE  /\ y \in DOMAIN I2 \ (H \cup L)
                      /\ I2[y].over = NoIo
                      /\ \A r \in DOMAIN P2 : ~Holds(P2, r, y)
                      /\ \A t \in Ios : Wraps(I2, L, t, y) => t = u
    BY DEF Wrapped
  <2>1. /\ y \in DOMAIN I \ (H \cup L) /\ I[y].over = NoIo
        /\ \A r \in DOMAIN P : ~Holds(P, r, y)
        /\ \A t \in Ios : Wraps(I, L, t, y) => t = u
    BY <1>c DEF Good, Wrapped
  <2>2. y # w
    BY <2>1
  <2>3. \A r \in DOMAIN P2 : ~Holds(P2, r, y)
    BY <1>4, <2>1, <2>2
  <2> QED
    BY <1>a, <1>c, <2>1, <2>3
<1>10. Kept(P2, I2, H, L)
  <2> SUFFICES ASSUME NEW y \in DOMAIN I2 \ L, y \notin H
               PROVE  \/ \E r \in DOMAIN P2 : Holds(P2, r, y)
                      \/ \E u \in DOMAIN I2 : Wraps(I2, L, u, y)
    BY DEF Kept
  <2>1. CASE y = w
    BY <1>4, <2>1
  <2>2. CASE y # w
    <3>1. \/ \E r \in DOMAIN P : Holds(P, r, y)
          \/ \E u \in DOMAIN I : Wraps(I, L, u, y)
      BY <1>a, <2>2 DEF Good, Kept
    <3> QED
      BY <1>4, <1>a, <1>c, <3>1
  <2> QED
    BY <2>1, <2>2
<1>11. Lent(P2)
  <2> SUFFICES ASSUME NEW r \in DOMAIN P2, P2[r].shared, P2[r].io # NoIo
               PROVE  \E s \in DOMAIN P2 : Holds(P2, s, P2[r].io)
    BY DEF Lent
  <2>1. r \in DOMAIN P /\ P2[r] = P[r]
    BY <1>1, <1>2
  <2>2. PICK s \in DOMAIN P : Holds(P, s, P[r].io)
    BY <2>1 DEF Good, Lent
  <2> QED
    BY <1>4, <2>1, <2>2
<1>12. Inner(P2, I2)
  <2> SUFFICES ASSUME NEW r \in DOMAIN P2, NEW y \in DOMAIN I2, Holds(P2, r, y),
                      I2[y].over # NoIo, ~I2[y].owns
               PROVE  P2[r].parent \in DOMAIN P2 /\ P2[P2[r].parent].io = I2[y].over
    BY DEF Inner
  <2>1. CASE r = c
    <3>1. y = w
      BY <1>1, <1>2, <2>1 DEF Holds
    <3>2. I2[y].over = x /\ P2[r].parent = q /\ P2[q].io = x
      BY <1>1, <1>2, <1>a, <2>1, <3>1 DEF Window, x
    <3> QED
      BY <1>2, <3>2
  <2>2. CASE r # c
    <3>1. r \in DOMAIN P /\ Holds(P, r, y) /\ y # w
      BY <1>4, <1>5, <2>2
    <3>2. y \in DOMAIN I /\ I2[y] = I[y]
      BY <1>a, <3>1
    <3>3. P[r].parent \in DOMAIN P /\ P[P[r].parent].io = I[y].over
      BY <3>1, <3>2 DEF Good, Inner
    <3> QED
      BY <1>2, <3>1, <3>2, <3>3
  <2> QED
    BY <2>1, <2>2
<1> QED
  BY <1>6, <1>7, <1>8, <1>9, <1>10, <1>11, <1>12 DEF Good, P2, I2, v, x

\* A set of numbers has a least one.
LEMMA NatMinimum ==
  ASSUME NEW S, S \subseteq Nat, S # {}
  PROVE  \E m \in S : \A k \in S : m <= k
<1> DEFINE R == OpToRel(<, Nat)
<1>1. IsWellFoundedOn(R, Nat)
  BY NatLessThanWellFounded
<1> HIDE DEF R
<1>2. PICK m \in S : \A k \in S : ~ (<<k, m>> \in R)
  BY <1>1, WFMin
<1>3. \A a, b \in Nat : a < b => <<a, b>> \in R
  BY DEF R, OpToRel
<1>4. ASSUME NEW k \in S
      PROVE  m <= k
  <2>1. k \in Nat /\ m \in Nat
    OBVIOUS
  <2>2. ~ (<<k, m>> \in R)
    BY <1>2
  <2> QED
    BY <2>1, <2>2, <1>3
<1> QED
  BY <1>4
-----------------------------------------------------------------------------
(* What is in the tags of a profile                                         *)

\* S is q and what is below it by the links of the profiles of C.
Below(P, C, q, S) ==
  /\ q \in S
  /\ \A r \in C : P[r].parent \in S => r \in S
  /\ \A X : q \in X /\ (\A r \in C : P[r].parent \in X => r \in X) => S \subseteq X

\* S and what is in the tags of its profiles; the layers this makes, from q on.
Under(P, C, S) == S \cup {r \in C : P[r].parent \in S}
Layers(P, C, q, k, W) ==
  W = [n \in 0..k |-> IF n = 0 THEN {q} ELSE Under(P, C, W[n - 1])]

\* There are layers down to any depth.
LEMMA LayersExist ==
  ASSUME NEW P, NEW C, NEW q, NEW k \in Nat
  PROVE  \E W : Layers(P, C, q, k, W)
<1> DEFINE Bad == {j \in Nat : ~ \E W : Layers(P, C, q, j, W)}
<1>1. ASSUME NEW m \in Bad, \A j \in Bad : m <= j
      PROVE  FALSE
  <2>1. m \in Nat
    OBVIOUS
  <2>2. CASE m = 0
    <3> DEFINE W == [n \in 0..0 |-> {q}]
    <3>1. Layers(P, C, q, 0, W)
      <4>1. \A n \in 0..0 : n = 0
        OBVIOUS
      <4>2. [n \in 0..0 |-> IF n = 0 THEN {q} ELSE Under(P, C, W[n - 1])] = W
        BY <4>1
      <4> QED
        BY <4>2 DEF Layers
    <3> HIDE DEF W
    <3> QED
      BY <2>2, <3>1
  <2>3. CASE m # 0
    <3>1. m - 1 \in Nat /\ m - 1 \notin Bad
      <4>1. m - 1 \in Nat /\ ~(m <= m - 1)
        BY <2>1, <2>3
      <4> HIDE DEF Bad
      <4> QED
        BY <1>1, <4>1
    <3>2. PICK V : Layers(P, C, q, m - 1, V)
      BY <3>1
    <3> DEFINE W == [n \in 0..m |-> IF n = m THEN Under(P, C, V[m - 1]) ELSE V[n]]
    <3>3. \A n \in 0..m : n # m => n \in 0..(m - 1) /\ (n # 0 => n - 1 \in 0..(m - 1))
      BY <2>1
    <3>4. \A n \in 0..(m - 1) : V[n] = IF n = 0 THEN {q} ELSE Under(P, C, V[n - 1])
      BY <3>2 DEF Layers
    <3>5. /\ m - 1 \in 0..(m - 1) /\ m \in 0..m
          /\ \A n \in 0..(m - 1) : n \in 0..m /\ n # m
      BY <2>1, <2>3
    <3>6. W[m] = Under(P, C, V[m - 1]) /\ \A n \in 0..(m - 1) : W[n] = V[n]
      BY <3>5
    <3>7. \A n \in 0..m : W[n] = IF n = 0 THEN {q} ELSE Under(P, C, W[n - 1])
      <4> SUFFICES ASSUME NEW n \in 0..m
                   PROVE  W[n] = IF n = 0 THEN {q} ELSE Under(P, C, W[n - 1])
        OBVIOUS
      <4> HIDE DEF W
      <4>1. CASE n = m
        BY <2>3, <3>5, <3>6, <4>1
      <4>2. CASE n # m
        BY <3>3, <3>4, <3>6, <4>2
      <4> QED
        BY <4>1, <4>2
    <3>8. W = [n \in 0..m |-> W[n]]
      OBVIOUS
    <3> HIDE DEF W
    <3>9. Layers(P, C, q, m, W)
      BY <3>7, <3>8 DEF Layers
    <3> QED
      BY <3>9
  <2> QED
    BY <2>2, <2>3
<1>2. Bad = {}
  <2>1. Bad \subseteq Nat
    OBVIOUS
  <2> HIDE DEF Bad
  <2> QED
    BY <1>1, <2>1, NatMinimum
<1> QED
  BY <1>2

\* Enough of them reach all that is below.
LEMMA LayersReach ==
  ASSUME NEW P, NEW C, NEW q \in DOMAIN P, C \subseteq DOMAIN P, NEW level, Leveled(P, level),
         NoProfile \notin DOMAIN P, MaxNested \in Nat, NEW W, Layers(P, C, q, MaxNested, W)
  PROVE  Below(P, C, q, W[MaxNested])
<1>1. /\ W[0] = {q}
      /\ \A n \in 1..MaxNested : W[n] = Under(P, C, W[n - 1])
  <2>1. \A n \in 0..MaxNested : W[n] = IF n = 0 THEN {q} ELSE Under(P, C, W[n - 1])
    BY DEF Layers
  <2>2. 0 \in 0..MaxNested /\ \A n \in 1..MaxNested : n \in 0..MaxNested /\ n # 0
    OBVIOUS
  <2> QED
    BY <2>1, <2>2
<1>2. \A r \in DOMAIN P : level[r] \in 0..MaxNested
  BY DEF Leveled
<1>3. \A r \in C : P[r].parent \in DOMAIN P => level[r] = level[P[r].parent] + 1
  BY DEF Leveled
\* A layer has only what is no deeper than it, and what it has was there as soon
\* as it could be.
<1> DEFINE Fits(n) == \A s \in W[n] : /\ s \in DOMAIN P /\ level[q] <= level[s]
                                      /\ level[s] - level[q] <= n
                                      /\ s \in W[level[s] - level[q]]
           Bad == {n \in 0..MaxNested : ~Fits(n)}
<1>4. ASSUME NEW m \in Bad, \A j \in Bad : m <= j
      PROVE  FALSE
  <2>1. m \in 0..MaxNested /\ ~Fits(m)
    OBVIOUS
  <2>2. m # 0
    <3>1. Fits(0)
      BY <1>1, <1>2
    <3> HIDE DEF Fits
    <3> QED
      BY <2>1, <3>1
  <2>3. m - 1 \in 0..MaxNested /\ m \in 1..MaxNested
    BY <2>1, <2>2
  <2>4. Fits(m - 1)
    <3>1. m - 1 \in Bad => m <= m - 1
      BY <1>4
    <3>2. m - 1 \notin Bad
      <4> HIDE DEF Bad
      <4> QED
        BY <2>1, <3>1
    <3> HIDE DEF Fits
    <3> QED
      BY <2>3, <3>2
  <2>5. ASSUME NEW s \in W[m]
        PROVE  /\ s \in DOMAIN P /\ level[q] <= level[s] /\ level[s] - level[q] <= m
               /\ s \in W[level[s] - level[q]]
    <3>1. s \in W[m - 1] \/ (s \in C /\ P[s].parent \in W[m - 1])
      BY <1>1, <2>3 DEF Under
    <3>2. CASE s \in W[m - 1]
      BY <1>2, <2>1, <2>4, <3>2
    <3>3. CASE s \in C /\ P[s].parent \in W[m - 1]
      <4> DEFINE p == P[s].parent
                 d == level[p] - level[q]
      <4>1. /\ p \in DOMAIN P /\ level[q] <= level[p] /\ d <= m - 1
            /\ p \in W[d]
        BY <2>4, <3>3
      <4>2. level[s] = level[p] + 1 /\ level[p] \in 0..MaxNested /\ level[s] \in 0..MaxNested
            /\ level[q] \in 0..MaxNested
        BY <1>2, <1>3, <3>3, <4>1
      <4> HIDE DEF p
      <4>3. d + 1 \in 1..MaxNested /\ level[s] - level[q] = d + 1 /\ (d + 1) - 1 = d
        BY <4>1, <4>2
      <4>4. d + 1 <= m
        BY <2>1, <4>1, <4>2
      <4>5. s \in W[d + 1]
        <5>1. W[d + 1] = Under(P, C, W[d])
          <6> HIDE DEF d
          <6> QED
            BY <1>1, <4>3
        <5> HIDE DEF d
        <5> QED
          BY <3>3, <4>1, <5>1 DEF Under, p
      <4> HIDE DEF d
      <4> QED
        BY <3>3, <4>1, <4>2, <4>3, <4>4, <4>5
    <3> QED
      BY <3>1, <3>2, <3>3
  <2> QED
    BY <2>1, <2>5
<1>5. \A n \in 0..MaxNested : Fits(n)
  <2>1. Bad \subseteq Nat
    OBVIOUS
  <2>2. Bad = {}
    <3> HIDE DEF Bad
    <3> QED
      BY <1>4, <2>1, NatMinimum
  <2> QED
    BY <2>2
\* A layer has all that is in the one before.
<1> DEFINE Late(n) == W[n] \subseteq W[MaxNested]
           Not == {k \in 0..MaxNested : ~Late(MaxNested - k)}
<1>6. ASSUME NEW m \in Not, \A j \in Not : m <= j
      PROVE  FALSE
  <2>1. m \in 0..MaxNested /\ m # 0
    OBVIOUS
  <2>2. m - 1 \in 0..MaxNested /\ MaxNested - (m - 1) = MaxNested - m + 1
        /\ MaxNested - m + 1 \in 1..MaxNested /\ MaxNested - m + 1 - 1 = MaxNested - m
    BY <2>1
  <2>3. m - 1 \notin Not
    <3>1. m - 1 \in Not => m <= m - 1
      BY <1>6
    <3> HIDE DEF Not
    <3> QED
      BY <2>1, <3>1
  <2>4. Late(MaxNested - m + 1)
    BY <2>2, <2>3
  <2>5. W[MaxNested - m] \subseteq W[MaxNested - m + 1]
    BY <1>1, <2>2 DEF Under
  <2>6. ~Late(MaxNested - m)
    OBVIOUS
  <2> QED
    BY <2>4, <2>5, <2>6
<1>7. \A n \in 0..MaxNested : Late(n)
  <2>1. Not \subseteq Nat
    OBVIOUS
  <2>2. Not = {}
    <3> HIDE DEF Not
    <3> QED
      BY <1>6, <2>1, NatMinimum
  <2> SUFFICES ASSUME NEW n \in 0..MaxNested PROVE Late(n)
    OBVIOUS
  <2>3. MaxNested - n \in 0..MaxNested /\ MaxNested - (MaxNested - n) = n
    OBVIOUS
  <2>4. Late(MaxNested - (MaxNested - n))
    <3>1. MaxNested - n \notin Not
      BY <2>2
    <3> HIDE DEF Late
    <3> QED
      BY <2>3, <3>1
  <2> HIDE DEF Late
  <2> QED
    BY <2>3, <2>4
<1> DEFINE S == W[MaxNested]
<1>8. q \in S
  <2>1. Late(0)
    BY <1>7
  <2> QED
    BY <1>1, <2>1
<1>9. ASSUME NEW r \in C, P[r].parent \in S
      PROVE  r \in S
  <2> DEFINE p == P[r].parent
             d == level[p] - level[q]
  <2>1. p \in DOMAIN P /\ level[q] <= level[p] /\ p \in W[d]
    <3>1. Fits(MaxNested)
      BY <1>5
    <3> QED
      BY <1>9, <3>1
  <2>2. /\ level[p] \in 0..MaxNested /\ level[q] \in 0..MaxNested /\ level[r] \in 0..MaxNested
        /\ level[r] = level[p] + 1
    BY <1>2, <1>3, <2>1
  <2> HIDE DEF p
  <2>3. d \in Nat /\ d + 1 \in 1..MaxNested /\ d + 1 \in 0..MaxNested
    BY <2>1, <2>2
  <2> HIDE DEF d
  <2>4. W[d + 1] = Under(P, C, W[d])
    BY <1>1, <2>3
  <2>5. r \in W[d + 1]
    BY <2>1, <2>4 DEF Under, p
  <2>6. Late(d + 1)
    BY <1>7, <2>3
  <2> QED
    BY <2>5, <2>6
<1>10. ASSUME NEW X, q \in X, \A r \in C : P[r].parent \in X => r \in X
       PROVE  S \subseteq X
  <2> DEFINE Out == {n \in 0..MaxNested : ~(W[n] \subseteq X)}
  <2>1. ASSUME NEW m \in Out, \A j \in Out : m <= j
        PROVE  FALSE
    <3>1. m \in 0..MaxNested /\ m # 0
      BY <1>1, <1>10
    <3>2. m - 1 \in 0..MaxNested /\ m \in 1..MaxNested
      BY <3>1
    <3>3. m - 1 \notin Out
      <4>1. m - 1 \in Out => m <= m - 1
        BY <2>1
      <4> HIDE DEF Out
      <4> QED
        BY <3>1, <4>1
    <3>4. W[m - 1] \subseteq X
      BY <3>2, <3>3
    <3>5. W[m] \subseteq X
      BY <1>1, <1>10, <3>2, <3>4 DEF Under
    <3> QED
      BY <3>5
  <2>2. Out \subseteq Nat
    OBVIOUS
  <2>3. Out = {}
    <3> HIDE DEF Out
    <3> QED
      BY <2>1, <2>2, NatMinimum
  <2>4. MaxNested \in 0..MaxNested
    OBVIOUS
  <2> QED
    BY <2>3, <2>4
<1>11. \A X : q \in X /\ (\A r \in C : P[r].parent \in X => r \in X) => S \subseteq X
  BY <1>10
<1> HIDE DEF S, Fits, Late, Bad, Not
<1>12. Below(P, C, q, S)
  BY <1>8, <1>9, <1>11 DEF Below
<1> QED
  BY <1>12 DEF S

\* What the assumptions say of the constants.
LEMMA Constants ==
  MaxNested \in Nat /\ NoProfile \notin Profiles /\ NoIo \notin Ios
BY NestingAssumption, ObjectsAssumption

\* What is below a profile is deeper.
LEMMA BelowIs ==
  ASSUME NEW P, NEW C, C \subseteq DOMAIN P, NEW q \in DOMAIN P, NEW level, Leveled(P, level),
         NoProfile \notin DOMAIN P, NEW S, Below(P, C, q, S)
  PROVE  /\ S \subseteq DOMAIN P
         /\ \A s \in S : s # q =>
              s \in C /\ P[s].parent \in S /\ level[s] > level[q]
<1>1. MaxNested \in Nat /\ \A r \in DOMAIN P : level[r] \in 0..MaxNested
  BY Constants DEF Leveled
<1>2. S \subseteq DOMAIN P
  <2>1. \A r \in C : P[r].parent \in DOMAIN P => r \in DOMAIN P
    OBVIOUS
  <2> QED
    BY <2>1 DEF Below
<1> DEFINE X == {s \in S : s = q \/ (s \in C /\ P[s].parent \in S /\ level[s] > level[q])}
<1>3. q \in X
  BY DEF Below
<1>4. ASSUME NEW r \in C, P[r].parent \in X
      PROVE  r \in X
  <2>1. P[r].parent \in S /\ r \in S /\ P[r].parent \in DOMAIN P
    BY <1>2, <1>4 DEF Below
  <2>2. level[r] = level[P[r].parent] + 1
    BY <2>1 DEF Leveled
  <2>3. level[P[r].parent] >= level[q]
    BY <1>1, <1>4, <2>1
  <2> QED
    BY <1>1, <2>1, <2>2, <2>3
<1>5. S \subseteq X
  <2> HIDE DEF X
  <2> QED
    BY <1>3, <1>4 DEF Below
<1> QED
  BY <1>2, <1>5

\* The invariant, of the state.
Ready(P, I, H, L) == Good(P, I, H, L) /\ Forest(P)

\* The profiles in the tags of one, at all depths.
LEMMA TreeIs ==
  ASSUME IInv, NEW q \in DOMAIN prof
  PROVE  Below(prof, DOMAIN prof, q, Tree(q))
<1>1. PICK level : Leveled(prof, level)
  BY DEF IInv, Forest
<1>2. NoProfile \notin DOMAIN prof
  BY Constants DEF IInv, Good, Types
<1> DEFINE Laid(W) == W = [n \in 0..MaxNested |->
                             IF n = 0 THEN {q}
                             ELSE W[n - 1] \cup {r \in DOMAIN prof : prof[r].parent \in W[n - 1]}]
<1>3. Tree(q) = (CHOOSE W : Laid(W))[MaxNested]
  BY DEF Tree
<1>4. PICK V : Layers(prof, DOMAIN prof, q, MaxNested, V)
  BY Constants, LayersExist
<1>5. Laid(V)
  BY <1>4 DEF Layers, Under
<1>6. \A W : Laid(W) => Layers(prof, DOMAIN prof, q, MaxNested, W)
  BY DEF Layers, Under
<1> HIDE DEF Laid
<1>7. Laid(CHOOSE W : Laid(W))
  BY <1>5
<1> DEFINE W == CHOOSE W : Laid(W)
<1>8. Layers(prof, DOMAIN prof, q, MaxNested, W)
  BY <1>6, <1>7
<1> HIDE DEF W
<1>9. Below(prof, DOMAIN prof, q, W[MaxNested])
  BY <1>1, <1>2, <1>8, Constants, LayersReach
<1> QED
  BY <1>3, <1>9 DEF W

\* The profiles that let go with one.
Heard == {r \in DOMAIN prof : HasIO(prof[r].parent)}
\* Told is what is below a profile by the links to those that have an IO.
LEMMA ToldIs ==
  ASSUME IInv, NEW q \in DOMAIN prof
  PROVE  Below(prof, Heard, q, Told(q))
<1>1. PICK level : Leveled(prof, level)
  BY DEF IInv, Forest
<1>2. NoProfile \notin DOMAIN prof
  BY Constants DEF IInv, Good, Types
<1> DEFINE Laid(W) == W = [n \in 0..MaxNested |->
                             IF n = 0 THEN {q}
                             ELSE W[n - 1] \cup {r \in DOMAIN prof : prof[r].parent \in W[n - 1]
                                                                     /\ HasIO(prof[r].parent)}]
<1>3. Told(q) = (CHOOSE W : Laid(W))[MaxNested]
  BY DEF Told
<1>4. PICK V : Layers(prof, Heard, q, MaxNested, V)
  BY Constants, LayersExist
<1>5. \A X : {r \in Heard : prof[r].parent \in X}
               = {r \in DOMAIN prof : prof[r].parent \in X /\ HasIO(prof[r].parent)}
  BY DEF Heard
<1>6. \A W : Laid(W) <=> Layers(prof, Heard, q, MaxNested, W)
  BY <1>5 DEF Layers, Under
<1> HIDE DEF Laid
<1>7. Laid(CHOOSE W : Laid(W))
  BY <1>4, <1>6
<1> DEFINE W == CHOOSE W : Laid(W)
<1>8. Layers(prof, Heard, q, MaxNested, W)
  BY <1>6, <1>7
<1> HIDE DEF W
<1>9. Below(prof, Heard, q, W[MaxNested])
  <2>1. Heard \subseteq DOMAIN prof
    BY DEF Heard
  <2> QED
    BY <1>1, <1>2, <1>8, <2>1, Constants, LayersReach
<1> QED
  BY <1>3, <1>9 DEF W

\* What the actions need to know of them.
LEMMA TreeParts ==
  ASSUME IInv, NEW q \in DOMAIN prof
  PROVE  /\ q \in Tree(q) /\ Tree(q) \subseteq DOMAIN prof
         /\ \A r \in DOMAIN prof : prof[r].parent \in Tree(q) => r \in Tree(q)
         /\ \A s \in Tree(q) : s # q => prof[s].parent \in Tree(q)
         /\ Tree(q) = Inside(q) \cup {q} /\ q \notin Inside(q)
         /\ \A r \in DOMAIN prof : prof[r].parent \in Inside(q) => r \in Inside(q)
         /\ prof[q].dir # "read" => Inside(q) = {}
<1>1. PICK level : Leveled(prof, level)
  BY DEF IInv, Forest
<1>2. NoProfile \notin DOMAIN prof
  BY Constants DEF IInv, Good, Types
<1>3. Below(prof, DOMAIN prof, q, Tree(q))
  BY TreeIs
<1>4. /\ Tree(q) \subseteq DOMAIN prof
      /\ \A s \in Tree(q) : s # q => prof[s].parent \in Tree(q) /\ level[s] > level[q]
  BY <1>1, <1>2, <1>3, BelowIs
<1>5. q \in Tree(q) /\ \A r \in DOMAIN prof : prof[r].parent \in Tree(q) => r \in Tree(q)
  BY <1>3 DEF Below
<1>6. ASSUME NEW r \in DOMAIN prof, prof[r].parent \in Inside(q)
      PROVE  r \in Inside(q)
  <2>1. prof[r].parent \in Tree(q) /\ prof[r].parent # q
    BY <1>6 DEF Inside
  <2>2. r \in Tree(q)
    BY <1>5, <2>1
  <2>3. level[r] = level[prof[r].parent] + 1 /\ level[prof[r].parent] > level[q]
    BY <1>1, <1>2, <1>4, <2>1 DEF Leveled
  <2>4. level[prof[r].parent] \in 0..MaxNested /\ level[q] \in 0..MaxNested /\ MaxNested \in Nat
    BY <1>1, <1>4, <2>1, Constants DEF Leveled
  <2> QED
    BY <2>2, <2>3, <2>4 DEF Inside
<1>7. ASSUME prof[q].dir # "read"
      PROVE  Inside(q) = {}
  <2>1. \A r \in DOMAIN prof : prof[r].parent # q
    BY <1>1, <1>2, <1>7 DEF Leveled
  <2>2. Tree(q) \subseteq {q}
    BY <1>3, <2>1 DEF Below
  <2> QED
    BY <2>2 DEF Inside
<1> QED
  BY <1>4, <1>5, <1>6, <1>7 DEF Inside

\* What the actions need to know of the profiles that let go.
LEMMA ToldParts ==
  ASSUME IInv, NEW q \in DOMAIN prof
  PROVE  /\ q \in Told(q) /\ Told(q) \subseteq Tree(q)
         /\ \A r \in DOMAIN prof : prof[r].parent \in Told(q) /\ HasIO(prof[r].parent) => r \in Told(q)
<1>1. Below(prof, Heard, q, Told(q))
  BY ToldIs
<1>2. q \in Tree(q) /\ \A r \in DOMAIN prof : prof[r].parent \in Tree(q) => r \in Tree(q)
  BY TreeParts
<1>3. Told(q) \subseteq Tree(q)
  <2>1. \A r \in Heard : prof[r].parent \in Tree(q) => r \in Tree(q)
    BY <1>2 DEF Heard
  <2> QED
    BY <1>1, <1>2, <2>1 DEF Below
<1> QED
  BY <1>1, <1>3 DEF Below, Heard

\* A profile has as many around it as it is deep.
LEMMA LevelIsDepth ==
  ASSUME IInv, NEW level, Leveled(prof, level), NEW q \in DOMAIN prof
  PROVE  level[q] <= Depth(q) /\ Depth(q) \in Nat
<1> DEFINE Around(s) == {r \in DOMAIN prof : s \in Inside(r)}
<1>1. MaxNested \in Nat /\ \A r \in DOMAIN prof : level[r] \in 0..MaxNested
  BY Constants DEF Leveled
<1>2. \A s : IsFiniteSet(Around(s)) /\ Depth(s) = Cardinality(Around(s)) /\ Depth(s) \in Nat
  <2>1. DOMAIN prof \subseteq Profiles
    BY DEF IInv, Good, Types
  <2>2. IsFiniteSet(Profiles)
    BY ObjectsAssumption
  <2>3. \A s : Around(s) \subseteq Profiles
    BY <2>1
  <2> SUFFICES ASSUME NEW s
               PROVE  IsFiniteSet(Around(s)) /\ Depth(s) = Cardinality(Around(s)) /\ Depth(s) \in Nat
    OBVIOUS
  <2>4. IsFiniteSet(Around(s))
    <3>1. Around(s) \in SUBSET Profiles
      BY <2>3
    <3> HIDE DEF Around
    <3> QED
      BY <2>2, <3>1, FS_Subset
  <2>5. Depth(s) = Cardinality(Around(s))
    BY DEF Depth
  <2> HIDE DEF Around
  <2> QED
    BY <2>4, <2>5, FS_CardinalityType
<1>0. \A s \in DOMAIN prof : Depth(s) \in Nat
  BY <1>2
<1> DEFINE Bad == {n \in Nat : \E s \in DOMAIN prof : level[s] = n /\ ~(level[s] <= Depth(s))}
<1>3. ASSUME NEW m \in Bad, \A n \in Bad : m <= n
      PROVE  FALSE
  <2>1. PICK s \in DOMAIN prof : level[s] = m /\ ~(level[s] <= Depth(s))
    OBVIOUS
  <2>2. level[s] # 0
    BY <1>0, <2>1
  <2> DEFINE p == prof[s].parent
  <2>3. p \in DOMAIN prof /\ level[s] = level[p] + 1
    BY <2>2 DEF Leveled
  <2> HIDE DEF p
  <2>4. level[p] <= Depth(p)
    <3>1. level[p] \in Nat /\ ~(m <= level[p])
      BY <1>1, <2>1, <2>3
    <3>2. level[p] \notin Bad
      <4> HIDE DEF Bad
      <4> QED
        BY <1>3, <3>1
    <3> QED
      BY <2>3, <3>1, <3>2
  <2>5. Around(p) \cup {p} \subseteq Around(s) /\ p \notin Around(p)
    <3>1. s \in Inside(p)
      <4>1. s \in Tree(p)
        BY <2>3, TreeParts DEF p
      <4>2. s # p
        BY <1>1, <2>3
      <4> QED
        BY <4>1, <4>2 DEF Inside
    <3>2. p \notin Inside(p)
      BY <2>3, TreeParts
    <3>3. ASSUME NEW r \in DOMAIN prof, p \in Inside(r)
          PROVE  s \in Inside(r)
      BY <3>3, TreeParts DEF p
    <3> QED
      BY <2>3, <3>1, <3>2, <3>3
  <2>6. Depth(p) + 1 <= Depth(s)
    <3> DEFINE A == Around(p)
               B == Around(s)
    <3>1. IsFiniteSet(A) /\ IsFiniteSet(B) /\ A \cup {p} \subseteq B /\ p \notin A
      BY <1>2, <2>5
    <3>2. Depth(p) = Cardinality(A) /\ Depth(s) = Cardinality(B)
      BY <1>2
    <3> HIDE DEF A, B
    <3>3. Cardinality(A \cup {p}) = Cardinality(A) + 1
      BY <3>1, FS_AddElement
    <3>4. Cardinality(A \cup {p}) <= Cardinality(B)
      BY <3>1, FS_Subset
    <3> QED
      BY <3>2, <3>3, <3>4
  <2>7. Depth(p) \in Nat /\ Depth(s) \in Nat /\ level[p] \in Nat /\ level[s] \in Nat
    BY <1>0, <1>1, <2>3
  <2> QED
    BY <2>1, <2>3, <2>4, <2>6, <2>7
<1>4. Bad = {}
  <2>1. Bad \subseteq Nat
    OBVIOUS
  <2> HIDE DEF Bad
  <2> QED
    BY <1>3, <2>1, NatMinimum
<1>5. level[q] \in Nat
  BY <1>1
<1> QED
  BY <1>0, <1>4, <1>5
-----------------------------------------------------------------------------
(* How the forest changes                                                   *)

\* Profiles go with all that is in their tags.
LEMMA ForestCut ==
  ASSUME NEW P, NoProfile \notin DOMAIN P, Forest(P), NEW S,
         \A r \in DOMAIN P : P[r].parent \in S => r \in S
  PROVE  Forest(Cut(P, S))
<1>1. PICK level : Leveled(P, level)
  BY DEF Forest
<1> DEFINE P2 == Cut(P, S)
           l2 == [r \in DOMAIN P2 |-> level[r]]
<1>2. DOMAIN P2 = DOMAIN P \ S /\ \A r \in DOMAIN P2 : P2[r] = P[r]
  BY DEF Cut
<1> HIDE DEF P2
<1>3. /\ l2 \in [DOMAIN P2 -> 0..MaxNested]
      /\ \A r \in DOMAIN P2 : l2[r] = level[r]
  BY <1>1, <1>2 DEF Leveled
<1> HIDE DEF l2
<1>4. ASSUME NEW r \in DOMAIN P2, P2[r].parent # NoProfile
      PROVE  /\ P2[r].parent \in DOMAIN P2 /\ P2[P2[r].parent].dir = "read"
             /\ l2[r] = l2[P2[r].parent] + 1
  <2>1. /\ P[r].parent \in DOMAIN P /\ P[P[r].parent].dir = "read"
        /\ level[r] = level[P[r].parent] + 1
    BY <1>1, <1>2, <1>4 DEF Leveled
  <2>2. P[r].parent \notin S
    BY <1>2
  <2> QED
    BY <1>2, <1>3, <2>1, <2>2
<1>5. \A r \in DOMAIN P2 : P2[r].parent = NoProfile => l2[r] = 0
  BY <1>1, <1>2, <1>3 DEF Leveled
<1>6. Leveled(P2, l2)
  BY <1>3, <1>4, <1>5 DEF Leveled
<1> QED
  BY <1>3, <1>6 DEF Forest, P2

\* A profile comes, outside of all others.
LEMMA ForestNew ==
  ASSUME NEW P, NoProfile \notin DOMAIN P, Forest(P), NEW q, q \notin DOMAIN P, NEW v,
         v.parent = NoProfile
  PROVE  Forest(Put(P, q, v))
<1>1. PICK level : Leveled(P, level)
  BY DEF Forest
<1> DEFINE P2 == Put(P, q, v)
           l2 == Put(level, q, 0)
<1>2. /\ DOMAIN P2 = DOMAIN P \cup {q} /\ P2[q] = v
      /\ \A r \in DOMAIN P : P2[r] = P[r]
  BY DEF Put
<1>3. level \in [DOMAIN level -> 0..MaxNested] /\ DOMAIN level = DOMAIN P
  BY <1>1 DEF Leveled
<1>4. /\ DOMAIN l2 = DOMAIN P \cup {q} /\ l2[q] = 0
      /\ \A r \in DOMAIN P : l2[r] = level[r]
  BY <1>3 DEF Put
<1>5. l2 \in [DOMAIN P \cup {q} -> 0..MaxNested]
  <2>1. 0 \in 0..MaxNested
    BY Constants
  <2> QED
    BY <1>3, <2>1, PutType
<1> HIDE DEF P2, l2
<1>6. ASSUME NEW r \in DOMAIN P2, P2[r].parent # NoProfile
      PROVE  /\ P2[r].parent \in DOMAIN P2 /\ P2[P2[r].parent].dir = "read"
             /\ l2[r] = l2[P2[r].parent] + 1
  <2>1. r \in DOMAIN P /\ P2[r] = P[r]
    BY <1>2, <1>6
  <2>2. /\ P[r].parent \in DOMAIN P /\ P[P[r].parent].dir = "read"
        /\ level[r] = level[P[r].parent] + 1
    BY <1>1, <1>6, <2>1 DEF Leveled
  <2> QED
    BY <1>2, <1>4, <2>1, <2>2
<1>7. \A r \in DOMAIN P2 : P2[r].parent = NoProfile => l2[r] = 0
  BY <1>1, <1>2, <1>4 DEF Leveled
<1>8. Leveled(P2, l2)
  BY <1>2, <1>5, <1>6, <1>7 DEF Leveled
<1> QED
  BY <1>2, <1>5, <1>8 DEF Forest, P2

\* Who is in whose tags stays.
LEMMA ForestSame ==
  ASSUME NEW P, Forest(P), NEW P2, DOMAIN P2 = DOMAIN P,
         \A r \in DOMAIN P : P2[r].parent = P[r].parent,
         \A r \in DOMAIN P : P[r].parent \in DOMAIN P /\ P[P[r].parent].dir = "read" =>
                               P2[P[r].parent].dir = "read"
  PROVE  Forest(P2)
<1>1. PICK level : Leveled(P, level)
  BY DEF Forest
<1>2. Leveled(P2, level)
  BY <1>1 DEF Leveled
<1> QED
  BY <1>1, <1>2 DEF Forest, Leveled

\* A profile in a tag is read.
LEMMA ForestChild ==
  ASSUME NEW P, NoProfile \notin DOMAIN P, NEW level, Leveled(P, level), NEW q \in DOMAIN P,
         level[q] < MaxNested, P[q].dir = "read",
         NEW c, c \notin DOMAIN P, NEW v, v.parent = q
  PROVE  Forest(Put(P, c, v))
<1> DEFINE P2 == Put(P, c, v)
           l2 == Put(level, c, level[q] + 1)
<1>2. /\ DOMAIN P2 = DOMAIN P \cup {c} /\ P2[c] = v
      /\ \A r \in DOMAIN P : P2[r] = P[r]
  BY DEF Put
<1>3. level \in [DOMAIN level -> 0..MaxNested] /\ DOMAIN level = DOMAIN P
  BY DEF Leveled
<1>4. /\ DOMAIN l2 = DOMAIN P \cup {c} /\ l2[c] = level[q] + 1
      /\ \A r \in DOMAIN P : l2[r] = level[r]
  BY <1>3 DEF Put
<1>5. l2 \in [DOMAIN P \cup {c} -> 0..MaxNested]
  <2>1. level[q] + 1 \in 0..MaxNested
    BY <1>3, Constants
  <2> QED
    BY <1>3, <2>1, PutType
<1> HIDE DEF P2, l2
<1>6. ASSUME NEW r \in DOMAIN P2, P2[r].parent # NoProfile
      PROVE  /\ P2[r].parent \in DOMAIN P2 /\ P2[P2[r].parent].dir = "read"
             /\ l2[r] = l2[P2[r].parent] + 1
  <2>1. CASE r = c
    BY <1>2, <1>4, <2>1
  <2>2. CASE r # c
    <3>1. r \in DOMAIN P /\ P2[r] = P[r]
      BY <1>2, <2>2
    <3>2. /\ P[r].parent \in DOMAIN P /\ P[P[r].parent].dir = "read"
          /\ level[r] = level[P[r].parent] + 1
      BY <1>6, <3>1 DEF Leveled
    <3> QED
      BY <1>2, <1>4, <3>1, <3>2
  <2> QED
    BY <2>1, <2>2
<1>7. \A r \in DOMAIN P2 : P2[r].parent = NoProfile => l2[r] = 0
  BY <1>2, <1>4 DEF Leveled
<1>8. Leveled(P2, l2)
  BY <1>2, <1>5, <1>6, <1>7 DEF Leveled
<1> QED
  BY <1>2, <1>5, <1>8 DEF Forest, P2

\* A profile goes into a tag of another, with all that is in its own.
LEMMA ForestEmbed ==
  ASSUME NEW P, P \in [DOMAIN P -> ProfileStates], NoProfile \notin DOMAIN P,
         NEW level, Leveled(P, level),
         NEW q \in DOMAIN P, NEW r \in DOMAIN P, q # r,
         P[q].parent = NoProfile, P[r].parent = NoProfile,
         NEW T, r \in T, q \notin T, T \subseteq DOMAIN P,
         \A s \in DOMAIN P : P[s].parent \in T => s \in T,
         \A s \in T : s # r => P[s].parent \in T,
         \A s \in T : level[s] < MaxNested
  PROVE  Forest([P EXCEPT ![q].dir = "read", ![r].parent = q])
<1> DEFINE P2 == [P EXCEPT ![q].dir = "read", ![r].parent = q]
           l2 == [s \in DOMAIN P |-> IF s \in T THEN level[s] + 1 ELSE level[s]]
<1>1. /\ DOMAIN P2 = DOMAIN P /\ P2[r].parent = q /\ P2[q].dir = "read"
      /\ \A s \in DOMAIN P : s # r => P2[s].parent = P[s].parent
      /\ \A s \in DOMAIN P : P2[s].dir # P[s].dir => s = q
  <2>1. /\ DOMAIN P2 = DOMAIN P
        /\ P2[q] = [P[q] EXCEPT !.dir = "read"]
        /\ P2[r] = [P[r] EXCEPT !.parent = q]
        /\ \A s \in DOMAIN P : s # q /\ s # r => P2[s] = P[s]
    OBVIOUS
  <2> HIDE DEF P2
  <2>2. P[q] \in ProfileStates /\ P[r] \in ProfileStates
    OBVIOUS
  <2> QED
    BY <2>1, <2>2 DEF ProfileStates
<1>2. \A s \in DOMAIN P : level[s] \in 0..MaxNested
  BY DEF Leveled
<1>3. l2 \in [DOMAIN P -> 0..MaxNested]
  BY <1>2, Constants
<1>4. \A s \in DOMAIN P : l2[s] = IF s \in T THEN level[s] + 1 ELSE level[s]
  OBVIOUS
<1> HIDE DEF P2, l2
<1>5. ASSUME NEW s \in DOMAIN P2, P2[s].parent # NoProfile
      PROVE  /\ P2[s].parent \in DOMAIN P2 /\ P2[P2[s].parent].dir = "read"
             /\ l2[s] = l2[P2[s].parent] + 1
  <2>1. CASE s = r
    <3>1. level[q] = 0 /\ level[r] = 0
      BY DEF Leveled
    <3> QED
      BY <1>1, <1>4, <2>1, <3>1
  <2>2. CASE s # r
    <3>1. s \in DOMAIN P /\ P2[s].parent = P[s].parent
      BY <1>1, <2>2
    <3>2. /\ P[s].parent \in DOMAIN P /\ P[P[s].parent].dir = "read"
          /\ level[s] = level[P[s].parent] + 1
      BY <1>5, <3>1 DEF Leveled
    <3>3. s \in T <=> P[s].parent \in T
      BY <2>2, <3>1
    <3>4. P2[P[s].parent].dir = "read"
      BY <1>1, <3>2
    <3> QED
      BY <1>1, <1>2, <1>4, <3>1, <3>2, <3>3, <3>4
  <2> QED
    BY <2>1, <2>2
<1>6. ASSUME NEW s \in DOMAIN P2, P2[s].parent = NoProfile
      PROVE  l2[s] = 0
  <2>1. s # r /\ s \in DOMAIN P /\ P[s].parent = NoProfile
    BY <1>1, <1>6
  <2>2. s \notin T
    BY <2>1
  <2> QED
    BY <1>4, <2>1, <2>2 DEF Leveled
<1>7. Leveled(P2, l2)
  BY <1>1, <1>3, <1>5, <1>6 DEF Leveled
<1> QED
  BY <1>1, <1>3, <1>7 DEF Forest, P2
-----------------------------------------------------------------------------
(* What the actions are made of                                             *)

\* What is deleted with profiles is what goes when they let go.
LEMMA DeletedIs ==
  ASSUME IInv, NEW T, T \subseteq DOMAIN prof
  PROVE  \A y : y \in DeletedWith(T) <=> Goes(prof, ios, T, y)
<1>1. \A q \in DOMAIN prof : prof[q].io \in Ios \cup {NoIo}
  BY DEF IInv, Good, Types, ProfileStates
<1>2. \A x : x \in OwnedBy(T) <=> \E q \in T : Holds(prof, q, x)
  BY DEF OwnedBy, Holds, HasIO
<1>3. \A x : x \in OwnedBy(T) => x \in Ios
  BY <1>1, <1>2 DEF Holds
<1>4. \A x, y : y \in Deleted(x) <=> y = x \/ (ios[x].owns /\ y = ios[x].over)
  BY DEF Deleted
<1>5. \A y : y \in DeletedWith(T) <=> \E x \in OwnedBy(T) : y \in Deleted(x)
  BY DEF DeletedWith
<1> QED
  BY <1>2, <1>3, <1>4, <1>5 DEF Goes

\* What the client observes.
LEMMA NotLentIs ==
  ASSUME NEW S, NotLent(S), NEW T, T \subseteq S
  PROVE  \A q \in T, x \in Ios, r \in DOMAIN prof :
           Holds(prof, q, x) /\ prof[r].shared => prof[r].io # x
<1>1. SUFFICES ASSUME NEW q \in T, NEW x \in Ios, NEW r \in DOMAIN prof, Holds(prof, q, x),
                      prof[r].shared, prof[r].io = x
               PROVE  FALSE
  OBVIOUS
<1>2. x \in OwnedBy(S)
  BY <1>1 DEF OwnedBy, Holds, HasIO
<1>3. x \in Borrowed
  BY <1>1 DEF Borrowed
<1> QED
  BY <1>2, <1>3 DEF NotLent

\* The ways the actions say what is gone and what comes.
LEMMA WithoutIs ==
  ASSUME NEW gone, NEW q, NEW v
  PROVE  /\ Without(gone, q, v) = Put(Cut(prof, gone), q, v)
         /\ IosWithout(gone, q, v) = Put(Cut(ios, gone), q, v)
         /\ Restrict(prof, DOMAIN prof \ gone) = Cut(prof, gone)
         /\ Restrict(ios, DOMAIN ios \ gone) = Cut(ios, gone)
<1>1. Without(gone, q, v) = Put(Cut(prof, gone), q, v)
  <2>1. DOMAIN Cut(prof, gone) = DOMAIN prof \ gone
        /\ \A r \in DOMAIN prof \ gone : Cut(prof, gone)[r] = prof[r]
    BY DEF Cut
  <2> QED
    BY <2>1 DEF Put, Without
<1>2. IosWithout(gone, q, v) = Put(Cut(ios, gone), q, v)
  <2>1. DOMAIN Cut(ios, gone) = DOMAIN ios \ gone
        /\ \A r \in DOMAIN ios \ gone : Cut(ios, gone)[r] = ios[r]
    BY DEF Cut
  <2> QED
    BY <2>1 DEF Put, IosWithout
<1> QED
  BY <1>1, <1>2 DEF Restrict, Cut

\* Nothing is gone.
LEMMA CutNone ==
  ASSUME NEW f, f = [x \in DOMAIN f |-> f[x]]
  PROVE  Cut(f, {}) = f
<1>1. DOMAIN f \ {} = DOMAIN f
  OBVIOUS
<1> QED
  BY <1>1 DEF Cut

\* Profiles are deleted, with all that is in their tags and the IO they own.
LEMMA RemoveReady ==
  ASSUME IInv, NEW S, S \subseteq DOMAIN prof,
         \A r \in DOMAIN prof : prof[r].parent \in S => r \in S,
         NEW N, NotLent(N), S \subseteq N
  PROVE  /\ Ready(Cut(prof, S), Cut(ios, DeletedWith(S)), hand, lost)
         /\ DeletedWith(S) \cap (hand \cup lost) = {} /\ DeletedWith(S) \subseteq DOMAIN ios
<1> DEFINE D == DeletedWith(S)
           P2 == Released(prof, S)
<1>1. Good(prof, ios, hand, lost) /\ Forest(prof)
  BY DEF IInv
<1>2. \A y : y \in D <=> Goes(prof, ios, S, y)
  BY DeletedIs
<1> HIDE DEF D
<1>3. \A q \in S, x \in Ios, r \in DOMAIN prof :
        Holds(prof, q, x) /\ prof[r].shared => prof[r].io # x
  BY NotLentIs
<1>4. Good(P2, Cut(ios, D), hand, lost) /\ D \cap (hand \cup lost) = {} /\ D \subseteq DOMAIN ios
  BY <1>1, <1>2, <1>3, LetGoGood
<1>5. DOMAIN P2 = DOMAIN prof /\ \A q \in DOMAIN prof : q \notin S => P2[q] = prof[q]
  BY DEF Released
<1>6. \A q \in DOMAIN prof : P2[q].parent = prof[q].parent /\ (q \in S => P2[q].io = NoIo)
  <2>1. ASSUME NEW q \in S
        PROVE  P2[q].parent = prof[q].parent /\ P2[q].io = NoIo
    <3>1. P2[q] = [prof[q] EXCEPT !.io = NoIo, !.shared = FALSE] /\ prof[q] \in ProfileStates
      BY <1>1 DEF Released, Good, Types
    <3> HIDE DEF P2
    <3> QED
      BY <3>1 DEF ProfileStates
  <2> QED
    BY <1>5, <2>1
<1>7. Cut(P2, S) = Cut(prof, S)
  <2> HIDE DEF P2
  <2> QED
    BY <1>5 DEF Cut
<1> HIDE DEF P2
<1>8. Good(Cut(P2, S), Cut(ios, D), hand, lost)
  BY <1>4, <1>5, <1>6, DropGood
<1>9. Forest(Cut(prof, S))
  BY <1>1, Constants, ForestCut DEF Good, Types
<1> QED
  BY <1>4, <1>7, <1>8, <1>9 DEF Ready, D

\* A profile comes, outside of all others and with no IO.
LEMMA NewReady ==
  ASSUME NEW P, NEW I, NEW H, NEW L, Ready(P, I, H, L), NEW q \in Profiles \ DOMAIN P,
         NEW v \in ProfileStates, v.io = NoIo, v.parent = NoProfile
  PROVE  Ready(Put(P, q, v), I, H, L)
<1>1. Good(Put(P, q, v), I, H, L)
  BY NewGood DEF Ready
<1>2. NoProfile \notin DOMAIN P
  BY Constants DEF Ready, Good, Types
<1> QED
  BY <1>1, <1>2, ForestNew DEF Ready

\* Records of a profile outside of others.
LEMMA RecordTypes ==
  /\ Fresh \in ProfileStates /\ Fresh.io = NoIo /\ Fresh.parent = NoProfile
  /\ \A dir \in Dirs :
       /\ [Fresh EXCEPT !.dir = dir] \in ProfileStates
       /\ [Fresh EXCEPT !.dir = dir].io = NoIo
       /\ [Fresh EXCEPT !.dir = dir].parent = NoProfile
  /\ \A dir \in Dirs, x \in Ios :
       /\ [[Fresh EXCEPT !.dir = dir] EXCEPT !.io = x, !.shared = FALSE]
            = [Fresh EXCEPT !.dir = dir, !.io = x]
       /\ [Fresh EXCEPT !.dir = dir, !.io = x, !.shared = FALSE]
            = [Fresh EXCEPT !.dir = dir, !.io = x]
<1>1. Fresh \in ProfileStates /\ Fresh.io = NoIo /\ Fresh.parent = NoProfile
  BY DEF Fresh, ProfileStates, Dirs
<1>2. \A a, b \in ProfileStates :
        a.parent = b.parent /\ a.dir = b.dir /\ a.io = b.io /\ a.shared = b.shared => a = b
  BY DEF ProfileStates
<1>3. ASSUME NEW dir \in Dirs
      PROVE  /\ [Fresh EXCEPT !.dir = dir] \in ProfileStates
             /\ [Fresh EXCEPT !.dir = dir].io = NoIo
             /\ [Fresh EXCEPT !.dir = dir].parent = NoProfile
  BY <1>1 DEF ProfileStates
<1>4. ASSUME NEW dir \in Dirs, NEW x \in Ios
      PROVE  /\ [[Fresh EXCEPT !.dir = dir] EXCEPT !.io = x, !.shared = FALSE]
                  = [Fresh EXCEPT !.dir = dir, !.io = x]
             /\ [Fresh EXCEPT !.dir = dir, !.io = x, !.shared = FALSE]
                  = [Fresh EXCEPT !.dir = dir, !.io = x]
  <2> DEFINE u == [[Fresh EXCEPT !.dir = dir] EXCEPT !.io = x, !.shared = FALSE]
             v == [Fresh EXCEPT !.dir = dir, !.io = x]
             w == [Fresh EXCEPT !.dir = dir, !.io = x, !.shared = FALSE]
  <2>1. Fresh.shared = FALSE
    BY DEF Fresh
  <2>2. u \in ProfileStates /\ v \in ProfileStates /\ w \in ProfileStates
    BY <1>1 DEF ProfileStates
  <2>3. /\ u.parent = Fresh.parent /\ u.dir = dir /\ u.io = x /\ u.shared = FALSE
        /\ v.parent = Fresh.parent /\ v.dir = dir /\ v.io = x /\ v.shared = FALSE
        /\ w.parent = Fresh.parent /\ w.dir = dir /\ w.io = x /\ w.shared = FALSE
    BY <1>1, <2>1 DEF ProfileStates
  <2> HIDE DEF u, v, w
  <2>4. u = v /\ w = v
    BY <1>2, <2>2, <2>3
  <2> QED
    BY <2>4 DEF u, v, w
<1> QED
  BY <1>1, <1>3, <1>4

\* Of two changes of one entry the second counts.
LEMMA PutPut ==
  ASSUME NEW f, NEW q, NEW v, NEW w
  PROVE  Put(Put(f, q, v), q, w) = Put(f, q, w)
<1> DEFINE g == Put(f, q, v)
<1>1. DOMAIN g = DOMAIN f \cup {q} /\ \A r \in DOMAIN f : r # q => g[r] = f[r]
  BY DEF Put
<1> HIDE DEF g
<1>2. DOMAIN g \cup {q} = DOMAIN f \cup {q}
  BY <1>1
<1>3. Put(g, q, w) = Put(f, q, w)
  BY <1>1, <1>2 DEF Put
<1> QED
  BY <1>3 DEF g

\* The parts of the invariant.
LEMMA StateTypes ==
  ASSUME IInv
  PROVE  /\ Ready(prof, ios, hand, lost) /\ Types(prof, ios, hand, lost)
         /\ NoProfile \notin DOMAIN prof
         /\ Cut(prof, {}) = prof /\ Cut(ios, {}) = ios
         /\ \A q \in DOMAIN prof : prof[q] \in ProfileStates
<1>1. Ready(prof, ios, hand, lost) /\ Types(prof, ios, hand, lost)
  BY DEF IInv, Ready, Good
<1>2. Cut(prof, {}) = prof /\ Cut(ios, {}) = ios
  <2>1. prof = [q \in DOMAIN prof |-> prof[q]] /\ ios = [x \in DOMAIN ios |-> ios[x]]
    BY <1>1 DEF Types
  <2> QED
    BY <2>1, CutNone
<1> QED
  BY <1>1, <1>2, Constants DEF Types

\* The profiles of the tree of an outer one are gone.
LEMMA OuterGone ==
  ASSUME IInv, NEW q \in Outer, NotLent(Tree(q))
  PROVE  /\ Ready(Cut(prof, Tree(q)), Cut(ios, DeletedWith(Tree(q))), hand, lost)
         /\ DeletedWith(Tree(q)) \cap (hand \cup lost) = {}
         /\ DeletedWith(Tree(q)) \subseteq DOMAIN ios
         /\ q \in Profiles \ DOMAIN Cut(prof, Tree(q))
         /\ DOMAIN Cut(ios, DeletedWith(Tree(q))) \subseteq DOMAIN ios
<1>1. q \in DOMAIN prof
  BY DEF Outer
<1>2. /\ q \in Tree(q) /\ Tree(q) \subseteq DOMAIN prof
      /\ \A r \in DOMAIN prof : prof[r].parent \in Tree(q) => r \in Tree(q)
  BY <1>1, TreeParts
<1>3. q \in Profiles
  BY <1>1, StateTypes DEF Types
<1>4. q \notin DOMAIN Cut(prof, Tree(q))
  BY <1>2 DEF Cut
<1>5. DOMAIN Cut(ios, DeletedWith(Tree(q))) \subseteq DOMAIN ios
  BY DEF Cut
<1>6. /\ Ready(Cut(prof, Tree(q)), Cut(ios, DeletedWith(Tree(q))), hand, lost)
      /\ DeletedWith(Tree(q)) \cap (hand \cup lost) = {}
      /\ DeletedWith(Tree(q)) \subseteq DOMAIN ios
  BY <1>2, RemoveReady
<1> QED
  BY <1>3, <1>4, <1>5, <1>6

\* An outer profile takes an IO of the client's.
LEMMA TakeReady ==
  ASSUME NEW P, NEW I, NEW H, NEW L, Ready(P, I, H, L), NEW q \in Profiles \ DOMAIN P,
         NEW x \in H, NEW dir \in Dirs
  PROVE  Ready(Put(P, q, [Fresh EXCEPT !.dir = dir, !.io = x, !.shared = FALSE]), I, H \ {x}, L)
<1> DEFINE v == [Fresh EXCEPT !.dir = dir]
           u == [v EXCEPT !.io = x, !.shared = FALSE]
           P2 == Put(P, q, v)
<1>1. v \in ProfileStates /\ v.io = NoIo /\ v.parent = NoProfile
  BY RecordTypes
<1>2. x \in Ios
  BY DEF Ready, Good, Types
<1>3. u = [Fresh EXCEPT !.dir = dir, !.io = x, !.shared = FALSE] /\ u.parent = NoProfile
  BY <1>2, RecordTypes DEF Fresh
<1> HIDE DEF v
<1>4. Ready(P2, I, H, L)
  BY <1>1, NewReady
<1>5. q \in DOMAIN P2 /\ P2[q] = v
  BY DEF Put
<1>9. Put(P2, q, u) = Put(P, q, u)
  <2> HIDE DEF u
  <2> QED
    BY PutPut
<1> HIDE DEF P2
<1>6. Good(Put(P2, q, [P2[q] EXCEPT !.io = x, !.shared = FALSE]), I, H \ {x}, L)
  BY <1>1, <1>4, <1>5, TakeGood DEF Ready
<1>7. NoProfile \notin DOMAIN P
  BY Constants DEF Ready, Good, Types
<1> HIDE DEF u
<1>8. Forest(Put(P, q, u))
  BY <1>3, <1>7, ForestNew DEF Ready
<1> QED
  BY <1>3, <1>5, <1>6, <1>8, <1>9 DEF Ready, u

\* An outer profile takes a window that owns it.
LEMMA WrapReady ==
  ASSUME NEW P, NEW I, NEW H, NEW L, Ready(P, I, H, L), NEW q \in Profiles \ DOMAIN P,
         NEW x \in H, NEW w \in Ios \ DOMAIN I, NEW dir \in Dirs
  PROVE  Ready(Put(P, q, [Fresh EXCEPT !.dir = dir, !.io = w]),
               Put(I, w, [over |-> x, owns |-> TRUE]), H \ {x}, L)
<1> DEFINE v == [Fresh EXCEPT !.dir = dir]
           u == [v EXCEPT !.io = w, !.shared = FALSE]
           P2 == Put(P, q, v)
<1>1. v \in ProfileStates /\ v.io = NoIo /\ v.parent = NoProfile
  BY RecordTypes
<1>3. u = [Fresh EXCEPT !.dir = dir, !.io = w] /\ u.parent = NoProfile
  BY RecordTypes DEF Fresh
<1> HIDE DEF v
<1>4. Ready(P2, I, H, L)
  BY <1>1, NewReady
<1>5. q \in DOMAIN P2 /\ P2[q] = v
  BY DEF Put
<1>9. Put(P2, q, u) = Put(P, q, u)
  <2> HIDE DEF u
  <2> QED
    BY PutPut
<1> HIDE DEF P2
<1>6. Good(Put(P2, q, [P2[q] EXCEPT !.io = w, !.shared = FALSE]),
           Put(I, w, Window(x, TRUE)), H \ {x}, L)
  BY <1>1, <1>4, <1>5, WrapGood DEF Ready
<1>7. NoProfile \notin DOMAIN P
  BY Constants DEF Ready, Good, Types
<1> HIDE DEF u
<1>8. Forest(Put(P, q, u))
  BY <1>3, <1>7, ForestNew DEF Ready
<1> QED
  BY <1>3, <1>5, <1>6, <1>8, <1>9 DEF Ready, u, Window

\* The tags of a profile change, and nothing is in them.
LEMMA DirReady ==
  ASSUME NEW P, NEW I, NEW H, NEW L, Ready(P, I, H, L), NEW q \in DOMAIN P, NEW dir \in Dirs,
         \A r \in DOMAIN P : P[r].parent # q
  PROVE  Ready(Put(P, q, [P[q] EXCEPT !.dir = dir]), I, H, L)
<1> DEFINE v == [P[q] EXCEPT !.dir = dir]
           P2 == Put(P, q, v)
<1>1. Good(P2, I, H, L)
  BY DirGood DEF Ready
<1>2. v.parent = P[q].parent
  <2>1. P[q] \in ProfileStates
    BY DEF Ready, Good, Types
  <2> QED
    BY <2>1 DEF ProfileStates
<1> HIDE DEF v
<1>3. DOMAIN P2 = DOMAIN P /\ P2[q] = v /\ \A r \in DOMAIN P : r # q => P2[r] = P[r]
  BY DEF Put
<1> HIDE DEF P2
<1>4. Forest(P2)
  BY <1>2, <1>3, ForestSame DEF Ready
<1> QED
  BY <1>1, <1>4 DEF Ready, P2, v
-----------------------------------------------------------------------------
(* The client's IO objects and profiles                                     *)

\* The client opens an IO: it is in its hands.
LEMMA OpenStep == IInv /\ OpenIO => IInv'
<1> SUFFICES ASSUME IInv, OpenIO
             PROVE  IInv'
  OBVIOUS
<1>1. PICK x \in Ios \ DOMAIN ios :
        ios' = IosWithout({}, x, Plain) /\ hand' = hand \cup {x} /\ UNCHANGED <<prof, lost>>
  BY DEF OpenIO
<1>2. ios' = Put(ios, x, Plain)
  BY <1>1, WithoutIs, StateTypes
<1> QED
  BY <1>1, <1>2, OpenGood DEF IInv

\* The client deletes an IO that is in its hands: nobody else's.
LEMMA CloseStep == IInv /\ CloseIO => IInv'
<1> SUFFICES ASSUME IInv, CloseIO
             PROVE  IInv'
  OBVIOUS
<1>1. PICK x \in hand : /\ ios' = Restrict(ios, DOMAIN ios \ {x})
                        /\ hand' = hand \ {x} /\ UNCHANGED <<prof, lost>>
  BY DEF CloseIO
<1>2. ios' = Cut(ios, {x})
  BY <1>1, WithoutIs
<1> QED
  BY <1>1, <1>2, CloseGood DEF IInv

\* A new profile has no IO.
LEMMA NewStep == IInv /\ NewProfile => IInv'
<1> SUFFICES ASSUME IInv, NewProfile
             PROVE  IInv'
  OBVIOUS
<1>1. PICK q \in Profiles \ DOMAIN prof :
        prof' = Without({}, q, Fresh) /\ UNCHANGED <<ios, hand, lost>>
  BY DEF NewProfile
<1>2. prof' = Put(prof, q, Fresh)
  BY <1>1, WithoutIs, StateTypes
<1>3. Ready(Put(prof, q, Fresh), ios, hand, lost)
  BY RecordTypes, StateTypes, NewReady
<1> QED
  BY <1>1, <1>2, <1>3 DEF IInv, Ready

\* What a copy has.
LEMMA CopyTypes ==
  ASSUME IInv, NEW r \in DOMAIN prof
  PROVE  CopyOf(r) \in ProfileStates /\ CopyOf(r).io = NoIo /\ CopyOf(r).parent = NoProfile
<1>1. prof[r].dir \in Dirs
  BY StateTypes DEF ProfileStates
<1> QED
  BY <1>1, RecordTypes DEF CopyOf

\* Nor has a copy.
LEMMA CopyStep == IInv /\ NewCopy => IInv'
<1> SUFFICES ASSUME IInv, NewCopy
             PROVE  IInv'
  OBVIOUS
<1>1. PICK q \in Profiles \ DOMAIN prof, r \in DOMAIN prof :
        prof' = Without({}, q, CopyOf(r)) /\ UNCHANGED <<ios, hand, lost>>
  BY DEF NewCopy
<1>2. prof' = Put(prof, q, CopyOf(r))
  BY <1>1, WithoutIs, StateTypes
<1>3. Ready(Put(prof, q, CopyOf(r)), ios, hand, lost)
  BY CopyTypes, StateTypes, NewReady
<1> QED
  BY <1>1, <1>2, <1>3 DEF IInv, Ready

\* operator= deletes what is in the tags and the IO, then is a copy.
LEMMA AssignStep == IInv /\ Assign => IInv'
<1> SUFFICES ASSUME IInv, Assign
             PROVE  IInv'
  OBVIOUS
<1>1. PICK q \in Outer, r \in DOMAIN prof :
        /\ NotLent(Tree(q))
        /\ prof' = Without(Tree(q), q, CopyOf(r))
        /\ ios' = Restrict(ios, DOMAIN ios \ DeletedWith(Tree(q)))
        /\ UNCHANGED <<hand, lost>>
  BY DEF Assign
<1>2. /\ prof' = Put(Cut(prof, Tree(q)), q, CopyOf(r))
      /\ ios' = Cut(ios, DeletedWith(Tree(q)))
  BY <1>1, WithoutIs
<1>3. Ready(Put(Cut(prof, Tree(q)), q, CopyOf(r)), Cut(ios, DeletedWith(Tree(q))), hand, lost)
  BY <1>1, OuterGone, CopyTypes, NewReady
<1> QED
  BY <1>1, <1>2, <1>3 DEF IInv, Ready

\* ~CIccProfile deletes what is in the tags and the IO.
LEMMA DestroyStep == IInv /\ Destroy => IInv'
<1> SUFFICES ASSUME IInv, Destroy
             PROVE  IInv'
  OBVIOUS
<1>1. PICK q \in Outer :
        /\ NotLent(Tree(q))
        /\ prof' = Restrict(prof, DOMAIN prof \ Tree(q))
        /\ ios' = Restrict(ios, DOMAIN ios \ DeletedWith(Tree(q)))
        /\ UNCHANGED <<hand, lost>>
  BY DEF Destroy
<1>2. /\ prof' = Cut(prof, Tree(q))
      /\ ios' = Cut(ios, DeletedWith(Tree(q)))
  BY <1>1, WithoutIs
<1> QED
  BY <1>1, <1>2, OuterGone DEF IInv, Ready
-----------------------------------------------------------------------------
(* Attach                                                                   *)

\* A refused Attach leaves the profile with nothing and the IO with the client.
LEMMA RefusedStep == IInv /\ AttachRefused => IInv'
<1> SUFFICES ASSUME IInv, AttachRefused
             PROVE  IInv'
  OBVIOUS
<1>1. PICK q \in Outer :
        /\ NotLent(Tree(q))
        /\ prof' = Without(Tree(q), q, Fresh)
        /\ ios' = Restrict(ios, DOMAIN ios \ DeletedWith(Tree(q)))
        /\ UNCHANGED <<hand, lost>>
  BY DEF AttachRefused
<1>2. /\ prof' = Put(Cut(prof, Tree(q)), q, Fresh)
      /\ ios' = Cut(ios, DeletedWith(Tree(q)))
  BY <1>1, WithoutIs
<1>3. Ready(Put(Cut(prof, Tree(q)), q, Fresh), Cut(ios, DeletedWith(Tree(q))), hand, lost)
  BY <1>1, OuterGone, RecordTypes, NewReady
<1> QED
  BY <1>1, <1>2, <1>3 DEF IInv, Ready

\* With no tags the IO it had is lost, with tags it is deleted.
LEMMA AttachStep == IInv /\ Attach => IInv'
<1> SUFFICES ASSUME IInv, Attach
             PROVE  IInv'
  OBVIOUS
<1>1. PICK q \in Outer, x \in hand, dir \in Dirs :
        /\ NotLent(Tree(q))
        /\ prof' = Without(Tree(q), q, [Fresh EXCEPT !.dir = dir, !.io = x, !.shared = FALSE])
        /\ ios' = Restrict(ios, DOMAIN ios \ LetGo(q))
        /\ hand' = hand \ {x}
        /\ lost' = lost \cup Replaced(q)
  BY DEF Attach
<1> DEFINE P2 == Cut(prof, Tree(q))
           D == DeletedWith(Tree(q))
           v == [Fresh EXCEPT !.dir = dir, !.io = x, !.shared = FALSE]
<1>2. prof' = Put(P2, q, v) /\ ios' = Cut(ios, LetGo(q))
  BY <1>1, WithoutIs
<1>3. /\ Ready(P2, Cut(ios, D), hand, lost) /\ D \cap (hand \cup lost) = {}
      /\ D \subseteq DOMAIN ios /\ q \in Profiles \ DOMAIN P2
  BY <1>1, OuterGone
<1>4. CASE prof[q].dir = "empty"
  <2>1. Tree(q) = {q}
    <3>1. q \in DOMAIN prof
      BY DEF Outer
    <3> QED
      BY <1>4, <3>1, TreeParts
  <2>2. LetGo(q) = {} /\ Replaced(q) = D
    BY <1>4, <2>1 DEF LetGo, Replaced
  <2>3. Types(P2, ios, hand, lost)
    BY <1>3, StateTypes DEF Ready, Good, Types
  <2> HIDE DEF P2, D, v
  <2>4. Ready(P2, ios, hand, lost \cup D)
    BY <1>3, <2>3, LoseGood DEF Ready
  <2>5. Ready(Put(P2, q, v), ios, hand \ {x}, lost \cup D)
    BY <1>1, <1>3, <2>4, TakeReady DEF v
  <2>6. ios' = ios /\ lost' = lost \cup D
    BY <1>1, <1>2, <2>2, StateTypes
  <2> QED
    BY <1>1, <1>2, <2>5, <2>6 DEF IInv, Ready
<1>5. CASE prof[q].dir # "empty"
  <2>1. LetGo(q) = D /\ Replaced(q) = {}
    BY <1>5 DEF LetGo, Replaced
  <2> HIDE DEF P2, D, v
  <2>2. Ready(Put(P2, q, v), Cut(ios, D), hand \ {x}, lost)
    BY <1>1, <1>3, TakeReady DEF v
  <2>3. ios' = Cut(ios, D) /\ lost' = lost
    BY <1>1, <1>2, <2>1
  <2> QED
    BY <1>1, <1>2, <2>2, <2>3 DEF IInv, Ready
<1> QED
  BY <1>4, <1>5

\* The sub-profile owns the window, that owns the file's IO.
LEMMA AttachSubStep == IInv /\ AttachSub => IInv'
<1> SUFFICES ASSUME IInv, AttachSub
             PROVE  IInv'
  OBVIOUS
<1>1. PICK q \in Outer, x \in hand, w \in Ios \ DOMAIN ios, dir \in Dirs :
        /\ NotLent(Tree(q))
        /\ prof' = Without(Tree(q), q, [Fresh EXCEPT !.dir = dir, !.io = w])
        /\ ios' = IosWithout(DeletedWith(Tree(q)), w, [over |-> x, owns |-> TRUE])
        /\ hand' = hand \ {x}
        /\ UNCHANGED lost
  BY DEF AttachSub
<1> DEFINE P2 == Cut(prof, Tree(q))
           I2 == Cut(ios, DeletedWith(Tree(q)))
<1>2. /\ prof' = Put(P2, q, [Fresh EXCEPT !.dir = dir, !.io = w])
      /\ ios' = Put(I2, w, [over |-> x, owns |-> TRUE])
  BY <1>1, WithoutIs
<1>3. Ready(P2, I2, hand, lost) /\ q \in Profiles \ DOMAIN P2 /\ w \in Ios \ DOMAIN I2
  BY <1>1, OuterGone
<1> HIDE DEF P2, I2
<1>4. Ready(Put(P2, q, [Fresh EXCEPT !.dir = dir, !.io = w]),
            Put(I2, w, [over |-> x, owns |-> TRUE]), hand \ {x}, lost)
  BY <1>1, <1>3, WrapReady
<1> QED
  BY <1>1, <1>2, <1>4 DEF IInv, Ready

\* A window that is left behind owns nothing.
LEMMA AttachSubFailsStep == IInv /\ AttachSubFails => IInv'
<1> SUFFICES ASSUME IInv, AttachSubFails
             PROVE  IInv'
  OBVIOUS
<1>1. PICK q \in Outer, x \in hand, w \in Ios \ DOMAIN ios :
        /\ NotLent(Tree(q))
        /\ prof' = Without(Tree(q), q, Fresh)
        /\ ios' = IosWithout(DeletedWith(Tree(q)), w, [over |-> x, owns |-> TRUE])
        /\ lost' = lost \cup {w}
        /\ UNCHANGED hand
  BY DEF AttachSubFails
<1> DEFINE P2 == Cut(prof, Tree(q))
           I2 == Cut(ios, DeletedWith(Tree(q)))
<1>2. /\ prof' = Put(P2, q, Fresh)
      /\ ios' = Put(I2, w, Window(x, TRUE))
  BY <1>1, WithoutIs DEF Window
<1>3. Ready(P2, I2, hand, lost) /\ q \in Profiles \ DOMAIN P2 /\ w \in Ios \ DOMAIN I2
  BY <1>1, OuterGone
<1> HIDE DEF P2, I2
<1> DEFINE P3 == Put(P2, q, Fresh)
<1>4. Ready(P3, I2, hand, lost)
  BY <1>3, RecordTypes, NewReady
<1> HIDE DEF P3
<1>5. Good(P3, Put(I2, w, Window(x, TRUE)), hand, lost \cup {w})
  BY <1>1, <1>3, <1>4, LeftGood DEF Ready
<1> QED
  BY <1>1, <1>2, <1>4, <1>5 DEF IInv, Ready, P3
-----------------------------------------------------------------------------
(* Reading                                                                  *)

\* Nothing is in the tags of a profile whose tags are not read.
LEMMA UnreadIs ==
  ASSUME IInv, NEW q \in DOMAIN prof, prof[q].dir # "read"
  PROVE  Inside(q) = {} /\ \A r \in DOMAIN prof : prof[r].parent # q
<1>1. Inside(q) = {}
  BY TreeParts
<1>2. \A r \in DOMAIN prof : prof[r].parent # q
  BY StateTypes DEF IInv, Forest, Leveled
<1> QED
  BY <1>1, <1>2

\* The profile in the tag reads through a window onto the IO of the one around it.
LEMMA FindTagStep == IInv /\ FindTag => IInv'
<1> SUFFICES ASSUME IInv, FindTag
             PROVE  IInv'
  OBVIOUS
<1>1. PICK q \in DOMAIN prof :
        /\ prof[q].dir = "unread" /\ HasIO(q)
        /\ ReadEmbedded(q, prof[q].io, [prof[q] EXCEPT !.dir = "read"], TRUE, {})
        /\ UNCHANGED <<hand, lost>>
  BY DEF FindTag
<1> DEFINE v == [prof[q] EXCEPT !.dir = "read"]
<1>2. PICK c \in Profiles \ (DOMAIN prof \cup {q}), w \in Ios \ DOMAIN ios, dir \in Dirs :
        /\ Depth(q) < MaxNested
        /\ prof' = [r \in (DOMAIN prof \ Inside(q)) \cup {c} |->
                      IF r = q THEN v
                      ELSE IF r = c THEN [parent |-> q, dir |-> dir, io |-> w, shared |-> FALSE]
                      ELSE prof[r]]
        /\ ios' = IosWithout({}, w, WindowOnto(prof[q].io))
  BY <1>1 DEF ReadEmbedded
<1> DEFINE u == [parent |-> q, dir |-> dir, io |-> w, shared |-> FALSE]
           P2 == Put(prof, q, v)
<1>3. Inside(q) = {} /\ \A r \in DOMAIN prof : prof[r].parent # q
  BY <1>1, UnreadIs
<1>4. v.io = prof[q].io /\ v.dir = "read"
  <2>1. prof[q] \in ProfileStates
    BY StateTypes
  <2> QED
    BY <2>1 DEF ProfileStates
<1>5. u.parent = q
  OBVIOUS
<1>6. prof' = [r \in DOMAIN prof \cup {c} |-> IF r = q THEN v ELSE IF r = c THEN u ELSE prof[r]]
  BY <1>2, <1>3
<1> HIDE DEF v
<1>7. /\ DOMAIN P2 = DOMAIN prof /\ P2[q] = v
      /\ \A r \in DOMAIN prof : r # q => P2[r] = prof[r]
  BY DEF Put
<1>8. Ready(P2, ios, hand, lost)
  <2>1. "read" \in Dirs
    BY DEF Dirs
  <2> QED
    BY <1>3, <2>1, StateTypes, DirReady DEF v
<1> HIDE DEF P2
<1>9. prof' = Put(P2, c, u)
  <2> HIDE DEF u
  <2>1. c # q /\ c \notin DOMAIN prof
    BY <1>2
  <2>2. \A r \in DOMAIN prof \cup {c} :
          (IF r = q THEN v ELSE IF r = c THEN u ELSE prof[r]) = (IF r = c THEN u ELSE P2[r])
    BY <1>7, <2>1
  <2> QED
    BY <1>6, <1>7, <2>2 DEF Put
<1>10. ios' = Put(ios, w, Window(P2[q].io, FALSE))
  BY <1>2, <1>4, <1>7, WithoutIs, StateTypes DEF WindowOnto, Window
<1>11. c \in Profiles \ DOMAIN P2 /\ P2[q].io # NoIo /\ q \in DOMAIN P2
  BY <1>1, <1>2, <1>4, <1>7 DEF HasIO
<1>12. Good(Put(P2, c, u), Put(ios, w, Window(P2[q].io, FALSE)), hand, lost)
  BY <1>8, <1>11, ChildGood DEF Ready
<1>13. Forest(Put(P2, c, u))
  <2>1. PICK level : Leveled(prof, level)
    BY DEF IInv, Forest
  <2>2. level[q] < MaxNested
    <3>1. level[q] <= Depth(q) /\ Depth(q) \in Nat
      BY <2>1, LevelIsDepth
    <3>2. level[q] \in 0..MaxNested
      BY <2>1 DEF Leveled
    <3> QED
      BY <1>2, <3>1, <3>2, Constants
  <2>3. v.parent = prof[q].parent
    BY StateTypes DEF v, ProfileStates
  <2>4. Leveled(P2, level)
    BY <1>3, <1>7, <2>1, <2>3 DEF Leveled
  <2>5. NoProfile \notin DOMAIN P2
    BY <1>7, StateTypes
  <2> HIDE DEF u
  <2> QED
    BY <1>4, <1>5, <1>7, <1>11, <2>2, <2>4, <2>5, ForestChild
<1> HIDE DEF u
<1> QED
  BY <1>1, <1>9, <1>10, <1>12, <1>13 DEF IInv

\* Read through another profile's IO, a tag keeps none.
LEMMA ReadThroughStep == IInv /\ ReadTagsThrough => IInv'
<1> SUFFICES ASSUME IInv, ReadTagsThrough
             PROVE  IInv'
  OBVIOUS
<1>1. PICK q \in Outer, p \in DOMAIN prof :
        /\ prof[q].dir = "unread" /\ ~HasIO(q)
        /\ ReadEmbedded(q, prof[p].io, [prof[q] EXCEPT !.dir = "read"], HasIO(q), {})
        /\ UNCHANGED <<hand, lost>>
  BY DEF ReadTagsThrough
<1> DEFINE v == [prof[q] EXCEPT !.dir = "read"]
<1>2. /\ prof' = Without(Inside(q), q, v)
      /\ ios' = Restrict(ios, DOMAIN ios \ {})
  BY <1>1 DEF ReadEmbedded
<1>3. q \in DOMAIN prof
  BY DEF Outer
<1>4. Inside(q) = {} /\ \A r \in DOMAIN prof : prof[r].parent # q
  BY <1>1, <1>3, UnreadIs
<1>5. prof' = Put(prof, q, v) /\ ios' = ios
  BY <1>2, <1>4, WithoutIs, StateTypes
<1>6. Ready(Put(prof, q, v), ios, hand, lost)
  <2>1. "read" \in Dirs
    BY DEF Dirs
  <2> QED
    BY <1>3, <1>4, <2>1, StateTypes, DirReady
<1> QED
  BY <1>1, <1>5, <1>6 DEF IInv, Ready

\* Read keeps no IO, in the profile or in its tags.
LEMMA ReadStep == IInv /\ Read => IInv'
<1> SUFFICES ASSUME IInv, Read
             PROVE  IInv'
  OBVIOUS
<1> DEFINE w(q) == [Fresh EXCEPT !.dir = "read", !.io = IoInRead(q),
                                 !.shared = IoInRead(q) # NoIo]
<1>1. PICK q \in Outer, x \in hand :
        /\ NotLent(Tree(q))
        /\ \/ ReadEmbedded(q, x, w(q), IoInRead(q) # NoIo, DeletedWith(Tree(q)))
           \/ /\ prof' = Without(Tree(q), q, Fresh)
              /\ ios' = Restrict(ios, DOMAIN ios \ DeletedWith(Tree(q)))
        /\ UNCHANGED <<hand, lost>>
  BY DEF Read
<1> DEFINE P2 == Cut(prof, Tree(q))
           I2 == Cut(ios, DeletedWith(Tree(q)))
<1>2. q \in DOMAIN prof
  BY DEF Outer
<1>3. Ready(P2, I2, hand, lost) /\ q \in Profiles \ DOMAIN P2
  BY <1>1, OuterGone
<1>4. CASE ReadEmbedded(q, x, w(q), IoInRead(q) # NoIo, DeletedWith(Tree(q)))
  <2> DEFINE v == [Fresh EXCEPT !.dir = "read"]
  <2>1. w(q) \in ProfileStates /\ w(q).io = NoIo /\ w(q).parent = NoProfile
    <3>1. Fresh \in ProfileStates /\ Fresh.parent = NoProfile /\ "read" \in Dirs
      BY RecordTypes DEF Dirs
    <3>2. IoInRead(q) = NoIo
      BY DEF IoInRead
    <3>3. [Fresh EXCEPT !.dir = "read", !.io = NoIo, !.shared = FALSE] \in ProfileStates
      BY <3>1 DEF ProfileStates
    <3>4. /\ [Fresh EXCEPT !.dir = "read", !.io = NoIo, !.shared = FALSE].io = NoIo
          /\ [Fresh EXCEPT !.dir = "read", !.io = NoIo, !.shared = FALSE].parent = NoProfile
      BY <3>1 DEF ProfileStates
    <3>5. w(q) = [Fresh EXCEPT !.dir = "read", !.io = NoIo, !.shared = FALSE]
      <4>1. (NoIo # NoIo) = FALSE
        OBVIOUS
      <4> QED
        BY <3>2, <4>1
    <3> QED
      BY <3>3, <3>4, <3>5
  <2>2. /\ prof' = Without(Inside(q), q, w(q))
        /\ ios' = Restrict(ios, DOMAIN ios \ DeletedWith(Tree(q)))
    BY <1>4 DEF ReadEmbedded, IoInRead
  <2>3. Without(Inside(q), q, w(q)) = Put(P2, q, w(q)) /\ ios' = I2
    <3>1. Tree(q) = Inside(q) \cup {q}
      BY <1>2, TreeParts
    <3>2. (DOMAIN prof \ Inside(q)) \cup {q} = (DOMAIN prof \ Tree(q)) \cup {q}
      BY <3>1
    <3> HIDE DEF w
    <3>3. Without(Inside(q), q, w(q)) = Without(Tree(q), q, w(q))
      BY <3>2 DEF Without
    <3> QED
      BY <2>2, <3>3, WithoutIs
  <2> HIDE DEF w, P2, I2
  <2>4. Ready(Put(P2, q, w(q)), I2, hand, lost)
    BY <1>3, <2>1, NewReady
  <2> QED
    BY <1>1, <2>2, <2>3, <2>4 DEF IInv, Ready
<1>5. CASE /\ prof' = Without(Tree(q), q, Fresh)
           /\ ios' = Restrict(ios, DOMAIN ios \ DeletedWith(Tree(q)))
  <2>1. prof' = Put(P2, q, Fresh) /\ ios' = I2
    BY <1>5, WithoutIs
  <2>2. Ready(Put(P2, q, Fresh), I2, hand, lost)
    BY <1>3, RecordTypes, NewReady
  <2> QED
    BY <1>1, <2>1, <2>2 DEF IInv, Ready
<1> QED
  BY <1>1, <1>4, <1>5

\* DeleteTags deletes the profiles in the tags with the IO they have.
LEMMA DeleteTagsStep == IInv /\ DeleteTags => IInv'
<1> SUFFICES ASSUME IInv, DeleteTags
             PROVE  IInv'
  OBVIOUS
<1>1. PICK q \in DOMAIN prof :
        /\ NotLent(Inside(q))
        /\ prof' = Without(Inside(q), q, [prof[q] EXCEPT !.dir = "empty"])
        /\ ios' = Restrict(ios, DOMAIN ios \ DeletedWith(Inside(q)))
        /\ UNCHANGED <<hand, lost>>
  BY DEF DeleteTags
<1> DEFINE P2 == Cut(prof, Inside(q))
           I2 == Cut(ios, DeletedWith(Inside(q)))
<1>2. /\ q \in Tree(q) /\ Tree(q) \subseteq DOMAIN prof
      /\ Tree(q) = Inside(q) \cup {q} /\ q \notin Inside(q)
      /\ \A r \in DOMAIN prof : prof[r].parent \in Inside(q) => r \in Inside(q)
      /\ \A r \in DOMAIN prof : prof[r].parent \in Tree(q) => r \in Tree(q)
  BY TreeParts
<1>3. Ready(P2, I2, hand, lost)
  BY <1>1, <1>2, RemoveReady
<1>4. DOMAIN P2 = DOMAIN prof \ Inside(q) /\ \A r \in DOMAIN P2 : P2[r] = prof[r]
  BY DEF Cut
<1>5. /\ prof' = Put(P2, q, [prof[q] EXCEPT !.dir = "empty"]) /\ ios' = I2
  BY <1>1, WithoutIs
<1> HIDE DEF P2, I2
<1>6. q \in DOMAIN P2 /\ P2[q] = prof[q]
  BY <1>2, <1>4
<1>7. \A r \in DOMAIN P2 : P2[r].parent # q
  <2> SUFFICES ASSUME NEW r \in DOMAIN P2, P2[r].parent = q
               PROVE  FALSE
    OBVIOUS
  <2>1. r \in DOMAIN prof /\ prof[r].parent = q /\ r \notin Inside(q)
    BY <1>4
  <2>2. r = q
    BY <1>2, <2>1
  <2>3. PICK level : Leveled(prof, level)
    BY DEF IInv, Forest
  <2>4. level[q] = level[q] + 1 /\ level[q] \in 0..MaxNested
    BY <2>1, <2>2, <2>3, StateTypes DEF Leveled
  <2> QED
    BY <2>4, Constants
<1>8. "empty" \in Dirs
  BY DEF Dirs
<1>9. Ready(Put(P2, q, [P2[q] EXCEPT !.dir = "empty"]), I2, hand, lost)
  BY <1>3, <1>6, <1>7, <1>8, DirReady
<1> QED
  BY <1>1, <1>5, <1>6, <1>9 DEF IInv, Ready

\* A profile that goes into a tag keeps its own IO and what is in its tags.
LEMMA EmbedStep == IInv /\ Embed => IInv'
<1> SUFFICES ASSUME IInv, Embed
             PROVE  IInv'
  OBVIOUS
<1>1. PICK q \in Outer, r \in Outer :
        /\ q # r
        /\ prof[q].dir = "empty"
        /\ \A s \in Tree(r) : Depth(s) < MaxNested
        /\ prof' = [prof EXCEPT ![q].dir = "read", ![r].parent = q]
        /\ UNCHANGED <<ios, hand, lost>>
  BY DEF Embed
<1>2. /\ q \in DOMAIN prof /\ r \in DOMAIN prof
      /\ prof[q].parent = NoProfile /\ prof[r].parent = NoProfile
  BY DEF Outer
<1>3. Good(prof', ios, hand, lost)
  BY <1>1, <1>2, EmbedGood DEF IInv
<1>4. PICK level : Leveled(prof, level)
  BY DEF IInv, Forest
<1>5. /\ r \in Tree(r) /\ Tree(r) \subseteq DOMAIN prof
      /\ \A s \in DOMAIN prof : prof[s].parent \in Tree(r) => s \in Tree(r)
      /\ \A s \in Tree(r) : s # r => prof[s].parent \in Tree(r)
  BY <1>2, TreeParts
<1>6. q \notin Tree(r)
  BY <1>1, <1>2, <1>5, StateTypes
<1>7. \A s \in Tree(r) : level[s] < MaxNested
  <2> SUFFICES ASSUME NEW s \in Tree(r)
               PROVE  level[s] < MaxNested
    OBVIOUS
  <2>1. level[s] <= Depth(s) /\ Depth(s) \in Nat /\ Depth(s) < MaxNested
    BY <1>1, <1>4, <1>5, LevelIsDepth
  <2>2. level[s] \in 0..MaxNested
    BY <1>4, <1>5 DEF Leveled
  <2> QED
    BY <2>1, <2>2, Constants
<1>8. prof \in [DOMAIN prof -> ProfileStates] /\ NoProfile \notin DOMAIN prof
  BY StateTypes DEF Types
<1>9. Forest(prof')
  <2> DEFINE T == Tree(r)
  <2>1. /\ r \in T /\ T \subseteq DOMAIN prof /\ q \notin T
        /\ \A s \in DOMAIN prof : prof[s].parent \in T => s \in T
        /\ \A s \in T : s # r => prof[s].parent \in T
        /\ \A s \in T : level[s] < MaxNested
    BY <1>5, <1>6, <1>7
  <2> HIDE DEF T
  <2>2. Forest([prof EXCEPT ![q].dir = "read", ![r].parent = q])
    BY <1>1, <1>2, <1>4, <1>8, <2>1, ForestEmbed
  <2> QED
    BY <1>1, <2>2
<1> QED
  BY <1>1, <1>3, <1>9 DEF IInv
-----------------------------------------------------------------------------
(* Letting go                                                               *)

\* The profiles that let go with q have no IO, and what they owned is gone.
LEMMA ToldGone ==
  ASSUME IInv, NEW q \in DOMAIN prof, NotLent(Tree(q))
  PROVE  /\ Good(LetGoOf(Told(q)), Cut(ios, DeletedWith(Told(q))), hand, lost)
         /\ Forest(LetGoOf(Told(q)))
         /\ DeletedWith(Told(q)) \cap (hand \cup lost) = {}
         /\ DeletedWith(Told(q)) \subseteq DOMAIN ios
<1> DEFINE T == Told(q)
           D == DeletedWith(T)
           P2 == Released(prof, T)
<1>1. /\ q \in T /\ T \subseteq DOMAIN prof /\ T \subseteq Tree(q)
      /\ \A r \in DOMAIN prof : prof[r].parent \in T /\ prof[prof[r].parent].io # NoIo => r \in T
  BY ToldParts, TreeParts DEF HasIO
<1> HIDE DEF T
<1>2. \A y : y \in D <=> Goes(prof, ios, T, y)
  BY <1>1, DeletedIs
<1> HIDE DEF D
<1>3. \A p \in T, x \in Ios, r \in DOMAIN prof :
        Holds(prof, p, x) /\ prof[r].shared => prof[r].io # x
  BY <1>1, NotLentIs
<1>4. Good(P2, Cut(ios, D), hand, lost) /\ D \cap (hand \cup lost) = {} /\ D \subseteq DOMAIN ios
  BY <1>1, <1>2, <1>3, LetGoGood DEF IInv
<1>5. /\ DOMAIN P2 = DOMAIN prof /\ \A r \in DOMAIN prof : r \notin T => P2[r] = prof[r]
      /\ \A r \in T : P2[r] = [prof[r] EXCEPT !.io = NoIo, !.shared = FALSE]
  BY <1>1 DEF Released
<1>6. P2 = LetGoOf(T)
  BY DEF Released, LetGoOf
<1> HIDE DEF P2
<1>7. \A r \in DOMAIN prof : P2[r].parent = prof[r].parent /\ P2[r].dir = prof[r].dir
  <2>1. ASSUME NEW r \in T
        PROVE  P2[r].parent = prof[r].parent /\ P2[r].dir = prof[r].dir
    <3>1. P2[r] = [prof[r] EXCEPT !.io = NoIo, !.shared = FALSE] /\ prof[r] \in ProfileStates
      BY <1>1, <1>5, StateTypes
    <3> QED
      BY <3>1 DEF ProfileStates
  <2> QED
    BY <1>5, <2>1
<1>8. \A r \in DOMAIN prof : prof[r].parent \in DOMAIN prof /\ prof[prof[r].parent].dir = "read" =>
                               P2[prof[r].parent].dir = "read"
  BY <1>7
<1>9. Forest(P2)
  BY <1>5, <1>7, <1>8, ForestSame DEF IInv
<1> QED
  BY <1>4, <1>6, <1>9 DEF T, D

\* Detach tells the profiles in the tags, at all depths.
LEMMA DetachStep == IInv /\ Detach => IInv'
<1> SUFFICES ASSUME IInv, Detach
             PROVE  IInv'
  OBVIOUS
<1>1. PICK q \in DOMAIN prof :
        /\ NotLent(Tree(q))
        /\ prof' = LetGoOf(Told(q))
        /\ ios' = Restrict(ios, DOMAIN ios \ DeletedWith(Told(q)))
        /\ UNCHANGED <<hand, lost>>
  BY DEF Detach
<1>2. ios' = Cut(ios, DeletedWith(Told(q)))
  BY <1>1, WithoutIs
<1>3. /\ Good(LetGoOf(Told(q)), Cut(ios, DeletedWith(Told(q))), hand, lost)
      /\ Forest(LetGoOf(Told(q)))
  BY <1>1, ToldGone
<1> QED
  BY <1>1, <1>2, <1>3 DEF IInv

\* A borrowed IO has an owner.
LEMMA BorrowStep == IInv /\ Borrow => IInv'
<1> SUFFICES ASSUME IInv, Borrow
             PROVE  IInv'
  OBVIOUS
<1>1. PICK q \in Outer, p \in DOMAIN prof :
        /\ ~HasIO(q)
        /\ prof' = [prof EXCEPT ![q].io = prof[p].io, ![q].shared = TRUE]
        /\ UNCHANGED <<ios, hand, lost>>
  BY DEF Borrow
<1>2. q \in DOMAIN prof /\ prof[q].io = NoIo
  BY <1>1 DEF Outer, HasIO
<1>3. Good(prof', ios, hand, lost)
  BY <1>1, <1>2, BorrowGood DEF IInv
<1>4. /\ DOMAIN prof' = DOMAIN prof
      /\ \A r \in DOMAIN prof : prof'[r].parent = prof[r].parent /\ prof'[r].dir = prof[r].dir
  <2> DEFINE P2 == [prof EXCEPT ![q].io = prof[p].io, ![q].shared = TRUE]
  <2>1. /\ DOMAIN P2 = DOMAIN prof /\ \A r \in DOMAIN prof : r # q => P2[r] = prof[r]
        /\ P2[q] = [prof[q] EXCEPT !.io = prof[p].io, !.shared = TRUE]
    BY <1>2
  <2> HIDE DEF P2
  <2>2. prof[q] \in ProfileStates
    BY <1>2, StateTypes
  <2>3. P2[q].parent = prof[q].parent /\ P2[q].dir = prof[q].dir
    BY <2>1, <2>2 DEF ProfileStates
  <2>4. prof' = P2
    BY <1>1 DEF P2
  <2> QED
    BY <2>1, <2>3, <2>4
<1>5. Forest(prof')
  BY <1>4, ForestSame DEF IInv
<1> QED
  BY <1>1, <1>3, <1>5 DEF IInv

\* An IO object goes with one profile at most.
LEMMA GoesOnce ==
  ASSUME NEW P, NEW I, NEW H, NEW L, Good(P, I, H, L), NEW q \in DOMAIN P, NEW T \in SUBSET DOMAIN P,
         q \notin T, NEW y, Goes(P, I, {q}, y)
  PROVE  ~Goes(P, I, T, y)
<1> SUFFICES ASSUME Goes(P, I, T, y)
             PROVE  FALSE
  OBVIOUS
<1>1. PICK x \in Ios : Holds(P, q, x) /\ (y = x \/ (I[x].owns /\ y = I[x].over))
  BY DEF Goes
<1>2. PICK r \in T, z \in Ios : Holds(P, r, z) /\ (y = z \/ (I[z].owns /\ y = I[z].over))
  BY DEF Goes
<1>3. x # z
  BY <1>1, <1>2 DEF Good, Held
<1>4. \A p \in DOMAIN P, v \in Ios : Holds(P, p, v) /\ I[v].owns =>
        Wraps(I, L, v, I[v].over) /\ I[v].over \in Ios \cup {NoIo}
  <2> SUFFICES ASSUME NEW p \in DOMAIN P, NEW v \in Ios, Holds(P, p, v), I[v].owns
               PROVE  Wraps(I, L, v, I[v].over) /\ I[v].over \in Ios \cup {NoIo}
    OBVIOUS
  <2>1. v \in DOMAIN I \ L
    BY DEF Good, Held
  <2> QED
    BY <2>1 DEF Good, Types, Kinds, Wraps
<1>5. CASE y = x /\ y = z
  BY <1>3, <1>5
<1>6. CASE y = x /\ I[z].owns /\ y = I[z].over
  BY <1>1, <1>2, <1>4, <1>6 DEF Good, Wrapped
<1>7. CASE I[x].owns /\ y = I[x].over /\ y = z
  <2>1. Wraps(I, L, x, y) /\ y \in Ios \cup {NoIo}
    BY <1>1, <1>4, <1>7
  <2>2. ~Holds(P, r, y)
    BY <2>1 DEF Good, Wrapped
  <2> QED
    BY <1>2, <1>7, <2>2
<1>8. CASE I[x].owns /\ I[z].owns /\ y = I[x].over /\ y = I[z].over
  BY <1>1, <1>2, <1>3, <1>4, <1>8 DEF Good, Wrapped
<1> QED
  BY <1>1, <1>2, <1>5, <1>6, <1>7, <1>8

\* What is given back and not borrowed is lost; what is in the tags lets go of its own.
LEMMA GiveBackStep == IInv /\ GiveBack => IInv'
<1> SUFFICES ASSUME IInv, GiveBack
             PROVE  IInv'
  OBVIOUS
<1>1. PICK q \in Outer :
        /\ NotLent(Tree(q))
        /\ prof' = LetGoOf(Told(q))
        /\ ios' = Restrict(ios, DOMAIN ios \ DeletedWith(Told(q) \ {q}))
        /\ lost' = lost \cup DeletedWith({q})
        /\ UNCHANGED hand
  BY DEF GiveBack
<1> DEFINE P2 == LetGoOf(Told(q))
           D == DeletedWith(Told(q))
           D1 == DeletedWith(Told(q) \ {q})
           D2 == DeletedWith({q})
           I1 == Cut(ios, D1)
<1>2. q \in DOMAIN prof
  BY DEF Outer
<1>3. ios' = I1
  BY <1>1, WithoutIs
<1>4. /\ Good(P2, Cut(ios, D), hand, lost) /\ Forest(P2)
      /\ D \cap (hand \cup lost) = {} /\ D \subseteq DOMAIN ios
  BY <1>1, <1>2, ToldGone
<1>5. q \in Told(q) /\ Told(q) \subseteq DOMAIN prof
  BY <1>2, ToldParts, TreeParts
<1>6. D = D1 \cup D2
  <2>1. \A y : y \in D <=> Goes(prof, ios, Told(q), y)
    BY <1>5, DeletedIs
  <2>2. \A y : y \in D1 <=> Goes(prof, ios, Told(q) \ {q}, y)
    <3>1. Told(q) \ {q} \subseteq DOMAIN prof
      BY <1>5
    <3> QED
      BY <3>1, DeletedIs
  <2>3. \A y : y \in D2 <=> Goes(prof, ios, {q}, y)
    <3>1. {q} \subseteq DOMAIN prof
      BY <1>2
    <3> QED
      BY <3>1, DeletedIs
  <2> HIDE DEF D, D1, D2
  <2>4. \A y : Goes(prof, ios, Told(q), y)
                 <=> Goes(prof, ios, Told(q) \ {q}, y) \/ Goes(prof, ios, {q}, y)
    BY <1>5 DEF Goes
  <2> QED
    BY <2>1, <2>2, <2>3, <2>4
<1>7. D1 \cap D2 = {}
  <2>1. \A y : y \in D1 <=> Goes(prof, ios, Told(q) \ {q}, y)
    <3>1. Told(q) \ {q} \subseteq DOMAIN prof
      BY <1>5
    <3> QED
      BY <3>1, DeletedIs
  <2>2. \A y : y \in D2 <=> Goes(prof, ios, {q}, y)
    <3>1. {q} \subseteq DOMAIN prof
      BY <1>2
    <3> QED
      BY <3>1, DeletedIs
  <2> HIDE DEF D1, D2
  <2>3. ASSUME NEW y, Goes(prof, ios, {q}, y), Goes(prof, ios, Told(q) \ {q}, y)
        PROVE  FALSE
    <3> DEFINE T == Told(q) \ {q}
    <3>1. T \in SUBSET DOMAIN prof /\ q \notin T /\ Goes(prof, ios, T, y)
      BY <1>5, <2>3
    <3> HIDE DEF T
    <3> QED
      BY <1>2, <2>3, <3>1, GoesOnce DEF IInv
  <2> QED
    BY <2>1, <2>2, <2>3
<1> HIDE DEF P2, D, D1, D2
<1>8. Cut(ios, D) = Cut(I1, D2)
  <2>1. DOMAIN I1 = DOMAIN ios \ D1 /\ \A x \in DOMAIN I1 : I1[x] = ios[x]
    BY DEF Cut
  <2> HIDE DEF I1
  <2>2. DOMAIN ios \ D = DOMAIN I1 \ D2
    BY <1>6, <2>1
  <2>3. \A x \in DOMAIN I1 \ D2 : I1[x] = ios[x]
    BY <2>1
  <2> QED
    BY <2>2, <2>3 DEF Cut
<1>9. D2 \subseteq DOMAIN I1 /\ D2 \cap (hand \cup lost) = {}
  BY <1>4, <1>6, <1>7 DEF Cut
<1>10. Types(P2, I1, hand, lost)
  <2>1. Types(prof, ios, hand, lost) /\ Types(P2, Cut(ios, D), hand, lost)
    BY <1>4, StateTypes DEF Good
  <2>2. DOMAIN I1 = DOMAIN ios \ D1 /\ I1 \in [DOMAIN I1 -> Kinds]
    BY <2>1 DEF Cut, Types
  <2> HIDE DEF I1
  <2> QED
    BY <1>4, <1>6, <2>1, <2>2 DEF Types
<1> HIDE DEF I1
<1>11. Good(P2, I1, hand, lost \cup D2)
  BY <1>4, <1>8, <1>9, <1>10, LoseGood
<1>12. prof' = P2 /\ lost' = lost \cup D2
  BY <1>1 DEF P2, D2
<1> QED
  BY <1>1, <1>3, <1>4, <1>11, <1>12 DEF IInv
-----------------------------------------------------------------------------
(* The invariant holds, and says what is promised                           *)

\* At the start there is nothing.
LEMMA InitIsGood == Init => IInv
<1> SUFFICES ASSUME Init
             PROVE  IInv
  OBVIOUS
<1>1. prof = << >> /\ ios = << >> /\ hand = {} /\ lost = {}
  BY DEF Init
<1>2. DOMAIN prof = {} /\ DOMAIN ios = {}
  BY <1>1
<1>3. prof \in [DOMAIN prof -> ProfileStates] /\ ios \in [DOMAIN ios -> Kinds]
  BY <1>1
<1>4. Types(prof, ios, hand, lost)
  BY <1>1, <1>2, <1>3 DEF Types
<1>5. /\ InHand(prof, ios, hand, lost) /\ Held(prof, ios, hand, lost)
      /\ Wrapped(prof, ios, hand, lost) /\ Kept(prof, ios, hand, lost)
      /\ Lent(prof) /\ Inner(prof, ios)
  BY <1>1, <1>2 DEF InHand, Held, Wrapped, Wraps, Kept, Lent, Inner
<1>6. Forest(prof)
  <2> DEFINE level == [q \in DOMAIN prof |-> 0]
  <2>1. level \in [DOMAIN prof -> 0..MaxNested] /\ Leveled(prof, level)
    BY <1>2, Constants DEF Leveled
  <2> HIDE DEF level
  <2> QED
    BY <2>1 DEF Forest
<1> QED
  BY <1>4, <1>5, <1>6 DEF IInv, Good

\* Every step keeps the invariant.
LEMMA StepIsGood == IInv /\ [Next]_vars => IInv'
<1> SUFFICES ASSUME IInv, [Next]_vars
             PROVE  IInv'
  OBVIOUS
<1>1. CASE UNCHANGED vars
  BY <1>1 DEF vars, IInv
<1>2. CASE Next
  BY <1>2, OpenStep, CloseStep, NewStep, CopyStep, AssignStep, DestroyStep, RefusedStep,
     AttachStep, AttachSubStep, AttachSubFailsStep, FindTagStep, ReadThroughStep, ReadStep,
     DeleteTagsStep, EmbedStep, DetachStep, BorrowStep, GiveBackStep DEF Next
<1> QED
  BY <1>1, <1>2

\* The invariant holds, in every behaviour and whatever is alive at once.
THEOREM AlwaysGood == Spec => []IInv
BY InitIsGood, StepIsGood, PTL DEF Spec

\* The invariant gives the types.
LEMMA GoodTypes == IInv => TypeOK
<1> SUFFICES ASSUME IInv
             PROVE  TypeOK
  OBVIOUS
<1>1. Types(prof, ios, hand, lost)
  BY DEF IInv, Good
<1>2. \A q \in DOMAIN prof : prof[q].parent \in DOMAIN prof \cup {NoProfile}
  BY DEF IInv, Forest, Leveled
<1> QED
  BY <1>1, <1>2 DEF TypeOK, Types, Kinds

\* The ways to own an IO exclude each other, and all are covered.
LEMMA GoodIsOwnedOnce == IInv => OwnedOnce
<1> SUFFICES ASSUME IInv
             PROVE  OwnedOnce
  OBVIOUS
<1>1. Good(prof, ios, hand, lost) /\ Types(prof, ios, hand, lost)
  BY DEF IInv, Good
<1> SUFFICES ASSUME NEW x \in Ios
             PROVE  /\ \A a, b \in Owners(x) : a = b
                    /\ x \notin DOMAIN ios => Owners(x) = {}
                    /\ x \in DOMAIN ios => Owners(x) # {} \/ x \in lost
  BY GoodTypes DEF OwnedOnce
<1>0. x # NoIo
  BY Constants
<1>2. \A a : a \in Owners(x) <=>
        \/ x \in hand /\ a = <<"client", x>>
        \/ \E q \in DOMAIN prof : Holds(prof, q, x) /\ a = <<"profile", q>>
        \/ \E w \in DOMAIN ios : Wraps(ios, lost, w, x) /\ a = <<"window", w>>
  BY <1>0 DEF Owners, Holds, Wraps
<1>3. /\ x \in hand => /\ \A q \in DOMAIN prof : ~Holds(prof, q, x)
                       /\ \A w \in DOMAIN ios : ~Wraps(ios, lost, w, x)
      /\ \A q \in DOMAIN prof, w \in DOMAIN ios : ~(Holds(prof, q, x) /\ Wraps(ios, lost, w, x))
      /\ \A q, r \in DOMAIN prof : Holds(prof, q, x) /\ Holds(prof, r, x) => q = r
      /\ \A v, w \in DOMAIN ios : Wraps(ios, lost, v, x) /\ Wraps(ios, lost, w, x) => v = w
  <2>1. DOMAIN ios \subseteq Ios
    BY <1>1 DEF Types
  <2>2. \A q \in DOMAIN prof : Holds(prof, q, x) =>
          x \notin hand /\ \A r \in DOMAIN prof : Holds(prof, r, x) => r = q
    BY <1>1 DEF Good, Held
  <2>3. \A w \in DOMAIN ios : Wraps(ios, lost, w, x) =>
          /\ x \notin hand /\ \A q \in DOMAIN prof : ~Holds(prof, q, x)
          /\ \A v \in Ios : Wraps(ios, lost, v, x) => v = w
    BY <1>1, <2>1 DEF Good, Wrapped
  <2> QED
    BY <2>1, <2>2, <2>3
<1>4. ASSUME NEW a \in Owners(x), NEW b \in Owners(x)
      PROVE  a = b
  BY <1>2, <1>3
<1>5. ASSUME x \notin DOMAIN ios
      PROVE  Owners(x) = {}
  <2>1. x \notin hand
    BY <1>1, <1>5 DEF Types
  <2>2. \A q \in DOMAIN prof : ~Holds(prof, q, x)
    BY <1>1, <1>5 DEF Good, Held
  <2>3. \A w \in DOMAIN ios : ~Wraps(ios, lost, w, x)
    BY <1>1, <1>5 DEF Good, Wrapped, Types
  <2> QED
    BY <1>2, <2>1, <2>2, <2>3
<1>6. ASSUME x \in DOMAIN ios, x \notin lost
      PROVE  Owners(x) # {}
  <2>1. \/ x \in hand
        \/ \E q \in DOMAIN prof : Holds(prof, q, x)
        \/ \E w \in DOMAIN ios : Wraps(ios, lost, w, x)
    BY <1>1, <1>6 DEF Good, Kept
  <2>2. \E a : a \in Owners(x)
    BY <1>2, <2>1
  <2> QED
    BY <2>2
<1> QED
  BY <1>4, <1>5, <1>6

\* Whoever reads through an IO reads through one that has an owner.
LEMMA GoodNeverDangles == IInv => NoDangling
<1> SUFFICES ASSUME IInv
             PROVE  NoDangling
  OBVIOUS
<1>1. Good(prof, ios, hand, lost) /\ Types(prof, ios, hand, lost)
  BY DEF IInv, Good
<1>2. ASSUME NEW q \in DOMAIN prof, HasIO(q)
      PROVE  prof[q].io \in DOMAIN ios
  <2>1. prof[q].io \in Ios
    BY <1>1, <1>2 DEF Types, ProfileStates, HasIO
  <2>2. PICK r \in DOMAIN prof : Holds(prof, r, prof[q].io)
    BY <1>1, <1>2 DEF Good, Lent, Holds, HasIO, Types, ProfileStates
  <2> QED
    BY <1>1, <2>1, <2>2 DEF Good, Held
<1>3. ASSUME NEW w \in DOMAIN ios \ lost, ios[w].over # NoIo
      PROVE  ios[w].over \in DOMAIN ios
  <2>1. w \in Ios /\ ios[w].over \in Ios /\ ios[w].owns \in BOOLEAN
    BY <1>1, <1>3 DEF Types, Kinds
  <2>2. CASE ios[w].owns
    BY <1>1, <2>1, <2>2 DEF Good, Wrapped, Wraps
  <2>3. CASE ~ios[w].owns
    <3>1. w \notin hand
      BY <1>1, <1>3 DEF Good, InHand
    <3>2. ~ \E v \in DOMAIN ios : Wraps(ios, lost, v, w)
      BY <1>1, <1>3, <2>1 DEF Good, Wrapped, Types
    <3>3. PICK q \in DOMAIN prof : Holds(prof, q, w)
      BY <1>1, <3>1, <3>2 DEF Good, Kept
    <3>4. prof[q].parent \in DOMAIN prof /\ prof[prof[q].parent].io = ios[w].over
      BY <1>1, <1>3, <2>3, <3>3 DEF Good, Inner
    <3> QED
      BY <1>2, <1>3, <3>4 DEF HasIO
  <2> QED
    BY <2>1, <2>2, <2>3
<1> QED
  BY <1>2, <1>3 DEF NoDangling

\* A window that does not own what it wraps is onto the IO of the profile around.
LEMMA GoodInnerLetsGo == IInv => InnerLetsGo
<1>1. IInv => Inner(prof, ios)
  BY DEF IInv, Good
<1> QED
  BY <1>1 DEF InnerLetsGo, Inner, Holds, HasIO

\* Every IO object is deleted once: the client, a profile or an owning window
\* will delete it and no two of them, one that was deleted is nobody's, and one
\* that nobody deletes was dropped by Attach without tags between, by a
\* sub-profile that is none, or by CopyAttach giving back what was not borrowed
\* (IccProfile.cpp, IccTagEmbedIcc.cpp).
THEOREM EachOwnedOnce == Spec => []OwnedOnce
BY AlwaysGood, GoodIsOwnedOnce, PTL

\* No profile reads through an IO object that was deleted, and no window wraps
\* one: Cleanup, Detach and the destructors delete an IO only with all that read
\* through it, as long as owners keep what they lent.
THEOREM NothingDangles == Spec => []NoDangling
BY AlwaysGood, GoodNeverDangles, PTL

\* A profile in an embedded profile tag has a window onto the IO of the profile
\* around it only while that one has the IO: Detach and CopyAttach reach the
\* profiles in the tags before the IO goes.
THEOREM InnerProfilesLetGo == Spec => []InnerLetsGo
BY AlwaysGood, GoodInnerLetsGo, PTL
-----------------------------------------------------------------------------
(* ByteIO *)

\* A set of levels that holds 0, and with each the next, holds all of them.
LEMMA Climbing ==
  ASSUME NEW G, 0 \in G, \A n \in Nat : n \in G => n + 1 \in G
  PROVE  Nat \subseteq G
<1> DEFINE Missing == {n \in Nat : n \notin G}
<1>1. SUFFICES ASSUME Missing # {}
               PROVE  FALSE
  OBVIOUS
<1>2. Missing \subseteq Nat
  OBVIOUS
<1> HIDE DEF Missing
<1>3. PICK m \in Missing : \A k \in Missing : m <= k
  BY <1>1, <1>2, NatMinimum
<1>4. m \in Nat /\ m \notin G
  BY <1>3 DEF Missing
<1>5. m # 0
  BY <1>4
<1>6. m - 1 \in Nat /\ m = (m - 1) + 1 /\ ~ (m <= m - 1)
  BY <1>4, <1>5
<1>7. m - 1 \in G
  BY <1>3, <1>6 DEF Missing
<1> QED
  BY <1>4, <1>6, <1>7
-----------------------------------------------------------------------------
(* What the recursive definitions say at each level *)
\* What Up, GetLength and StartOf make, at level k, of what they have below it.
Further(what, k, v) ==
  CASE what = "up" -> IF v >= win[k].start THEN v - win[k].start ELSE v
    [] what = "length" -> IF win[k].size > 0 THEN win[k].size ELSE v - win[k].start
    [] what = "start" -> v + win[k].start
Climbs(f, what, v, level) ==
  f = [k \in 0..level |-> IF k = 0 THEN v ELSE Further(what, k, f[k - 1])]
Climb(what, v, level) == CHOOSE f : Climbs(f, what, v, level)

\* There is one way up from the bottom to any level, ...
LEMMA OneClimb ==
  ASSUME NEW what, NEW v
  PROVE  \A level \in Nat :
           /\ \E f : Climbs(f, what, v, level)
           /\ \A f, g : Climbs(f, what, v, level) /\ Climbs(g, what, v, level) => f = g
<1> DEFINE One(level) ==
      /\ \E f : Climbs(f, what, v, level)
      /\ \A f, g : Climbs(f, what, v, level) /\ Climbs(g, what, v, level) => f = g
           G == {level \in Nat : One(level)}
<1>1. 0 \in G
  <2>1. Climbs([k \in 0..0 |-> v], what, v, 0)
    BY DEF Climbs
  <2>2. \A f : Climbs(f, what, v, 0) => f = [k \in 0..0 |-> v]
    BY DEF Climbs
  <2> QED
    BY <2>1, <2>2
<1>2. ASSUME NEW n \in Nat, One(n)
      PROVE  One(n + 1)
  <2>1. PICK f : Climbs(f, what, v, n)
    BY <1>2
  <2> DEFINE over == Further(what, n + 1, f[n])
             up == [k \in 0..(n + 1) |-> IF k = n + 1 THEN over ELSE f[k]]
  <2>2. Climbs(up, what, v, n + 1)
    <3>1. \A k \in 0..n : k \in 0..(n + 1) /\ k # n + 1
      OBVIOUS
    <3>2. \A k \in 0..n : up[k] = f[k]
      BY <3>1
    <3>3. up[n + 1] = over /\ up[(n + 1) - 1] = f[n]
      BY <3>2
    <3>4. \A k \in 0..n : up[k] = IF k = 0 THEN v ELSE Further(what, k, up[k - 1])
      BY <2>1, <3>2 DEF Climbs
    <3>5. \A k \in 0..(n + 1) : k \in 0..n \/ (k = n + 1 /\ k # 0)
      OBVIOUS
    <3>6. \A k \in 0..(n + 1) : up[k] = IF k = 0 THEN v ELSE Further(what, k, up[k - 1])
      <4> HIDE DEF up
      <4> QED
        BY <3>3, <3>4, <3>5
    <3> QED
      BY <3>6 DEF Climbs
  <2>3. ASSUME NEW g, Climbs(g, what, v, n + 1)
        PROVE  g = up
    <3> DEFINE low == [k \in 0..n |-> g[k]]
    <3>1. Climbs(low, what, v, n)
      BY <2>3 DEF Climbs
    <3>2. low = f
      BY <1>2, <2>1, <3>1
    <3>3. g = [k \in 0..(n + 1) |-> g[k]]
      BY <2>3 DEF Climbs
    <3>4. \A k \in 0..n : g[k] = f[k]
      BY <3>2
    <3>5. n \in 0..n /\ n + 1 \in 0..(n + 1) /\ n + 1 # 0 /\ (n + 1) - 1 = n
      OBVIOUS
    <3>6. g[n + 1] = over
      BY <2>3, <3>4, <3>5 DEF Climbs
    <3>7. \A k \in 0..(n + 1) : g[k] = up[k]
      <4> HIDE DEF over
      <4> QED
        BY <3>4, <3>6
    <3> QED
      BY <3>3, <3>7
  <2> QED
    BY <2>2, <2>3
<1> HIDE DEF One
<1>3. \A n \in Nat : n \in G => n + 1 \in G
  BY <1>2
<1>4. Nat \subseteq G
  <2> HIDE DEF G
  <2> QED
    BY <1>1, <1>3, Climbing
<1> QED
  BY <1>4 DEF One

\* ... and the way to the level above goes on from it.
LEMMA NextClimb ==
  ASSUME NEW what, NEW v
  PROVE  /\ Climb(what, v, 0)[0] = v
         /\ \A level \in Nat \ {0} :
              Climb(what, v, level)[level] =
                Further(what, level, Climb(what, v, level - 1)[level - 1])
<1>1. \A level \in Nat : Climbs(Climb(what, v, level), what, v, level)
  BY OneClimb DEF Climb
<1>2. ASSUME NEW level \in Nat \ {0}
      PROVE  Climb(what, v, level)[level - 1] = Climb(what, v, level - 1)[level - 1]
  <2> DEFINE low == [k \in 0..(level - 1) |-> Climb(what, v, level)[k]]
  <2>1. Climbs(low, what, v, level - 1)
    BY <1>1 DEF Climbs
  <2>2. level - 1 \in Nat /\ level - 1 \in 0..(level - 1)
    OBVIOUS
  <2>3. low = Climb(what, v, level - 1)
    <3> HIDE DEF low
    <3> QED
      BY <1>1, <2>1, <2>2, OneClimb
  <2> QED
    BY <2>2, <2>3
<1>3. ASSUME NEW level \in Nat \ {0}
      PROVE  Climb(what, v, level)[level] =
               Further(what, level, Climb(what, v, level)[level - 1])
  <2>1. level \in 0..level /\ level # 0
    OBVIOUS
  <2> QED
    BY <1>1, <2>1 DEF Climbs
<1>4. Climb(what, v, 0)[0] = v
  BY <1>1 DEF Climbs
<1> QED
  BY <1>2, <1>3, <1>4

\* A position, seen from one level higher.
LEMMA UpLevel ==
  ASSUME NEW p
  PROVE  /\ Up(p, 0) = p
         /\ \A level \in Nat \ {0} :
              Up(p, level) =
                IF Up(p, level - 1) >= win[level].start
                THEN Up(p, level - 1) - win[level].start ELSE Up(p, level - 1)
<1>1. \A level \in Nat : Up(p, level) = Climb("up", p, level)[level]
  BY DEF Up, Climb, Climbs, Further
<1>2. \A level \in Nat \ {0} : level - 1 \in Nat
  OBVIOUS
<1> QED
  BY <1>1, <1>2, NextClimb DEF Further

LEMMA LengthLevel ==
  ASSUME NEW b
  PROVE  /\ GetLength(b, 0) = b.size
         /\ \A level \in Nat \ {0} :
              GetLength(b, level) =
                IF win[level].size > 0 THEN win[level].size
                ELSE GetLength(b, level - 1) - win[level].start
<1>1. \A level \in Nat : GetLength(b, level) = Climb("length", b.size, level)[level]
  BY DEF GetLength, Climb, Climbs, Further
<1>2. \A level \in Nat \ {0} : level - 1 \in Nat
  OBVIOUS
<1> QED
  BY <1>1, <1>2, NextClimb DEF Further

LEMMA StartLevel ==
  /\ StartOf(0) = 0
  /\ \A level \in Nat \ {0} : StartOf(level) = StartOf(level - 1) + win[level].start
<1>1. \A level \in Nat : StartOf(level) = Climb("start", 0, level)[level]
  BY DEF StartOf, Climb, Climbs, Further
<1>2. \A level \in Nat \ {0} : level - 1 \in Nat
  OBVIOUS
<1> QED
  BY <1>1, <1>2, NextClimb DEF Further
-----------------------------------------------------------------------------
\* What Down and ReadAt make, at window k, of what comes from above it.
Lowered(what, b, k, v) == IF what = "seek" THEN SetTarget(k, v) ELSE Allowed(b, k, v)
Descends(f, what, b, v, level) ==
  f = [k \in 0..level |-> IF k = level THEN v ELSE Lowered(what, b, k + 1, f[k + 1])]
Descent(what, b, v, level) == CHOOSE f : Descends(f, what, b, v, level)

\* There is one way down from any level to the bottom, ...
LEMMA OneDescent ==
  ASSUME NEW what, NEW b
  PROVE  \A level \in Nat : \A v :
           /\ \E f : Descends(f, what, b, v, level)
           /\ \A f, g : Descends(f, what, b, v, level) /\ Descends(g, what, b, v, level)
                => f = g
<1> DEFINE One(level, v) ==
      /\ \E f : Descends(f, what, b, v, level)
      /\ \A f, g : Descends(f, what, b, v, level) /\ Descends(g, what, b, v, level)
           => f = g
           G == {level \in Nat : \A v : One(level, v)}
<1>1. 0 \in G
  <2>1. ASSUME NEW v
        PROVE  One(0, v)
    <3>1. Descends([k \in 0..0 |-> v], what, b, v, 0)
      BY DEF Descends
    <3>2. \A f : Descends(f, what, b, v, 0) => f = [k \in 0..0 |-> v]
      BY DEF Descends
    <3> QED
      BY <3>1, <3>2
  <2> QED
    BY <2>1
<1>2. ASSUME NEW n \in Nat, \A v : One(n, v), NEW v
      PROVE  One(n + 1, v)
  <2> DEFINE under == Lowered(what, b, n + 1, v)
  <2>1. PICK f : Descends(f, what, b, under, n)
    BY <1>2
  <2> DEFINE down == [k \in 0..(n + 1) |-> IF k = n + 1 THEN v ELSE f[k]]
  <2>2. n \in 0..n /\ n \in 0..(n + 1) /\ n + 1 \in 0..(n + 1) /\ n # n + 1
    OBVIOUS
  <2>3. f[n] = under
    BY <2>1, <2>2 DEF Descends
  <2>4. \A k \in 0..(n + 1) :
          \/ k = n + 1
          \/ k = n
          \/ /\ k \in 0..n /\ k # n /\ k # n + 1
             /\ k + 1 \in 0..n /\ k + 1 \in 0..(n + 1) /\ k + 1 # n + 1
    OBVIOUS
  <2>5. Descends(down, what, b, v, n + 1)
    <3>1. down[n + 1] = v /\ down[n] = f[n]
      BY <2>2
    <3>2. \A k \in 0..n : k \in 0..(n + 1) /\ k # n + 1
      OBVIOUS
    <3>3. \A k \in 0..n : down[k] = f[k]
      BY <3>2
    <3>4. \A k \in 0..n : k # n => f[k] = Lowered(what, b, k + 1, f[k + 1])
      BY <2>1 DEF Descends
    <3>5. \A k \in 0..(n + 1) :
            down[k] = IF k = n + 1 THEN v ELSE Lowered(what, b, k + 1, down[k + 1])
      <4> HIDE DEF down
      <4> QED
        BY <2>2, <2>3, <2>4, <3>1, <3>3, <3>4
    <3> QED
      BY <3>5 DEF Descends
  <2>6. ASSUME NEW g, Descends(g, what, b, v, n + 1)
        PROVE  g = down
    <3> DEFINE low == [k \in 0..n |-> g[k]]
    <3>1. g[n + 1] = v
      BY <2>2, <2>6 DEF Descends
    <3>2. \A k \in 0..n : g[k] = Lowered(what, b, k + 1, g[k + 1])
      BY <2>6 DEF Descends
    <3>3. g[n] = under
      BY <2>2, <3>1, <3>2
    <3>4. Descends(low, what, b, under, n)
      <4>1. \A k \in 0..n :
              low[k] = IF k = n THEN under ELSE Lowered(what, b, k + 1, low[k + 1])
        <5>1. \A k \in 0..n : k # n => k + 1 \in 0..n
          OBVIOUS
        <5>2. \A k \in 0..n : low[k] = g[k]
          OBVIOUS
        <5> HIDE DEF low, under
        <5> QED
          BY <3>2, <3>3, <5>1, <5>2
      <4> HIDE DEF under
      <4> QED
        BY <4>1 DEF Descends
    <3>5. low = f
      BY <1>2, <2>1, <3>4
    <3>6. \A k \in 0..n : g[k] = f[k]
      BY <3>5
    <3>7. g = [k \in 0..(n + 1) |-> g[k]]
      BY <2>6 DEF Descends
    <3>8. \A k \in 0..(n + 1) : g[k] = down[k]
      BY <3>1, <3>6
    <3> QED
      BY <3>7, <3>8
  <2> QED
    BY <2>5, <2>6
<1> HIDE DEF One
<1>3. \A n \in Nat : n \in G => n + 1 \in G
  BY <1>2
<1>4. Nat \subseteq G
  <2> HIDE DEF G
  <2> QED
    BY <1>1, <1>3, Climbing
<1> QED
  BY <1>4 DEF One

\* ... and the way down from a level goes on as one from the level below.
LEMMA NextDescent ==
  ASSUME NEW what, NEW b, NEW v
  PROVE  /\ Descent(what, b, v, 0)[0] = v
         /\ \A level \in Nat \ {0} :
              Descent(what, b, v, level)[0] =
                Descent(what, b, Lowered(what, b, level, v), level - 1)[0]
<1>1. \A u : \A level \in Nat : Descends(Descent(what, b, u, level), what, b, u, level)
  BY OneDescent DEF Descent
<1>2. ASSUME NEW level \in Nat \ {0}
      PROVE  Descent(what, b, v, level)[0] =
               Descent(what, b, Lowered(what, b, level, v), level - 1)[0]
  <2> DEFINE g == Descent(what, b, v, level)
             under == Lowered(what, b, level, v)
             low == [k \in 0..(level - 1) |-> g[k]]
  <2>1. /\ level - 1 \in Nat /\ 0 \in 0..(level - 1)
        /\ level \in 0..level /\ level - 1 \in 0..level
        /\ level - 1 # level /\ (level - 1) + 1 = level
    OBVIOUS
  <2>2. Descends(g, what, b, v, level)
    BY <1>1
  <2> HIDE DEF g
  <2>3. g[level] = v
    BY <2>1, <2>2 DEF Descends
  <2>4. \A k \in 0..(level - 1) : g[k] = Lowered(what, b, k + 1, g[k + 1])
    BY <2>2 DEF Descends
  <2>5. g[level - 1] = under
    <3>1. level - 1 \in 0..(level - 1)
      OBVIOUS
    <3> QED
      BY <2>1, <2>3, <2>4, <3>1
  <2>6. Descends(low, what, b, under, level - 1)
    <3>1. \A k \in 0..(level - 1) :
            low[k] = IF k = level - 1 THEN under ELSE Lowered(what, b, k + 1, low[k + 1])
      <4>1. \A k \in 0..(level - 1) : k # level - 1 => k + 1 \in 0..(level - 1)
        OBVIOUS
      <4>2. \A k \in 0..(level - 1) : low[k] = g[k]
        OBVIOUS
      <4> HIDE DEF low, under
      <4> QED
        BY <2>4, <2>5, <4>1, <4>2
    <3> HIDE DEF under
    <3> QED
      BY <3>1 DEF Descends
  <2>7. low = Descent(what, b, under, level - 1)
    <3> HIDE DEF low, under
    <3> QED
      BY <1>1, <2>1, <2>6, OneDescent
  <2>8. low[0] = g[0]
    BY <2>1
  <2> QED
    BY <2>7, <2>8 DEF g
<1>3. Descent(what, b, v, 0)[0] = v
  BY <1>1 DEF Descends
<1> QED
  BY <1>2, <1>3

\* A seek, from one level to the next.
LEMMA DownLevel ==
  ASSUME NEW t
  PROVE  /\ Down(t, 0) = t
         /\ \A level \in Nat \ {0} : Down(t, level) = Down(SetTarget(level, t), level - 1)
<1>1. \A u : \A level \in Nat : Down(u, level) = Descent("seek", base, u, level)[0]
  BY DEF Down, Descent, Descends, Lowered
<1>2. \A level \in Nat \ {0} : level - 1 \in Nat
  OBVIOUS
<1> QED
  BY <1>1, <1>2, NextDescent DEF Lowered

\* A read, from one level to the next.
LEMMA ReadLevel ==
  ASSUME NEW b, NEW n
  PROVE  /\ ReadAt(b, 0, n) = Read8(b, n)
         /\ \A level \in Nat \ {0} :
              ReadAt(b, level, n) = ReadAt(b, level - 1, Allowed(b, level, n))
<1>1. \A m : \A level \in Nat : ReadAt(b, level, m) = Read8(b, Descent("read", b, m, level)[0])
  BY DEF ReadAt, Descent, Descends, Lowered
<1>2. \A level \in Nat \ {0} : level - 1 \in Nat
  OBVIOUS
<1> QED
  BY <1>1, <1>2, NextDescent DEF Lowered
-----------------------------------------------------------------------------
(* Types *)

\* Windows start at a position and have a size that is none or more.
Windows == \A k \in 1..Len(win) : win[k].start \in Nat /\ win[k].size \in Nat

LEMMA WindowsTyped ==
  ASSUME ByteTypeOK
  PROVE  Windows /\ Len(win) \in Nat
<1> DEFINE Onto == [start : 0..MaxBytes, size : 0..MaxBytes]
<1>1. win \in Seq(Onto)
  BY DEF ByteTypeOK
<1>2. ASSUME NEW k \in 1..Len(win)
      PROVE  win[k] \in Onto
  <2> HIDE DEF Onto
  <2> QED
    BY <1>1
<1>3. 0..MaxBytes \subseteq Nat
  BY SizeAssumption
<1> QED
  BY <1>1, <1>2, <1>3 DEF Windows

\* A position is seen from above as one that is not larger, and not negative
\* unless it is.
LEMMA UpTyped ==
  ASSUME Windows, Len(win) \in Nat, NEW p \in Int
  PROVE  \A level \in Levels :
           Up(p, level) \in Int /\ Up(p, level) <= p /\ (p >= 0 => Up(p, level) >= 0)
<1> DEFINE Fine(level) ==
      Up(p, level) \in Int /\ Up(p, level) <= p /\ (p >= 0 => Up(p, level) >= 0)
           G == {level \in Nat : level <= Len(win) => Fine(level)}
<1>1. 0 \in G
  BY UpLevel
<1>2. ASSUME NEW n \in Nat, n \in G, n + 1 <= Len(win)
      PROVE  Fine(n + 1)
  <2>1. n + 1 \in 1..Len(win) /\ n + 1 \in Nat \ {0} /\ (n + 1) - 1 = n /\ n <= Len(win)
    BY <1>2
  <2>2. Fine(n)
    BY <1>2, <2>1
  <2>3. win[n + 1].start \in Nat
    BY <2>1 DEF Windows
  <2>4. Up(p, n + 1) = IF Up(p, n) >= win[n + 1].start
                       THEN Up(p, n) - win[n + 1].start ELSE Up(p, n)
    <3>1. Up(p, n + 1) = IF Up(p, (n + 1) - 1) >= win[n + 1].start
                       THEN Up(p, (n + 1) - 1) - win[n + 1].start ELSE Up(p, (n + 1) - 1)
      BY <2>1, UpLevel
    <3> QED
      BY <2>1, <3>1
  <2> QED
    BY <2>2, <2>3, <2>4
<1> HIDE DEF Fine
<1>3. \A n \in Nat : n \in G => n + 1 \in G
  BY <1>2
<1>4. Nat \subseteq G
  <2> HIDE DEF G
  <2> QED
    BY <1>1, <1>3, Climbing
<1> QED
  BY <1>4 DEF Fine, Levels

LEMMA LengthTyped ==
  ASSUME Windows, Len(win) \in Nat, NEW b, b.size \in Int
  PROVE  \A level \in Levels : GetLength(b, level) \in Int
<1> DEFINE G == {level \in Nat : level <= Len(win) => GetLength(b, level) \in Int}
<1>1. 0 \in G
  BY LengthLevel
<1>2. ASSUME NEW n \in Nat, n \in G, n + 1 <= Len(win)
      PROVE  GetLength(b, n + 1) \in Int
  <2>1. n + 1 \in 1..Len(win) /\ n + 1 \in Nat \ {0} /\ (n + 1) - 1 = n /\ n <= Len(win)
    BY <1>2
  <2>2. GetLength(b, n) \in Int
    BY <1>2, <2>1
  <2>3. win[n + 1].start \in Nat /\ win[n + 1].size \in Nat
    BY <2>1 DEF Windows
  <2>4. GetLength(b, n + 1) = IF win[n + 1].size > 0 THEN win[n + 1].size
                              ELSE GetLength(b, (n + 1) - 1) - win[n + 1].start
    BY <2>1, LengthLevel
  <2> QED
    BY <2>1, <2>2, <2>3, <2>4
<1>3. \A n \in Nat : n \in G => n + 1 \in G
  BY <1>2
<1>4. Nat \subseteq G
  <2> HIDE DEF G
  <2> QED
    BY <1>1, <1>3, Climbing
<1> QED
  BY <1>4 DEF Levels

LEMMA StartTyped ==
  ASSUME Windows, Len(win) \in Nat
  PROVE  \A level \in Levels : StartOf(level) \in Nat
<1> DEFINE G == {level \in Nat : level <= Len(win) => StartOf(level) \in Nat}
<1>1. 0 \in G
  BY StartLevel
<1>2. ASSUME NEW n \in Nat, n \in G, n + 1 <= Len(win)
      PROVE  StartOf(n + 1) \in Nat
  <2>1. n + 1 \in 1..Len(win) /\ n + 1 \in Nat \ {0} /\ (n + 1) - 1 = n /\ n <= Len(win)
    BY <1>2
  <2>2. StartOf(n + 1) = StartOf((n + 1) - 1) + win[n + 1].start
    BY <2>1, StartLevel
  <2> QED
    BY <1>2, <2>1, <2>2 DEF Windows
<1>3. \A n \in Nat : n \in G => n + 1 \in G
  BY <1>2
<1>4. Nat \subseteq G
  <2> HIDE DEF G
  <2> QED
    BY <1>1, <1>3, Climbing
<1> QED
  BY <1>4 DEF Levels

LEMMA DownTyped ==
  ASSUME Windows, Len(win) \in Nat
  PROVE  \A level \in Levels : \A t \in Int : Down(t, level) \in Int
<1> DEFINE Fine(level) == \A t \in Int : Down(t, level) \in Int
           G == {level \in Nat : level <= Len(win) => Fine(level)}
<1>1. 0 \in G
  BY DownLevel
<1>2. ASSUME NEW n \in Nat, n \in G, n + 1 <= Len(win), NEW t \in Int
      PROVE  Down(t, n + 1) \in Int
  <2>1. n + 1 \in 1..Len(win) /\ n + 1 \in Nat \ {0} /\ (n + 1) - 1 = n /\ n <= Len(win)
    BY <1>2
  <2>2. Down(t, n + 1) = Down(SetTarget(n + 1, t), (n + 1) - 1)
    BY <2>1, DownLevel
  <2>3. SetTarget(n + 1, t) \in Int
    BY <2>1 DEF Windows, SetTarget
  <2>4. \A u \in Int : Down(u, n) \in Int
    BY <1>2, <2>1
  <2>5. Down(SetTarget(n + 1, t), n) \in Int
    BY <2>3, <2>4
  <2> QED
    BY <2>1, <2>2, <2>5
<1>3. ASSUME NEW n \in Nat, n \in G, n + 1 <= Len(win)
      PROVE  Fine(n + 1)
  BY <1>2, <1>3
<1> HIDE DEF Fine
<1>4. \A n \in Nat : n \in G => n + 1 \in G
  BY <1>3
<1>5. Nat \subseteq G
  <2> HIDE DEF G
  <2> QED
    BY <1>1, <1>4, Climbing
<1> QED
  BY <1>5 DEF Fine, Levels
-----------------------------------------------------------------------------
(* The bytes that have a value *)

\* What is known of the IO at the bottom, on its own: what can be read is what has
\* a value, but in a null IO.
Sound(b) ==
  /\ b \in [kind : {"memory", "file", "null"}, size : Nat, avail : 0..MaxBytes,
            pos : Nat, set : SUBSET Int, crashed : BOOLEAN]
  /\ b.kind = "memory" => b.pos <= b.size /\ b.size <= b.avail
  /\ b.set = IF b.kind = "null" THEN {} ELSE 0..(b.size - 1)
  /\ b.crashed => b.kind = "memory" /\ b.avail - b.size >= Word \div 2

ByteInv == ByteTypeOK /\ Sound(base)

LEMMA SoundInBound ==
  ASSUME NEW b, Sound(b), b.pos <= MaxBytes, b.size <= MaxBytes
  PROVE  b \in IOs
<1>1. MaxBytes \in Nat
  BY SizeAssumption
<1>2. b.set \subseteq 0..(MaxBytes - 1)
  BY <1>1 DEF Sound
<1>3. b.size \in 0..MaxBytes /\ b.pos \in 0..MaxBytes
  BY <1>1 DEF Sound
<1>4. b = [kind |-> b.kind, size |-> b.size, avail |-> b.avail, pos |-> b.pos,
           set |-> b.set, crashed |-> b.crashed]
  BY DEF Sound
<1> QED
  BY <1>2, <1>3, <1>4 DEF Sound, IOs

\* Seeking into room not yet written gives it a value, or ends the program if
\* it is half of what 32 bits count.
LEMMA SeekSound ==
  ASSUME NEW b, Sound(b), ~b.crashed, NEW t \in Int
  PROVE  Sound(Seek(b, t).io) /\ Seek(b, t).res \in Int
<1> DEFINE p == t % Word
<1>1. Word \in Nat \ {0}
  BY SizeAssumption
<1>2. p \in Nat
  BY <1>1
<1> HIDE DEF p
<1>3. CASE b.kind = "memory"
  <2>1. Seek(b, t) = MemSeek(b, t)
    BY <1>3 DEF Seek
  <2>2. CASE t < 0
    <3>1. MemSeek(b, t) = [io |-> b, res |-> -1]
      BY <2>2 DEF MemSeek
    <3> QED
      BY <2>1, <3>1
  <2>3. CASE t >= 0 /\ p <= b.size
    <3>1. MemSeek(b, t) = [io |-> [b EXCEPT !.pos = p], res |-> t]
      <4>1. ~ (t < 0) /\ ~ (p > b.size)
        BY <1>2, <2>3 DEF Sound
      <4> QED
        BY <2>3, <4>1 DEF MemSeek, p
    <3>2. Sound([b EXCEPT !.pos = p])
      BY <1>2, <1>3, <2>3 DEF Sound
    <3> QED
      BY <2>1, <3>1, <3>2
  <2>4. CASE t >= 0 /\ p > b.size /\ b.size # b.avail /\ p <= b.avail
    <3>1. MemSeek(b, t) = [io |-> Filled(b, p), res |-> t]
      <4>1. ~ (p <= b.size)
        BY <1>2, <2>4 DEF Sound
      <4> QED
        BY <2>4, <4>1 DEF MemSeek, p
    <3>2. Sound(Filled(b, p))
      <4>a. CASE AsInt32(p - b.size) < 0
        <5> DEFINE half == Word \div 2
        <5>1. half \in Int
          BY <1>1
        <5>2. b.size \in Nat /\ b.avail \in Nat
          BY SizeAssumption DEF Sound
        <5>3. ~ (p - b.size < half)
          BY <1>2, <2>4, <4>a, <5>2 DEF AsInt32
        <5> HIDE DEF half
        <5>4. b.avail - b.size >= half
          BY <1>2, <2>4, <5>1, <5>2, <5>3
        <5>5. Filled(b, p) = [b EXCEPT !.crashed = TRUE]
          BY <4>a DEF Filled
        <5>6. Sound([b EXCEPT !.crashed = TRUE])
          BY <1>3, <5>4 DEF Sound, half
        <5> QED
          BY <5>5, <5>6
      <4> SUFFICES ASSUME ~ (AsInt32(p - b.size) < 0) PROVE Sound(Filled(b, p))
        BY <4>a
      <4>1. b.set \cup b.size..(p - 1) = 0..(p - 1)
        BY <1>2, <1>3, <2>4 DEF Sound
      <4> DEFINE known == 0..(p - 1)
      <4>2. Filled(b, p) = [b EXCEPT !.size = p, !.pos = p, !.set = known]
        BY <4>1 DEF Filled, Sound
      <4>3. known \in SUBSET Int
        OBVIOUS
      <4>4. Filled(b, p).set = 0..(Filled(b, p).size - 1)
        BY <4>2 DEF Sound
      <4> HIDE DEF known
      <4>5. /\ Filled(b, p).kind = "memory"
            /\ Filled(b, p).pos <= Filled(b, p).size
            /\ Filled(b, p).size <= Filled(b, p).avail
        BY <1>2, <1>3, <2>4, <4>2 DEF Sound
      <4>6. Filled(b, p) \in [kind : {"memory", "file", "null"}, size : Nat,
                               avail : 0..MaxBytes, pos : Nat, set : SUBSET Int,
                               crashed : BOOLEAN]
        BY <1>2, <4>2, <4>3 DEF Sound
      <4>7. Filled(b, p).crashed = b.crashed
        BY <4>2 DEF Sound
      <4> QED
        BY <4>4, <4>5, <4>6, <4>7 DEF Sound
    <3> QED
      BY <2>1, <3>1, <3>2
  <2>5. CASE ~ (t < 0) /\ ~ (p <= b.size)
             /\ ~ (p > b.size /\ b.size # b.avail /\ p <= b.avail)
    <3>1. MemSeek(b, t) = [io |-> b, res |-> -1]
      BY <2>5 DEF MemSeek, p
    <3> QED
      BY <2>1, <3>1
  <2>6. b.size \in Nat
    BY DEF Sound
  <2> QED
    BY <1>2, <2>2, <2>3, <2>4, <2>5, <2>6
<1>4. CASE b.kind # "memory" /\ t < 0
  <2>1. Seek(b, t) = [io |-> b, res |-> -1]
    BY <1>4 DEF Seek
  <2> QED
    BY <2>1
<1>5. CASE b.kind # "memory" /\ ~ (t < 0)
  <2> DEFINE long == IF b.kind = "null" THEN Larger(b.size, t) ELSE b.size
  <2>1. Seek(b, t) = [io |-> [b EXCEPT !.pos = t, !.size = long], res |-> t]
    BY <1>5 DEF Seek, Sound
  <2>2. t \in Nat /\ long \in Nat
    BY <1>5 DEF Sound, Larger
  <2>3. Sound([b EXCEPT !.pos = t, !.size = long])
    BY <1>5, <2>2 DEF Sound
  <2> QED
    BY <2>1, <2>3
<1> QED
  BY <1>3, <1>4, <1>5

LEMMA ReadSound ==
  ASSUME NEW b, Sound(b), NEW n \in Int
  PROVE  /\ Sound(Read8(b, n).io) \/ n < 0
         /\ Read8(b, n).io = [b EXCEPT !.pos = b.pos + Read8(b, n).res]
         /\ Read8(b, n).res = Smaller(n, Larger(b.size - b.pos, 0))
<1> DEFINE got == Smaller(n, Larger(b.size - b.pos, 0))
<1>1. Read8(b, n) = [io |-> [b EXCEPT !.pos = b.pos + got], res |-> got]
  BY DEF Read8, Sound
<1>2. got \in Int /\ (n >= 0 => got >= 0 /\ (got = 0 \/ got <= b.size - b.pos))
  BY DEF Smaller, Larger, Sound
<1> HIDE DEF got
<1>3. n >= 0 => Sound([b EXCEPT !.pos = b.pos + got])
  BY <1>2 DEF Sound
<1> QED
  BY <1>1, <1>3 DEF got

\* What is written has a value, and so has what lies before it in a file.
LEMMA WriteSound ==
  ASSUME NEW b, Sound(b), ~b.crashed, NEW n \in Nat
  PROVE  /\ Sound(Write8(b, n).io)
         /\ Write8(b, n).io.size >= b.size /\ Write8(b, n).io.pos >= b.pos
<1> DEFINE put == IF b.kind = "memory" THEN Smaller(b.avail - b.pos, n) ELSE n
           end == b.pos + put
           gap == IF b.kind = "file" /\ put > 0 THEN b.size..(b.pos - 1) ELSE {}
           long == IF put > 0 \/ b.kind # "file" THEN Larger(b.size, end) ELSE b.size
           known == IF b.kind = "null" THEN b.set ELSE b.set \cup gap \cup b.pos..(end - 1)
           after == [b EXCEPT !.pos = end, !.size = long, !.set = known]
<1>1. Write8(b, n).io = after
  BY DEF Write8, Sound
<1>2. /\ b.size \in Nat /\ b.pos \in Nat /\ b.avail \in Nat
      /\ b.kind = "memory" => b.pos <= b.size /\ b.size <= b.avail
  BY SizeAssumption DEF Sound
<1>3. put \in Nat /\ (b.kind = "memory" => put <= b.avail - b.pos)
  BY <1>2 DEF Smaller
<1> HIDE DEF put
<1>4. end \in Nat /\ end >= b.pos /\ (b.kind = "memory" => end <= b.avail)
  BY <1>2, <1>3
<1>5. long \in Nat /\ long >= b.size /\ (b.kind = "memory" => end <= long /\ long <= b.avail)
  BY <1>2, <1>3, <1>4 DEF Larger
<1>6. known = IF b.kind = "null" THEN {} ELSE 0..(long - 1)
  <2>1. CASE b.kind = "null"
    BY <2>1 DEF Sound
  <2>2. CASE b.kind = "memory"
    <3>1. long = Larger(b.size, end) /\ gap = {} /\ b.set = 0..(b.size - 1)
      BY <2>2 DEF Sound
    <3>2. 0..(b.size - 1) \cup b.pos..(end - 1) = 0..(Larger(b.size, end) - 1)
      BY <1>2, <1>4, <2>2 DEF Larger
    <3> QED
      BY <2>2, <3>1, <3>2
  <2>3. CASE b.kind = "file" /\ put > 0
    <3>1. /\ long = Larger(b.size, end) /\ gap = b.size..(b.pos - 1)
          /\ b.set = 0..(b.size - 1)
      BY <2>3 DEF Sound
    <3>2. 0..(b.size - 1) \cup b.size..(b.pos - 1) \cup b.pos..(end - 1)
            = 0..(Larger(b.size, end) - 1)
      <4> HIDE DEF end
      <4> QED
        BY <1>2, <1>4 DEF Larger
    <3> QED
      BY <2>3, <3>1, <3>2
  <2>4. CASE b.kind = "file" /\ ~ (put > 0)
    <3>1. long = b.size /\ gap = {} /\ b.set = 0..(b.size - 1)
      BY <2>4 DEF Sound
    <3>2. b.pos..(end - 1) = {}
      BY <1>2, <1>3, <2>4
    <3> QED
      BY <2>4, <3>1, <3>2
  <2> QED
    BY <2>1, <2>2, <2>3, <2>4 DEF Sound
<1> HIDE DEF end, long, known
<1>7. known \in SUBSET Int
  BY <1>5, <1>6
<1>8. Sound(after)
  BY <1>4, <1>5, <1>6, <1>7 DEF Sound
<1>9. after.size = long /\ after.pos = end
  BY DEF Sound
<1> QED
  BY <1>1, <1>4, <1>5, <1>8, <1>9
\* A seek at any level arrives at the bottom as some position.
LEMMA SeekAtSound ==
  ASSUME Windows, Len(win) \in Nat, NEW b, Sound(b), ~b.crashed, NEW level \in Levels,
         NEW off \in Int, NEW from \in {"set", "cur", "end"}
  PROVE  /\ Sound(SeekAt(b, level, off, from).io)
         /\ SeekAt(b, level, off, from).res \in Int
<1> DEFINE over == CASE from = "set" -> SetTarget(level, off)
                     [] from = "cur" -> CurTarget(b, level, off)
                     [] from = "end" -> EndTarget(b, level, off)
           target == IF level = 0
                     THEN CASE from = "set" -> off
                            [] from = "cur" -> b.pos + off
                            [] from = "end" -> b.size + off
                     ELSE Down(over, level - 1)
<1>1. SeekAt(b, level, off, from) =
        [io |-> Seek(b, target).io, res |-> Up(Seek(b, target).res, level)]
  BY DEF SeekAt
<1>2. b.size \in Int /\ b.pos \in Int
  BY DEF Sound
<1>3. target \in Int
  <2>1. CASE level = 0
    <3>1. target = off \/ target = b.pos + off \/ target = b.size + off
      BY <2>1
    <3> QED
      BY <1>2, <3>1
  <2>2. CASE level # 0
    <3>1. level \in 1..Len(win) /\ level - 1 \in Levels
      BY <2>2 DEF Levels
    <3>2. win[level].start \in Nat /\ win[level].size \in Nat
      BY <3>1 DEF Windows
    <3>3. GetLength(b, level) \in Int
      BY <1>2, LengthTyped
    <3>4. Up(b.pos, level - 1) \in Int
      BY <1>2, <3>1, UpTyped
    <3>5. SetTarget(level, off) \in Int
      BY <3>2 DEF SetTarget
    <3>6. CurTarget(b, level, off) \in Int
      BY <3>2, <3>4 DEF CurTarget, Tell, Larger
    <3>7. EndTarget(b, level, off) \in Int
      BY <3>2, <3>3 DEF EndTarget, Larger
    <3>8. over \in Int
      BY <3>5, <3>6, <3>7
    <3> HIDE DEF over
    <3>9. Down(over, level - 1) \in Int
      BY <3>1, <3>8, DownTyped
    <3> QED
      BY <2>2, <3>9
  <2> QED
    BY <2>1, <2>2
<1> HIDE DEF target
<1>4. Sound(Seek(b, target).io) /\ Seek(b, target).res \in Int
  BY <1>3, SeekSound
<1>5. Up(Seek(b, target).res, level) \in Int
  BY <1>4, UpTyped
<1> QED
  BY <1>1, <1>4, <1>5

\* A read at any level arrives at the bottom as a read of no more bytes.
LEMMA ReadSome ==
  ASSUME Windows, Len(win) \in Nat, NEW b, Sound(b)
  PROVE  \A level \in Levels : \A n \in Nat :
           \E m \in Nat : m <= n /\ ReadAt(b, level, n) = Read8(b, m)
<1> DEFINE Some(level) ==
      \A n \in Nat : \E m \in Nat : m <= n /\ ReadAt(b, level, n) = Read8(b, m)
           G == {level \in Nat : level <= Len(win) => Some(level)}
<1>1. 0 \in G
  <2>1. Some(0)
    <3>1. \A n \in Nat : n <= n /\ ReadAt(b, 0, n) = Read8(b, n)
      BY ReadLevel
    <3> QED
      BY <3>1
  <2> QED
    BY <2>1
<1>2. ASSUME NEW l \in Nat, Some(l), l + 1 <= Len(win), NEW n \in Nat
      PROVE  \E m \in Nat : m <= n /\ ReadAt(b, l + 1, n) = Read8(b, m)
  <2>1. l + 1 \in 1..Len(win) /\ l + 1 \in Nat \ {0} /\ (l + 1) - 1 = l /\ l \in Levels
    <3> HIDE DEF Some
    <3> QED
      BY <1>2 DEF Levels
  <2>2. ReadAt(b, l + 1, n) = ReadAt(b, (l + 1) - 1, Allowed(b, l + 1, n))
    BY <2>1, ReadLevel
  <2>3. Up(b.pos, l) \in Int
    BY <2>1, UpTyped DEF Sound
  <2>4. Allowed(b, l + 1, n) \in Nat /\ Allowed(b, l + 1, n) <= n
    <3>1. win[l + 1].start \in Nat /\ win[l + 1].size \in Nat
      BY <2>1 DEF Windows
    <3>2. Tell(b, (l + 1) - 1) - win[l + 1].start \in Int
      BY <2>1, <2>3, <3>1 DEF Tell
    <3> QED
      BY <3>1, <3>2 DEF Allowed, Smaller
  <2> DEFINE some == Allowed(b, l + 1, n)
  <2> HIDE DEF some
  <2>5. PICK m \in Nat : m <= some /\ ReadAt(b, l, some) = Read8(b, m)
    BY <1>2, <2>4 DEF some
  <2>6. m <= n
    BY <2>4, <2>5 DEF some
  <2>7. ReadAt(b, l + 1, n) = Read8(b, m)
    BY <2>1, <2>2, <2>5 DEF some
  <2> QED
    BY <2>6, <2>7
<1>3. ASSUME NEW l \in Nat, Some(l), l + 1 <= Len(win)
      PROVE  Some(l + 1)
  BY <1>2, <1>3
<1> HIDE DEF Some
<1>4. \A l \in Nat : l \in G => l + 1 \in G
  BY <1>3
<1>5. Nat \subseteq G
  <2> HIDE DEF G
  <2> QED
    BY <1>1, <1>4, Climbing
<1> QED
  BY <1>5 DEF Some, Levels

LEMMA ByteInvInit == ByteInit => ByteInv
<1> SUFFICES ASSUME ByteInit PROVE ByteInv
  OBVIOUS
<1>1. MaxBytes \in Nat /\ MaxWindows \in Nat
  BY SizeAssumption
<1>2. Sound(base) /\ base.pos <= MaxBytes /\ base.size <= MaxBytes
  <2>1. ASSUME NEW n \in 0..MaxBytes, base = ToRead(n)
        PROVE  Sound(base) /\ base.pos <= MaxBytes /\ base.size <= MaxBytes
    BY <1>1, <2>1 DEF ToRead, Opened, Sound
  <2>2. ASSUME NEW n \in 0..MaxBytes, base = ToWrite(n)
        PROVE  Sound(base) /\ base.pos <= MaxBytes /\ base.size <= MaxBytes
    BY <1>1, <2>2 DEF ToWrite, Opened, Sound
  <2>3. ASSUME NEW n \in 0..MaxBytes, base = File(n)
        PROVE  Sound(base) /\ base.pos <= MaxBytes /\ base.size <= MaxBytes
    BY <1>1, <2>3 DEF File, Opened, Sound
  <2>4. ASSUME base = NullIO
        PROVE  Sound(base) /\ base.pos <= MaxBytes /\ base.size <= MaxBytes
    BY <1>1, <2>4 DEF NullIO, Opened, Sound
  <2> QED
    BY <2>1, <2>2, <2>3, <2>4 DEF ByteInit
<1>3. base \in IOs
  BY <1>2, SoundInBound
<1>4. win = <<>>
  BY DEF ByteInit
<1>5. win \in Seq([start : 0..MaxBytes, size : 0..MaxBytes]) /\ Len(win) <= MaxWindows
  BY <1>1, <1>4
<1> QED
  BY <1>2, <1>3, <1>5 DEF ByteInv, ByteTypeOK

\* The windows stay, and what has become of the IO at the bottom is sound.
LEMMA BaseStep ==
  ASSUME ByteInv, UNCHANGED win, Sound(base'), InBound
  PROVE  ByteInv'
<1>1. base' \in IOs
  BY SoundInBound DEF InBound
<1> QED
  BY <1>1 DEF ByteInv, ByteTypeOK

LEMMA ByteInvStep == ByteInv /\ [ByteNext]_byteVars => ByteInv'
<1> SUFFICES ASSUME ByteInv, [ByteNext]_byteVars PROVE ByteInv'
  OBVIOUS
<1>1. Windows /\ Len(win) \in Nat
  BY WindowsTyped DEF ByteInv
<1>2. MaxBytes \in Nat /\ MaxWindows \in Nat /\ Offsets \subseteq Int
  BY SizeAssumption
<1>3. Sound(base) /\ base \in IOs
  BY DEF ByteInv, ByteTypeOK
<1>4. /\ base.pos \in 0..MaxBytes /\ base.size \in 0..MaxBytes
      /\ base.pos \in Nat /\ base.size \in Nat
  BY <1>2, <1>3 DEF IOs
<1>5. ASSUME NEW size \in 0..MaxBytes, AttachWindow(size)
      PROVE  ByteInv'
  <2> DEFINE Onto == [start : 0..MaxBytes, size : 0..MaxBytes]
             new == [start |-> Tell(base, Len(win)), size |-> size]
  <2>1. Len(win) \in Levels
    BY <1>1 DEF Levels
  <2>2. Up(base.pos, Len(win)) \in 0..MaxBytes
    BY <1>1, <1>2, <1>4, <2>1, UpTyped
  <2>3. new \in Onto
    BY <2>2 DEF Tell
  <2>4. win \in Seq(Onto)
    BY DEF ByteInv, ByteTypeOK
  <2>5. win' = Append(win, new) /\ Len(win) < MaxWindows
    BY <1>5 DEF AttachWindow
  <2> HIDE DEF Onto, new
  <2>6. win' \in Seq(Onto) /\ Len(win') <= MaxWindows
    BY <1>1, <1>2, <2>3, <2>4, <2>5
  <2>7. base' = base
    BY <1>5 DEF AttachWindow
  <2> QED
    BY <1>3, <2>6, <2>7 DEF ByteInv, ByteTypeOK, Onto
<1>6. CASE Close
  <2> DEFINE Onto == [start : 0..MaxBytes, size : 0..MaxBytes]
  <2>1. win \in Seq(Onto) /\ Len(win) <= MaxWindows
    BY DEF ByteInv, ByteTypeOK
  <2>2. win' = SubSeq(win, 1, Len(win) - 1) /\ win # <<>> /\ base' = base
    BY <1>6 DEF Close
  <2> HIDE DEF Onto
  <2>3. Len(win) # 0
    BY <2>1, <2>2
  <2>4. win' \in Seq(Onto) /\ Len(win') <= MaxWindows
    <3>1. Len(win) - 1 \in Int /\ 1 \in Int
      BY <1>1
    <3>2. \A i \in 1..(Len(win) - 1) : win[i] \in Onto
      BY <1>1, <2>1
    <3>3. /\ SubSeq(win, 1, Len(win) - 1) \in Seq(Onto)
          /\ Len(SubSeq(win, 1, Len(win) - 1)) =
               IF 1 <= Len(win) - 1 THEN (Len(win) - 1) - 1 + 1 ELSE 0
      BY <3>1, <3>2, SubSeqProperties
    <3> QED
      BY <1>1, <1>2, <2>1, <2>2, <2>3, <3>3
  <2> QED
    BY <1>3, <2>2, <2>4 DEF ByteInv, ByteTypeOK, Onto
<1>7. ASSUME NEW level \in Levels, NEW off \in Offsets, NEW from \in {"set", "cur", "end"},
             DoSeek(level, off, from)
      PROVE  ByteInv'
  <2>1. Sound(SeekAt(base, level, off, from).io)
    BY <1>1, <1>2, <1>3, <1>7, SeekAtSound DEF DoSeek
  <2> QED
    BY <1>7, <2>1, BaseStep DEF DoSeek
<1>8. ASSUME NEW level \in Levels, NEW n \in 0..MaxBytes, DoRead(level, n)
      PROVE  ByteInv'
  <2>1. n \in Nat
    BY <1>2
  <2>2. PICK m \in Nat : ReadAt(base, level, n) = Read8(base, m)
    BY <1>1, <1>3, <2>1, ReadSome
  <2>3. Sound(Read8(base, m).io)
    <3>1. m \in Int /\ ~ (m < 0)
      OBVIOUS
    <3> QED
      BY <1>3, <3>1, ReadSound
  <2>4. base' = Read8(base, m).io /\ UNCHANGED win
    BY <1>8, <2>2 DEF DoRead
  <2>5. InBound
    <3>1. Read8(base, m).res \in Nat /\ base.pos + Read8(base, m).res <= MaxBytes
      <4>1. m \in Int
        OBVIOUS
      <4>2. Read8(base, m).res = Smaller(m, Larger(base.size - base.pos, 0))
        BY <1>3, <4>1, ReadSound
      <4> QED
        BY <1>2, <1>4, <4>2 DEF Smaller, Larger
    <3>2. base' = [base EXCEPT !.pos = base.pos + Read8(base, m).res]
      BY <1>3, <2>4, ReadSound
    <3>3. base'.size = base.size /\ base'.pos = base.pos + Read8(base, m).res
      BY <1>3, <3>2 DEF IOs
    <3> QED
      BY <1>4, <3>1, <3>3 DEF InBound
  <2> QED
    BY <2>3, <2>4, <2>5, BaseStep
<1>9. ASSUME NEW level \in Levels, NEW n \in 0..MaxBytes, DoWrite(level, n)
      PROVE  ByteInv'
  <2>1. Sound(Write8(base, n).io)
    BY <1>2, <1>3, <1>9, WriteSound DEF DoWrite
  <2> QED
    BY <1>9, <2>1, BaseStep DEF DoWrite
<1>10. ASSUME NEW level \in Levels, NEW off \in 0..3, Sync32(level, off)
       PROVE  ByteInv'
  <2> DEFINE t == ((Tell(base, level) - off + 3) \div 4) * 4 + off
  <2>1. Tell(base, level) \in Int
    BY <1>1, <1>4, UpTyped DEF Tell
  <2>2. t \in Int
    BY <2>1
  <2>3. base' = SeekAt(base, level, t, "set").io /\ InBound /\ UNCHANGED win
    BY <1>10 DEF Sync32
  <2> HIDE DEF t
  <2>4. Sound(SeekAt(base, level, t, "set").io)
    BY <1>1, <1>3, <1>10, <2>2, SeekAtSound DEF Sync32
  <2> QED
    BY <2>3, <2>4, BaseStep
<1>11. ASSUME NEW level \in Levels, Align32(level)
       PROVE  ByteInv'
  <2> DEFINE over == GetLength(base, level) % 4
             sought == SeekAt(base, level, 0, "end")
  <2>1. GetLength(base, level) \in Int
    BY <1>1, <1>4, LengthTyped
  <2>2. 4 - over \in Nat
    BY <2>1
  <2>3. Sound(sought.io)
    BY <1>1, <1>3, <1>11, SeekAtSound DEF Align32
  <2>4. /\ base' = IF over = 0 THEN base
                   ELSE IF sought.res < 0 \/ sought.io.crashed THEN sought.io
                   ELSE Write8(sought.io, 4 - over).io
        /\ InBound /\ UNCHANGED win
    BY <1>11 DEF Align32
  <2> HIDE DEF over, sought
  <2>5. sought.io.crashed \/ Sound(Write8(sought.io, 4 - over).io)
    BY <2>2, <2>3, WriteSound
  <2>6. Sound(base')
    BY <1>3, <2>3, <2>4, <2>5
  <2> QED
    BY <2>4, <2>6, BaseStep
<1>12. CASE UNCHANGED byteVars
  BY <1>12 DEF byteVars, ByteInv, ByteTypeOK
<1> QED
  BY <1>5, <1>6, <1>7, <1>8, <1>9, <1>10, <1>11, <1>12 DEF ByteNext
LEMMA ByteInvAlways == ByteSpec => []ByteInv
<1>1. ByteInit => ByteInv
  BY ByteInvInit
<1>2. ByteInv /\ [ByteNext]_byteVars => ByteInv'
  BY ByteInvStep
<1> QED
  BY <1>1, <1>2, PTL DEF ByteSpec

\* The types of the IO and of its windows.
THEOREM BytesTyped == ByteSpec => []ByteTypeOK
<1>1. ByteInv => ByteTypeOK
  BY DEF ByteInv
<1> QED
  BY <1>1, ByteInvAlways, PTL

\* Whatever is sought, read, written and aligned at whatever level, memory is used
\* within its size, and every byte that can be read was given a value; the one
\* seek that ends the program is into memory with half of what 32 bits count to
\* be filled.
THEOREM BytesAlwaysDefined == ByteSpec => []BytesDefined
<1>1. ByteInv => BytesDefined
  BY DEF ByteInv, Sound, BytesDefined
<1> QED
  BY <1>1, ByteInvAlways, PTL
-----------------------------------------------------------------------------
(* Positions in windows *)

LEMMA BelowLevel ==
  ASSUME Windows, Len(win) \in Nat, NEW n \in Nat, n + 1 <= Len(win)
  PROVE  /\ n \in Levels /\ n + 1 \in Levels /\ n + 1 \in 1..Len(win) /\ n <= Len(win)
         /\ win[n + 1].start \in Nat /\ win[n + 1].size \in Nat
         /\ StartOf(n) \in Nat /\ StartOf(n + 1) = StartOf(n) + win[n + 1].start
         /\ \A p : Up(p, n + 1) = IF Up(p, n) >= win[n + 1].start
                                  THEN Up(p, n) - win[n + 1].start ELSE Up(p, n)
         /\ \A b : GetLength(b, n + 1) = IF win[n + 1].size > 0 THEN win[n + 1].size
                                         ELSE GetLength(b, n) - win[n + 1].start
         /\ \A t : Down(t, n + 1) = Down(SetTarget(n + 1, t), n)
         /\ \A b, m : ReadAt(b, n + 1, m) = ReadAt(b, n, Allowed(b, n + 1, m))
<1>1. /\ n \in Levels /\ n + 1 \in Levels /\ n + 1 \in 1..Len(win) /\ n <= Len(win)
      /\ n + 1 \in Nat \ {0} /\ (n + 1) - 1 = n
  BY DEF Levels
<1>2. win[n + 1].start \in Nat /\ win[n + 1].size \in Nat
  BY <1>1 DEF Windows
<1>3. StartOf(n) \in Nat
  BY <1>1, StartTyped
<1>4. StartOf(n + 1) = StartOf((n + 1) - 1) + win[n + 1].start
  BY <1>1, StartLevel
<1>5. ASSUME NEW p
      PROVE  Up(p, n + 1) = IF Up(p, (n + 1) - 1) >= win[n + 1].start
                            THEN Up(p, (n + 1) - 1) - win[n + 1].start
                            ELSE Up(p, (n + 1) - 1)
  BY <1>1, UpLevel
<1>6. ASSUME NEW b
      PROVE  GetLength(b, n + 1) = IF win[n + 1].size > 0 THEN win[n + 1].size
                                   ELSE GetLength(b, (n + 1) - 1) - win[n + 1].start
  BY <1>1, LengthLevel
<1>7. ASSUME NEW t
      PROVE  Down(t, n + 1) = Down(SetTarget(n + 1, t), (n + 1) - 1)
  BY <1>1, DownLevel
<1>8. ASSUME NEW b, NEW m
      PROVE  ReadAt(b, n + 1, m) = ReadAt(b, (n + 1) - 1, Allowed(b, n + 1, m))
  BY <1>1, ReadLevel
<1> QED
  BY <1>1, <1>2, <1>3, <1>4, <1>5, <1>6, <1>7, <1>8

\* A position not before where a level begins is seen from there as what it is
\* from there on.
LEMMA UpFromStart ==
  ASSUME Windows, Len(win) \in Nat, NEW p \in Int
  PROVE  \A level \in Levels : p >= StartOf(level) => Up(p, level) = p - StartOf(level)
<1> DEFINE Seen(level) == p >= StartOf(level) => Up(p, level) = p - StartOf(level)
           G == {level \in Nat : level <= Len(win) => Seen(level)}
<1>1. 0 \in G
  BY UpLevel, StartLevel
<1>2. ASSUME NEW n \in Nat, Seen(n), n + 1 <= Len(win)
      PROVE  Seen(n + 1)
  <2>1. /\ win[n + 1].start \in Nat
        /\ StartOf(n) \in Nat /\ StartOf(n + 1) = StartOf(n) + win[n + 1].start
        /\ Up(p, n + 1) = IF Up(p, n) >= win[n + 1].start
                          THEN Up(p, n) - win[n + 1].start ELSE Up(p, n)
    BY <1>2, BelowLevel
  <2> QED
    BY <1>2, <2>1
<1> HIDE DEF Seen
<1>3. \A n \in Nat : n \in G => n + 1 \in G
  BY <1>2
<1>4. Nat \subseteq G
  <2> HIDE DEF G
  <2> QED
    BY <1>1, <1>3, Climbing
<1> QED
  BY <1>4 DEF Seen, Levels

\* A window that lies in what is under it is no shorter than nothing, and what is
\* inside it is inside that.
LEMMA InsideBelow ==
  ASSUME Windows, Len(win) \in Nat, NEW n \in Nat, n + 1 <= Len(win), Sound(base),
         Nested(n + 1)
  PROVE  /\ Nested(n)
         /\ GetLength(base, n) \in Int /\ GetLength(base, n + 1) \in Nat
         /\ At(base, n) \in Int /\ At(base, n) = At(base, n + 1) + win[n + 1].start
         /\ win[n + 1].start + GetLength(base, n + 1) <= GetLength(base, n)
         /\ InWindow(base, n + 1) => InWindow(base, n) /\ Tell(base, n) = At(base, n)
<1>1. /\ n \in Levels /\ n + 1 \in Levels /\ n + 1 \in 1..Len(win) /\ n <= Len(win)
      /\ win[n + 1].start \in Nat /\ win[n + 1].size \in Nat
      /\ StartOf(n) \in Nat /\ StartOf(n + 1) = StartOf(n) + win[n + 1].start
      /\ GetLength(base, n + 1) = IF win[n + 1].size > 0 THEN win[n + 1].size
                                  ELSE GetLength(base, n) - win[n + 1].start
  BY BelowLevel
<1>2. base.pos \in Nat /\ base.size \in Int
  BY DEF Sound
<1>3. GetLength(base, n) \in Int /\ GetLength(base, n + 1) \in Int
  BY <1>1, <1>2, LengthTyped
<1>4. Nested(n)
  <2>1. \A k \in 1..n : k \in 1..(n + 1)
    OBVIOUS
  <2> QED
    BY <2>1 DEF Nested
<1>5. win[n + 1].start + Larger(GetLength(base, n + 1), 0) <= GetLength(base, n)
  <2>1. n + 1 \in 1..(n + 1) /\ (n + 1) - 1 = n
    OBVIOUS
  <2>2. win[n + 1].start + Larger(GetLength(base, n + 1), 0) <= GetLength(base, (n + 1) - 1)
    BY <2>1 DEF Nested
  <2> QED
    BY <2>1, <2>2
<1>6. GetLength(base, n + 1) \in Nat
  BY <1>1, <1>3, <1>5 DEF Larger
<1>7. win[n + 1].start + GetLength(base, n + 1) <= GetLength(base, n)
  BY <1>1, <1>3, <1>5, <1>6 DEF Larger
<1>8. At(base, n) \in Int /\ At(base, n) = At(base, n + 1) + win[n + 1].start
  BY <1>1, <1>2 DEF At
<1>9. ASSUME InWindow(base, n + 1)
      PROVE  InWindow(base, n) /\ Tell(base, n) = At(base, n)
  <2>1. At(base, n + 1) \in 0..GetLength(base, n + 1)
    BY <1>9 DEF InWindow
  <2>2. At(base, n) \in 0..GetLength(base, n)
    BY <1>1, <1>3, <1>7, <1>8, <2>1
  <2>3. base.pos >= StartOf(n)
    BY <1>1, <1>2, <2>2 DEF At
  <2>4. Up(base.pos, n) = base.pos - StartOf(n)
    BY <1>1, <1>2, <2>3, UpFromStart
  <2> QED
    BY <2>2, <2>4 DEF InWindow, Tell, At
<1> QED
  BY <1>3, <1>4, <1>6, <1>7, <1>8, <1>9
\* What a read at a level yields, from a position inside and from one outside.
ReadsInside(level) ==
  Nested(level) /\ InWindow(base, level) =>
    \A n \in Nat :
      ReadAt(base, level, n).res = Smaller(n, GetLength(base, level) - At(base, level))
ReadsOutside(level) ==
  Nested(level) /\ Sized(level) /\ ~ InWindow(base, level) =>
    \A n \in Nat : ReadAt(base, level, n).res = 0

\* Asked for as much as is left, the window under it has as much.
LEMMA ReadInsideLevel ==
  ASSUME Windows, Len(win) \in Nat, NEW l \in Nat, l + 1 <= Len(win), Sound(base),
         ReadsInside(l)
  PROVE  ReadsInside(l + 1)
<1> SUFFICES ASSUME Nested(l + 1), InWindow(base, l + 1), NEW n \in Nat
             PROVE  ReadAt(base, l + 1, n).res =
                      Smaller(n, GetLength(base, l + 1) - At(base, l + 1))
  BY DEF ReadsInside
<1> DEFINE left == GetLength(base, l + 1) - At(base, l + 1)
           under == GetLength(base, l) - At(base, l)
           some == Allowed(base, l + 1, n)
<1>1. /\ win[l + 1].start \in Nat /\ win[l + 1].size \in Nat
      /\ GetLength(base, l + 1) = IF win[l + 1].size > 0 THEN win[l + 1].size
                                  ELSE GetLength(base, l) - win[l + 1].start
      /\ ReadAt(base, l + 1, n) = ReadAt(base, l, some)
  BY BelowLevel
<1>2. /\ Nested(l) /\ InWindow(base, l) /\ Tell(base, l) = At(base, l)
      /\ GetLength(base, l) \in Int /\ GetLength(base, l + 1) \in Nat
      /\ At(base, l) \in Int /\ At(base, l) = At(base, l + 1) + win[l + 1].start
      /\ win[l + 1].start + GetLength(base, l + 1) <= GetLength(base, l)
  BY InsideBelow
<1>3. At(base, l + 1) \in 0..GetLength(base, l + 1)
  BY DEF InWindow
<1>4. (l + 1) - 1 = l
  OBVIOUS
<1>5. Tell(base, (l + 1) - 1) - win[l + 1].start = At(base, l + 1)
  BY <1>1, <1>2, <1>3, <1>4
<1>6. left \in Nat /\ under \in Nat /\ left <= under /\ (win[l + 1].size = 0 => under = left)
  BY <1>1, <1>2, <1>3
<1>7. some = IF win[l + 1].size = 0 THEN n ELSE Smaller(n, left)
  <2>1. CASE win[l + 1].size = 0
    BY <2>1 DEF Allowed
  <2>2. CASE win[l + 1].size # 0
    <3>1. GetLength(base, l + 1) = win[l + 1].size
      BY <1>1, <2>2
    <3>2. ~ (At(base, l + 1) < 0 \/ At(base, l + 1) > win[l + 1].size)
      BY <1>1, <1>3, <3>1
    <3> QED
      BY <1>5, <2>2, <3>1, <3>2 DEF Allowed
  <2> QED
    BY <2>1, <2>2
<1>8. some \in Nat /\ Smaller(some, under) = Smaller(n, left)
  BY <1>1, <1>6, <1>7 DEF Smaller
<1>9. ReadAt(base, l, some).res = Smaller(some, under)
  BY <1>2, <1>8 DEF ReadsInside
<1> QED
  BY <1>1, <1>8, <1>9

\* Outside, the first window that the position is not in asks for nothing.
LEMMA ReadOutsideLevel ==
  ASSUME Windows, Len(win) \in Nat, NEW l \in Nat, l + 1 <= Len(win), Sound(base),
         ReadsInside(l), ReadsOutside(l)
  PROVE  ReadsOutside(l + 1)
<1> SUFFICES ASSUME Nested(l + 1), Sized(l + 1), ~ InWindow(base, l + 1), NEW n \in Nat
             PROVE  ReadAt(base, l + 1, n).res = 0
  BY DEF ReadsOutside
<1> DEFINE some == Allowed(base, l + 1, n)
<1>1. /\ win[l + 1].start \in Nat /\ win[l + 1].size \in Nat /\ l \in Levels
      /\ GetLength(base, l + 1) = IF win[l + 1].size > 0 THEN win[l + 1].size
                                  ELSE GetLength(base, l) - win[l + 1].start
      /\ ReadAt(base, l + 1, n) = ReadAt(base, l, some)
      /\ StartOf(l) \in Nat
  BY BelowLevel
<1>2. /\ Nested(l)
      /\ GetLength(base, l) \in Int /\ GetLength(base, l + 1) \in Nat
      /\ At(base, l) \in Int /\ At(base, l) = At(base, l + 1) + win[l + 1].start
      /\ win[l + 1].start + GetLength(base, l + 1) <= GetLength(base, l)
  BY InsideBelow
<1>3. (l + 1) - 1 = l /\ l + 1 \in 1..(l + 1) /\ \A k \in 1..l : k \in 1..(l + 1)
  OBVIOUS
<1>4. win[l + 1].size > 0 /\ Sized(l)
  BY <1>3 DEF Sized
<1>5. base.pos \in Nat
  BY DEF Sound
<1>6. Tell(base, l) \in Int
  <2>1. l \in Levels /\ base.pos \in Int
    BY <1>1, <1>5
  <2>2. Up(base.pos, l) \in Int
    BY <2>1, UpTyped
  <2> QED
    BY <2>2 DEF Tell
<1>7. some \in Nat
  <2>1. Tell(base, (l + 1) - 1) - win[l + 1].start \in Int
    BY <1>1, <1>3, <1>6
  <2> QED
    BY <1>1, <2>1 DEF Allowed, Smaller
<1>8. CASE ~ InWindow(base, l)
  <2>1. ReadAt(base, l, some).res = 0
    BY <1>2, <1>4, <1>7, <1>8 DEF ReadsOutside
  <2> QED
    BY <1>1, <2>1
<1>9. CASE InWindow(base, l)
  <2>1. At(base, l) \in 0..GetLength(base, l)
    BY <1>9 DEF InWindow
  <2>2. Up(base.pos, l) = base.pos - StartOf(l)
    <3>1. base.pos >= StartOf(l)
      BY <1>1, <1>2, <1>5, <2>1 DEF At
    <3> QED
      BY <1>1, <1>5, <3>1, UpFromStart
  <2>3. At(base, l + 1) = At(base, l) - win[l + 1].start /\ At(base, l + 1) \in Int
    <3>1. StartOf(l + 1) = StartOf(l) + win[l + 1].start
      BY BelowLevel
    <3> QED
      BY <1>1, <1>5, <3>1 DEF At
  <2>4. Tell(base, (l + 1) - 1) - win[l + 1].start = At(base, l + 1)
    BY <1>3, <2>2, <2>3 DEF Tell, At
  <2>5. At(base, l + 1) < 0 \/ At(base, l + 1) > win[l + 1].size
    <3>1. ~ (At(base, l + 1) \in 0..win[l + 1].size)
      BY <1>1, <1>4 DEF InWindow
    <3> QED
      BY <1>1, <2>3, <3>1
  <2>6. some = 0
    BY <1>1, <1>4, <2>4, <2>5 DEF Allowed
  <2>7. GetLength(base, l) - At(base, l) \in Nat
    BY <1>2, <2>1
  <2>8. ReadAt(base, l, 0).res = Smaller(0, GetLength(base, l) - At(base, l))
    BY <1>2, <1>9 DEF ReadsInside
  <2> QED
    BY <1>1, <2>6, <2>7, <2>8 DEF Smaller
<1> QED
  BY <1>8, <1>9

LEMMA ReadsAtLevels ==
  ASSUME ByteInv
  PROVE  \A level \in Levels : ReadsInside(level) /\ ReadsOutside(level)
<1> DEFINE Fine(level) == ReadsInside(level) /\ ReadsOutside(level)
           G == {level \in Nat : level <= Len(win) => Fine(level)}
<1>1. Windows /\ Len(win) \in Nat /\ Sound(base)
  BY WindowsTyped DEF ByteInv
<1>2. 0 \in G
  <2>1. GetLength(base, 0) = base.size /\ StartOf(0) = 0
    BY LengthLevel, StartLevel
  <2>2. base.pos \in Nat /\ base.size \in Nat
    BY <1>1 DEF Sound
  <2>3. At(base, 0) = base.pos
    BY <2>1, <2>2 DEF At
  <2>4. ASSUME NEW n \in Nat
        PROVE  ReadAt(base, 0, n).res = Smaller(n, Larger(base.size - base.pos, 0))
    <3>1. ReadAt(base, 0, n) = Read8(base, n) /\ n \in Int
      BY ReadLevel
    <3> QED
      BY <1>1, <3>1, ReadSound
  <2>5. ReadsInside(0)
    <3>1. SUFFICES ASSUME InWindow(base, 0), NEW n \in Nat
                   PROVE  ReadAt(base, 0, n).res = Smaller(n, GetLength(base, 0) - At(base, 0))
      BY DEF ReadsInside
    <3>2. base.pos \in 0..base.size
      BY <2>1, <2>3, <3>1 DEF InWindow
    <3>3. Larger(base.size - base.pos, 0) = base.size - base.pos
      BY <2>2, <3>2 DEF Larger
    <3> QED
      BY <2>1, <2>3, <2>4, <3>3
  <2>6. ReadsOutside(0)
    <3>1. SUFFICES ASSUME ~ InWindow(base, 0), NEW n \in Nat
                   PROVE  ReadAt(base, 0, n).res = 0
      BY DEF ReadsOutside
    <3>2. ~ (base.pos \in 0..base.size)
      BY <2>1, <2>3, <3>1 DEF InWindow
    <3>3. Smaller(n, Larger(base.size - base.pos, 0)) = 0
      BY <2>2, <3>2 DEF Larger, Smaller
    <3> QED
      BY <2>4, <3>3
  <2> QED
    BY <2>5, <2>6
<1>3. ASSUME NEW n \in Nat, Fine(n), n + 1 <= Len(win)
      PROVE  Fine(n + 1)
  BY <1>1, <1>3, ReadInsideLevel, ReadOutsideLevel
<1> HIDE DEF Fine
<1>4. \A n \in Nat : n \in G => n + 1 \in G
  <2>1. \A n \in Nat : n + 1 <= Len(win) => n <= Len(win)
    BY <1>1
  <2> QED
    BY <1>3, <2>1
<1>5. Nat \subseteq G
  <2> HIDE DEF G
  <2> QED
    BY <1>2, <1>4, Climbing
<1> QED
  BY <1>1, <1>5 DEF Fine, Levels

LEMMA ReadsOwn == ByteInv => ReadsItsOwn
<1> SUFFICES ASSUME ByteInv, NEW level \in Levels, NEW n \in 0..MaxBytes,
                    Nested(level), Sized(level) \/ InWindow(base, level)
             PROVE  /\ ReadAt(base, level, n).res =
                         IF InWindow(base, level)
                         THEN Smaller(n, GetLength(base, level) - At(base, level)) ELSE 0
                    /\ ReadAt(base, level, n).io.pos = base.pos + ReadAt(base, level, n).res
  BY DEF ReadsItsOwn
<1>1. n \in Nat
  BY SizeAssumption
<1>2. Windows /\ Len(win) \in Nat /\ Sound(base)
  BY WindowsTyped DEF ByteInv
<1>3. ReadsInside(level) /\ ReadsOutside(level)
  BY ReadsAtLevels
<1>4. PICK m \in Nat : ReadAt(base, level, n) = Read8(base, m)
  BY <1>1, <1>2, ReadSome
<1>5. Read8(base, m).io = [base EXCEPT !.pos = base.pos + Read8(base, m).res]
  <2>1. m \in Int
    OBVIOUS
  <2> QED
    BY <1>2, <2>1, ReadSound
<1>6. Read8(base, m).io.pos = base.pos + Read8(base, m).res
  BY <1>2, <1>5 DEF Sound
<1> QED
  BY <1>1, <1>3, <1>4, <1>6 DEF ReadsInside, ReadsOutside

\* Reading through a window gives the window's bytes from the position on, at
\* every depth of windows and for every size of theirs.
THEOREM ReadsAlwaysOwn == ByteSpec => []ReadsItsOwn
<1> QED
  BY ByteInvAlways, ReadsOwn, PTL
-----------------------------------------------------------------------------
(* Seeks in windows *)

\* A position inside a level arrives at the bottom as what it is from where the
\* level begins: no window under it is in its way.
LEMMA DownInside ==
  ASSUME Windows, Len(win) \in Nat, Sound(base)
  PROVE  \A level \in Levels : Nested(level) =>
           \A t \in 0..GetLength(base, level) :
             /\ Down(t, level) = StartOf(level) + t
             /\ StartOf(level) + t <= base.size
<1> DEFINE Lands(level) == Nested(level) =>
             \A t \in 0..GetLength(base, level) :
               /\ Down(t, level) = StartOf(level) + t
               /\ StartOf(level) + t <= base.size
           G == {level \in Nat : level <= Len(win) => Lands(level)}
<1>1. 0 \in G
  <2>1. GetLength(base, 0) = base.size /\ StartOf(0) = 0
    BY LengthLevel, StartLevel
  <2>2. \A t : Down(t, 0) = t
    BY DownLevel
  <2>3. base.size \in Nat
    BY DEF Sound
  <2>4. Lands(0)
    BY <2>1, <2>2, <2>3
  <2> HIDE DEF Lands
  <2> QED
    BY <2>4
<1>2. ASSUME NEW n \in Nat, Lands(n), n + 1 <= Len(win), Nested(n + 1),
             NEW t \in 0..GetLength(base, n + 1)
      PROVE  /\ Down(t, n + 1) = StartOf(n + 1) + t
             /\ StartOf(n + 1) + t <= base.size
  <2> HIDE DEF Lands
  <2>1. /\ win[n + 1].start \in Nat /\ win[n + 1].size \in Nat
        /\ StartOf(n) \in Nat /\ StartOf(n + 1) = StartOf(n) + win[n + 1].start
        /\ GetLength(base, n + 1) = IF win[n + 1].size > 0 THEN win[n + 1].size
                                    ELSE GetLength(base, n) - win[n + 1].start
        /\ Down(t, n + 1) = Down(SetTarget(n + 1, t), n)
    BY <1>2, BelowLevel
  <2>2. /\ Nested(n)
        /\ GetLength(base, n) \in Int /\ GetLength(base, n + 1) \in Nat
        /\ win[n + 1].start + GetLength(base, n + 1) <= GetLength(base, n)
    BY <1>2, InsideBelow
  <2>3. t \in Nat /\ t <= GetLength(base, n + 1)
    BY <1>2, <2>2
  <2>4. SetTarget(n + 1, t) = win[n + 1].start + t
    BY <2>1, <2>3 DEF SetTarget
  <2>5. win[n + 1].start + t \in 0..GetLength(base, n)
    BY <2>1, <2>2, <2>3
  <2>6. /\ Down(win[n + 1].start + t, n) = StartOf(n) + (win[n + 1].start + t)
        /\ StartOf(n) + (win[n + 1].start + t) <= base.size
    BY <1>2, <2>2, <2>5 DEF Lands
  <2> QED
    BY <2>1, <2>3, <2>4, <2>6
<1>3. ASSUME NEW n \in Nat, Lands(n), n + 1 <= Len(win)
      PROVE  Lands(n + 1)
  BY <1>2, <1>3
<1> HIDE DEF Lands
<1>4. \A n \in Nat : n \in G => n + 1 \in G
  <2>1. \A n \in Nat : n + 1 <= Len(win) => n <= Len(win)
    OBVIOUS
  <2> QED
    BY <1>3, <2>1
<1>5. Nat \subseteq G
  <2> HIDE DEF G
  <2> QED
    BY <1>1, <1>4, Climbing
<1> QED
  BY <1>5 DEF Lands, Levels

\* A position that is there is always reached.
LEMMA SeekReaches ==
  ASSUME ByteTypeOK, Sound(base), NEW t \in Nat, t <= base.size
  PROVE  Seek(base, t).res = t /\ Seek(base, t).io.pos = t
<1>1. base.size \in Nat /\ base.size <= MaxBytes
  <2>1. base.size \in 0..MaxBytes
    BY DEF ByteTypeOK, IOs
  <2> QED
    BY <2>1, SizeAssumption
<1>2. CASE base.kind = "memory"
  <2>1. t < Word
    BY <1>1, SizeAssumption
  <2>2. t % Word = t
    BY <2>1, SizeAssumption
  <2>3. ~ (t < 0) /\ t >= 0 /\ ~ (t > base.size)
    BY <1>1
  <2> DEFINE after == [base EXCEPT !.pos = t]
  <2>4. MemSeek(base, t) = [io |-> after, res |-> t]
    BY <2>2, <2>3 DEF MemSeek
  <2>5. after.pos = t
    BY DEF Sound
  <2>6. Seek(base, t) = MemSeek(base, t)
    BY <1>2 DEF Seek
  <2> HIDE DEF after
  <2> QED
    BY <2>4, <2>5, <2>6
<1>3. CASE base.kind # "memory"
  <2> DEFINE long == IF base.kind = "null" THEN Larger(base.size, t) ELSE base.size
             after == [base EXCEPT !.pos = t, !.size = long]
  <2>1. ~ (t < 0)
    OBVIOUS
  <2>2. Seek(base, t) = [io |-> after, res |-> t]
    BY <1>3, <2>1 DEF Seek, Sound
  <2>3. after.pos = t
    BY DEF Sound
  <2> HIDE DEF after
  <2> QED
    BY <2>2, <2>3
<1> QED
  BY <1>2, <1>3

\* What a seek in a window passes on is a position inside the window.
LEMMA SeekPasses ==
  ASSUME ByteInv, NEW l \in Nat, l + 1 <= Len(win), Nested(l + 1), NEW off \in Int,
         NEW from \in {"set", "cur", "end"}, NEW wanted,
         wanted = CASE from = "set" -> off
                    [] from = "cur" -> At(base, l + 1) + off
                    [] from = "end" -> GetLength(base, l + 1) + off,
         Sized(l + 1) \/ wanted <= GetLength(base, l + 1),
         from = "set" => off >= 0,
         from = "cur" => InWindow(base, l + 1),
         from = "end" => off <= 0
  PROVE  /\ Larger(0, Smaller(wanted, GetLength(base, l + 1)))
              \in 0..GetLength(base, l + 1)
         /\ (CASE from = "set" -> SetTarget(l + 1, off)
               [] from = "cur" -> CurTarget(base, l + 1, off)
               [] from = "end" -> EndTarget(base, l + 1, off)) =
              win[l + 1].start + Larger(0, Smaller(wanted, GetLength(base, l + 1)))
<1> DEFINE length == GetLength(base, l + 1)
           w == Larger(0, Smaller(wanted, length))
<1>1. Windows /\ Len(win) \in Nat /\ Sound(base)
  BY WindowsTyped DEF ByteInv
<1>2. /\ win[l + 1].start \in Nat /\ win[l + 1].size \in Nat
      /\ length = IF win[l + 1].size > 0 THEN win[l + 1].size
                  ELSE GetLength(base, l) - win[l + 1].start
  BY <1>1, BelowLevel
<1>3. /\ length \in Nat /\ At(base, l) \in Int
      /\ At(base, l) = At(base, l + 1) + win[l + 1].start
      /\ InWindow(base, l + 1) => Tell(base, l) = At(base, l)
  BY <1>1, InsideBelow
<1>4. (l + 1) - 1 = l /\ l + 1 \in 1..(l + 1)
  OBVIOUS
<1>5. win[l + 1].size > 0 \/ wanted <= length
  BY <1>4 DEF Sized
<1>6. CASE from = "set"
  <2>1. wanted = off /\ off >= 0
    BY <1>6
  <2> HIDE DEF length
  <2>2. w \in 0..length /\ SetTarget(l + 1, off) = win[l + 1].start + w
    BY <1>2, <1>3, <1>5, <2>1 DEF SetTarget, Larger, Smaller
  <2> QED
    BY <1>6, <2>2 DEF length
<1>7. CASE from = "cur"
  <2>1. wanted = At(base, l + 1) + off /\ InWindow(base, l + 1)
    BY <1>7
  <2>2. At(base, l + 1) \in 0..length
    BY <2>1 DEF InWindow
  <2> HIDE DEF length
  <2>3. Tell(base, (l + 1) - 1) + off = wanted + win[l + 1].start /\ wanted \in Int
    <3>1. Tell(base, (l + 1) - 1) = At(base, l)
      BY <1>3, <1>4, <2>1
    <3>2. At(base, l + 1) \in Int
      BY <1>3, <2>2
    <3> QED
      BY <1>2, <1>3, <2>1, <3>1, <3>2
  <2>4. CurTarget(base, l + 1, off) =
          IF win[l + 1].size > 0 /\ (wanted + win[l + 1].start) - win[l + 1].start
                                       > win[l + 1].size
          THEN win[l + 1].start + win[l + 1].size
          ELSE Larger(wanted + win[l + 1].start, win[l + 1].start)
    BY <2>3 DEF CurTarget
  <2>5. w \in 0..length
    BY <1>3, <2>3 DEF Larger, Smaller
  <2>6. ASSUME win[l + 1].size > 0 /\ wanted > win[l + 1].size
        PROVE  CurTarget(base, l + 1, off) = win[l + 1].start + w
    <3>1. (wanted + win[l + 1].start) - win[l + 1].start > win[l + 1].size
      BY <1>2, <2>3, <2>6
    <3>2. w = win[l + 1].size
      BY <1>2, <1>3, <2>3, <2>6 DEF Larger, Smaller
    <3>3. CurTarget(base, l + 1, off) = win[l + 1].start + win[l + 1].size
      BY <2>4, <2>6, <3>1
    <3> HIDE DEF w
    <3> QED
      BY <3>2, <3>3
  <2>7. ASSUME ~ (win[l + 1].size > 0 /\ wanted > win[l + 1].size)
        PROVE  CurTarget(base, l + 1, off) = win[l + 1].start + w
    <3>1. ~ (win[l + 1].size > 0
             /\ (wanted + win[l + 1].start) - win[l + 1].start > win[l + 1].size)
      BY <1>2, <2>3, <2>7
    <3>2. wanted <= length
      BY <1>2, <1>3, <1>5, <2>3, <2>7
    <3>3. w = Larger(0, wanted)
      BY <1>3, <2>3, <3>2 DEF Smaller, Larger
    <3>4. Larger(wanted + win[l + 1].start, win[l + 1].start)
            = win[l + 1].start + Larger(0, wanted)
      BY <1>2, <2>3 DEF Larger
    <3>5. CurTarget(base, l + 1, off) =
            Larger(wanted + win[l + 1].start, win[l + 1].start)
      BY <2>4, <3>1
    <3> HIDE DEF w
    <3> QED
      BY <3>3, <3>4, <3>5
  <2>8. w \in 0..length /\ CurTarget(base, l + 1, off) = win[l + 1].start + w
    <3> HIDE DEF w
    <3> QED
      BY <2>5, <2>6, <2>7
  <2> QED
    BY <1>7, <2>8 DEF length
<1>8. CASE from = "end"
  <2>1. wanted = length + off /\ off <= 0
    BY <1>8
  <2>2. EndTarget(base, l + 1, off) = win[l + 1].start + Larger(length + off, 0)
    BY DEF EndTarget
  <2> HIDE DEF length
  <2>3. w \in 0..length /\ EndTarget(base, l + 1, off) = win[l + 1].start + w
    BY <1>2, <1>3, <2>1, <2>2 DEF Larger, Smaller
  <2> QED
    BY <1>8, <2>3 DEF length
<1> QED
  BY <1>6, <1>7, <1>8

LEMMA SeeksOwn == ByteInv => SeeksItsOwn
<1> SUFFICES ASSUME ByteInv, NEW level \in Levels \ {0}, NEW off \in Offsets,
                    NEW from \in {"set", "cur", "end"}, NEW wanted,
                    wanted = CASE from = "set" -> off
                               [] from = "cur" -> At(base, level) + off
                               [] from = "end" -> GetLength(base, level) + off,
                    Nested(level), Sized(level) \/ wanted <= GetLength(base, level),
                    from = "set" => off >= 0,
                    from = "cur" => InWindow(base, level),
                    from = "end" => off <= 0
             PROVE  LET sought == SeekAt(base, level, off, from)
                    IN  /\ sought.res = Larger(0, Smaller(wanted, GetLength(base, level)))
                        /\ At(sought.io, level) = sought.res
                        /\ Tell(sought.io, level) = sought.res
  BY DEF SeeksItsOwn
<1> DEFINE over == CASE from = "set" -> SetTarget(level, off)
                     [] from = "cur" -> CurTarget(base, level, off)
                     [] from = "end" -> EndTarget(base, level, off)
           w == Larger(0, Smaller(wanted, GetLength(base, level)))
           l == level - 1
           t == StartOf(level) + w
<1>1. Windows /\ Len(win) \in Nat /\ Sound(base) /\ ByteTypeOK
  BY WindowsTyped DEF ByteInv
<1>2. l \in Nat /\ level = l + 1 /\ l + 1 <= Len(win) /\ off \in Int
  BY <1>1, SizeAssumption DEF Levels
<1> HIDE DEF l
<1>3. w \in 0..GetLength(base, level) /\ over = win[level].start + w
  BY <1>2, SeekPasses
<1> HIDE DEF over, w
<1>4. /\ l \in Levels /\ level \in Levels /\ win[level].start \in Nat
      /\ StartOf(l) \in Nat /\ StartOf(level) = StartOf(l) + win[level].start
  BY <1>1, <1>2, BelowLevel
<1>5. /\ Nested(l) /\ GetLength(base, level) \in Nat /\ GetLength(base, l) \in Int
      /\ win[level].start + GetLength(base, level) <= GetLength(base, l)
  BY <1>1, <1>2, InsideBelow
<1>6. over \in 0..GetLength(base, l)
  BY <1>3, <1>4, <1>5
<1>7. Down(over, l) = StartOf(l) + over /\ StartOf(l) + over <= base.size
  BY <1>1, <1>4, <1>5, <1>6, DownInside
<1>8. t \in Nat /\ t >= StartOf(level) /\ Down(over, l) = t /\ t <= base.size
  BY <1>3, <1>4, <1>5, <1>7
<1> HIDE DEF t
<1>9. SeekAt(base, level, off, from) =
        [io |-> Seek(base, t).io, res |-> Up(Seek(base, t).res, level)]
  BY <1>2, <1>8 DEF SeekAt, over, l
<1>10. Seek(base, t).res = t /\ Seek(base, t).io.pos = t
  BY <1>1, <1>8, SeekReaches
<1>11. Up(t, level) = t - StartOf(level)
  BY <1>1, <1>4, <1>8, UpFromStart
<1>12. t - StartOf(level) = w
  BY <1>3, <1>4, <1>5 DEF t
<1> QED
  BY <1>9, <1>10, <1>11, <1>12 DEF At, Tell, w

\* A seek in a window ends where it would in a file of its own.
THEOREM SeeksAlwaysOwn == ByteSpec => []SeeksItsOwn
<1> QED
  BY ByteInvAlways, SeeksOwn, PTL
=============================================================================
