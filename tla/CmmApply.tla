------------------------------- MODULE CmmApply -------------------------------
(***************************************************************************)
(* CIccApplyCmm and CIccApplyNamedColorCmm (IccProfLib/IccCmm.cpp): an     *)
(* apply object takes pixels, or names of colours, through a chain of      *)
(* transforms, from buffer to buffer.  A bulk Apply takes chunks of pixels *)
(* through one transform after the other; that of a named colour CMM takes *)
(* pixel after pixel through the chain.                                    *)
(*                                                                         *)
(* What a buffer holds is written down as what it was made from: the       *)
(* source sample it began at, and through how many transforms it has gone. *)
(* A step is one transform on one chunk, or on one pixel.                  *)
(***************************************************************************)
EXTENDS Integers, Sequences

CONSTANTS
  Chains,      \* the chains of transforms: sequences of kinds
  Widths,      \* samples a source or destination pixel may have
  ChunkPixels, \* kCmmChunkPixels
  IndexLimit,  \* the offset's product has 32 bits: 2^32
  MaxPixels    \* bound on the pixels of one call

\* A transform reads all of a pixel before it writes; or does so when source and
\* destination are the same address (a chain of elements); or writes while it
\* reads (a PCS transform of one step).  Others turn pixels into colour names
\* and names into pixels.
PixelKinds == {"copies", "buffers", "direct"}
Kinds == PixelKinds \cup {"toName", "fromName"}

ASSUME SizeAssumption ==
  /\ ChunkPixels \in Nat \ {0} /\ IndexLimit \in Nat \ {0} /\ MaxPixels \in Nat
  /\ Widths \subseteq Nat \ {0}
Takes(x) == IF x = "fromName" THEN "name" ELSE "pixels"
Gives(x) == IF x = "toName" THEN "name" ELSE "pixels"
\* AddXform has each transform take what the one before it gives.
ASSUME ChainAssumption ==
  \A c \in Chains :
    /\ c \in Seq(Kinds)
    /\ \A k \in 1..(Len(c) - 1) : Gives(c[k]) = Takes(c[k + 1])

VARIABLES
  mode,   \* "none", "idle", "apply" (in a call), "crashed"
  object, \* whether it is of a named colour CMM, its chain and pixel widths
  own,    \* which of its four buffers are allocated
  mem,    \* what they hold
  call,   \* the call's pixels, whether it is a bulk Apply, and in place
  base,   \* pixels done: offset, or k
  j,      \* transforms applied to the current chunk or pixel
  pSrc,   \* where the next transform reads,
  pDst,   \* and where it writes if it is not the last
  name,   \* NamedColor
  out,    \* <<destination sample, content>> written for the client
  rv,     \* status the last call returned
  short   \* history: a call has returned icCmmStatAllocErr

vars == <<mode, object, own, mem, call, base, j, pSrc, pDst, name, out, rv, short>>

PixelBuffers == {"m_Pixel", "m_Pixel2"}
ChunkBuffers == {"m_ChunkBuf0", "m_ChunkBuf1"}
Buffers == PixelBuffers \cup ChunkBuffers
TheClients == "the client's"

\* What was made from the source sample at, by so many transforms.
Junk == [at |-> -1, stage |-> 0]
Contents == [at : Nat, stage : Nat] \cup {Junk}
Image(c) == IF c = Junk THEN Junk ELSE [c EXCEPT !.stage = @ + 1]

Length == Len(object.chain)
FromName == Length > 0 /\ Takes(object.chain[1]) = "name"
ToName == Length > 0 /\ Gives(object.chain[Length]) = "name"

\* Pixels go a chunk at a time.
Chunked == call.bulk /\ ~object.named
-----------------------------------------------------------------------------
Objects ==
  {o \in [named : BOOLEAN, chain : Chains, nSrc : Widths, nDst : Widths] :
     o.named \/ \A k \in DOMAIN o.chain : o.chain[k] \in PixelKinds}

Empty == [b \in Buffers |-> [k \in 0..(ChunkPixels - 1) |-> Junk]]
NoCall == [n |-> 0, bulk |-> FALSE, inPlace |-> FALSE]

Init ==
  /\ mode = "none" /\ object \in Objects /\ own = {} /\ mem = Empty
  /\ call = NoCall /\ base = 0 /\ j = 0
  /\ pSrc = TheClients /\ pDst = "m_Pixel" /\ name = Junk
  /\ out = {} /\ rv = "Ok" /\ short = FALSE

\* A new object has no buffers yet.  Objects share nothing, so one is followed.
GetNewApplyCmm ==
  /\ mode = "none"
  /\ mode' = "idle"
  /\ UNCHANGED <<object, own, mem, call, base, j, pSrc, pDst, name, out, rv, short>>

Destroy ==
  /\ mode = "idle"
  /\ mode' = "none" /\ own' = {} /\ mem' = Empty
  /\ call' = NoCall /\ base' = 0 /\ j' = 0
  /\ pSrc' = TheClients /\ pDst' = "m_Pixel" /\ name' = Junk
  /\ out' = {} /\ rv' = "Ok" /\ short' = FALSE
  /\ UNCHANGED object

\* Fault: the chunk buffers are left to whoever needs them.
PixelsOnly == PixelBuffers
\* The buffers after an InitPixel that gets all of them, or that does not: the
\* chunk buffers are tried for after the pixels only.
AllBuffers == Buffers
SomeBuffers ==
  {got \in SUBSET Buffers :
     /\ got # Buffers
     /\ got \cap ChunkBuffers # {} => PixelBuffers \subseteq got}

\* It is tried if the first buffer is missing.
NeedsInit == "m_Pixel" \notin own

Return(status) == mode' = "idle" /\ rv' = status

\* The call as the client makes it: with the overload that GetInterface names,
\* in place only with pixels that do not grow.
Calls ==
  {c \in [n : 0..MaxPixels, bulk : BOOLEAN, inPlace : BOOLEAN] :
     /\ ~c.bulk => c.n = 1
     /\ FromName \/ ToName => ~c.bulk /\ ~c.inPlace
     /\ c.inPlace => object.nDst <= object.nSrc}

FirstDst(c) == IF c.bulk /\ ~object.named THEN "m_ChunkBuf0" ELSE "m_Pixel"
StartCall(c) ==
  IF c.n = 0 THEN Return("Ok") /\ UNCHANGED <<base, j, pSrc, pDst, name>>
  ELSE /\ mode' = "apply" /\ base' = 0 /\ j' = 0
       /\ pSrc' = TheClients
       /\ pDst' = FirstDst(c)
       /\ name' = Junk
       /\ UNCHANGED rv

NoXforms ==
  /\ mode = "idle" /\ Length = 0
  /\ call' \in Calls /\ out' = {}
  /\ Return("BadXform")
  /\ UNCHANGED <<object, own, mem, base, j, pSrc, pDst, name, short>>

Call ==
  /\ mode = "idle" /\ Length > 0
  /\ call' \in Calls /\ out' = {}
  /\ own' = IF NeedsInit THEN AllBuffers ELSE own
  /\ StartCall(call')
  /\ UNCHANGED <<object, mem, short>>

InitPixelFails ==
  /\ mode = "idle" /\ Length > 0
  /\ NeedsInit
  /\ call' \in Calls /\ out' = {}
  /\ own' \in SomeBuffers
  /\ Return("AllocErr") /\ short' = TRUE
  /\ UNCHANGED <<object, mem, base, j, pSrc, pDst, name>>
-----------------------------------------------------------------------------
(* One transform on one chunk *)

Smaller(a, b) == IF a < b THEN a ELSE b
\* Fault: the last chunk is as long as the others.
FullChunk ==
  IF ~Chunked THEN 1 ELSE IF Length = 1 THEN call.n ELSE ChunkPixels
\* A chain of one transform gets all pixels at once (ApplyN).
Count ==
  IF ~Chunked THEN 1
  ELSE IF Length = 1 THEN call.n
  ELSE Smaller(call.n - base, ChunkPixels)

Last == j + 1 = Length
Xform == object.chain[j + 1]

\* Where the k'th pixel of the chunk begins in a buffer of the client's.
Start(width) == IF Chunked THEN (base * width) % IndexLimit ELSE base * width
SrcAt(k) == Start(object.nSrc) + k * object.nSrc
DstAt(k) == Start(object.nDst) + k * object.nDst
Overlap(d, s) == d < s + object.nSrc /\ s < d + object.nDst

\* Samples of the client's written before the k'th pixel is read.
Written(k) ==
  {w[1] : w \in out} \cup (IF Last THEN {DstAt(m) : m \in 0..(k - 1)} ELSE {})

\* What the transform reads.
In(k) ==
  IF Takes(Xform) = "name" /\ j > 0 THEN name
  ELSE IF pSrc # TheClients THEN mem[pSrc][k]
  ELSE IF call.inPlace /\ \E d \in Written(k) : Overlap(d, SrcAt(k)) THEN Junk
  ELSE [at |-> SrcAt(k), stage |-> 0]

\* It writes over what it has yet to read.
Spoilt(k) ==
  IF Last
  THEN /\ pSrc = TheClients /\ call.inPlace
       /\ Overlap(DstAt(k), SrcAt(k))
       /\ \/ Xform = "direct"
          \/ Xform = "buffers" /\ DstAt(k) # SrcAt(k)
  ELSE pSrc = pDst /\ Xform = "direct"

Result(k) == IF Spoilt(k) THEN Junk ELSE Image(In(k))

\* The own buffers the transform works on.
Used ==
  ((IF Takes(Xform) = "pixels" THEN {pSrc} ELSE {})
     \cup (IF Gives(Xform) = "pixels" /\ ~Last THEN {pDst} ELSE {})) \ {TheClients}

\* Fault: the destination does not change.
SameDst == pDst
\* The other buffer of the pair; the bulk Apply of a named colour CMM has one.
NextDst ==
  IF object.named /\ call.bulk THEN pDst
  ELSE IF pSrc # TheClients THEN pSrc
  ELSE IF Chunked THEN "m_ChunkBuf1" ELSE "m_Pixel2"

ToNext ==
  /\ j' = j + 1 /\ pSrc' = pDst /\ pDst' = NextDst
  /\ UNCHANGED <<mode, object, own, call, base, out, rv, short>>

ApplyMiddle ==
  /\ mode = "apply" /\ ~Last /\ Used \subseteq own
  /\ IF Gives(Xform) = "name"
     THEN name' = Result(0) /\ UNCHANGED mem
     ELSE /\ mem' = [mem EXCEPT ![pDst] =
                       [k \in DOMAIN @ |-> IF k < Count THEN Result(k) ELSE @[k]]]
          /\ UNCHANGED name
  /\ ToNext

\* No such colour, or no such name.  From names to pixels the result of a
\* look-up for a name is not asked for.
NotFound ==
  /\ mode = "apply" /\ Used \subseteq own
  /\ Xform \in {"toName", "fromName"}
  /\ IF ~Last /\ Xform = "toName" /\ FromName /\ ~ToName
     THEN ToNext /\ UNCHANGED <<mem, name>>
     ELSE /\ Return("ColorNotFound")
          /\ UNCHANGED <<object, own, mem, call, base, j, pSrc, pDst, name, out, short>>

ApplyLast ==
  /\ mode = "apply" /\ Last /\ Used \subseteq own
  /\ out' = out \cup {<<DstAt(k), Result(k)>> : k \in 0..(Count - 1)}
  /\ base' = base + Count
  /\ IF base' < call.n
     THEN /\ j' = 0 /\ pSrc' = TheClients /\ pDst' = FirstDst(call)
          /\ UNCHANGED <<mode, rv>>
     ELSE Return("Ok") /\ UNCHANGED <<j, pSrc, pDst>>
  /\ UNCHANGED <<object, own, mem, call, name, short>>

\* A buffer that was never allocated is read or written.
UseOfNull ==
  /\ mode = "apply" /\ ~(Used \subseteq own)
  /\ mode' = "crashed"
  /\ UNCHANGED <<object, own, mem, call, base, j, pSrc, pDst, name, out, rv, short>>
-----------------------------------------------------------------------------
Next ==
  \/ GetNewApplyCmm \/ Destroy
  \/ NoXforms \/ Call \/ InitPixelFails
  \/ ApplyMiddle \/ NotFound \/ ApplyLast \/ UseOfNull

Spec == Init /\ [][Next]_vars
=============================================================================
