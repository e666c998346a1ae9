------------------------------ MODULE PixelProofs ------------------------------
(***************************************************************************)
(* What every pixel goes through: CmmApply for all chains of transforms,   *)
(* pixel widths and chunk sizes, and CalcStack for all programs and        *)
(* limits.                                                                 *)
(*                                                                         *)
(* What a transform reads of a pixel is what those before it have made of  *)
(* the source pixel at the same index: the first reads the client's memory *)
(* where nothing is written yet, each other one the buffer that was just   *)
(* written, which is not the one it writes to.                             *)
(*                                                                         *)
(* Begin's judgements of a program are walks along it that follow every    *)
(* branch.  Whichever branches a pixel takes, each walk has come to where  *)
(* the sequences under way are, the low one with no more on the stack than *)
(* there is, the high one with no less; and the pass for the temporaries   *)
(* with none counted as written that is not.                               *)
(***************************************************************************)
EXTENDS CmmApplyInv, CalcStackInv, WellFoundedInduction, TLAPS

-----------------------------------------------------------------------------
(* Offsets in the client's memory *)

LEMMA Scaled ==
  ASSUME NEW a \in Nat, NEW b \in Nat, NEW w \in Nat, a <= b
  PROVE  a * w <= b * w
<1>1. PICK d \in Nat : b = a + d
  BY SMT
<1>2. b * w = a * w + d * w
  BY <1>1, SMT
<1>3. d * w \in Nat /\ a * w \in Nat
  BY SMT
<1> QED
  BY <1>2, <1>3, SMT

\* Destination pixels end before the source pixels of higher indices begin,
\* if they are not wider.
LEMMA EndsBefore ==
  ASSUME NEW p \in Nat, NEW q \in Nat, NEW d \in Nat, NEW s \in Nat,
         p < q, d <= s
  PROVE  p * d + d <= q * s
<1>1. (p + 1) * d = p * d + d
  BY SMT
<1>2. (p + 1) * d <= q * d
  BY Scaled, p + 1 \in Nat, p + 1 <= q
<1>3. q * d <= q * s
  <2>1. d * q <= s * q
    BY Scaled
  <2> QED
    BY <2>1, SMT
<1>4. p * d \in Nat /\ q * d \in Nat /\ q * s \in Nat /\ (p + 1) * d \in Nat
  BY SMT
<1> QED
  BY <1>1, <1>2, <1>3, <1>4, SMT

LEMMA Modulus ==
  ASSUME NEW a \in Nat, NEW n \in Nat \ {0}
  PROVE  /\ a % n \in Nat /\ a % n <= a
         /\ a < n => a % n = a
BY SMT

LEMMA ObjectParts ==
  ASSUME NEW o \in Objects
  PROVE  /\ o.nSrc \in Nat \ {0} /\ o.nDst \in Nat \ {0}
         /\ o.chain \in Chains /\ o.named \in BOOLEAN
         /\ o.chain \in Seq(Kinds) /\ Len(o.chain) \in Nat
         /\ \A k \in 1..Len(o.chain) : o.chain[k] \in Kinds
         /\ ~o.named => \A k \in 1..Len(o.chain) : o.chain[k] \in PixelKinds
         /\ \A k \in 1..(Len(o.chain) - 1) :
              Gives(o.chain[k]) = Takes(o.chain[k + 1])
<1>1. /\ o.nSrc \in Widths /\ o.nDst \in Widths
      /\ o.chain \in Chains /\ o.named \in BOOLEAN
      /\ o.named \/ \A k \in DOMAIN o.chain : o.chain[k] \in PixelKinds
  BY DEF Objects
<1>2. o.chain \in Seq(Kinds)
  BY <1>1, ChainAssumption
<1>3. /\ Len(o.chain) \in Nat /\ DOMAIN o.chain = 1..Len(o.chain)
      /\ \A k \in 1..Len(o.chain) : o.chain[k] \in Kinds
  BY <1>2
<1>4. o.nSrc \in Nat \ {0} /\ o.nDst \in Nat \ {0}
  BY <1>1, SizeAssumption
<1> QED
  BY <1>1, <1>2, <1>3, <1>4, ChainAssumption

-----------------------------------------------------------------------------
(* The chunk that is being worked on *)

LEMMA InCall ==
  ASSUME TypeOK, mode = "apply"
  PROVE  /\ base \in Nat /\ j \in Nat /\ call.n \in Nat /\ base < call.n
         /\ Length \in Nat /\ j < Length /\ Length > 0
         /\ call.bulk \in BOOLEAN /\ call.inPlace \in BOOLEAN
         /\ ~call.bulk => call.n = 1
         /\ FromName \/ ToName => ~call.bulk /\ ~call.inPlace
         /\ call.inPlace => object.nDst <= object.nSrc
         /\ object \in Objects /\ ChunkPixels \in Nat \ {0}
         /\ IndexLimit \in Nat \ {0}
<1>1. call \in Calls /\ base < call.n /\ j < Length /\ base \in Nat /\ j \in Nat
      /\ object \in Objects
  BY DEF TypeOK
<1>2. Length \in Nat
  BY <1>1, ObjectParts DEF Length
<1>3. /\ call.n \in Nat /\ call.bulk \in BOOLEAN /\ call.inPlace \in BOOLEAN
      /\ ~call.bulk => call.n = 1
      /\ FromName \/ ToName => ~call.bulk /\ ~call.inPlace
      /\ call.inPlace => object.nDst <= object.nSrc
  BY <1>1, SizeAssumption DEF Calls
<1> QED
  BY <1>1, <1>2, <1>3, SizeAssumption

\* Its length: within the call, full unless it is the last, within the buffers
\* unless the client's memory is all that is used.
LEMMA CountFits ==
  TypeOK /\ FlowInv /\ mode = "apply" =>
    /\ Count \in Nat \ {0}
    /\ base + Count <= call.n
    /\ ~Chunked => Count = 1
    /\ Chunked /\ Length = 1 => base = 0 /\ Count = call.n
    /\ Chunked /\ Length > 1 =>
         Count <= ChunkPixels /\ (base + Count < call.n => Count = ChunkPixels)
    /\ Length > 1 => Count <= ChunkPixels
<1> SUFFICES ASSUME TypeOK, FlowInv, mode = "apply"
             PROVE  /\ Count \in Nat \ {0}
                    /\ base + Count <= call.n
                    /\ ~Chunked => Count = 1
                    /\ Chunked /\ Length = 1 => base = 0 /\ Count = call.n
                    /\ Chunked /\ Length > 1 =>
                         /\ Count <= ChunkPixels
                         /\ base + Count < call.n => Count = ChunkPixels
                    /\ Length > 1 => Count <= ChunkPixels
  OBVIOUS
<1>1. /\ base \in Nat /\ call.n \in Nat /\ base < call.n /\ Length \in Nat
      /\ Length > 0 /\ ChunkPixels \in Nat \ {0}
  BY InCall
<1>2. CASE ~Chunked
  <2>1. Count = 1
    BY <1>2 DEF Count
  <2> QED
    BY <1>1, <1>2, <2>1
<1>3. CASE Chunked /\ Length = 1
  <2>1. Count = call.n /\ base = 0
    BY <1>3 DEF Count, FlowInv
  <2> QED
    BY <1>1, <1>3, <2>1
<1>4. CASE Chunked /\ Length # 1
  <2>1. Count = Smaller(call.n - base, ChunkPixels)
    BY <1>4 DEF Count
  <2>2. /\ Count = IF call.n - base < ChunkPixels THEN call.n - base ELSE ChunkPixels
    BY <2>1 DEF Smaller
  <2> QED
    BY <1>1, <1>4, <2>2
<1> QED
  BY <1>2, <1>3, <1>4

\* Its offset in the client's memory, which for calls below the limit of the
\* product is where its pixels lie.
LEMMA StartWithin ==
  ASSUME TypeOK, FlowInv, mode = "apply", NEW w \in Nat
  PROVE  /\ Start(w) \in Nat /\ Start(w) <= base * w
         /\ w \in {object.nSrc, object.nDst} /\ FitsIndex => Start(w) = base * w
<1>1. /\ base \in Nat /\ base < call.n /\ call.n \in Nat /\ Length \in Nat
      /\ Length > 0 /\ IndexLimit \in Nat \ {0} /\ ChunkPixels \in Nat \ {0}
  BY InCall
<1>2. base * w \in Nat
  BY <1>1, SMT
<1>3. CASE ~Chunked
  BY <1>2, <1>3 DEF Start
<1>4. CASE Chunked
  <2>1. Start(w) = (base * w) % IndexLimit
    BY <1>4 DEF Start
  <2>2. Start(w) \in Nat /\ Start(w) <= base * w
    BY <1>1, <1>2, <2>1, Modulus
  <2>3. ASSUME w \in {object.nSrc, object.nDst}, FitsIndex
        PROVE  Start(w) = base * w
    <3>1. CASE Length = 1
      <4>1. base * w = 0
        BY <1>4, <3>1 DEF FlowInv
      <4> QED
        BY <1>1, <2>1, <4>1, Modulus
    <3>2. CASE Length # 1
      <4>1. PICK m \in 0..base : base = m * ChunkPixels
        BY <1>4, <3>2 DEF FlowInv
      <4>2. m \in 0..(call.n - 1) /\ m * ChunkPixels < call.n /\ Length > 1
        BY <1>1, <3>2, <4>1
      <4>3. base * w < IndexLimit
        BY <1>4, <2>3, <4>1, <4>2 DEF FitsIndex
      <4> QED
        BY <1>1, <1>2, <2>1, <4>3, Modulus
    <3> QED
      BY <3>1, <3>2
  <2> QED
    BY <2>2, <2>3
<1> QED
  BY <1>3, <1>4

LEMMA Offsets ==
  ASSUME TypeOK, FlowInv, mode = "apply", NEW k \in 0..(Count - 1)
  PROVE  /\ SrcAt(k) \in Nat /\ DstAt(k) \in Nat
         /\ DstAt(k) + object.nDst <= (base + Count) * object.nDst
         /\ FitsIndex => /\ SrcAt(k) = (base + k) * object.nSrc
                         /\ DstAt(k) = (base + k) * object.nDst
<1> DEFINE s == object.nSrc
           d == object.nDst
<1>1. /\ base \in Nat /\ Count \in Nat \ {0} /\ k \in Nat /\ k < Count
      /\ s \in Nat \ {0} /\ d \in Nat \ {0}
  BY InCall, CountFits, ObjectParts
<1>2. /\ Start(s) \in Nat /\ Start(d) \in Nat /\ Start(d) <= base * d
      /\ FitsIndex => Start(s) = base * s /\ Start(d) = base * d
  BY <1>1, StartWithin
<1>3. /\ SrcAt(k) = Start(s) + k * s /\ DstAt(k) = Start(d) + k * d
  BY DEF SrcAt, DstAt
<1> HIDE DEF s, d
<1>4. /\ (base + k) * s = base * s + k * s /\ (base + k) * d = base * d + k * d
      /\ k * s \in Nat /\ k * d \in Nat /\ base * d \in Nat
      /\ (base + k) * d \in Nat /\ (base + Count) * d \in Nat
  BY <1>1, SMT
<1>5. (base + k) * d + d <= (base + Count) * d
  BY <1>1, EndsBefore, base + k \in Nat, base + Count \in Nat, base + k < base + Count
<1>6. DstAt(k) + d <= (base + Count) * d
  BY <1>1, <1>2, <1>3, <1>4, <1>5, SMT
<1> QED
  BY <1>2, <1>3, <1>4, <1>6 DEF s, d

-----------------------------------------------------------------------------
(* What a transform reads and makes *)

LEMMA ReadsContents ==
  ASSUME TypeOK, FlowInv, mode = "apply", NEW k \in 0..(Count - 1)
  PROVE  In(k) \in Contents
<1>1. SrcAt(k) \in Nat
  BY Offsets
<1>2. [at |-> SrcAt(k), stage |-> 0] \in Contents
  BY <1>1 DEF Contents
<1>3. Junk \in Contents /\ name \in Contents
  BY DEF Contents, TypeOK
<1>4. ASSUME pSrc # TheClients
      PROVE  mem[pSrc][k] \in Contents
  <2>1. pSrc \in Buffers /\ j # 0 /\ Length > 1
    BY <1>4, InCall DEF TypeOK, FlowInv
  <2>2. k \in 0..(ChunkPixels - 1)
    BY <2>1, CountFits, InCall
  <2> QED
    BY <2>1, <2>2 DEF TypeOK
<1> QED
  BY <1>2, <1>3, <1>4 DEF In

LEMMA ImageTyped ==
  ASSUME NEW c \in Contents
  PROVE  /\ Image(c) \in Contents
         /\ c.at # -1 => Image(c) = [at |-> c.at, stage |-> c.stage + 1]
<1>1. CASE c = Junk
  BY <1>1 DEF Image, Contents, Junk
<1>2. CASE c # Junk
  <2>1. c \in [at : Nat, stage : Nat]
    BY <1>2 DEF Contents
  <2>2. Image(c) = [c EXCEPT !.stage = c.stage + 1]
    BY <1>2 DEF Image
  <2>3. Image(c) = [at |-> c.at, stage |-> c.stage + 1]
    BY <2>1, <2>2
  <2>4. c.at \in Nat /\ c.stage + 1 \in Nat
    BY <2>1
  <2> QED
    BY <2>3, <2>4 DEF Contents
<1> QED
  BY <1>1, <1>2

LEMMA MakesContents ==
  ASSUME TypeOK, FlowInv, mode = "apply", NEW k \in 0..(Count - 1)
  PROVE  Result(k) \in Contents
BY ReadsContents, ImageTyped DEF Result, Contents

\* Nothing of the source is overwritten before it is read.
LEMMA FirstReads ==
  TypeOK /\ FlowInv /\ Sound /\ mode = "apply" /\ j = 0 /\ out = ImagesOf(base) =>
    \A k \in 0..(Count - 1) : In(k) = [at |-> (base + k) * object.nSrc, stage |-> j]
<1> SUFFICES ASSUME TypeOK, FlowInv, Sound, mode = "apply", j = 0,
                    out = ImagesOf(base), NEW k \in 0..(Count - 1)
             PROVE  In(k) = [at |-> (base + k) * object.nSrc, stage |-> j]
  OBVIOUS
<1> DEFINE s == object.nSrc
           d == object.nDst
<1>1. /\ base \in Nat /\ Count \in Nat \ {0} /\ k \in Nat /\ k < Count
      /\ s \in Nat \ {0} /\ d \in Nat \ {0}
      /\ call.inPlace => d <= s
  BY InCall, CountFits, ObjectParts
<1>2. \A i \in 0..(Count - 1) : SrcAt(i) = (base + i) * s /\ DstAt(i) = (base + i) * d
  BY Offsets DEF Sound
<1>3. pSrc = TheClients
  BY DEF FlowInv
<1>4. ASSUME call.inPlace, NEW a \in Written(k)
      PROVE  ~Overlap(a, SrcAt(k))
  <2>1. \E p \in Nat : p < base + k /\ a = p * d
    <3>1. CASE a \in {w[1] : w \in out}
      <4>1. PICK p \in 0..(base - 1) : a = p * d
        BY <3>1 DEF ImagesOf
      <4> QED
        BY <1>1, <4>1
    <3>2. CASE a \notin {w[1] : w \in out}
      <4>1. PICK m \in 0..(k - 1) : a = DstAt(m)
        BY <3>2, <1>4 DEF Written
      <4>2. m \in 0..(Count - 1) /\ base + m \in Nat /\ base + m < base + k
        BY <1>1
      <4> QED
        BY <1>2, <4>1, <4>2
    <3> QED
      BY <3>1, <3>2
  <2>2. PICK p \in Nat : p < base + k /\ a = p * d
    BY <2>1
  <2>3. p * d + d <= (base + k) * s
    BY <1>1, <1>4, <2>2, EndsBefore
  <2>4. SrcAt(k) = (base + k) * s
    BY <1>2
  <2>5. p * d \in Nat /\ (base + k) * s \in Nat
    BY <1>1, SMT
  <2> HIDE DEF d, s
  <2>6. ~(SrcAt(k) < a + d)
    BY <1>1, <2>2, <2>3, <2>4, <2>5
  <2> QED
    BY <2>6 DEF Overlap, d
<1>5. In(k) = [at |-> SrcAt(k), stage |-> 0]
  BY <1>3, <1>4 DEF In
<1> QED
  BY <1>2, <1>5

\* No transform spoils what it reads.
LEMMA NotSpoilt ==
  ASSUME TypeOK, FlowInv, Sound, mode = "apply", NEW k \in 0..(Count - 1)
  PROVE  ~Spoilt(k)
<1>1. /\ base \in Nat /\ j \in Nat /\ Length \in Nat /\ j < Length
      /\ call.n \in Nat /\ base < call.n
      /\ Count \in Nat \ {0} /\ base + Count <= call.n
      /\ object.nSrc \in Nat \ {0} /\ object.nDst \in Nat \ {0}
  BY InCall, CountFits, ObjectParts
<1>2. CASE ~Last
  <2>1. ASSUME pSrc = pDst
        PROVE  Xform # "direct"
    <3>1. object.named /\ call.bulk
      BY <2>1 DEF FlowInv
    <3>2. j # 0
      BY <2>1 DEF FlowInv, FirstDst, TheClients
    <3>3. j + 1 \in 2..(Length - 1)
      BY <1>1, <1>2, <3>2 DEF Last
    <3> QED
      BY <3>1, <3>3 DEF Sound, InnerSafe, Xform
  <2> QED
    BY <1>2, <2>1 DEF Spoilt
<1>3. CASE Last
  <2> SUFFICES ASSUME pSrc = TheClients, call.inPlace
               PROVE  /\ Xform # "direct"
                      /\ Xform = "buffers" => DstAt(k) = SrcAt(k)
    BY <1>3 DEF Spoilt
  <2>1. j = 0 /\ Length = 1
    BY <1>1, <1>3 DEF FlowInv, Last
  <2>2. \/ Xform = "copies"
        \/ Xform = "buffers" /\ (call.n = 1 \/ object.nSrc = object.nDst)
    BY <2>1 DEF Sound, InPlaceSafe, Xform
  <2>3. SrcAt(k) = (base + k) * object.nSrc /\ DstAt(k) = (base + k) * object.nDst
    BY Offsets DEF Sound
  <2>4. CASE object.nSrc = object.nDst
    BY <2>2, <2>3, <2>4
  <2>5. CASE call.n = 1
    <3>1. base + k = 0
      BY <1>1, <2>5
    <3>2. SrcAt(k) = 0 /\ DstAt(k) = 0
      BY <1>1, <2>3, <3>1
    <3> QED
      BY <2>2, <3>2
  <2> QED
    BY <2>2, <2>4, <2>5
<1> QED
  BY <1>2, <1>3

LEMMA MakesImages ==
  ASSUME TypeOK, FlowInv, DataInv, Sound, mode = "apply", NEW k \in 0..(Count - 1)
  PROVE  Result(k) = [at |-> (base + k) * object.nSrc, stage |-> j + 1]
<1>1. In(k) = [at |-> (base + k) * object.nSrc, stage |-> j]
  BY DEF DataInv
<1>2. /\ base + k \in Nat /\ object.nSrc \in Nat
  BY InCall, CountFits, ObjectParts
<1>3. (base + k) * object.nSrc \in Nat
  BY <1>2, SMT
<1>4. In(k).at # -1
  BY <1>1, <1>3
<1>5. Result(k) = Image(In(k))
  BY NotSpoilt DEF Result
<1> QED
  BY <1>1, <1>4, <1>5, ReadsContents, ImageTyped

-----------------------------------------------------------------------------
(* Between calls *)

LEMMA ObjectStays ==
  ASSUME object' = object
  PROVE  /\ Length' = Length /\ FromName' = FromName /\ ToName' = ToName
         /\ Calls' = Calls
<1>1. Length' = Length
  BY DEF Length
<1>2. FromName' = FromName /\ ToName' = ToName
  BY <1>1 DEF FromName, ToName
<1> QED
  BY <1>1, <1>2 DEF Calls

LEMMA NoImages ==
  ASSUME NEW n \in Int, n <= 0
  PROVE  ImagesOf(n) = {}
BY DEF ImagesOf

LEMMA NothingHeld ==
  Empty \in [Buffers -> [0..(ChunkPixels - 1) -> Contents]] /\ Junk \in Contents
BY DEF Empty, Contents

LEMMA NotOf ==
  /\ TheClients \notin Buffers /\ "m_Pixel" \in Buffers /\ "m_ChunkBuf0" \in Buffers
  /\ "m_ChunkBuf1" \in Buffers /\ "m_Pixel2" \in Buffers
BY DEF TheClients, Buffers, PixelBuffers, ChunkBuffers

\* A call that returns before it has written anything.
LEMMA NothingWritten ==
  ASSUME out' = {}, mode' = "idle",
         rv' = "Ok" /\ Sound' => call'.n = 0
  PROVE  QuietInv' /\ FlowInv' /\ ExtentInv' /\ DataInv' /\ OkMeansImages'
<1>1. rv' = "Ok" /\ Sound' => ImagesOf(call.n)' = {}
  BY NoImages DEF ImagesOf
<1> QED
  BY <1>1 DEF QuietInv, FlowInv, ExtentInv, DataInv, OkMeansImages

LEMMA InitHolds == Init => ApplyInv
<1> SUFFICES ASSUME Init
             PROVE  ApplyInv
  OBVIOUS
<1>1. TypeOK
  BY NothingHeld, NotOf DEF Init, TypeOK
<1>2. QuietInv /\ BufferInv /\ FlowInv /\ ExtentInv /\ DataInv
  BY DEF Init, QuietInv, BufferInv, FlowInv, ExtentInv, DataInv
<1>3. OkMeansImages
  BY DEF Init, OkMeansImages
<1> QED
  BY <1>1, <1>2, <1>3 DEF ApplyInv

LEMMA GetNewApplyCmmKeeps == ApplyInv /\ GetNewApplyCmm => ApplyInv'
<1> SUFFICES ASSUME ApplyInv, GetNewApplyCmm
             PROVE  ApplyInv'
  OBVIOUS
<1>1. out' = {} /\ call' = NoCall /\ mode' = "idle" /\ object' = object
  BY DEF ApplyInv, QuietInv, GetNewApplyCmm
<1>2. TypeOK'
  BY <1>1, ObjectStays DEF ApplyInv, TypeOK, GetNewApplyCmm
<1>3. BufferInv'
  BY DEF ApplyInv, QuietInv, BufferInv, GetNewApplyCmm
<1>4. call'.n = 0
  BY <1>1 DEF NoCall
<1> QED
  BY <1>1, <1>2, <1>3, <1>4, NothingWritten DEF ApplyInv

LEMMA DestroyKeeps == ApplyInv /\ Destroy => ApplyInv'
<1> SUFFICES ASSUME ApplyInv, Destroy
             PROVE  ApplyInv'
  OBVIOUS
<1>1. TypeOK'
  BY NothingHeld, NotOf DEF ApplyInv, TypeOK, Destroy
<1>2. QuietInv' /\ BufferInv' /\ FlowInv' /\ ExtentInv' /\ DataInv'
  BY DEF Destroy, QuietInv, BufferInv, FlowInv, ExtentInv, DataInv
<1>3. OkMeansImages'
  BY DEF Destroy, OkMeansImages
<1> QED
  BY <1>1, <1>2, <1>3 DEF ApplyInv

LEMMA NoXformsKeeps == ApplyInv /\ NoXforms => ApplyInv'
<1> SUFFICES ASSUME ApplyInv, NoXforms
             PROVE  ApplyInv'
  OBVIOUS
<1>1. /\ out' = {} /\ mode' = "idle" /\ rv' = "BadXform" /\ call' \in Calls
      /\ object' = object
  BY DEF NoXforms, Return
<1>2. TypeOK'
  BY <1>1, ObjectStays DEF ApplyInv, TypeOK, NoXforms
<1>3. BufferInv'
  BY DEF ApplyInv, BufferInv, NoXforms, Return
<1> QED
  BY <1>1, <1>2, <1>3, NothingWritten DEF ApplyInv

LEMMA InitPixelFailsKeeps == ApplyInv /\ InitPixelFails => ApplyInv'
<1> SUFFICES ASSUME ApplyInv, InitPixelFails
             PROVE  ApplyInv'
  OBVIOUS
<1>1. /\ out' = {} /\ mode' = "idle" /\ rv' = "AllocErr" /\ call' \in Calls
      /\ object' = object /\ own' \subseteq Buffers
  BY DEF InitPixelFails, Return, SomeBuffers
<1>2. TypeOK'
  BY <1>1, ObjectStays DEF ApplyInv, TypeOK, InitPixelFails
<1>3. BufferInv'
  BY DEF BufferInv, InitPixelFails
<1> QED
  BY <1>1, <1>2, <1>3, NothingWritten DEF ApplyInv

LEMMA CallKeeps == ApplyInv /\ Call => ApplyInv'
<1> SUFFICES ASSUME ApplyInv, Call
             PROVE  ApplyInv'
  OBVIOUS
<1>1. /\ out' = {} /\ call' \in Calls /\ object' = object /\ mode = "idle"
      /\ Calls' = Calls /\ Length' = Length /\ Length \in Nat /\ Length > 0
      /\ own' = (IF NeedsInit THEN AllBuffers ELSE own)
      /\ object \in Objects /\ mem' = mem /\ short' = short
  BY ObjectStays, ObjectParts DEF Call, Length, ApplyInv, TypeOK
<1>2. own' \subseteq Buffers /\ BufferInv'
  <2>1. ~short => own' = Buffers
    BY <1>1, NotOf DEF ApplyInv, BufferInv, NeedsInit, AllBuffers
  <2>2. own' \subseteq Buffers
    BY <1>1 DEF ApplyInv, TypeOK, AllBuffers
  <2>3. mode' \in {"idle", "apply"}
    BY DEF Call, StartCall, Return
  <2> QED
    BY <1>1, <2>1, <2>2, <2>3 DEF BufferInv
<1>3. CASE call'.n = 0
  <2>1. /\ mode' = "idle" /\ rv' = "Ok"
        /\ UNCHANGED <<base, j, pSrc, pDst, name>>
    BY <1>3 DEF Call, StartCall, Return
  <2>2. TypeOK'
    BY <1>1, <1>2, <2>1 DEF ApplyInv, TypeOK
  <2> QED
    BY <1>1, <1>2, <1>3, <2>1, <2>2, NothingWritten DEF ApplyInv
<1>4. CASE call'.n # 0
  <2>1. /\ mode' = "apply" /\ base' = 0 /\ j' = 0 /\ pSrc' = TheClients
        /\ pDst' = FirstDst(call') /\ name' = Junk /\ rv' = rv
    BY <1>4 DEF Call, StartCall
  <2>2. pDst' \in Buffers /\ pDst' # TheClients
    BY <2>1, NotOf DEF FirstDst
  <2>3. call'.n \in Nat \ {0}
    BY <1>1, <1>4, SizeAssumption DEF Calls
  <2>4. TypeOK'
    BY <1>1, <1>2, <2>1, <2>2, <2>3, NothingHeld DEF ApplyInv, TypeOK
  <2>5. FlowInv'
    <3>1. pDst' = FirstDst(call)'
      BY <1>1, <2>1 DEF FirstDst
    <3>2. 0 \in (0..base)' /\ base' = 0 * ChunkPixels
      BY <2>1, SizeAssumption
    <3> QED
      BY <2>1, <2>2, <3>1, <3>2 DEF FlowInv
  <2>6. ImagesOf(base)' = {}
    BY <2>1, NoImages DEF ImagesOf
  <2>7. DataInv'
    <3>1. (TypeOK /\ FlowInv /\ Sound /\ mode = "apply" /\ j = 0
             /\ out = ImagesOf(base) =>
           \A k \in 0..(Count - 1) :
             In(k) = [at |-> (base + k) * object.nSrc, stage |-> j])'
      BY FirstReads, PTL
    <3>2. (out = ImagesOf(base))'
      BY <1>1, <2>6
    <3> QED
      BY <2>1, <2>4, <2>5, <3>1, <3>2 DEF DataInv
  <2>8. QuietInv' /\ ExtentInv' /\ OkMeansImages'
    BY <1>1, <2>1 DEF QuietInv, ExtentInv, OkMeansImages
  <2> QED
    BY <1>2, <2>4, <2>5, <2>7, <2>8 DEF ApplyInv
<1> QED
  BY <1>3, <1>4

-----------------------------------------------------------------------------
(* Within a call *)

\* The chunk and what is done are parts of the call.
LEMMA DoneGrows ==
  ASSUME NEW a \in Nat, NEW b \in Nat, a <= b
  PROVE  /\ ImagesOf(a) \subseteq ImagesOf(b)
         /\ object \in Objects => a * object.nDst <= b * object.nDst
<1>1. ImagesOf(a) \subseteq ImagesOf(b)
  BY DEF ImagesOf
<1>2. object \in Objects => a * object.nDst <= b * object.nDst
  BY Scaled, ObjectParts
<1> QED
  BY <1>1, <1>2

\* A call that ends before its time has written what it had.
LEMMA EndsEarly ==
  ASSUME ApplyInv, mode = "apply", mode' \in {"idle", "crashed"},
         mode' = "idle" => rv' # "Ok",
         UNCHANGED <<object, call, out>>
  PROVE  QuietInv' /\ FlowInv' /\ ExtentInv' /\ DataInv' /\ OkMeansImages'
<1>1. /\ base \in Nat /\ call.n \in Nat /\ base <= call.n /\ object \in Objects
      /\ object.nDst \in Nat
  BY InCall, ObjectParts DEF ApplyInv
<1>2. /\ ImagesOf(base) \subseteq ImagesOf(call.n)
      /\ base * object.nDst <= call.n * object.nDst
  BY <1>1, DoneGrows
<1>3. base * object.nDst \in Nat /\ call.n * object.nDst \in Nat
  BY <1>1, SMT
<1>4. ExtentInv'
  <2>1. \A w \in out : w[1] \in Nat
    BY DEF ApplyInv, TypeOK
  <2>2. \A w \in out : w[1] + object.nDst <= base * object.nDst
    BY DEF ApplyInv, ExtentInv
  <2>3. \A w \in out : w[1] + object.nDst <= call.n * object.nDst
    BY <1>1, <1>2, <1>3, <2>1, <2>2
  <2> QED
    BY <2>1, <2>3 DEF ExtentInv
<1>5. OkMeansImages'
  <2>1. Sound' = Sound /\ ImagesOf(call.n)' = ImagesOf(call.n)
    BY DEF Sound, FitsIndex, InPlaceSafe, InnerSafe, LookupsSeen, Chunked,
           Length, FromName, ToName, ImagesOf
  <2>2. Sound => out \subseteq ImagesOf(call.n)
    BY <1>2 DEF ApplyInv, DataInv
  <2> QED
    BY <2>1, <2>2 DEF OkMeansImages
<1>6. QuietInv' /\ FlowInv' /\ DataInv'
  BY DEF QuietInv, FlowInv, DataInv
<1> QED
  BY <1>4, <1>5, <1>6

LEMMA UseOfNullKeeps == ApplyInv /\ UseOfNull => ApplyInv'
<1> SUFFICES ASSUME ApplyInv, UseOfNull
             PROVE  ApplyInv'
  OBVIOUS
<1>1. TypeOK'
  BY ObjectStays DEF ApplyInv, TypeOK, UseOfNull
<1>2. Used \subseteq Buffers
  BY DEF ApplyInv, TypeOK, Used
<1>3. short
  BY <1>2 DEF ApplyInv, BufferInv, UseOfNull
<1>4. BufferInv'
  BY <1>3 DEF BufferInv, UseOfNull
<1>5. QuietInv' /\ FlowInv' /\ ExtentInv' /\ DataInv' /\ OkMeansImages'
  BY EndsEarly DEF UseOfNull
<1> QED
  BY <1>1, <1>4, <1>5 DEF ApplyInv

\* A transform that hands its result to the next one.
LEMMA ToNextKeeps ==
  ASSUME ApplyInv, mode = "apply", ~Last, ToNext,
         mem' \in [Buffers -> [0..(ChunkPixels - 1) -> Contents]],
         name' \in Contents
  PROVE  /\ TypeOK' /\ QuietInv' /\ BufferInv' /\ FlowInv' /\ ExtentInv'
         /\ OkMeansImages'
<1>1. /\ j \in Nat /\ Length \in Nat /\ j + 1 < Length /\ j' = j + 1
      /\ pSrc' = pDst /\ pDst' = NextDst /\ pDst \in Buffers
      /\ UNCHANGED <<mode, object, own, call, base, out, rv, short>>
      /\ Length' = Length /\ Calls' = Calls
  <2>1. /\ j \in Nat /\ Length \in Nat /\ j < Length /\ pDst \in Buffers
    BY InCall DEF ApplyInv, TypeOK
  <2>2. /\ j' = j + 1 /\ pSrc' = pDst /\ pDst' = NextDst
        /\ UNCHANGED <<mode, object, own, call, base, out, rv, short>>
    BY DEF ToNext
  <2> QED
    BY <2>1, <2>2, ObjectStays DEF Last
<1>2. pDst' \in Buffers
  BY <1>1, NotOf DEF NextDst, ApplyInv, TypeOK
<1>3. pDst' = pDst => object.named /\ call.bulk
  <2>1. CASE object.named /\ call.bulk
    BY <2>1
  <2>2. CASE ~(object.named /\ call.bulk) /\ pSrc # TheClients
    BY <1>1, <2>2 DEF NextDst, ApplyInv, FlowInv
  <2>3. CASE ~(object.named /\ call.bulk) /\ pSrc = TheClients
    <3>1. pDst = FirstDst(call)
      BY <2>3 DEF ApplyInv, FlowInv
    <3> QED
      BY <1>1, <2>3, <3>1 DEF NextDst, FirstDst, Chunked
  <2> QED
    BY <2>1, <2>2, <2>3
<1>4. TypeOK'
  BY <1>1, <1>2 DEF ApplyInv, TypeOK
<1>5. FlowInv'
  <2>1. Chunked' = Chunked
    BY <1>1 DEF Chunked
  <2>2. pSrc' # TheClients /\ j' # 0
    BY <1>1, NotOf
  <2> QED
    BY <1>1, <1>3, <2>1, <2>2 DEF ApplyInv, FlowInv
<1>6. QuietInv' /\ BufferInv' /\ ExtentInv'
  BY <1>1 DEF ApplyInv, QuietInv, BufferInv, ExtentInv
<1>7. OkMeansImages'
  <2>1. Sound' = Sound /\ ImagesOf(call.n)' = ImagesOf(call.n)
    BY <1>1, ObjectStays DEF Sound, FitsIndex, InPlaceSafe, InnerSafe,
           LookupsSeen, Chunked, ImagesOf
  <2> QED
    BY <1>1, <2>1 DEF ApplyInv, OkMeansImages
<1> QED
  BY <1>4, <1>5, <1>6, <1>7

LEMMA ApplyMiddleKeeps == ApplyInv /\ ApplyMiddle => ApplyInv'
<1> SUFFICES ASSUME ApplyInv, ApplyMiddle
             PROVE  ApplyInv'
  OBVIOUS
<1>1. /\ mode = "apply" /\ ~Last /\ ToNext
      /\ j' = j + 1 /\ pSrc' = pDst /\ pDst \in Buffers /\ pDst # TheClients
      /\ UNCHANGED <<mode, object, call, base, out>>
  BY NotOf DEF ApplyMiddle, ToNext, ApplyInv, TypeOK
<1>2. /\ base \in Nat /\ j \in Nat /\ Length \in Nat /\ j + 1 < Length
      /\ Count \in Nat \ {0} /\ Count <= ChunkPixels /\ ChunkPixels \in Nat
  BY <1>1, InCall, CountFits DEF ApplyInv, Last
<1>3. \A k \in 0..(Count - 1) : Result(k) \in Contents
  BY <1>1, MakesContents DEF ApplyInv
<1>5. /\ Gives(Xform) = "name" => mem' = mem /\ name' = Result(0)
      /\ Gives(Xform) # "name" =>
           /\ name' = name
           /\ mem' = [mem EXCEPT ![pDst] =
                [k \in DOMAIN mem[pDst] |->
                   IF k < Count THEN Result(k) ELSE mem[pDst][k]]]
  BY DEF ApplyMiddle
<1>6. /\ mem \in [Buffers -> [0..(ChunkPixels - 1) -> Contents]]
      /\ name \in Contents
  BY DEF ApplyInv, TypeOK
<1>7. name' \in Contents
  BY <1>2, <1>3, <1>5, <1>6
<1>8. mem' \in [Buffers -> [0..(ChunkPixels - 1) -> Contents]]
  <2>1. CASE Gives(Xform) = "name"
    BY <2>1, <1>5, <1>6
  <2>2. CASE Gives(Xform) # "name"
    <3> DEFINE new == [k \in DOMAIN mem[pDst] |->
                         IF k < Count THEN Result(k) ELSE mem[pDst][k]]
    <3>1. DOMAIN mem[pDst] = 0..(ChunkPixels - 1)
      BY <1>1, <1>6
    <3>2. \A k \in 0..(ChunkPixels - 1) :
            (IF k < Count THEN Result(k) ELSE mem[pDst][k]) \in Contents
      BY <1>1, <1>2, <1>3, <1>6
    <3>3. new \in [0..(ChunkPixels - 1) -> Contents]
      BY <3>1, <3>2
    <3> HIDE DEF new
    <3>4. mem' = [mem EXCEPT ![pDst] = new]
      BY <1>5, <2>2 DEF new
    <3> QED
      BY <1>6, <3>3, <3>4
  <2> QED
    BY <2>1, <2>2
<1>9. TypeOK' /\ QuietInv' /\ BufferInv' /\ FlowInv' /\ ExtentInv' /\ OkMeansImages'
  BY <1>1, <1>7, <1>8, ToNextKeeps
<1>10. DataInv'
  <2> SUFFICES ASSUME Sound'
               PROVE  /\ (out = ImagesOf(base))'
                      /\ \A k \in 0..(Count' - 1) :
                           In(k)' = [at |-> (base + k) * object.nSrc, stage |-> j + 1]
    BY <1>1 DEF DataInv
  <2>1. Length' = Length /\ Chunked' = Chunked
    BY <1>1, ObjectStays DEF Chunked
  <2>2. Sound
    BY <1>1, <2>1, ObjectStays DEF Sound, FitsIndex, InPlaceSafe, InnerSafe,
           LookupsSeen
  <2>3. Count' = Count
    BY <1>1, <2>1 DEF Count
  <2>4. (out = ImagesOf(base))'
    BY <1>1, <2>1, <2>2 DEF ApplyInv, DataInv, ImagesOf
  <2>5. \A k \in 0..(Count - 1) :
          Result(k) = [at |-> (base + k) * object.nSrc, stage |-> j + 1]
    BY <1>1, <2>2, MakesImages DEF ApplyInv
  <2>6. Gives(Xform) = Takes(Xform')
    <3>1. object \in Objects /\ j + 1 \in 1..(Length - 1)
      BY <1>2 DEF ApplyInv, TypeOK
    <3>2. Gives(object.chain[j + 1]) = Takes(object.chain[(j + 1) + 1])
      BY <3>1, ObjectParts DEF Length
    <3> QED
      BY <1>1, <3>2 DEF Xform
  <2>7. Takes(Xform)' = Takes(Xform')
    BY DEF Takes
  <2>8. CASE Gives(Xform) = "name"
    <3>1. Count = 1
      <4>1. Xform \notin PixelKinds
        BY <2>8 DEF Gives, PixelKinds
      <4>2. object \in Objects /\ j + 1 \in 1..Len(object.chain)
        BY <1>2 DEF Length, ApplyInv, TypeOK
      <4>3. object.named
        BY <4>1, <4>2, ObjectParts DEF Xform
      <4> QED
        BY <1>1, <4>3, CountFits DEF ApplyInv, Chunked
    <3>2. \A k \in 0..(Count - 1) : In(k)' = name'
      BY <1>1, <1>2, <2>6, <2>7, <2>8 DEF In
    <3> QED
      BY <1>5, <2>3, <2>4, <2>5, <2>8, <3>1, <3>2
  <2>9. CASE Gives(Xform) # "name"
    <3>1. \A k \in 0..(Count - 1) : In(k)' = mem'[pDst][k]
      BY <1>1, <2>6, <2>7, <2>9 DEF In
    <3>2. \A k \in 0..(Count - 1) : mem'[pDst][k] = Result(k)
      BY <1>1, <1>2, <1>5, <1>6, <2>9
    <3> QED
      BY <2>3, <2>4, <2>5, <3>1, <3>2
  <2> QED
    BY <2>8, <2>9
<1> QED
  BY <1>9, <1>10 DEF ApplyInv

\* A look-up that fails ends the call, or goes unnoticed where it may.
LEMMA NotFoundKeeps == ApplyInv /\ NotFound => ApplyInv'
<1> SUFFICES ASSUME ApplyInv, NotFound
             PROVE  ApplyInv'
  OBVIOUS
<1>1. mode = "apply"
  BY DEF NotFound
<1>2. CASE ~Last /\ Xform = "toName" /\ FromName /\ ~ToName
  <2>1. ToNext /\ mem' = mem /\ name' = name
    BY <1>2 DEF NotFound
  <2>2. TypeOK' /\ QuietInv' /\ BufferInv' /\ FlowInv' /\ ExtentInv' /\ OkMeansImages'
    BY <1>1, <1>2, <2>1, ToNextKeeps DEF ApplyInv, TypeOK
  <2>3. ~Sound'
    <3>1. object' = object /\ call' = call
      BY <2>1 DEF ToNext
    <3>2. j + 1 \in 1..(Length - 1)
      BY <1>1, <1>2, InCall DEF ApplyInv, Last
    <3>3. ~LookupsSeen
      BY <1>2, <3>2 DEF LookupsSeen, Xform
    <3> QED
      BY <3>1, <3>3, ObjectStays DEF Sound, LookupsSeen
  <2> QED
    BY <2>2, <2>3 DEF ApplyInv, DataInv
<1>3. CASE ~(~Last /\ Xform = "toName" /\ FromName /\ ~ToName)
  <2>1. /\ mode' = "idle" /\ rv' = "ColorNotFound"
        /\ UNCHANGED <<object, own, mem, call, base, j, pSrc, pDst, name, out, short>>
    BY <1>3 DEF NotFound, Return
  <2>2. TypeOK'
    BY <2>1, ObjectStays DEF ApplyInv, TypeOK
  <2>3. BufferInv'
    BY <2>1 DEF ApplyInv, BufferInv
  <2>4. QuietInv' /\ FlowInv' /\ ExtentInv' /\ DataInv' /\ OkMeansImages'
    BY <1>1, <2>1, EndsEarly
  <2> QED
    BY <2>2, <2>3, <2>4 DEF ApplyInv
<1> QED
  BY <1>2, <1>3

\* The images of the pixels done and of the chunk are those of the pixels done
\* then.
LEMMA ImagesJoin ==
  ASSUME NEW a \in Nat, NEW c \in Nat
  PROVE  ImagesOf(a + c) =
           ImagesOf(a) \cup
             {<<(a + k) * object.nDst,
                [at |-> (a + k) * object.nSrc, stage |-> Length]>> : k \in 0..(c - 1)}
<1> DEFINE Of(p) == <<p * object.nDst, [at |-> p * object.nSrc, stage |-> Length]>>
<1>1. \A p : p \in 0..(a + c - 1) <=>
               p \in 0..(a - 1) \/ \E k \in 0..(c - 1) : p = a + k
  <2>1. \A p \in 0..(a + c - 1) :
          p \in 0..(a - 1) \/ (p - a \in 0..(c - 1) /\ p = a + (p - a))
    OBVIOUS
  <2>2. \A p \in 0..(a - 1) : p \in 0..(a + c - 1)
    OBVIOUS
  <2>3. \A k \in 0..(c - 1) : a + k \in 0..(a + c - 1)
    OBVIOUS
  <2> QED
    BY <2>1, <2>2, <2>3
<1> HIDE DEF Of
<1>2. {Of(p) : p \in 0..(a + c - 1)} =
        {Of(p) : p \in 0..(a - 1)} \cup {Of(a + k) : k \in 0..(c - 1)}
  BY <1>1
<1> QED
  BY <1>2 DEF Of, ImagesOf

LEMMA ApplyLastKeeps == ApplyInv /\ ApplyLast => ApplyInv'
<1> SUFFICES ASSUME ApplyInv, ApplyLast
             PROVE  ApplyInv'
  OBVIOUS
<1> DEFINE new == {<<DstAt(k), Result(k)>> : k \in 0..(Count - 1)}
<1>1. /\ mode = "apply" /\ Last
      /\ out' = out \cup new /\ base' = base + Count
      /\ UNCHANGED <<object, own, mem, call, name, short>>
      /\ Length' = Length /\ Calls' = Calls /\ Chunked' = Chunked
  BY ObjectStays DEF ApplyLast, Chunked
<1>2. /\ base \in Nat /\ j \in Nat /\ Length \in Nat /\ j + 1 = Length
      /\ call.n \in Nat /\ base < call.n /\ object \in Objects
      /\ object.nDst \in Nat \ {0} /\ ChunkPixels \in Nat \ {0}
      /\ Count \in Nat \ {0} /\ base + Count <= call.n
  BY <1>1, InCall, CountFits, ObjectParts DEF ApplyInv, Last
<1>4. /\ base' < call.n =>
           /\ mode' = "apply" /\ rv' = rv
           /\ j' = 0 /\ pSrc' = TheClients /\ pDst' = FirstDst(call)
      /\ ~(base' < call.n) =>
           mode' = "idle" /\ rv' = "Ok" /\ UNCHANGED <<j, pSrc, pDst>>
  BY <1>1 DEF ApplyLast, Return
<1>5. \A k \in 0..(Count - 1) :
        /\ DstAt(k) \in Nat /\ Result(k) \in Contents
        /\ DstAt(k) + object.nDst <= base' * object.nDst
  BY <1>1, Offsets, MakesContents DEF ApplyInv
<1>6. FirstDst(call) \in Buffers /\ FirstDst(call) # TheClients
  BY NotOf DEF FirstDst
<1>7. TypeOK'
  <2>1. out' \subseteq Nat \X Contents
    BY <1>1, <1>5 DEF ApplyInv, TypeOK
  <2>2. base' \in Nat /\ j' \in Nat /\ Length > 0
    BY <1>1, <1>2, <1>4
  <2> QED
    BY <1>1, <1>4, <1>6, <2>1, <2>2 DEF ApplyInv, TypeOK
<1>8. QuietInv' /\ BufferInv'
  BY <1>1, <1>4 DEF ApplyInv, QuietInv, BufferInv
<1>9. FlowInv'
  <2> SUFFICES ASSUME base' < call.n
               PROVE  /\ Chunked => IF Length = 1 THEN base' = 0
                                    ELSE \E m \in 0..base' : base' = m * ChunkPixels
    BY <1>1, <1>4, <1>6 DEF FlowInv, FirstDst
  <2> SUFFICES ASSUME Chunked
               PROVE  Length # 1 /\ \E m \in 0..base' : base' = m * ChunkPixels
    OBVIOUS
  <2>1. Length # 1 /\ Length > 1 /\ Count = ChunkPixels
    BY <1>1, <1>2, CountFits DEF ApplyInv
  <2>2. PICK m \in 0..base : base = m * ChunkPixels
    BY <1>1, <2>1 DEF ApplyInv, FlowInv
  <2>3. base' = (m + 1) * ChunkPixels
    BY <1>1, <1>2, <2>1, <2>2, SMT
  <2>4. m + 1 \in 0..base'
    BY <1>1, <1>2
  <2> QED
    BY <2>1, <2>3, <2>4
<1>10. ExtentInv'
  <2>1. base' <= call.n /\ (mode' # "apply" => base' = call.n)
    BY <1>1, <1>2, <1>4
  <2>2. base * object.nDst <= base' * object.nDst
    BY <1>1, <1>2, DoneGrows
  <2>3. base * object.nDst \in Nat /\ base' * object.nDst \in Nat
    BY <1>1, <1>2, SMT
  <2>4. \A w \in out : w[1] \in Nat /\ w[1] + object.nDst <= base * object.nDst
    BY <1>1 DEF ApplyInv, TypeOK, ExtentInv
  <2>5. \A w \in out : w[1] \in Nat /\ w[1] + object.nDst <= base' * object.nDst
    BY <1>2, <2>2, <2>3, <2>4
  <2>6. \A w \in new : w[1] \in Nat /\ w[1] + object.nDst <= base' * object.nDst
    BY <1>5
  <2>7. \A w \in out' : w[1] >= 0 /\ w[1] + object.nDst <= base' * object.nDst
    BY <1>1, <2>5, <2>6
  <2>8. (IF mode' = "apply" THEN base' ELSE call.n) = base'
    BY <2>1
  <2> QED
    BY <1>1, <2>7, <2>8 DEF ExtentInv
<1>11. Sound' = Sound
  BY <1>1, ObjectStays DEF Sound, FitsIndex, InPlaceSafe, InnerSafe, LookupsSeen
<1>12. Sound => out' = ImagesOf(base')
  <2> SUFFICES ASSUME Sound
               PROVE  out' = ImagesOf(base')
    OBVIOUS
  <2>1. \A k \in 0..(Count - 1) :
          /\ DstAt(k) = (base + k) * object.nDst
          /\ Result(k) = [at |-> (base + k) * object.nSrc, stage |-> Length]
    BY <1>1, <1>2, Offsets, MakesImages DEF ApplyInv, Sound
  <2>2. new = {<<(base + k) * object.nDst,
                 [at |-> (base + k) * object.nSrc, stage |-> Length]>> :
                 k \in 0..(Count - 1)}
    BY <2>1
  <2>3. out = ImagesOf(base)
    BY <1>1 DEF ApplyInv, DataInv
  <2> QED
    BY <1>1, <1>2, <2>2, <2>3, ImagesJoin
<1>13. (ImagesOf(base))' = ImagesOf(base') /\ (ImagesOf(call.n))' = ImagesOf(call.n)
  BY <1>1 DEF ImagesOf
<1>14. DataInv'
  <2> SUFFICES ASSUME mode' = "apply", Sound'
               PROVE  DataInv'
    BY DEF DataInv
  <2>1. (out = ImagesOf(base))' /\ j' = 0
    BY <1>4, <1>11, <1>12, <1>13
  <2>2. (TypeOK /\ FlowInv /\ Sound /\ mode = "apply" /\ j = 0
           /\ out = ImagesOf(base) =>
         \A k \in 0..(Count - 1) :
           In(k) = [at |-> (base + k) * object.nSrc, stage |-> j])'
    BY FirstReads, PTL
  <2> QED
    BY <1>7, <1>9, <2>1, <2>2 DEF DataInv
<1>15. OkMeansImages'
  <2>1. base' <= call.n /\ (mode' # "apply" => base' = call.n)
    BY <1>1, <1>2, <1>4
  <2>2. ImagesOf(base') \subseteq ImagesOf(call.n)
    BY <1>1, <1>2, <2>1, DoneGrows
  <2> QED
    BY <1>1, <1>4, <1>11, <1>12, <1>13, <2>1, <2>2 DEF OkMeansImages
<1> QED
  BY <1>7, <1>8, <1>9, <1>10, <1>14, <1>15 DEF ApplyInv
-----------------------------------------------------------------------------
(* The theorems *)

LEMMA ApplyInvHolds == Spec => []ApplyInv
<1>1. Init => ApplyInv
  BY InitHolds
<1>2. ApplyInv /\ [Next]_vars => ApplyInv'
  <2> SUFFICES ASSUME ApplyInv, [Next]_vars
               PROVE  ApplyInv'
    OBVIOUS
  <2>1. CASE GetNewApplyCmm
    BY <2>1, GetNewApplyCmmKeeps
  <2>2. CASE Destroy
    BY <2>2, DestroyKeeps
  <2>3. CASE NoXforms
    BY <2>3, NoXformsKeeps
  <2>4. CASE Call
    BY <2>4, CallKeeps
  <2>5. CASE InitPixelFails
    BY <2>5, InitPixelFailsKeeps
  <2>6. CASE ApplyMiddle
    BY <2>6, ApplyMiddleKeeps
  <2>7. CASE NotFound
    BY <2>7, NotFoundKeeps
  <2>8. CASE ApplyLast
    BY <2>8, ApplyLastKeeps
  <2>9. CASE UseOfNull
    BY <2>9, UseOfNullKeeps
  <2>10. CASE UNCHANGED vars
    <3>1. UNCHANGED <<mode, object, own, mem, call, base, j, pSrc, pDst, name, out,
                      rv, short>>
      BY <2>10 DEF vars
    <3>2. /\ Length' = Length /\ Calls' = Calls /\ Chunked' = Chunked
          /\ Sound' = Sound /\ Last' = Last /\ Xform' = Xform
          /\ (ImagesOf(base))' = ImagesOf(base)
          /\ (ImagesOf(call.n))' = ImagesOf(call.n)
      BY <3>1, ObjectStays DEF Chunked, Sound, FitsIndex, InPlaceSafe, InnerSafe,
             LookupsSeen, Last, Xform, ImagesOf
    <3>3. Count' = Count /\ \A k : SrcAt(k)' = SrcAt(k) /\ DstAt(k)' = DstAt(k)
      BY <3>1, <3>2 DEF Count, SrcAt, DstAt, Start
    <3>4. \A k : In(k)' = In(k)
      BY <3>1, <3>2, <3>3 DEF In, Written, Overlap
    <3>5. DataInv'
      BY <3>1, <3>2, <3>3, <3>4 DEF ApplyInv, DataInv
    <3>6. TypeOK' /\ QuietInv' /\ BufferInv'
      BY <3>1, <3>2 DEF ApplyInv, TypeOK, QuietInv, BufferInv
    <3>7. FlowInv'
      BY <3>1, <3>2 DEF ApplyInv, FlowInv, FirstDst
    <3>8. ExtentInv' /\ OkMeansImages'
      BY <3>1, <3>2 DEF ApplyInv, ExtentInv, OkMeansImages
    <3> QED
      BY <3>5, <3>6, <3>7, <3>8 DEF ApplyInv
  <2> QED
    BY <2>1, <2>2, <2>3, <2>4, <2>5, <2>6, <2>7, <2>8, <2>9, <2>10 DEF Next
<1> QED
  BY <1>1, <1>2, PTL DEF Spec

\* For all chains, widths and chunk sizes: what an apply object has written is,
\* pixel by pixel, what the whole chain makes of the source, in place or not,
\* and all of it once Apply returns icCmmStatOk.
THEOREM PixelsAreImages == Spec => []OkMeansImages
<1>1. ApplyInv => OkMeansImages
  BY DEF ApplyInv
<1> QED
  BY <1>1, ApplyInvHolds, PTL

\* For all chains, widths and chunk sizes, and also past the limit of the
\* products: no Apply writes outside the pixels of its call.
THEOREM WritesStayInside == Spec => []WritesInside
<1>1. ApplyInv => WritesInside
  <2> SUFFICES ASSUME ApplyInv
               PROVE  WritesInside
    OBVIOUS
  <2>1. CASE mode # "apply"
    BY <2>1 DEF ApplyInv, ExtentInv, WritesInside
  <2>2. CASE mode = "apply"
    <3>1. /\ base \in Nat /\ call.n \in Nat /\ base <= call.n
          /\ object.nDst \in Nat /\ object \in Objects
      BY <2>2, InCall, ObjectParts DEF ApplyInv
    <3>2. base * object.nDst <= call.n * object.nDst
      BY <3>1, DoneGrows
    <3>3. base * object.nDst \in Nat /\ call.n * object.nDst \in Nat
      BY <3>1, SMT
    <3>4. \A w \in out : w[1] \in Nat /\ w[1] + object.nDst <= base * object.nDst
      BY <2>2 DEF ApplyInv, TypeOK, ExtentInv
    <3>5. \A w \in out : w[1] >= 0 /\ w[1] + object.nDst <= call.n * object.nDst
      BY <3>1, <3>2, <3>3, <3>4
    <3> QED
      BY <3>5 DEF ApplyInv, WritesInside
  <2> QED
    BY <2>1, <2>2
<1> QED
  BY <1>1, ApplyInvHolds, PTL

\* A missing buffer is used only after a call has returned icCmmStatAllocErr.
THEOREM MissingOnlyWhenShort == Spec => []CrashOnlyWhenShort
<1>1. ApplyInv => CrashOnlyWhenShort
  BY DEF ApplyInv, BufferInv, CrashOnlyWhenShort
<1> QED
  BY <1>1, ApplyInvHolds, PTL

-----------------------------------------------------------------------------
(* The calculator: numbers, sets and functions *)

\* A set of numbers that is not empty has a least one.
LEMMA NatMinimum ==
  ASSUME NEW S, S \subseteq Nat, S # {}
  PROVE  \E m \in S : \A k \in S : m <= k
<1> DEFINE R == OpToRel(<, Nat)
<1>1. IsWellFoundedOn(R, Nat)
  BY NatLessThanWellFounded
<1> HIDE DEF R
<1>2. PICK m \in S : \A k \in S : ~ (<<k, m>> \in R)
  BY <1>1, WFMin
<1>3. \A a, b \in Nat : a < b => <<a, b>> \in R
  BY DEF R, OpToRel
<1>4. ASSUME NEW k \in S
      PROVE  m <= k
  <2>1. k \in Nat /\ m \in Nat
    OBVIOUS
  <2>2. ~ (<<k, m>> \in R)
    BY <1>2
  <2> QED
    BY <2>1, <2>2, <1>3
<1> QED
  BY <1>4

\* A set of levels that holds 0, and with each the next, holds all of them.
LEMMA Climbing ==
  ASSUME NEW G, 0 \in G, \A n \in Nat : n \in G => n + 1 \in G
  PROVE  Nat \subseteq G
<1> DEFINE Missing == {n \in Nat : n \notin G}
<1>1. SUFFICES ASSUME Missing # {}
               PROVE  FALSE
  OBVIOUS
<1>2. Missing \subseteq Nat
  OBVIOUS
<1> HIDE DEF Missing
<1>3. PICK m \in Missing : \A k \in Missing : m <= k
  BY <1>1, <1>2, NatMinimum
<1>4. m \in Nat /\ m \notin G
  BY <1>3 DEF Missing
<1>5. m # 0
  BY <1>4
<1>6. m - 1 \in Nat /\ m = (m - 1) + 1 /\ ~ (m <= m - 1)
  BY <1>4, <1>5
<1>7. m - 1 \in G
  BY <1>3, <1>6 DEF Missing
<1> QED
  BY <1>4, <1>6, <1>7

\* What holds of an argument where it holds of all shorter ones holds of all.
LEMMA Shortening ==
  ASSUME NEW X, NEW r, \A x \in X : r[x] \in Nat, NEW G,
         \A x \in X : (\A y \in X : r[y] < r[x] => y \in G) => x \in G
  PROVE  X \subseteq G
<1> DEFINE Lengths == {r[x] : x \in X \ G}
<1>1. SUFFICES ASSUME X \ G # {}
               PROVE  FALSE
  OBVIOUS
<1>2. Lengths \subseteq Nat /\ Lengths # {}
  BY <1>1
<1>3. PICK m \in Lengths : \A k \in Lengths : m <= k
  <2> HIDE DEF Lengths
  <2> QED
    BY <1>2, NatMinimum
<1>4. PICK x \in X \ G : r[x] = m
  BY <1>3
<1>5. ASSUME NEW y \in X, r[y] < r[x]
      PROVE  y \in G
  <2>1. y \notin G => r[y] \in Lengths
    OBVIOUS
  <2>2. r[y] \in Nat /\ r[x] \in Nat
    OBVIOUS
  <2>3. ~ (m <= r[y])
    BY <1>4, <1>5, <2>2
  <2> QED
    BY <1>3, <2>1, <2>3
<1> QED
  BY <1>4, <1>5

\* J says what a function from X to Y is at an argument by what it is at those
\* that r makes shorter, ...
Shortens(X, Y, n, r, J) ==
  /\ Y # {} /\ n \in Nat /\ \A x \in X : r[x] \in 0..n
  /\ \A f \in [X -> Y] : J[f] \in [X -> Y]
  /\ \A f, g \in [X -> Y] : \A x \in X :
       (\A y \in X : r[y] < r[x] => f[y] = g[y]) => J[f][x] = J[g][x]

\* ... and so there is such a function.
LEMMA Recursion ==
  ASSUME NEW X, NEW Y, NEW n, NEW r, NEW J, Shortens(X, Y, n, r, J)
  PROVE  \E f \in [X -> Y] : f = J[f]
<1> USE DEF Shortens
<1> DEFINE Up(f, m) == \A x \in X : r[x] < m => f[x] = J[f][x]
           G == {m \in Nat : \E f \in [X -> Y] : Up(f, m)}
<1>1. 0 \in G
  <2>1. PICK y : y \in Y
    OBVIOUS
  <2>2. [x \in X |-> y] \in [X -> Y]
    BY <2>1
  <2>3. \A x \in X : ~ (r[x] < 0)
    OBVIOUS
  <2> QED
    BY <2>2, <2>3
<1>2. ASSUME NEW m \in Nat, NEW f \in [X -> Y], Up(f, m)
      PROVE  \E g \in [X -> Y] : Up(g, m + 1)
  <2> DEFINE g == [x \in X |-> IF r[x] < m THEN f[x] ELSE J[f][x]]
  <2>1. g \in [X -> Y]
    OBVIOUS
  <2>2. ASSUME NEW x \in X, r[x] < m + 1
        PROVE  g[x] = J[g][x]
    <3>1. \A y \in X : r[y] < r[x] => r[y] < m
      BY <2>2
    <3>2. \A y \in X : r[y] < r[x] => f[y] = g[y]
      BY <3>1
    <3>3. J[f][x] = J[g][x]
      <4> HIDE DEF g
      <4> QED
        BY <2>1, <3>2
    <3>4. g[x] = J[f][x]
      BY <1>2
    <3> QED
      BY <3>3, <3>4
  <2>3. Up(g, m + 1)
    <3> HIDE DEF g
    <3> QED
      BY <2>2
  <2> QED
    BY <2>1, <2>3
<1>3. \A m \in Nat : m \in G => m + 1 \in G
  BY <1>2
<1>4. Nat \subseteq G
  <2> HIDE DEF G
  <2> QED
    BY <1>1, <1>3, Climbing
<1>5. n + 1 \in G
  BY <1>4
<1>6. PICK f \in [X -> Y] : Up(f, n + 1)
  BY <1>5
<1>7. \A x \in X : r[x] < n + 1
  OBVIOUS
<1>8. \A x \in X : f[x] = J[f][x]
  BY <1>6, <1>7
<1> QED
  BY <1>8
-----------------------------------------------------------------------------
\* What is bounded has a largest element, and Max and Min are in their sets.
LEMMA MinMaxIn ==
  ASSUME NEW n \in Nat, NEW S, S \subseteq 0..n, S # {}
  PROVE  /\ Min(S) \in S /\ \A x \in S : Min(S) <= x
         /\ Max(S) \in S /\ \A x \in S : Max(S) >= x
<1>1. S \subseteq Nat
  OBVIOUS
<1>2. PICK m \in S : \A x \in S : m <= x
  BY <1>1, NatMinimum
<1> DEFINE T == {n - x : x \in S}
<1>3. T \subseteq Nat /\ T # {}
  <2>1. \A x \in S : n - x \in Nat
    OBVIOUS
  <2>2. T \subseteq Nat
    BY <2>1
  <2>3. n - m \in T
    OBVIOUS
  <2> QED
    BY <2>2, <2>3
<1>4. PICK t \in T : \A u \in T : t <= u
  <2> HIDE DEF T
  <2> QED
    BY <1>3, NatMinimum
<1>5. PICK q \in S : t = n - q
  OBVIOUS
<1>6. \A x \in S : q >= x
  <2>1. ASSUME NEW x \in S PROVE q >= x
    <3>1. n - x \in T
      OBVIOUS
    <3>2. n - q <= n - x
      BY <1>4, <1>5, <3>1
    <3>3. q \in Nat /\ x \in Nat
      BY <1>1
    <3> QED
      BY <3>2, <3>3
  <2> QED
    BY <2>1
<1>7. Min(S) \in S /\ \A x \in S : Min(S) <= x
  BY <1>2 DEF Min
<1>8. Max(S) \in S /\ \A x \in S : Max(S) >= x
  BY <1>6 DEF Max
<1> QED
  BY <1>7, <1>8
-----------------------------------------------------------------------------
(* Programs and the layout of branches *)

LEMMA Limits == NTemps \in Nat /\ MaxStack \in Nat /\ MaxDepth \in Nat
BY LimitsAssumption

LEMMA ProgTyped ==
  ASSUME NEW p \in Programs
  PROVE  /\ Len(p) \in Nat
         /\ \A i \in 0..(Len(p) - 1) :
              /\ At(p, i).op \in Plain \cup Branching /\ At(p, i).arg \in Nat
              /\ At(p, i).op \in {"tget", "tput", "tsav"} => At(p, i).arg \in Temps
<1>1. p \in Seq(Ops)
  BY ProgramsAssumption
<1>2. Len(p) \in Nat
  BY <1>1
<1>3. ASSUME NEW i \in 0..(Len(p) - 1)
      PROVE  /\ At(p, i).op \in Plain \cup Branching /\ At(p, i).arg \in Nat
             /\ At(p, i).op \in {"tget", "tput", "tsav"} => At(p, i).arg \in Temps
  <2>1. i + 1 \in 1..Len(p) /\ i + 1 \in DOMAIN p
    BY <1>1, <1>2
  <2>2. p[i + 1] \in Ops
    BY <1>1, <2>1
  <2>3. p[i + 1].op \in {"tget", "tput", "tsav"} => p[i + 1].arg \in Temps
    BY <2>1, ProgramsAssumption
  <2> QED
    BY <2>2, <2>3 DEF At, Ops
<1> QED
  BY <1>2, <1>3

LEMMA UsesPushes ==
  \A o : Uses(o) \in {0, 1} /\ Pushes(o) \in {0, 1}
BY DEF Uses, Pushes

\* A walk that is before its end has an operation.
LEMMA OpHere ==
  ASSUME NEW p \in Programs, NEW end \in 0..Len(p), NEW i \in Nat, i < end
  PROVE  /\ i \in 0..(Len(p) - 1) /\ At(p, i).arg \in Nat
         /\ At(p, i).op \in Plain \cup Branching
BY ProgTyped

LEMMA IfLayout ==
  ASSUME NEW p \in Programs, NEW end \in 0..Len(p), NEW i \in Nat, i < end
  PROVE  /\ IfBody(p, end, i) \in Nat /\ i < IfBody(p, end, i)
         /\ At(p, i).arg \in Nat
         /\ ElseBody(p, end, i) \in Nat /\ i < ElseBody(p, end, i)
         /\ ElseBody(p, end, i) = IfBody(p, end, i) + At(p, i).arg
         /\ HasElse(p, end, i) => /\ At(p, i + 1).arg \in Nat
                               /\ AfterIf(p, end, i) = ElseBody(p, end, i) + At(p, i + 1).arg
         /\ ~ HasElse(p, end, i) => AfterIf(p, end, i) = ElseBody(p, end, i)
<1>1. At(p, i).arg \in Nat
  BY OpHere
<1>2. IfBody(p, end, i) \in Nat /\ i < IfBody(p, end, i)
  BY DEF IfBody
<1>3. ASSUME HasElse(p, end, i)
      PROVE  At(p, i + 1).arg \in Nat
  <2>1. i + 1 < end /\ i + 1 \in Nat
    BY <1>3 DEF HasElse, IsAt
  <2> QED
    BY <2>1, OpHere
<1>4. ElseBody(p, end, i) = IfBody(p, end, i) + At(p, i).arg
  BY DEF ElseBody
<1>5. ElseBody(p, end, i) \in Nat /\ i < ElseBody(p, end, i)
  BY <1>1, <1>2, <1>4
<1>6. AfterIf(p, end, i) = ElseBody(p, end, i) + IF HasElse(p, end, i) THEN At(p, i + 1).arg ELSE 0
  BY DEF AfterIf
<1> QED
  BY <1>1, <1>2, <1>3, <1>4, <1>5, <1>6

\* The cases are those behind the select, and no more.
LEMMA CasesAre ==
  ASSUME NEW p \in Programs, NEW end \in 0..Len(p), NEW i \in Nat
  PROVE  /\ Cases(p, end, i) \in 0..end
         /\ \A u \in 1..Cases(p, end, i) : IsAt(p, end, i + u, "case")
         /\ ~ IsAt(p, end, i + Cases(p, end, i) + 1, "case")
         /\ \A k \in 0..end : (\A u \in 1..k : IsAt(p, end, i + u, "case")) => k <= Cases(p, end, i)
<1> DEFINE S == {k \in 0..end : \A u \in 1..k : IsAt(p, end, i + u, "case")}
<1>1. end \in Nat
  BY ProgTyped
<1>2. 0 \in S /\ S \subseteq 0..end
  BY <1>1
<1>3. Cases(p, end, i) = Max(S)
  BY DEF Cases
<1>4. Max(S) \in S /\ \A k \in S : Max(S) >= k
  <2> HIDE DEF S
  <2> QED
    BY <1>1, <1>2, MinMaxIn
<1> DEFINE c == Cases(p, end, i)
<1>5. c \in S /\ \A k \in S : c >= k
  BY <1>3, <1>4
<1> HIDE DEF c
<1>6. c \in 0..end /\ \A u \in 1..c : IsAt(p, end, i + u, "case")
  BY <1>5
<1>7. ~ IsAt(p, end, i + c + 1, "case")
  <2> SUFFICES ASSUME IsAt(p, end, i + c + 1, "case") PROVE FALSE
    OBVIOUS
  <2>1. i + c + 1 < end
    BY DEF IsAt
  <2>2. c + 1 \in 0..end
    BY <1>1, <1>6, <2>1
  <2>3. ASSUME NEW u \in 1..(c + 1)
        PROVE  IsAt(p, end, i + u, "case")
    <3>1. CASE u = c + 1
      <4>1. i + u = i + c + 1
        BY <1>6, <3>1
      <4> QED
        BY <4>1
    <3>2. CASE u # c + 1
      <4>1. u \in 1..c
        BY <1>6, <3>2
      <4> QED
        BY <1>6, <4>1
    <3> QED
      BY <3>1, <3>2
  <2>4. c + 1 \in S
    BY <2>2, <2>3
  <2>5. ~ (c >= c + 1)
    BY <1>6
  <2> QED
    BY <1>5, <2>4, <2>5
<1>8. \A k \in 0..end : (\A u \in 1..k : IsAt(p, end, i + u, "case")) => k <= c
  <2>1. ASSUME NEW k \in 0..end, \A u \in 1..k : IsAt(p, end, i + u, "case")
        PROVE  k <= c
    <3>1. k \in S
      BY <2>1
    <3> QED
      BY <1>5, <1>6, <3>1
  <2> QED
    BY <2>1
<1> QED
  BY <1>6, <1>7, <1>8 DEF c

\* What BodyStart makes of n bodies: where they go on, from what it is before
\* the last of them.
Lays(f, p, i, b, n) ==
  f = [m \in 0..n |-> IF m = 0 THEN i + 1 + b ELSE f[m - 1] + At(p, i + m).arg]
Lay(p, i, b, n) == CHOOSE f : Lays(f, p, i, b, n)

\* There is one way to lay bodies out, ...
LEMMA OneLayout ==
  ASSUME NEW p, NEW i, NEW b
  PROVE  \A n \in Nat :
           /\ \E f : Lays(f, p, i, b, n)
           /\ \A f, g : Lays(f, p, i, b, n) /\ Lays(g, p, i, b, n) => f = g
<1> DEFINE One(n) ==
      /\ \E f : Lays(f, p, i, b, n)
      /\ \A f, g : Lays(f, p, i, b, n) /\ Lays(g, p, i, b, n) => f = g
           G == {n \in Nat : One(n)}
<1>1. 0 \in G
  <2>1. Lays([m \in 0..0 |-> i + 1 + b], p, i, b, 0)
    BY DEF Lays
  <2>2. \A f : Lays(f, p, i, b, 0) => f = [m \in 0..0 |-> i + 1 + b]
    BY DEF Lays
  <2> QED
    BY <2>1, <2>2
<1>2. ASSUME NEW n \in Nat, One(n)
      PROVE  One(n + 1)
  <2>1. PICK f : Lays(f, p, i, b, n)
    BY <1>2
  <2> DEFINE last == f[n] + At(p, i + (n + 1)).arg
             all == [m \in 0..(n + 1) |-> IF m = n + 1 THEN last ELSE f[m]]
  <2>2. Lays(all, p, i, b, n + 1)
    <3>1. \A m \in 0..n : m \in 0..(n + 1) /\ m # n + 1
      OBVIOUS
    <3>2. \A m \in 0..n : all[m] = f[m]
      BY <3>1
    <3>3. all[n + 1] = last /\ all[(n + 1) - 1] = f[n]
      BY <3>2
    <3>4. \A m \in 0..n : all[m] = IF m = 0 THEN i + 1 + b
                                   ELSE all[m - 1] + At(p, i + m).arg
      BY <2>1, <3>2 DEF Lays
    <3>5. \A m \in 0..(n + 1) : m \in 0..n \/ (m = n + 1 /\ m # 0)
      OBVIOUS
    <3>6. \A m \in 0..(n + 1) : all[m] = IF m = 0 THEN i + 1 + b
                                         ELSE all[m - 1] + At(p, i + m).arg
      <4> HIDE DEF all
      <4> QED
        BY <3>3, <3>4, <3>5
    <3> QED
      BY <3>6 DEF Lays
  <2>3. ASSUME NEW g, Lays(g, p, i, b, n + 1)
        PROVE  g = all
    <3> DEFINE low == [m \in 0..n |-> g[m]]
    <3>1. Lays(low, p, i, b, n)
      BY <2>3 DEF Lays
    <3>2. low = f
      BY <1>2, <2>1, <3>1
    <3>3. g = [m \in 0..(n + 1) |-> g[m]]
      BY <2>3 DEF Lays
    <3>4. \A m \in 0..n : g[m] = f[m]
      BY <3>2
    <3>5. n \in 0..n /\ n + 1 \in 0..(n + 1) /\ n + 1 # 0 /\ (n + 1) - 1 = n
      OBVIOUS
    <3>6. g[n + 1] = last
      BY <2>3, <3>4, <3>5 DEF Lays
    <3>7. \A m \in 0..(n + 1) : g[m] = all[m]
      <4> HIDE DEF last
      <4> QED
        BY <3>4, <3>6
    <3> QED
      BY <3>3, <3>7
  <2> QED
    BY <2>2, <2>3
<1> HIDE DEF One
<1>3. \A n \in Nat : n \in G => n + 1 \in G
  BY <1>2
<1>4. Nat \subseteq G
  <2> HIDE DEF G
  <2> QED
    BY <1>1, <1>3, Climbing
<1> QED
  BY <1>4 DEF One

\* ... and a body more goes on behind the one before.
LEMMA NextLayout ==
  ASSUME NEW p, NEW i, NEW b
  PROVE  /\ Lay(p, i, b, 0)[0] = i + 1 + b
         /\ \A n \in Nat \ {0} :
              Lay(p, i, b, n)[n] = Lay(p, i, b, n - 1)[n - 1] + At(p, i + n).arg
<1>1. \A n \in Nat : Lays(Lay(p, i, b, n), p, i, b, n)
  BY OneLayout DEF Lay
<1>2. ASSUME NEW n \in Nat \ {0}
      PROVE  Lay(p, i, b, n)[n - 1] = Lay(p, i, b, n - 1)[n - 1]
  <2> DEFINE low == [m \in 0..(n - 1) |-> Lay(p, i, b, n)[m]]
  <2>1. Lays(low, p, i, b, n - 1)
    BY <1>1 DEF Lays
  <2>2. n - 1 \in Nat /\ n - 1 \in 0..(n - 1)
    OBVIOUS
  <2>3. low = Lay(p, i, b, n - 1)
    <3> HIDE DEF low
    <3> QED
      BY <1>1, <2>1, <2>2, OneLayout
  <2> QED
    BY <2>2, <2>3
<1>3. ASSUME NEW n \in Nat \ {0}
      PROVE  Lay(p, i, b, n)[n] = Lay(p, i, b, n)[n - 1] + At(p, i + n).arg
  <2>1. n \in 0..n /\ n # 0
    OBVIOUS
  <2> QED
    BY <1>1, <2>1 DEF Lays
<1>4. Lay(p, i, b, 0)[0] = i + 1 + b
  BY <1>1 DEF Lays
<1> QED
  BY <1>2, <1>3, <1>4

\* The first body follows the cases and the default, ...
LEMMA FirstBody ==
  ASSUME NEW p, NEW end, NEW i
  PROVE  BodyStart(p, end, i, 1) = i + 1 + Bodies(p, end, i)
<1> DEFINE b == Bodies(p, end, i)
<1>1. 1 \in Nat \ {0} /\ 1 - 1 = 0
  OBVIOUS
<1>2. BodyStart(p, end, i, 1) = Lay(p, i, b, 0)[0]
  BY <1>1 DEF BodyStart, Lay, Lays
<1>3. Lay(p, i, b, 0)[0] = i + 1 + b
  BY NextLayout
<1> QED
  BY <1>2, <1>3

\* ... and each next the one before.
LEMMA NextBody ==
  ASSUME NEW p, NEW end, NEW i, NEW k \in Nat \ {0}
  PROVE  BodyStart(p, end, i, k + 1) = BodyStart(p, end, i, k) + At(p, i + k).arg
<1> DEFINE b == Bodies(p, end, i)
<1>1. \A n \in Nat \ {0} : BodyStart(p, end, i, n) = Lay(p, i, b, n - 1)[n - 1]
  BY DEF BodyStart, Lay, Lays
<1>2. k + 1 \in Nat \ {0} /\ (k + 1) - 1 = k
  OBVIOUS
<1> HIDE DEF b
<1>3. BodyStart(p, end, i, k + 1) = Lay(p, i, b, k)[k]
  BY <1>1, <1>2
<1>4. Lay(p, i, b, k)[k] = Lay(p, i, b, k - 1)[k - 1] + At(p, i + k).arg
  BY NextLayout
<1> QED
  BY <1>1, <1>3, <1>4

\* A select has a body for each case, and one for the default.
LEMMA SelectLayout ==
  ASSUME NEW p \in Programs, NEW end \in 0..Len(p), NEW i \in Nat
  PROVE  /\ Bodies(p, end, i) \in Nat
         /\ \A k \in 1..Bodies(p, end, i) :
              /\ At(p, i + k).arg \in Nat
              /\ i + k < end
         /\ Bodies(p, end, i) > 0 => Cases(p, end, i) > 0
         /\ Bodies(p, end, i) >= Cases(p, end, i)
<1> DEFINE c == Cases(p, end, i)
<1>1. c \in Nat /\ end \in Nat
  <2>1. end \in Nat
    BY ProgTyped
  <2>2. c \in 0..end
    BY CasesAre
  <2> HIDE DEF c
  <2> QED
    BY <2>1, <2>2
<1>2. \A u \in 1..c : IsAt(p, end, i + u, "case")
  BY CasesAre
<1>3. Bodies(p, end, i) = c + IF HasDefault(p, end, i) THEN 1 ELSE 0
  BY DEF Bodies
<1>4. HasDefault(p, end, i) => c > 0 /\ i + c + 1 < end
  BY DEF HasDefault, IsAt
<1> HIDE DEF c
<1>5. \A u \in 1..c : i + u < end
  BY <1>2 DEF IsAt
<1>6. ASSUME NEW k \in 1..Bodies(p, end, i)
      PROVE  i + k < end
  <2>1. CASE k \in 1..c
    BY <1>5, <2>1
  <2>2. CASE k \notin 1..c
    <3>1. HasDefault(p, end, i) /\ k = c + 1
      BY <1>1, <1>3, <2>2
    <3> QED
      BY <1>1, <1>4, <3>1
  <2> QED
    BY <2>1, <2>2
<1>7. ASSUME NEW k \in 1..Bodies(p, end, i)
      PROVE  At(p, i + k).arg \in Nat
  <2>1. k \in Nat /\ i + k \in Nat
    BY <1>1, <1>3
  <2> QED
    BY <1>6, <2>1, OpHere
<1>8. /\ Bodies(p, end, i) \in Nat
      /\ Bodies(p, end, i) > 0 => c > 0
      /\ Bodies(p, end, i) >= c
  BY <1>1, <1>3, <1>4
<1> QED
  BY <1>6, <1>7, <1>8 DEF c

\* No body of a select is before it.
LEMMA BodiesBehind ==
  ASSUME NEW p \in Programs, NEW end \in 0..Len(p), NEW i \in Nat
  PROVE  \A k \in 1..(Bodies(p, end, i) + 1) :
           BodyStart(p, end, i, k) \in Nat /\ i < BodyStart(p, end, i, k)
<1> DEFINE b == Bodies(p, end, i)
           Fine(n) == n + 1 <= b + 1 => BodyStart(p, end, i, n + 1) \in Nat
                                        /\ i < BodyStart(p, end, i, n + 1)
           G == {n \in Nat : Fine(n)}
<1>1. b \in Nat /\ \A k \in 1..b : At(p, i + k).arg \in Nat
  <2>1. /\ Bodies(p, end, i) \in Nat
        /\ \A k \in 1..Bodies(p, end, i) :
             /\ At(p, i + k).arg \in Nat
             /\ i + k < end
        /\ Bodies(p, end, i) > 0 => Cases(p, end, i) > 0
        /\ Bodies(p, end, i) >= Cases(p, end, i)
    BY SelectLayout
  <2> QED
    BY <2>1
<1>2. BodyStart(p, end, i, 1) = i + 1 + b
  BY FirstBody
<1> HIDE DEF b
<1>4. Fine(0)
  BY <1>1, <1>2
<1>5. ASSUME NEW n \in Nat, Fine(n)
      PROVE  Fine(n + 1)
  <2> SUFFICES ASSUME (n + 1) + 1 <= b + 1
               PROVE  BodyStart(p, end, i, (n + 1) + 1) \in Nat
                      /\ i < BodyStart(p, end, i, (n + 1) + 1)
    OBVIOUS
  <2>1. n + 1 \in 1..b /\ n + 1 \in Nat \ {0} /\ n + 1 <= b + 1
    BY <1>1
  <2>2. BodyStart(p, end, i, n + 1) \in Nat /\ i < BodyStart(p, end, i, n + 1)
    BY <1>5, <2>1
  <2>3. At(p, i + (n + 1)).arg \in Nat
    BY <1>1, <2>1
  <2>4. BodyStart(p, end, i, (n + 1) + 1)
          = BodyStart(p, end, i, n + 1) + At(p, i + (n + 1)).arg
    BY <2>1, NextBody
  <2> QED
    BY <2>2, <2>3, <2>4
<1> HIDE DEF Fine
<1>6. 0 \in G /\ \A n \in Nat : n \in G => n + 1 \in G
  BY <1>4, <1>5
<1>7. Nat \subseteq G
  <2> HIDE DEF G
  <2> QED
    BY <1>6, Climbing
<1>8. ASSUME NEW k \in 1..(b + 1)
      PROVE  BodyStart(p, end, i, k) \in Nat /\ i < BodyStart(p, end, i, k)
  <2>1. k - 1 \in Nat /\ (k - 1) + 1 = k /\ k <= b + 1
    BY <1>1
  <2>2. Fine(k - 1)
    BY <1>7, <2>1
  <2> QED
    BY <2>1, <2>2 DEF Fine
<1> QED
  BY <1>8 DEF b
-----------------------------------------------------------------------------
(* Walks *)

Depths == {Refused} \cup 0..MaxStack
\* What is left of a sequence, from where x is in it.
Rank(x) == IF x.at < x.end THEN x.end - x.at ELSE 0
\* The walk of a body, from x at its branch.
Inner(p, x, start, size) ==
  [x EXCEPT !.at = start, !.end = start + size, !.depth = Now(p, x)]
\* x is at an operation its depth allows.
Allowed(p, x) ==
  x.at < x.end /\ Uses(At(p, x.at)) <= x.depth /\ Now(p, x) <= MaxStack
Branches(p, x) == At(p, x.at).op \in {"if", "sel"}

LEMMA WalkTyped ==
  ASSUME NEW p \in Programs, NEW x \in Walks(p)
  PROVE  /\ x.at \in Nat /\ x.end \in Nat /\ x.at <= Len(p) /\ x.end <= Len(p)
         /\ x.end \in 0..Len(p)
         /\ x.depth \in Nat /\ x.depth <= MaxStack /\ x.low \in BOOLEAN
         /\ MaxStack \in Nat /\ Len(p) \in Nat
<1>1. Len(p) \in Nat
  BY ProgTyped
<1>2. MaxStack \in Nat
  BY Limits
<1> QED
  BY <1>1, <1>2 DEF Walks

LEMMA NowTyped ==
  ASSUME NEW p \in Programs, NEW x \in Walks(p), Allowed(p, x)
  PROVE  Now(p, x) \in 0..MaxStack
<1>1. x.depth \in Nat /\ MaxStack \in Nat
  BY WalkTyped
<1> DEFINE u == Uses(At(p, x.at))
           q == Pushes(At(p, x.at))
<1>2. u \in {0, 1} /\ q \in {0, 1}
  BY UsesPushes
<1>3. Now(p, x) = x.depth - u + q
  BY DEF Now
<1>4. u <= x.depth /\ Now(p, x) <= MaxStack
  BY DEF Allowed
<1> HIDE DEF u, q
<1> QED
  BY <1>1, <1>2, <1>3, <1>4

\* The walk of a body is shorter.
LEMMA InnerShorter ==
  ASSUME NEW p \in Programs, NEW x \in Walks(p), Allowed(p, x),
         NEW start \in Nat, NEW size \in Nat, x.at < start, Fits(x.end, start, size)
  PROVE  /\ Inner(p, x, start, size) \in Walks(p)
         /\ Rank(Inner(p, x, start, size)) < Rank(x)
<1> DEFINE now == Now(p, x)
           y == [x EXCEPT !.at = start, !.end = start + size, !.depth = now]
<1>1. /\ x.at \in Nat /\ x.end \in Nat /\ x.end <= Len(p) /\ Len(p) \in Nat
      /\ x.at < x.end
  BY WalkTyped DEF Allowed
<1>2. now \in 0..MaxStack
  BY NowTyped
<1>3. start + size <= x.end
  BY DEF Fits
<1>4. start \in 0..Len(p) /\ start + size \in 0..Len(p)
  BY <1>1, <1>3
<1> HIDE DEF now
<1>5. y \in Walks(p) /\ y.at = start /\ y.end = start + size
  BY <1>2, <1>4 DEF Walks
<1> HIDE DEF y
<1>6. Rank(y) < Rank(x)
  BY <1>1, <1>3, <1>5 DEF Rank
<1>7. Inner(p, x, start, size) = y
  BY DEF Inner, y, now
<1> QED
  BY <1>5, <1>6, <1>7

LEMMA LeftSame ==
  ASSUME NEW p \in Programs, NEW x \in Walks(p), Allowed(p, x),
         NEW f, NEW g \in [Walks(p) -> Depths],
         \A y \in Walks(p) : Rank(y) < Rank(x) => f[y] = g[y],
         NEW start \in Nat, NEW size \in Nat, x.at < start
  PROVE  /\ Left(p, f, x, start, size) = Left(p, g, x, start, size)
         /\ Left(p, g, x, start, size) \in Depths
<1>1. CASE ~ Fits(x.end, start, size)
  BY <1>1 DEF Left, Depths
<1>2. CASE Fits(x.end, start, size)
  <2> DEFINE y == Inner(p, x, start, size)
  <2>1. y \in Walks(p) /\ Rank(y) < Rank(x)
    BY <1>2, InnerShorter
  <2>2. /\ Left(p, f, x, start, size) = f[y]
        /\ Left(p, g, x, start, size) = g[y]
    BY <1>2 DEF Left, Inner
  <2> HIDE DEF y
  <2> QED
    BY <2>1, <2>2
<1> QED
  BY <1>1, <1>2

LEMMA LeavesSame ==
  ASSUME NEW p \in Programs, NEW x \in Walks(p), Allowed(p, x), Branches(p, x),
         NEW f, NEW g \in [Walks(p) -> Depths],
         \A y \in Walks(p) : Rank(y) < Rank(x) => f[y] = g[y]
  PROVE  /\ Leaves(p, f, x) = Leaves(p, g, x)
         /\ Leaves(p, g, x) \subseteq Depths
<1> DEFINE i == x.at
           e == x.end
<1>1. e \in 0..Len(p) /\ i \in Nat /\ i < e
  BY WalkTyped DEF Allowed
<1>2. Now(p, x) \in Depths
  BY NowTyped DEF Depths
<1>3. \A start, size \in Nat :
        i < start =>
          /\ Left(p, f, x, start, size) = Left(p, g, x, start, size)
          /\ Left(p, g, x, start, size) \in Depths
  BY LeftSame
<1>4. CASE At(p, i).op = "if"
  <2> DEFINE b == IfBody(p, e, i)
             h == ElseBody(p, e, i)
  <2>1. /\ b \in Nat /\ i < b
        /\ At(p, i).arg \in Nat
        /\ h \in Nat /\ i < h
        /\ HasElse(p, e, i) => At(p, i + 1).arg \in Nat
    <3> HIDE DEF i, e
    <3> QED
      BY <1>1, IfLayout
  <2>2. Leaves(p, f, x) = IfLeaves(p, f, x) /\ Leaves(p, g, x) = IfLeaves(p, g, x)
    BY <1>4 DEF Leaves
  <2>3. \A q : IfLeaves(p, q, x) =
          {Left(p, q, x, b, At(p, i).arg),
           IF HasElse(p, e, i) THEN Left(p, q, x, h, At(p, i + 1).arg) ELSE Now(p, x)}
    BY DEF IfLeaves
  <2> HIDE DEF b, h, i, e
  <2>4. /\ Left(p, f, x, b, At(p, i).arg) = Left(p, g, x, b, At(p, i).arg)
        /\ Left(p, g, x, b, At(p, i).arg) \in Depths
    BY <1>3, <2>1
  <2>5. HasElse(p, e, i) =>
          /\ Left(p, f, x, h, At(p, i + 1).arg) = Left(p, g, x, h, At(p, i + 1).arg)
          /\ Left(p, g, x, h, At(p, i + 1).arg) \in Depths
    BY <1>3, <2>1
  <2> QED
    BY <1>2, <2>2, <2>3, <2>4, <2>5
<1>5. CASE At(p, i).op # "if"
  <2> DEFINE n == Bodies(p, e, i)
             Leaf(q, k) == IF BodyStart(p, e, i, k) < e
                           THEN Left(p, q, x, BodyStart(p, e, i, k), At(p, i + k).arg)
                           ELSE Refused
  <2>1. \A q : Leaves(p, q, x) = {Leaf(q, k) : k \in 1..n}
    BY <1>5 DEF Leaves, SelectLeaves
  <2>2. n \in Nat /\ \A k \in 1..n : At(p, i + k).arg \in Nat
    <3> HIDE DEF i, e
    <3>1. /\ Bodies(p, e, i) \in Nat
          /\ \A k \in 1..Bodies(p, e, i) :
               /\ At(p, i + k).arg \in Nat
               /\ i + k < e
          /\ Bodies(p, e, i) > 0 => Cases(p, e, i) > 0
          /\ Bodies(p, e, i) >= Cases(p, e, i)
      BY <1>1, SelectLayout
    <3> QED
      BY <3>1
  <2>3. ASSUME NEW k \in 1..n
        PROVE  BodyStart(p, e, i, k) \in Nat /\ i < BodyStart(p, e, i, k)
    <3>1. k \in 1..(Bodies(p, e, i) + 1)
      BY <2>2
    <3> HIDE DEF i, e, n
    <3> QED
      BY <1>1, <3>1, BodiesBehind
  <2>4. ASSUME NEW k \in 1..n
        PROVE  Leaf(f, k) = Leaf(g, k) /\ Leaf(g, k) \in Depths
    <3>1. BodyStart(p, e, i, k) \in Nat /\ i < BodyStart(p, e, i, k)
      BY <2>3
    <3>2. At(p, i + k).arg \in Nat
      BY <2>2
    <3> DEFINE start == BodyStart(p, e, i, k)
               size == At(p, i + k).arg
    <3>3. /\ Left(p, f, x, start, size) = Left(p, g, x, start, size)
          /\ Left(p, g, x, start, size) \in Depths
      <4> HIDE DEF start, size, i, e, n
      <4> QED
        BY <1>3, <3>1, <3>2 DEF start, size
    <3>4. Refused \in Depths
      BY DEF Depths
    <3>5. \A q : Leaf(q, k) = IF start < e THEN Left(p, q, x, start, size) ELSE Refused
      OBVIOUS
    <3> HIDE DEF start, size, i, e, n, Leaf
    <3> QED
      BY <3>3, <3>4, <3>5
  <2> HIDE DEF Leaf, n
  <2>5. {Leaf(f, k) : k \in 1..n} = {Leaf(g, k) : k \in 1..n}
    BY <2>4
  <2>6. {Leaf(g, k) : k \in 1..n} \subseteq Depths
    BY <2>4
  <2>7. Leaves(p, f, x) = {Leaf(f, k) : k \in 1..n}
    BY <2>1
  <2>8. Leaves(p, g, x) = {Leaf(g, k) : k \in 1..n}
    BY <2>1
  <2> QED
    BY <2>5, <2>6, <2>7, <2>8
<1> QED
  BY <1>4, <1>5

\* Where the leaves of a branch are judged, its bodies are there.
LaidIn(p, e, i) ==
  /\ Behind(p, e, i) \in Nat /\ i < Behind(p, e, i) /\ Behind(p, e, i) <= e
  /\ At(p, i).op = "if" =>
       /\ Fits(e, IfBody(p, e, i), At(p, i).arg)
       /\ HasElse(p, e, i) => Fits(e, ElseBody(p, e, i), At(p, i + 1).arg)
  /\ At(p, i).op = "sel" =>
       /\ Bodies(p, e, i) > 0
       /\ \A k \in 1..Bodies(p, e, i) :
            /\ BodyStart(p, e, i, k) < e
            /\ Fits(e, BodyStart(p, e, i, k), At(p, i + k).arg)

LEMMA LeavesFit ==
  ASSUME NEW p \in Programs, NEW x \in Walks(p), x.at < x.end, Branches(p, x), NEW g,
         Leaves(p, g, x) # {}, Refused \notin Leaves(p, g, x)
  PROVE  LaidIn(p, x.end, x.at)
<1> DEFINE i == x.at
           e == x.end
<1>1. e \in 0..Len(p) /\ i \in Nat /\ i < e /\ e \in Nat
  BY WalkTyped
<1>2. \A start, size : Left(p, g, x, start, size) # Refused => Fits(e, start, size)
  BY DEF Left
<1>3. CASE At(p, i).op = "if"
  <2> DEFINE b == IfBody(p, e, i)
             h == ElseBody(p, e, i)
             a == AfterIf(p, e, i)
  <2>1. /\ b \in Nat /\ i < b
        /\ At(p, i).arg \in Nat
        /\ h \in Nat /\ i < h
        /\ h = b + At(p, i).arg
        /\ HasElse(p, e, i) => /\ At(p, i + 1).arg \in Nat
                               /\ a = h + At(p, i + 1).arg
        /\ ~ HasElse(p, e, i) => a = h
    <3> HIDE DEF i, e
    <3> QED
      BY <1>1, IfLayout
  <2>2. Leaves(p, g, x) = IfLeaves(p, g, x)
    BY <1>3 DEF Leaves
  <2>3. /\ Left(p, g, x, b, At(p, i).arg) \in IfLeaves(p, g, x)
        /\ HasElse(p, e, i) => Left(p, g, x, h, At(p, i + 1).arg) \in IfLeaves(p, g, x)
    BY DEF IfLeaves
  <2>4. Behind(p, e, i) = a
    BY <1>3 DEF Behind
  <2> HIDE DEF a, b, h, i, e
  <2>5. /\ Fits(e, b, At(p, i).arg)
        /\ HasElse(p, e, i) => Fits(e, h, At(p, i + 1).arg)
    BY <1>2, <2>2, <2>3
  <2>6. b + At(p, i).arg <= e /\ (HasElse(p, e, i) => h + At(p, i + 1).arg <= e)
    BY <2>5 DEF Fits
  <2>7. a \in Nat /\ i < a /\ a <= e
    BY <1>1, <2>1, <2>6
  <2>8. At(p, i).op # "sel"
    BY <1>3
  <2>9. LaidIn(p, e, i)
    BY <2>4, <2>5, <2>7, <2>8 DEF LaidIn, b, h
  <2> QED
    BY <2>9 DEF i, e
<1>4. CASE At(p, i).op # "if"
  <2> DEFINE n == Bodies(p, e, i)
             Leaf(k) == IF BodyStart(p, e, i, k) < e
                        THEN Left(p, g, x, BodyStart(p, e, i, k), At(p, i + k).arg)
                        ELSE Refused
  <2>1. Leaves(p, g, x) = {Leaf(k) : k \in 1..n}
    BY <1>4 DEF Leaves, SelectLeaves
  <2>2. /\ Bodies(p, e, i) \in Nat
        /\ \A k \in 1..Bodies(p, e, i) :
             /\ At(p, i + k).arg \in Nat
             /\ i + k < e
        /\ Bodies(p, e, i) > 0 => Cases(p, e, i) > 0
        /\ Bodies(p, e, i) >= Cases(p, e, i)
    <3> HIDE DEF i, e
    <3> QED
      BY <1>1, SelectLayout
  <2>3. n > 0
    <3> HIDE DEF Leaf
    <3>1. 1..n # {}
      BY <2>1
    <3> QED
      BY <2>2, <3>1
  <2>4. \A k \in 1..n :
          /\ BodyStart(p, e, i, k) < e
          /\ Fits(e, BodyStart(p, e, i, k), At(p, i + k).arg)
    BY <1>2, <2>1
  <2>5. n \in 1..n /\ n \in 1..(Bodies(p, e, i) + 1) /\ n \in Nat \ {0}
    BY <2>2, <2>3
  <2>6. BodyStart(p, e, i, n + 1) = BodyStart(p, e, i, n) + At(p, i + n).arg
    BY <2>5, NextBody
  <2>7. BodyStart(p, e, i, n) \in Nat /\ i < BodyStart(p, e, i, n)
    <3> HIDE DEF i, e, n
    <3> QED
      BY <1>1, <2>5, BodiesBehind
  <2>8. BodyStart(p, e, i, n) + At(p, i + n).arg <= e /\ At(p, i + n).arg \in Nat
    BY <2>2, <2>4, <2>5 DEF Fits
  <2>9. Behind(p, e, i) = BodyStart(p, e, i, n + 1)
    BY <1>4 DEF Behind, AfterSelect
  <2> DEFINE last == BodyStart(p, e, i, n)
             size == At(p, i + n).arg
             behind == Behind(p, e, i)
  <2>10. behind = last + size /\ last \in Nat /\ size \in Nat /\ i < last /\ last + size <= e
    BY <2>6, <2>7, <2>8, <2>9
  <2>11. behind \in Nat /\ i < behind /\ behind <= e
    <3> HIDE DEF last, size, behind, i, e, n
    <3> QED
      BY <1>1, <2>10
  <2>12. LaidIn(p, e, i)
    BY <1>4, <2>3, <2>4, <2>11 DEF LaidIn
  <2> QED
    BY <2>12
<1> QED
  BY <1>3, <1>4

LEMMA BranchedTyped ==
  ASSUME NEW low \in BOOLEAN, NEW S, S \subseteq 0..MaxStack, S # {}
  PROVE  /\ Branched(low, S) \in 0..MaxStack
         /\ low => \A n \in S : Branched(low, S) <= n
         /\ ~ low => \A n \in S : n <= Branched(low, S)
<1>1. MaxStack \in Nat
  BY Limits
<1>2. /\ Min(S) \in S /\ \A x \in S : Min(S) <= x
      /\ Max(S) \in S /\ \A x \in S : Max(S) >= x
  BY <1>1, MinMaxIn
<1>3. Min(S) \in 0..MaxStack /\ Max(S) \in 0..MaxStack
  BY <1>2
<1>4. ASSUME NEW n \in S
      PROVE  n <= Max(S)
  <2> DEFINE m == Max(S)
  <2>1. m >= n /\ m \in 0..MaxStack /\ n \in 0..MaxStack
    BY <1>2, <1>3
  <2> HIDE DEF m
  <2>2. n <= m
    BY <1>1, <2>1
  <2> QED
    BY <2>2 DEF m
<1>5. Branched(low, S) = IF low THEN Min(S) ELSE Max(S)
  BY DEF Branched
<1> QED
  BY <1>2, <1>3, <1>4, <1>5

\* Where a walk goes on behind a branch, counting on what it leaves.
Over(p, d, x) ==
  [x EXCEPT !.at = Behind(p, x.end, x.at), !.depth = Branched(x.low, Leaves(p, d, x))]
\* Where it goes on behind any other operation.
Past(p, x) == [x EXCEPT !.at = @ + 1, !.depth = Now(p, x)]

LEMMA OverShorter ==
  ASSUME NEW p \in Programs, NEW x \in Walks(p), Allowed(p, x), Branches(p, x), NEW g,
         Leaves(p, g, x) \subseteq Depths,
         Leaves(p, g, x) # {}, Refused \notin Leaves(p, g, x)
  PROVE  /\ Over(p, g, x) \in Walks(p)
         /\ Rank(Over(p, g, x)) < Rank(x)
<1> DEFINE L == Leaves(p, g, x)
           a == Behind(p, x.end, x.at)
           n == Branched(x.low, L)
           y == [x EXCEPT !.at = a, !.depth = n]
<1>1. /\ x.at \in Nat /\ x.end \in Nat /\ x.end <= Len(p) /\ Len(p) \in Nat
      /\ x.at < x.end /\ x.low \in BOOLEAN
  BY WalkTyped DEF Allowed
<1>2. a \in Nat /\ x.at < a /\ a <= x.end
  BY <1>1, LeavesFit DEF LaidIn
<1>3. L \subseteq 0..MaxStack /\ L # {}
  BY DEF Depths
<1>4. n \in 0..MaxStack
  <2> HIDE DEF L
  <2> QED
    BY <1>1, <1>3, BranchedTyped
<1>5. a \in 0..Len(p)
  BY <1>1, <1>2
<1> HIDE DEF a, n
<1>6. y \in Walks(p) /\ y.at = a /\ y.end = x.end
  BY <1>1, <1>4, <1>5 DEF Walks
<1> HIDE DEF y
<1>7. Rank(y) < Rank(x)
  BY <1>1, <1>2, <1>6 DEF Rank
<1>8. Over(p, g, x) = y
  BY DEF Over, y, a, n
<1> QED
  BY <1>6, <1>7, <1>8

LEMMA PastShorter ==
  ASSUME NEW p \in Programs, NEW x \in Walks(p), Allowed(p, x)
  PROVE  /\ Past(p, x) \in Walks(p)
         /\ Rank(Past(p, x)) < Rank(x)
         /\ Past(p, x).at = x.at + 1 /\ Past(p, x).end = x.end
         /\ Past(p, x).depth = Now(p, x) /\ Past(p, x).low = x.low
<1> DEFINE now == Now(p, x)
           y == [x EXCEPT !.at = x.at + 1, !.depth = now]
<1>1. /\ x.at \in Nat /\ x.end \in Nat /\ x.end <= Len(p) /\ Len(p) \in Nat
      /\ x.at < x.end
  BY WalkTyped DEF Allowed
<1>2. now \in 0..MaxStack
  BY NowTyped
<1>3. x.at + 1 \in 0..Len(p)
  BY <1>1
<1> HIDE DEF now
<1>4. y \in Walks(p) /\ y.at = x.at + 1 /\ y.end = x.end /\ y.depth = now /\ y.low = x.low
  BY <1>2, <1>3 DEF Walks
<1>5. Past(p, x) = y
  BY DEF Past, now
<1> HIDE DEF y
<1>6. Rank(y) < Rank(x)
  BY <1>1, <1>4 DEF Rank
<1> QED
  BY <1>4, <1>5, <1>6 DEF now

\* What a walk comes to.
LEMMA JudgedCases ==
  ASSUME NEW p \in Programs, NEW x \in Walks(p), NEW d
  PROVE  /\ x.at >= x.end => Judged(p, d, x) = x.depth
         /\ x.at < x.end /\ ~ Allowed(p, x) => Judged(p, d, x) = Refused
         /\ Allowed(p, x) /\ Branches(p, x) =>
              IF Leaves(p, d, x) = {} \/ Refused \in Leaves(p, d, x)
              THEN Judged(p, d, x) = Refused
              ELSE Judged(p, d, x) = d[Over(p, d, x)]
         /\ Allowed(p, x) /\ ~ Branches(p, x) => Judged(p, d, x) = d[Past(p, x)]
<1> DEFINE u == Uses(At(p, x.at))
           now == Now(p, x)
           L == Leaves(p, d, x)
           over == d[[x EXCEPT !.at = Behind(p, x.end, x.at), !.depth = Branched(x.low, L)]]
           past == d[[x EXCEPT !.at = x.at + 1, !.depth = now]]
           b == At(p, x.at).op \in {"if", "sel"}
           at == x.at
           end == x.end
<1>1. /\ at \in Nat /\ end \in Nat /\ x.depth \in Nat /\ MaxStack \in Nat
      /\ u \in {0, 1}
  BY WalkTyped, UsesPushes
<1>2. now \in Int
  <2>1. now = x.depth - Uses(At(p, x.at)) + Pushes(At(p, x.at))
    BY DEF Now
  <2>2. Uses(At(p, x.at)) \in {0, 1} /\ Pushes(At(p, x.at)) \in {0, 1}
    BY UsesPushes
  <2>3. x.depth \in Nat
    BY <1>1
  <2> HIDE DEF now
  <2> QED
    BY <2>1, <2>2, <2>3
<1>3. Judged(p, d, x) =
        IF at >= end THEN x.depth
        ELSE IF u > x.depth \/ now > MaxStack THEN Refused
        ELSE IF b THEN IF L = {} \/ Refused \in L THEN Refused ELSE over
        ELSE past
  BY DEF Judged
<1>4. /\ Allowed(p, x) <=> at < end /\ u <= x.depth /\ now <= MaxStack
      /\ Branches(p, x) <=> b
  BY DEF Allowed, Branches
<1>5. over = d[Over(p, d, x)] /\ past = d[Past(p, x)]
  BY DEF Over, Past
<1> HIDE DEF u, now, L, over, past, b, at, end
<1>6. /\ at >= end <=> ~ (at < end)
      /\ u > x.depth <=> ~ (u <= x.depth)
      /\ now > MaxStack <=> ~ (now <= MaxStack)
  BY <1>1, <1>2
<1>7. at >= end => Judged(p, d, x) = x.depth
  BY <1>3
<1>8. at < end /\ ~ Allowed(p, x) => Judged(p, d, x) = Refused
  BY <1>3, <1>4, <1>6
<1>9. Allowed(p, x) /\ Branches(p, x) =>
        Judged(p, d, x) = IF L = {} \/ Refused \in L THEN Refused ELSE over
  BY <1>3, <1>4, <1>6
<1>10. Allowed(p, x) /\ ~ Branches(p, x) => Judged(p, d, x) = past
  BY <1>3, <1>4, <1>6
<1> QED
  BY <1>5, <1>7, <1>8, <1>9, <1>10 DEF L, at, end

\* It depends on shorter walks only, ...
LEMMA JudgedShorter ==
  ASSUME NEW p \in Programs, NEW x \in Walks(p),
         NEW f, NEW g \in [Walks(p) -> Depths],
         \A y \in Walks(p) : Rank(y) < Rank(x) => f[y] = g[y]
  PROVE  Judged(p, f, x) = Judged(p, g, x) /\ Judged(p, g, x) \in Depths
<1>1. CASE x.at >= x.end
  <2>1. x.depth \in Depths
    BY WalkTyped DEF Depths
  <2> QED
    BY <1>1, <2>1, JudgedCases
<1>2. CASE x.at < x.end /\ ~ Allowed(p, x)
  <2>1. Refused \in Depths
    BY DEF Depths
  <2> QED
    BY <1>2, <2>1, JudgedCases
<1>3. CASE Allowed(p, x) /\ Branches(p, x)
  <2>1. Leaves(p, f, x) = Leaves(p, g, x) /\ Leaves(p, g, x) \subseteq Depths
    BY <1>3, LeavesSame
  <2>2. CASE Leaves(p, g, x) = {} \/ Refused \in Leaves(p, g, x)
    <3>1. Judged(p, f, x) = Refused
      BY <1>3, <2>1, <2>2, JudgedCases
    <3>2. Judged(p, g, x) = Refused
      BY <1>3, <2>2, JudgedCases
    <3> QED
      BY <3>1, <3>2 DEF Depths
  <2>3. CASE ~ (Leaves(p, g, x) = {} \/ Refused \in Leaves(p, g, x))
    <3>1. Judged(p, f, x) = f[Over(p, f, x)]
      BY <1>3, <2>1, <2>3, JudgedCases
    <3>2. Judged(p, g, x) = g[Over(p, g, x)]
      BY <1>3, <2>3, JudgedCases
    <3>3. Over(p, f, x) = Over(p, g, x)
      BY <2>1 DEF Over
    <3>4. Over(p, g, x) \in Walks(p) /\ Rank(Over(p, g, x)) < Rank(x)
      BY <1>3, <2>1, <2>3, OverShorter
    <3> QED
      BY <3>1, <3>2, <3>3, <3>4
  <2> QED
    BY <2>2, <2>3
<1>4. CASE Allowed(p, x) /\ ~ Branches(p, x)
  <2>1. Past(p, x) \in Walks(p) /\ Rank(Past(p, x)) < Rank(x)
    BY <1>4, PastShorter
  <2>2. Judged(p, f, x) = f[Past(p, x)]
    BY <1>4, JudgedCases
  <2>3. Judged(p, g, x) = g[Past(p, x)]
    BY <1>4, JudgedCases
  <2> QED
    BY <2>1, <2>2, <2>3
<1>5. x.at >= x.end \/ x.at < x.end
  BY WalkTyped
<1> QED
  BY <1>1, <1>2, <1>3, <1>4, <1>5

LEMMA RankTyped ==
  ASSUME NEW p \in Programs, NEW x, x.at \in 0..Len(p), x.end \in 0..Len(p)
  PROVE  Rank(x) \in 0..Len(p)
<1>1. Len(p) \in Nat
  BY ProgTyped
<1> QED
  BY <1>1 DEF Rank

\* ... and so every walk comes to what Judged says of it, which is a depth or refusal.
LEMMA DepthIs ==
  ASSUME NEW p \in Programs
  PROVE  /\ Depth(p) \in [Walks(p) -> Depths]
         /\ \A x \in Walks(p) : Depth(p)[x] = Judged(p, Depth(p), x)
<1> DEFINE X == Walks(p)
           r == [x \in X |-> Rank(x)]
           J == [f \in [X -> Depths] |-> [x \in X |-> Judged(p, f, x)]]
<1>1. Len(p) \in Nat /\ Depths # {}
  BY ProgTyped DEF Depths
<1>2. \A x \in X : r[x] \in 0..Len(p) /\ r[x] = Rank(x)
  BY RankTyped DEF Walks
<1>3. ASSUME NEW f \in [X -> Depths]
      PROVE  J[f] \in [X -> Depths]
  BY JudgedShorter
<1>4. ASSUME NEW f \in [X -> Depths], NEW g \in [X -> Depths], NEW x \in X,
             \A y \in X : r[y] < r[x] => f[y] = g[y]
      PROVE  J[f][x] = J[g][x]
  <2>1. \A y \in Walks(p) : Rank(y) < Rank(x) => f[y] = g[y]
    BY <1>2, <1>4
  <2>2. Judged(p, f, x) = Judged(p, g, x)
    BY <2>1, JudgedShorter
  <2>3. J[f][x] = Judged(p, f, x) /\ J[g][x] = Judged(p, g, x)
    OBVIOUS
  <2> QED
    BY <2>2, <2>3
<1>5. \E f \in [X -> Depths] : f = J[f]
  <2> DEFINE n == Len(p)
  <2>1. n \in Nat /\ Depths # {}
    BY <1>1
  <2>2. \A x \in X : r[x] \in 0..n
    BY <1>2
  <2>3. \A f \in [X -> Depths] : J[f] \in [X -> Depths]
    BY <1>3
  <2>4. \A f, g \in [X -> Depths] : \A x \in X :
          (\A y \in X : r[y] < r[x] => f[y] = g[y]) => J[f][x] = J[g][x]
    BY <1>4
  <2> HIDE DEF X, r, J, n
  <2>5. Shortens(X, Depths, n, r, J)
    BY <2>1, <2>2, <2>3, <2>4 DEF Shortens
  <2> QED
    BY <2>5, Recursion
<1>6. PICK f \in [X -> Depths] : f = [x \in X |-> Judged(p, f, x)]
  BY <1>5
<1> DEFINE d == Depth(p)
<1>7. d = [x \in X |-> Judged(p, d, x)]
  BY <1>6 DEF Depth
<1> HIDE DEF d
<1> DEFINE G == {x \in X : d[x] = f[x]}
<1>8. ASSUME NEW x \in X, \A y \in X : r[y] < r[x] => y \in G
      PROVE  x \in G
  <2>1. \A y \in Walks(p) : Rank(y) < Rank(x) => d[y] = f[y]
    BY <1>8
  <2>2. Judged(p, d, x) = Judged(p, f, x)
    BY <2>1, JudgedShorter
  <2> QED
    BY <1>6, <1>7, <2>2
<1>9. X \subseteq G
  <2>1. \A x \in X : r[x] \in Nat
    BY <1>1, <1>2
  <2> HIDE DEF X, r, G
  <2> QED
    BY <1>8, <2>1, Shortening
<1>10. \A x \in X : d[x] \in Depths
  BY <1>9
<1>11. d \in [X -> Depths] /\ \A x \in X : d[x] = Judged(p, d, x)
  <2>1. d = [x \in X |-> d[x]]
    BY <1>7
  <2>2. \A x \in X : d[x] = Judged(p, d, x)
    BY <1>7
  <2> HIDE DEF X, G
  <2> QED
    BY <1>10, <2>1, <2>2
<1> QED
  BY <1>11 DEF d
-----------------------------------------------------------------------------
(* Passes *)

Marks == SUBSET (Temps \cup {Old})
Within(x, start, size) == [x EXCEPT !.at = start, !.end = start + size]
\* The operation x is at reads nothing that may be unwritten.
Known(p, x) ==
  x.at < x.end /\ Reads(At(p, x.at)) \subseteq x.written /\ At(p, x.at).op # "sel"
Forks(p, x) == At(p, x.at).op = "if"
OverIf(p, f, x) ==
  [x EXCEPT !.at = AfterIf(p, x.end, x.at),
            !.written = @ \cup BothWrite(IfWrites(p, f, x), ElseWrites(p, f, x))]
PastWrites(p, x) == [x EXCEPT !.at = @ + 1, !.written = @ \cup Writes(At(p, x.at))]

LEMMA PassTyped ==
  ASSUME NEW p \in Programs, NEW x \in Passes(p)
  PROVE  /\ x.at \in Nat /\ x.end \in Nat /\ x.at <= Len(p) /\ x.end <= Len(p)
         /\ x.end \in 0..Len(p) /\ x.at \in 0..Len(p)
         /\ x.written \subseteq Temps
         /\ Len(p) \in Nat
<1>1. Len(p) \in Nat
  BY ProgTyped
<1> QED
  BY <1>1 DEF Passes

LEMMA OldIsNone == Old \notin Temps
BY DEF Old, Temps

LEMMA WritesTyped ==
  ASSUME NEW p \in Programs, NEW end \in 0..Len(p), NEW i \in Nat, i < end
  PROVE  Writes(At(p, i)) \subseteq Temps /\ Reads(At(p, i)) \subseteq Temps
<1>1. i \in 0..(Len(p) - 1)
  BY OpHere
<1>2. At(p, i).op \in {"tget", "tput", "tsav"} => At(p, i).arg \in Temps
  BY <1>1, ProgTyped
<1> QED
  BY <1>2 DEF Writes, Reads

LEMMA WithinShorter ==
  ASSUME NEW p \in Programs, NEW x \in Passes(p), x.at < x.end,
         NEW start \in Nat, NEW size \in Nat, x.at < start, Fits(x.end, start, size)
  PROVE  /\ Within(x, start, size) \in Passes(p)
         /\ Rank(Within(x, start, size)) < Rank(x)
<1> DEFINE y == [x EXCEPT !.at = start, !.end = start + size]
<1>1. /\ x.at \in Nat /\ x.end \in Nat /\ x.end <= Len(p) /\ Len(p) \in Nat
  BY PassTyped
<1>2. start + size <= x.end
  BY DEF Fits
<1>3. start \in 0..Len(p) /\ start + size \in 0..Len(p)
  BY <1>1, <1>2
<1>4. y \in Passes(p) /\ y.at = start /\ y.end = start + size
  BY <1>3 DEF Passes
<1> HIDE DEF y
<1>5. Rank(y) < Rank(x)
  BY <1>1, <1>2, <1>4 DEF Rank
<1>6. Within(x, start, size) = y
  BY DEF Within, y
<1> QED
  BY <1>4, <1>5, <1>6

LEMMA BodySame ==
  ASSUME NEW p \in Programs, NEW x \in Passes(p), x.at < x.end,
         NEW f, NEW g \in [Passes(p) -> Marks],
         \A y \in Passes(p) : Rank(y) < Rank(x) => f[y] = g[y],
         NEW start \in Nat, NEW size \in Nat, x.at < start
  PROVE  /\ Body(f, x, start, size) = Body(g, x, start, size)
         /\ Body(g, x, start, size) \in Marks
<1>1. CASE ~ Fits(x.end, start, size)
  BY <1>1 DEF Body, Marks
<1>2. CASE Fits(x.end, start, size)
  <2> DEFINE y == Within(x, start, size)
  <2>1. y \in Passes(p) /\ Rank(y) < Rank(x)
    BY <1>2, WithinShorter
  <2>2. Body(f, x, start, size) = f[y] /\ Body(g, x, start, size) = g[y]
    BY <1>2 DEF Body, Within
  <2> HIDE DEF y
  <2> QED
    BY <2>1, <2>2
<1> QED
  BY <1>1, <1>2

LEMMA BothSame ==
  ASSUME NEW p \in Programs, NEW x \in Passes(p), x.at < x.end,
         NEW f, NEW g \in [Passes(p) -> Marks],
         \A y \in Passes(p) : Rank(y) < Rank(x) => f[y] = g[y]
  PROVE  /\ IfWrites(p, f, x) = IfWrites(p, g, x) /\ IfWrites(p, g, x) \in Marks
         /\ ElseWrites(p, f, x) = ElseWrites(p, g, x) /\ ElseWrites(p, g, x) \in Marks
<1> DEFINE i == x.at
           e == x.end
           b == IfBody(p, e, i)
           h == ElseBody(p, e, i)
<1>1. e \in 0..Len(p) /\ i \in Nat /\ i < e
  BY PassTyped
<1>2. /\ b \in Nat /\ i < b
      /\ At(p, i).arg \in Nat
      /\ h \in Nat /\ i < h
      /\ HasElse(p, e, i) => At(p, i + 1).arg \in Nat
  <2> HIDE DEF i, e
  <2> QED
    BY <1>1, IfLayout
<1>3. \A start, size \in Nat :
        i < start =>
          /\ Body(f, x, start, size) = Body(g, x, start, size)
          /\ Body(g, x, start, size) \in Marks
  BY BodySame
<1>4. \A q : /\ IfWrites(p, q, x) = Body(q, x, b, At(p, i).arg)
             /\ ElseWrites(p, q, x) = IF HasElse(p, e, i)
                                      THEN Body(q, x, h, At(p, i + 1).arg) ELSE x.written
  BY DEF IfWrites, ElseWrites
<1>5. x.written \in Marks
  BY PassTyped DEF Marks
<1> HIDE DEF b, h, i, e
<1> QED
  BY <1>2, <1>3, <1>4, <1>5

\* Where both ways of an if can be followed, its bodies are there.
LEMMA ForkFits ==
  ASSUME NEW p \in Programs, NEW x \in Passes(p), x.at < x.end, NEW g,
         Old \notin IfWrites(p, g, x), Old \notin ElseWrites(p, g, x)
  PROVE  /\ AfterIf(p, x.end, x.at) \in Nat /\ x.at < AfterIf(p, x.end, x.at)
         /\ AfterIf(p, x.end, x.at) <= x.end
         /\ Fits(x.end, IfBody(p, x.end, x.at), At(p, x.at).arg)
         /\ HasElse(p, x.end, x.at) =>
              Fits(x.end, ElseBody(p, x.end, x.at), At(p, x.at + 1).arg)
<1> DEFINE i == x.at
           e == x.end
           b == IfBody(p, e, i)
           h == ElseBody(p, e, i)
           a == AfterIf(p, e, i)
<1>1. e \in 0..Len(p) /\ i \in Nat /\ i < e /\ e \in Nat
  BY PassTyped
<1>2. /\ b \in Nat /\ i < b
      /\ At(p, i).arg \in Nat
      /\ h \in Nat /\ i < h
      /\ h = b + At(p, i).arg
      /\ HasElse(p, e, i) => /\ At(p, i + 1).arg \in Nat
                             /\ a = h + At(p, i + 1).arg
      /\ ~ HasElse(p, e, i) => a = h
  <2> HIDE DEF i, e
  <2> QED
    BY <1>1, IfLayout
<1>3. \A start, size : Old \notin Body(g, x, start, size) => Fits(e, start, size)
  BY DEF Body
<1>4. /\ IfWrites(p, g, x) = Body(g, x, b, At(p, i).arg)
      /\ HasElse(p, e, i) => ElseWrites(p, g, x) = Body(g, x, h, At(p, i + 1).arg)
  BY DEF IfWrites, ElseWrites
<1> HIDE DEF a, b, h, i, e
<1>5. Fits(e, b, At(p, i).arg) /\ (HasElse(p, e, i) => Fits(e, h, At(p, i + 1).arg))
  BY <1>3, <1>4
<1>6. b + At(p, i).arg <= e /\ (HasElse(p, e, i) => h + At(p, i + 1).arg <= e)
  BY <1>5 DEF Fits
<1>7. a \in Nat /\ i < a /\ a <= e
  BY <1>1, <1>2, <1>6
<1> QED
  BY <1>5, <1>7 DEF a, b, h, i, e

LEMMA OverIfShorter ==
  ASSUME NEW p \in Programs, NEW x \in Passes(p), x.at < x.end, NEW g,
         IfWrites(p, g, x) \in Marks, ElseWrites(p, g, x) \in Marks,
         Old \notin IfWrites(p, g, x), Old \notin ElseWrites(p, g, x)
  PROVE  /\ OverIf(p, g, x) \in Passes(p)
         /\ Rank(OverIf(p, g, x)) < Rank(x)
<1> DEFINE a == AfterIf(p, x.end, x.at)
           w == x.written \cup BothWrite(IfWrites(p, g, x), ElseWrites(p, g, x))
           y == [x EXCEPT !.at = a, !.written = w]
<1>1. /\ x.at \in Nat /\ x.end \in Nat /\ x.end <= Len(p) /\ Len(p) \in Nat
      /\ x.written \subseteq Temps
  BY PassTyped
<1>2. a \in Nat /\ x.at < a /\ a <= x.end
  BY ForkFits
<1>3. w \in SUBSET Temps
  BY <1>1 DEF BothWrite, Marks
<1>4. a \in 0..Len(p)
  BY <1>1, <1>2
<1>5. OverIf(p, g, x) = y
  BY DEF OverIf
<1> HIDE DEF a, w
<1>6. y \in Passes(p) /\ y.at = a /\ y.end = x.end
  BY <1>3, <1>4 DEF Passes
<1> HIDE DEF y
<1>7. Rank(y) < Rank(x)
  BY <1>1, <1>2, <1>6 DEF Rank
<1> QED
  BY <1>5, <1>6, <1>7

LEMMA PastWritesShorter ==
  ASSUME NEW p \in Programs, NEW x \in Passes(p), x.at < x.end
  PROVE  /\ PastWrites(p, x) \in Passes(p)
         /\ Rank(PastWrites(p, x)) < Rank(x)
         /\ PastWrites(p, x).at = x.at + 1 /\ PastWrites(p, x).end = x.end
         /\ PastWrites(p, x).written = x.written \cup Writes(At(p, x.at))
<1> DEFINE w == x.written \cup Writes(At(p, x.at))
           y == [x EXCEPT !.at = x.at + 1, !.written = w]
<1>1. /\ x.at \in Nat /\ x.end \in Nat /\ x.end <= Len(p) /\ Len(p) \in Nat
      /\ x.written \subseteq Temps /\ x.end \in 0..Len(p)
  BY PassTyped
<1>2. w \in SUBSET Temps
  BY <1>1, WritesTyped
<1>3. x.at + 1 \in 0..Len(p)
  BY <1>1
<1>4. PastWrites(p, x) = y
  BY DEF PastWrites
<1> HIDE DEF w
<1>5. y \in Passes(p) /\ y.at = x.at + 1 /\ y.end = x.end /\ y.written = w
  BY <1>2, <1>3 DEF Passes
<1> HIDE DEF y
<1>6. Rank(y) < Rank(x)
  BY <1>1, <1>5 DEF Rank
<1> QED
  BY <1>4, <1>5, <1>6 DEF w

LEMMA FollowedCases ==
  ASSUME NEW p \in Programs, NEW x \in Passes(p), NEW f
  PROVE  /\ x.at >= x.end => Followed(p, f, x) = x.written
         /\ x.at < x.end /\ ~ Known(p, x) => Followed(p, f, x) = {Old}
         /\ Known(p, x) /\ Forks(p, x) =>
              IF Old \in IfWrites(p, f, x) \cup ElseWrites(p, f, x)
              THEN Followed(p, f, x) = {Old}
              ELSE Followed(p, f, x) = f[OverIf(p, f, x)]
         /\ Known(p, x) /\ ~ Forks(p, x) => Followed(p, f, x) = f[PastWrites(p, x)]
<1> DEFINE w == x.written
           reads == Reads(At(p, x.at)) \subseteq w
           sel == At(p, x.at).op = "sel"
           fork == At(p, x.at).op = "if"
           lost == Old \in IfWrites(p, f, x) \cup ElseWrites(p, f, x)
           over == f[[x EXCEPT !.at = AfterIf(p, x.end, x.at),
                               !.written = x.written \cup BothWrite(IfWrites(p, f, x), ElseWrites(p, f, x))]]
           past == f[[x EXCEPT !.at = x.at + 1, !.written = x.written \cup Writes(At(p, x.at))]]
           at == x.at
           end == x.end
<1>1. at \in Nat /\ end \in Nat
  BY PassTyped
<1>2. Followed(p, f, x) =
        IF at >= end THEN w
        ELSE IF ~ reads \/ sel THEN {Old}
        ELSE IF fork THEN IF lost THEN {Old} ELSE over
        ELSE past
  BY DEF Followed
<1>3. /\ Known(p, x) <=> at < end /\ reads /\ ~ sel
      /\ Forks(p, x) <=> fork
  BY DEF Known, Forks
<1>4. over = f[OverIf(p, f, x)] /\ past = f[PastWrites(p, x)]
  BY DEF OverIf, PastWrites
<1> HIDE DEF w, reads, sel, fork, lost, over, past, at, end
<1>5. at >= end <=> ~ (at < end)
  BY <1>1
<1>6. at >= end => Followed(p, f, x) = w
  BY <1>2
<1>7. at < end /\ ~ Known(p, x) => Followed(p, f, x) = {Old}
  BY <1>2, <1>3, <1>5
<1>8. Known(p, x) /\ Forks(p, x) =>
        Followed(p, f, x) = IF lost THEN {Old} ELSE over
  BY <1>2, <1>3, <1>5
<1>9. Known(p, x) /\ ~ Forks(p, x) => Followed(p, f, x) = past
  BY <1>2, <1>3, <1>5
<1> QED
  BY <1>4, <1>6, <1>7, <1>8, <1>9 DEF w, lost, at, end

LEMMA FollowedShorter ==
  ASSUME NEW p \in Programs, NEW x \in Passes(p),
         NEW f, NEW g \in [Passes(p) -> Marks],
         \A y \in Passes(p) : Rank(y) < Rank(x) => f[y] = g[y]
  PROVE  Followed(p, f, x) = Followed(p, g, x) /\ Followed(p, g, x) \in Marks
<1>1. CASE x.at >= x.end
  <2>1. x.written \in Marks
    BY PassTyped DEF Marks
  <2> QED
    BY <1>1, <2>1, FollowedCases
<1>2. CASE x.at < x.end /\ ~ Known(p, x)
  <2>1. {Old} \in Marks
    BY DEF Marks
  <2> QED
    BY <1>2, <2>1, FollowedCases
<1>3. CASE Known(p, x) /\ Forks(p, x)
  <2> DEFINE lost == Old \in IfWrites(p, g, x) \cup ElseWrites(p, g, x)
  <2>0. x.at < x.end
    BY <1>3 DEF Known
  <2>1. /\ IfWrites(p, f, x) = IfWrites(p, g, x) /\ IfWrites(p, g, x) \in Marks
        /\ ElseWrites(p, f, x) = ElseWrites(p, g, x) /\ ElseWrites(p, g, x) \in Marks
    BY <2>0, BothSame
  <2>2. CASE lost
    <3>1. Followed(p, f, x) = {Old}
      BY <1>3, <2>1, <2>2, FollowedCases
    <3>2. Followed(p, g, x) = {Old}
      BY <1>3, <2>2, FollowedCases
    <3>3. {Old} \in Marks
      BY DEF Marks
    <3> QED
      BY <3>1, <3>2, <3>3
  <2>3. CASE ~ lost
    <3>1. Followed(p, f, x) = f[OverIf(p, f, x)]
      BY <1>3, <2>1, <2>3, FollowedCases
    <3>2. Followed(p, g, x) = g[OverIf(p, g, x)]
      BY <1>3, <2>3, FollowedCases
    <3>3. OverIf(p, f, x) = OverIf(p, g, x)
      BY <2>1 DEF OverIf
    <3>4. OverIf(p, g, x) \in Passes(p) /\ Rank(OverIf(p, g, x)) < Rank(x)
      BY <2>0, <2>1, <2>3, OverIfShorter
    <3> QED
      BY <3>1, <3>2, <3>3, <3>4
  <2> QED
    BY <2>2, <2>3
<1>4. CASE Known(p, x) /\ ~ Forks(p, x)
  <2>0. x.at < x.end
    BY <1>4 DEF Known
  <2>1. PastWrites(p, x) \in Passes(p) /\ Rank(PastWrites(p, x)) < Rank(x)
    BY <2>0, PastWritesShorter
  <2>2. Followed(p, f, x) = f[PastWrites(p, x)]
    BY <1>4, FollowedCases
  <2>3. Followed(p, g, x) = g[PastWrites(p, x)]
    BY <1>4, FollowedCases
  <2> QED
    BY <2>1, <2>2, <2>3
<1>5. x.at >= x.end \/ x.at < x.end
  BY PassTyped
<1> QED
  BY <1>1, <1>2, <1>3, <1>4, <1>5

LEMMA WrittenAfterIs ==
  ASSUME NEW p \in Programs
  PROVE  /\ WrittenAfter(p) \in [Passes(p) -> Marks]
         /\ \A x \in Passes(p) : WrittenAfter(p)[x] = Followed(p, WrittenAfter(p), x)
<1> DEFINE X == Passes(p)
           r == [x \in X |-> Rank(x)]
           J == [f \in [X -> Marks] |-> [x \in X |-> Followed(p, f, x)]]
<1>1. Len(p) \in Nat /\ Marks # {}
  BY ProgTyped DEF Marks
<1>2. \A x \in X : r[x] \in 0..Len(p) /\ r[x] = Rank(x)
  BY RankTyped DEF Passes
<1>3. ASSUME NEW f \in [X -> Marks]
      PROVE  J[f] \in [X -> Marks]
  BY FollowedShorter
<1>4. ASSUME NEW f \in [X -> Marks], NEW g \in [X -> Marks], NEW x \in X,
             \A y \in X : r[y] < r[x] => f[y] = g[y]
      PROVE  J[f][x] = J[g][x]
  <2>1. \A y \in Passes(p) : Rank(y) < Rank(x) => f[y] = g[y]
    BY <1>2, <1>4
  <2>2. Followed(p, f, x) = Followed(p, g, x)
    BY <2>1, FollowedShorter
  <2>3. J[f][x] = Followed(p, f, x) /\ J[g][x] = Followed(p, g, x)
    OBVIOUS
  <2> QED
    BY <2>2, <2>3
<1>5. \E f \in [X -> Marks] : f = J[f]
  <2> DEFINE n == Len(p)
  <2>1. n \in Nat /\ Marks # {}
    BY <1>1
  <2>2. \A x \in X : r[x] \in 0..n
    BY <1>2
  <2>3. \A f \in [X -> Marks] : J[f] \in [X -> Marks]
    BY <1>3
  <2>4. \A f, g \in [X -> Marks] : \A x \in X :
          (\A y \in X : r[y] < r[x] => f[y] = g[y]) => J[f][x] = J[g][x]
    BY <1>4
  <2> HIDE DEF X, r, J, n
  <2>5. Shortens(X, Marks, n, r, J)
    BY <2>1, <2>2, <2>3, <2>4 DEF Shortens
  <2> QED
    BY <2>5, Recursion
<1>6. PICK f \in [X -> Marks] : f = [x \in X |-> Followed(p, f, x)]
  BY <1>5
<1> DEFINE d == WrittenAfter(p)
<1>7. d = [x \in X |-> Followed(p, d, x)]
  BY <1>6 DEF WrittenAfter
<1> HIDE DEF d
<1> DEFINE G == {x \in X : d[x] = f[x]}
<1>8. ASSUME NEW x \in X, \A y \in X : r[y] < r[x] => y \in G
      PROVE  x \in G
  <2>1. \A y \in Passes(p) : Rank(y) < Rank(x) => d[y] = f[y]
    BY <1>8
  <2>2. Followed(p, d, x) = Followed(p, f, x)
    BY <2>1, FollowedShorter
  <2> QED
    BY <1>6, <1>7, <2>2
<1>9. X \subseteq G
  <2>1. \A x \in X : r[x] \in Nat
    BY <1>1, <1>2
  <2> HIDE DEF X, r, G
  <2> QED
    BY <1>8, <2>1, Shortening
<1>10. \A x \in X : d[x] \in Marks
  BY <1>9
<1>11. d \in [X -> Marks] /\ \A x \in X : d[x] = Followed(p, d, x)
  <2>1. d = [x \in X |-> d[x]]
    BY <1>7
  <2>2. \A x \in X : d[x] = Followed(p, d, x)
    BY <1>7
  <2> HIDE DEF X, G
  <2> QED
    BY <1>10, <2>1, <2>2
<1> QED
  BY <1>11 DEF d
-----------------------------------------------------------------------------
(* What Begin has judged of the sequences under way *)

Frames(p) == [at : 0..Len(p), end : 0..Len(p)]
\* The walk of a frame that has come to where it is with depth n.
WalkAt(fr, n, b) == [at |-> fr.at, end |-> fr.end, depth |-> n, low |-> b]
LeavesAt(p, fr, n, b) == Leaves(p, Depth(p), WalkAt(fr, n, b))
NowAt(p, fr, n) == n - Uses(At(p, fr.at)) + Pushes(At(p, fr.at))
AtBranch(p, fr) == fr.at < fr.end /\ At(p, fr.at).op \in {"if", "sel"}

\* Frame c runs a body of the branch that frame a is at, and was walked from there.
Under(p, a, c, m, n, b) ==
  /\ AtBranch(p, a)
  /\ a.at < c.at /\ c.end <= a.end
  /\ Depth(p)[WalkAt(c, n, b)] \in LeavesAt(p, a, m, b)
\* A walk accepts frame fr from where it is.
Accepts(p, fr, n, b) ==
  /\ fr \in Frames(p) /\ fr.at <= fr.end
  /\ Depth(p)[WalkAt(fr, n, b)] # Refused
\* The frames are where a walk (low or not) has come, with depths d, without refusing.
Walked(p, F, n, d, b) ==
  /\ \A k \in 1..n : Accepts(p, F[k], d[k], b)
  /\ \A k \in 1..(n - 1) : Under(p, F[k], F[k + 1], d[k], d[k + 1], b)

LEMMA FrameTyped ==
  ASSUME NEW p \in Programs, NEW fr \in Frames(p)
  PROVE  /\ fr.at \in Nat /\ fr.end \in Nat /\ fr.end \in 0..Len(p) /\ fr.at \in 0..Len(p)
         /\ Len(p) \in Nat
<1>1. Len(p) \in Nat
  BY ProgTyped
<1>2. fr.at \in 0..Len(p) /\ fr.end \in 0..Len(p)
  BY DEF Frames
<1> QED
  BY <1>1, <1>2

LEMMA WalkAtTyped ==
  ASSUME NEW p \in Programs, NEW fr \in Frames(p), NEW n \in 0..MaxStack, NEW b \in BOOLEAN
  PROVE  /\ WalkAt(fr, n, b) \in Walks(p)
         /\ WalkAt(fr, n, b).at = fr.at /\ WalkAt(fr, n, b).end = fr.end
         /\ WalkAt(fr, n, b).depth = n /\ WalkAt(fr, n, b).low = b
         /\ Now(p, WalkAt(fr, n, b)) = NowAt(p, fr, n)
         /\ fr.at \in Nat /\ fr.end \in Nat /\ fr.end \in 0..Len(p) /\ Len(p) \in Nat
<1>1. Len(p) \in Nat
  BY ProgTyped
<1>2. fr.at \in 0..Len(p) /\ fr.end \in 0..Len(p)
  BY DEF Frames
<1>3. WalkAt(fr, n, b) \in Walks(p)
  BY <1>2 DEF WalkAt, Walks
<1> QED
  BY <1>1, <1>2, <1>3 DEF WalkAt, Now, NowAt

\* Where the operation of an accepted frame is, its walk goes on.
LEMMA AcceptedGoesOn ==
  ASSUME NEW p \in Programs, NEW fr, NEW n \in 0..MaxStack, NEW b \in BOOLEAN,
         Accepts(p, fr, n, b), fr.at < fr.end
  PROVE  /\ Allowed(p, WalkAt(fr, n, b))
         /\ Uses(At(p, fr.at)) <= n
         /\ NowAt(p, fr, n) \in 0..MaxStack
         /\ AtBranch(p, fr) =>
              /\ Branches(p, WalkAt(fr, n, b))
              /\ LeavesAt(p, fr, n, b) # {} /\ LeavesAt(p, fr, n, b) \subseteq 0..MaxStack
              /\ Refused \notin LeavesAt(p, fr, n, b)
              /\ Depth(p)[WalkAt(fr, n, b)] = Depth(p)[Over(p, Depth(p), WalkAt(fr, n, b))]
         /\ ~ AtBranch(p, fr) =>
              Depth(p)[WalkAt(fr, n, b)] = Depth(p)[Past(p, WalkAt(fr, n, b))]
<1> DEFINE x == WalkAt(fr, n, b)
           d == Depth(p)
<1>1. fr \in Frames(p) /\ d[x] # Refused
  BY DEF Accepts
<1>2. x \in Walks(p) /\ x.at = fr.at /\ x.end = fr.end /\ x.depth = n /\ x.low = b
      /\ Now(p, x) = NowAt(p, fr, n)
  BY <1>1, WalkAtTyped
<1>3. d \in [Walks(p) -> Depths] /\ \A y \in Walks(p) : d[y] = Judged(p, d, y)
  BY DepthIs
<1> HIDE DEF x, d
<1>4. d[x] = Judged(p, d, x)
  BY <1>2, <1>3
<1>5. x.at < x.end
  BY <1>2
<1>6. Allowed(p, x)
  BY <1>1, <1>2, <1>4, <1>5, JudgedCases
<1>7. Uses(At(p, fr.at)) <= n /\ NowAt(p, fr, n) \in 0..MaxStack
  <2>1. Now(p, x) \in 0..MaxStack
    BY <1>2, <1>6, NowTyped
  <2> QED
    BY <1>2, <1>6, <2>1 DEF Allowed
<1>8. AtBranch(p, fr) <=> Branches(p, x)
  BY <1>2 DEF AtBranch, Branches
<1>9. CASE Branches(p, x)
  <2>1. ~ (Leaves(p, d, x) = {} \/ Refused \in Leaves(p, d, x))
    BY <1>1, <1>2, <1>4, <1>6, <1>9, JudgedCases
  <2>2. d[x] = d[Over(p, d, x)]
    BY <1>2, <1>4, <1>6, <1>9, <2>1, JudgedCases
  <2>3. Leaves(p, d, x) \subseteq Depths
    BY <1>2, <1>3, <1>6, <1>9, LeavesSame
  <2>4. Leaves(p, d, x) \subseteq 0..MaxStack
    BY <2>1, <2>3 DEF Depths
  <2> QED
    BY <1>6, <1>7, <1>8, <1>9, <2>1, <2>2, <2>4 DEF LeavesAt, x, d
<1>10. CASE ~ Branches(p, x)
  <2>1. d[x] = d[Past(p, x)]
    BY <1>2, <1>4, <1>6, <1>10, JudgedCases
  <2> QED
    BY <1>6, <1>7, <1>8, <1>10, <2>1 DEF x, d
<1> QED
  BY <1>9, <1>10

\* The innermost frame of F has moved on, and its walk with it, ...
Moved(p, F, G, n, d, v, b) ==
  /\ Walked(p, F, n, d, b)
  /\ \A k \in 1..(n - 1) : G[k] = F[k]
  /\ G[n] \in Frames(p) /\ G[n].end = F[n].end
  /\ F[n].at <= G[n].at /\ G[n].at <= F[n].end
  /\ Depth(p)[WalkAt(G[n], v, b)] = Depth(p)[WalkAt(F[n], d[n], b)]
Put(d, n, v) == [d EXCEPT ![n] = v]

LEMMA PutIs ==
  ASSUME NEW n \in Nat \ {0}, NEW d \in [Nat -> 0..MaxStack], NEW v \in 0..MaxStack
  PROVE  /\ Put(d, n, v) \in [Nat -> 0..MaxStack] /\ Put(d, n, v)[n] = v
         /\ \A k \in Nat : k # n => Put(d, n, v)[k] = d[k]
BY DEF Put

\* ... and is accepted where it is now.
LEMMA MoveWalked ==
  ASSUME NEW p \in Programs, NEW F, NEW G, NEW n \in Nat \ {0},
         NEW d \in [Nat -> 0..MaxStack], NEW v \in 0..MaxStack, NEW b \in BOOLEAN,
         Moved(p, F, G, n, d, v, b)
  PROVE  Walked(p, G, n, Put(d, n, v), b)
<1> DEFINE c == Put(d, n, v)
<1> USE DEF Moved
<1>1. c[n] = v /\ \A k \in 1..(n - 1) : c[k] = d[k]
  BY PutIs
<1> HIDE DEF c
<1>2. n \in 1..n /\ \A k \in 1..(n - 1) : k \in 1..n
  OBVIOUS
<1>3. Accepts(p, G[n], v, b)
  BY <1>2 DEF Walked, Accepts
<1>4. ASSUME NEW k \in 1..n
      PROVE  Accepts(p, G[k], c[k], b)
  <2>1. CASE k = n
    BY <1>1, <1>3, <2>1
  <2>2. CASE k # n
    <3>1. k \in 1..(n - 1)
      BY <2>2
    <3> QED
      BY <1>1, <3>1 DEF Walked
  <2> QED
    BY <2>1, <2>2
<1>5. ASSUME NEW k \in 1..(n - 1)
      PROVE  Under(p, G[k], G[k + 1], c[k], c[k + 1], b)
  <2>1. Under(p, F[k], F[k + 1], d[k], d[k + 1], b)
    BY DEF Walked
  <2>2. G[k] = F[k] /\ c[k] = d[k]
    BY <1>1
  <2>3. CASE k + 1 = n
    <3>1. Under(p, F[k], F[n], d[k], d[n], b)
      BY <2>1, <2>3
    <3>2. /\ AtBranch(p, F[k]) /\ F[k].at < F[n].at /\ F[n].end <= F[k].end
          /\ Depth(p)[WalkAt(F[n], d[n], b)] \in LeavesAt(p, F[k], d[k], b)
      BY <3>1 DEF Under
    <3>3. F[k].at \in Nat /\ F[n].at \in Nat /\ G[n].at \in Nat
      <4>1. k \in 1..n
        BY <1>2
      <4>2. F[k] \in Frames(p) /\ F[n] \in Frames(p) /\ G[n] \in Frames(p)
        BY <1>2, <4>1 DEF Walked, Accepts
      <4> QED
        BY <4>2, FrameTyped
    <3> DEFINE at == F[k].at
               mid == F[n].at
               to == G[n].at
    <3>4. at < to
      <4>1. at < mid /\ mid <= to /\ at \in Nat /\ mid \in Nat /\ to \in Nat
        BY <3>2, <3>3
      <4> HIDE DEF at, mid, to
      <4> QED
        BY <4>1
    <3>5. Under(p, F[k], G[n], d[k], v, b)
      BY <3>2, <3>4 DEF Under
    <3> QED
      BY <1>1, <2>2, <2>3, <3>5
  <2>4. CASE k + 1 # n
    <3>1. k + 1 \in 1..(n - 1)
      BY <2>4
    <3>2. G[k + 1] = F[k + 1] /\ c[k + 1] = d[k + 1]
      BY <1>1, <3>1
    <3> QED
      BY <2>1, <2>2, <3>2
  <2> QED
    BY <2>3, <2>4
<1>6. Walked(p, G, n, c, b)
  BY <1>4, <1>5 DEF Walked
<1> QED
  BY <1>6 DEF c

LEMMA WalksEqual ==
  ASSUME NEW p, NEW x \in Walks(p), NEW y \in Walks(p),
         x.at = y.at, x.end = y.end, x.depth = y.depth, x.low = y.low
  PROVE  x = y
BY DEF Walks

LEMMA WalkOn ==
  ASSUME NEW p, NEW x \in Walks(p), NEW a \in 0..Len(p), NEW v \in 0..MaxStack
  PROVE  [x EXCEPT !.at = a, !.depth = v]
           = [at |-> a, end |-> x.end, depth |-> v, low |-> x.low]
<1> DEFINE y == [x EXCEPT !.at = a, !.depth = v]
           z == [at |-> a, end |-> x.end, depth |-> v, low |-> x.low]
<1>1. y \in Walks(p) /\ y.at = a /\ y.end = x.end /\ y.depth = v /\ y.low = x.low
  BY DEF Walks
<1>2. z \in Walks(p) /\ z.at = a /\ z.end = x.end /\ z.depth = v /\ z.low = x.low
  BY DEF Walks
<1> HIDE DEF y, z
<1>3. y = z
  BY <1>1, <1>2, WalksEqual
<1> QED
  BY <1>3 DEF y, z

\* Where it goes on behind a branch, ...
Behindwards(p, fr) == [at |-> Behind(p, fr.end, fr.at), end |-> fr.end]
Onwards(fr) == [at |-> fr.at + 1, end |-> fr.end]

LEMMA BranchLaidIn ==
  ASSUME NEW p \in Programs, NEW fr, NEW m \in 0..MaxStack, NEW b \in BOOLEAN,
         Accepts(p, fr, m, b), AtBranch(p, fr)
  PROVE  /\ LaidIn(p, fr.end, fr.at)
         /\ Behindwards(p, fr) \in Frames(p)
         /\ Behindwards(p, fr).end = fr.end
         /\ Behindwards(p, fr).at = Behind(p, fr.end, fr.at)
         /\ fr.at <= Behindwards(p, fr).at /\ Behindwards(p, fr).at <= fr.end
<1> DEFINE x == WalkAt(fr, m, b)
           L == LeavesAt(p, fr, m, b)
           a == Behind(p, fr.end, fr.at)
           at == fr.at
           end == fr.end
<1>1. fr \in Frames(p) /\ at < end
  BY DEF Accepts, AtBranch
<1>2. Allowed(p, x) /\ Branches(p, x) /\ L # {} /\ Refused \notin L
  BY <1>1, AcceptedGoesOn
<1>3. x \in Walks(p) /\ x.at = at /\ x.end = end
  BY <1>1, WalkAtTyped
<1>4. L = Leaves(p, Depth(p), x)
  BY DEF LeavesAt
<1>5. at \in Nat /\ end \in 0..Len(p) /\ Len(p) \in Nat
  BY <1>1, FrameTyped
<1> HIDE DEF x, L, at, end
<1>6. x.at < x.end
  BY <1>1, <1>3
<1>7. LaidIn(p, x.end, x.at)
  BY <1>2, <1>3, <1>4, <1>6, LeavesFit
<1>8. LaidIn(p, end, at)
  BY <1>3, <1>7
<1>9. a \in Nat /\ at < a /\ a <= end
  BY <1>8 DEF LaidIn, at, end
<1> HIDE DEF a
<1>10. a \in 0..Len(p) /\ at <= a
  BY <1>5, <1>9
<1> DEFINE g == [at |-> a, end |-> end]
<1>11. g \in Frames(p) /\ g.at = a /\ g.end = end
  BY <1>5, <1>10 DEF Frames
<1>12. Behindwards(p, fr) = g
  BY DEF Behindwards, a, end
<1> HIDE DEF g
<1>13. LaidIn(p, fr.end, fr.at)
  BY <1>8 DEF at, end
<1>14. /\ Behindwards(p, fr) \in Frames(p)
       /\ Behindwards(p, fr).end = end
       /\ Behindwards(p, fr).at = a
       /\ at <= Behindwards(p, fr).at /\ Behindwards(p, fr).at <= end
  BY <1>9, <1>10, <1>11, <1>12
<1> QED
  BY <1>13, <1>14 DEF at, end, a

LEMMA OverFrame ==
  ASSUME NEW p \in Programs, NEW fr, NEW m \in 0..MaxStack, NEW b \in BOOLEAN,
         Accepts(p, fr, m, b), AtBranch(p, fr)
  PROVE  \E v \in 0..MaxStack :
           /\ Depth(p)[WalkAt(Behindwards(p, fr), v, b)] = Depth(p)[WalkAt(fr, m, b)]
           /\ b => \A l \in LeavesAt(p, fr, m, b) : v <= l
           /\ ~ b => \A l \in LeavesAt(p, fr, m, b) : l <= v
<1> DEFINE x == WalkAt(fr, m, b)
           L == LeavesAt(p, fr, m, b)
           v == Branched(b, L)
           a == Behind(p, fr.end, fr.at)
           over == Over(p, Depth(p), x)
<1>1. fr \in Frames(p) /\ fr.at < fr.end
  BY DEF Accepts, AtBranch
<1>2. /\ L # {} /\ L \subseteq 0..MaxStack
      /\ Depth(p)[x] = Depth(p)[over]
  BY <1>1, AcceptedGoesOn
<1>3. x.at = fr.at /\ x.end = fr.end /\ x.low = b
  BY DEF WalkAt
<1>4. L = Leaves(p, Depth(p), x)
  BY DEF LeavesAt
<1>5. /\ v \in 0..MaxStack
      /\ b => \A l \in L : v <= l
      /\ ~ b => \A l \in L : l <= v
  <2> HIDE DEF L
  <2> QED
    BY <1>2, BranchedTyped
<1>5a. a \in 0..Len(p)
  <2>1. /\ Behindwards(p, fr) \in Frames(p)
        /\ Behindwards(p, fr).at = a
    BY BranchLaidIn
  <2> HIDE DEF a
  <2> QED
    BY <2>1 DEF Frames
<1>6. over = [x EXCEPT !.at = a, !.depth = v]
  <2>1. over = [x EXCEPT !.at = Behind(p, x.end, x.at),
                         !.depth = Branched(x.low, Leaves(p, Depth(p), x))]
    BY DEF Over
  <2> HIDE DEF x, L, over
  <2> QED
    BY <1>3, <1>4, <2>1
<1> HIDE DEF v, a, L
<1>7. [x EXCEPT !.at = a, !.depth = v] = [at |-> a, end |-> fr.end, depth |-> v, low |-> b]
  <2>1. x \in Walks(p)
    BY <1>1, WalkAtTyped
  <2>2. a \in 0..Len(p)
    BY <1>5a
  <2> HIDE DEF x
  <2>3. [x EXCEPT !.at = a, !.depth = v]
          = [at |-> a, end |-> x.end, depth |-> v, low |-> x.low]
    BY <1>5, <2>1, <2>2, WalkOn
  <2> QED
    BY <1>3, <2>3
<1>8. WalkAt(Behindwards(p, fr), v, b) = [at |-> a, end |-> fr.end, depth |-> v, low |-> b]
  BY DEF WalkAt, Behindwards, a
<1> HIDE DEF over, x
<1>9. Depth(p)[WalkAt(Behindwards(p, fr), v, b)] = Depth(p)[x]
  BY <1>2, <1>6, <1>7, <1>8
<1> QED
  BY <1>5, <1>9 DEF x, L

\* ... and behind any other operation.
LEMMA PastFrame ==
  ASSUME NEW p \in Programs, NEW fr, NEW m \in 0..MaxStack, NEW b \in BOOLEAN,
         Accepts(p, fr, m, b), fr.at < fr.end, ~ AtBranch(p, fr)
  PROVE  /\ NowAt(p, fr, m) \in 0..MaxStack
         /\ Depth(p)[WalkAt(Onwards(fr), NowAt(p, fr, m), b)] = Depth(p)[WalkAt(fr, m, b)]
<1> DEFINE x == WalkAt(fr, m, b)
           v == NowAt(p, fr, m)
           a == fr.at + 1
           past == Past(p, x)
<1>1. fr \in Frames(p)
  BY DEF Accepts
<1>1a. fr.at + 1 \in 0..Len(p)
  <2>1. fr.at \in Nat /\ fr.end \in 0..Len(p) /\ Len(p) \in Nat
    BY <1>1, FrameTyped
  <2> QED
    BY <2>1
<1>2. v \in 0..MaxStack /\ Depth(p)[x] = Depth(p)[past]
  BY AcceptedGoesOn
<1>3. x.at = fr.at /\ Now(p, x) = v /\ x.end = fr.end /\ x.low = b
  BY <1>1, WalkAtTyped
<1>4. past = [x EXCEPT !.at = a, !.depth = v]
  <2>1. past = [x EXCEPT !.at = x.at + 1, !.depth = Now(p, x)]
    BY DEF Past
  <2> HIDE DEF x, past, v
  <2> QED
    BY <1>3, <2>1
<1> HIDE DEF v, a
<1>5. [x EXCEPT !.at = a, !.depth = v] = [at |-> a, end |-> fr.end, depth |-> v, low |-> b]
  <2>1. x \in Walks(p)
    BY <1>1, WalkAtTyped
  <2>2. a \in 0..Len(p)
    BY <1>1a DEF a
  <2> HIDE DEF x
  <2>3. [x EXCEPT !.at = a, !.depth = v]
          = [at |-> a, end |-> x.end, depth |-> v, low |-> x.low]
    BY <1>2, <2>1, <2>2, WalkOn
  <2> QED
    BY <1>3, <2>3
<1>6. WalkAt(Onwards(fr), v, b) = [at |-> a, end |-> fr.end, depth |-> v, low |-> b]
  BY DEF WalkAt, Onwards, a
<1> HIDE DEF past, x
<1>7. Depth(p)[WalkAt(Onwards(fr), v, b)] = Depth(p)[x]
  BY <1>2, <1>4, <1>5, <1>6
<1> QED
  BY <1>2, <1>7 DEF x, v

LEMMA OnwardsTyped ==
  ASSUME NEW p \in Programs, NEW fr \in Frames(p), fr.at < fr.end
  PROVE  /\ Onwards(fr) \in Frames(p) /\ Onwards(fr).end = fr.end
         /\ fr.at <= Onwards(fr).at /\ Onwards(fr).at <= fr.end
<1> DEFINE at == fr.at
           end == fr.end
           g == [at |-> at + 1, end |-> end]
<1>1. at \in Nat /\ end \in 0..Len(p) /\ Len(p) \in Nat /\ at < end
  BY FrameTyped
<1> HIDE DEF at, end
<1>2. at + 1 \in 0..Len(p) /\ at <= at + 1 /\ at + 1 <= end
  BY <1>1
<1>3. g \in Frames(p) /\ g.at = at + 1 /\ g.end = end
  BY <1>1, <1>2 DEF Frames
<1>4. Onwards(fr) = g
  BY DEF Onwards, at, end
<1> HIDE DEF g
<1>5. /\ Onwards(fr) \in Frames(p) /\ Onwards(fr).end = end
      /\ at <= Onwards(fr).at /\ Onwards(fr).at <= end
  BY <1>2, <1>3, <1>4
<1> QED
  BY <1>5 DEF at, end

LEMMA InnermostAccepted ==
  ASSUME NEW p, NEW F, NEW n \in Nat \ {0}, NEW d \in [Nat -> 0..MaxStack], NEW b,
         Walked(p, F, n, d, b)
  PROVE  Accepts(p, F[n], d[n], b) /\ d[n] \in 0..MaxStack
<1>1. n \in 1..n
  OBVIOUS
<1> QED
  BY <1>1 DEF Walked

\* What the walk counts on, of what the bodies leave.
Extreme(b, L, v) == /\ b => \A l \in L : v <= l
                    /\ ~ b => \A l \in L : l <= v
\* The outer frames are the same.
Alike(F, G, n) == \A k \in 1..(n - 1) : G[k] = F[k]

\* The innermost frame has moved on behind its branch, ...
LEMMA OverWalked ==
  ASSUME NEW p \in Programs, NEW F, NEW G, NEW n \in Nat \ {0},
         NEW d \in [Nat -> 0..MaxStack], NEW b \in BOOLEAN,
         Walked(p, F, n, d, b), AtBranch(p, F[n]),
         Alike(F, G, n), G[n] = Behindwards(p, F[n])
  PROVE  \E v \in 0..MaxStack :
           /\ Walked(p, G, n, Put(d, n, v), b)
           /\ Extreme(b, LeavesAt(p, F[n], d[n], b), v)
<1>1. Accepts(p, F[n], d[n], b) /\ d[n] \in 0..MaxStack
  BY InnermostAccepted
<1>2. PICK v \in 0..MaxStack :
        /\ Depth(p)[WalkAt(Behindwards(p, F[n]), v, b)] = Depth(p)[WalkAt(F[n], d[n], b)]
        /\ b => \A l \in LeavesAt(p, F[n], d[n], b) : v <= l
        /\ ~ b => \A l \in LeavesAt(p, F[n], d[n], b) : l <= v
  BY <1>1, OverFrame
<1>3. /\ Behindwards(p, F[n]) \in Frames(p)
      /\ Behindwards(p, F[n]).end = F[n].end
      /\ F[n].at <= Behindwards(p, F[n]).at /\ Behindwards(p, F[n]).at <= F[n].end
  BY <1>1, BranchLaidIn
<1>4. Walked(p, G, n, Put(d, n, v), b)
  <2>1. Depth(p)[WalkAt(G[n], v, b)] = Depth(p)[WalkAt(F[n], d[n], b)]
    BY <1>2
  <2>2. /\ G[n] \in Frames(p) /\ G[n].end = F[n].end
        /\ F[n].at <= G[n].at /\ G[n].at <= F[n].end
    BY <1>3
  <2>3. Moved(p, F, G, n, d, v, b)
    BY <2>1, <2>2 DEF Moved, Alike
  <2> QED
    BY <2>3, MoveWalked
<1> QED
  BY <1>2, <1>4 DEF Extreme

\* ... or any other operation.
LEMMA PastWalked ==
  ASSUME NEW p \in Programs, NEW F, NEW G, NEW n \in Nat \ {0},
         NEW d \in [Nat -> 0..MaxStack], NEW b \in BOOLEAN,
         Walked(p, F, n, d, b), F[n].at < F[n].end, ~ AtBranch(p, F[n]),
         \A k \in 1..(n - 1) : G[k] = F[k],
         G[n] = Onwards(F[n])
  PROVE  /\ NowAt(p, F[n], d[n]) \in 0..MaxStack
         /\ Walked(p, G, n, Put(d, n, NowAt(p, F[n], d[n])), b)
<1> DEFINE v == NowAt(p, F[n], d[n])
<1>1. Accepts(p, F[n], d[n], b) /\ d[n] \in 0..MaxStack
  BY InnermostAccepted
<1>2. /\ v \in 0..MaxStack
      /\ Depth(p)[WalkAt(Onwards(F[n]), v, b)] = Depth(p)[WalkAt(F[n], d[n], b)]
  BY <1>1, PastFrame
<1>3. F[n] \in Frames(p)
  BY <1>1 DEF Accepts
<1>4. /\ Onwards(F[n]) \in Frames(p) /\ Onwards(F[n]).end = F[n].end
      /\ F[n].at <= Onwards(F[n]).at /\ Onwards(F[n]).at <= F[n].end
  BY <1>3, OnwardsTyped
<1> HIDE DEF v
<1>5. Walked(p, G, n, Put(d, n, v), b)
  <2>1. Depth(p)[WalkAt(G[n], v, b)] = Depth(p)[WalkAt(F[n], d[n], b)]
    BY <1>2
  <2>2. /\ G[n] \in Frames(p) /\ G[n].end = F[n].end
        /\ F[n].at <= G[n].at /\ G[n].at <= F[n].end
    BY <1>4
  <2>3. Moved(p, F, G, n, d, v, b)
    BY <2>1, <2>2 DEF Moved
  <2> QED
    BY <1>2, <2>3, MoveWalked
<1> QED
  BY <1>2, <1>5 DEF v

\* A sequence of its own runs a body of the branch.
LEMMA PushWalked ==
  ASSUME NEW p \in Programs, NEW F, NEW G, NEW n \in Nat \ {0},
         NEW d \in [Nat -> 0..MaxStack], NEW b \in BOOLEAN, NEW v \in 0..MaxStack,
         Walked(p, F, n, d, b), Under(p, F[n], G[n + 1], d[n], v, b),
         \A k \in 1..n : G[k] = F[k],
         G[n + 1] \in Frames(p), G[n + 1].at <= G[n + 1].end
  PROVE  Walked(p, G, n + 1, Put(d, n + 1, v), b)
<1> DEFINE c == Put(d, n + 1, v)
<1>1. c[n + 1] = v /\ \A k \in 1..n : c[k] = d[k]
  <2>1. n + 1 \in Nat \ {0} /\ \A k \in 1..n : k \in Nat /\ k # n + 1
    OBVIOUS
  <2> QED
    BY <2>1, PutIs
<1> HIDE DEF c
<1>2. Accepts(p, G[n + 1], v, b)
  <2>1. Accepts(p, F[n], d[n], b) /\ d[n] \in 0..MaxStack
    BY InnermostAccepted
  <2>2. AtBranch(p, F[n]) /\ Depth(p)[WalkAt(G[n + 1], v, b)] \in LeavesAt(p, F[n], d[n], b)
    BY DEF Under
  <2>3. Refused \notin LeavesAt(p, F[n], d[n], b)
    BY <2>1, <2>2, AcceptedGoesOn DEF AtBranch
  <2> QED
    BY <2>2, <2>3 DEF Accepts
<1>3. ASSUME NEW k \in 1..(n + 1)
      PROVE  Accepts(p, G[k], c[k], b)
  <2>1. CASE k = n + 1
    BY <1>1, <1>2, <2>1
  <2>2. CASE k # n + 1
    <3>1. k \in 1..n
      BY <2>2
    <3> QED
      BY <1>1, <3>1 DEF Walked
  <2> QED
    BY <2>1, <2>2
<1>4. ASSUME NEW k \in 1..n
      PROVE  Under(p, G[k], G[k + 1], c[k], c[k + 1], b)
  <2>1. CASE k = n
    BY <1>1, <2>1
  <2>2. CASE k # n
    <3>1. k \in 1..(n - 1) /\ k + 1 \in 1..n
      BY <2>2
    <3> QED
      BY <1>1, <3>1 DEF Walked
  <2> QED
    BY <2>1, <2>2
<1>5. (n + 1) - 1 = n
  OBVIOUS
<1>6. Walked(p, G, n + 1, c, b)
  BY <1>3, <1>4, <1>5 DEF Walked
<1> QED
  BY <1>6 DEF c

LEMMA PopWalked ==
  ASSUME NEW p, NEW F, NEW G, NEW n \in Nat, n > 1, NEW d, NEW b,
         Walked(p, F, n, d, b), \A k \in 1..(n - 1) : G[k] = F[k]
  PROVE  Walked(p, G, n - 1, d, b)
<1>1. \A k \in 1..(n - 1) : k \in 1..n
  OBVIOUS
<1>2. \A k \in 1..((n - 1) - 1) : k \in 1..(n - 1) /\ k + 1 \in 1..(n - 1)
  OBVIOUS
<1> QED
  BY <1>1, <1>2 DEF Walked

\* The bodies of a branch.
Runs(p, fr, start, size) ==
  \/ /\ At(p, fr.at).op = "if"
     /\ start = IfBody(p, fr.end, fr.at) /\ size = At(p, fr.at).arg
  \/ /\ At(p, fr.at).op = "if" /\ HasElse(p, fr.end, fr.at)
     /\ start = ElseBody(p, fr.end, fr.at) /\ size = At(p, fr.at + 1).arg
  \/ /\ At(p, fr.at).op = "sel"
     /\ \E k \in 1..Bodies(p, fr.end, fr.at) :
          start = BodyStart(p, fr.end, fr.at, k) /\ size = At(p, fr.at + k).arg

LEMMA BranchUses ==
  ASSUME NEW p \in Programs, NEW fr, AtBranch(p, fr), NEW m \in Int
  PROVE  Uses(At(p, fr.at)) = 1 /\ NowAt(p, fr, m) = m - 1
<1>1. Uses(At(p, fr.at)) = 1 /\ Pushes(At(p, fr.at)) = 0
  BY DEF AtBranch, Uses, Pushes
<1> QED
  BY <1>1 DEF NowAt

\* They are in the sequence, ...
LEMMA RunsFit ==
  ASSUME NEW p \in Programs, NEW fr \in Frames(p), fr.at < fr.end, LaidIn(p, fr.end, fr.at),
         NEW start, NEW size, Runs(p, fr, start, size)
  PROVE  /\ start \in Nat /\ size \in Nat /\ fr.at < start
         /\ Fits(fr.end, start, size)
<1> DEFINE i == fr.at
           e == fr.end
<1>1. i \in Nat /\ e \in 0..Len(p) /\ i < e
  BY FrameTyped
<1>2. CASE At(p, i).op = "if" /\ start = IfBody(p, e, i) /\ size = At(p, i).arg
  <2>1. Fits(e, start, size)
    BY <1>2 DEF LaidIn
  <2>2. IfBody(p, e, i) \in Nat /\ i < IfBody(p, e, i) /\ At(p, i).arg \in Nat
    <3> HIDE DEF i, e
    <3> QED
      BY <1>1, IfLayout
  <2> QED
    BY <1>2, <2>1, <2>2
<1>3. CASE /\ At(p, i).op = "if" /\ HasElse(p, e, i)
           /\ start = ElseBody(p, e, i) /\ size = At(p, i + 1).arg
  <2>1. Fits(e, start, size)
    BY <1>3 DEF LaidIn
  <2>2. /\ ElseBody(p, e, i) \in Nat /\ i < ElseBody(p, e, i)
        /\ HasElse(p, e, i) => At(p, i + 1).arg \in Nat
    <3> HIDE DEF i, e
    <3> QED
      BY <1>1, IfLayout
  <2> QED
    BY <1>3, <2>1, <2>2
<1>4. CASE /\ At(p, i).op = "sel"
           /\ \E k \in 1..Bodies(p, e, i) :
                start = BodyStart(p, e, i, k) /\ size = At(p, i + k).arg
  <2>1. PICK k \in 1..Bodies(p, e, i) :
          start = BodyStart(p, e, i, k) /\ size = At(p, i + k).arg
    BY <1>4
  <2>2. Fits(e, start, size)
    BY <1>4, <2>1 DEF LaidIn
  <2> HIDE DEF i, e
  <2>3. /\ Bodies(p, e, i) \in Nat
        /\ \A u \in 1..Bodies(p, e, i) :
             /\ At(p, i + u).arg \in Nat
             /\ i + u < e
        /\ Bodies(p, e, i) > 0 => Cases(p, e, i) > 0
        /\ Bodies(p, e, i) >= Cases(p, e, i)
    BY <1>1, SelectLayout
  <2>4. k \in 1..(Bodies(p, e, i) + 1)
    BY <2>3
  <2>5. BodyStart(p, e, i, k) \in Nat /\ i < BodyStart(p, e, i, k)
    BY <1>1, <2>4, BodiesBehind
  <2> QED
    BY <2>1, <2>2, <2>3, <2>5 DEF i, e
<1> QED
  BY <1>2, <1>3, <1>4 DEF Runs

LEMMA WalkIn ==
  ASSUME NEW p, NEW x \in Walks(p), NEW a \in 0..Len(p), NEW e \in 0..Len(p),
         NEW v \in 0..MaxStack
  PROVE  [x EXCEPT !.at = a, !.end = e, !.depth = v]
           = [at |-> a, end |-> e, depth |-> v, low |-> x.low]
<1> DEFINE y == [x EXCEPT !.at = a, !.end = e, !.depth = v]
           z == [at |-> a, end |-> e, depth |-> v, low |-> x.low]
<1>1. y \in Walks(p) /\ y.at = a /\ y.end = e /\ y.depth = v /\ y.low = x.low
  BY DEF Walks
<1>2. z \in Walks(p) /\ z.at = a /\ z.end = e /\ z.depth = v /\ z.low = x.low
  BY DEF Walks
<1> HIDE DEF y, z
<1>3. y = z
  BY <1>1, <1>2, WalksEqual
<1> QED
  BY <1>3 DEF y, z

\* ... and a walk has been through them.
LEMMA RunsUnder ==
  ASSUME NEW p \in Programs, NEW fr, NEW m \in 0..MaxStack, NEW b \in BOOLEAN,
         Accepts(p, fr, m, b), AtBranch(p, fr),
         NEW start, NEW size, Runs(p, fr, start, size), NEW c,
         c = [at |-> start, end |-> start + size]
  PROVE  /\ Fits(fr.end, start, size)
         /\ c \in Frames(p) /\ c.at <= c.end
         /\ NowAt(p, fr, m) \in 0..MaxStack
         /\ Under(p, fr, c, m, NowAt(p, fr, m), b)
<1> DEFINE x == WalkAt(fr, m, b)
           d == Depth(p)
           now == NowAt(p, fr, m)
           left == Left(p, d, x, start, size)
           end == fr.end
           at == fr.at
<1>1. fr \in Frames(p) /\ fr.at < fr.end
  BY DEF Accepts, AtBranch
<1>2. now \in 0..MaxStack
  BY <1>1, AcceptedGoesOn
<1>3. LaidIn(p, fr.end, fr.at)
  BY BranchLaidIn
<1>4. start \in Nat /\ size \in Nat /\ fr.at < start /\ Fits(fr.end, start, size)
  BY <1>1, <1>3, RunsFit
<1>5. x \in Walks(p) /\ x.at = at /\ x.end = end /\ x.low = b /\ Now(p, x) = now
      /\ at \in Nat /\ end \in 0..Len(p) /\ Len(p) \in Nat
  BY <1>1, WalkAtTyped
<1>6. left \in Leaves(p, d, x)
  <2>1. CASE At(p, fr.at).op = "if"
    <3> DEFINE l1 == Left(p, d, x, IfBody(p, x.end, x.at), At(p, x.at).arg)
               l2 == Left(p, d, x, ElseBody(p, x.end, x.at), At(p, x.at + 1).arg)
    <3>1. Leaves(p, d, x) = {l1, IF HasElse(p, x.end, x.at) THEN l2 ELSE Now(p, x)}
      BY <1>5, <2>1 DEF Leaves, IfLeaves
    <3>2. left = l1 \/ (HasElse(p, x.end, x.at) /\ left = l2)
      <4> HIDE DEF x, d
      <4> QED
        BY <1>5, <2>1 DEF Runs
    <3> HIDE DEF l1, l2, left
    <3> QED
      BY <3>1, <3>2
  <2>2. CASE At(p, fr.at).op = "sel"
    <3>1. PICK k \in 1..Bodies(p, fr.end, fr.at) :
            start = BodyStart(p, fr.end, fr.at, k) /\ size = At(p, fr.at + k).arg
      BY <2>2 DEF Runs
    <3> DEFINE Leaf(u) == IF BodyStart(p, x.end, x.at, u) < x.end
                          THEN Left(p, d, x, BodyStart(p, x.end, x.at, u), At(p, x.at + u).arg)
                          ELSE Refused
    <3>2. Leaves(p, d, x) = {Leaf(u) : u \in 1..Bodies(p, x.end, x.at)}
      BY <1>5, <2>2 DEF Leaves, SelectLeaves
    <3>3. BodyStart(p, fr.end, fr.at, k) < fr.end
      BY <1>3, <2>2 DEF LaidIn
    <3>4. Leaf(k) = left /\ k \in 1..Bodies(p, x.end, x.at)
      <4> HIDE DEF x, d
      <4> QED
        BY <1>5, <3>1, <3>3
    <3> HIDE DEF Leaf, left, x, d
    <3> QED
      BY <3>2, <3>4
  <2> QED
    BY <2>1, <2>2 DEF AtBranch
<1>7. start + size <= end
  BY <1>4 DEF Fits
<1>8. start \in 0..Len(p) /\ start + size \in 0..Len(p) /\ start <= start + size
  <2> HIDE DEF end
  <2> QED
    BY <1>4, <1>5, <1>7
<1>9. c \in Frames(p) /\ c.at = start /\ c.end = start + size
  BY <1>8 DEF Frames
<1>10. left = d[WalkAt(c, now, b)]
  <2> DEFINE y == [x EXCEPT !.at = start, !.end = start + size, !.depth = Now(p, x)]
  <2>1. left = d[y]
    <3> HIDE DEF x, d
    <3> QED
      BY <1>4, <1>5 DEF Left
  <2>2. y = [at |-> start, end |-> start + size, depth |-> now, low |-> b]
    <3> DEFINE stop == start + size
    <3>1. stop \in 0..Len(p) /\ start \in 0..Len(p) /\ x \in Walks(p) /\ now \in 0..MaxStack
      BY <1>2, <1>5, <1>8
    <3>2. y = [x EXCEPT !.at = start, !.end = stop, !.depth = now]
      BY <1>5
    <3>3. x.low = b
      BY <1>5
    <3> HIDE DEF x, now, stop, y
    <3>4. [x EXCEPT !.at = start, !.end = stop, !.depth = now]
            = [at |-> start, end |-> stop, depth |-> now, low |-> x.low]
      BY <3>1, WalkIn
    <3> QED
      BY <3>2, <3>3, <3>4 DEF stop
  <2>3. WalkAt(c, now, b) = [at |-> start, end |-> start + size, depth |-> now, low |-> b]
    <3> HIDE DEF now
    <3> QED
      BY <1>9 DEF WalkAt
  <2> HIDE DEF left, y, now, d
  <2> QED
    BY <2>1, <2>2, <2>3
<1>11. Leaves(p, d, x) = LeavesAt(p, fr, m, b)
  BY DEF LeavesAt
<1>12. Under(p, fr, c, m, now, b)
  <2> HIDE DEF left, x
  <2> QED
    BY <1>4, <1>6, <1>7, <1>9, <1>10, <1>11 DEF Under
<1> QED
  BY <1>2, <1>4, <1>8, <1>9, <1>12
-----------------------------------------------------------------------------
(* The select finds its cases *)

LEMMA CasesHere ==
  ASSUME NEW p \in Programs, NEW e \in 0..Len(p), NEW i \in Nat, i < e,
         At(p, i).op = "sel", LaidIn(p, e, i)
  PROVE  /\ Cases(p, Len(p), i) = Cases(p, e, i)
         /\ Cases(p, e, i) \in Nat /\ Cases(p, e, i) > 0
         /\ i + 1 + Cases(p, e, i) < e
<1> DEFINE c == Cases(p, e, i)
           C == Cases(p, Len(p), i)
           n == Bodies(p, e, i)
<1>1. Len(p) \in Nat /\ e \in Nat /\ e <= Len(p) /\ Len(p) \in 0..Len(p)
  BY ProgTyped
<1>2. /\ c \in 0..e
      /\ \A u \in 1..c : IsAt(p, e, i + u, "case")
      /\ ~ IsAt(p, e, i + c + 1, "case")
      /\ \A k \in 0..e : (\A u \in 1..k : IsAt(p, e, i + u, "case")) => k <= c
  BY CasesAre
<1>3. /\ C \in 0..Len(p)
      /\ \A u \in 1..C : IsAt(p, Len(p), i + u, "case")
      /\ ~ IsAt(p, Len(p), i + C + 1, "case")
      /\ \A k \in 0..Len(p) : (\A u \in 1..k : IsAt(p, Len(p), i + u, "case")) => k <= C
  BY <1>1, CasesAre
<1>4. /\ Bodies(p, e, i) \in Nat
      /\ \A k \in 1..Bodies(p, e, i) :
           /\ At(p, i + k).arg \in Nat
           /\ i + k < e
      /\ Bodies(p, e, i) > 0 => Cases(p, e, i) > 0
      /\ Bodies(p, e, i) >= Cases(p, e, i)
  BY SelectLayout
<1>5. n > 0 /\ \A k \in 1..n : BodyStart(p, e, i, k) < e
  BY DEF LaidIn
<1>6. BodyStart(p, e, i, 1) = i + 1 + n
  BY FirstBody
<1> HIDE DEF c, C, n
<1>7. c > 0 /\ c \in Nat /\ n \in Nat /\ n >= c
  BY <1>1, <1>2, <1>4, <1>5 DEF c, n
<1>8. i + 1 + c < e /\ i + c + 1 < e
  <2>1. 1 \in 1..n
    BY <1>5, <1>7
  <2>2. i + 1 + n < e
    BY <1>5, <1>6, <2>1
  <2> QED
    BY <1>1, <1>7, <2>2
<1>9. At(p, i + c + 1).op # "case"
  BY <1>2, <1>8 DEF IsAt
<1>10. C <= c
  <2> SUFFICES ASSUME ~ (C <= c)
               PROVE  FALSE
    OBVIOUS
  <2>1. c + 1 \in 1..C /\ i + (c + 1) = i + c + 1
    BY <1>1, <1>3, <1>7
  <2>2. IsAt(p, Len(p), i + (c + 1), "case")
    BY <1>3, <2>1
  <2> QED
    BY <1>9, <2>1, <2>2 DEF IsAt
<1>11. c <= C
  <2>1. c \in 0..Len(p)
    BY <1>1, <1>2
  <2>2. ASSUME NEW u \in 1..c
        PROVE  IsAt(p, Len(p), i + u, "case")
    <3>1. i + u < e /\ At(p, i + u).op = "case"
      BY <1>2 DEF IsAt
    <3>2. i + u < Len(p)
      BY <1>1, <1>7, <3>1
    <3> QED
      BY <3>1, <3>2 DEF IsAt
  <2> QED
    BY <1>3, <2>1, <2>2
<1>12. C = c
  BY <1>1, <1>3, <1>7, <1>10, <1>11
<1> QED
  BY <1>7, <1>8, <1>12 DEF c, C

LEMMA SelectsLaidOut ==
  ASSUME prog \in Programs, NEW fr, NEW m \in 0..MaxStack, NEW b \in BOOLEAN,
         Accepts(prog, fr, m, b), AtBranch(prog, fr)
  PROVE  /\ LaidOut(fr.end, fr.at)
         /\ At(prog, fr.at).op = "sel" /\ SelectsDecide(prog) => HasDefault(prog, fr.end, fr.at)
<1> DEFINE e == fr.end
           i == fr.at
<1>1. fr \in Frames(prog) /\ fr.at < fr.end
  BY DEF Accepts, AtBranch
<1>2. e \in 0..Len(prog) /\ i \in Nat /\ i < e /\ Len(prog) \in Nat /\ e \in Nat
  BY <1>1, FrameTyped
<1>3. LaidIn(prog, e, i)
  BY BranchLaidIn
<1> HIDE DEF e, i
<1>4. CASE At(prog, i).op = "sel"
  <2> DEFINE c == Cases(prog, e, i)
  <2>1. /\ Cases(prog, Len(prog), i) = c
        /\ c \in Nat /\ c > 0
        /\ i + 1 + c < e
    BY <1>2, <1>3, <1>4, CasesHere
  <2>2. AfterSelect(prog, e, i) <= e
    BY <1>3, <1>4 DEF LaidIn, Behind
  <2> HIDE DEF c
  <2>3. LaidOut(e, i)
    BY <2>1, <2>2 DEF LaidOut
  <2>4. ASSUME SelectsDecide(prog)
        PROVE  HasDefault(prog, e, i)
    <3>1. i \in 0..(Len(prog) - 1) /\ i < Len(prog)
      BY <1>2
    <3>2. HasDefault(prog, Len(prog), i)
      BY <1>4, <2>4, <3>1 DEF SelectsDecide, IsAt
    <3>3. At(prog, i + c + 1).op = "dflt"
      BY <2>1, <3>2 DEF HasDefault, IsAt
    <3>4. i + c + 1 < e
      BY <1>2, <2>1
    <3> QED
      BY <2>1, <3>3, <3>4 DEF HasDefault, IsAt, c
  <2> QED
    BY <2>3, <2>4 DEF e, i
<1>5. CASE At(prog, i).op # "sel"
  BY <1>5 DEF LaidOut, e, i
<1> QED
  BY <1>4, <1>5
-----------------------------------------------------------------------------
(* What is on the stack *)

\* As long as nothing has failed, the stack s is between what the walks count on.
Bounded(p, f, b, v, s) ==
  SelectsDecide(p) /\ f = "none" => IF b THEN v <= s ELSE s <= v
\* A walk has come to where the frames F are.
Follows(p, F, n, s, f, b) ==
  \E d \in [Nat -> 0..MaxStack] : Walked(p, F, n, d, b) /\ Bounded(p, f, b, d[n], s)
Walking(p, F, s, f) == \A b \in BOOLEAN : Follows(p, F, Len(F), s, f, b)

LEMMA BoundedAlike ==
  ASSUME NEW p, NEW f, NEW b \in BOOLEAN, NEW v \in Int, NEW w \in Int, NEW s \in Int,
         NEW t \in Int, w - v = t - s, Bounded(p, f, b, v, s)
  PROVE  Bounded(p, f, b, w, t)
<1>1. CASE b
  <2>1. v <= s => w <= t
    OBVIOUS
  <2> QED
    BY <1>1, <2>1 DEF Bounded
<1>2. CASE ~ b
  <2>1. s <= v => t <= w
    OBVIOUS
  <2> QED
    BY <1>2, <2>1 DEF Bounded
<1> QED
  BY <1>1, <1>2

LEMMA FollowsAccepted ==
  ASSUME NEW p, NEW F, NEW n \in Nat \ {0}, NEW s, NEW f, NEW b \in BOOLEAN,
         Follows(p, F, n, s, f, b)
  PROVE  \E m \in 0..MaxStack : Accepts(p, F[n], m, b) /\ Bounded(p, f, b, m, s)
<1>1. PICK d \in [Nat -> 0..MaxStack] : Walked(p, F, n, d, b) /\ Bounded(p, f, b, d[n], s)
  BY DEF Follows
<1>2. Accepts(p, F[n], d[n], b) /\ d[n] \in 0..MaxStack
  BY <1>1, InnermostAccepted
<1> QED
  BY <1>1, <1>2

\* What the next operation takes is on the stack, and the stack is within its limit.
LEMMA FollowsEnough ==
  ASSUME NEW p \in Programs, NEW F, NEW n \in Nat \ {0}, NEW s \in Int, NEW b \in BOOLEAN,
         Follows(p, F, n, s, "none", b), SelectsDecide(p)
  PROVE  /\ ~ b => s <= MaxStack
         /\ b /\ F[n].at < F[n].end => s >= Uses(At(p, F[n].at))
<1>1. PICK m \in 0..MaxStack : Accepts(p, F[n], m, b) /\ Bounded(p, "none", b, m, s)
  BY FollowsAccepted
<1>2. MaxStack \in Nat
  BY Limits
<1>3. IF b THEN m <= s ELSE s <= m
  BY <1>1 DEF Bounded
<1>4. ~ b => s <= MaxStack
  BY <1>2, <1>3
<1>5. ASSUME b, F[n].at < F[n].end
      PROVE  s >= Uses(At(p, F[n].at))
  <2> DEFINE u == Uses(At(p, F[n].at))
  <2>1. u <= m
    BY <1>1, <1>5, AcceptedGoesOn
  <2>2. u \in {0, 1}
    BY UsesPushes
  <2> HIDE DEF u
  <2>3. s >= u
    BY <1>2, <1>3, <1>5, <2>1, <2>2
  <2> QED
    BY <2>3 DEF u
<1> QED
  BY <1>4, <1>5

LEMMA FollowsNested ==
  ASSUME NEW p, NEW F, NEW n \in Nat \ {0}, NEW s, NEW f, NEW b \in BOOLEAN,
         Follows(p, F, n, s, f, b)
  PROVE  /\ \A k \in 1..n : F[k] \in Frames(p) /\ F[k].at <= F[k].end
         /\ \A k \in 1..(n - 1) :
              AtBranch(p, F[k]) /\ F[k].at < F[k + 1].at /\ F[k + 1].end <= F[k].end
<1>1. PICK d \in [Nat -> 0..MaxStack] : Walked(p, F, n, d, b) /\ Bounded(p, f, b, d[n], s)
  BY DEF Follows
<1>2. \A k \in 1..n : F[k] \in Frames(p) /\ F[k].at <= F[k].end
  BY <1>1 DEF Walked, Accepts
<1>3. \A k \in 1..(n - 1) :
        AtBranch(p, F[k]) /\ F[k].at < F[k + 1].at /\ F[k + 1].end <= F[k].end
  BY <1>1 DEF Walked, Under
<1> QED
  BY <1>2, <1>3

LEMMA PastFollows ==
  ASSUME NEW p \in Programs, NEW F, NEW G, NEW n \in Nat \ {0}, NEW b \in BOOLEAN,
         NEW s \in Int, NEW f, Follows(p, F, n, s, f, b),
         F[n].at < F[n].end, ~ AtBranch(p, F[n]),
         \A k \in 1..(n - 1) : G[k] = F[k], G[n] = Onwards(F[n])
  PROVE  Follows(p, G, n, NowAt(p, F[n], s), f, b)
<1>1. PICK d \in [Nat -> 0..MaxStack] : Walked(p, F, n, d, b) /\ Bounded(p, f, b, d[n], s)
  BY DEF Follows
<1> DEFINE v == NowAt(p, F[n], d[n])
           t == NowAt(p, F[n], s)
           u == Uses(At(p, F[n].at))
           q == Pushes(At(p, F[n].at))
<1>2. /\ v \in 0..MaxStack
      /\ Walked(p, G, n, Put(d, n, v), b)
  BY <1>1, PastWalked
<1>3. v = d[n] - u + q /\ t = s - u + q
  BY DEF NowAt
<1>4. u \in {0, 1} /\ q \in {0, 1}
  BY UsesPushes
<1>5. d[n] \in 0..MaxStack
  OBVIOUS
<1> DEFINE w == d[n]
<1>6. Bounded(p, f, b, w, s)
  BY <1>1
<1> HIDE DEF v, t, u, q, w
<1>7. v \in Int /\ t \in Int /\ w \in Int /\ v - w = t - s
  BY <1>2, <1>3, <1>4, <1>5 DEF w
<1>8. Bounded(p, f, b, v, t)
  BY <1>6, <1>7, BoundedAlike
<1>9. Put(d, n, v) \in [Nat -> 0..MaxStack] /\ Put(d, n, v)[n] = v
  BY <1>2, PutIs
<1>10. Follows(p, G, n, t, f, b)
  BY <1>2, <1>8, <1>9 DEF Follows
<1> QED
  BY <1>10 DEF t

LEMMA PushFollows ==
  ASSUME NEW p \in Programs, NEW F, NEW G, NEW n \in Nat \ {0}, NEW b \in BOOLEAN,
         NEW s \in Int, NEW f, Follows(p, F, n, s, f, b),
         AtBranch(p, F[n]), NEW start, NEW size, Runs(p, F[n], start, size),
         NEW c, c = [at |-> start, end |-> start + size],
         \A k \in 1..n : G[k] = F[k], G[n + 1] = c
  PROVE  /\ Follows(p, G, n + 1, s - 1, f, b)
         /\ Fits(F[n].end, start, size)
<1>1. PICK d \in [Nat -> 0..MaxStack] : Walked(p, F, n, d, b) /\ Bounded(p, f, b, d[n], s)
  BY DEF Follows
<1> DEFINE v == NowAt(p, F[n], d[n])
           m == d[n]
           a == F[n]
<1>2. Accepts(p, a, m, b) /\ m \in 0..MaxStack
  BY <1>1, InnermostAccepted
<1>3. /\ Fits(a.end, start, size)
      /\ c \in Frames(p) /\ c.at <= c.end
      /\ NowAt(p, a, m) \in 0..MaxStack
      /\ Under(p, a, c, m, NowAt(p, a, m), b)
  <2> HIDE DEF a, m
  <2>1. AtBranch(p, a) /\ Runs(p, a, start, size)
    BY DEF a
  <2> QED
    BY <1>2, <2>1, RunsUnder
<1>4. v = m - 1
  <2>1. m \in Int
    BY <1>2, Limits
  <2> QED
    BY <2>1, BranchUses
<1>5. /\ v \in 0..MaxStack /\ Under(p, F[n], G[n + 1], d[n], v, b)
      /\ G[n + 1] \in Frames(p) /\ G[n + 1].at <= G[n + 1].end
  BY <1>3
<1> HIDE DEF v
<1>6. Walked(p, G, n + 1, Put(d, n + 1, v), b)
  BY <1>1, <1>5, PushWalked
<1>7. Bounded(p, f, b, m, s)
  BY <1>1
<1> HIDE DEF m
<1>8. Bounded(p, f, b, v, s - 1)
  <2>1. m \in Int /\ v \in Int /\ s - 1 \in Int /\ v - m = (s - 1) - s
    BY <1>2, <1>4, Limits
  <2> DEFINE t == s - 1
  <2> HIDE DEF t
  <2>2. Bounded(p, f, b, v, t)
    BY <1>7, <2>1, BoundedAlike DEF t
  <2> QED
    BY <2>2 DEF t
<1>9. n + 1 \in Nat \ {0}
  OBVIOUS
<1>10. Put(d, n + 1, v) \in [Nat -> 0..MaxStack] /\ Put(d, n + 1, v)[n + 1] = v
  BY <1>5, <1>9, PutIs
<1>11. Follows(p, G, n + 1, s - 1, f, b)
  BY <1>6, <1>8, <1>10 DEF Follows
<1> QED
  BY <1>3, <1>11

\* Behind a branch the stack is what one of its bodies left.
LEMMA OverFollows ==
  ASSUME NEW p \in Programs, NEW F, NEW G, NEW n \in Nat \ {0}, NEW b \in BOOLEAN,
         NEW d \in [Nat -> 0..MaxStack], Walked(p, F, n, d, b), AtBranch(p, F[n]),
         Alike(F, G, n), G[n] = Behindwards(p, F[n]),
         NEW s \in Int, NEW f, NEW l \in LeavesAt(p, F[n], d[n], b),
         Bounded(p, f, b, l, s)
  PROVE  Follows(p, G, n, s, f, b)
<1>1. PICK v \in 0..MaxStack :
        /\ Walked(p, G, n, Put(d, n, v), b)
        /\ Extreme(b, LeavesAt(p, F[n], d[n], b), v)
  BY OverWalked
<1>2. IF b THEN v <= l ELSE l <= v
  BY <1>1 DEF Extreme
<1>3. l \in 0..MaxStack /\ MaxStack \in Nat
  <2>1. Accepts(p, F[n], d[n], b) /\ d[n] \in 0..MaxStack
    BY InnermostAccepted
  <2>2. F[n].at < F[n].end
    BY DEF AtBranch
  <2>3. LeavesAt(p, F[n], d[n], b) \subseteq 0..MaxStack
    BY <2>1, <2>2, AcceptedGoesOn
  <2> QED
    BY <2>3, Limits
<1>4. Bounded(p, f, b, v, s)
  <2>1. v \in Int /\ l \in Int
    BY <1>3
  <2>2. IF b THEN l <= s => v <= s ELSE s <= l => s <= v
    BY <1>2, <2>1
  <2> QED
    BY <2>2 DEF Bounded
<1>5. Put(d, n, v) \in [Nat -> 0..MaxStack] /\ Put(d, n, v)[n] = v
  BY PutIs
<1> QED
  BY <1>1, <1>4, <1>5 DEF Follows

\* An if of which no body runs leaves what there is without its condition.
LEMMA SkipFollows ==
  ASSUME NEW p \in Programs, NEW F, NEW G, NEW n \in Nat \ {0}, NEW b \in BOOLEAN,
         NEW s \in Int, NEW f, Follows(p, F, n, s, f, b), AtBranch(p, F[n]),
         At(p, F[n].at).op = "if", ~ HasElse(p, F[n].end, F[n].at),
         Alike(F, G, n), G[n] = Behindwards(p, F[n])
  PROVE  Follows(p, G, n, s - 1, f, b)
<1>1. PICK d \in [Nat -> 0..MaxStack] : Walked(p, F, n, d, b) /\ Bounded(p, f, b, d[n], s)
  BY DEF Follows
<1> DEFINE a == F[n]
           m == d[n]
           x == WalkAt(a, m, b)
           l == NowAt(p, a, m)
           t == s - 1
<1>2. Accepts(p, a, m, b) /\ m \in 0..MaxStack
  BY <1>1, InnermostAccepted
<1>3. x.at = a.at /\ x.end = a.end /\ Now(p, x) = l
  BY DEF WalkAt, Now, NowAt
<1>4. l \in LeavesAt(p, a, m, b)
  <2>1. At(p, a.at).op = "if" /\ ~ HasElse(p, a.end, a.at)
    OBVIOUS
  <2>2. LeavesAt(p, a, m, b) = IfLeaves(p, Depth(p), x)
    <3> HIDE DEF a, m
    <3> QED
      BY <1>3, <2>1 DEF LeavesAt, Leaves
  <2> HIDE DEF a, m, x, l
  <2> QED
    BY <1>3, <2>1, <2>2 DEF IfLeaves
<1>5. l = m - 1 /\ m \in Int
  <2>1. m \in Int
    BY <1>2, Limits
  <2> QED
    BY <2>1, BranchUses
<1>6. Bounded(p, f, b, m, s)
  BY <1>1
<1>7. Bounded(p, f, b, l, t)
  <2> HIDE DEF l, m
  <2>1. l \in Int /\ t \in Int /\ l - m = t - s
    BY <1>5
  <2> HIDE DEF t
  <2> QED
    BY <1>5, <1>6, <2>1, BoundedAlike
<1>8. t \in Int
  OBVIOUS
<1>9. l \in LeavesAt(p, F[n], d[n], b)
  BY <1>4
<1> HIDE DEF l, t
<1>10. Follows(p, G, n, t, f, b)
  BY <1>1, <1>7, <1>8, <1>9, OverFollows
<1> QED
  BY <1>10 DEF t

\* A walk at its end leaves the depth it has.
LEMMA LeftAtEnd ==
  ASSUME NEW p \in Programs, NEW fr \in Frames(p), NEW m \in 0..MaxStack, NEW b \in BOOLEAN,
         fr.at >= fr.end
  PROVE  Depth(p)[WalkAt(fr, m, b)] = m
<1> DEFINE x == WalkAt(fr, m, b)
           d == Depth(p)
<1>1. x \in Walks(p) /\ x.at = fr.at /\ x.end = fr.end /\ x.depth = m
  BY WalkAtTyped
<1>2. \A y \in Walks(p) : d[y] = Judged(p, d, y)
  BY DepthIs
<1> HIDE DEF x, d
<1>3. d[x] = Judged(p, d, x)
  BY <1>1, <1>2
<1>4. Judged(p, d, x) = m
  BY <1>1 DEF Judged
<1> QED
  BY <1>3, <1>4 DEF x, d

\* The sequence around a body that has ended goes on behind the branch.
LEMMA PopFollows ==
  ASSUME NEW p \in Programs, NEW F, NEW G, NEW n \in Nat, n > 1, NEW b \in BOOLEAN,
         NEW s \in Int, NEW f, Follows(p, F, n, s, f, b),
         f = "none" => F[n].at >= F[n].end,
         Alike(F, G, n - 1), G[n - 1] = Behindwards(p, F[n - 1])
  PROVE  Follows(p, G, n - 1, s, f, b)
<1>1. PICK d \in [Nat -> 0..MaxStack] : Walked(p, F, n, d, b) /\ Bounded(p, f, b, d[n], s)
  BY DEF Follows
<1> DEFINE k == n - 1
           l == Depth(p)[WalkAt(F[n], d[n], b)]
<1>2. k \in Nat \ {0} /\ k \in 1..(n - 1) /\ k + 1 = n /\ n \in Nat \ {0}
  OBVIOUS
<1>3. Walked(p, F, k, d, b)
  BY <1>1, PopWalked
<1>4. AtBranch(p, F[k]) /\ l \in LeavesAt(p, F[k], d[k], b)
  <2>1. Under(p, F[k], F[k + 1], d[k], d[k + 1], b)
    BY <1>1, <1>2 DEF Walked
  <2> HIDE DEF k
  <2> QED
    BY <1>2, <2>1 DEF Under
<1>5. Bounded(p, f, b, l, s)
  <2>1. CASE f = "none"
    <3>1. F[n] \in Frames(p) /\ d[n] \in 0..MaxStack
      BY <1>1, <1>2, InnermostAccepted DEF Accepts
    <3>2. l = d[n]
      BY <2>1, <3>1, LeftAtEnd
    <3> QED
      BY <1>1, <3>2
  <2>2. CASE f # "none"
    BY <2>2 DEF Bounded
  <2> QED
    BY <2>1, <2>2
<1>6. Alike(F, G, k) /\ G[k] = Behindwards(p, F[k])
  OBVIOUS
<1> HIDE DEF k, l
<1>7. Follows(p, G, k, s, f, b)
  BY <1>2, <1>3, <1>4, <1>5, <1>6, OverFollows
<1> QED
  BY <1>7 DEF k

\* The sequence around a body that has failed stays where it is.
LEMMA DropFollows ==
  ASSUME NEW p \in Programs, NEW F, NEW G, NEW n \in Nat, n > 1, NEW b \in BOOLEAN,
         NEW s \in Int, NEW f, f # "none", Follows(p, F, n, s, f, b), Alike(F, G, n)
  PROVE  Follows(p, G, n - 1, s, f, b)
<1>1. PICK d \in [Nat -> 0..MaxStack] : Walked(p, F, n, d, b)
  BY DEF Follows
<1>2. Walked(p, G, n - 1, d, b)
  BY <1>1, PopWalked DEF Alike
<1>3. Bounded(p, f, b, d[n - 1], s)
  BY DEF Bounded
<1> QED
  BY <1>2, <1>3 DEF Follows

\* Once something has failed, or a select may run nothing, there are no bounds.
LEMMA UnsureFollows ==
  ASSUME NEW p \in Programs, NEW F, NEW G, NEW n \in Nat \ {0}, NEW b \in BOOLEAN,
         NEW s \in Int, NEW t \in Int, NEW f, Follows(p, F, n, s, f, b),
         ~ SelectsDecide(p), AtBranch(p, F[n]),
         Alike(F, G, n), G[n] = Behindwards(p, F[n])
  PROVE  Follows(p, G, n, t, f, b)
<1>1. PICK d \in [Nat -> 0..MaxStack] : Walked(p, F, n, d, b)
  BY DEF Follows
<1>2. Accepts(p, F[n], d[n], b) /\ d[n] \in 0..MaxStack
  BY <1>1, InnermostAccepted
<1>3. PICK l \in LeavesAt(p, F[n], d[n], b) : TRUE
  <2>1. F[n].at < F[n].end
    BY DEF AtBranch
  <2>2. LeavesAt(p, F[n], d[n], b) # {}
    BY <1>2, <2>1, AcceptedGoesOn
  <2> QED
    BY <2>2
<1>4. Bounded(p, f, b, l, t)
  BY DEF Bounded
<1> QED
  BY <1>1, <1>3, <1>4, OverFollows

LEMMA FaultFollows ==
  ASSUME NEW p, NEW F, NEW n, NEW b \in BOOLEAN, NEW s, NEW f, NEW g,
         Follows(p, F, n, s, f, b), g = "none" => f = "none"
  PROVE  Follows(p, F, n, s, g, b)
<1>1. PICK d \in [Nat -> 0..MaxStack] : Walked(p, F, n, d, b) /\ Bounded(p, f, b, d[n], s)
  BY DEF Follows
<1>2. Bounded(p, g, b, d[n], s)
  BY <1>1 DEF Bounded
<1> QED
  BY <1>1, <1>2 DEF Follows
-----------------------------------------------------------------------------
(* How the sequences under way change *)

LEMMA FrameIs ==
  ASSUME NEW p, NEW fr \in Frames(p), NEW a \in 0..Len(p)
  PROVE  /\ [fr EXCEPT !.at = a] = [at |-> a, end |-> fr.end]
         /\ [fr EXCEPT !.at = a] \in Frames(p)
<1> DEFINE x == [fr EXCEPT !.at = a]
           y == [at |-> a, end |-> fr.end]
<1>1. x \in Frames(p) /\ x.at = a /\ x.end = fr.end
  BY DEF Frames
<1>2. y \in Frames(p) /\ y.at = a /\ y.end = fr.end
  BY DEF Frames
<1> HIDE DEF x, y
<1>3. x = y
  BY <1>1, <1>2 DEF Frames
<1> QED
  BY <1>1, <1>3 DEF x, y

\* The innermost sequence has come to a.
Advanced(F, n, a) == [F EXCEPT ![n].at = a]
LEMMA AdvanceFrames ==
  ASSUME NEW p, NEW F \in Seq(Frames(p)), NEW n \in Nat \ {0}, n = Len(F),
         NEW a \in 0..Len(p)
  PROVE  /\ Advanced(F, n, a) \in Seq(Frames(p)) /\ Len(Advanced(F, n, a)) = n
         /\ Advanced(F, n, a)[n] = [at |-> a, end |-> F[n].end]
         /\ Alike(F, Advanced(F, n, a), n)
<1> DEFINE e == [F[n] EXCEPT !.at = a]
           G == [F EXCEPT ![n] = e]
<1>1. F[n] \in Frames(p)
  OBVIOUS
<1>2. e = [at |-> a, end |-> F[n].end] /\ e \in Frames(p)
  BY <1>1, FrameIs
<1>3. Advanced(F, n, a) = G
  BY DEF Advanced
<1>4. G \in Seq(Frames(p)) /\ Len(G) = n /\ G[n] = e /\ \A k \in 1..(n - 1) : G[k] = F[k]
  <2> HIDE DEF e
  <2>1. e \in Frames(p)
    BY <1>2
  <2> QED
    BY <2>1
<1> HIDE DEF e, G
<1>5. Alike(F, G, n)
  BY <1>4 DEF Alike
<1> QED
  BY <1>2, <1>3, <1>4, <1>5

\* The innermost sequence is gone.
LEMMA FrontFrames ==
  ASSUME NEW p, NEW F \in Seq(Frames(p)), NEW n \in Nat, n = Len(F), n > 1
  PROVE  /\ SubSeq(F, 1, n - 1) \in Seq(Frames(p)) /\ Len(SubSeq(F, 1, n - 1)) = n - 1
         /\ Alike(F, SubSeq(F, 1, n - 1), n)
<1>1. SubSeq(F, 1, n - 1) \in Seq(Frames(p)) /\ Len(SubSeq(F, 1, n - 1)) = n - 1
  OBVIOUS
<1>2. \A k \in 1..(n - 1) : SubSeq(F, 1, n - 1)[k] = F[k]
  OBVIOUS
<1> QED
  BY <1>1, <1>2 DEF Alike

\* It is gone, and the one around it has come to a.
LEMMA ReturnFrames ==
  ASSUME NEW p, NEW F \in Seq(Frames(p)), NEW n \in Nat, n = Len(F), n > 1,
         NEW a \in 0..Len(p), NEW G, G = Advanced(SubSeq(F, 1, n - 1), n - 1, a)
  PROVE  /\ G \in Seq(Frames(p)) /\ Len(G) = n - 1
         /\ G[n - 1] = [at |-> a, end |-> F[n - 1].end]
         /\ Alike(F, G, n - 1)
<1> DEFINE E == SubSeq(F, 1, n - 1)
           k == n - 1
<1>1. E \in Seq(Frames(p)) /\ Len(E) = n - 1 /\ Alike(F, E, n)
  BY FrontFrames
<1>2. k \in Nat \ {0} /\ G = Advanced(E, k, a) /\ k \in 1..(n - 1) /\ Len(E) = k
  BY <1>1
<1> HIDE DEF E, k
<1>3. /\ Advanced(E, k, a) \in Seq(Frames(p)) /\ Len(Advanced(E, k, a)) = k
      /\ Advanced(E, k, a)[k] = [at |-> a, end |-> E[k].end]
      /\ Alike(E, Advanced(E, k, a), k)
  BY <1>1, <1>2, AdvanceFrames
<1>4. E[k] = F[k]
  BY <1>1, <1>2 DEF Alike
<1>5. Alike(F, G, k)
  <2>1. \A u \in 1..(k - 1) : u \in 1..(n - 1)
    BY <1>2 DEF k
  <2> QED
    BY <1>1, <1>2, <1>3, <2>1 DEF Alike
<1> QED
  BY <1>2, <1>3, <1>4, <1>5 DEF k

\* There is another one within the innermost.
LEMMA MoreFrames ==
  ASSUME NEW S, NEW F \in Seq(S), NEW n \in Nat, n = Len(F), NEW c \in S, NEW G,
         G = Append(F, c)
  PROVE  /\ G \in Seq(S) /\ Len(G) = n + 1
         /\ G[n + 1] = c /\ \A k \in 1..n : G[k] = F[k]
OBVIOUS
-----------------------------------------------------------------------------
(* The inductive invariant of the machine *)

LEMMA WalkingWithin ==
  ASSUME NEW p \in Programs, NEW F, NEW n \in Nat \ {0}, n = Len(F), NEW s \in Int, NEW f,
         Walking(p, F, s, f), SelectsDecide(p), f = "none"
  PROVE  /\ s <= MaxStack
         /\ F[n].at < F[n].end => s >= Uses(At(p, F[n].at))
<1>1. \A b \in BOOLEAN : Follows(p, F, n, s, "none", b)
  BY DEF Walking
<1>2. \A b \in BOOLEAN :
        /\ ~ b => s <= MaxStack
        /\ b /\ F[n].at < F[n].end => s >= Uses(At(p, F[n].at))
  BY <1>1, FollowsEnough
<1> QED
  BY <1>2

LEMMA WalkingNested ==
  ASSUME NEW p, NEW F, NEW n \in Nat \ {0}, n = Len(F), NEW s, NEW f, Walking(p, F, s, f)
  PROVE  /\ \A k \in 1..n : F[k] \in Frames(p) /\ F[k].at <= F[k].end
         /\ \A k \in 1..(n - 1) :
              AtBranch(p, F[k]) /\ F[k].at < F[k + 1].at /\ F[k + 1].end <= F[k].end
<1>1. PICK b \in BOOLEAN : Follows(p, F, n, s, f, b)
  BY DEF Walking
<1> QED
  BY <1>1, FollowsNested

LEMMA WalkingAccepted ==
  ASSUME NEW p, NEW F, NEW n \in Nat \ {0}, n = Len(F), NEW s, NEW f, Walking(p, F, s, f)
  PROVE  \E b \in BOOLEAN, m \in 0..MaxStack : Accepts(p, F[n], m, b)
<1>1. PICK b \in BOOLEAN : Follows(p, F, n, s, f, b)
  BY DEF Walking
<1> QED
  BY <1>1, FollowsAccepted

CTyped ==
  /\ prog \in Programs
  /\ phase \in {"new", "refused", "ready", "running"}
  /\ tempReset \in BOOLEAN /\ stale \in BOOLEAN
  /\ stack \in Nat /\ fresh \subseteq Temps
  /\ ret \in {"none", "true", "false"} /\ result \in {"none", "true", "false"}
  /\ fault \in {"none", "underflow", "stray", "layout", "depth"}
  /\ frames \in Seq(Frames(prog))
\* The sequences under way belong to a pixel of a program that Begin accepted; one
\* that has returned without a failure before it has come to its end.
UnderWay ==
  /\ phase \in {"ready", "running"} => Accepted(prog)
  /\ Len(frames) > 0 <=> phase = "running"
  /\ ret # "none" => phase = "running"
  /\ ret = "false" => fault # "none"
  /\ ret = "true" /\ fault = "none" => frames[Len(frames)].at >= frames[Len(frames)].end
  /\ Len(frames) <= MaxDepth + 2 /\ (ret = "none" => Len(frames) <= MaxDepth + 1)
Kept ==
  /\ SelectsDecide(prog) => fault \notin {"underflow", "layout"}
  /\ SelectsDecide(prog) /\ fault = "none" => stack <= MaxStack
CInv ==
  /\ CTyped /\ UnderWay /\ Kept
  /\ phase = "running" => Walking(prog, frames, stack, fault)

LEMMA CInvHolds == CInv => CalcTypeOK /\ AcceptedProgramsRun /\ StackWithinLimit
<1> SUFFICES ASSUME CInv
             PROVE  CalcTypeOK /\ AcceptedProgramsRun /\ StackWithinLimit
  OBVIOUS
<1> DEFINE n == Len(frames)
<1>1. n \in Nat /\ DOMAIN frames = 1..n /\ (n > 0 <=> phase = "running")
      /\ (frames # << >> <=> n > 0)
  BY DEF CInv, CTyped, UnderWay
<1>2. \A k \in 1..n :
        /\ frames[k].at <= frames[k].end
        /\ k > 1 => frames[k - 1].at < frames[k].at /\ frames[k].end <= frames[k - 1].end
  <2>1. CASE n = 0
    BY <1>1, <2>1
  <2>2. CASE n # 0
    <3>1. n \in Nat \ {0} /\ Walking(prog, frames, stack, fault)
      BY <1>1, <2>2 DEF CInv
    <3>2. /\ \A k \in 1..n : frames[k] \in Frames(prog) /\ frames[k].at <= frames[k].end
          /\ \A k \in 1..(n - 1) :
               /\ AtBranch(prog, frames[k])
               /\ frames[k].at < frames[k + 1].at /\ frames[k + 1].end <= frames[k].end
      BY <3>1, WalkingNested
    <3> HIDE DEF n
    <3>3. ASSUME NEW k \in 1..n, k > 1
          PROVE  frames[k - 1].at < frames[k].at /\ frames[k].end <= frames[k - 1].end
      <4>1. k - 1 \in 1..(n - 1) /\ (k - 1) + 1 = k
        BY <1>1, <3>3
      <4> QED
        BY <3>2, <4>1
    <3> QED
      BY <3>2, <3>3
  <2> QED
    BY <2>1, <2>2
<1>3. CalcTypeOK
  <2>1. frames \in Seq([at : 0..Len(prog), end : 0..Len(prog)])
    BY DEF CInv, CTyped, Frames
  <2>2. Len(frames) <= MaxDepth + 2
    BY DEF CInv, UnderWay
  <2> QED
    BY <1>1, <1>2, <2>1, <2>2 DEF CalcTypeOK, CInv, CTyped
<1> QED
  BY <1>3 DEF AcceptedProgramsRun, StackWithinLimit, CInv, Kept

LEMMA CalcInitInv == CalcInit => CInv
<1> SUFFICES ASSUME CalcInit
             PROVE  CInv
  OBVIOUS
<1>1. CTyped
  <2>1. \A S : << >> \in Seq(S)
    OBVIOUS
  <2>2. frames \in Seq(Frames(prog)) /\ fresh \subseteq Temps
    BY <2>1 DEF CalcInit
  <2>3. stack \in Nat
    BY DEF CalcInit
  <2> QED
    BY <2>2, <2>3 DEF CalcInit, CTyped
<1>2. UnderWay
  BY Limits DEF CalcInit, UnderWay
<1>3. Kept
  BY Limits DEF CalcInit, Kept
<1> QED
  BY <1>1, <1>2, <1>3 DEF CInv, CalcInit

LEMMA BeginInv == CInv /\ Begin => CInv'
<1> SUFFICES ASSUME CInv, Begin
             PROVE  CInv'
  OBVIOUS
<1> USE DEF CInv, Begin
<1>1. CTyped'
  BY DEF CTyped, NeedTempReset
<1>2. UnderWay'
  BY DEF UnderWay
<1>3. Kept'
  BY DEF Kept
<1>4. phase' # "running"
  OBVIOUS
<1> QED
  BY <1>1, <1>2, <1>3, <1>4

\* The walks are where a pixel starts.
LEMMA AcceptedWalking ==
  ASSUME NEW p \in Programs, NEW F, F = << [at |-> 0, end |-> Len(p)] >>, Accepted(p)
  PROVE  /\ F \in Seq(Frames(p)) /\ Len(F) = 1
         /\ Walking(p, F, 0, "none")
<1> DEFINE fr == [at |-> 0, end |-> Len(p)]
           d == [k \in Nat |-> 0]
<1>1. Len(p) \in Nat /\ MaxStack \in Nat
  BY ProgTyped, Limits
<1>2. fr \in Frames(p) /\ fr.at <= fr.end /\ fr.at = 0 /\ fr.end = Len(p)
  BY <1>1 DEF Frames
<1>3. F[1] = fr /\ Len(F) = 1 /\ F \in Seq(Frames(p))
  <2>1. F = << fr >>
    OBVIOUS
  <2> HIDE DEF fr
  <2> QED
    BY <1>2, <2>1
<1>4. ASSUME NEW b \in BOOLEAN
      PROVE  Follows(p, F, 1, 0, "none", b)
  <2>1. Depth(p)[[at |-> 0, end |-> Len(p), depth |-> 0, low |-> b]] # Refused
    BY DEF Accepted
  <2>2. WalkAt(fr, 0, b) = [at |-> 0, end |-> Len(p), depth |-> 0, low |-> b]
    BY DEF WalkAt
  <2> HIDE DEF fr
  <2>3. Accepts(p, fr, 0, b)
    BY <1>2, <2>1, <2>2 DEF Accepts
  <2>4. d \in [Nat -> 0..MaxStack] /\ \A k \in Nat : d[k] = 0
    BY <1>1
  <2> HIDE DEF d
  <2>5. \A k \in 1..1 : k = 1
    OBVIOUS
  <2>5a. 1..(1 - 1) = {} /\ 1 \in Nat
    OBVIOUS
  <2>6. Walked(p, F, 1, d, b)
    BY <1>3, <2>3, <2>4, <2>5, <2>5a DEF Walked
  <2>7. Bounded(p, "none", b, d[1], 0)
    BY <2>4 DEF Bounded
  <2> QED
    BY <2>4, <2>6, <2>7 DEF Follows
<1> HIDE DEF fr, d
<1>5. Walking(p, F, 0, "none")
  BY <1>3, <1>4 DEF Walking
<1> QED
  BY <1>3, <1>5

LEMMA CalcApplyInv == CInv /\ Apply => CInv'
<1> SUFFICES ASSUME CInv, Apply
             PROVE  CInv'
  OBVIOUS
<1> DEFINE p == prog
           F == frames'
<1>1. /\ p \in Programs /\ prog' = p /\ stack' = 0 /\ fault' = "none"
      /\ F = << [at |-> 0, end |-> Len(p)] >> /\ Accepted(p) /\ phase' = "running"
      /\ ret = "none"
  BY DEF CInv, CTyped, UnderWay, Apply
<1>2. F \in Seq(Frames(p)) /\ Len(F) = 1 /\ Walking(p, F, 0, "none")
  <2> HIDE DEF p, F
  <2> QED
    BY <1>1, AcceptedWalking
<1>3. CTyped'
  <2>1. frames' \in Seq(Frames(prog')) /\ stack' \in Nat /\ prog' \in Programs
    BY <1>1, <1>2
  <2>2. fresh' \subseteq Temps
    BY DEF Apply
  <2>3. /\ tempReset' \in BOOLEAN /\ stale' \in BOOLEAN
        /\ ret' \in {"none", "true", "false"} /\ result' \in {"none", "true", "false"}
    BY DEF CInv, CTyped, Apply
  <2> QED
    BY <1>1, <2>1, <2>2, <2>3 DEF CTyped
<1>4. UnderWay'
  <2>1. MaxDepth \in Nat
    BY Limits
  <2>2. ret' = "none"
    BY <1>1 DEF Apply
  <2> QED
    BY <1>1, <1>2, <2>1, <2>2 DEF UnderWay
<1>5. Kept'
  BY <1>1, Limits DEF Kept
<1>6. Walking(prog, frames, stack, fault)'
  BY <1>1, <1>2
<1> QED
  BY <1>3, <1>4, <1>5, <1>6 DEF CInv

LEMMA EndInv == CInv /\ EndOfSequence => CInv'
<1> SUFFICES ASSUME CInv, EndOfSequence
             PROVE  CInv'
  OBVIOUS
<1> USE DEF CInv, EndOfSequence, Running, Frame
<1>1. CTyped'
  BY DEF CTyped
<1>2. UnderWay'
  BY DEF UnderWay
<1>3. Kept'
  BY DEF Kept
<1>4. phase' = "running" => Walking(prog, frames, stack, fault)'
  OBVIOUS
<1> QED
  BY <1>1, <1>2, <1>3, <1>4

LEMMA ReturnPixelInv == CInv /\ ReturnPixel => CInv'
<1> SUFFICES ASSUME CInv, ReturnPixel
             PROVE  CInv'
  OBVIOUS
<1> USE DEF CInv, ReturnPixel
<1>1. CTyped'
  BY DEF CTyped
<1>2. UnderWay'
  <2>1. Len(frames') = 0 /\ phase' = "ready" /\ ret' = "none" /\ Accepted(prog)
    BY DEF UnderWay
  <2> QED
    BY <2>1, Limits DEF UnderWay
<1>3. Kept'
  BY DEF Kept
<1>4. phase' # "running"
  OBVIOUS
<1> QED
  BY <1>1, <1>2, <1>3, <1>4

\* A failure is noted once.
LEMMA FaultWalking ==
  ASSUME NEW p, NEW F, NEW s, NEW f, NEW g, Walking(p, F, s, f), g = "none" => f = "none"
  PROVE  Walking(p, F, s, g)
<1>1. \A b \in BOOLEAN : Follows(p, F, Len(F), s, f, b)
  BY DEF Walking
<1>2. \A b \in BOOLEAN : Follows(p, F, Len(F), s, g, b)
  BY <1>1, FaultFollows
<1> QED
  BY <1>2 DEF Walking

LEMMA FailInv ==
  ASSUME CInv, NEW why \in {"underflow", "stray", "layout", "depth"}, Running, Fail(why),
         SelectsDecide(prog) /\ fault = "none" => why \notin {"underflow", "layout"}
  PROVE  CInv'
<1> USE DEF CInv, Fail, Running
<1>1. fault' = Noted(why) /\ fault' # "none" /\ (fault # "none" => fault' = fault)
      /\ (fault = "none" => fault' = why)
  BY DEF Noted, CTyped
<1>2. CTyped'
  BY <1>1 DEF CTyped
<1>3. UnderWay'
  BY <1>1 DEF UnderWay
<1>4. Kept'
  BY <1>1 DEF Kept
<1>5. Walking(prog, frames, stack, fault)'
  <2>1. Walking(prog, frames, stack, fault)
    OBVIOUS
  <2>2. Walking(prog, frames, stack, fault')
    BY <1>1, <2>1, FaultWalking
  <2> QED
    BY <2>2
<1> QED
  BY <1>2, <1>3, <1>4, <1>5

LEMMA RunningIs ==
  ASSUME CInv, phase = "running"
  PROVE  /\ prog \in Programs /\ stack \in Nat /\ Len(frames) \in Nat \ {0}
         /\ frames \in Seq(Frames(prog)) /\ Accepted(prog)
         /\ frames[Len(frames)] \in Frames(prog)
         /\ Walking(prog, frames, stack, fault)
<1>1. /\ prog \in Programs /\ stack \in Nat /\ frames \in Seq(Frames(prog)) /\ Accepted(prog)
      /\ Len(frames) > 0 /\ Walking(prog, frames, stack, fault)
  BY DEF CInv, CTyped, UnderWay
<1> DEFINE S == Frames(prog)
<1>2. frames \in Seq(S) /\ Len(frames) > 0
  BY <1>1
<1> HIDE DEF S
<1>3. Len(frames) \in Nat \ {0} /\ frames[Len(frames)] \in S
  BY <1>2
<1> QED
  BY <1>1, <1>3 DEF S

LEMMA StrayInv == CInv /\ Stray => CInv'
<1> SUFFICES ASSUME CInv, Stray
             PROVE  CInv'
  OBVIOUS
<1>1. PICK why \in {"underflow", "stray", "layout", "depth"} : why = "stray"
  OBVIOUS
<1>2. Running /\ Fail(why) /\ why \notin {"underflow", "layout"}
  BY <1>1 DEF Stray, Executing
<1> QED
  BY <1>2, FailInv

\* A program that Begin accepted has its arguments and its bodies.
LEMMA NothingMissing ==
  ASSUME CInv, phase = "running", Frame.at < Frame.end, SelectsDecide(prog), fault = "none"
  PROVE  Enough /\ LaidOut(Frame.end, Frame.at)
<1> DEFINE n == Len(frames)
           a == frames[n]
<1>1. /\ prog \in Programs /\ stack \in Nat /\ n \in Nat \ {0}
      /\ Walking(prog, frames, stack, fault)
  BY RunningIs
<1>2. Frame = a /\ a.at < a.end
  BY DEF Frame
<1>3. stack >= Uses(At(prog, a.at))
  <2>1. stack \in Int /\ n = Len(frames)
    BY <1>1
  <2>2. frames[n].at < frames[n].end
    BY <1>2
  <2> HIDE DEF n
  <2>3. frames[n].at < frames[n].end => stack >= Uses(At(prog, frames[n].at))
    BY <1>1, <2>1, WalkingWithin
  <2> QED
    BY <2>2, <2>3
<1>4. LaidOut(a.end, a.at)
  <2>1. CASE AtBranch(prog, a)
    <3>1. n = Len(frames)
      OBVIOUS
    <3>2. PICK b \in BOOLEAN, m \in 0..MaxStack : Accepts(prog, a, m, b)
      <4> HIDE DEF n
      <4>1. \E b \in BOOLEAN, m \in 0..MaxStack : Accepts(prog, frames[n], m, b)
        BY <1>1, <3>1, WalkingAccepted
      <4> QED
        BY <4>1
    <3> HIDE DEF a
    <3> QED
      BY <1>1, <2>1, <3>2, SelectsLaidOut
  <2>2. CASE ~ AtBranch(prog, a)
    BY <1>2, <2>2 DEF AtBranch, LaidOut
  <2> QED
    BY <2>1, <2>2
<1> QED
  BY <1>2, <1>3, <1>4 DEF Enough, Op

LEMMA BreakInv == CInv /\ Break => CInv'
<1> SUFFICES ASSUME CInv, Break
             PROVE  CInv'
  OBVIOUS
<1>1. PICK why \in {"underflow", "stray", "layout", "depth"} :
        why = IF Enough THEN "layout" ELSE "underflow"
  OBVIOUS
<1>2. Running /\ Fail(why) /\ Frame.at < Frame.end /\ phase = "running"
      /\ ~ (Enough /\ LaidOut(Frame.end, Frame.at))
  BY <1>1 DEF Break, Executing, Running
<1>3. ~ (SelectsDecide(prog) /\ fault = "none")
  BY <1>2, NothingMissing
<1> QED
  BY <1>2, <1>3, FailInv

\* What the stack is after a step is within its limit.
LEMMA KeptAfter ==
  ASSUME NEW p \in Programs, NEW F, Len(F) \in Nat \ {0}, NEW s \in Nat, NEW f,
         Walking(p, F, s, f), SelectsDecide(p) => f \notin {"underflow", "layout"}
  PROVE  SelectsDecide(p) /\ f = "none" => s <= MaxStack
<1> SUFFICES ASSUME SelectsDecide(p), f = "none"
             PROVE  s <= MaxStack
  OBVIOUS
<1>1. PICK n \in Nat \ {0} : n = Len(F)
  OBVIOUS
<1>2. s \in Int
  OBVIOUS
<1> QED
  BY <1>1, <1>2, WalkingWithin

\* The innermost sequence goes on behind a plain operation.
LEMMA ExecFrames ==
  ASSUME CInv, Exec
  PROVE  /\ frames' \in Seq(Frames(prog)) /\ Len(frames') = Len(frames)
         /\ frames'[Len(frames)] = Onwards(frames[Len(frames)])
         /\ Alike(frames, frames', Len(frames))
<1> DEFINE n == Len(frames)
           F == frames
           G == frames'
           a == frames[n]
<1>1. /\ phase = "running" /\ ret = "none" /\ Frame = a /\ a.at < a.end
      /\ At(prog, a.at).op \in Plain /\ stack >= Uses(At(prog, a.at))
  BY DEF Exec, Executing, Running, Frame, Op, Enough
<1>2. /\ prog \in Programs /\ stack \in Nat /\ n \in Nat \ {0} /\ a \in Frames(prog)
      /\ F \in Seq(Frames(prog)) /\ Walking(prog, F, stack, fault)
  BY <1>1, RunningIs
<1>5. a.at + 1 \in 0..Len(prog)
  <2>1. a.at \in Nat /\ a.end \in 0..Len(prog) /\ Len(prog) \in Nat
    BY <1>2, FrameTyped
  <2> HIDE DEF a
  <2> QED
    BY <1>1, <2>1
<1>6. G = Advanced(F, n, a.at + 1)
  BY DEF Exec, Advanced
<1>7. G \in Seq(Frames(prog)) /\ Len(G) = n /\ G[n] = Onwards(a) /\ Alike(F, G, n)
  <2>1. F \in Seq(Frames(prog)) /\ n \in Nat \ {0} /\ n = Len(F)
    BY <1>2
  <2> DEFINE next == a.at + 1
  <2>2. next \in 0..Len(prog) /\ G = Advanced(F, n, next)
    BY <1>5, <1>6
  <2> HIDE DEF n, F, next, G
  <2>3. /\ Advanced(F, n, next) \in Seq(Frames(prog)) /\ Len(Advanced(F, n, next)) = n
        /\ Advanced(F, n, next)[n] = [at |-> next, end |-> F[n].end]
        /\ Alike(F, Advanced(F, n, next), n)
    BY <2>1, <2>2, AdvanceFrames
  <2> QED
    BY <2>2, <2>3 DEF Onwards, next, F
<1> QED
  BY <1>7

LEMMA ExecInv == CInv /\ Exec => CInv'
<1> SUFFICES ASSUME CInv, Exec
             PROVE  CInv'
  OBVIOUS
<1> DEFINE n == Len(frames)
           F == frames
           G == frames'
           a == frames[n]
           t == NowAt(prog, a, stack)
<1>1. /\ phase = "running" /\ ret = "none" /\ Frame = a /\ a.at < a.end
      /\ At(prog, a.at).op \in Plain /\ stack >= Uses(At(prog, a.at))
  BY DEF Exec, Executing, Running, Frame, Op, Enough
<1>2. /\ prog \in Programs /\ stack \in Nat /\ n \in Nat \ {0} /\ a \in Frames(prog)
      /\ F \in Seq(Frames(prog)) /\ Walking(prog, F, stack, fault)
  BY <1>1, RunningIs
<1>3. /\ prog' = prog /\ phase' = phase /\ ret' = ret /\ fault' = fault
      /\ result' = result /\ tempReset' = tempReset
  BY DEF Exec
<1>4. ~ AtBranch(prog, a)
  BY <1>1 DEF AtBranch, Plain
<1>7. G \in Seq(Frames(prog)) /\ Len(G) = n /\ G[n] = Onwards(a) /\ Alike(F, G, n)
  BY ExecFrames
<1>8. ASSUME NEW b \in BOOLEAN
      PROVE  Follows(prog, G, n, t, fault, b)
  <2>1. Follows(prog, F, n, stack, fault, b) /\ stack \in Int
    BY <1>2 DEF Walking
  <2>2. F[n].at < F[n].end /\ ~ AtBranch(prog, F[n]) /\ G[n] = Onwards(F[n])
    BY <1>1, <1>4, <1>7
  <2>3. \A k \in 1..(n - 1) : G[k] = F[k]
    BY <1>7 DEF Alike
  <2> HIDE DEF n, F, G, a, t
  <2>4. Follows(prog, G, n, NowAt(prog, F[n], stack), fault, b)
    BY <1>2, <2>1, <2>2, <2>3, PastFollows
  <2> QED
    BY <2>4 DEF t, a, F
<1>9. Walking(prog, G, t, fault)
  BY <1>7, <1>8 DEF Walking
<1>10. stack' = t /\ t \in Nat
  <2>1. stack' = t
    BY <1>1 DEF Exec, Op, NowAt
  <2>2. Pushes(At(prog, a.at)) \in {0, 1} /\ Uses(At(prog, a.at)) \in {0, 1}
    BY UsesPushes
  <2> QED
    BY <1>1, <1>2, <2>1, <2>2 DEF NowAt
<1>11. CTyped'
  <2>1. fresh' \subseteq Temps
    <3>1. Writes(Op) \subseteq Temps
      <4>1. At(prog, a.at).op \in {"tget", "tput", "tsav"} => At(prog, a.at).arg \in Temps
        <5>1. a.at \in 0..(Len(prog) - 1)
          <6>1. a.at \in Nat /\ a.end \in 0..Len(prog) /\ Len(prog) \in Nat
            BY <1>2, FrameTyped
          <6> HIDE DEF a
          <6> QED
            BY <1>1, <6>1
        <5> QED
          BY <1>2, <5>1, ProgTyped
      <4> QED
        BY <1>1, <4>1 DEF Op, Writes
    <3> QED
      BY <3>1 DEF Exec, CInv, CTyped
  <2>2. stale' \in BOOLEAN
    BY DEF Exec
  <2> QED
    BY <1>2, <1>3, <1>7, <1>10, <2>1, <2>2 DEF CInv, CTyped
<1>12. UnderWay'
  BY <1>1, <1>3, <1>7 DEF CInv, UnderWay
<1>13. Kept'
  <2>1. SelectsDecide(prog) => fault \notin {"underflow", "layout"}
    BY DEF CInv, Kept
  <2>2. SelectsDecide(prog) /\ fault = "none" => t <= MaxStack
    <3>1. Len(G) \in Nat \ {0} /\ t \in Nat /\ prog \in Programs
      BY <1>2, <1>7, <1>10
    <3> HIDE DEF G, t
    <3> QED
      BY <1>9, <2>1, <3>1, KeptAfter
  <2> QED
    BY <1>3, <1>10, <2>1, <2>2 DEF Kept
<1> QED
  BY <1>3, <1>9, <1>10, <1>11, <1>12, <1>13 DEF CInv

\* A body starts in a sequence of its own.
LEMMA BranchFrames ==
  ASSUME CInv, Running, AtBranch(prog, Frame), NEW start, NEW size,
         Runs(prog, Frame, start, size), Branch(start, size)
  PROVE  /\ frames' = Append(frames, [at |-> start, end |-> start + size])
         /\ frames' \in Seq(Frames(prog)) /\ Len(frames') = Len(frames) + 1
         /\ frames'[Len(frames) + 1] = [at |-> start, end |-> start + size]
         /\ \A k \in 1..Len(frames) : frames'[k] = frames[k]
         /\ Fits(Frame.end, start, size)
<1> DEFINE n == Len(frames)
           F == frames
           G == frames'
           a == frames[n]
           c == [at |-> start, end |-> start + size]
<1>1. phase = "running" /\ Frame = a
  BY DEF Running, Frame
<1>2. /\ prog \in Programs /\ stack \in Nat /\ n \in Nat \ {0} /\ a \in Frames(prog)
      /\ F \in Seq(Frames(prog)) /\ Walking(prog, F, stack, fault)
  BY <1>1, RunningIs
<1>3. AtBranch(prog, a) /\ Runs(prog, a, start, size)
  BY <1>1
<1>4. Fits(a.end, start, size) /\ c \in Frames(prog)
  <2>1. PICK b \in BOOLEAN, m \in 0..MaxStack : Accepts(prog, a, m, b)
    <3>1. n = Len(F)
      OBVIOUS
    <3> HIDE DEF n, F, a
    <3>2. \E b \in BOOLEAN, m \in 0..MaxStack : Accepts(prog, F[n], m, b)
      BY <1>2, <3>1, WalkingAccepted
    <3> QED
      BY <3>2 DEF F, a
  <2>2. PICK e : e = [at |-> start, end |-> start + size]
    OBVIOUS
  <2>3. /\ Fits(a.end, start, size)
        /\ e \in Frames(prog) /\ e.at <= e.end
        /\ NowAt(prog, a, m) \in 0..MaxStack
        /\ Under(prog, a, e, m, NowAt(prog, a, m), b)
    <3> HIDE DEF a
    <3> QED
      BY <1>2, <1>3, <2>1, <2>2, RunsUnder
  <2> QED
    BY <2>2, <2>3
<1>5. G = Append(F, c)
  BY <1>1, <1>4 DEF Branch
<1>6. G \in Seq(Frames(prog)) /\ Len(G) = n + 1 /\ G[n + 1] = c /\ \A k \in 1..n : G[k] = F[k]
  <2> DEFINE S == Frames(prog)
  <2>1. F \in Seq(S) /\ c \in S /\ n = Len(F) /\ n \in Nat /\ G = Append(F, c)
    BY <1>2, <1>4, <1>5
  <2> HIDE DEF S, c, n, F, G
  <2>2. G \in Seq(S) /\ Len(G) = n + 1 /\ G[n + 1] = c /\ \A k \in 1..n : G[k] = F[k]
    BY <2>1
  <2> QED
    BY <2>2 DEF S
<1> QED
  BY <1>1, <1>4, <1>5, <1>6

LEMMA BranchInv ==
  ASSUME CInv, Running, AtBranch(prog, Frame), Enough, NEW start, NEW size,
         Runs(prog, Frame, start, size), Branch(start, size)
  PROVE  CInv'
<1> DEFINE n == Len(frames)
           F == frames
           G == frames'
           a == frames[n]
           c == [at |-> start, end |-> start + size]
           t == stack - 1
<1>1. /\ phase = "running" /\ ret = "none" /\ Frame = a
      /\ stack >= Uses(At(prog, a.at))
  BY DEF Running, Frame, Op, Enough
<1>2. /\ prog \in Programs /\ stack \in Nat /\ n \in Nat \ {0} /\ a \in Frames(prog)
      /\ F \in Seq(Frames(prog)) /\ Walking(prog, F, stack, fault)
  BY <1>1, RunningIs
<1>3. AtBranch(prog, a) /\ Runs(prog, a, start, size)
  BY <1>1
<1>4. /\ Fits(a.end, start, size) /\ G = Append(F, c)
      /\ G \in Seq(Frames(prog)) /\ Len(G) = n + 1 /\ G[n + 1] = c
      /\ \A k \in 1..n : G[k] = F[k]
  <2>1. /\ frames' = Append(frames, [at |-> start, end |-> start + size])
        /\ frames' \in Seq(Frames(prog)) /\ Len(frames') = Len(frames) + 1
        /\ frames'[Len(frames) + 1] = [at |-> start, end |-> start + size]
        /\ \A k \in 1..Len(frames) : frames'[k] = frames[k]
        /\ Fits(Frame.end, start, size)
    BY BranchFrames
  <2> QED
    BY <1>1, <2>1
<1>5. /\ G = Append(F, c) /\ stack' = t
      /\ IF n > MaxDepth THEN ret' = "false" /\ fault' = Noted("depth")
         ELSE ret' = ret /\ fault' = fault
      /\ prog' = prog /\ phase' = phase /\ tempReset' = tempReset /\ fresh' = fresh
      /\ stale' = stale /\ result' = result
  BY <1>1, <1>4 DEF Branch
<1>6. G \in Seq(Frames(prog)) /\ Len(G) = n + 1 /\ G[n + 1] = c /\ \A k \in 1..n : G[k] = F[k]
  BY <1>4
<1>7. ASSUME NEW b \in BOOLEAN
      PROVE  Follows(prog, G, n + 1, t, fault, b)
  <2>1. Follows(prog, F, n, stack, fault, b) /\ stack \in Int
    BY <1>2 DEF Walking
  <2>2. AtBranch(prog, F[n]) /\ Runs(prog, F[n], start, size)
    BY <1>3
  <2>3. PICK e : e = [at |-> start, end |-> start + size]
    OBVIOUS
  <2>4. G[n + 1] = e /\ \A k \in 1..n : G[k] = F[k]
    BY <1>6, <2>3
  <2> HIDE DEF n, F, G, a, c, t
  <2>5. /\ Follows(prog, G, n + 1, stack - 1, fault, b)
        /\ Fits(F[n].end, start, size)
    BY <1>2, <2>1, <2>2, <2>3, <2>4, PushFollows
  <2> QED
    BY <2>5 DEF t
<1>8. Walking(prog, G, t, fault)
  BY <1>6, <1>7 DEF Walking
<1>9. t \in Nat
  <2>1. Uses(At(prog, a.at)) = 1
    BY <1>3, BranchUses DEF AtBranch, Uses
  <2> QED
    BY <1>1, <1>2, <2>1
<1>10. /\ fault' = "none" => fault = "none"
       /\ fault # "none" => fault' = fault
       /\ fault' = fault \/ fault' = "depth"
       /\ ret' = "none" \/ (ret' = "false" /\ fault' # "none")
       /\ n > MaxDepth => ret' # "none"
  BY <1>1, <1>5 DEF Noted
<1>11. Walking(prog, G, t, fault')
  <2> HIDE DEF G, t
  <2> QED
    BY <1>8, <1>10, FaultWalking
<1>12. CTyped'
  <2>1. G \in Seq(Frames(prog')) /\ stack' \in Nat
    BY <1>5, <1>6, <1>9
  <2>2. fault' \in {"none", "underflow", "stray", "layout", "depth"}
    BY <1>10 DEF CInv, CTyped
  <2>3. ret' \in {"none", "true", "false"}
    BY <1>10
  <2> QED
    BY <1>5, <2>1, <2>2, <2>3 DEF CInv, CTyped
<1>13. UnderWay'
  <2>1. n <= MaxDepth + 1 /\ Accepted(prog)
    BY <1>1 DEF CInv, UnderWay
  <2>2. Len(G) <= MaxDepth + 2 /\ (ret' = "none" => Len(G) <= MaxDepth + 1) /\ Len(G) > 0
    <3> HIDE DEF n, G
    <3> QED
      BY <1>2, <1>6, <1>10, <2>1, Limits
  <2> QED
    BY <1>1, <1>5, <1>10, <2>1, <2>2 DEF UnderWay
<1>14. Kept'
  <2>1. SelectsDecide(prog) => fault' \notin {"underflow", "layout"}
    BY <1>10 DEF CInv, Kept
  <2>2. SelectsDecide(prog) /\ fault' = "none" => t <= MaxStack
    <3>1. Len(G) \in Nat \ {0} /\ prog \in Programs
      BY <1>2, <1>6
    <3> HIDE DEF G, t
    <3> QED
      BY <1>9, <1>11, <2>1, <3>1, KeptAfter
  <2> QED
    BY <1>5, <2>1, <2>2 DEF Kept
<1> QED
  BY <1>5, <1>11, <1>12, <1>13, <1>14 DEF CInv

LEMMA IfInv == CInv /\ If => CInv'
<1> SUFFICES ASSUME CInv, If
             PROVE  CInv'
  OBVIOUS
<1> DEFINE a == Frame
<1>1. Running /\ AtBranch(prog, a) /\ Enough /\ At(prog, a.at).op = "if"
  BY DEF If, Executing, AtBranch, Op
<1>2. \/ Branch(IfBody(prog, a.end, a.at), At(prog, a.at).arg)
      \/ /\ HasElse(prog, a.end, a.at)
         /\ Branch(ElseBody(prog, a.end, a.at), At(prog, a.at + 1).arg)
  BY DEF If, Op
<1>3. CASE Branch(IfBody(prog, a.end, a.at), At(prog, a.at).arg)
  <2>1. Runs(prog, a, IfBody(prog, a.end, a.at), At(prog, a.at).arg)
    BY <1>1 DEF Runs
  <2> QED
    BY <1>1, <1>3, <2>1, BranchInv
<1>4. CASE /\ HasElse(prog, a.end, a.at)
           /\ Branch(ElseBody(prog, a.end, a.at), At(prog, a.at + 1).arg)
  <2>1. Runs(prog, a, ElseBody(prog, a.end, a.at), At(prog, a.at + 1).arg)
    BY <1>1, <1>4 DEF Runs
  <2> QED
    BY <1>1, <1>4, <2>1, BranchInv
<1> QED
  BY <1>2, <1>3, <1>4

LEMMA SelectInv == CInv /\ Select => CInv'
<1> SUFFICES ASSUME CInv, Select
             PROVE  CInv'
  OBVIOUS
<1> DEFINE a == Frame
<1>1. Running /\ AtBranch(prog, a) /\ Enough /\ At(prog, a.at).op = "sel"
  BY DEF Select, Executing, AtBranch, Op
<1>2. PICK k \in 1..Bodies(prog, a.end, a.at) :
        Branch(BodyStart(prog, a.end, a.at, k), At(prog, a.at + k).arg)
  BY DEF Select
<1>3. Runs(prog, a, BodyStart(prog, a.end, a.at, k), At(prog, a.at + k).arg)
  BY <1>1 DEF Runs
<1> QED
  BY <1>1, <1>2, <1>3, BranchInv

\* No body runs, and the sequence goes on behind them.
LEMMA SkipFrames ==
  ASSUME CInv, Running, AtBranch(prog, Frame), Skip(Behind(prog, Frame.end, Frame.at))
  PROVE  /\ frames' \in Seq(Frames(prog)) /\ Len(frames') = Len(frames)
         /\ frames'[Len(frames)] = Behindwards(prog, frames[Len(frames)])
         /\ Alike(frames, frames', Len(frames))
<1> DEFINE n == Len(frames)
           F == frames
           G == frames'
           a == frames[n]
           next == Behind(prog, a.end, a.at)
<1>1. phase = "running" /\ Frame = a
  BY DEF Running, Frame
<1>2. /\ prog \in Programs /\ stack \in Nat /\ n \in Nat \ {0} /\ a \in Frames(prog)
      /\ F \in Seq(Frames(prog)) /\ Walking(prog, F, stack, fault)
  BY <1>1, RunningIs
<1>3. AtBranch(prog, a)
  BY <1>1
<1>4. G = Advanced(F, n, next)
  BY <1>1 DEF Skip, Advanced
<1>5. next \in 0..Len(prog) /\ Behindwards(prog, a) = [at |-> next, end |-> a.end]
  <2>1. PICK b \in BOOLEAN, m \in 0..MaxStack : Accepts(prog, a, m, b)
    <3>1. n = Len(F)
      OBVIOUS
    <3> HIDE DEF n, F, a
    <3>2. \E b \in BOOLEAN, m \in 0..MaxStack : Accepts(prog, F[n], m, b)
      BY <1>2, <3>1, WalkingAccepted
    <3> QED
      BY <3>2 DEF F, a
  <2>2. /\ Behindwards(prog, a) \in Frames(prog)
        /\ Behindwards(prog, a).at = Behind(prog, a.end, a.at)
    <3> HIDE DEF a
    <3> QED
      BY <1>2, <1>3, <2>1, BranchLaidIn
  <2>3. next \in 0..Len(prog)
    <3> DEFINE g == Behindwards(prog, a)
    <3>1. g \in Frames(prog) /\ g.at = next
      BY <2>2
    <3> HIDE DEF g, next
    <3> QED
      BY <3>1 DEF Frames
  <2> QED
    BY <2>3 DEF Behindwards
<1>6. G \in Seq(Frames(prog)) /\ Len(G) = n /\ G[n] = Behindwards(prog, a) /\ Alike(F, G, n)
  <2>1. F \in Seq(Frames(prog)) /\ n \in Nat \ {0} /\ n = Len(F)
    BY <1>2
  <2>2. F[n].end = a.end
    OBVIOUS
  <2> HIDE DEF n, F, next, G, a
  <2>3. /\ Advanced(F, n, next) \in Seq(Frames(prog)) /\ Len(Advanced(F, n, next)) = n
        /\ Advanced(F, n, next)[n] = [at |-> next, end |-> F[n].end]
        /\ Alike(F, Advanced(F, n, next), n)
    BY <1>5, <2>1, AdvanceFrames
  <2> QED
    BY <1>4, <1>5, <2>2, <2>3
<1> QED
  BY <1>6

LEMMA SkipInv ==
  ASSUME CInv, Running, AtBranch(prog, Frame), Enough,
         Skip(Behind(prog, Frame.end, Frame.at)),
         \/ ~ SelectsDecide(prog)
         \/ At(prog, Frame.at).op = "if" /\ ~ HasElse(prog, Frame.end, Frame.at)
  PROVE  CInv'
<1> DEFINE n == Len(frames)
           F == frames
           G == frames'
           a == frames[n]
           t == stack - 1
<1>1. /\ phase = "running" /\ ret = "none" /\ Frame = a
      /\ stack >= Uses(At(prog, a.at))
  BY DEF Running, Frame, Op, Enough
<1>2. /\ prog \in Programs /\ stack \in Nat /\ n \in Nat \ {0} /\ a \in Frames(prog)
      /\ F \in Seq(Frames(prog)) /\ Walking(prog, F, stack, fault)
  BY <1>1, RunningIs
<1>3. AtBranch(prog, a)
  BY <1>1
<1>4. /\ stack' = t
      /\ prog' = prog /\ phase' = phase /\ tempReset' = tempReset /\ fresh' = fresh
      /\ ret' = ret /\ fault' = fault /\ stale' = stale /\ result' = result
  BY <1>1 DEF Skip
<1>6. G \in Seq(Frames(prog)) /\ Len(G) = n /\ G[n] = Behindwards(prog, a) /\ Alike(F, G, n)
  BY SkipFrames
<1>7. ASSUME NEW b \in BOOLEAN
      PROVE  Follows(prog, G, n, t, fault, b)
  <2>1. Follows(prog, F, n, stack, fault, b) /\ stack \in Int /\ t \in Int
    BY <1>2 DEF Walking
  <2>2. AtBranch(prog, F[n]) /\ G[n] = Behindwards(prog, F[n]) /\ Alike(F, G, n)
    BY <1>3, <1>6
  <2>3. CASE ~ SelectsDecide(prog)
    <3> HIDE DEF n, F, G, a, t
    <3> QED
      BY <1>2, <2>1, <2>2, <2>3, UnsureFollows
  <2>4. CASE At(prog, a.at).op = "if" /\ ~ HasElse(prog, a.end, a.at)
    <3>1. At(prog, F[n].at).op = "if" /\ ~ HasElse(prog, F[n].end, F[n].at)
      BY <2>4
    <3> HIDE DEF n, F, G, a, t
    <3>2. Follows(prog, G, n, stack - 1, fault, b)
      BY <1>2, <2>1, <2>2, <3>1, SkipFollows
    <3> QED
      BY <3>2 DEF t
  <2> QED
    BY <1>1, <2>3, <2>4
<1>8. Walking(prog, G, t, fault)
  BY <1>6, <1>7 DEF Walking
<1>9. t \in Nat
  <2>1. Uses(At(prog, a.at)) = 1
    BY <1>3 DEF AtBranch, Uses
  <2> QED
    BY <1>1, <1>2, <2>1
<1>10. CTyped'
  <2>1. G \in Seq(Frames(prog')) /\ stack' \in Nat
    BY <1>4, <1>6, <1>9
  <2> QED
    BY <1>4, <2>1 DEF CInv, CTyped
<1>11. UnderWay'
  <2>1. Len(G) = Len(F)
    BY <1>6
  <2> QED
    BY <1>1, <1>4, <2>1 DEF CInv, UnderWay
<1>12. Kept'
  <2>1. SelectsDecide(prog) => fault \notin {"underflow", "layout"}
    BY DEF CInv, Kept
  <2>2. SelectsDecide(prog) /\ fault = "none" => t <= MaxStack
    <3>1. Len(G) \in Nat \ {0} /\ prog \in Programs
      BY <1>2, <1>6
    <3> HIDE DEF G, t
    <3> QED
      BY <1>8, <1>9, <2>1, <3>1, KeptAfter
  <2> QED
    BY <1>4, <2>1, <2>2 DEF Kept
<1> QED
  BY <1>4, <1>8, <1>10, <1>11, <1>12 DEF CInv

LEMMA SkipIfInv == CInv /\ SkipIf => CInv'
<1> SUFFICES ASSUME CInv, SkipIf
             PROVE  CInv'
  OBVIOUS
<1>1. /\ Running /\ AtBranch(prog, Frame) /\ Enough /\ At(prog, Frame.at).op = "if"
      /\ ~ HasElse(prog, Frame.end, Frame.at)
  BY DEF SkipIf, Executing, AtBranch, Op
<1>2. Skip(Behind(prog, Frame.end, Frame.at))
  BY <1>1 DEF SkipIf, Behind
<1> QED
  BY <1>1, <1>2, SkipInv

LEMMA SkipSelectInv == CInv /\ SkipSelect => CInv'
<1> SUFFICES ASSUME CInv, SkipSelect
             PROVE  CInv'
  OBVIOUS
<1> DEFINE n == Len(frames)
           a == Frame
<1>1. /\ Running /\ AtBranch(prog, a) /\ Enough /\ At(prog, a.at).op = "sel"
      /\ ~ HasDefault(prog, a.end, a.at) /\ phase = "running"
  BY DEF SkipSelect, Executing, AtBranch, Op, Running
<1>2. Skip(Behind(prog, a.end, a.at))
  BY <1>1 DEF SkipSelect, Behind
<1>3. ~ SelectsDecide(prog)
  <2>1. prog \in Programs /\ n \in Nat \ {0} /\ Walking(prog, frames, stack, fault)
    BY <1>1, RunningIs
  <2>2. PICK b \in BOOLEAN, m \in 0..MaxStack : Accepts(prog, a, m, b)
    <3>1. n = Len(frames)
      OBVIOUS
    <3> HIDE DEF n, a
    <3>2. \E b \in BOOLEAN, m \in 0..MaxStack : Accepts(prog, frames[n], m, b)
      BY <2>1, <3>1, WalkingAccepted
    <3> QED
      BY <3>1, <3>2 DEF a, Frame
  <2> HIDE DEF a
  <2> QED
    BY <1>1, <2>1, <2>2, SelectsLaidOut
<1> QED
  BY <1>1, <1>2, <1>3, SkipInv

LEMMA CallerAccepted ==
  ASSUME NEW p, NEW F, NEW n \in Nat \ {0}, n = Len(F), NEW s, NEW f, Walking(p, F, s, f),
         NEW k \in 1..(n - 1)
  PROVE  /\ AtBranch(p, F[k])
         /\ \E b \in BOOLEAN, m \in 0..MaxStack : Accepts(p, F[k], m, b)
<1>1. PICK b \in BOOLEAN : Follows(p, F, n, s, f, b)
  BY DEF Walking
<1>2. PICK d \in [Nat -> 0..MaxStack] : Walked(p, F, n, d, b)
  BY <1>1 DEF Follows
<1>3. k \in 1..n /\ k \in Nat
  OBVIOUS
<1>4. Accepts(p, F[k], d[k], b) /\ d[k] \in 0..MaxStack
  BY <1>2, <1>3 DEF Walked
<1>5. AtBranch(p, F[k])
  BY <1>2 DEF Walked, Under
<1> QED
  BY <1>4, <1>5

LEMMA FrameSame ==
  ASSUME NEW p, NEW fr \in Frames(p)
  PROVE  fr = [at |-> fr.at, end |-> fr.end] /\ fr.at \in 0..Len(p)
BY DEF Frames

\* The sequence that ran the body goes on behind the branch, or stays where it is.
LEMMA ReturnBodyFrames ==
  ASSUME CInv, ReturnBody, NEW k, k = Len(frames) - 1
  PROVE  /\ phase = "running" /\ Len(frames) \in Nat /\ Len(frames) > 1
         /\ frames' \in Seq(Frames(prog)) /\ Len(frames') = k
         /\ frames'[k] = IF ret = "true" THEN Behindwards(prog, frames[k]) ELSE frames[k]
         /\ Alike(frames, frames', k)
<1> DEFINE n == Len(frames)
           F == frames
           G == frames'
           a == F[k]
           next == IF ret = "true" THEN Behind(prog, a.end, a.at) ELSE a.at
<1>1. phase = "running" /\ ret # "none" /\ n > 1
  BY DEF ReturnBody, CInv, UnderWay
<1>2. /\ prog \in Programs /\ stack \in Nat /\ n \in Nat \ {0}
      /\ F \in Seq(Frames(prog)) /\ Walking(prog, F, stack, fault)
  BY <1>1, RunningIs
<1>3. k \in 1..(n - 1) /\ k \in Nat \ {0}
  <2>1. n \in Nat /\ n > 1 /\ k = n - 1
    BY <1>1, <1>2
  <2> HIDE DEF n
  <2> QED
    BY <2>1
<1>4. /\ AtBranch(prog, a)
      /\ \E b \in BOOLEAN, m \in 0..MaxStack : Accepts(prog, a, m, b)
  <2>1. n = Len(F)
    OBVIOUS
  <2> HIDE DEF n, F
  <2>2. /\ AtBranch(prog, F[k])
        /\ \E b \in BOOLEAN, m \in 0..MaxStack : Accepts(prog, F[k], m, b)
    BY <1>2, <1>3, <2>1, CallerAccepted
  <2> QED
    BY <2>2
<1>5. a \in Frames(prog)
  BY <1>4 DEF Accepts
<1>6. /\ Behind(prog, a.end, a.at) \in 0..Len(prog)
      /\ Behindwards(prog, a) = [at |-> Behind(prog, a.end, a.at), end |-> a.end]
  <2>1. PICK b \in BOOLEAN, m \in 0..MaxStack : Accepts(prog, a, m, b)
    BY <1>4
  <2> HIDE DEF a
  <2>2. /\ Behindwards(prog, a) \in Frames(prog)
        /\ Behindwards(prog, a).at = Behind(prog, a.end, a.at)
    BY <1>2, <1>4, <2>1, BranchLaidIn
  <2> DEFINE g == Behindwards(prog, a)
             to == Behind(prog, a.end, a.at)
  <2>3. to \in 0..Len(prog)
    <3>1. g \in Frames(prog) /\ g.at = to
      BY <2>2
    <3> HIDE DEF g, to
    <3> QED
      BY <3>1 DEF Frames
  <2> QED
    BY <2>3 DEF Behindwards
<1>7. next \in 0..Len(prog)
  <2>1. a.at \in 0..Len(prog)
    <3> HIDE DEF a
    <3> QED
      BY <1>5, FrameSame
  <2> QED
    BY <1>6, <2>1
<1>9. G = Advanced(SubSeq(F, 1, n - 1), n - 1, next)
  <2>1. SubSeq(F, 1, n - 1)[n - 1] = F[n - 1]
    <3>1. n = Len(F) /\ n \in Nat /\ n > 1 /\ F \in Seq(Frames(prog))
      BY <1>1, <1>2
    <3> HIDE DEF n, F
    <3>2. Alike(F, SubSeq(F, 1, n - 1), n)
      BY <3>1, FrontFrames
    <3> QED
      BY <3>1, <3>2 DEF Alike
  <2>2. G = [SubSeq(F, 1, n - 1) EXCEPT ![n - 1].at =
               IF ret = "true" THEN Behind(prog, a.end, SubSeq(F, 1, n - 1)[n - 1].at)
               ELSE SubSeq(F, 1, n - 1)[n - 1].at]
    BY DEF ReturnBody, Caller
  <2> QED
    BY <2>1, <2>2 DEF Advanced
<1>10. /\ G \in Seq(Frames(prog)) /\ Len(G) = k
       /\ G[k] = [at |-> next, end |-> a.end]
       /\ Alike(F, G, k)
  <2>1. n = Len(F) /\ n \in Nat /\ n > 1
    BY <1>1, <1>2
  <2> HIDE DEF n, F, next, G
  <2>2. /\ G \in Seq(Frames(prog)) /\ Len(G) = n - 1
        /\ G[n - 1] = [at |-> next, end |-> F[n - 1].end]
        /\ Alike(F, G, n - 1)
    BY <1>2, <1>7, <1>9, <2>1, ReturnFrames
  <2>3. k = n - 1
    BY DEF n
  <2> QED
    BY <2>2, <2>3
<1>11. G[k] = IF ret = "true" THEN Behindwards(prog, a) ELSE a
  <2>1. a = [at |-> a.at, end |-> a.end]
    <3> HIDE DEF a
    <3> QED
      BY <1>5, FrameSame
  <2> QED
    BY <1>6, <1>10, <2>1
<1> QED
  BY <1>1, <1>2, <1>10, <1>11

LEMMA ReturnBodyInv == CInv /\ ReturnBody => CInv'
<1> SUFFICES ASSUME CInv, ReturnBody
             PROVE  CInv'
  OBVIOUS
<1> DEFINE n == Len(frames)
           k == n - 1
           F == frames
           G == frames'
           a == F[k]
<1>1. phase = "running" /\ ret # "none" /\ n > 1
  BY DEF ReturnBody, CInv, UnderWay
<1>2. /\ prog \in Programs /\ stack \in Nat /\ n \in Nat \ {0}
      /\ F \in Seq(Frames(prog)) /\ Walking(prog, F, stack, fault)
  BY <1>1, RunningIs
<1>3. k \in Nat \ {0}
  <2>1. n \in Nat /\ n > 1
    BY <1>1, <1>2
  <2> HIDE DEF n
  <2> QED
    BY <2>1
<1>8. /\ prog' = prog /\ phase' = phase /\ tempReset' = tempReset /\ fresh' = fresh
      /\ stack' = stack /\ fault' = fault /\ stale' = stale /\ result' = result
      /\ ret' = IF ret = "true" THEN "none"
                ELSE IF At(prog, a.at).op = "if" THEN "false" ELSE "true"
  BY DEF ReturnBody, Caller
<1>10. /\ G \in Seq(Frames(prog)) /\ Len(G) = k
       /\ G[k] = IF ret = "true" THEN Behindwards(prog, a) ELSE a
       /\ Alike(F, G, k)
  BY ReturnBodyFrames
<1>11. ASSUME NEW b \in BOOLEAN
       PROVE  Follows(prog, G, k, stack, fault, b)
  <2>1. Follows(prog, F, n, stack, fault, b) /\ stack \in Int /\ n \in Nat /\ n > 1
    BY <1>1, <1>2 DEF Walking
  <2>2. CASE ret = "true"
    <3>1. fault = "none" => F[n].at >= F[n].end
      BY <2>2 DEF CInv, UnderWay
    <3>2. Alike(F, G, n - 1) /\ G[n - 1] = Behindwards(prog, F[n - 1])
      BY <1>10, <2>2
    <3> HIDE DEF n, F, G, a
    <3> QED
      BY <1>2, <2>1, <3>1, <3>2, PopFollows DEF k
  <2>3. CASE ret # "true"
    <3>1. fault # "none"
      BY <1>1, <2>3 DEF CInv, CTyped, UnderWay
    <3>2. G[k] = F[k]
      BY <1>10, <2>3
    <3>3. Alike(F, G, n)
      <4>1. ASSUME NEW u \in 1..(n - 1)
            PROVE  u = k \/ u \in 1..(k - 1)
        BY <1>2
      <4> HIDE DEF n, k, F, G
      <4> QED
        BY <1>10, <3>2, <4>1 DEF Alike
    <3> HIDE DEF n, F, G
    <3> QED
      BY <1>2, <2>1, <3>1, <3>3, DropFollows DEF k
  <2> QED
    BY <2>2, <2>3
<1>12. Walking(prog, G, stack, fault)
  BY <1>10, <1>11 DEF Walking
<1>13. CTyped'
  <2>1. G \in Seq(Frames(prog')) /\ ret' \in {"none", "true", "false"}
    BY <1>8, <1>10
  <2> QED
    BY <1>8, <2>1 DEF CInv, CTyped
<1>14. UnderWay'
  <2>1. Len(G) > 0 /\ Len(G) <= MaxDepth + 1 /\ Len(G) <= MaxDepth + 2
    <3>1. n <= MaxDepth + 2
      BY DEF CInv, UnderWay
    <3> HIDE DEF n, G
    <3> QED
      BY <1>2, <1>3, <1>10, <3>1, Limits DEF k
  <2>2. ret # "true" => fault # "none"
    BY <1>1 DEF CInv, CTyped, UnderWay
  <2>3. Accepted(prog)
    BY <1>1 DEF CInv, UnderWay
  <2> QED
    BY <1>1, <1>8, <2>1, <2>2, <2>3 DEF UnderWay
<1>15. Kept'
  BY <1>8 DEF CInv, Kept
<1> QED
  BY <1>8, <1>12, <1>13, <1>14, <1>15 DEF CInv

LEMMA CalcStepInv == CInv /\ [CalcNext]_calcVars => CInv'
<1> SUFFICES ASSUME CInv, [CalcNext]_calcVars
             PROVE  CInv'
  OBVIOUS
<1>1. CASE UNCHANGED calcVars
  BY <1>1 DEF calcVars, CInv, CTyped, UnderWay, Kept
<1>2. CASE Begin \/ Apply \/ EndOfSequence \/ ReturnPixel
  BY <1>2, BeginInv, CalcApplyInv, EndInv, ReturnPixelInv
<1>3. CASE Exec \/ Break \/ Stray
  BY <1>3, ExecInv, BreakInv, StrayInv
<1>4. CASE If \/ Select \/ SkipIf \/ SkipSelect
  BY <1>4, IfInv, SelectInv, SkipIfInv, SkipSelectInv
<1>5. CASE ReturnBody
  BY <1>5, ReturnBodyInv
<1> QED
  BY <1>1, <1>2, <1>3, <1>4, <1>5 DEF CalcNext

LEMMA CalcInvariant == CalcSpec => []CInv
<1>1. CInv /\ [CalcNext]_calcVars => CInv'
  BY CalcStepInv
<1> QED
  BY <1>1, CalcInitInv, PTL DEF CalcSpec

\* A program that Begin accepted finds its arguments on the stack and its bodies in
\* place at every pixel, for any limits and any programs.
THEOREM AcceptedProgramsAlwaysRun == CalcSpec => []AcceptedProgramsRun
<1>1. CInv => AcceptedProgramsRun
  BY CInvHolds
<1> QED
  BY <1>1, CalcInvariant, PTL

\* The stack of a pixel stays within the limit that Begin judged the program by.
THEOREM StackAlwaysWithinLimit == CalcSpec => []StackWithinLimit
<1>1. CInv => StackWithinLimit
  BY CInvHolds
<1> QED
  BY <1>1, CalcInvariant, PTL
-----------------------------------------------------------------------------
(* What is written while the frames are under way *)

\* The pass of a frame that has come to where it is with w written.
PassAt(fr, w) == [at |-> fr.at, end |-> fr.end, written |-> w]
WrittenBy(p, fr, w) == WrittenAfter(p)[PassAt(fr, w)]
\* Frame fr can be followed from where it is, and what it counts as written is.
Sure(p, fr, w, T) == fr \in Frames(p) /\ w \subseteq T /\ Old \notin WrittenBy(p, fr, w)
IfOf(p, fr, w) == IfWrites(p, WrittenAfter(p), PassAt(fr, w))
ElseOf(p, fr, w) == ElseWrites(p, WrittenAfter(p), PassAt(fr, w))
\* Frame c runs a body of the if that frame a is at, and was followed from there.
Forked(p, a, c, v, w) ==
  /\ a.at < a.end /\ At(p, a.at).op = "if"
  /\ WrittenBy(p, c, w) \in {IfOf(p, a, v), ElseOf(p, a, v)}
Passed(p, F, n, w, T) ==
  /\ \A k \in 1..n : Sure(p, F[k], w[k], T)
  /\ \A k \in 1..(n - 1) : Forked(p, F[k], F[k + 1], w[k], w[k + 1])
Traced(p, F, n, T) == \E w \in [Nat -> SUBSET Temps] : Passed(p, F, n, w, T)

LEMMA PutMarks ==
  ASSUME NEW n \in Nat \ {0}, NEW w \in [Nat -> SUBSET Temps], NEW v \in SUBSET Temps
  PROVE  /\ Put(w, n, v) \in [Nat -> SUBSET Temps] /\ Put(w, n, v)[n] = v
         /\ \A k \in Nat : k # n => Put(w, n, v)[k] = w[k]
BY DEF Put

LEMMA PassAtTyped ==
  ASSUME NEW p \in Programs, NEW fr \in Frames(p), NEW w \in SUBSET Temps
  PROVE  /\ PassAt(fr, w) \in Passes(p)
         /\ PassAt(fr, w).at = fr.at /\ PassAt(fr, w).end = fr.end
         /\ PassAt(fr, w).written = w
<1>1. fr.at \in 0..Len(p) /\ fr.end \in 0..Len(p)
  BY DEF Frames
<1> QED
  BY <1>1 DEF PassAt, Passes

LEMMA PassesEqual ==
  ASSUME NEW p, NEW x \in Passes(p), NEW y \in Passes(p),
         x.at = y.at, x.end = y.end, x.written = y.written
  PROVE  x = y
BY DEF Passes

\* A sequence that has come to its end has written what it counts on.
LEMMA WrittenAtEnd ==
  ASSUME NEW p \in Programs, NEW fr \in Frames(p), NEW w \in SUBSET Temps, fr.at >= fr.end
  PROVE  WrittenBy(p, fr, w) = w
<1> DEFINE x == PassAt(fr, w)
           d == WrittenAfter(p)
<1>1. x \in Passes(p) /\ x.at = fr.at /\ x.end = fr.end /\ x.written = w
  BY PassAtTyped
<1>2. \A y \in Passes(p) : d[y] = Followed(p, d, y)
  BY WrittenAfterIs
<1> HIDE DEF x, d
<1>3. d[x] = Followed(p, d, x)
  BY <1>1, <1>2
<1>4. Followed(p, d, x) = w
  BY <1>1 DEF Followed
<1> QED
  BY <1>3, <1>4 DEF x, d, WrittenBy

\* Where the operation of a frame is, its pass goes on.
LEMMA SureGoesOn ==
  ASSUME NEW p \in Programs, NEW fr, NEW w \in SUBSET Temps, NEW T, Sure(p, fr, w, T),
         fr.at < fr.end
  PROVE  /\ Reads(At(p, fr.at)) \subseteq w /\ At(p, fr.at).op # "sel"
         /\ At(p, fr.at).op = "if" =>
              /\ Old \notin IfOf(p, fr, w) /\ Old \notin ElseOf(p, fr, w)
              /\ IfOf(p, fr, w) \subseteq Temps /\ ElseOf(p, fr, w) \subseteq Temps
              /\ WrittenBy(p, fr, w)
                   = WrittenAfter(p)[OverIf(p, WrittenAfter(p), PassAt(fr, w))]
         /\ At(p, fr.at).op # "if" =>
              WrittenBy(p, fr, w) = WrittenAfter(p)[PastWrites(p, PassAt(fr, w))]
<1> DEFINE x == PassAt(fr, w)
           d == WrittenAfter(p)
<1>1. fr \in Frames(p) /\ Old \notin d[x]
  BY DEF Sure, WrittenBy
<1>2. x \in Passes(p) /\ x.at = fr.at /\ x.end = fr.end /\ x.written = w
  BY <1>1, PassAtTyped
<1>3. d \in [Passes(p) -> Marks] /\ \A y \in Passes(p) : d[y] = Followed(p, d, y)
  BY WrittenAfterIs
<1>4. /\ IfOf(p, fr, w) = IfWrites(p, d, x) /\ ElseOf(p, fr, w) = ElseWrites(p, d, x)
      /\ WrittenBy(p, fr, w) = d[x]
  BY DEF IfOf, ElseOf, WrittenBy
<1> HIDE DEF x, d
<1>5. d[x] = Followed(p, d, x) /\ x.at < x.end
  BY <1>2, <1>3
<1>6. Known(p, x)
  BY <1>1, <1>2, <1>5, FollowedCases
<1>7. Reads(At(p, fr.at)) \subseteq w /\ At(p, fr.at).op # "sel"
  BY <1>2, <1>6 DEF Known
<1>8. CASE At(p, fr.at).op = "if"
  <2>1. Forks(p, x)
    BY <1>2, <1>8 DEF Forks
  <2>2. Old \notin IfWrites(p, d, x) \cup ElseWrites(p, d, x)
        /\ Followed(p, d, x) = d[OverIf(p, d, x)]
    BY <1>1, <1>2, <1>5, <1>6, <2>1, FollowedCases
  <2>3. IfWrites(p, d, x) \in Marks /\ ElseWrites(p, d, x) \in Marks
    BY <1>2, <1>3, <1>5, BothSame
  <2>4. IfWrites(p, d, x) \subseteq Temps /\ ElseWrites(p, d, x) \subseteq Temps
    BY <2>2, <2>3 DEF Marks
  <2> QED
    BY <1>4, <1>5, <1>7, <1>8, <2>2, <2>4 DEF x, d
<1>9. CASE At(p, fr.at).op # "if"
  <2>1. ~ Forks(p, x)
    BY <1>2, <1>9 DEF Forks
  <2>2. Followed(p, d, x) = d[PastWrites(p, x)]
    BY <1>2, <1>5, <1>6, <2>1, FollowedCases
  <2> QED
    BY <1>4, <1>5, <1>7, <1>9, <2>2 DEF x, d
<1> QED
  BY <1>8, <1>9

\* The innermost frame of F has moved on, and its pass with it.
Gone(p, F, G, n, w, v, T, U) ==
  /\ Passed(p, F, n, w, T) /\ T \subseteq U /\ v \subseteq U
  /\ Alike(F, G, n) /\ G[n] \in Frames(p)
  /\ WrittenBy(p, G[n], v) = WrittenBy(p, F[n], w[n])

LEMMA MovePassed ==
  ASSUME NEW p \in Programs, NEW F, NEW G, NEW n \in Nat \ {0},
         NEW w \in [Nat -> SUBSET Temps], NEW v \in SUBSET Temps, NEW T, NEW U,
         Gone(p, F, G, n, w, v, T, U)
  PROVE  Traced(p, G, n, U)
<1> DEFINE c == Put(w, n, v)
<1> USE DEF Gone
<1>1. c \in [Nat -> SUBSET Temps] /\ c[n] = v /\ \A k \in 1..(n - 1) : c[k] = w[k]
  BY PutMarks
<1> HIDE DEF c
<1>2. n \in 1..n /\ \A k \in 1..(n - 1) : k \in 1..n
  OBVIOUS
<1>3. Sure(p, G[n], v, U)
  BY <1>2 DEF Passed, Sure
<1>4. ASSUME NEW k \in 1..n
      PROVE  Sure(p, G[k], c[k], U)
  <2>1. CASE k = n
    BY <1>1, <1>3, <2>1
  <2>2. CASE k # n
    <3>1. k \in 1..(n - 1)
      BY <2>2
    <3>2. G[k] = F[k] /\ c[k] = w[k] /\ Sure(p, F[k], w[k], T)
      BY <1>1, <3>1 DEF Passed, Alike
    <3> QED
      BY <3>2 DEF Sure
  <2> QED
    BY <2>1, <2>2
<1>5. ASSUME NEW k \in 1..(n - 1)
      PROVE  Forked(p, G[k], G[k + 1], c[k], c[k + 1])
  <2>1. Forked(p, F[k], F[k + 1], w[k], w[k + 1])
    BY DEF Passed
  <2>2. G[k] = F[k] /\ c[k] = w[k]
    BY <1>1 DEF Alike
  <2>3. CASE k + 1 = n
    <3>1. Forked(p, F[k], F[n], w[k], w[n])
      BY <2>1, <2>3
    <3>2. Forked(p, F[k], G[n], w[k], v)
      BY <3>1 DEF Forked
    <3> QED
      BY <1>1, <2>2, <2>3, <3>2
  <2>4. CASE k + 1 # n
    <3>1. k + 1 \in 1..(n - 1)
      BY <2>4
    <3>2. G[k + 1] = F[k + 1] /\ c[k + 1] = w[k + 1]
      BY <1>1, <3>1 DEF Alike
    <3> QED
      BY <2>1, <2>2, <3>2
  <2> QED
    BY <2>3, <2>4
<1>6. Passed(p, G, n, c, U)
  BY <1>4, <1>5 DEF Passed
<1> QED
  BY <1>1, <1>6 DEF Traced

\* More temporaries written do no harm, and neither does a frame that is gone.
LEMMA FewerTraced ==
  ASSUME NEW p, NEW F, NEW G, NEW n \in Nat, n > 1, NEW T, Traced(p, F, n, T), Alike(F, G, n)
  PROVE  Traced(p, G, n - 1, T)
<1>1. PICK w \in [Nat -> SUBSET Temps] : Passed(p, F, n, w, T)
  BY DEF Traced
<1>2. \A k \in 1..(n - 1) : k \in 1..n /\ G[k] = F[k]
  BY DEF Alike
<1>3. \A k \in 1..((n - 1) - 1) : k \in 1..(n - 1) /\ k + 1 \in 1..(n - 1)
  OBVIOUS
<1>4. Passed(p, G, n - 1, w, T)
  BY <1>1, <1>2, <1>3 DEF Passed
<1> QED
  BY <1>4 DEF Traced

LEMMA InnermostSure ==
  ASSUME NEW p, NEW F, NEW n \in Nat \ {0}, NEW w \in [Nat -> SUBSET Temps], NEW T,
         Passed(p, F, n, w, T)
  PROVE  Sure(p, F[n], w[n], T) /\ w[n] \in SUBSET Temps
<1>1. n \in 1..n
  OBVIOUS
<1> QED
  BY <1>1 DEF Passed

\* What is written behind a plain operation is what it writes, too.
LEMMA PastPass ==
  ASSUME NEW p \in Programs, NEW fr, NEW w \in SUBSET Temps, NEW T, Sure(p, fr, w, T),
         fr.at < fr.end, At(p, fr.at).op # "if", NEW v, v = w \cup Writes(At(p, fr.at))
  PROVE  /\ v \in SUBSET Temps
         /\ WrittenBy(p, Onwards(fr), v) = WrittenBy(p, fr, w)
<1> DEFINE x == PassAt(fr, w)
           y == PassAt(Onwards(fr), v)
           z == PastWrites(p, x)
<1>1. fr \in Frames(p)
  BY DEF Sure
<1>2. x \in Passes(p) /\ x.at = fr.at /\ x.end = fr.end /\ x.written = w
  BY <1>1, PassAtTyped
<1>3. WrittenBy(p, fr, w) = WrittenAfter(p)[z]
  BY SureGoesOn
<1> HIDE DEF x, z
<1>4. z \in Passes(p) /\ z.at = x.at + 1 /\ z.end = x.end
      /\ z.written = x.written \cup Writes(At(p, x.at))
  BY <1>2, PastWritesShorter DEF z
<1>5. v \in SUBSET Temps
  BY <1>2, <1>4 DEF Passes
<1>6. Onwards(fr) \in Frames(p)
  BY <1>1, OnwardsTyped
<1>7. y \in Passes(p) /\ y.at = Onwards(fr).at /\ y.end = Onwards(fr).end /\ y.written = v
  BY <1>5, <1>6, PassAtTyped
<1>8. Onwards(fr).at = fr.at + 1 /\ Onwards(fr).end = fr.end
  BY DEF Onwards
<1> HIDE DEF y
<1>9. y = z
  BY <1>2, <1>4, <1>7, <1>8, PassesEqual
<1> QED
  BY <1>3, <1>5, <1>9 DEF y, WrittenBy

\* What is written behind an if is what both of its bodies write, too.
LEMMA OverPass ==
  ASSUME NEW p \in Programs, NEW fr, NEW w \in SUBSET Temps, NEW T, Sure(p, fr, w, T),
         fr.at < fr.end, At(p, fr.at).op = "if", Behindwards(p, fr) \in Frames(p),
         NEW v, v = w \cup BothWrite(IfOf(p, fr, w), ElseOf(p, fr, w))
  PROVE  /\ v \in SUBSET Temps
         /\ WrittenBy(p, Behindwards(p, fr), v) = WrittenBy(p, fr, w)
<1> DEFINE x == PassAt(fr, w)
           g == Behindwards(p, fr)
           y == PassAt(g, v)
           d == WrittenAfter(p)
           z == OverIf(p, d, x)
           a == AfterIf(p, fr.end, fr.at)
<1>1. fr \in Frames(p)
  BY DEF Sure
<1>2. x \in Passes(p) /\ x.at = fr.at /\ x.end = fr.end /\ x.written = w
  BY <1>1, PassAtTyped
<1>3. /\ WrittenBy(p, fr, w) = d[z]
      /\ IfOf(p, fr, w) \subseteq Temps /\ ElseOf(p, fr, w) \subseteq Temps
  BY SureGoesOn
<1>4. v \in SUBSET Temps
  BY <1>3 DEF BothWrite
<1>5. g.at = a /\ g.end = fr.end /\ g \in Frames(p)
  BY DEF Behindwards, Behind
<1>6. y \in Passes(p) /\ y.at = g.at /\ y.end = g.end /\ y.written = v
  <2> HIDE DEF g
  <2> QED
    BY <1>4, <1>5, PassAtTyped
<1>7. z = [x EXCEPT !.at = a, !.written = v]
  <2>1. /\ IfOf(p, fr, w) = IfWrites(p, d, x) /\ ElseOf(p, fr, w) = ElseWrites(p, d, x)
    BY DEF IfOf, ElseOf
  <2>2. z = [x EXCEPT !.at = AfterIf(p, x.end, x.at),
                      !.written = x.written \cup BothWrite(IfWrites(p, d, x), ElseWrites(p, d, x))]
    BY DEF OverIf
  <2> HIDE DEF x, d, z
  <2> QED
    BY <1>2, <2>1, <2>2
<1>8. a \in 0..Len(p)
  <2>1. g \in Frames(p) /\ g.at = a
    BY <1>5
  <2> HIDE DEF a, g
  <2> QED
    BY <2>1 DEF Frames
<1> HIDE DEF x, y, z, a, g
<1>9. [x EXCEPT !.at = a, !.written = v] \in Passes(p)
      /\ [x EXCEPT !.at = a, !.written = v].at = a
      /\ [x EXCEPT !.at = a, !.written = v].end = x.end
      /\ [x EXCEPT !.at = a, !.written = v].written = v
  BY <1>2, <1>4, <1>8 DEF Passes
<1>10. z \in Passes(p) /\ z.at = a /\ z.end = x.end /\ z.written = v
  BY <1>7, <1>9
<1>11. y.at = z.at /\ y.end = z.end /\ y.written = z.written
  BY <1>2, <1>5, <1>6, <1>10
<1>12. y = z
  BY <1>6, <1>10, <1>11, PassesEqual
<1> QED
  BY <1>3, <1>4, <1>12 DEF y, g, d, WrittenBy

LEMMA PlainTraced ==
  ASSUME NEW p \in Programs, NEW F, NEW G, NEW n \in Nat \ {0}, NEW T, NEW U,
         Traced(p, F, n, T), F[n].at < F[n].end, At(p, F[n].at).op # "if",
         Alike(F, G, n), G[n] = Onwards(F[n]), U = T \cup Writes(At(p, F[n].at))
  PROVE  Traced(p, G, n, U) /\ Reads(At(p, F[n].at)) \subseteq T
<1>1. PICK w \in [Nat -> SUBSET Temps] : Passed(p, F, n, w, T)
  BY DEF Traced
<1>2. Sure(p, F[n], w[n], T) /\ w[n] \in SUBSET Temps
  BY <1>1, InnermostSure
<1>3. PICK v : v = w[n] \cup Writes(At(p, F[n].at))
  OBVIOUS
<1>4. v \in SUBSET Temps /\ WrittenBy(p, Onwards(F[n]), v) = WrittenBy(p, F[n], w[n])
  <2> DEFINE a == F[n]
             m == w[n]
  <2>1. Sure(p, a, m, T) /\ m \in SUBSET Temps /\ a.at < a.end /\ At(p, a.at).op # "if"
    BY <1>2
  <2> HIDE DEF a, m
  <2>2. \A e : e = m \cup Writes(At(p, a.at)) =>
          e \in SUBSET Temps /\ WrittenBy(p, Onwards(a), e) = WrittenBy(p, a, m)
    BY <2>1, PastPass
  <2> QED
    BY <1>3, <2>2 DEF a, m
<1>5. Reads(At(p, F[n].at)) \subseteq w[n]
  BY <1>2, SureGoesOn
<1>6. w[n] \subseteq T /\ F[n] \in Frames(p)
  BY <1>2 DEF Sure
<1>7. Onwards(F[n]) \in Frames(p)
  BY <1>6, OnwardsTyped
<1>8. Gone(p, F, G, n, w, v, T, U)
  BY <1>1, <1>3, <1>4, <1>6, <1>7 DEF Gone
<1>9. Traced(p, G, n, U)
  BY <1>4, <1>8, MovePassed
<1> QED
  BY <1>5, <1>6, <1>9

LEMMA OverTraced ==
  ASSUME NEW p \in Programs, NEW F, NEW G, NEW n \in Nat \ {0}, NEW T,
         NEW w \in [Nat -> SUBSET Temps], Passed(p, F, n, w, T),
         F[n].at < F[n].end, At(p, F[n].at).op = "if",
         Alike(F, G, n), G[n] = Behindwards(p, F[n]), G[n] \in Frames(p),
         BothWrite(IfOf(p, F[n], w[n]), ElseOf(p, F[n], w[n])) \subseteq T
  PROVE  Traced(p, G, n, T)
<1>1. Sure(p, F[n], w[n], T) /\ w[n] \in SUBSET Temps
  BY InnermostSure
<1>2. PICK v : v = w[n] \cup BothWrite(IfOf(p, F[n], w[n]), ElseOf(p, F[n], w[n]))
  OBVIOUS
<1>3. v \in SUBSET Temps
      /\ WrittenBy(p, Behindwards(p, F[n]), v) = WrittenBy(p, F[n], w[n])
  BY <1>1, <1>2, OverPass
<1>4. v \subseteq T
  BY <1>1, <1>2 DEF Sure
<1>5. Gone(p, F, G, n, w, v, T, T)
  BY <1>3, <1>4 DEF Gone
<1> QED
  BY <1>3, <1>5, MovePassed

LEMMA SkipTraced ==
  ASSUME NEW p \in Programs, NEW F, NEW G, NEW n \in Nat \ {0}, NEW T,
         Traced(p, F, n, T), F[n].at < F[n].end, At(p, F[n].at).op = "if",
         ~ HasElse(p, F[n].end, F[n].at),
         Alike(F, G, n), G[n] = Behindwards(p, F[n]), G[n] \in Frames(p)
  PROVE  Traced(p, G, n, T)
<1>1. PICK w \in [Nat -> SUBSET Temps] : Passed(p, F, n, w, T)
  BY DEF Traced
<1>2. Sure(p, F[n], w[n], T)
  BY <1>1, InnermostSure
<1>3. ElseOf(p, F[n], w[n]) = w[n]
  BY DEF ElseOf, ElseWrites, PassAt
<1>4. BothWrite(IfOf(p, F[n], w[n]), ElseOf(p, F[n], w[n])) \subseteq T
  BY <1>2, <1>3 DEF Sure, BothWrite
<1> QED
  BY <1>1, <1>4, OverTraced

LEMMA PopTraced ==
  ASSUME NEW p \in Programs, NEW F, NEW G, NEW n \in Nat, n > 1, NEW k, k = n - 1, NEW T,
         Traced(p, F, n, T), F[n].at >= F[n].end,
         Alike(F, G, k), G[k] = Behindwards(p, F[k]), G[k] \in Frames(p)
  PROVE  Traced(p, G, k, T)
<1>1. PICK w \in [Nat -> SUBSET Temps] : Passed(p, F, n, w, T)
  BY DEF Traced
<1>2. k \in Nat \ {0} /\ k \in 1..(n - 1) /\ k + 1 = n /\ n \in Nat \ {0}
  OBVIOUS
<1>3. Sure(p, F[n], w[n], T) /\ w[n] \in SUBSET Temps
  BY <1>1, <1>2, InnermostSure
<1>4. Passed(p, F, k, w, T)
  <2>1. (\A u \in 1..k : u \in 1..n) /\ \A u \in 1..(k - 1) : u \in 1..(n - 1)
    BY <1>2
  <2> QED
    BY <1>1, <2>1 DEF Passed
<1>5. Forked(p, F[k], F[n], w[k], w[n])
  BY <1>1, <1>2 DEF Passed
<1>6. WrittenBy(p, F[n], w[n]) = w[n]
  BY <1>3, WrittenAtEnd DEF Sure
<1>7. /\ F[k].at < F[k].end /\ At(p, F[k].at).op = "if"
      /\ w[n] \in {IfOf(p, F[k], w[k]), ElseOf(p, F[k], w[k])}
  BY <1>5, <1>6 DEF Forked
<1>8. BothWrite(IfOf(p, F[k], w[k]), ElseOf(p, F[k], w[k])) \subseteq T
  BY <1>3, <1>7 DEF BothWrite, Sure
<1> QED
  BY <1>2, <1>4, <1>7, <1>8, OverTraced

LEMMA PushTraced ==
  ASSUME NEW p \in Programs, NEW F, NEW G, NEW n \in Nat \ {0}, NEW T, Traced(p, F, n, T),
         F[n].at < F[n].end, At(p, F[n].at).op = "if",
         NEW start, NEW size, Runs(p, F[n], start, size), Fits(F[n].end, start, size),
         NEW c \in Frames(p), c.at = start, c.end = start + size,
         \A k \in 1..n : G[k] = F[k], G[n + 1] = c
  PROVE  Traced(p, G, n + 1, T)
<1>1. PICK w \in [Nat -> SUBSET Temps] : Passed(p, F, n, w, T)
  BY DEF Traced
<1> DEFINE a == F[n]
           m == w[n]
           x == PassAt(a, m)
           d == WrittenAfter(p)
<1>2. Sure(p, a, m, T) /\ m \in SUBSET Temps
  BY <1>1, InnermostSure
<1>3. x \in Passes(p) /\ x.at = a.at /\ x.end = a.end /\ x.written = m
  <2> HIDE DEF a, m
  <2> QED
    BY <1>2, PassAtTyped DEF Sure
<1>4. Old \notin IfOf(p, a, m) /\ Old \notin ElseOf(p, a, m)
  <2>1. a.at < a.end /\ At(p, a.at).op = "if"
    OBVIOUS
  <2> HIDE DEF a, m
  <2> QED
    BY <1>2, <2>1, SureGoesOn
<1>5. WrittenBy(p, c, m) = Body(d, x, start, size)
  <2> DEFINE y == PassAt(c, m)
             z == [x EXCEPT !.at = start, !.end = start + size]
  <2>1. y \in Passes(p) /\ y.at = c.at /\ y.end = c.end /\ y.written = m
    <3> HIDE DEF m
    <3> QED
      BY <1>2, PassAtTyped
  <2> DEFINE stop == start + size
  <2>2. start \in 0..Len(p) /\ stop \in 0..Len(p)
    BY FrameSame DEF Frames
  <2>3. z \in Passes(p) /\ z.at = start /\ z.end = stop /\ z.written = x.written
    <3>1. z = [x EXCEPT !.at = start, !.end = stop]
      OBVIOUS
    <3> HIDE DEF x, z, stop
    <3> QED
      BY <1>3, <2>2, <3>1 DEF Passes
  <2>4. Fits(x.end, start, size)
    BY <1>3
  <2>5. Body(d, x, start, size) = d[z]
    BY <2>4 DEF Body
  <2>6. y.at = z.at /\ y.end = z.end /\ y.written = z.written
    BY <1>3, <2>1, <2>3
  <2> HIDE DEF y, z
  <2>7. y = z
    BY <2>1, <2>3, <2>6, PassesEqual
  <2> QED
    BY <2>5, <2>7 DEF y, WrittenBy
<1>6. Body(d, x, start, size) \in {IfOf(p, a, m), ElseOf(p, a, m)}
  <2>1. \/ start = IfBody(p, a.end, a.at) /\ size = At(p, a.at).arg
        \/ /\ HasElse(p, a.end, a.at)
           /\ start = ElseBody(p, a.end, a.at) /\ size = At(p, a.at + 1).arg
    BY DEF Runs
  <2>2. IfOf(p, a, m) = IfWrites(p, d, x) /\ ElseOf(p, a, m) = ElseWrites(p, d, x)
    BY DEF IfOf, ElseOf
  <2> HIDE DEF a, x, d, m
  <2> QED
    BY <1>3, <2>1, <2>2 DEF IfWrites, ElseWrites
<1>7. Forked(p, a, c, m, m)
  BY <1>5, <1>6 DEF Forked
<1>8. Sure(p, c, m, T)
  BY <1>2, <1>4, <1>5, <1>6 DEF Sure
<1> DEFINE v == Put(w, n + 1, m)
<1>9. v \in [Nat -> SUBSET Temps] /\ v[n + 1] = m /\ \A k \in 1..n : v[k] = w[k]
  <2>1. n + 1 \in Nat \ {0} /\ \A k \in 1..n : k \in Nat /\ k # n + 1
    OBVIOUS
  <2> HIDE DEF m
  <2> QED
    BY <1>2, <2>1, PutMarks
<1> HIDE DEF v
<1>10. ASSUME NEW k \in 1..(n + 1)
       PROVE  Sure(p, G[k], v[k], T)
  <2>1. CASE k = n + 1
    BY <1>8, <1>9, <2>1
  <2>2. CASE k # n + 1
    <3>1. k \in 1..n
      BY <2>2
    <3> QED
      BY <1>1, <1>9, <3>1 DEF Passed
  <2> QED
    BY <2>1, <2>2
<1>11. ASSUME NEW k \in 1..n
       PROVE  Forked(p, G[k], G[k + 1], v[k], v[k + 1])
  <2>1. CASE k = n
    BY <1>7, <1>9, <2>1
  <2>2. CASE k # n
    <3>1. k \in 1..(n - 1) /\ k + 1 \in 1..n
      BY <2>2
    <3> QED
      BY <1>1, <1>9, <3>1 DEF Passed
  <2> QED
    BY <2>1, <2>2
<1>12. (n + 1) - 1 = n
  OBVIOUS
<1>13. Passed(p, G, n + 1, v, T)
  BY <1>10, <1>11, <1>12 DEF Passed
<1> QED
  BY <1>9, <1>13 DEF Traced
-----------------------------------------------------------------------------
(* The temporaries have values of this pixel *)

TInv ==
  /\ phase # "new" => (tempReset <=> NeedTempReset(prog))
  /\ phase = "running" /\ tempReset => fresh = Temps
  /\ phase = "running" /\ ~ tempReset =>
       /\ Traced(prog, frames, Len(frames), fresh)
       /\ ret = "true" => frames[Len(frames)].at >= frames[Len(frames)].end
  /\ ~ stale

LEMMA BeginTemps == CInv /\ TInv /\ Begin => TInv'
<1> SUFFICES ASSUME CInv, TInv, Begin
             PROVE  TInv'
  OBVIOUS
<1>1. tempReset' <=> NeedTempReset(prog')
  BY DEF Begin, NeedTempReset
<1>2. phase' # "running" /\ ~ stale'
  BY DEF Begin, TInv
<1> QED
  BY <1>1, <1>2 DEF TInv

LEMMA StartTraced ==
  ASSUME NEW p \in Programs, NEW F, F \in Seq(Frames(p)), Len(F) = 1,
         F[1].at = 0, F[1].end = Len(p), ~ NeedTempReset(p)
  PROVE  Traced(p, F, 1, {})
<1> DEFINE w == [k \in Nat |-> {}]
           S == Frames(p)
<1>1. w \in [Nat -> SUBSET Temps] /\ w[1] = {}
  OBVIOUS
<1>2. F[1] \in S
  <2>1. F \in Seq(S) /\ 1 \in 1..Len(F)
    OBVIOUS
  <2> HIDE DEF S
  <2>2. \A k \in 1..Len(F) : F[k] \in S
    BY <2>1
  <2> QED
    BY <2>1, <2>2
<1> HIDE DEF w
<1>3. PassAt(F[1], {}) = [at |-> 0, end |-> Len(p), written |-> {}]
  BY DEF PassAt
<1>4. Old \notin WrittenBy(p, F[1], {})
  BY <1>3 DEF NeedTempReset, WrittenBy
<1>5. Sure(p, F[1], w[1], {})
  BY <1>1, <1>2, <1>4 DEF Sure
<1>6. (\A k \in 1..1 : k = 1) /\ 1..(1 - 1) = {}
  OBVIOUS
<1>7. Passed(p, F, 1, w, {})
  BY <1>5, <1>6 DEF Passed
<1> QED
  BY <1>1, <1>7 DEF Traced

LEMMA ApplyTemps == CInv /\ TInv /\ Apply => TInv'
<1> SUFFICES ASSUME CInv, TInv, Apply
             PROVE  TInv'
  OBVIOUS
<1> DEFINE F == frames'
<1>1. /\ prog \in Programs /\ prog' = prog /\ tempReset' = tempReset /\ stale' = FALSE
      /\ F = << [at |-> 0, end |-> Len(prog)] >> /\ Accepted(prog)
      /\ phase = "ready" /\ ret' = "none"
      /\ fresh' = IF tempReset THEN Temps ELSE {}
  BY DEF CInv, CTyped, UnderWay, Apply
<1>2. F \in Seq(Frames(prog)) /\ Len(F) = 1
  <2> HIDE DEF F
  <2> QED
    BY <1>1, AcceptedWalking
<1>3. tempReset <=> NeedTempReset(prog)
  BY <1>1 DEF TInv
<1>4. ASSUME ~ tempReset
      PROVE  Traced(prog, F, Len(F), fresh')
  <2>1. F[1].at = 0 /\ F[1].end = Len(prog)
    BY <1>1
  <2>2. Traced(prog, F, 1, {})
    <3> HIDE DEF F
    <3> QED
      BY <1>1, <1>2, <1>3, <1>4, <2>1, StartTraced
  <2> QED
    BY <1>1, <1>2, <1>4, <2>2
<1> QED
  BY <1>1, <1>3, <1>4 DEF TInv

LEMMA FailTemps ==
  ASSUME CInv, TInv, NEW why, Running, Fail(why)
  PROVE  TInv'
BY DEF TInv, Fail, Running

LEMMA EndTemps == CInv /\ TInv /\ EndOfSequence => TInv'
BY DEF TInv, EndOfSequence, Running, Frame

LEMMA ReturnPixelTemps == CInv /\ TInv /\ ReturnPixel => TInv'
<1> SUFFICES ASSUME CInv, TInv, ReturnPixel
             PROVE  TInv'
  OBVIOUS
<1>1. phase = "running"
  BY DEF ReturnPixel, CInv, UnderWay
<1>2. phase' # "running" /\ prog' = prog /\ tempReset' = tempReset /\ stale' = stale
  BY DEF ReturnPixel
<1> QED
  BY <1>1, <1>2 DEF TInv

LEMMA ExecTemps == CInv /\ TInv /\ Exec => TInv'
<1> SUFFICES ASSUME CInv, TInv, Exec
             PROVE  TInv'
  OBVIOUS
<1> DEFINE n == Len(frames)
           F == frames
           G == frames'
           a == frames[n]
<1>1. /\ phase = "running" /\ ret = "none" /\ Frame = a /\ a.at < a.end
      /\ At(prog, a.at).op # "if" /\ Op = At(prog, a.at)
  BY DEF Exec, Executing, Running, Frame, Op, Plain
<1>2. prog \in Programs /\ n \in Nat \ {0} /\ a \in Frames(prog)
  BY <1>1, RunningIs
<1>3. /\ prog' = prog /\ phase' = phase /\ ret' = ret /\ tempReset' = tempReset
      /\ fresh' = fresh \cup Writes(At(prog, a.at))
      /\ stale' = (stale \/ ~ (Reads(At(prog, a.at)) \subseteq fresh))
  BY <1>1 DEF Exec
<1>4. Len(G) = n /\ G[n] = Onwards(a) /\ Alike(F, G, n)
  BY ExecFrames
<1>5. CASE tempReset
  <2>1. Writes(At(prog, a.at)) \subseteq Temps /\ Reads(At(prog, a.at)) \subseteq Temps
    <3>1. a.at \in Nat /\ a.end \in 0..Len(prog)
      BY <1>2, FrameTyped
    <3> QED
      BY <1>1, <1>2, <3>1, WritesTyped
  <2>2. fresh = Temps /\ ~ stale /\ NeedTempReset(prog)
    BY <1>1, <1>5 DEF TInv
  <2> QED
    BY <1>3, <1>5, <2>1, <2>2 DEF TInv
<1>6. CASE ~ tempReset
  <2>1. Traced(prog, F, n, fresh) /\ ~ stale /\ ~ NeedTempReset(prog)
    BY <1>1, <1>6 DEF TInv
  <2>2. Traced(prog, G, n, fresh') /\ Reads(At(prog, a.at)) \subseteq fresh
    <3>1. /\ F[n].at < F[n].end /\ At(prog, F[n].at).op # "if"
          /\ G[n] = Onwards(F[n]) /\ fresh' = fresh \cup Writes(At(prog, F[n].at))
      BY <1>1, <1>3, <1>4
    <3>2. a = F[n]
      OBVIOUS
    <3> HIDE DEF n, F, G, a
    <3>3. Traced(prog, G, n, fresh') /\ Reads(At(prog, F[n].at)) \subseteq fresh
      BY <1>2, <1>4, <2>1, <3>1, PlainTraced
    <3> QED
      BY <3>2, <3>3
  <2> QED
    BY <1>1, <1>3, <1>4, <1>6, <2>1, <2>2 DEF TInv
<1> QED
  BY <1>5, <1>6

LEMMA BranchTemps ==
  ASSUME CInv, TInv, Running, AtBranch(prog, Frame), NEW start, NEW size,
         Runs(prog, Frame, start, size), Branch(start, size)
  PROVE  TInv'
<1> DEFINE n == Len(frames)
           F == frames
           G == frames'
           a == frames[n]
           c == [at |-> start, end |-> start + size]
<1>1. phase = "running" /\ ret = "none" /\ Frame = a /\ a.at < a.end
  BY DEF Running, Frame, AtBranch
<1>2. prog \in Programs /\ n \in Nat \ {0} /\ a \in Frames(prog)
  BY <1>1, RunningIs
<1>3. /\ G \in Seq(Frames(prog)) /\ Len(G) = n + 1 /\ G[n + 1] = c
      /\ \A k \in 1..n : G[k] = F[k]
      /\ Fits(a.end, start, size)
  BY <1>1, BranchFrames
<1>4. /\ prog' = prog /\ phase' = phase /\ tempReset' = tempReset /\ fresh' = fresh
      /\ stale' = stale /\ ret' # "true"
  BY <1>1 DEF Branch
<1>5. CASE tempReset
  BY <1>1, <1>4, <1>5 DEF TInv
<1>6. CASE ~ tempReset
  <2>1. Traced(prog, F, n, fresh) /\ ~ stale /\ ~ NeedTempReset(prog)
    BY <1>1, <1>6 DEF TInv
  <2>2. At(prog, a.at).op = "if"
    <3>1. PICK w \in [Nat -> SUBSET Temps] : Passed(prog, F, n, w, fresh)
      BY <2>1 DEF Traced
    <3>2. Sure(prog, F[n], w[n], fresh) /\ w[n] \in SUBSET Temps /\ F[n].at < F[n].end
      <4>1. F[n].at < F[n].end
        BY <1>1
      <4> HIDE DEF n, F
      <4> QED
        BY <1>2, <3>1, <4>1, InnermostSure
    <3>3. At(prog, F[n].at).op # "sel"
      <4> HIDE DEF n, F
      <4> QED
        BY <1>2, <3>2, SureGoesOn
    <3> QED
      BY <1>1, <3>3 DEF AtBranch
  <2>3. Traced(prog, G, n + 1, fresh)
    <3>1. /\ F[n].at < F[n].end /\ At(prog, F[n].at).op = "if"
          /\ Runs(prog, F[n], start, size) /\ Fits(F[n].end, start, size)
      BY <1>1, <1>3, <2>2
    <3>2. c \in Frames(prog) /\ c.at = start /\ c.end = start + size
      <4> DEFINE S == Frames(prog)
      <4>1. G \in Seq(S) /\ n + 1 \in 1..Len(G)
        BY <1>2, <1>3
      <4>2. G[n + 1] \in S
        <5> HIDE DEF S, G, n
        <5> QED
          BY <4>1
      <4> QED
        BY <1>3, <4>2
    <3>3. G[n + 1] = c /\ \A k \in 1..n : G[k] = F[k]
      BY <1>3
    <3> HIDE DEF n, F, G, a, c
    <3> QED
      BY <1>2, <2>1, <3>1, <3>2, <3>3, PushTraced
  <2> QED
    BY <1>3, <1>4, <1>6, <2>1, <2>3 DEF TInv
<1> QED
  BY <1>5, <1>6

LEMMA IfTemps == CInv /\ TInv /\ If => TInv'
<1> SUFFICES ASSUME CInv, TInv, If
             PROVE  TInv'
  OBVIOUS
<1> DEFINE a == Frame
<1>1. Running /\ AtBranch(prog, a) /\ At(prog, a.at).op = "if"
  BY DEF If, Executing, AtBranch, Op
<1>2. \/ Branch(IfBody(prog, a.end, a.at), At(prog, a.at).arg)
      \/ /\ HasElse(prog, a.end, a.at)
         /\ Branch(ElseBody(prog, a.end, a.at), At(prog, a.at + 1).arg)
  BY DEF If, Op
<1>3. CASE Branch(IfBody(prog, a.end, a.at), At(prog, a.at).arg)
  <2>1. Runs(prog, a, IfBody(prog, a.end, a.at), At(prog, a.at).arg)
    BY <1>1 DEF Runs
  <2> QED
    BY <1>1, <1>3, <2>1, BranchTemps
<1>4. CASE /\ HasElse(prog, a.end, a.at)
           /\ Branch(ElseBody(prog, a.end, a.at), At(prog, a.at + 1).arg)
  <2>1. Runs(prog, a, ElseBody(prog, a.end, a.at), At(prog, a.at + 1).arg)
    BY <1>1, <1>4 DEF Runs
  <2> QED
    BY <1>1, <1>4, <2>1, BranchTemps
<1> QED
  BY <1>2, <1>3, <1>4

LEMMA SelectTemps == CInv /\ TInv /\ Select => TInv'
<1> SUFFICES ASSUME CInv, TInv, Select
             PROVE  TInv'
  OBVIOUS
<1> DEFINE a == Frame
<1>1. Running /\ AtBranch(prog, a) /\ At(prog, a.at).op = "sel"
  BY DEF Select, Executing, AtBranch, Op
<1>2. PICK k \in 1..Bodies(prog, a.end, a.at) :
        Branch(BodyStart(prog, a.end, a.at, k), At(prog, a.at + k).arg)
  BY DEF Select
<1>3. Runs(prog, a, BodyStart(prog, a.end, a.at, k), At(prog, a.at + k).arg)
  BY <1>1 DEF Runs
<1> QED
  BY <1>1, <1>2, <1>3, BranchTemps

\* A sequence whose temporaries are not reset is not at a select.
LEMMA NoSelects ==
  ASSUME NEW p \in Programs, NEW F, NEW n \in Nat \ {0}, NEW T, Traced(p, F, n, T),
         F[n].at < F[n].end
  PROVE  At(p, F[n].at).op # "sel"
<1>1. PICK w \in [Nat -> SUBSET Temps] : Passed(p, F, n, w, T)
  BY DEF Traced
<1>2. Sure(p, F[n], w[n], T) /\ w[n] \in SUBSET Temps
  BY <1>1, InnermostSure
<1> QED
  BY <1>2, SureGoesOn

LEMMA SkipTemps ==
  ASSUME CInv, TInv, Running, AtBranch(prog, Frame), Skip(Behind(prog, Frame.end, Frame.at)),
         At(prog, Frame.at).op = "if" => ~ HasElse(prog, Frame.end, Frame.at)
  PROVE  TInv'
<1> DEFINE n == Len(frames)
           F == frames
           G == frames'
           a == frames[n]
<1>1. phase = "running" /\ ret = "none" /\ Frame = a /\ a.at < a.end
  BY DEF Running, Frame, AtBranch
<1>2. prog \in Programs /\ n \in Nat \ {0} /\ a \in Frames(prog)
  BY <1>1, RunningIs
<1>3. /\ prog' = prog /\ phase' = phase /\ tempReset' = tempReset /\ fresh' = fresh
      /\ stale' = stale /\ ret' = ret
  BY DEF Skip
<1>4. G \in Seq(Frames(prog)) /\ Len(G) = n /\ G[n] = Behindwards(prog, a) /\ Alike(F, G, n)
  BY SkipFrames
<1>5. CASE tempReset
  BY <1>1, <1>3, <1>5 DEF TInv
<1>6. CASE ~ tempReset
  <2>1. Traced(prog, F, n, fresh) /\ ~ stale /\ ~ NeedTempReset(prog)
    BY <1>1, <1>6 DEF TInv
  <2>2. At(prog, a.at).op = "if"
    <3>1. F[n].at < F[n].end
      BY <1>1
    <3>2. At(prog, F[n].at).op # "sel"
      <4> HIDE DEF n, F
      <4> QED
        BY <1>2, <2>1, <3>1, NoSelects
    <3> QED
      BY <1>1, <3>2 DEF AtBranch
  <2>3. Traced(prog, G, n, fresh)
    <3>1. /\ F[n].at < F[n].end /\ At(prog, F[n].at).op = "if"
          /\ ~ HasElse(prog, F[n].end, F[n].at) /\ G[n] = Behindwards(prog, F[n])
      BY <1>1, <1>4, <2>2
    <3>2. G[n] \in Frames(prog)
      <4> DEFINE S == Frames(prog)
      <4>1. G \in Seq(S) /\ n \in 1..Len(G)
        BY <1>2, <1>4
      <4> HIDE DEF S, G, n
      <4>2. G[n] \in S
        BY <4>1
      <4> QED
        BY <4>2 DEF S
    <3> HIDE DEF n, F, G, a
    <3> QED
      BY <1>2, <1>4, <2>1, <3>1, <3>2, SkipTraced
  <2> QED
    BY <1>1, <1>3, <1>4, <1>6, <2>1, <2>3 DEF TInv
<1> QED
  BY <1>5, <1>6

LEMMA ReturnBodyTemps == CInv /\ TInv /\ ReturnBody => TInv'
<1> SUFFICES ASSUME CInv, TInv, ReturnBody
             PROVE  TInv'
  OBVIOUS
<1> DEFINE n == Len(frames)
           F == frames
           G == frames'
<1>1. PICK k : k = n - 1
  OBVIOUS
<1>2. /\ phase = "running" /\ n \in Nat /\ n > 1
      /\ G \in Seq(Frames(prog)) /\ Len(G) = k
      /\ G[k] = IF ret = "true" THEN Behindwards(prog, F[k]) ELSE F[k]
      /\ Alike(F, G, k)
  BY <1>1, ReturnBodyFrames
<1>3. prog \in Programs
  BY <1>2, RunningIs
<1>4. /\ prog' = prog /\ phase' = phase /\ tempReset' = tempReset /\ fresh' = fresh
      /\ stale' = stale
      /\ ret' = IF ret = "true" THEN "none"
                ELSE IF At(prog, F[k].at).op = "if" THEN "false" ELSE "true"
  BY <1>1 DEF ReturnBody, Caller
<1>5. CASE tempReset
  BY <1>2, <1>4, <1>5 DEF TInv
<1>6. CASE ~ tempReset
  <2>1. /\ Traced(prog, F, n, fresh) /\ ~ stale /\ ~ NeedTempReset(prog)
        /\ ret = "true" => F[n].at >= F[n].end
    BY <1>2, <1>6 DEF TInv
  <2>2. At(prog, F[k].at).op = "if"
    <3>1. PICK w \in [Nat -> SUBSET Temps] : Passed(prog, F, n, w, fresh)
      BY <2>1 DEF Traced
    <3>2. k \in 1..(n - 1)
      <4> HIDE DEF n
      <4> QED
        BY <1>1, <1>2
    <3> HIDE DEF n, F
    <3> QED
      BY <3>1, <3>2 DEF Passed, Forked
  <2>3. Traced(prog, G, k, fresh)
    <3>1. CASE ret = "true"
      <4>1. G[k] = Behindwards(prog, F[k]) /\ F[n].at >= F[n].end
        BY <1>2, <2>1, <3>1
      <4>2. G[k] \in Frames(prog)
        <5> DEFINE S == Frames(prog)
        <5>1. G \in Seq(S) /\ k \in 1..Len(G)
          <6>1. G \in Seq(S) /\ Len(G) = k /\ n \in Nat /\ n > 1
            BY <1>2
          <6> HIDE DEF n, S, G
          <6> QED
            BY <1>1, <6>1
        <5> HIDE DEF S, G
        <5>2. G[k] \in S
          BY <5>1
        <5> QED
          BY <5>2 DEF S
      <4> HIDE DEF n, F, G
      <4> QED
        BY <1>1, <1>2, <1>3, <2>1, <4>1, <4>2, PopTraced
    <3>2. CASE ret # "true"
      <4>1. Alike(F, G, n)
        <5>1. G[k] = F[k]
          BY <1>2, <3>2
        <5>2. ASSUME NEW u \in 1..(n - 1)
              PROVE  u = k \/ u \in 1..(k - 1)
          BY <1>1, <1>2
        <5> HIDE DEF n, F, G
        <5> QED
          BY <1>2, <5>1, <5>2 DEF Alike
      <4> HIDE DEF n, F, G
      <4>2. Traced(prog, G, n - 1, fresh)
        BY <1>2, <2>1, <4>1, FewerTraced
      <4> QED
        BY <1>1, <4>2
    <3> QED
      BY <3>1, <3>2
  <2> QED
    BY <1>2, <1>4, <1>6, <2>1, <2>2, <2>3 DEF TInv
<1> QED
  BY <1>5, <1>6

LEMMA TempsStep == CInv /\ TInv /\ [CalcNext]_calcVars => TInv'
<1> SUFFICES ASSUME CInv, TInv, [CalcNext]_calcVars
             PROVE  TInv'
  OBVIOUS
<1>1. CASE UNCHANGED calcVars
  BY <1>1 DEF calcVars, TInv
<1>2. CASE Begin \/ Apply \/ EndOfSequence \/ ReturnPixel
  BY <1>2, BeginTemps, ApplyTemps, EndTemps, ReturnPixelTemps
<1>3. CASE Exec
  BY <1>3, ExecTemps
<1>4. CASE Break
  <2>1. Running /\ Fail(IF Enough THEN "layout" ELSE "underflow")
    BY <1>4 DEF Break, Executing
  <2> QED
    BY <2>1, FailTemps
<1>5. CASE Stray
  <2>1. Running /\ Fail("stray")
    BY <1>5 DEF Stray, Executing
  <2> QED
    BY <2>1, FailTemps
<1>6. CASE If \/ Select
  BY <1>6, IfTemps, SelectTemps
<1>7. CASE SkipIf
  <2>1. Running /\ AtBranch(prog, Frame) /\ At(prog, Frame.at).op = "if"
        /\ ~ HasElse(prog, Frame.end, Frame.at)
    BY <1>7 DEF SkipIf, Executing, AtBranch, Op
  <2>2. Skip(Behind(prog, Frame.end, Frame.at))
    BY <1>7, <2>1 DEF SkipIf, Behind
  <2> QED
    BY <2>1, <2>2, SkipTemps
<1>8. CASE SkipSelect
  <2>1. Running /\ AtBranch(prog, Frame) /\ At(prog, Frame.at).op = "sel"
    BY <1>8 DEF SkipSelect, Executing, AtBranch, Op
  <2>2. Skip(Behind(prog, Frame.end, Frame.at))
    BY <1>8, <2>1 DEF SkipSelect, Behind
  <2> QED
    BY <2>1, <2>2, SkipTemps
<1>9. CASE ReturnBody
  BY <1>9, ReturnBodyTemps
<1> QED
  BY <1>1, <1>2, <1>3, <1>4, <1>5, <1>6, <1>7, <1>8, <1>9 DEF CalcNext

\* Where the reset of the temporaries is skipped, no pixel reads one that has no
\* value of its own, for any program.
THEOREM TempsAlwaysFresh == CalcSpec => []TempsFresh
<1>1. CalcInit => TInv
  BY DEF CalcInit, TInv
<1>2. CInv /\ TInv /\ [CalcNext]_calcVars => TInv'
  BY TempsStep
<1>3. TInv => TempsFresh
  BY DEF TInv, TempsFresh
<1> QED
  BY <1>1, <1>2, <1>3, CalcInvariant, PTL DEF CalcSpec
=============================================================================
