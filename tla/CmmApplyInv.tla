------------------------------ MODULE CmmApplyInv ------------------------------
(* Properties of CmmApply.                                                   *)
EXTENDS CmmApply

\* The call's state has its types; what is done of a call is a part of it.
TypeOK ==
  /\ mode \in {"none", "idle", "apply", "crashed"}
  /\ object \in Objects /\ own \subseteq Buffers
  /\ mem \in [Buffers -> [0..(ChunkPixels - 1) -> Contents]]
  /\ call \in Calls \cup {NoCall}
  /\ base \in Nat /\ j \in Nat
  /\ pSrc \in Buffers \cup {TheClients} /\ pDst \in Buffers
  /\ name \in Contents /\ out \subseteq Nat \X Contents
  /\ mode = "apply" => call \in Calls /\ base < call.n /\ j < Length
  /\ rv \in {"Ok", "BadXform", "AllocErr", "ColorNotFound"} /\ short \in BOOLEAN

\* All offsets of the call have products within the limit.
FitsIndex ==
  Chunked /\ Length > 1 =>
    \A m \in 0..(call.n - 1) : m * ChunkPixels < call.n =>
      /\ m * ChunkPixels * object.nSrc < IndexLimit
      /\ m * ChunkPixels * object.nDst < IndexLimit

\* A single transform works in place: it copies, or all pixels stay where they
\* are and it does what it can then.
InPlaceSafe ==
  call.inPlace /\ Length = 1 =>
    \/ object.chain[1] = "copies"
    \/ object.chain[1] = "buffers" /\ (call.n = 1 \/ object.nSrc = object.nDst)

\* A bulk Apply of a named colour CMM has its inner transforms work in place.
InnerSafe ==
  object.named /\ call.bulk =>
    \A k \in 2..(Length - 1) : object.chain[k] # "direct"

\* From names to pixels, no look-up for a name can fail unnoticed.
LookupsSeen ==
  FromName /\ ~ToName =>
    \A k \in 1..(Length - 1) : object.chain[k] # "toName"

Sound == Length > 0 /\ FitsIndex /\ InPlaceSafe /\ InnerSafe /\ LookupsSeen

\* What the first so many pixels of the call become.
ImagesOf(pixels) ==
  {<<p * object.nDst, [at |-> p * object.nSrc, stage |-> Length]>> :
     p \in 0..(pixels - 1)}

\* Every pixel a call has written is, at its place, what the whole chain makes
\* of the source pixel at the same index: not of another, not by a part of the
\* chain, not of what an earlier call left in a buffer.  When it returns Ok they
\* all are there.
OkMeansImages ==
  mode # "crashed" /\ Sound =>
    /\ out \subseteq ImagesOf(call.n)
    /\ mode = "idle" /\ rv = "Ok" => out = ImagesOf(call.n)

\* Nothing is written but what lies within the pixels of the call, and what is
\* done of the call stays a part of it.
WritesInside ==
  /\ TypeOK
  /\ \A w \in out : w[1] >= 0 /\ w[1] + object.nDst <= call.n * object.nDst

\* A buffer that does not exist is used by no one but the client who was told
\* that memory is short and calls again.
CrashOnlyWhenShort == mode = "crashed" => short
-----------------------------------------------------------------------------
(* The inductive invariant                                                   *)

\* Before the object exists nothing is done, and between calls only what was
\* done is known.
QuietInv == mode = "none" => out = {} /\ call = NoCall /\ own = {} /\ ~short

\* Without a lack of memory there are all buffers or none, and all in a call.
BufferInv ==
  ~short => /\ own \in {{}, Buffers}
            /\ mode = "apply" => own = Buffers
            /\ mode # "crashed"

\* The first transform reads from the client; later ones not where they write,
\* unless they always do.  Chunks begin at multiples of their size.
FlowInv ==
  mode = "apply" =>
    /\ pSrc = TheClients <=> j = 0
    /\ j = 0 => pDst = FirstDst(call)
    /\ pSrc = pDst => object.named /\ call.bulk
    /\ Chunked => IF Length = 1 THEN base = 0
                                ELSE \E m \in 0..base : base = m * ChunkPixels

\* What is written ends where the pixels that are done end.
ExtentInv ==
  LET done == IF mode = "apply" THEN base ELSE call.n
  IN  \A w \in out : w[1] >= 0 /\ w[1] + object.nDst <= done * object.nDst

\* The pixels done are the chain's images, and what the next transform reads of
\* each pixel of the chunk is what those before it have made of that pixel.
DataInv ==
  mode = "apply" /\ Sound =>
    /\ out = ImagesOf(base)
    /\ \A k \in 0..(Count - 1) :
         In(k) = [at |-> (base + k) * object.nSrc, stage |-> j]

ApplyInv ==
  TypeOK /\ QuietInv /\ BufferInv /\ FlowInv /\ ExtentInv /\ DataInv /\ OkMeansImages
=============================================================================
