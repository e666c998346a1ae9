-------------------------------- MODULE ByteIO --------------------------------
(***************************************************************************)
(* CIccIO and its kinds (IccProfLib/IccIO.cpp): memory, a file, or a mere  *)
(* count of bytes, and the windows (CIccEmbedIO) through which an embedded *)
(* profile sees its part of the IO it lies in, window in window.           *)
(*                                                                         *)
(* There is one position, that of the IO at the bottom: each window keeps  *)
(* only where it starts and how long it is, and turns positions of its own *)
(* into those of the IO under it and back.  Any of them may be used at any *)
(* time.  Of a byte one knows only whether it was ever given a value.      *)
(***************************************************************************)
EXTENDS Integers, Sequences

CONSTANTS
  MaxBytes,   \* bound on lengths and positions
  MaxWindows, \* bound on windows in windows
  Offsets,    \* what Seek is called with
  Word        \* icUInt32Number: 2^32

ASSUME SizeAssumption ==
  /\ MaxBytes \in Nat /\ MaxWindows \in Nat /\ Word \in Nat /\ MaxBytes < Word
  /\ Offsets \subseteq Int

VARIABLES
  base, \* the IO at the bottom: what it is, m_nSize, m_nAvail, m_nPos, and
        \* the bytes that have a value
  win   \* m_nStartPos and m_nSize of the windows, each onto the one before

byteVars == <<base, win>>

Smaller(a, b) == IF a < b THEN a ELSE b
Larger(a, b) == IF a < b THEN b ELSE a
-----------------------------------------------------------------------------
(* The IO at the bottom.  An operation yields it afterwards, and a result.   *)

IOs == [kind : {"memory", "file", "null"}, size : 0..MaxBytes,
        avail : 0..MaxBytes, pos : 0..MaxBytes, set : SUBSET (0..(MaxBytes - 1)),
        crashed : BOOLEAN]

\* Memory to read, memory to write into, a file, nothing.
Opened(kind, size, avail) ==
  [kind |-> kind, size |-> size, avail |-> avail, pos |-> 0, set |-> 0..(size - 1),
   crashed |-> FALSE]
ToRead(n) == Opened("memory", n, n)
ToWrite(n) == Opened("memory", 0, n)
File(n) == Opened("file", n, 0)
NullIO == Opened("null", 0, 0)

\* A length as a signed number of 32 bits.
AsInt32(n) == IF n < Word \div 2 THEN n ELSE n - Word

\* Fault: what lies between the end and the position sought is left as it is.
Unfilled(b, p) == [b EXCEPT !.size = p, !.pos = p]
\* The bytes up to a position beyond the end become zeroes.  Their number goes
\* through a signed one on its way to memset: a negative one is, as a size_t of
\* 64 bits, far more than there is memory, and the program ends there.
Filled(b, p) ==
  IF AsInt32(p - b.size) < 0 THEN [b EXCEPT !.crashed = TRUE]
  ELSE [b EXCEPT !.size = p, !.pos = p, !.set = @ \cup b.size..(p - 1)]

\* The position is cut to 32 bits, the result is not.
MemSeek(b, t) ==
  LET p == t % Word
  IN  CASE t < 0 -> [io |-> b, res |-> -1]
        [] t >= 0 /\ p <= b.size -> [io |-> [b EXCEPT !.pos = p], res |-> t]
        [] t >= 0 /\ p > b.size /\ b.size # b.avail /\ p <= b.avail ->
             [io |-> Filled(b, p), res |-> t]
        [] OTHER -> [io |-> b, res |-> -1]

\* One may go beyond the end of a file; going there makes a null IO longer.
Seek(b, t) ==
  IF b.kind = "memory" THEN MemSeek(b, t)
  ELSE IF t < 0 THEN [io |-> b, res |-> -1]
  ELSE [io |-> [b EXCEPT !.pos = t,
                         !.size = IF b.kind = "null" THEN Larger(@, t) ELSE @],
        res |-> t]

Read8(b, n) ==
  LET got == Smaller(n, Larger(b.size - b.pos, 0))
  IN  [io |-> [b EXCEPT !.pos = @ + got], res |-> got]

\* Memory takes what there is room for.  The system fills the gap before what is
\* written beyond the end of a file.
Write8(b, n) ==
  LET put == IF b.kind = "memory" THEN Smaller(b.avail - b.pos, n) ELSE n
      end == b.pos + put
      gap == IF b.kind = "file" /\ put > 0 THEN b.size..(b.pos - 1) ELSE {}
  IN  [io |-> [b EXCEPT !.pos = end,
                        !.size = IF put > 0 \/ b.kind # "file" THEN Larger(@, end) ELSE @,
                        !.set = IF b.kind = "null" THEN @
                                ELSE @ \cup gap \cup b.pos..(end - 1)],
       res |-> put]
-----------------------------------------------------------------------------
(* Windows.  Level 0 is the IO at the bottom, level k the k'th window.       *)

Levels == 0..Len(win)

\* A position of the bottom as seen at a level; one before a window's start is
\* passed on as it is.
Up(p, level) ==
  LET at[k \in 0..level] ==
        IF k = 0 THEN p
        ELSE IF at[k - 1] >= win[k].start THEN at[k - 1] - win[k].start ELSE at[k - 1]
  IN  at[level]
Tell(b, level) == Up(b.pos, level)

\* A window of size 0 ends where the IO under it ends.
GetLength(b, level) ==
  LET len[k \in 0..level] ==
        IF k = 0 THEN b.size
        ELSE IF win[k].size > 0 THEN win[k].size ELSE len[k - 1] - win[k].start
  IN  len[level]

\* Where the k'th window seeks in the IO under it.
SetTarget(k, off) ==
  win[k].start + (IF win[k].size > 0 /\ off > win[k].size THEN win[k].size
                  ELSE IF off < 0 THEN win[k].start
                  ELSE off)
\* Fault: from the end of what lies under the window.
EndOfParent(b, k, off) == Larger(GetLength(b, k - 1) + off, win[k].start)
EndTarget(b, k, off) == win[k].start + Larger(GetLength(b, k) + off, 0)
CurTarget(b, k, off) ==
  LET t == Tell(b, k - 1) + off
  IN  IF win[k].size > 0 /\ t - win[k].start > win[k].size
      THEN win[k].start + win[k].size
      ELSE Larger(t, win[k].start)

\* A position sought at a level, as it arrives at the bottom.
Down(t, level) ==
  LET to[k \in 0..level] == IF k = level THEN t ELSE SetTarget(k + 1, to[k + 1])
  IN  to[0]

SeekAt(b, level, off, from) ==
  LET target ==
        IF level = 0
        THEN CASE from = "set" -> off
               [] from = "cur" -> b.pos + off
               [] from = "end" -> b.size + off
        ELSE Down(CASE from = "set" -> SetTarget(level, off)
                    [] from = "cur" -> CurTarget(b, level, off)
                    [] from = "end" -> EndTarget(b, level, off),
                  level - 1)
      sought == Seek(b, target)
  IN  [io |-> sought.io, res |-> Up(sought.res, level)]

\* Fault: only the end of the window is looked at.
BeforeItsEnd(b, k, n) ==
  IF win[k].size = 0 THEN n
  ELSE Larger(0, Smaller(n, win[k].size - (Tell(b, k - 1) - win[k].start)))
\* Of n bytes, how many the k'th window asks for.
Allowed(b, k, n) ==
  LET at == Tell(b, k - 1) - win[k].start
  IN  IF win[k].size = 0 THEN n
      ELSE IF at < 0 \/ at > win[k].size THEN 0
      ELSE Smaller(n, win[k].size - at)

\* No window is asked for less than nothing, nor for more than the one above.
ReadAt(b, level, n) ==
  LET ask[k \in 0..level] == IF k = level THEN n ELSE Allowed(b, k + 1, ask[k + 1])
  IN  Read8(b, ask[0])
-----------------------------------------------------------------------------
InBound == base'.pos <= MaxBytes /\ base'.size <= MaxBytes

ByteInit ==
  /\ base \in {ToRead(n) : n \in 0..MaxBytes} \cup {ToWrite(n) : n \in 0..MaxBytes}
              \cup {File(n) : n \in 0..MaxBytes} \cup {NullIO}
  /\ win = <<>>

\* A window onto the rest of the uppermost IO, or as much of it as is said.
AttachWindow(size) ==
  /\ ~base.crashed
  /\ Len(win) < MaxWindows
  /\ win' = Append(win, [start |-> Tell(base, Len(win)), size |-> size])
  /\ UNCHANGED base

Close ==
  /\ ~base.crashed
  /\ win # <<>>
  /\ win' = SubSeq(win, 1, Len(win) - 1)
  /\ UNCHANGED base

DoSeek(level, off, from) ==
  LET sought == SeekAt(base, level, off, from)
  IN  /\ ~base.crashed
      /\ base' = sought.io /\ InBound
      /\ UNCHANGED win

DoRead(level, n) ==
  LET read == ReadAt(base, level, n)
  IN  /\ ~base.crashed
      /\ base' = read.io
      /\ UNCHANGED win

\* Windows let everything through.
DoWrite(level, n) ==
  LET written == Write8(base, n)
  IN  /\ ~base.crashed
      /\ base' = written.io /\ InBound
      /\ UNCHANGED win

\* To the next position that is a multiple of 4, plus an offset.
Sync32(level, off) ==
  LET t == ((Tell(base, level) - off + 3) \div 4) * 4 + off
      sought == SeekAt(base, level, t, "set")
  IN  /\ ~base.crashed
      /\ base' = sought.io /\ InBound
      /\ UNCHANGED win

\* Zeroes up to a length that is a multiple of 4.
Align32(level) ==
  LET over == GetLength(base, level) % 4
      sought == SeekAt(base, level, 0, "end")
      written == Write8(sought.io, 4 - over)
  IN  /\ ~base.crashed
      /\ base' = IF over = 0 THEN base
                 ELSE IF sought.res < 0 \/ sought.io.crashed THEN sought.io
                 ELSE written.io
      /\ InBound
      /\ UNCHANGED win

ByteNext ==
  \/ \E size \in 0..MaxBytes : AttachWindow(size)
  \/ Close
  \/ \E level \in Levels :
       \/ \E off \in Offsets, from \in {"set", "cur", "end"} : DoSeek(level, off, from)
       \/ \E n \in 0..MaxBytes : DoRead(level, n) \/ DoWrite(level, n)
       \/ \E off \in 0..3 : Sync32(level, off)
       \/ Align32(level)

ByteSpec == ByteInit /\ [][ByteNext]_byteVars
=============================================================================
