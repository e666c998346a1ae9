------------------------------ MODULE ByteIOInv ------------------------------
(* Properties of ByteIO.                                                     *)
EXTENDS ByteIO

ByteTypeOK ==
  /\ base \in IOs
  /\ win \in Seq([start : 0..MaxBytes, size : 0..MaxBytes]) /\ Len(win) <= MaxWindows

\* Memory is never read or written past what there is of it, and every byte that
\* can be read was given a value: seeking into room not yet written fills it.
\* Only a fill of half of what 32 bits count ends otherwise, and only memory of
\* that size has room for one.
BytesDefined ==
  /\ ByteTypeOK
  /\ base.kind = "memory" => base.pos <= base.size /\ base.size <= base.avail
  /\ base.kind # "null" => 0..(base.size - 1) \subseteq base.set
  /\ base.crashed => base.kind = "memory" /\ base.avail - base.size >= Word \div 2

\* Every window up to a level lies in what is under it, as far as that goes now.
Nested(level) ==
  \A k \in 1..level :
    win[k].start + Larger(GetLength(base, k), 0) <= GetLength(base, k - 1)
Sized(level) == \A k \in 1..level : win[k].size > 0

\* Where a level begins at the bottom, and where the position is from there.
StartOf(level) ==
  LET from[k \in 0..level] == IF k = 0 THEN 0 ELSE from[k - 1] + win[k].start
  IN  from[level]
At(b, level) == b.pos - StartOf(level)
InWindow(b, level) == At(b, level) \in 0..GetLength(b, level)

\* Wherever the position is, reading through a window gives the bytes of the
\* window from there on, as many as are asked for or are left, and none if the
\* position is outside the window; but one without a size gives what is before it.
ReadsItsOwn ==
  \A level \in Levels, n \in 0..MaxBytes :
    LET read == ReadAt(base, level, n)
        left == GetLength(base, level) - At(base, level)
    IN  Nested(level) /\ (Sized(level) \/ InWindow(base, level)) =>
          /\ read.res = IF InWindow(base, level) THEN Smaller(n, left) ELSE 0
          /\ read.io.pos = base.pos + read.res

\* A seek in a window, from its beginning, its end, or a position inside it,
\* ends in the window, where it would have in a file of its own that does not
\* go beyond its end, and returns where that is.  Of one to before the beginning
\* that is asked from the beginning, and one to after the end from the end, it
\* does not say so.
SeeksItsOwn ==
  \A level \in Levels \ {0}, off \in Offsets, from \in {"set", "cur", "end"} :
    LET sought == SeekAt(base, level, off, from)
        length == GetLength(base, level)
        wanted == CASE from = "set" -> off
                    [] from = "cur" -> At(base, level) + off
                    [] from = "end" -> length + off
    IN  /\ Nested(level) /\ (Sized(level) \/ wanted <= length)
        /\ from = "set" => off >= 0
        /\ from = "cur" => InWindow(base, level)
        /\ from = "end" => off <= 0
        =>
        /\ sought.res = Larger(0, Smaller(wanted, length))
        /\ At(sought.io, level) = sought.res /\ Tell(sought.io, level) = sought.res
=============================================================================
