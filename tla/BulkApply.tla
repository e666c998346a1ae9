------------------------------ MODULE BulkApply ------------------------------
(***************************************************************************)
(* What CIccApplyThreadedCmm promises to the one client that uses it: a    *)
(* multi-pixel Apply writes images of the source pixels at their own       *)
(* places of the destination buffer, in any order, returns once, and       *)
(* returns Ok only when every pixel of the call is there.  How many        *)
(* threads do the work is not said.                                        *)
(***************************************************************************)
EXTENDS Integers

CONSTANTS
  MaxPixels,  \* bound on the pixels of one call
  NSrc,       \* samples of a source pixel
  NDst,       \* samples of a destination pixel
  Statuses    \* what a call may return, "Ok" among them

VARIABLES
  mode,       \* "none" (no object), "idle", "busy" (in a call), "ending"
  n,          \* pixels of the current or last call
  out,        \* <<destination index, source index>> of each pixel written
  rv          \* status the last call returned

vars == <<mode, n, out, rv>>

\* The pixels a call of k pixels has to write.
Images(k) == {<<p * NDst, p * NSrc>> : p \in 0..(k - 1)}

Init == mode = "none" /\ n = 0 /\ out = {} /\ rv = "Ok"

Attach ==
  /\ mode = "none"
  /\ mode' = "idle" /\ n' = 0 /\ out' = {} /\ rv' = "Ok"

Call(k) ==
  /\ mode = "idle"
  /\ mode' = "busy" /\ n' = k /\ out' = {}
  /\ UNCHANGED rv

\* Some pixels of the call reach the destination; none is written twice.
Produce ==
  /\ mode = "busy"
  /\ out' # out /\ out \subseteq out' /\ out' \subseteq Images(n)
  /\ UNCHANGED <<mode, n, rv>>

\* The single-worker path writes its pixels in the very step that returns.
Return(status) ==
  /\ mode = "busy"
  /\ out \subseteq out' /\ out' \subseteq Images(n)
  /\ status = "Ok" => out' = Images(n)
  /\ mode' = "idle" /\ rv' = status
  /\ UNCHANGED n

Destroy ==
  /\ mode = "idle"
  /\ mode' = "ending"
  /\ UNCHANGED <<n, out, rv>>

Ended ==
  /\ mode = "ending"
  /\ mode' = "none"
  /\ UNCHANGED <<n, out, rv>>

Next ==
  \/ Attach
  \/ \E k \in 0..MaxPixels : Call(k)
  \/ Produce
  \/ \E status \in Statuses : Return(status)
  \/ Destroy
  \/ Ended

\* A call returns and a destructor ends, whatever the client does next.
Responsive ==
  /\ mode = "busy" ~> mode = "idle"
  /\ mode = "ending" ~> mode = "none"

SafeSpec == Init /\ [][Next]_vars

Spec == SafeSpec /\ Responsive
=============================================================================
