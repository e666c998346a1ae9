-------------------------- MODULE ThreadedApplyInv --------------------------
(***************************************************************************)
(* The inductive invariant of ThreadedApply, as named parts.  TLC checks   *)
(* it on small instances; ThreadedApplyProofs proves it.                   *)
(***************************************************************************)
EXTENDS ThreadedApply

\* The caller has published the strips of a call and not yet returned.
Engaged == pc \in {"run", "check", "asleep", "collect"}

\* The fill loop has begun on the current call.
Cut == pc = "fill" \/ Engaged

\* The object and its parts exist exactly as long as they should.
LifeInv ==
  /\ pc = "none" => nStarted = 0 /\ nWorkers = 0
  /\ pc # "none" => nWorkers \in 1..nThreads
  /\ nStarted < nThreads
  /\ \A i \in Pool : tpc[i] = "none" <=> nStarted < i
  /\ \A i \in Pool : tpc[i] = "exited" => pc = "join"
  /\ pc = "join" => stop
  /\ stop => pc \in {"join", "none"}
  /\ base = "deleted" => pc \in {"stop", "join", "none"}
  /\ pc = "solo" => nActive <= 1
  /\ pc \in {"workers", "threads"} \/ Cut => nActive \in 2..nThreads /\ n > 0
  /\ pc = "threads" \/ Cut => nActive <= nWorkers

\* Jobs are taken in order, once each, and pending counts those unreported.
QueueInv ==
  /\ pending = jobCount + Cardinality(Busy)
  /\ pc \notin {"run", "check", "asleep"} => pending = 0
  /\ Engaged => jobHead + jobCount = nActive - 1
  /\ jobCount # 0 =>
       \A k \in Slots : jobHead <= k /\ k < jobHead + jobCount => jobs[k] = k
  /\ \A i \in Busy : job[i] \in Slots /\ job[i] < jobHead
  /\ \A i, j \in Busy : i # j => job[i] # job[j]

\* First pixel of strip i of a call of k pixels, in closed form.
StripFirst(k, active, i) == i * (k \div active) + Least(i, k % active)

\* The pixel after the last of a task's strip.
End(task) == task.first + task.count

\* The strips cut so far are consecutive, and with the rest cover the call.
FillInv ==
  Cut =>
    /\ t \in 0..(nActive - 1)
    /\ Engaged => t = nActive - 1
    /\ offset = StripFirst(n, nActive, t)
    /\ offset <= n
    /\ \A k \in 0..(t - 1) : tasks[k].worker = k /\ End(tasks[k]) <= offset
    /\ \A k, l \in 0..(t - 1) : k < l => End(tasks[k]) <= tasks[l].first
    /\ \A p \in 0..(n - 1) : p < offset =>
         \E k \in 0..(t - 1) : tasks[k].first <= p /\ p < End(tasks[k])

\* Every pixel offset of a call fits the 32-bit products.
FitsIndex == MaxPixels * NDst < IndexLimit /\ MaxPixels * NSrc < IndexLimit

\* The pixels from first on, count of them, have been transformed.
Written(first, count) ==
  \A p \in 0..(n - 1) :
    first <= p /\ p < first + count => <<p * NDst, p * NSrc>> \in out

\* Nothing is written but images of the call's pixels, at their places.
OnlyImages == out \subseteq Images(n)

\* A transform that succeeded has written its whole strip: one not yet
\* reported, one reported, the caller's own.
HeldWritten ==
  \A i \in Pool : tpc[i] = "report" /\ status[i] = Ok =>
    Written(tasks[job[i]].first, tasks[job[i]].count)

DoneWritten ==
  Engaged =>
    \A k \in 0..(nActive - 2) :
      k < jobHead /\ tasks[k].status = Ok /\ (\A i \in Busy : job[i] # k)
        => Written(tasks[k].first, tasks[k].count)

OwnWritten ==
  pc \in {"check", "asleep", "collect"} /\ own = Ok => Written(offset, n - offset)

\* A call that returned Ok is written, and had no failed strip.
ResultWritten ==
  pc = "idle" /\ rv = Ok =>
    Written(0, n) /\ (n # 0 /\ nActive > 1 => own = Ok /\ Failed = {})

WriteInv == OnlyImages /\ HeldWritten /\ DoneWritten /\ OwnWritten /\ ResultWritten

ControlInv == TypeOK /\ LifeInv /\ QueueInv /\ FillInv
=============================================================================
