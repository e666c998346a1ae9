---------------------------- MODULE ThreadedApply ----------------------------
(***************************************************************************)
(* CIccThreadedCmm / CIccApplyThreadedCmm / CIccApplyThreadedCmmPool       *)
(* (IccProfLib/IccCmmThread.cpp): one client thread, the "caller", drives  *)
(* an apply object that cuts a multi-pixel Apply into contiguous strips,   *)
(* queues all but the last to persistent worker threads and runs the last  *)
(* one itself.                                                             *)
(*                                                                         *)
(* A region under m_mutex is one step; the code between two regions (the   *)
(* fill of m_tasks, a worker's transform, the caller's own strip) is made  *)
(* of steps of its own, so that every interleaving the threads can produce *)
(* is a behaviour.  Pixels are positions: "out" records at which sample    *)
(* index of the destination an image was written and from which sample     *)
(* index of the source it was computed.                                    *)
(***************************************************************************)
EXTENDS Integers, FiniteSets

CONSTANTS
  MaxThreads,      \* kIccMaxCmmThreads
  SmallApply,      \* kIccSmallApplyPixels
  SmallPerThread,  \* kIccSmallApplyPixelsPerThread
  BulkPerThread,   \* kIccBulkApplyPixelsPerThread
  NSrc,            \* m_pCmm->GetSourceSamples()
  NDst,            \* m_pCmm->GetDestSamples()
  IndexLimit,      \* 2^32: offset * nSamples is computed in icUInt32Number
  Failures,        \* the statuses other than Ok a strip's transform may return
  MaxPixels,       \* bound on nPixels
  Requests,        \* the nThreads arguments Attach is called with
  Hardware         \* what std::thread::hardware_concurrency() may return

Ok == "Ok"
AllocErr == "AllocErr"

ASSUME ThreadsAssumption == MaxThreads \in Nat \ {0}
ASSUME SizesAssumption ==
  /\ SmallApply \in Nat /\ SmallPerThread \in Nat \ {0}
  /\ BulkPerThread \in Nat \ {0}
  /\ NSrc \in Nat \ {0} /\ NDst \in Nat \ {0} /\ IndexLimit \in Nat \ {0}
  /\ MaxPixels \in Nat
ASSUME InputsAssumption ==
  /\ Requests \subseteq Int /\ Hardware \subseteq Nat
  /\ Ok \notin Failures

VARIABLES
  pc,         \* where the caller is
  base,       \* the wrapped CIccCmm: "alive" or "deleted"
  owned,      \* m_bDeleteCmm
  nThreads,   \* m_nThreads
  nWorkers,   \* m_workers.size()
  nStarted,   \* m_threads.size()
  n,          \* nPixels of the current or last call
  nActive,    \* strips of the current call
  t,          \* index of the fill loop
  offset,     \* pixels handed out by the fill loop
  own,        \* status of the strip the caller ran
  rv,         \* status the last call returned
  tasks,      \* m_tasks
  jobs,       \* m_jobs
  jobHead,    \* m_jobHead
  jobCount,   \* m_jobCount
  pending,    \* m_pending
  stop,       \* m_stop
  tpc,        \* where each pool thread is
  job,        \* the task a thread took from the queue
  status,     \* what a thread's transform returned
  out         \* <<destination index, source index>> of every pixel written

poolVars == <<jobs, jobHead, jobCount, pending>>
threadVars == <<tpc, job, status>>
objectVars == <<base, owned, nThreads, nWorkers, nStarted, stop>>
callVars == <<n, nActive, t, offset, own, rv>>
vars == <<pc, objectVars, callVars, tasks, poolVars, threadVars, out>>

Pool == 1..(MaxThreads - 1)       \* thread i is m_threads[i - 1]
Slots == 0..(MaxThreads - 2)      \* indices of m_tasks and m_jobs
Statuses == {Ok} \cup Failures
Least(a, b) == IF a <= b THEN a ELSE b
-----------------------------------------------------------------------------
(* Thread counts and strips *)

ResolveThreadCount(request, hw) ==
  IF request < 0 \/ request > MaxThreads THEN 0
  ELSE IF request > 0 THEN request
  ELSE IF hw <= 0 THEN 1 ELSE Least(hw, MaxThreads)

\* At least one pixelsPerThread's worth of work for each thread but the last.
UsefulThreads(k) ==
  LET per == IF k < SmallApply THEN SmallPerThread ELSE BulkPerThread
  IN  (k \div per) + (IF k % per # 0 THEN 1 ELSE 0)

\* Pixels of strip i of a call of k pixels cut for "active" threads.
StripCount(k, active, i) == (k \div active) + (IF i < k % active THEN 1 ELSE 0)

\* The 32-bit products that turn a pixel offset into a pointer offset.
DstAt(first) == (first * NDst) % IndexLimit
SrcAt(first) == (first * NSrc) % IndexLimit

\* What a transform of the strip writes when it gets through "count" pixels.
Pixels(first, count) ==
  {<<DstAt(first) + j * NDst, SrcAt(first) + j * NSrc>> : j \in 0..(count - 1)}

\* CIccApplyCmm::Apply on a strip: all of it, or a failure after a part of it.
\* (Its chunk offsets are 32-bit products too; that they wrap in a strip of
\* more than 2^32 samples is left out.)
Transform(first, count, result) ==
  \E done \in 0..count :
    /\ result = Ok => done = count
    /\ out' = out \cup Pixels(first, done)
-----------------------------------------------------------------------------
(* m_jobReady and m_jobDone *)

Asleep == {i \in Pool : tpc[i] = "asleep"}

\* k calls of m_jobReady.notify_one(): as many sleepers wake, any of them.
NotifyThreads(k) ==
  \E woken \in SUBSET Asleep :
    /\ Cardinality(woken) = Least(k, Cardinality(Asleep))
    /\ tpc' = [i \in Pool |-> IF i \in woken THEN "check" ELSE tpc[i]]
-----------------------------------------------------------------------------
(* Life of the object *)

NoTask == [worker |-> 0, first |-> 0, count |-> 0, status |-> Ok]

Init ==
  /\ pc = "none" /\ base = "alive" /\ owned \in BOOLEAN
  /\ nThreads = 1 /\ nWorkers = 0 /\ nStarted = 0 /\ stop = FALSE
  /\ n = 0 /\ nActive = 0 /\ t = 0 /\ offset = 0 /\ own = Ok /\ rv = Ok
  /\ tasks = [i \in Slots |-> NoTask]
  /\ jobs = [i \in Slots |-> 0] /\ jobHead = 0 /\ jobCount = 0 /\ pending = 0
  /\ tpc = [i \in Pool |-> "none"]
  /\ job = [i \in Pool |-> 0] /\ status = [i \in Pool |-> Ok]
  /\ out = {}

\* CIccThreadedCmm::Attach on a valid CMM, down to CIccApplyThreadedCmm::Init:
\* one apply object is allocated, no thread is started.
Attach ==
  /\ pc = "none"
  /\ \E request \in Requests, hw \in Hardware :
       /\ ResolveThreadCount(request, hw) > 0
       /\ nThreads' = ResolveThreadCount(request, hw)
  /\ owned' \in BOOLEAN
  /\ pc' = "idle" /\ base' = "alive" /\ nWorkers' = 1 /\ nStarted' = 0
  /\ stop' = FALSE
  /\ tasks' = [i \in Slots |-> NoTask]
  /\ jobs' = [i \in Slots |-> 0] /\ jobHead' = 0 /\ jobCount' = 0 /\ pending' = 0
  /\ n' = 0 /\ nActive' = 0 /\ t' = 0 /\ offset' = 0 /\ own' = Ok /\ rv' = Ok
  /\ out' = {}
  /\ UNCHANGED threadVars

\* A bad thread count, or the apply object or the pool cannot be allocated:
\* NULL is returned, and an owned CMM does not survive.
AttachFails ==
  /\ pc = "none"
  /\ owned' \in BOOLEAN
  /\ base' = IF owned' THEN "deleted" ELSE "alive"
  /\ UNCHANGED <<pc, nThreads, nWorkers, nStarted, stop, callVars, tasks,
                 poolVars, threadVars, out>>

\* ~CIccThreadedCmm deletes the wrapped CMM first; ~CIccCmm then deletes the
\* apply object, whose destructor deletes the pool and then the workers.
DestroyCmm ==
  /\ pc = "idle"
  /\ pc' = "stop"
  /\ base' = IF owned THEN "deleted" ELSE base
  /\ UNCHANGED <<owned, nThreads, nWorkers, nStarted, stop, callVars, tasks,
                 poolVars, threadVars, out>>

StopPool ==
  /\ pc = "stop"
  /\ pc' = "join" /\ stop' = TRUE
  /\ tpc' = [i \in Pool |-> IF i \in Asleep THEN "check" ELSE tpc[i]]
  /\ UNCHANGED <<base, owned, nThreads, nWorkers, nStarted, callVars, tasks,
                 poolVars, job, status, out>>

\* Fault: the threads are not waited for.
NotJoined == TRUE

\* Every thread is joined before the pool and the apply objects are freed.
Joined == \A i \in Pool : i <= nStarted => tpc[i] = "exited"

FreeWorkers ==
  /\ pc = "join" /\ Joined
  /\ pc' = "none" /\ nStarted' = 0 /\ nWorkers' = 0
  /\ tpc' = [i \in Pool |-> IF tpc[i] = "exited" THEN "none" ELSE tpc[i]]
  /\ UNCHANGED <<base, owned, nThreads, stop, callVars, tasks, poolVars,
                 job, status, out>>
-----------------------------------------------------------------------------
(* Apply, on the caller's thread *)

\* The client calls Apply (the single-pixel Apply is a call of one pixel).
Call(k) ==
  /\ pc = "idle"
  /\ pc' = "entry"
  /\ n' = k /\ out' = {}
  /\ UNCHANGED <<objectVars, nActive, t, offset, own, rv, tasks, poolVars,
                 threadVars>>

ReturnEmpty ==
  /\ pc = "entry" /\ n = 0
  /\ pc' = "idle" /\ rv' = Ok
  /\ UNCHANGED <<objectVars, n, nActive, t, offset, own, tasks, poolVars,
                 threadVars, out>>

Divide ==
  /\ pc = "entry" /\ n # 0
  /\ nActive' = Least(nThreads, UsefulThreads(n))
  /\ pc' = IF nActive' <= 1 THEN "solo" ELSE "workers"
  /\ UNCHANGED <<objectVars, n, t, offset, own, rv, tasks, poolVars,
                 threadVars, out>>

\* workers[0] does the whole call, or the one pixel.
Solo ==
  /\ pc = "solo"
  /\ \E result \in Statuses : Transform(0, n, result) /\ rv' = result
  /\ pc' = "idle"
  /\ UNCHANGED <<objectVars, n, nActive, t, offset, own, tasks, poolVars,
                 threadVars>>

ReturnAllocErr ==
  /\ pc' = "idle" /\ rv' = AllocErr
  /\ UNCHANGED <<objectVars, n, nActive, t, offset, own, tasks, poolVars,
                 threadVars, out>>

\* Fault: the caller's own strip is forgotten.
WorkersForTasks == nActive - 1

\* EnsureWorkers(nActive): one turn of its loop, or its end.
WorkersNeeded == nActive

EnsureWorkers ==
  /\ pc = "workers"
  /\ IF nWorkers < WorkersNeeded
     THEN nWorkers' = nWorkers + 1 /\ UNCHANGED pc
     ELSE pc' = "threads" /\ UNCHANGED nWorkers
  /\ UNCHANGED <<base, owned, nThreads, nStarted, stop, callVars, tasks,
                 poolVars, threadVars, out>>

\* GetNewApplyCmm fails: the workers made so far are kept for the next call.
EnsureWorkersFails ==
  /\ pc = "workers" /\ nWorkers < WorkersNeeded
  /\ ReturnAllocErr

\* EnsureWorkerThreads(nActive - 1): start one thread, or go on to the fill.
EnsureWorkerThreads ==
  /\ pc = "threads"
  /\ IF nStarted < nActive - 1
     THEN /\ nStarted' = nStarted + 1
          /\ tpc' = [tpc EXCEPT ![nStarted + 1] = "check"]
          /\ UNCHANGED <<pc, t, offset>>
     ELSE /\ pc' = "fill" /\ t' = 0 /\ offset' = 0
          /\ UNCHANGED <<nStarted, tpc>>
  /\ UNCHANGED <<base, owned, nThreads, nWorkers, stop, n, nActive, own, rv,
                 tasks, poolVars, job, status, out>>

\* std::thread throws system_error: the threads started so far keep running.
EnsureWorkerThreadsFails ==
  /\ pc = "threads" /\ nStarted < nActive - 1
  /\ ReturnAllocErr

\* Faults: every task uses the first apply object; the offset advances by the
\* quotient alone.
FirstWorker(i) == 0
QuotientOffset == offset + (n \div nActive)

\* workers[i] does task i, and the next strip starts where strip t ends.
TaskWorker(i) == i
NextOffset == offset + StripCount(n, nActive, t)

\* One turn of the fill loop.  m_mutex is not held.
FillTask ==
  /\ pc = "fill" /\ t < nActive - 1
  /\ tasks' = [tasks EXCEPT ![t] = [worker |-> TaskWorker(t), first |-> offset,
                                    count |-> StripCount(n, nActive, t),
                                    status |-> Ok]]
  /\ offset' = NextOffset
  /\ t' = t + 1
  /\ UNCHANGED <<pc, objectVars, n, nActive, own, rv, poolVars, threadVars, out>>

\* Under m_mutex: queue the tasks and wake a thread for each.
Publish ==
  /\ pc = "fill" /\ t = nActive - 1
  /\ pc' = "run"
  /\ jobHead' = 0 /\ jobCount' = nActive - 1 /\ pending' = nActive - 1
  /\ jobs' = [i \in Slots |-> IF i < nActive - 1 THEN i ELSE jobs[i]]
  /\ NotifyThreads(nActive - 1)
  /\ UNCHANGED <<objectVars, callVars, tasks, job, status, out>>

\* The last strip, on the caller's thread and the last active worker object.
OwnWorker == nActive - 1

RunOwnStrip ==
  /\ pc = "run"
  /\ \E result \in Statuses :
       Transform(offset, n - offset, result) /\ own' = result
  /\ pc' = "check"
  /\ UNCHANGED <<objectVars, n, nActive, t, offset, rv, tasks, poolVars,
                 threadVars>>

\* Fault: the caller waits only for the queue to drain.
QueueDrained == jobCount = 0

\* m_jobDone.wait: the predicate is tested under m_mutex.
AllDone == pending = 0

AwaitDone ==
  /\ pc = "check"
  /\ pc' = IF AllDone THEN "collect" ELSE "asleep"
  /\ UNCHANGED <<objectVars, callVars, tasks, poolVars, threadVars, out>>

\* The tasks of the call that failed.
Failed == {i \in Slots : i < nActive - 1 /\ tasks[i].status # Ok}

\* Fault: the tasks' statuses are not looked at.
OwnVerdict == own

\* The caller's own status wins, then the first failed task's.
Verdict ==
  IF own # Ok \/ Failed = {} THEN own
  ELSE tasks[CHOOSE i \in Failed : \A j \in Failed : i <= j].status

Collect ==
  /\ pc = "collect"
  /\ pc' = "idle" /\ rv' = Verdict
  /\ UNCHANGED <<objectVars, n, nActive, t, offset, own, tasks, poolVars,
                 threadVars, out>>
-----------------------------------------------------------------------------
(* WorkerLoop, on pool thread i *)

\* Fault: the last report is not recognised.
NobodyLeft == pending = 0

\* m_jobReady's predicate, and the report that brings m_pending to zero.
JobReady == jobCount # 0
LastReport == pending = 1

\* m_jobReady.wait and, under the same lock, the way out or the next job.
TakeJob(i) ==
  /\ tpc[i] = "check"
  /\ IF stop THEN /\ tpc' = [tpc EXCEPT ![i] = "exited"]
                  /\ UNCHANGED <<job, jobHead, jobCount>>
     ELSE IF ~ JobReady THEN /\ tpc' = [tpc EXCEPT ![i] = "asleep"]
                             /\ UNCHANGED <<job, jobHead, jobCount>>
     ELSE /\ tpc' = [tpc EXCEPT ![i] = "run"]
          /\ job' = [job EXCEPT ![i] = jobs[jobHead]]
          /\ jobHead' = jobHead + 1 /\ jobCount' = jobCount - 1
  /\ UNCHANGED <<pc, objectVars, callVars, tasks, jobs, pending, status, out>>

RunJob(i) ==
  /\ tpc[i] = "run"
  /\ \E result \in Statuses :
       /\ Transform(tasks[job[i]].first, tasks[job[i]].count, result)
       /\ status' = [status EXCEPT ![i] = result]
  /\ tpc' = [tpc EXCEPT ![i] = "report"]
  /\ UNCHANGED <<pc, objectVars, callVars, tasks, poolVars, job>>

\* Under m_mutex: record the status; the last one wakes the caller.
ReportJob(i) ==
  /\ tpc[i] = "report"
  /\ tasks' = [tasks EXCEPT ![job[i]].status = status[i]]
  /\ pending' = pending - 1
  /\ pc' = IF LastReport /\ pc = "asleep" THEN "check" ELSE pc
  /\ tpc' = [tpc EXCEPT ![i] = "check"]
  /\ UNCHANGED <<objectVars, callVars, jobs, jobHead, jobCount, job, status, out>>

\* A condition variable may wake a waiter nobody notified.
SpuriousWake ==
  \/ /\ pc = "asleep" /\ pc' = "check"
     /\ UNCHANGED tpc
  \/ /\ \E i \in Asleep : tpc' = [tpc EXCEPT ![i] = "check"]
     /\ UNCHANGED pc
-----------------------------------------------------------------------------
Caller ==
  \/ ReturnEmpty \/ Divide \/ Solo
  \/ EnsureWorkers \/ EnsureWorkersFails
  \/ EnsureWorkerThreads \/ EnsureWorkerThreadsFails
  \/ FillTask \/ Publish \/ RunOwnStrip \/ AwaitDone \/ Collect
  \/ StopPool \/ FreeWorkers

Worker(i) == TakeJob(i) \/ RunJob(i) \/ ReportJob(i)

Client == Attach \/ AttachFails \/ DestroyCmm \/ \E k \in 0..MaxPixels : Call(k)

Wakeup ==
  /\ SpuriousWake
  /\ UNCHANGED <<objectVars, callVars, tasks, poolVars, job, status, out>>

Next == Client \/ Caller \/ (\E i \in Pool : Worker(i)) \/ Wakeup

SafeSpec == Init /\ [][Next]_vars

\* The scheduler runs every thread that can run; nobody owes a client's call,
\* a notification nobody sent, or a failure.
Spec == SafeSpec /\ WF_vars(Caller) /\ \A i \in Pool : WF_vars(Worker(i))
-----------------------------------------------------------------------------
(* Properties *)

TypeOK ==
  /\ pc \in {"none", "idle", "entry", "solo", "workers", "threads", "fill",
             "run", "check", "asleep", "collect", "stop", "join"}
  /\ base \in {"alive", "deleted"} /\ owned \in BOOLEAN /\ stop \in BOOLEAN
  /\ nThreads \in 1..MaxThreads /\ nWorkers \in 0..MaxThreads
  /\ nStarted \in 0..(MaxThreads - 1)
  /\ n \in 0..MaxPixels /\ nActive \in 0..MaxThreads
  /\ t \in 0..MaxThreads /\ offset \in Nat
  /\ own \in Statuses /\ rv \in Statuses \cup {AllocErr}
  /\ tasks \in [Slots -> [worker : Slots \cup {0}, first : Nat, count : Nat,
                          status : Statuses]]
  /\ jobs \in [Slots -> Slots \cup {0}]
  /\ jobHead \in 0..MaxThreads /\ jobCount \in 0..MaxThreads
  /\ pending \in 0..MaxThreads
  /\ tpc \in [Pool -> {"none", "check", "asleep", "run", "report", "exited"}]
  /\ job \in [Pool -> Slots \cup {0}] /\ status \in [Pool -> Statuses]
  /\ out \subseteq Nat \X Nat

Running == {i \in Pool : tpc[i] = "run"}
Busy == {i \in Pool : tpc[i] \in {"run", "report"}}

\* Threads that transform at the same time do so with apply objects of their
\* own, the caller's included: no CIccXform scratch state is shared.
NoSharedApplyObject ==
  /\ \A i, j \in Running : i # j => tasks[job[i]].worker # tasks[job[j]].worker
  /\ pc = "run" => \A i \in Running : tasks[job[i]].worker # OwnWorker
  /\ pc = "solo" => Running = {}

\* Destination samples a strip may write.
Footprint(first, count) == DstAt(first)..(DstAt(first) + count * NDst - 1)

\* No destination sample is written by two threads at once.
DisjointStrips ==
  LET Strip(i) == Footprint(tasks[job[i]].first, tasks[job[i]].count)
  IN  /\ \A i, j \in Running : i # j => Strip(i) \cap Strip(j) = {}
      /\ pc = "run" =>
           \A i \in Running : Strip(i) \cap Footprint(offset, n - offset) = {}

\* m_tasks is written without the lock only while no thread holds a task, and
\* no two threads hold the same task.
TasksNotRaced ==
  /\ Busy # {} => pc \in {"run", "check", "asleep"}
  /\ \A i, j \in Busy : i # j => job[i] # job[j]

\* Every index used is inside the vector it is used on: m_tasks and m_jobs
\* have nThreads - 1 elements, m_workers has nWorkers.
InBounds ==
  /\ TypeOK
  /\ pc \in {"solo", "workers"} => 0 < nWorkers
  /\ pc = "run" => OwnWorker \in 0..(nWorkers - 1)
  /\ pc = "fill" /\ t < nActive - 1 => t < nThreads - 1 /\ t < nWorkers
  /\ jobCount # 0 => jobHead < nThreads - 1 /\ jobs[jobHead] < nThreads - 1
  /\ \A i \in Running : tasks[job[i]].worker < nWorkers

\* Nothing transforms with a deleted CMM or a freed apply object, and no
\* thread of the pool outlives the object.
NoUseAfterFree ==
  /\ base = "deleted" => Running = {} /\ pc \notin {"solo", "run"}
  /\ pc = "none" => \A i \in Pool : tpc[i] = "none"

Images(k) == {<<p * NDst, p * NSrc>> : p \in 0..(k - 1)}

\* A call that returns Ok has put the image of every source pixel at its own
\* place, and no strip of it failed.
OkMeansTransformed ==
  pc = "idle" /\ rv = Ok =>
    /\ Images(n) \subseteq out
    /\ n # 0 /\ nActive > 1 => own = Ok /\ Failed = {}

Mode ==
  CASE pc = "none" -> "none"
    [] pc = "idle" -> "idle"
    [] pc \in {"stop", "join"} -> "ending"
    [] OTHER -> "busy"

Bulk == INSTANCE BulkApply WITH mode <- Mode,
                                Statuses <- Statuses \cup {AllocErr}

\* The pool does what a bulk Apply promises: only images of the call's pixels
\* are written, and Ok is returned only when all of them are.
ImplementsBulkApply == Bulk!SafeSpec

\* Every call returns and every destructor ends: no wakeup is lost, and the
\* caller never waits for a job no thread will take.
CallsReturn == Bulk!Responsive
=============================================================================
