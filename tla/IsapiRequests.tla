----------------------------- MODULE IsapiRequests -----------------------------
(***************************************************************************)
(* Tool requests of the IIS extension (Tools/Winnt/IccIisIsapi/            *)
(* iccIisIsapi.cpp): a lock-free counter lets a limited number of them in, *)
(* and each runs its tools in a directory of its own, under one root that  *)
(* every request prunes before it adds to it.                              *)
(*                                                                         *)
(* Threads of IIS interleave between the operations on the counter and on  *)
(* the root.  A directory is known by the number of the request it was     *)
(* made for; disk lists them by their time of modification.  Requests      *)
(* refused before they reach the counter, and what the tools compute, are  *)
(* left out; a tool ends, or is terminated after its time.                 *)
(***************************************************************************)
EXTENDS Integers, SequencesExt

CONSTANTS
  Threads,       \* threads IIS calls HttpExtensionProc on
  Limit,         \* kMaxConcurrentToolRequests
  MaxWorkspaces, \* kMaxPersistedWorkspaces
  MaxRequests    \* bound on the directories made

ASSUME ThreadsAssumption == IsFiniteSet(Threads)
ASSUME LimitsAssumption ==
  Limit \in Nat /\ MaxWorkspaces \in Nat \ {0} /\ MaxRequests \in Nat

VARIABLES
  active,  \* gActiveToolRequests
  disk,    \* the directories under the root, least recently modified first
  issued,  \* directories made so far
  at,      \* where each thread is
  seen,    \* the count each thread last read
  doomed,  \* directories each thread has still to remove
  space,   \* directory of each thread, 0 when it has none
  full,    \* history: the limit was reached since the thread first read the count
  missed,  \* history: directories some request did not see or could not remove
  skipped  \* history: those of the latest listing and the removals since

vars == <<active, disk, issued, at, seen, doomed, space, full, missed, skipped>>

Places == {"idle", "trying", "admitted", "pruning", "working", "failing", "leaving"}
Admitted == {t \in Threads : at[t] \notin {"idle", "trying"}}
OnDisk == {disk[i] : i \in DOMAIN disk}
InUse == {space[t] : t \in {u \in Threads : at[u] = "working"}}
Awaited == UNION {doomed[t] : t \in Threads}
\* The directory w is removed, if it was still there.
RemoveAll(w) ==
  \/ w \notin OnDisk /\ disk' = disk
  \/ \E i \in DOMAIN disk : disk[i] = w /\ disk' = RemoveAt(disk, i)
\* What is in the directory w changes, and with it the time of the directory.
Touch(w) ==
  \E i \in DOMAIN disk : disk[i] = w /\ disk' = Append(RemoveAt(disk, i), w)
\* Nothing of the directory w can be removed, or not all that is in it.
Resists(w) ==
  /\ w \in OnDisk
  /\ disk' = disk \/ Touch(w)

\* old are the directories of dirs with the earliest times.
Older(v, w) == \E i, j \in DOMAIN disk : i < j /\ disk[i] = v /\ disk[j] = w
Oldest(old, dirs) == \A v \in old, w \in dirs \ old : Older(v, w)

GoTo(t, place) == at' = [at EXCEPT ![t] = place]
\* Every step lets those that wait for a slot see whether there is none.
Noticed(n) ==
  full' = [t \in Threads |-> at'[t] = "trying" /\ (full[t] \/ n >= Limit)]
\* The directories of dirs stay although they were to be removed.
Misses(dirs) == missed' = missed \cup dirs /\ skipped' = skipped \cup dirs
-----------------------------------------------------------------------------
Init ==
  /\ active = 0
  /\ disk = << >> /\ issued = 0
  /\ at = [t \in Threads |-> "idle"]
  /\ seen = [t \in Threads |-> 0]
  /\ doomed = [t \in Threads |-> {}]
  /\ space = [t \in Threads |-> 0]
  /\ full = [t \in Threads |-> FALSE]
  /\ missed = {} /\ skipped = {}

(* ToolRequestGuard *)

Load(t) ==
  /\ at[t] = "idle"
  /\ GoTo(t, "trying")
  /\ seen' = [seen EXCEPT ![t] = active]
  /\ UNCHANGED <<active, disk, issued, doomed, space, missed, skipped>>
  /\ Noticed(active)

\* Fault: the count is stored without comparing it.
Stores(t) == TRUE
Compares(t) == active = seen[t]
\* Fault: a failed exchange counts as a full house.
GivesUpAtOnce(t) == seen[t] >= Limit \/ active # seen[t]
GivesUp(t) == seen[t] >= Limit

Exchange(t) ==
  /\ at[t] = "trying"
  /\ ~GivesUp(t)
  /\ Compares(t)
  /\ active' = seen[t] + 1
  /\ seen' = [seen EXCEPT ![t] = 0]
  /\ GoTo(t, "admitted")
  /\ UNCHANGED <<disk, issued, doomed, space, missed, skipped>>
  /\ Noticed(active')

\* The count has changed, or the exchange fails for no reason, as a weak one may.
ExchangeFails(t) ==
  /\ at[t] = "trying"
  /\ ~GivesUp(t)
  /\ seen' = [seen EXCEPT ![t] = active]
  /\ UNCHANGED <<active, disk, issued, at, doomed, space, missed, skipped>>
  /\ Noticed(active)

\* Answered 429.
Refuse(t) ==
  /\ at[t] = "trying"
  /\ GivesUp(t)
  /\ seen' = [seen EXCEPT ![t] = 0]
  /\ GoTo(t, "idle")
  /\ UNCHANGED <<active, disk, issued, doomed, space, missed, skipped>>
  /\ Noticed(active)

\* The guard's destructor, whether the request ends well or by an exception.
Release(t) ==
  /\ at[t] = "leaving"
  /\ active' = active - 1
  /\ GoTo(t, "idle")
  /\ UNCHANGED <<disk, issued, seen, doomed, space, missed, skipped>>
  /\ Noticed(active)

(* BuildToolSuiteResponse *)

\* The body is refused, the root or the directory cannot be made, or what the
\* pruning keeps in memory cannot be.
GiveUp(t) ==
  /\ at[t] \in {"admitted", "pruning"}
  /\ GoTo(t, "leaving")
  /\ doomed' = [doomed EXCEPT ![t] = {}]
  /\ Misses(doomed[t])
  /\ UNCHANGED <<active, disk, issued, seen, space>>
  /\ Noticed(active)

\* Fault: off by one, room for the new directory is forgotten.
ExcessAtLimit(n) == IF n > MaxWorkspaces THEN n - MaxWorkspaces ELSE 0
Excess(n) == IF n >= MaxWorkspaces THEN n - MaxWorkspaces + 1 ELSE 0

\* CleanupWorkspaces lists the root: it passes over an entry it cannot read and
\* ends at the first error of the listing itself, so it sees any of the
\* directories.  It removes those past their retention, which no request that
\* is still working has, and of the others the oldest that leave no room for
\* one more; the removals are the steps of Prune.
Cleanup(t) ==
  /\ at[t] = "admitted"
  /\ \E listed \in SUBSET OnDisk : \E expired \in SUBSET (listed \ InUse) :
       LET kept == listed \ expired
       IN  /\ Oldest(expired, listed)
           /\ \E surplus \in SUBSET kept :
                /\ Oldest(surplus, kept)
                /\ Cardinality(surplus) = Excess(Cardinality(kept))
                /\ doomed' = [doomed EXCEPT ![t] = expired \cup surplus]
           /\ missed' = missed \cup (OnDisk \ listed)
           /\ skipped' = OnDisk \ listed
  /\ GoTo(t, "pruning")
  /\ UNCHANGED <<active, disk, issued, seen, space>>
  /\ Noticed(active)

\* Any removal may fail, and one that does is passed over.
Prune(t) ==
  /\ at[t] = "pruning"
  /\ \E w \in doomed[t] :
       /\ \/ RemoveAll(w) /\ Misses({})
          \/ Resists(w) /\ Misses({w})
       /\ doomed' = [doomed EXCEPT ![t] = @ \ {w}]
  /\ UNCHANGED <<active, issued, at, seen, space>>
  /\ Noticed(active)

\* Names are random, and one that is taken is drawn again.
MakeDirectory(t) ==
  /\ at[t] = "pruning"
  /\ doomed[t] = {}
  /\ issued < MaxRequests
  /\ issued' = issued + 1
  /\ disk' = Append(disk, issued + 1)
  /\ space' = [space EXCEPT ![t] = issued + 1]
  /\ GoTo(t, "working")
  /\ UNCHANGED <<active, seen, doomed, missed, skipped>>
  /\ Noticed(active)

\* The upload, the logs and what the tools make go into the directory.
WriteFiles(t) ==
  /\ at[t] = "working"
  /\ Touch(space[t])
  /\ UNCHANGED <<active, issued, at, seen, doomed, space, missed, skipped>>
  /\ Noticed(active)

\* The index is written last, into a directory that is still there.
Finish(t) ==
  /\ at[t] = "working"
  /\ space[t] \in OnDisk
  /\ space' = [space EXCEPT ![t] = 0]
  /\ GoTo(t, "leaving")
  /\ UNCHANGED <<active, disk, issued, seen, doomed, missed, skipped>>
  /\ Noticed(active)

\* An exception, for one of writing into a directory another request removed.
Throw(t) ==
  /\ at[t] = "working"
  /\ GoTo(t, "failing")
  /\ UNCHANGED <<active, disk, issued, seen, doomed, space, missed, skipped>>
  /\ Noticed(active)

\* A failure of this removal is passed over too.
Discard(t) ==
  /\ at[t] = "failing"
  /\ RemoveAll(space[t]) \/ Resists(space[t])
  /\ space' = [space EXCEPT ![t] = 0]
  /\ GoTo(t, "leaving")
  /\ UNCHANGED <<active, issued, seen, doomed, missed, skipped>>
  /\ Noticed(active)
-----------------------------------------------------------------------------
Next ==
  \E t \in Threads :
    \/ Load(t) \/ Exchange(t) \/ ExchangeFails(t) \/ Refuse(t) \/ Release(t)
    \/ GiveUp(t) \/ Cleanup(t) \/ Prune(t) \/ MakeDirectory(t)
    \/ WriteFiles(t) \/ Finish(t) \/ Throw(t) \/ Discard(t)
Spec == Init /\ [][Next]_vars
-----------------------------------------------------------------------------
\* The state has its types.
TypeOK ==
  /\ active \in Nat /\ issued \in 0..MaxRequests
  /\ disk \in Seq(1..issued)
  /\ at \in [Threads -> Places]
  /\ seen \in [Threads -> Nat]
  /\ doomed \in [Threads -> SUBSET (1..issued)]
  /\ space \in [Threads -> 0..issued]
  /\ full \in [Threads -> BOOLEAN]
  /\ missed \subseteq 1..issued /\ skipped \subseteq missed

\* The counter is the number of requests let in, never more than the limit,
\* whatever the interleaving of the exchanges, and none is lost when a request
\* ends by an exception.
LimitKept == active = Cardinality(Admitted) /\ active <= Limit

\* No request is refused that was not, at some moment of its attempt, one more
\* than the limit: neither for a count that another thread changed under it nor
\* for an exchange that failed by itself.
RefusedOnlyWhenFull ==
  [][\A t \in Threads : at[t] = "trying" /\ at'[t] = "idle" => full[t]]_vars

\* Requests that prune the root at the same time leave at most one directory
\* each more than there should be, those still to be removed counted; what is
\* above this bound, some request did not see or could not remove.  The root
\* itself has no bound: the code passes over every failure.  But failures are
\* made good: however many directories were left over, each listing starts
\* afresh, and what is above the bound is about to be removed, was not seen by
\* the latest listing, or could not be removed since.
WorkspacesBounded ==
  LET Bounded(dirs) == Cardinality(dirs) <= MaxWorkspaces - 1 + Limit
  IN  /\ Bounded(OnDisk \ missed)
      /\ Bounded(OnDisk \ (skipped \cup Awaited))
=============================================================================
