# iccDEV, modelled in TLA+

iccDEV is a C++ library and tool set for ICC colour profiles. This directory
holds TLA+ models of the parts of it whose correctness depends on the *order* in
which things happen: threads, callbacks, caches, ownership, failures half way
through. Every definition is translated from the source; `PROJECT.json` maps each
one to the lines it stands for.

Numerical code (interpolation, colour science, matrices), parsing and formatting
are not modelled: a transform is "the function that gives each pixel its image",
the content of a tag is a model value.

## 1. Inventory

| Component | State | Operations | Interacts with | What is hard |
|---|---|---|---|---|
| Threaded apply pool (`IccCmmThread.cpp`) | apply objects, threads, task table, job queue, pending count, stop flag | Attach, Apply (one pixel, many), worker loop, destructor | wraps a `CIccCmm`; one client thread | interleaving, lost wakeups, partial failure, teardown order, 32-bit products |
| MRU pixel cache (`IccCmm.cpp` 12745-13170) | list of nodes, keys, values | Attach, Apply, Update, destructor | wraps a `CIccCmm`; used by apply tools and the ICM DLL | relinking a list through raw pointers, stale entries after a failure, in-place buffers |
| Profile tag directory (`IccProfile.cpp`) | `m_Tags`, `m_TagVals`, the attached IO | Attach, Read, ReadTags, FindAllTags, FindTag, AttachTag, DeleteTag, Detach, Write | tags, byte IO, embedded profiles | tags shared by entries, lazy loading, in-place rewrite of offsets, partial failure |
| Profile IO ownership (`IccProfile.cpp`, `IccTagEmbedIcc.cpp`) | who owns `m_pAttachIO` | Attach, CopyAttach, Detach, ConnectSubProfile, copies | tag directory, byte IO | borrowed IO outlived, leaks on refused paths |
| CMM lifecycle (`IccCmm.cpp` 9081-10470) | list of transforms, colour spaces of its ends, apply object, `m_bValid` | AddXform, Begin, CheckPCSRangeConversions, CheckPCSConnections, GetNewApplyCmm, RemoveAllIO | profiles, transforms, every decorator | call order, refusals half way, profiles shared by transforms, retry after a failed Begin |
| CMM apply objects (`IccCmm.cpp` 9035-9280, 11430-12090) | four pixel buffers, the colour name under way | GetNewApplyCmm, InitPixel, the Apply overloads of `CIccApplyCmm` and `CIccApplyNamedColorCmm` | made by a CMM, used by every decorator | buffers exchanged between transforms, in-place calls, chunks, 32-bit products, a second try after a failed allocation |
| PCS connection (`CIccPcsXform`) | list of steps | Connect, Optimize | CMM lifecycle | merging must keep the composition |
| ICM transform table (`IccDEVCmm.cpp`) | handle table, next handle, reference counts, a recursive lock per transform | create, delete, translate, check | MRU cache, client callback | lock dropped around the callback, deletion in use, handle reuse |
| ISAPI requests (`iccIisIsapi.cpp`) | count of active requests, workspace directories | admit, prune, make, write, discard, release | file system, child processes | compare-and-swap limiter, workspaces removed in use |
| Calculator element (`IccMpeCalc.cpp`) | operation list, stack, temporaries | judgements of Begin, Apply | element chain | what Begin judges on all ways through the branches must hold on each; temporaries survive from pixel to pixel |
| Multi-process chain (`IccTagMPE.cpp`) | element list, ping-pong buffers | Begin, Apply | CMM | buffer sizes, sequential |
| Byte IO (`IccIO.cpp`) | position, window, length | read, write, seek, align | everything that loads | windows nested in windows, boundaries |
| Embedded profile tag (`IccTagEmbedIcc.cpp`) | inner profile and its window | Read, ReadAll, DetachIO, Write | profile, byte IO | ownership across levels, depth limit |
| LUT, curve and other tags; factories; colorimetry; search; linear algebra; utilities | data | read, write, evaluate | profiles, CMM | numerical or sequential |
| XML, JSON, Connect libraries; command line tools; bindings; viewer | none beyond one call | translate, configure, report | library | parsing and formatting |
| MCP and REST server (`iccdev-mcp`) | uploads, child processes | handlers, tool runs with a timeout | command line tools | timeout against a late result |

What makes the modelled ones correct:

* **Pool.** Strips are disjoint and cover the call; concurrent strips use
  different apply objects; the task table is never written while a worker reads
  it; `Ok` means every pixel is in its place; every call and every destructor
  ends; nothing is used after it was freed. To its client it is one bulk Apply.
* **Cache.** The list is finite, acyclic, and holds exactly the nodes in use, in
  order of last use; keys are distinct; an answer from the cache is the answer the
  transform would give.
* **CMM.** As profiles are added each is linked to what the one before writes; when Begin
  declares a chain valid, every transform gets the colour space it takes; HDR ranges are converted where due; each profile is deleted exactly once.
* **Apply objects.** What is written for a pixel is what the whole chain makes of the source
  pixel at the same index, whichever buffers it went through; `Ok` means all of them.
* **Transform table.** A CMM is used by one call at a time and lives until its last user
  is done; callbacks cannot deadlock; a handle names one transform, and a deleted one
  not soon another.
* **Calculator.** A program Begin accepts finds its arguments on the stack on every way
  through its branches, and never sees a temporary of another pixel.
* **ISAPI requests.** Never more requests at work than the limit, none refused below
  it; the directories that can be seen and removed stay bounded, and others are pruned as soon as they can be.
* **Tag directory.** Entries point to tag objects the profile owns, each owned
  once and reachable; `FindTag` gives a signature its own data; a written file
  reads back as what was in memory.
* **Byte IO.** Whoever moved the one position, a window reads only its own bytes, all that are
  left of them, and a seek ends in the window and says where.
* **Profile IO.** An IO object is deleted once, by its owner; nothing reads through a
  deleted one, inner profiles least of all; what nobody deletes was dropped at a known place.

`PROJECT.json` lists the hazards one by one with the line where each bites; those
of components not modelled yet carry a note.

## 2. Modules

| Module | Role |
|---|---|
| `BulkApply` | abstract: what a client of a bulk Apply may observe |
| `ThreadedApply` | the pool: caller, worker threads, condition variables, lifecycle; properties; refinement mapping to `BulkApply` |
| `ThreadedApplyInv` | the inductive invariant, in named parts |
| `ThreadedApplyProofs` | theorems and proofs |
| `MCThreadedApply` | instances for TLC |
| `MruOrder` | abstract: a bounded sequence of pixels ordered by last use, and the pixel looked for; found exactly when it is in the sequence |
| `MruCache` | the linked list and the Apply around it; refinement mapping to `MruOrder` |
| `MruCacheInv`, `MruCacheProofs` | its inductive invariant, theorems and proofs |
| `MCMruCache` | instances for TLC |
| `TagDirectory`, `TagDirectoryProofs` | one profile's directory, owned tags, attached file, writes, with their properties; proofs |
| `MCTagDirectory` | files and instances for TLC |
| `TransformCalls` | abstract: what a client of the ICM module's handles may rely on, without locks or counters |
| `TransformTable` | table, reference counts, locks and the nested calls of each thread |
| `TransformTableInv`, `TransformTableProofs` | properties and refinement mapping; theorems and proofs |
| `MCTransformTable` | instance for TLC |
| `CmmChain`, `CmmChainInv`, `CmmChainProofs`, `MCCmmChain` | a CMM from its construction to its destruction; properties; proofs; profiles for TLC |
| `CmmApply`, `CmmApplyInv`, `MCCmmApply` | an apply object, plain or for named colours: buffers, chunks, in-place calls; properties and inductive invariant; all chains of up to four transforms for TLC |
| `ByteIO`, `ByteIOInv` | positions and bytes of memory, files and nested windows; properties |
| `CalcStack`, `CalcStackInv`, `MCCalcStack` | the calculator's judgements and its machine; properties; programs for TLC |
| `PixelProofs` | theorems and proofs of `CmmApply` and `CalcStack` |
| `ProfileIO`, `ProfileIOInv` | which profile owns, borrows or wraps which IO object; properties |
| `MCInputOutput` | instances of both for TLC; a behaviour is one of either |
| `IOProofs` | theorems and proofs of `ProfileIO` and `ByteIO` |
| `IsapiRequests`, `IsapiRequestsProofs`, `MCIsapiRequests` | limiter and workspaces with their properties; proofs; instance for TLC |

### ThreadedApply

Actions and code correspond one to one. The grain is the mutex: a region under
`m_mutex` is one step, and so is each stretch between two regions that touches
shared memory.

| Action | Code (`IccCmmThread.cpp`) |
|---|---|
| `Attach`, `AttachFails` | `CIccThreadedCmm::Attach`, down to `CIccApplyThreadedCmm::Init` |
| `Call`, `ReturnEmpty`, `Divide`, `Solo` | `CIccApplyThreadedCmm::Apply`: empty call, thread count, single-worker path |
| `EnsureWorkers`(`Fails`) | one turn of `EnsureWorkers`; `GetNewApplyCmm` failing |
| `EnsureWorkerThreads`(`Fails`) | one turn of `EnsureWorkerThreads`; `std::system_error` |
| `FillTask` | one turn of the loop that fills `m_tasks`, without the lock |
| `Publish` | the region that sets the queue and notifies |
| `RunOwnStrip` | the caller's own strip |
| `AwaitDone`, `Collect` | the wait on `m_jobDone`; the status loop |
| `TakeJob`, `RunJob`, `ReportJob` | `WorkerLoop`: wait and take; transform; report |
| `DestroyCmm`, `StopPool`, `FreeWorkers` | the destructors, in the order they run |
| `SpuriousWake` | a condition variable waking a waiter nobody notified |

A sleeping thread is in `tpc[i] = "asleep"` (the caller: `pc = "asleep"`), and
leaves it when notified or spuriously. `notify_one` wakes any one sleeper; with
nobody asleep it is lost, as in C++. A pixel is a pair of a destination index and
the source index it was computed from, so a misplaced strip is visible. The
wrapped CMM's transform writes its strip whole and returns `Ok`, or some first part
of it and returns a failure; that it does not look at other strips is what a
private apply object is for, and `NoSharedApplyObject` says they are private. The
chunk loop inside a strip, which has 32-bit products of its own, is left out.

### MruCache

`first`, `next`, `key`, `val` are `m_pFirst`, `pNext` and the two halves of the pixel
data; node `x` is `m_cache[x]`. `Scan` is one turn of the search loop with its
`prev`, `last` and `i`; `Hit`, `Miss`, `Transform`, `TransformFails` follow it. `Miss` and
`Transform` are two steps because the code stores the key before the transform runs
and the value after. `inPlace` is `DstPixel == SrcPixel`: the buffer the scan reads is
then the one already partly overwritten. Memory nobody wrote is `Junk`. The
single-pixel Apply is a call of one pixel. Two apply objects share nothing the
cache writes, so one is modelled.

### TagDirectory

`entries` is `m_Tags` (signature, offset, size, tag), `tagVals` is `m_TagVals`, `live` the tag
objects that exist, `io` the attached file. `LoadTag` is the code's, with its loop that
hands the tag to every entry at the same offset; `FindTag` calls it for one entry,
`LoadNext` for each entry of the loops in `Read`, `ReadTags` and `FindAllTags`. `Write` lays
out directory and data as the code does, in words of 4 bytes, and rewrites the
offsets in memory; `WriteFails` stops anywhere in its two loops, also between the offset and the size of an entry. A written file may be
read back into the profile. `Copy` is the copy constructor, whose loop `operator=` repeats: the
client goes on with the copy, which `CopyAttach` may have lent the file. Each entry carries `means`, the content it was given
under its signature; the code has no such field and no action reads it. An entry of a broken
file may point where no tag is, and means `Nothing`: no load of it succeeds. Of a file the
model only assumes that no tag's data is at offset 0 (`FilesAssumption`).

### TransformTable

A thread is a stack of calls, the top one running and all below it inside their
callbacks: the client may create, use and delete transforms from there. A region under
the table mutex is one step, as nothing in it blocks. `refs` is the count of the
`shared_ptr`s, so that taking a handle out of the table, the look-up's copy and the end
of a call are the increments and decrements the code makes, and `RefsExact` can say that
they balance. `lock` has an owner and a count: the mutex is recursive. `Enter`, `RowReported`,
`Resume` and `Leave` are the four places where a call takes or gives it; the callback
stands between two of them. `TransformCalls` says the same to the client without any of it.

### CmmChain

A transform is known by the spaces it reads and writes, by what `GetSrcSpace`, `IsInput`,
`IsMCS` and the like say of it, and by the profile object it uses and perhaps owns. `AddXform` is
the whole handler, with the earlier transform it may create again for an MCS, and
`AddXformRefused` its refusals in the order of the code, each with what it has changed by
then. `Begin` is `BeginRefused`, `BeginFails`, `ConnectFails`, `ApplyFails` and `Begin`, one for each stage at
which it may end. `CheckPCSConnections` is a set of edges that get a transform: an edge
between like spaces may get one or not, one between different PCSs must. A profile is
handed over read into memory, with its own IO, or by copy with the caller's IO borrowed
(a copy of a profile without a PCS is refused at once). The device side of a profile is neither XYZ nor Lab,
unless it is abstract: spaces do not tell such a side from a PCS, the code does;
`loaded` and `io` say what `FindTag` can still find. Profiles are added before the first
Begin, and Begin is called on a chain with a transform in it, as all callers in the
repository do. The repeated Begin after `Begin(false)` is modelled too; it repeats the HDR
conversion, which `ConvertedOnce` leaves out by speaking of the first.

### CmmApply

A buffer's pixel is written down as the source sample it began at and the number of
transforms it went through, so a pixel of another index, of an earlier call or of a part of the
chain is told from the right one. A step is one transform on one chunk (`ApplyMiddle`,
`ApplyLast`); a chunk of a named colour CMM, or of a single Apply, is one pixel, and a chain of one
transform gets all pixels at once. `pSrc`, `pDst` and `NextDst` are the exchange of buffers in the
code, with the one loop that has a single buffer. A transform `copies` the pixel before it writes,
`buffers` it when both addresses are equal, or is `direct` (a PCS transform of one step); others
give or take a colour name. `Spoilt` and `In` say what becomes of a pixel that is
overwritten before it is read, in the client's memory and in a buffer. `InitPixel` allocates four
buffers in an order, and is tried again only if the first is missing: `UseOfNull` is what
the code does then with the others. The buffers are wide enough for every transform (`InitPixel`
takes the largest), so widths matter only in the client's memory. A client calls the overload
that `GetInterface` names, and in place only with pixels that do not grow; the returns of
`icCmmStatIncorrectApply` are then never reached. Objects share nothing: one is followed.

### ByteIO

`base` is the IO at the bottom with its one position; `win` the windows, each with `m_nStartPos` and
`m_nSize`, the first onto the bottom and each next onto the one before. `Up` is what the `Tell` of each
level subtracts, `Down` what the `Seek` of each adds and clamps, `Allowed` what the `Read8` of
each leaves of a request: the calls a window makes of the IO under it are these, folded
over the levels. The file's `GetLength` seeks to the end and back, which is no change. A seek cuts
the position of a memory buffer to 32 bits (`Word`) but not what it returns; and the number of bytes it
zeroes goes through a signed number of 32 bits (`AsInt32`) on its way to `memset`: where that
is negative, the program ends (`crashed`). Of a byte one knows whether it was given a value. A failing file system, and files that may only be read, are
left out. Operations are functions of the state, so the properties are
invariants that speak of every read and seek that could follow.

### CalcStack

`Accepted` and `NeedTempReset` are the judgements of `Begin` on a program, `Exec` to `ReturnPixel` the machine.
`frames` are the recursive calls of `ApplySequence`, each with where it is and where its operations
end; a judgement is a recursive function of such a place and what it counts there (`Judged`, `Followed` are
one turn of its loop), and cuts its bodies by code of its own: that the two agree is part of what
`AcceptedProgramsRun` says. Values are left out: an if goes either way and a select takes any
body, or none without a default. `fault` remembers why a sequence failed: a failing
select returns true all the same (`ReturnBody`), so the result alone does not tell.

### IsapiRequests

`Load`, `Exchange` and `ExchangeFails` are the turns of the compare-and-swap loop, with the spurious
failure a weak exchange may have. `Cleanup` reads the root, `Prune` removes one directory at a
time, `MakeDirectory` makes the request's own: other requests run between any two. The listing
passes over entries it cannot read and ends at the first error of its own, so it may see any of the directories;
and any removal may fail, wholly or in part (`Resists`), and is passed over. A directory may be removed under its request,
which then fails in `Throw`. Directories are kept in the order of their last modification. `missed` are the
directories some request did not see or could not remove, `skipped` those that
the latest listing did not see and those whose removal has failed since.

### ProfileIO

`prof` holds the profile objects, those inside embedded profile tags included (`parent`); `ios` the
IO objects, a window with what it wraps and whether it owns that. Deletion is
what the destructors do: `Deleted` and `DeletedWith` name all that goes with a profile's
IO. `Attach` deletes an old IO only if the profile has tags, as `Cleanup` does; `Told` are the inner
profiles `Detach` reaches, which it tells only from a profile that has an IO itself.
Of the directory only emptiness and an unread embedded profile are kept; `TagDirectory` has the
rest. `ReadValidate` does to the IO what `Read` does. The guards are what a client must
observe: it works on profiles it owns, deletes an IO only while that is in its hands, borrows
into a profile without one, an owner does not let go while another profile borrows, and tags are read
through another profile's IO only for a copy that has none. All callers in the
repository do. An embedded profile of a copy has no IO and is left out. The window
of `ConnectSubProfile` is freed in all cases but one (`Tell` failing just after it
read), which is left out too. `lost` collects what the code drops without deleting:
the IO that `CopyAttach(NULL)` takes from an owner, the one a second `Attach` overwrites, and the
window of a sub-profile that turns out to be none.

## 3. Runs

| Run | Instance | Shows |
|---|---|---|
| `pool_safety` | 3 threads, calls of 0-5 pixels, fair | all safety properties of the pool, that it implements `BulkApply`, and that every Apply and every destructor returns (`CallsReturn`) |
| `mru_cache` | cache of 1-3 entries, 4 pixel values, calls of 0-2 pixels, failures on one value, fair | the list stays well formed, keys distinct, its order that of `MruOrder`; a pixel is found exactly when it is in it; an answer is the pixel's own image unless the transform has failed on it in this cache (`OkMeansImages`); every Apply returns: the list has no cycle |
| `mru_poison` | 1-2 entries, calls of one pixel | finding: after a failed transform the next call with that pixel returns `Ok` and memory the transform never wrote |
| `tags_directory` | three files, one of them broken, 3 signatures, 3 tag objects, fewer when half loaded | nothing dangles, every owned tag is reachable, a written file holds what was loaded; and, unless a half-loaded profile was written, every signature has its own data and shared data a shared tag |
| `tags_stale` | the same files, writes at any time | finding: one entry is loaded, another deleted and attached anew, the profile written: the third, loaded then, takes over the one attached anew, which has now the place the third had |
| `transforms` | 2 threads, 3 transforms, 3 handles for 2 places, calls nested once, 2 rows, 4 calls | locks, reference counts, handles, and that the table implements `TransformCalls` |
| `chain` | 7 profiles, up to 3 added, one refusal, two Begins | valid chains are linked (but for an MCS left open) and converted, profiles deleted once |
| `chain_refused` | an input profile and one that would read its MCS | finding: a refused profile leaves the one before it writing the MCS, and the next is linked to the PCS it wrote before |
| `cmm_apply` | all chains of up to 4 transforms, chunks of 2 pixels, calls of 0-5, plain and named | every pixel written is the image of its own source pixel, in place or not; nothing is written outside; buffers are missing only after a reported lack of memory |
| `calc` | all programs of up to 4 of 13 operations, and longer ones with one or two branches | an accepted program runs, within the stack, on fresh temporaries |
| `io` | up to 5 bytes, a window in a window, seeks beyond both ends; 3 profiles, 4 IO objects, two levels of embedding | a window reads its own bytes wherever the shared position was left, seeks end inside and where they say, no byte is read that has no value, and memory is overrun only by a fill of half of `Word`; IO objects have one owner, none is read after its deletion, none is lost but at the known places |
| `isapi` | 3 threads, limit 2, 2 workspaces, 4 directories made | the limiter is exact and refuses honestly; directories seen and removable stay bounded, and what failures have left is pruned later. The root itself has no bound |

Deadlock is checked in every run but those of `CmmChain`, where a destroyed CMM is the end,
and `cmm_apply`, where the use of a missing buffer is.

**Findings.** Three defects have a run each, described in `PROJECT.json` with its lines: the
poisoned cache entry, the stale offsets, and the chain that a refused profile leaves unfit. The passing runs state what excludes them:
`OkMeansImages` of the cache leaves out pixels the transform has `failed` on, `FindTagHonest` and its like end when a half-loaded profile
is written (`mixed`), and `ChainLinked` says of a chain in which an MCS is written and not read, or read and not written
(`LeftOpen`, `OpensIn`), only that its PCS sides meet, and that the first happens only behind a profile that was refused. Other defects are in the models and excluded from the properties by a
named condition, each as weak as TLC allows (without it the property fails):

* `offset * nDstSamples` and its like wrap at 2^32, in the strips of the pool
  (`IccCmmThread.cpp:131`) and in the chunks of one object (`IccCmm.cpp:9256`): `FitsIndex` in both modules.
* A select without a default is judged as if one of its bodies always ran
  (`IccMpeCalc.cpp:4529`): `AcceptedProgramsRun` and `StackWithinLimit` speak of programs whose selects have one (`SelectsDecide`).
* An else, case or default behind the end of a body passes `HasValidOperations` and fails when it is executed. The
  sequence around a select in which that happens returns true (`IccMpeCalc.cpp:3985`, 4006), and the one around it goes on with
  what is left on the stack, more perhaps than was judged: `StackWithinLimit` speaks of pixels without a fault.
* A second `Attach` of a profile without tags overwrites the IO it owns (`IccProfile.cpp:722`), and the window
  made for what turns out to be no sub-profile is dropped (738): `OwnedOnce` counts both in `lost`.
* The bulk Apply of a named colour CMM has all inner transforms work in place
  (`IccCmm.cpp:11681`), which one that writes while it reads does not stand: `InnerSafe`.
* From names to pixels, a failed look-up for a name inside the chain is not noticed
  (`IccCmm.cpp:11926`): `LookupsSeen`.
* `IccCmm.h:1842` allows `DstPixel == SrcPixel`; with one transform that does not copy its
  input, a bulk call whose pixels overlap spoils them (`IccCmm.cpp:9238`): `InPlaceSafe`.
* A window seeks from its beginning to a negative position as if to its own start, and so lands at
  twice that (`IccIO.cpp:832`): `SeeksItsOwn` leaves that seek out. A window of size 0, which an embedded
  profile tag without data makes (`IccTagEmbedIcc.cpp:226`), is an unlimited one: `ReadsItsOwn` and `SeeksItsOwn` speak of it
  only as long as the position is inside.
* `AddXform` links an output profile with an MCS behind a device side by its colour space (`IccCmm.cpp:9638`), but
  `Create` makes it read the MCS (`IccCmm.cpp:1164`): `ChainLinked` names it with `OpensIn`.
* A seek that makes a memory buffer longer by 2^31 bytes or more hands `memset` a negative length
  (`IccIO.cpp:1029`): `BytesDefined` says that nothing else overruns memory, and that only memory with so much room allows it.
* After an `InitPixel` that got only its first buffer, the next call uses the missing ones (`IccCmm.cpp:9234`):
  `CrashOnlyWhenShort` says that this is the only way to it. A second `InitPixel` also leaks what the
  first allocated.

Three more disagreements of a text with the code are plain from reading: with several
failing strips the status returned is the last strip's if that failed (`IccCmmThread.cpp:150`), not the
first's (`docs/icc-cmm-threading.md:67`); `CIccMruCmm::Attach` does not delete the CMM when it
cannot be allocated (`IccCmm.cpp:12811`), against the comment at 12790; and the header
(`IccCmmThread.h:68`) has the first worker object run the last strip, where the code uses
the last active one. An error path of `CheckPCSConnections` (`IccCmm.cpp:10080`) leaks the
PCS transforms made before it (counted in `lost` of `CmmChain`).

**Bounds.** `MaxThreads` = 3 gives two pool threads, enough for two to race for a
job, for one to sleep while the other runs, and for a thread left over from a
larger call. `MaxPixels` = 5 with strips of 1 and 2 pixels reaches both division
rules (below and above `SmallApply`), remainders 0, 1 and 2, empty and single-strip
calls. `Requests` and `Hardware` give rejected, automatic and explicit thread counts.
`IndexLimit` is 2^32 in the code; 16 there is above every product. The code's constants (256 threads, 1024, 256 and 128 pixels) only scale
these. `MaxCacheSize` = 3 gives a node that is neither head nor tail, and size 1 the
special case in the code; four pixel values are one more than fit, so entries are
evicted. `MaxPixels` of the cache is 2, so a call sees its own
effect on the list; the images are a cycle of the pixels, so which of them may fail makes no difference. The scan's count stops at `MaxCacheSize`; the code
only compares it with the size. `MaxTags` and `MaxEntries` = 3 allow two entries that
share a tag and one that does not (`LazyTags` = 1 keeps writes of half-loaded profiles to those with at most one tag in memory, 3 in `tags_stale` to none);
a full set of tag objects blocks a load in the
model, where the loops can still fail and end. A written file is read back only
immediately after the write (`saved` is forgotten at the next operation).
For the transforms, two threads with a call nested in a callback are what crossing
callbacks need; three handles for two places keep one always free, so rotation shows, and
a third transform can be in use after its deletion while both places are taken again. Three
profiles make a chain with an inner transform on both sides of which something is
inserted; with `McsSamples` = 3 an MCS has as many channels as a PCS and a device space have, so that Begin's
comparison of counts stops none that it might let pass. Four transforms are one more than the two buffers that are
exchanged; five pixels in chunks of two end in a short chunk after two offsets; widths of
2 and 3 let pixels grow, shrink and overlap; and products wrap at 8 there. Programs nest two sequences deep and fill a stack of three, and the long ones
have two branches one after the other, where what the first leaves is what the second
starts from. Three profiles and four IO objects allow a profile in a
profile in a profile with a window each on the outermost file, and a borrower beside an
owner; an instance with a fifth object shows nothing else. Five bytes hold a window
with room on both sides in a window with room on both sides, in lengths on both sides
of a multiple of 4; `Word` is 2^32 in the code, 8 there, which is above every position and lets the
longest fills turn negative. Three threads for two slots is the least at which one is refused; four
directories for a root that keeps two are one more than two requests that prune at once may leave.

**Fairness.** `WF_vars(Caller)` and `WF_vars(Worker(i))`: the operating system runs
every thread that can run. Nothing obliges a client to call, a condition variable
to wake spuriously, or a transform or an allocation to fail: an action that fails is
part of the caller's steps, never owed. For the cache, `WF_vars(Apply)`: the thread that
called runs on. The other modules state no fairness and no liveness: a client's callback
need not return, and their loops end by bounds of the model.

## 4. Proofs

`ThreadedApplyProofs`, for every number of threads, strip rule, sample count and
bound on pixels, from the named assumptions of `ThreadedApply` on its constants
(positive sizes, `Ok` not a failure).

* `ControlInvariant` is the core: `ControlInv` = `TypeOK`, `LifeInv`, `QueueInv`, `FillInv` is inductive.
  `TypeOK` alone is not: that `pending` does not fall below zero needs `QueueInv` (pending = queued
  + held by busy threads, a cardinality), that indices stay in range needs
  `FillInv` (the offset is the closed form of the strip start) and `LifeInv` (how many
  threads and apply objects exist in each phase). The proof has one step per action.
* From it follow `TypeCorrect`, `ApplyObjectsPrivate`, `TasksPrivate`, `IndicesInBounds` and
  `TeardownSafe` without further induction.
* `WriteInvariant` relates `out` to the reported statuses (what was transformed and held,
  reported, or run by the caller is written). With it: `OkIsHonest`, `StripsDisjoint`,
  and `PoolImplementsBulkApply`, which maps each step to a step of `BulkApply` or a
  stutter. These assume `FitsIndex` (all products below the 32-bit limit); without it they are
  false, and it is the exact boundary. `ControlInv` and `WriteInv` were checked with TLC before
  they were proved, and are named parts of `ThreadedApplyInv`.

`MruCacheProofs`, for every cache size, set of pixels and transform:

* `CacheInvariant`: `CacheInv` is inductive. `ListWellFormed` alone is not: relinking is
  right only because the scan's `last` and `prev` are the two nodes before `ptr` in the
  list's order (`ScanAt`), and a new key is distinct because the scan has passed every
  entry without meeting it. `Front` and `Pushed` are what a hit and a miss make of an
  order; that the code's pointer writes produce them is `FrontListed` and `PushedListed`.
  `TypeCorrect`, `ListIsWellFormed` and `KeysAreDistinct` follow.
* `AnswersAreImages`: `OkMeansImages`, whatever fails; `mru_poison` shows why it speaks of pixels
  that have not. `EntriesInv` exempts the head entry while its transform is awaited,
  `UnreadInv` says what an in-place call has still to read is intact.
* `RefinesMruOrder`: the head and the links determine the order (`OrderWalks`, `OneWalk`, by the least
  position where two walks differ), so the mapped variable is known after each step,
  and `Hit` and `Miss` are `UseAgain` and `UseNew`. The abstract state also has the pixel
  that is looked for, so that a hit that leaves the order alone is not a stutter.

`PixelProofs`, of `CmmApply` for every chain, pixel width, chunk size and number of pixels, and of `CalcStack` for
every program, however branches are nested in it, and all limits:

* `ApplyInvHolds`: `ApplyInv` is inductive. Its core is `DataInv`: what the next transform reads of each pixel of the chunk
  is what those before it have made of that pixel. To keep it one must know that a transform does
  not write where it reads unless it may (`FlowInv`), that chunks meet exactly (their
  offsets are multiples of the chunk size, and `FitsIndex` keeps the products exact), and in the
  client's memory that what it writes of one pixel does not reach the next that is still to
  be read (`InPlaceSafe`). `BufferInv` says that all buffers exist, or none, until memory is short.
* `PixelsAreImages`, `WritesStayInside` and `MissingOnlyWhenShort` follow. The first has the condition `Sound`
  (`FitsIndex`, `InPlaceSafe`, `InnerSafe`, `LookupsSeen`: the known gaps of section 3); the second holds past the
  32-bit limit too, since a product that wraps is smaller (`ExtentInv`).
* `AcceptedProgramsAlwaysRun`, `StackAlwaysWithinLimit`: the judgement counts on the least and on the most that a branch
  leaves, in two walks along the program. `CInv` says that each walk has come to where the sequences under way
  are: it accepts the rest of the innermost one from a depth that is no more (the low walk) or no less (the high one)
  than the stack, and what it makes of that rest is bounded so by what the sequence around it goes on with
  (`Walking`, `Follows`). A fault suspends the bounds. A walk is a recursive function over places in a program: that it
  has the value its definition says (`DepthIs`) holds because each turn asks only for shorter walks (`Rank`), which `Recursion`
  turns into a function level by level. With it an accepting walk accepts every branch
  and what follows the branch from any depth a body leaves; that the select finds the cases the walk has found is `SelectsLaidOut`. Each
  way a sequence changes keeps the walks: going on (`PastFollows`), a body begun (`PushFollows`), passed over (`OverFollows`)
  and ended (`PopFollows`).
* `TempsAlwaysFresh`: the same with the pass for the temporaries (`WrittenAfterIs`). `TInv` says that what it counts as written where
  the sequences are has been written for this pixel, and that it does not ask for a reset from there; a select always does, so none is under way.

`TransformTableProofs`, for every number of threads, transforms, handles, rows and nested calls:

* `LockInvHolds`: `LockInv` is inductive. `NoHoldAndWait` says that an owner of a lock is at work in
  its top call; for a step to keep it one must know that calls below the top are inside
  their callbacks (`OthersInCallback`), that a lock is held once although it is recursive
  (`HeldOnce`: a nested call on the same transform finds it released), and that a call at
  work is its lock's owner (`OwnerInCmm`). Each of the ten actions is one of five moves (a
  lemma each): push a call, pop one, go on, go on taking the lock, go on giving it up.
* `CallbacksHoldNoLock` and `OneCallUsesCmm` follow.
* `ReferencesExact`: the count of each transform is the number of handles that name it and of calls
  that use it, two cardinalities. A step changes, adds or removes one call or one handle, so
  the sets it adds to and takes from are known exactly.
* `TableImplementsCalls`: `Start` and `Proceed` are steps of `TransformCalls` or change nothing its
  client sees. That a transform is alive there exactly while its count is not zero is
  where `ReferencesExact` is needed.
* `HandlesComeRound`: no handle is issued again before as many others were as the table leaves
  free. `FarAhead` counts the handles that come before an issued one or are in use: those
  stored since, and those in use when it was issued.

`IsapiRequestsProofs`, for every finite set of threads and every limit:

* `LimitIsKept`: the counter is the number of admitted requests, and never over the limit. The
  exchange succeeds only on the value read, so counter and set grow together; the eight
  operations inside a request are one case (`WorkIsInside`), as the limiter does not know them.
* `RefusalsAreHonest`: who has read a full counter was there when it was full (`FullWasSeen`).
* `WorkspacesStayBounded`: however many requests prune at once, of the directories that no request has missed
  there are no more than are kept and one for each request that may be inside. No bound on the directories alone is inductive:
  two threads may have read the same list. `OrderedRoom` orders the threads by their last look at
  the root, and bounds what each leaves there of what it sees together with one
  directory for every thread that has looked no later. `TypeCorrect` is a consequence.
  The second half of the property is the same bound without a memory of old failures: `StayRoom` counts the directories
  that nobody is about to remove and that were seen lastly, with one for each request that is to make its own;
  a listing sets that count anew, whatever was there before, so that however much failures have
  left over, one request that sees and removes all of it is enough.

`TagDirectoryProofs`, for every set of files and every bound on tags and entries:

* `EntriesStayOwned`, `FindTagIsHonest` and `SharingIsKept`, from `IInv`. That entries mean what they hold is not
  inductive: `LoadTag` hands a tag to every entry at the same offset, so one must know that no loaded
  entry has the place of one that is not (`Apart`), that an unread entry means what
  the file has there (`Promised`), and that entries of one place share a tag (`Sharing`). These end, with the
  properties, when a profile with unread tags is written (`mixed`): `Write` moves the
  loaded entries and leaves the others where they were, in a file that is no longer that one.
* `WritesAreFaithful`: a file `Write` has written reads back. The offsets are sums over the entries, which the model
  defines by recursion; they are characterised by their steps (`FileLengthIs`) and compared by
  the least place where a claim about them fails (`PlacesApart`, `DirIndexIs`).

`IOProofs`, for any profiles and IO objects and any depth of embedding, and for IOs of any size
with any number of windows in windows:

* `AlwaysGood`: `IInv` is inductive. Its half `Good` says who owns what and what each window is
  onto. It is stated of any profiles and IO objects, not of the variables: an action here
  deletes, makes and attaches in one step, and is followed change by change through states the
  program is never seen in. Its half `Forest` says that profiles lie in others that have tags,
  without a cycle (by levels). With it the `MaxNested` rounds in which the model
  collects what is in the tags of a profile reach everything (`LayersReach`; a profile of level n lies in
  n others, `LevelIsDepth`), and so a profile that is deleted leaves none behind that reads through its IO.
* `EachOwnedOnce`, `NothingDangles` and `InnerProfilesLetGo` follow. The clients' part, that an owner keeps what
  it lent, is in the guards of the model. `NestingAssumption` and `ObjectsAssumption` only say that
  there is a level, that profiles are finitely many, and that "none" is not one of them.
* `BytesAlwaysDefined`: `ByteInv` (types, and `Sound`: what memory holds up to its size has values, and a
  fill ends the program only where there is room for half of what 32 bits count) is inductive. A step of any action is a seek, a read or a write of the IO at the bottom after
  a way down through the windows, whatever that way is.
* `ReadsAlwaysOwn` and `SeeksAlwaysOwn` speak of what a level does to a request, which the model
  defines by recursion over the levels. Going up, `Climbs` says that the levels below one determine what it sees
  (`OneClimb`, `NextClimb`; `Up`, `GetLength` and `StartOf` are climbs); going down, `Descends` the same of what
  it asks for. By induction over the levels, what a window sees is the position less where it starts
  (`UpFromStart`), a read in windows that lie in what is under them is cut at the end of the
  innermost and by nothing further down (`ReadInsideLevel`, `ReadOutsideLevel`), and a seek into
  one is cut by none below it (`DownInside`, `SeekPasses`).

`CmmChainProofs`, for any profiles, sources and destinations, and chains of any length:

* `ChainStaysOwned`: `IInv` = `Types`, `Owned`, `Unbegun` is inductive. `ProfilesOwnedOnce` counts owners, which
  no step can be shown to keep without knowing where the transforms of the new chain come from. Begin
  makes two new chains by flattening sequences of sequences (`FlattenSeq`); `ThreadIs` says for any
  insertion at which place each old and each new transform then is, in what order, and that there is
  nothing else. What uses and owns profiles follows from the places (`ThreadOwned`, `PrefixOwned`), as
  it does for the transform an MCS join creates again (`JoinedIs`). `EveryProfileOwnedOnce` follows.
* `RangeConvertedOnce`: from the places again (`Laid`), the transforms between a profile and the next are
  the conversion Begin has put there and PCS transforms (`LaidConversions`). That one that
  is owed is made needs the tag, long after the borrowed IO is gone: `Findable`, kept by `AddXform` because
  it loads the tag itself.
* `PcsSidesAlwaysMeet`: next to what stands a transform of a new chain (`ThreadNeighbours`), and that the
  sides of both kinds of insertion meet. A range conversion reads what its
  neighbour writes because an input side writes the PCS of its profile (`WritesPcs`), which an MCS
  join must keep too. It is the first part of `ChainLinked`.

Only model-checked: liveness (`CallsReturn`, `ApplyReturns`), which is beyond the prover;
and the other parts of `ChainLinked` (what is left open only behind a refusal, device sides that are
equal, ends that fit), which TLC finds true of the seven profiles of `chain`, among them
an output, an input and a visualisation profile with an MCS, used through it or not.
`SpacesMatch`, what AddXform means to make sure of, is false of the code: added for its MCS behind a device side, an "output" profile
with an MCS is linked by its colour space (`IccCmm.cpp:9638`), but `Create` makes it read the MCS
(`IccCmm.cpp:1164`); and a join that is refused after it has created the
transform before it anew leaves that one writing the MCS (`IccCmm.cpp:9676`). Where sample counts agree, Begin accepts such a chain.

## 5. Not modelled

Besides the components of the table above without a module: several client
threads on one apply object (the code forbids it), exceptions out of a transform
(`Apply` does not throw), the telemetry hooks; the untyped copies of the cache
template, which have no user; in the tag directory, the depth limit of `ReadTags`, validation, the header
fields, and the profile ID; in the CMM, spectral PCSs, previews, BRDF transforms, hints, and how
a named colour CMM is built; in the calculator, values, operations with a
variable number of arguments, sub-elements and the parser; in the ISAPI module,
everything that keeps nothing between requests. The rest of the library (tag types,
elements, colorimetry, XML and JSON, tools) is sequential, numerical or text: nothing
in it depends on the order of events, and it is the bulk of the lines.

## 6. Plan

1. `MpeChain`: ownership and buffers of the multi-process elements.
2. `PcsSteps`: `Optimize` keeps the composition.
