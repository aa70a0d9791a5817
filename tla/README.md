# iHRC: a TLA+ model of the runtime and of the shared allocator

iHRC compiles C++ loops (`parallel_for_hetero`, `parallel_reduce_hetero`) so that the
same loop can run on the CPU or, through OpenCL, on the integrated GPU. CPU and GPU
share pointers: all shared objects live in one *shared virtual memory* (SVM) region,
which the TBB allocator manages and which the runtime wraps in one OpenCL buffer.
These modules model that runtime, that allocator and the two places where compiled code
depends on them (pointer translation, virtual calls); TLC checks them on small
instances and TLAPS proves most of the safety results for all values of the constants.

Paths below are relative to `src/`. The hard parts are in four source files that iHRC
wrote or changed: `runtime/src/hetero.c`, `runtime/src/win_wrapper.c`,
`tbb41_20130613oss/src/tbbmalloc/{backend,frontend}.cpp`; the rest of tbbmalloc runs on top of
them and under conditions (memory that never comes back) it seldom met upstream.

## Contents

    OffloadRuntime.tla          the runtime: offload_, caches, queue, clFinish
    ParallelForHetero.tla       abstract: what parallel_for_hetero promises
    SvmAllocator.tla            the backend: raw memory, counters, semaphore, regions
    SvmBlocks.tla               the backend: blocks, lock words, bins, coalescing
    SvmHeap.tla                 abstract: what the backend promises about blocks
    SvmInvariant.tla            the inductive invariants of SvmBlocks: its blocks, what a scan has seen
    BackRefs.tla                the table of back references
    LargeObjects.tla            its users: large objects, their cache, slabs
    SvmPlacement.tla            where the region lies, pointer translation
    HeteroVirtual.tla           virtual calls: the pass, and its code in that region
    OffloadRuntime_proofs, SvmAllocator_proofs, SvmLedger_proofs, SvmBlocks_proofs,
    BackRefs_proofs, LargeObjects_proofs, HeteroVirtual_proofs, NumberLemmas    theorems
    MCOffload, MCSvm, MCBlocks, MCBackRefs, MCObjects, MCVirtual   instances; <run>.cfg per run
    PROJECT.json                runs, mutants, source map, findings, hazards, theorems

## 1. Inventory

| Component | Source | State | Operations |
|---|---|---|---|
| Offload runtime | `runtime/src/hetero.c`, `win_wrapper.c`, `dllmain.cpp`, `cpuoffload.cpp` | `ClContext`, `ClCommandQueue`, global `Event`, `env_scheduler_hint`; per program and per loop a cached binary (`gpu_program_t.binary`, `gpu_function_t.binary`); argument slots inside each `cl_kernel` | `hetero_init`, `hetero_cleanup`, `offload_`, `offload_reduce_` |
| OpenCL (external) | used by `hetero.c` | in-order command queue, commands, kernels | build, create kernel, set argument, enqueue, finish |
| Allocator backend | `tbbmalloc/backend.cpp`, `tbbmalloc_internal.h` | `nextSVMAvailable`, region list, bins, `BackendSync`, `MemExtendingSema`, coalescing queue | `genericGetBlock`, `genericPutBlock`, `askMemFromOS`, `addNewRegion`, `getRawMemory` |
| Large object cache | `tbbmalloc/large_objects.cpp` | cached objects per size, ages | `get`, `putList`, soft and hard cleanup |
| Back references | `tbbmalloc/backref.cpp` | leaves, active leaf, `listForUse`, `backRefMutex` | `newBackRef`, `removeBackRef` |
| Allocator front end | `tbbmalloc/frontend.cpp` | per-thread slabs, free lists; `svmRegion`, `svmRegionLimit` | `scalable_malloc`, `scalable_free`, `initMemoryManager` |
| `malloc_shared` | `runtime/src/malloc_shared.c` | none | forwards to the allocator |
| Compiler passes | `compiler/src/llvm-3.3/lib/Transforms/iHRC/` | module-wide maps of kernels, joins, object sizes | rewrite call sites; `HeteroGPUTransform` generates pointer translation |
| Virtual calls | `HeteroVirtual.cpp` and the code it generates | class hierarchy, work list, targets; at run time the shared copies of the vtables and the global context | search for targets, chains of comparisons; `__promote_vtable_hetero__`, constructors, filling the context, dispatch in the kernel |
| OpenCL back end | `lib/Target/OpenCLBackend` | none | prints OpenCL C |

How they interact. Compiled code calls `offload_` with a CPU body, a `gpu_program_t`
and a `gpu_function_t` the compiler pass generated. `offload_` runs the loop itself or
enqueues it; in the second case the generated code adds a constant to every shared
pointer it receives, which is right only for pointers inside the OpenCL buffer that
`init_ocl` made of the allocator's region. The runtime has no lock of its own:
everything in `hetero.c` is file-scope state that every application thread shares. The
allocator has many: one mutex for back references, one word per block, a semaphore and
a counter to wait on for those who extend the backend. iHRC replaced its `mmap` by a
bump pointer, and the code around it was written for a system call that may be made
from several threads at once and takes memory back.

What is hard here, and which property covers it:

| Behaviour | Property |
|---|---|
| two calls set the arguments of one `cl_kernel` between each other's set and enqueue; two compilations race for the two unlocked caches | none where threads share a loop (section 3); where they do not, `ArgumentsOwn`, `ImplementsLoop` |
| a failing build, kernel or enqueue must not leave a loop half run, or take what others cached | `AllOrNothing`, `CacheIsStable`, `CallsReturn` |
| the GPU must be done with a loop body when its call returns | `QuietAfterReturn` |
| binaries cached before `hetero_init` or across `hetero_cleanup` | `ExitOnlyAfterReinit` |
| several threads extend the backend over one bump pointer | finding 1 |
| the piece begins at the rounded pointer, the unrounded one is moved on | `NoOverlap` |
| the limit is compared with the start of a piece only | `OverrunBounded` |
| memory is refused, or asked for, on stale knowledge of the bins | `NullIsLastResort`, `NullSeesAligned`, `RequestsEnd`, finding 3 |
| semaphore and counters signalled on every path, early returns included | `SemaExact`, `ProcessingCounted` |
| a block split, freed or coalesced while others scan, with no global lock | `BytesConserved`, `Tiled`, `HeadersAgree`, `IsHeap` |
| a block outgrows its bin, is freed without one, or loses its bit in the mask | `BinsDisjoint`, `MaskCovers` |
| a retry that takes the bin's lock again before a waiting thread can | `CallsEnd` (blocks) |
| tests of `addedToForUse` and `active` without the mutex | `ListIsChain`, `StrayRecovered` |
| the last slots of a leaf taken between two locks | `SlotsPartition` |
| a cleanup nested in `newBackRef`, failures in the middle of a batch | finding 2, `EveryRefHasOneOwner`, `KeepsToTable` |
| `usedSize` not rolled back (`UsedSizeDrift` measures it); a bit set outside the lock | `BitMaskCovers` |
| region and buffer at a multiple of 2^32 | `RegionInOneWord`, `BufferInOneWord` |
| the zeroing loop writes words at byte steps | `RegionAllocated` |
| translation of pointers as truncated, shifted, signed integers | `TranslationExact`, `FormsAgree` |
| overrides found from type information, in whatever order, with vtables missing | `TargetsExact` |
| vptr, shared vtable, context and translation must agree on two devices | `CallRunsOverride`, finding 4 |

`PROJECT.json` lists every hazard at its line, the uncovered ones with the reason.

## 2. Modules and the code

### OffloadRuntime

A member of `Calls` is one invocation of `offload_`. It creates at most one kernel object
and enqueues at most one command, so a call also names those, and the loop body it was
given. Each `pc` label is a point between two accesses of shared state:

| Actions | Code |
|---|---|
| `HeteroInit`, `HeteroInitFails`, `HeteroCleanup` | `dllmain.cpp:26-60`, `init_ocl`, `ocl_cleanup` |
| `Offload` | `win_wrapper.c:27-65`: hint, environment override, switch |
| `LoopIteration`, `LoopEnd` | the `SINGLE_CORE_CPU` loop, `cpu_apply_f` |
| `ReadFunction`, `ReadFunctionOfNull` | `gpu_apply`, `gpu_function->binary` |
| `ReadProgram`, `CompileProgram` | `compile_gpu_module`, `compile_gpu_program_ocl` |
| `CreateKernel`, `CreateKernelFails` | `get_function_from_program_ocl`, caching, dropped failure |
| `SetContext`, `SetGContext`, `Enqueue`, `EnqueueFails` | `execute_gpu_function_ocl`; failures call `exit(-1)` |
| `CallFinish`, `FinishFails`, `FinishReturns`, `ReadProfile` | `try_gpu_apply_f` |
| `Executing`, `GpuWorkItem`, `GpuComplete` | external: the in-order command queue |

`GlobalSize(n, upper)` is the `size_t` read through `(size_t*)&numiters`: the `int` is its
lower word (so a negative count wraps) and `upper` whatever lies beside it. The build is
the one the makefile makes: 64 bit, with `PRINT_RUNTIME_STATS`, which reads the event.

`Faults` says which OpenCL services may refuse. Deterministic refusals need no fault: a
`NULL` context refuses to build, a `NULL` program refuses a kernel, a kernel of another
context is refused by the queue.

`ParallelForHetero` is the abstract specification: between call and return each iteration
below `numiters` runs once, in any order, or none of them does, or the process ends.
`ImplementsLoop` says `OffloadRuntime` implements it, through
`status`/`trip`/`alive` computed from `pc`, `call` and `exited`, and `runs` itself.

### SvmAllocator

`raw` is the sequence of pieces `getRawMemory` handed out. A region keeps its room, the number of
its free bytes and `bin`: the kind of bins that list its blocks (`"aligned"` or `"large"`) as long
as that tells what a search finds there, `"none"` once the region may be fragmented. Where the
blocks lie and the locks of bins and blocks are abstracted (they are `SvmBlocks`); their effects
are choices:

* `ScanFinds` takes a block of any region with enough free bytes, with any remainder that may be
  split off (`Remainder`: nothing smaller than a `FreeBlock`). It leaves out `"large"` regions if
  `largeBinsUpdated` is false.
* `ScanMisses` is always possible for a thread that is not alone (`Disturbed`): bins may be
  locked, blocks in the hands of others. For a thread that is alone it is possible unless some
  region surely has a block (`Offers`): a free slab where nothing but slabs was taken, or a region
  that is one free block large enough, and not in the large bins when those are left out. So any
  fragmented region may be passed over, and whatever fragmentation, alignment and the bins do to a
  request in the code is among the choices.
* `EndPut` leaves a region unreleased, although all its bytes are free, if blocks in the hands of
  others may keep it in parts (`apart`), and may put the block into `coalescQ` (`queued`).
* `Drain` is `scanCoalescQ`: what was queued coalesces, and regions that turn out to be one free
  block are released. It is one step; a second thread that drains meanwhile is not represented.

Kept are: all early returns and rescans of `genericGetBlock` and `askMemFromOS` with
`largeBinsUpdated` (`large`) and `lockedBinsThreshold` (`lenient`), `maxRequestedSize` and the size
of a new region (`Exact`, `RegionSize`), `binsModifications`, `blocksInProcessing`, the semaphore,
the two waits (`Observe`, `Spin`, `Reread`; `SemaChanged`), the bump pointer in its separate reads
and writes (`Load`, `Reload`, `Store`), the large object cache with its cleanups, and leaves of
back references taken directly under `backRefMutex`.

`Reload` models the data race on `nextSVMAvailable`: the compiler may read the variable once or
twice. `Init` is the state after `doInitialization` (`bootstrap()` and `initBackRefMaster()`).
`EndPut` joins insertion into the bin, the increment of `binsModifications` and the decrement of
`blocksInProcessing`. A request is for one slab or one large object (the batches of slabs are in
`LargeObjects`), and a region of either kind needs the same `Header` besides its block. The early
return for `maxBinSize < blockSize` cannot be taken with the sizes of `addNewRegion` and is left
out; so are huge pages (off). Needing a leaf is an entry of its own (`LeafNeeded`) instead of a step
inside another request. Locals are set to 0 where their value is dead, which only makes the state
space smaller.

### SvmBlocks and SvmHeap

What `SvmAllocator` counts as bytes, block by block. Memory is a row of units; `myL[p]` and
`leftL[p]` are the two lock words (`GuardedSize`) at an address: the size when the block that
begins (ends) there is free, else `Locked` or `Coal` (coalescing). `th[t]` holds the local
variables of a thread; one action is one access to a word, a bin, the mask, the queue or a
counter that others may access too.

| Actions | Code (`backend.cpp`) |
|---|---|
| `MarkMine` .. `PutInQueue` | `doCoalesc`, `putBlock` of `CoalRequestQ` |
| `Decide` .. `SetLeftFree` | `coalescAndPutList`, `tryAddBlock`, `removeBlock`, `releaseRegion` |
| `PutBlock`, `BinsModified`, `BlockReleased` | `genericPutBlock`, `BackendSync` |
| `GetBlock` .. `SplitDone` | `genericGetBlock`, `getBlock`, `tryLockBlock`, `getFromBin`, `getFromAlignedSpace` |
| `Miss` .. `ReturnNull` | `scanCoalescQ(true)`, the cleanups of the caches, `askMemFromOS` with raw memory used up |

`CleanCache` returns any block in use: the caches own theirs, and the backend cannot tell.
`SvmHeap` is the abstract specification: blocks in use lie inside the regions held and never
overlap; a region is released only when nothing in it is in use. `IsHeap` says `SvmBlocks`
implements it with `regions` and `used` themselves.

`asked` is a history variable and stands for no state of the code: it says whether another thread
was in `genericGetBlock` since the thread's scan began. Only `NullSeesAligned` reads it (section 5
tells why it must), and with one call (`MaxCalls = 1`) it stays FALSE.

`Init` of the instances has two free blocks side by side. Such a pair is reachable: `doCoalesc`
leaves a neighbour alone that a scan has locked for a moment, and the scan then frees it.

### BackRefs and LargeObjects

`BackRefs` is the table: leaves with `Cap` slots, the active leaf, the list `listForUse`, the
global mutex and one mutex per leaf. `newBackRef`, `findFreeBlock`, `removeBackRef` are cut at
every access to state another thread may see; `Extend` is what a caller of `getBackRefSpace`
may meet (memory, none, or a cleanup that calls `removeBackRef`).

`LargeObjects` composes it with its users and instantiates nothing away: it EXTENDS `BackRefs`
and adds to every action of the table the frame of the caller (`frame[t]` above `pc[t]`):
`mallocLargeObject`, `freeLargeObject`, one bin of the cache with its bit and `usedSize`, the
soft and the hard cleanup, `getEmptyBlock` with its batch of slabs, `returnEmptyBlock`,
`StartupBlock::getBlock`. `KeepsToTable` says that whatever the callers do, the table only
takes steps of `BackRefs`. The ages of cached objects are abstracted to a choice of what is
old.

### SvmPlacement

`InitMemoryManager` computes region and limit from what `malloc` returned (round up, then
move by `SVM_SIZE` if the lower word of the end is below that of the start) and clears it;
`InitOcl` makes the buffer. `ToGpu`, `ToCpu` and `ToGpuByWord` are the arithmetic
`HeteroGPUTransform` emits with and without `ENABLE_BYTE_RW`, with `Word` for 2^32 and
signed arithmetic shifts. What the model made visible: `BufferInOneWord` holds only
because the test also moves a region that ends *exactly* at a boundary (mutant
`Away4GBExact`), and a moved region's OpenCL buffer ends up to one page past the
`malloc`ed block.

### HeteroVirtual

The GPU cannot call through a pointer, so the pass replaces a virtual call in a kernel by a chain
that compares the entry of the object's vtable with the addresses of all overrides it can find,
and calls the one that equals it. The addresses reach the kernel in a *global context*, and the
vtables it reads are copies in shared memory. The module follows one program (`prog`: its
hierarchy, what each class overrides, which vtables are in the module, the virtual calls of its
kernel) from the pass to the end of the kernel:

| Actions | Code (`HeteroVirtual.cpp`) |
|---|---|
| `Explore`, `ModifyBasicBlock` | `get_class_hierarchy`, `get_possible_targets`, `modify_basic_block` |
| `Startup` | `InitMemoryManager`, `InitOcl` of `SvmPlacement`, which the module extends |
| `PromoteVtables`, `Construct` | code of `allocate_vtables_in_shared_region`: at the start of `main`, and in constructors |
| `Offload`, `StoreEntry`, `Launch`, `MallocFails` | code of `find_offload_and_rename` at the call of `offload` |
| `VirtualCall`, `Fault`, `KernelEnds` | the generated chain, with the loads of `transform_globals_per_f` |

Memory is bytes: `shared` maps an address to which byte of which function's address lies there, so
stores that overlap do what they do. `Seen` is the address a device really reads: the translation
of `SvmPlacement` on the GPU, the identity on the CPU.

Left out: cloning of functions, invokes, pure virtual functions, namespaces, a second base, the
join function of a reduction and a second offload of the kernel. Two functions are taken to have
no byte of their addresses in common, so a field of which an overlapping store changed a byte
equals nothing. What the program allocates here is small: it comes from slabs, and those never
lie in the first page (section 5).

## 3. Runs

| Run | Properties | What it shows |
|---|---|---|
| `offload_ok` | `TypeOK`, `AllOrNothing`, `ExitOnlyAfterReinit`, `ArgumentsOwn`, `CacheIsStable`, `QuietAfterReturn`, `ImplementsLoop` | two threads offloading different loops, three calls: enough for a cached kernel to be used again while the other thread is between any two steps; two initialisations, calls before and between them, all hints and environments, failing init, build and kernel, TBB build (747,000 states) |
| `offload_live` | `CallsReturn` | two threads sharing two loops, of which one was never annotated; all faults |
| `svm_one` | `TypeOK`, `NoOverlap`, `OverrunBounded`, `NullIsLastResort` | one thread, four requests of three sizes, for slabs, for less and for as much as a region of slabs: the region is used up, and misses, cached and released memory occur in every order (221,000 states) |
| `svm_live` | `BytesConserved`, `SemaExact`, `RequestsEnd` | two threads with slabs, large objects and leaves at a region that runs out, semaphore of one: while one extends, splits or returns a block, the other scans, waits or drains the queue; the counter a thread waits for may be back at its old value when it is read again (319,000 states) |
| `blocks_ok` | `TypeOK`, `Tiled`, `HeadersAgree`, `BinsDisjoint`, `MaskCovers`, `ProcessingCounted`, `NullSeesAligned`, `IsHeap`, `CallsEnd` | two threads take, split, return and coalesce blocks of one region, to the release of the region |
| `backref_live` | `TypeOK`, `SlotsPartition`, `ListIsChain`, `StrayRecovered`, `CallsEnd` | two threads take and remove references until slots, leaves and memory run out; a call hangs only on a mutex of its own thread |
| `objects_ok` | `EveryRefHasOneOwner`, `UsedSizeDrift`, `BitMaskCovers`, `KeepsToTable` | two threads with large objects and slabs over that table |
| `startup_ok` | `RegionAllocated`, `RegionInOneWord`, `TranslationExact`, `FormsAgree`, `BufferInOneWord`, `TargetsExact`, `CallRunsOverride` | programs with virtual calls, compiled, started with the block at selected places of two windows, and run on either device (278,000 states) |
| `svm_race`, `backref_deadlock`, `blocks_null`, `virtual_context` | one each | the findings of section 5 |

Bounds. `Calls` bounds the behaviour of the runtime; each property relates at most two
concurrent calls and one earlier one, which three calls provide. `Word = 6` leaves trip
counts up to 2, enough for order and multiplicity of iterations; `MaxInits = 2` gives one
re-initialisation. `MaxRequests` (2 to 4) bounds allocations, and by it everything else in
`SvmAllocator`; `SvmSize` is chosen so that the region runs out within them. The sizes of `svm_one`
keep the ratios that decide what is added: one large size below `SlabRegion`, whose region is sized
for several requests, and one equal to it. The semaphore's limit of 3 is scaled to 1 in `svm_live`,
so that two threads contend for it. More than two threads, the sizes and
any number of requests are left to the proofs.

`blocks_ok` has one region of 8 units with slabs of 2 (`MinBinned = 2`, `HugeBin = 2`: sizes
below the bins, one exact bin, one for all larger) and two blocks in use that two threads may
return while one call of `genericGetBlock` (`MaxCalls`) asks for a slab, two slabs or a large
block: every pair of get, put, cleanup and coalescing meets at a common neighbour (201,000
states). What two calls do to one another is in `NullSeesAligned`, so that it, `TypeOK` and
`ScanInv` (section 4) were also checked with `MaxCalls = 2` in a region of 9 units: regions
`{<<3, 9>>}`, in use `{<<6, 2>>, <<8, 4>>}`, free `{<<3, 3>>}`, requests for two slabs and for a
large block. That takes 12 minutes (15.9 million states) and is not a run. `backref_live` has leaves of two slots (`Cap`), three leaves (`MaxLeaves`), five calls
(`MaxCalls`): a leaf fills, empties and returns to the list while it is active, listed and
neither. `objects_ok` has `Cap = 1`, so that nearly every reference needs a leaf and the nested
cleanups happen, and four calls (414,000 states). In `SvmPlacement` the ratio of word,
region and page is scaled (128, 40, 8), `Page % 4 = 0` and `2 * SvmSize <= Word` are kept;
`startup_ok` puts the block at the places around a boundary of the window that differ in what
rounding and the move do, and at one far from it, and the surface at two. Its hierarchies have
three classes in every shape, with two virtual functions, so that a class is missing at the top,
in the middle or at the end of a chain of bases; kernels make one or two virtual calls, and are
those of a loop or of a reduction. `PtrSize = 2` is the least that lets stores overlap, and it
makes three overrides the case in which the last entry hits another's field whole.

Symmetry is used only in runs without liveness. `offload_ok` has callers that do not share a loop: with shared loops its properties
fail, as the argument slots of a kernel and the two caches are shared (section 4), and nothing in the
source says that they may not be. So it does not meet these two hazards (`hetero.c:301`, 450), nor
a failing `clFinish` (529) or counts below 0 (316); `offload_live` meets all but the last. `AllOrNothing` and `QuietAfterReturn` exclude a failing
`clFinish`: `try_gpu_apply_f` then returns at once and `offload_` ignores it, so the GPU
may still be at work.

Fairness. `OffloadRuntime!FairSpec` has weak fairness of every call's next step and of the
device for every command; a thread inside `offload_` is scheduled by the operating system
and a started command makes progress (integrated GPU, in-order queue). `SvmAllocator!FairSpec`
has weak fairness of every thread's work inside the allocator, and so have `BackRefs` and
`SvmBlocks`. None obliges the program to call anything. `RequestsEnd` needs no strong fairness
in the checked instance: the number of requests is finite, so a rescan is repeated only while
others make progress. `SvmBlocks` adds strong fairness of the two waits for the lock of a bin
(`AwaitRight`, `Unbin`): `MallocMutex` promises no order, and under weak fairness alone
`getBlock`, which retries the bin whose first block another thread is coalescing, locks and
unlocks it for ever between the attempts of that other thread to get it. A real spin lock
lets a waiting thread in sooner or later; `CallsEnd` says that this is all it takes.

Deadlock is checked in the runs of the runtime, of `SvmAllocator`, of `SvmBlocks` and of
the placement with virtual calls; `Terminated`, `Quiescent`, `Finished` and `Ended` are the states in which the system
may really stop. `backref_live`, `backref_deadlock` and `objects_ok` have
`CHECK_DEADLOCK FALSE`: their calls are bounded without such an action, and a thread that
waits for itself (finding 2) stops them as well; `CallsEnd` of `backref_live` says that
nothing else does.

Every property has a mutant (`PROJECT.json`): a definition above or beside the mapped
one, marked *Mutant*, that changes it as a plausible bug would, and with which TLC finds
the property violated.

## 4. Proofs

Safety is proved, where it is within the prover's reach, for all values of the constants that
satisfy the modules' assumptions.

`OffloadRuntime_proofs` (any threads, loops and calls, any trip counts, hints, faults):

* `TypeCorrect`: `TypeOK` is not inductive, since `SetContext` and `Enqueue` index `kernel` with
  `kernelOf[c]`; `TypeInv` adds `KernelKnown` (a call there holds a kernel).
* `ArgumentsCorrect`: if `Exclusive` (no loop is reached by two threads), every command runs
  the body of the call that enqueued it. Inductive is `KernelInv`: a thread is in one call at a
  time, the kernel cached for a loop and the kernel a call holds were created by a call of
  that loop (`CacheOwn`, `KernelOwn`), hence no two active calls share a kernel
  (`OneKernelUser`), hence what a call put into the slots stays until it enqueues (`SlotsOwn`).
* `ExclusiveCorrect`, `QuietCorrect`: if moreover `clFinish` does not fail, every command not
  complete belongs to a call that is about to wait or waits for it (`PendingAwaited`), so no
  iteration runs after its call has returned.

and, on top of it:

* `AllOrNothingCorrect` and `LoopCorrect` (the refinement `ImplementsLoop`) under `Promised`: no
  shared loops, `clFinish` does not fail, counts are not negative and nothing but zeros lies
  beside `numiters`. `IterationsInv` says for every call that either nothing of it ran and nothing
  is to be run (`Fresh`), or what ran and what is left are disjoint and make up the loop
  (`Started`). Each action then maps to a step of `ParallelForHetero` or a stutter.
* `ExitCorrect`, without a condition: kernels in the cache belong to an initialisation not later
  than the present one (`EpochInv`).
* `CacheCorrect` under `Exclusive`: the kernel of a loop is cached once and stays, since whoever
  creates it found the loop without one, and no other thread reaches that loop. (The program
  above it may be built twice by two threads; this wastes the first one but changes no kernel.)

`Exclusive` is a condition on the program, not on the runtime. The statement without it is
false: this is the point of the shared kernel's hazard.

`SvmAllocator_proofs` (any finite set of threads, any sizes that satisfy `AllocatorAssumption`):

* `AllocatorTyped`, `SemaCounts` from `AllocInv`: types, a thread with a request under way knows
  it (`AskInv`), and both counters are the numbers of threads in the sections they guard
  (`CountInv`; each step moves a thread and its counter together, `Balance`).
* `OneThreadApart` (`NoOverlap`), `OneThreadOverrun` (`OverrunBounded`), for a program with one thread
  and any sizes. `LayoutInv` says that the pieces lie side by side below the pointer, and that what
  is about to be added is of whole pages. The lemmas behind them (`PiecesApart`, `OneOverrun`) need
  only that no thread enters `getRawMemory` between another one's read and write (`OneInRaw`), what
  a lock would establish and the code does not: the race of finding 1 is the only thing wrong with
  the bump pointer.
* `OneThreadNull` (`NullIsLastResort`), for a program with one thread. `ResortInv` follows the search:
  past a scan that found nothing no region offers a block (`Without`), unless the scan left out the
  large bins, and whoever leaves these out knows that no block there would do (`LargeInv`): a
  cleanup or an exact region sets `largeBinsUpdated` before it puts one there. A search comes to its
  end only with the pointer behind the limit and the cache purged (`UsedUp`). With several threads
  the code does not keep this: finding 3, and the queue taken off uncounted (section 5).
* `BytesAlways` (`BytesConserved`), for any number of threads: pieces that overlap still keep their
  own accounts. `BytesInv` adds whose every block is: used, cached, a leaf or in the hands of one
  thread (`Apart`), requested, with a size (`Known`), and that a piece not yet a region has no blocks
  and belongs to one thread (`Unborn`); without the last, `addNewRegion` could declare free what
  is in use. `LocalStep` says that no action takes a block from another thread; most actions move no
  bytes (`QuietStep`), the other seven have a lemma each. The sum over a set is the number of the
  single bytes (`BytesCounted`), so it does not depend on the order, and a region whose bytes are
  all free holds no block (`BytesNone`).

`AllocatorAssumption` asks of the sizes what the code's constants satisfy: whole pages, regions that
hold a header and two slabs, and a rest beside the slabs of a region (`Remainder`) that is nothing or
a block. TLC checked `ResortInv` on the instance of `svm_one` before it was proved.

`SvmLedger_proofs` and `SvmBlocks_proofs`: every safety property of `blocks_ok`, for any threads,
regions, bins, requests and number of calls: `TiledAlways`, `HeadersAlways`, `BinsAlways`,
`MaskAlways`, `ImplementsHeap`, `RefusalHonest`, and `TypesKept` and `ProcessingExact` for a finite
set of threads.

None of these properties is inductive: whether a thread may write a lock word depends on who owns
the block, and that is said nowhere in the state. `SvmInvariant` says it. `Inv` has four parts:

* `LedgerOK`, the ledger. Every extent lies in one *place* (`Places`): free, in use, queued, or one
  of ten places of a thread (`Private`: its list, its result, the block it coalesces in four states
  of marking, a neighbour or a block of a bin with one side locked or both). The extents of all
  places divide the regions (`Tiling`); the place tells what the word on the left of an extent is
  (`MyRight`) and, with the sides that threads have locked or not yet restored (`Side`), the word on
  the right (`LeftRight`, `SidesRight`); conversely a word that is a size belongs to such an extent,
  so a thread that reads one knows whose it is.
* `CtlOK`: what a thread knows of its list, result, request and bin at each of its places.
* `BinsInv`: a bin lists, without repetition and under its lock, the beginnings of extents that name
  it and may be listed (`Listed`); the mask covers the bins.
* `Local` and `Path`: where a thread goes on after coalescing is fixed before, and leads back to a
  place where it is counted only if it was counted all along (which is all that `ProcessingExact`
  needs besides the counting).

The first module holds what does not depend on which action is taken: a step that exchanges some
pieces for others of the same units keeps the tiling (`TilesExchange`); a step that moves one extent
and writes the words its new place calls for keeps the ledger; a step that touches bins only under
their locks keeps `BinsInv` (`BinsStep`). Each action then has a lemma (`...Step`): most move one
extent or none, `LockLeft`, `PeekNext`, `TakeInPlace`, `SplitRight`, `SplitLeft` and
`BlockReleased` exchange pieces, `ReleaseRegion` removes one with its region. `InvStep` puts them
together, and the theorems read their properties off `Inv`. Before that TLC checked `Inv` as an
invariant of the instance of `blocks_ok` (`MCBlocks` extends `SvmInvariant`, so adding `INVARIANT Inv`
to the configuration repeats it, in about four minutes).

`RefusalHonest` (`NullSeesAligned`) is about what a whole scan has seen, which no variable records.
`ScanInv`, proved on top of `Inv`, reads it off the place of the thread:

* `Seen`: at the scan or past it, the slab-aligned bins that come before the present one in the order
  of the scan (`Passed`), and the blocks before the present one in this bin (`Looked`), hold nothing
  that serves. After the last bin that is every slab-aligned bin, unless the larger bins are to
  be searched again.
* It is claimed only while the thread is `Calm`: `binsModifications` is what it was when the scan
  began (`modified`), the others are idle or have only their number to leave in `blocksInProcessing`,
  and none asked for a block. A step of another thread either keeps the bins and the words of their
  blocks, or leaves it not calm: whoever puts a block into a bin returns it and announces that
  before it leaves (`ReturnCtl`), or has a request of its own (`AloneCtl`).
* `LockCtl`: a thread holds the lock of the bin it is at and no other, so that the block it looks at
  stays where it is.

The proof needs of the constants (`BlocksAssumption`) what holds of the code: the blocks at first
divide the regions and are not empty, finitely many are free, regions do not touch (each ends with a
block of its own, which carries `LAST_REGION_BLOCK`), requests are positive, aligned or not, slab-aligned
requests ask for slabs, a slab (16 KB) is smaller than what the bins reach (8 KB and 4 MB), and
names of threads are not those of the shared places. In `RemoveFromBin` the model removes the first
occurrence of the block where it used to filter the list; the code unlinks one element.

`BackRefs_proofs`: `Typing`, `Partition` (each slot of a leaf is free, taken or in the hands of
one thread), `Chain` (`listForUse` is a chain of distinct leaves that ends) from `TableInv`, which
adds what a thread between the unprotected test and the mutex still knows (`Known`).

`LargeObjects_proofs`: `Refinement` (`KeepsToTable`), `TableKept` (so the table's invariant holds
under its real callers), and `Ownership`, `Drift`, `Covered` from `ObjectsInv`. The
strengthening is `FrameInv`: which reference a thread holds in each frame, nested ones
included.

`HeteroVirtual_proofs` has two levels. The first is about `SvmPlacement` and its own `Spec` (assumption
`PlacementAssumption`): from division with remainder (`NumberLemmas`), what rounding (`RoundUpBound`)
and the move (`Away4GBFits`) return, what two signed shifts lose (`ShiftBack`: nothing but whole
words), and the invariant `PlaceInv` that nothing moves afterwards: the five properties of
`startup_ok` about the region, and the types (`PlacementTypeCorrect`). So the region fits for the
real 374 MB (`SVM_SIZE`, `runtime/include/impl.h:36`), 2^32 and 64 KB as for the scaled values.

The second is about programs with virtual calls, for any finite set of classes, any shape of the
hierarchy and any kernel (`VirtualAssumption`: in addition a pointer has at least two bytes, the
functions of a class are numbered from 0, and a vtable is smaller than a page):

* `PlacementImplemented`: each step of `VirtualNext` is a step of `SvmPlacement` or leaves its
  variables alone, so the first level holds of these programs.
* `TargetsCorrect`, from `SearchInv`. `Searched` describes an unfinished search: the work list holds
  classes the search may come to (`Reached`: what lies between them and the static class is
  emitted), what was found is the override of a `Visible` class, and a visible class whose override
  was not found has a base in the work list. With an empty list the targets are exact, in whatever
  order the classes were taken.
* `CallsCorrect`, from `RunInv`, which follows the addresses of the overrides from the pass to the
  kernel. `TablesCopied`: once `PromoteVtables` has run, each byte of an emitted vtable's slot is
  where `Cell` says (no two share a place), inside the region and behind its first page, and before
  the context. `ContextFilled`: of each entry stored only the first byte is left, but the last one is
  whole; so the field of function 0 holds it if there is one entry, and another field holds a whole
  function only if the last entry begins there. `ObjectBuilt`: the vptr is that of the copy, or 2
  pointers when there was no copy yet, and then the kernel reads outside the buffer and the region
  (`SeenInFirstPage`). `SeenInBuffer` connects the two ends: a device reads at a shared address
  what the CPU wrote there, which is where the exact translation is needed.

TLC checked `RunInv` on the instance of `startup_ok` before it was proved. Finding 4 is thereby complete:
misplaced entries are the only reason for a virtual call to run nothing or something wrong,
besides the hidden classes and early objects of section 5.

Induction over data is out of the prover's reach as a rule of its library, whose theorems take
an operator. Where a proof needs it, over the bases of a class, the length of a sequence or the
subsets of a set that is summed up, it looks at a least counterexample instead (`LeastNumber` of `NumberLemmas`).

Only model-checked: liveness (`CallsReturn`, `RequestsEnd`, `CallsEnd`, `StrayRecovered`); fairness and
ENABLED are out of the prover's reach. Every other property of a passing run is stated by a theorem.
No module declares a RECURSIVE operator.

## 5. Findings

Each is a run that TLC finds violated (trace by `tlc -config <run>.cfg`).

1. `svm_race`: "up to 3 threads can add more memory from OS simultaneously"
   (`tbbmalloc_internal.h:502`), but `getRawMemory` (`backend.cpp:67-76`), which replaced a
   system call, moves `nextSVMAvailable` unprotected: two threads get the same memory.
2. `backref_deadlock`: `test_malloc_compliance.cpp:662-666` allocates until memory is used up and
   expects `NULL`. `newBackRef` holds `backRefMutex` (`backref.cpp:212`) while it asks the backend
   for a leaf; the backend cleans the cache of large objects, and `removeBackRef` of one of them
   waits for `backRefMutex` (`backref.cpp:279`). Upstream this takes a refusal of the operating
   system; the fixed SVM region makes running out a normal event.
3. `blocks_null`: "Wait while it leaves and re-do the scan before trying other ways to extend the
   backend" (`backend.cpp:620-622`). The scan that is redone still has `largeBinsUpdated == false`
   (`backend.cpp:745-749`) and skips the large bins, where the other thread has put the very
   block: `NULL` is returned although a block in a bin serves the request.
4. `virtual_context`: "for each element in virtual_funcs, assign them one by one to
   global_context", with `getelementptr inbounds i8* %call, i32 4` for the second
   (`HeteroVirtual.cpp:390-391`). The code adds the index of the entry to an `i8*` (400-401), so
   entry 1 is stored one byte behind entry 0, while the kernel loads fields of pointer size
   (139-141). With one override everything works (`CallRunsOverride`); with two neither
   comparison succeeds and the call is skipped; with one more than a multiple of the pointer
   size, the last entry fills the field of another function, whose callers then run it.

Met while modelling and left without a run:

* Runtime: the global `Event` (`hetero.c:310-320`) is declared thread safe "because only 1 thread
  at a time will use it per semantics of hetero queue", which nothing enforces: a second thread's enqueue replaces it before the first reads its times.
  `hetero.c:316` passes `(size_t*)&numiters` of an `int` (modelled by `GlobalSize`, `MaxUpper`).
  `README.md:13` speaks of a GPU that "is not busy", while `is_gpu_idle` is constant
  (`hetero.c:498-500`); `hetero.c:490` prints "Exiting: JITing failed" and continues;
  `win_hetero.h:16-27` declares ten hints, of which `win_wrapper.c:57` knows three; a negative trip
  count becomes a large global size.
* Region: the last piece may end behind it (`backend.cpp:71` against the comment at 55;
  `OverrunBounded` shows how far this goes: one piece, and nothing behind it); the OpenCL buffer
  starts one page after the region (`hetero.c:192`), while the first object of 8065 bytes or more
  is cut from the left end of the bootstrap region (`backend.cpp:572-584`), so its first bytes
  lie outside the buffer; the addresses of released regions are lost by
  design (`backend.cpp:84-92`).
* Backend: adjacent free blocks may stay uncoalesced, so the assertion of `verify()` at
  `backend.cpp:1169` need not hold; with the forced drop (`backend.cpp:990-991`) a free block that
  fits a bin stays in none. What `genericGetBlock` takes off the queue when it begins
  (`scanCoalescQ(false)`, `backend.cpp:702`, 1019-1026) is counted neither in `blocksInProcessing`
  nor in `binsModifications`: while one thread works on such blocks, another finds nothing in the
  bins, has nothing to wait for (620-625) and returns `NULL`, though the first one puts a
  slab-aligned block that serves into a bin meanwhile. This is a second way around the comment of
  finding 3, which `NullSeesAligned` without `~asked[t]` shows in the instance with two calls of
  section 3 (67 steps); that condition is what it takes, by `RefusalHonest`.
* Virtual calls: the vtables are copied at the start of `main`, so an object built by the
  initialisation of a static variable has a vptr near 0, and the kernel faults on it; a class
  whose vtable was dropped from the module, because no object of it is built, while its type
  information is defined, hides the classes derived from it, and a call left without targets is
  deleted without a message (both part of `CallRunsOverride`). If the key function of a base is in
  another module, its type information is only declared here: `get_class_hierarchy` then asks it for
  its initializer (`HeteroVirtual.cpp:830`) and the pass ends in an assertion or a crash; such programs
  are not modelled. `find_globals_per_f(kernel)` is called twice for a reduction, once
  presumably in place of the join (`HeteroVirtual.cpp:326-328`). A kernel offloaded from two places
  gets its call erased twice; pure virtual functions, namespaces and a second base break the
  matching of names. The result of `malloc` is not looked at, and the context never freed.
* Back references: `mallocLargeObject` does not roll back `usedSize` when there is no reference
  (`large_objects.cpp:541-543` against 146; `UsedSizeDrift` gives the exact drift);
  `StartupBlock::getBlock` leaks one reference (`frontend.cpp:1609-1614`); a leaf can be in neither
  list for a while (`StrayRecovered`: the next removal brings it back); the bound
  `lastUsed-1 < dataSz` (`backref.cpp:168`) is off by two, which no real size reaches.

## 6. What is not modelled

* `hetero.c`: `try_gpu_apply_no_finish_f`, `cl_finish` and the timer variants (544-620) have no
  caller in the repository, and the GPU half of `offload_reduce_` (623-783) is `#if 0`.
  `hetero_init` and `hetero_cleanup` are not interleaved with calls, which no workload does. A
  negative count with the TBB build is excluded (`RuntimeAssumption`): its range has nearly 2^64
  indices.
* Backend: adding a region and block-level coalescing are in different modules; pools with fixed
  memory, `reset`, `destroy` and adding at the tail of a bin are left out. Huge pages are off.
* Large object cache: the ages and thresholds are abstracted; the thread-local cache and
  `decreaseThreshold` are left out.
* The allocator's front end (thread-local bins, public and private free lists) is upstream
  TBB's but for the region's placement; what takes and returns slabs and references is in
  `LargeObjects`.
* Compiler passes but `HeteroVirtual`, and the OpenCL printer: transformations of data without
  concurrency. What they do to pointers is in `SvmPlacement`; the state `HeterotbbTransform` keeps between two reductions
  (hazard at line 292) needs the modules it walks over as data.
* LLVM, Clang, TBB's scheduler and the workloads are vendored or examples. They are nearly all of
  the repository's lines, so the map covers a small share of them.

## 7. What is left

1. `ReducePipeline`: pairing of kernels with joins and `object_size_hetero`
   (`HeterotbbTransform.cpp:292`), should the `#if 0` of `offload_reduce_` ever go; abstract
   specification: the fold of the bodies.
2. `SvmBlocks` shown to implement `SvmAllocator`'s bytes per region, with a step that adds regions.
3. `HeteroVirtual` with a second offload of the kernel and with functions that are cloned.
