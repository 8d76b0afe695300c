# TLA+ models of the executable allocator and the WebAssembly module record

This directory holds TLA+ models of the two source files of this repository:

- `src/jit/ExecutableAllocator.cpp` is the demand executable allocator. It hands out executable memory to the JIT.
- `src/wasm/js/WebAssemblyModuleRecord.cpp` is the WebAssembly module record. Its `link()` and `evaluate()` instantiate a module.

Each model is checked with TLC. The properties are chosen for the hazards listed in `PROJECT.json`.

## 1. Inventory

### Components and their state

| Component | Source | State | Operations |
|---|---|---|---|
| Region Reservation Layer (`PageReservation`, `OSAllocator`) | `ExecutableAllocator.cpp:115-131` | reservations (base, length); committed pages | reserve, commit (`notifyNeedPage`), decommit (`notifyPageIsFree`), deallocate (destructor only) |
| Region Allocator (`DemandExecutableAllocator` over WTF `MetaAllocator`) | `ExecutableAllocator.cpp:54-147, 207-234` | free space, live handles, page occupancy map, `m_bytesAllocated`, `m_bytesCommitted`, the allocator lock | `allocate(size, owner, effort)`, `allocateNewSpace`, handle release, `isValidExecutableMemory` |
| Allocator Registry | `ExecutableAllocator.cpp:56-99, 135-146, 179-217` | `allocators()` set, `allocatorsMutex()` | register/unregister in the constructor/destructor, `bytesAllocatedByAllAllocators`, `bytesCommittedByAllocactors`, `underMemoryPressure`, `memoryPressureMultiplier`, `committedByteCount` |
| Module Linker | `WebAssemblyModuleRecord.cpp:85-195` | `m_instance`, `m_moduleEnvironment`, `m_startFunction` | `link(state, instance)` |
| Instance Evaluator | `WebAssemblyModuleRecord.cpp:203-281` | the instance's table slots and linear memory | `evaluate(state)`: element segments, data segments, start call |
| Module Descriptor (external) | decoder, not in this repository; `ModuleDescriptor.tla` from the spec | exports, start index, element/data segments, globals | none; read-only input |

`MetaAllocator`, `PageReservation`, the decoder, `JSWebAssemblyTable` and `WebAssemblyFunction` are outside this repository. Where the model needs their behaviour, it is modelled from `spec.md`, and those definitions are marked `spec_modelled` in `PROJECT.json`.

### How the components interact

- The JIT calls `ExecutableAllocator::allocate`, which forwards to the single process-wide `gAllocator`.
- `MetaAllocator::allocate` runs under the allocator's lock. When its free space cannot fit a request, it calls back `allocateNewSpace`.
- With `EXECUTABLE_MEMORY_LIMIT` defined, `allocateNewSpace` takes the registry mutex to sum `bytesAllocated()` over all allocators, while the allocator lock is still held.
- Occupancy changes call back `notifyNeedPage` and `notifyPageIsFree`, which commit and decommit pages.
- The registry queries (`committedByteCount`, `underMemoryPressure`, `memoryPressureMultiplier`) can run on any thread. They take only the registry mutex.
- Compiled code lives in handles. `link()` wraps the module's compiled functions (callees) in `WebAssemblyFunction` objects and builds the module environment. `evaluate()` fills the table and memory and calls the start function.

### What is hard

- **Concurrency in the allocator.** Several threads, one per VM, share `gAllocator`. Allocation and release are serialised by the allocator lock, but growth nests the registry mutex inside that lock. Registry readers hold the mutex while reading counters that other threads change under the allocator lock.
- **Page sharing.** Handles from different threads share pages. Commit and decommit must follow the page occupancy exactly.
- **Resource limits.** The address space can run out, and the optional limit is checked only on growth.
- **Instantiation order.** Exports are processed in declaration order and the start function is bound during that loop. Segments are applied in declaration order with early returns, which leave partial writes behind.
- **Integer widths.** The bounds arithmetic mixes uint32, uint64 and size_t, and is exercised at the edge of the uint32 range.
- **Object identity.** Wrappers are minted per use rather than cached.

### What makes each component correct

- **Allocator.** Live handles never overlap each other or free space. Free space plus live handles is exactly the reserved space. The counters equal what they count. The pages of live code are committed. Every call returns. Failure is soft unless the caller asked for must-succeed. The limit is respected.
- **Linker.** Each export gets the right value, including the numeric conversion of globals. The start wrapper is the exported one. Linking happens once. Wrapper identity is preserved.
- **Evaluator.** No write falls outside the table or memory. The result, success or which RangeError, and the final table and memory contents agree with the declarative semantics of segments. On failure, exactly the writes before the failing segment remain. The start function is called only after both phases succeed, and at most once.
- **Registry signals.** The pressure multiplier is at least 1, grows with usage and is infinite at the cap. `underMemoryPressure` agrees with it.

## 2. Modules

### `WebAssemblyModuleRecord.tla` (linker and evaluator)

The model follows one instance. Its module descriptor is chosen in `Init` by `ChooseDescriptor` (in `ModuleDescriptor.tla`) from the constants `ExportChoices`, `StartChoices`, `ElementChoices`, `DataChoices`, `TableSizes` and `MemorySizes`. The choice is restricted by `Validated`: the checks the decoder makes before these methods run. Validation accepts any function of the index space as the start function, an import included.

| Variable | Code |
|---|---|
| `wrappers` | every `WebAssemblyFunction::create`, in order; a wrapper is its position in the sequence |
| `env` | `m_moduleEnvironment` |
| `startFunction` | `m_startFunction` |
| `instance` | `m_instance` is set |
| `table` | the table's slots, over every uint32 index |
| `memory` | the linear memory; each byte records which segment byte was copied there |
| `error` | the RangeError thrown |
| `phase` | created, linked, evaluated, threw, or crashed (a `RELEASE_ASSERT` fired) |
| `startCalls` | calls of the start function |
| `evaluations` | `evaluate()` calls so far, bounded by the constant `MaxEvaluations` |
| `collected` | wrappers freed by a garbage collection |

Actions:

- `Link` is the whole of `link()`. It folds `LinkExport` over the export list, applies `CreateStartFunction`, then applies the one-shot `BindsInstance` check. A second `link()` call is allowed, and it crashes the way the code does.
- `Evaluate` is the whole of `evaluate()`. It folds `ApplyElement` with the inner loop `WriteElement`, then folds `ApplyData`, then calls the start function. The start call either returns or throws. `evaluate()` keeps no state of its own, so it is enabled on any linked instance, including one already evaluated. Only the caller's bound `MaxEvaluations` limits it: 1 in every run except `evaluate_twice`.
- `CollectGarbage` is a garbage collection between the methods. It frees every wrapper that is not marked. `VisitChildren` marks `m_startFunction`, as the record's `visitChildren` does. The base class marks the environment, and the instance marks the table's slots. `collected` holds the freed wrappers.
- `Finished` is the stuttering step after the process stops or `evaluate()` returns.

Widths: a uint32 is `Width` bits, and a uint64 or size_t is `2*Width` bits. `ElementLastIndex` is computed modulo 2^(2W) and the running table index modulo 2^W, as in the code.

### `ModuleDescriptor.tla` (the descriptor and the reference semantics)

The constants, the descriptor record, `Validated` and `ChooseDescriptor`, shared by the detailed and the abstract module. It also states the reference semantics of the segments, from the spec (4.5): `ElementValid`, `DataValid`, the first invalid segment, `AppliedElements` and `AppliedData` (the segments applied before it, plus the prefix of a failing element segment before its first import), `ExpectedError`, and `ReferenceSlot` and `ReferenceByte` (what the last covering segment wrote).

### `Instantiation.tla` (what linking and evaluation promise)

The abstract specification of one instance, from the spec (3, 4.4, 4.5). Functions are named by their index, not by a wrapper object.

- `Link` binds every export position to its entity (`Exported`) and records the start index, in one step from `created`.
- `LinkUnsupported` is the explicit error for a module that re-exports an import.
- `Relink` is the fault of linking twice.
- `Evaluate` takes a linked instance, in one step, to the reference table and memory and the expected error. Only when there is no error does it call the start function, which may trap.

`WebAssemblyModuleRecord` instantiates it as `Abstract`. The mapping names each wrapper by the function it wraps (`AbstractValue`, `start`, `slots`), keeps `memory`, and maps `startCalls > 0` to `started`. The wrapper sequence, `instance`, `evaluations` and `collected` are hidden. `ImplementsInstantiation == Abstract!Spec` is checked as a `PROPERTY`. Code `Link` is abstract `Link` (or `Relink` on a second call), and code `Evaluate` is abstract `Evaluate`. `CollectGarbage` and `Finished` are stutters. The abstract spec keeps the partial writes of a failed evaluation: the spec (4.5) says a failing segment returns early and says nothing of undoing earlier writes.

### `ExecutableAllocator.tla` (registry, allocator, reservations)

`gAllocator` is shared by the threads in `Threads`. Sizes are counted in granules, and a page is `PageSize` granules.

| Variable | Code |
|---|---|
| `free` | `MetaAllocator` free space |
| `handles` | live handles |
| `pageOccupancy` | `m_pageOccupancyMap` |
| `committed` | OS commit state |
| `reservations` | `reservations` vector |
| `bytesAllocated`, `bytesCommitted` | the counters |
| `lockOwner` | the allocator lock |
| `registryOwner` | `allocatorsMutex()` |
| `pc`, `request` | where each thread is in its call |
| `aborted` | which `RELEASE_ASSERT` stopped the process |
| `checked` | the address and answer of a caller's `isValidExecutableMemory` |

Each thread step ends where the code waits for a second lock:

- `AllocateFromFreeSpace` is one atomic step. It holds only the allocator lock, taken and released around the body.
- `AllocateNeedsNewSpace` takes the allocator lock.
- `LimitLock` takes the registry mutex, and `LimitCheck` reads the counter and decides. These two exist only with a limit.
- `Reserve` calls `PageReservation::reserve`. It aborts when the address space is exhausted; otherwise it places the handle and unlocks.
- `Release` is the last reference to a handle being dropped, on any thread.
- `QueryLock` and `QueryRead` are the registry queries.
- `ValidityCheck` is a caller, such as a signal handler, taking a `LockHolder` on `getLock()` and calling `isValidExecutableMemory`. `ValidityUnlock` drops the lock.
- `Init` is `initializeAllocator`. `NewAllocator` is the constructor's empty, registered allocator.

**Refinement.** `ExecutableMemory.tla` is the abstract allocator the spec describes in 4.2 and 3. It has a set of live handles and a byte count. `Allocate` atomically adds a range in the address space that aliases no live handle, and `Release` removes one. `Stop` is the process stopping. `ExecutableAllocator` instantiates it with `live <- handles`, `allocated <- bytesAllocated` and `stopped <- aborted # "none"`, leaving free space, reservations, pages, locks and threads hidden. `ImplementsExecutableMemory == Memory!Spec` is checked as a `PROPERTY`. `AllocateFromFreeSpace`, and `Reserve` on success, are abstract `Allocate` steps. `Release` is `Release`. The aborting steps are `Stop`. Every other step is a stutter.

### `MemoryPressure.tla` (registry signals)

`underMemoryPressure` and `memoryPressureMultiplier` are pure operators of the aggregate returned by `bytesAllocatedByAllAllocators()` (`total`) and of `addedMemoryUsage` (`added`). The state is one call, and every step is a new call with any inputs. size_t is `Width` bits. The sum is taken modulo 2^Width, as in the code. A double is an exact ratio, with denominator 0 for +infinity. The inputs are small integers that a double holds exactly, and one correctly rounded division is monotone, so the ordering of ratios is that of the doubles, except that rounding may turn a strict inequality into a tie. The spec gives no formula for the multiplier (4.3), so it is not checked against a reference.
### `NewSpaceRounding.tla` (the growth rounding)

`allocateNewSpace`'s page count, line 104, as an operator `NewNumPages(pageSize, numPages)` in size_t arithmetic of `Width` bits. Every `+` and `*` wraps. The state is one call: the OS page size, fixed for the process, and a page count `MetaAllocator::allocate` can pass (`RequestablePages`: its bytes fit in a size_t). `ReferencePages` is the rounding over unbounded integers: the fewest pages that hold the least multiple of the large allocation size covering the request.

`MetaAllocator`'s placement policy is abstracted to any run at either end of a free chunk. This allows more placements than the real best-fit policy, so the safety results carry over to it.

## 3. Runs

| Run | cfg | Expect | What it shows |
|---|---|---|---|
| link | `MCLink.cfg` | pass | Covers export lists of up to 2 entries over the local functions, the table, the memory and 2 globals, no start function or a local one (1 or 2; the imported start is the `imported_start` run), and one element and one data segment that are valid, out of bounds, or name an import (9.7k states). The start wrapper is the exported wrapper of the start function. `TypeOK` is the type invariant. It types a global's export as a JS number, which is what `ToJSValue` yields. Whether the JSValue encodes the number as an int32 or a double is not observable to script, and the model does not keep it. `link()` and `evaluate()`, with collections between them and a second `link()`, implement `Instantiation` (`ImplementsInstantiation`). |
| evaluate | `MCEvaluate.cfg` | pass | Covers up to 2 element segments (offsets 0, 2, 3; 0 to 2 indices, with an import among them) and up to 2 data segments (offsets 0, 2, 3; sizes 0, 1, 3), with tables of size 1 or 3 and memories of size 2 or 3: about 259k descriptors and 1.04M states. No write falls outside the table or memory. The outcome and contents match the reference semantics `SegmentsAppliedAsDeclared`. After a RangeError, this includes the partial writes the segments before the failing one left. |
| wrapper_identity | `MCWrapperIdentity.cfg` | violation | Two exports of one function get two different wrappers. |
| reexport_import | `MCReexport.cfg` | violation | Re-exporting an import aborts the process. |
| imported_start | `MCImportedStart.cfg` | violation | A start function that is an import gets a fresh wrapper from `link()`. |
| evaluate_twice | `MCEvaluateTwice.cfg` | violation | A second `evaluate()` runs the start function again. |
| allocator | `MCAllocator.cfg` | pass | 3 threads, up to symmetry. Sizes are 1 and 3 granules, pages 2 granules, the large allocation 4 granules and the address space 8 granules. There is no limit (the default build), and a validity caller probes granule 2 (123k states). Free space and handles partition the reservations. The committed pages are exactly the live pages. An `isValidExecutableMemory` answer stays true while its caller holds the lock. |
| allocator_limit_progress | `MCAllocatorLimit.cfg` | pass | 2 threads, the same bounds, and a limit of 3 granules (56k states). Every started call returns, under the fairness below. The allocator implements `ExecutableMemory` (`ImplementsExecutableMemory`). |
| allocator_reservation_abort | `MCAllocatorAbort.cfg` | violation | A may-fail allocation aborts the process when the address space is exhausted. |
| allocator_cap | `MCAllocatorCap.cfg` | violation | Allocation from free space goes past the limit. |
| memory_pressure | `MCAllocatorArithmetic.cfg` | pass | Two pure computations in one run (48.6k states); a step is a call of either. First, `MemoryPressure`: every aggregate of a 4-bit size_t, evaluated in two builds, one with the odd limit 7 (where `LIMIT / 2` rounds down) and one with the even limit 8. In both, `underMemoryPressure` holds exactly when the multiplier at 0 exceeds 2. Second, `NewSpaceRounding`: every requestable page count of an 8-bit size_t with 2- and 4-byte pages. Wherever the rounded reservation fits, the page count is the reference count. |
| new_space_overflow | `MCNewSpaceOverflow.cfg` | violation | Near the top of the size_t range the rounding wraps, and `ASSERT(newNumPages >= numPages)` fails. |

**Why the bounds suffice.** With `Width = 2`, uint32 indices are 0..3. An offset of 3 with 2 entries therefore crosses 2^W, which is the edge where widening matters. Data sizes include 0 (the skip), sizes that fit, and 3, which is bigger than some memories (the too-big check). Offsets include 3, which is past the end of a size-2 memory.

In the allocator model, a 1-granule request reserves 4 granules, so later requests are served from free space. A 3-granule request spans two pages and shares a page with a neighbour. The 8-granule address space is exhausted by a third growth, and the limit of 3 is reached after the first. The probe at granule 2 lies on the second page. That page is free after a 1-granule handle at 0 and occupied after a 3-granule one, so the validity answer can change whenever the lock is not held. The runs that check liveness and the two violations probe nothing: a validity caller holds one lock and waits for nothing, so it cannot take part in a lock-order cycle, and it only adds states.

The `allocator` run has three threads and uses `SYMMETRY ThreadSymmetry`. This is sound because threads are model values that no action or invariant names, and the run checks only invariants. The liveness run keeps two threads and no symmetry. An address space of 12 granules, room for one growth per thread, takes more than 8 minutes, so the runs keep 8. The limited build reaches the same growth and release states as the default build until the limit refuses growth. Releases lower the count again, so the second reservation and address-space exhaustion are reached there too.

For the `link` run, the table and memory have size 3, so the segment at offset 3 is out of bounds and the one at offset 0 fits. The element segment `<<2, 0>>` names an import after a valid index, so a partial write happens before the error.

In `NewSpaceRounding`, an 8-bit size_t with a 4-page large allocation puts the wrap within reach: every page count whose bytes are within 15 (or 7) of 255 wraps. The reference comparison is checked on every count below that band.

In `MemoryPressure`, a limit of 7 in a 4-bit size_t makes `LIMIT / 2` round down. The sum can fall below the cap, reach it exactly, pass it, or wrap.

**Fairness** (`ExecutableAllocator`):

- A thread inside a call keeps running, so `Reserve` and `ValidityUnlock` are weakly fair.
- The steps that take a contended lock or mutex (`LimitLock`), or that run while holding the mutex (`LimitCheck`, `QueryRead`), are strongly fair. WTF locks hand over eventually, so a waiting thread is not starved forever.
- Starting a call is not fair: no thread is obliged to allocate.

`CHECK_DEADLOCK FALSE` is set only in the allocator configs. There the process really stops when a `RELEASE_ASSERT` fires; in every other state a thread can still start a call.

## 4. Findings

The seven violation runs each record a disagreement between the code and `spec.md`, or between the code and its own assertion:

1. The code mints a fresh wrapper per export and per table slot (`WebAssemblyModuleRecord.cpp:123`, `:244`), against the identity rule.
2. Re-exporting an import aborts the process (`:114`) instead of raising an unsupported-feature error.
3. `RELEASE_ASSERT(reservation)` (`ExecutableAllocator.cpp:116`) makes address-space exhaustion fatal.
4. The memory limit is checked only on growth (`ExecutableAllocator.cpp:111`).
5. `evaluate()` has no one-shot guard (`WebAssemblyModuleRecord.cpp:203`). A second call re-applies the segments and runs the start function again, although the spec says a guard forbids it.
6. The start function's wrapper is created without checking its index against `importCount` (`WebAssemblyModuleRecord.cpp:185`). An imported start function gets a fresh wrapper. The spec says imports keep their wrapper, and the code itself refuses the same case for exports and table slots.
7. The growth rounding in `allocateNewSpace` wraps in size_t (`ExecutableAllocator.cpp:104`). For a request within one large allocation unit of SIZE_MAX it yields fewer pages than requested, so `ASSERT(newNumPages >= numPages)` fails. Only such huge requests reach it.

## 5. Not modelled, and why

- **Unreachable teardown.** The destructor's release of reservations and its unregistration never run, because `gAllocator` is never destroyed.
- **Initialisation order.** The models start with one allocator that is already initialised and registered. `initializeAllocator` (`ExecutableAllocator.cpp:159`) guards a second call only with a debug `ASSERT`. If it were called twice, the first allocator would stay registered and keep counting toward the limit. JSC's process start-up, which is outside the repository, decides how often it is called, so this is not a hazard of this code.
- **Handle reference counts.** A handle is a `RefPtr`, and `RefPtr` is outside the repository. `Release` is the drop of the last reference, which is the only drop that changes allocator state. Modelling the holders in between would add a counter per handle and multiply the states without adding a step the allocator sees.
- **Signal handlers on a thread that holds the lock.** The spec (5) says crash and signal handlers call `isValidExecutableMemory`, and a caller of it must hold `getLock()`. A handler that interrupts its own thread inside `allocate` waits forever, because `Lock` is not recursive. The model's callers are threads between allocator calls. Whether a handler can interrupt such a thread depends on the embedder, so this is a hazard with a note and not a run.
- **A collection inside `link()`.** Each `WebAssemblyFunction::create` can collect. The wrappers created before it are then reachable only from the stack, until line 194 stores the environment. They survive through JSC's conservative stack scan, which is outside the repository. The `Collect` step therefore runs only between calls.
- **`MetaAllocator` internals.** Handle shrinking, the profiling dump (`META_ALLOCATOR_PROFILE`) and the tracker are not modelled.
- **Byte contents.** Memory bytes are abstracted to (segment, position) pairs; the values are not modelled.
- **Start function effects.** The start function's own effects are out of scope; only its return or throw is modelled.
- **`evaluate()` before `link()`.** This dereferences a null `m_instance`, which is a crash outside any `RELEASE_ASSERT`. The model does not enable it. Repeated calls after `link()` are modelled.
- **Page-granular validity.** `isInAllocatedMemory` (in `MetaAllocator`) answers for the address's page. An address in free space on a page shared with a live handle therefore counts as valid. The model keeps that answer and checks only that it is current under the lock.
- **`ExecutableAllocator(VM&)` and `isValid()`.** These only assert or return `true`. They change no state.
- **Composition of the allocator and the linker.** The code of this repository never connects them. The callees `link()` wraps come from `JSWebAssemblyModule`, and the handles behind them are held by compiler code; both are outside the repository. A composed module would be modelled entirely from the spec, so it is left out.
- **Monotonicity of the multiplier under wraparound.** `memoryPressureMultiplier` adds `addedMemoryUsage` in size_t without a check (`ExecutableAllocator.cpp:192`). When the sum wraps, a larger argument gives a smaller multiplier, against the spec's monotonicity (4.3, 8). With a 64-bit size_t only arguments near 2^64 reach this. An earlier sitting checked it as a violation run. Within the budget of runs it is now only a hazard in `PROJECT.json`. The spec gives no formula for the multiplier, so no reference check stands in for it either.
- **The decoder.** Validation is the predicate `Validated`, not the parser's steps.

## 6. Plan

Done in this sitting, in order of importance:

1. `WebAssemblyModuleRecord`: `link` and `evaluate`, with the bounds, reference-semantics, start-wrapper and one-shot properties.
2. `ExecutableAllocator`: the shared allocator under two threads, with the partition, counter, commit and lock-progress properties.
3. Four violation runs for the spec divergences.

Done in the second sitting:

4. `MemoryPressure.tla`. Its check against a reference multiplier was removed later, because the reference was the code's own formula. The monotonicity violation on wraparound was a finding; it is now a hazard (section 5).
5. `ExecutableMemory.tla`, and the refinement `ImplementsExecutableMemory`.
6. (in part) `getLock` and `isValidExecutableMemory`, with `ValidityAnswerCurrent`.
7. `evaluate()` repeated, as the `evaluate_twice` finding. The partial writes on failure are now part of `SegmentsAppliedAsDeclared`.

Done in the third sitting:

9. `Instantiation.tla` and `ImplementsInstantiation`. `ModuleDescriptor.tla` now holds the shared descriptor and reference semantics. The spec does not ask for rollback, so the refinement holds with the partial writes.
11. The imported start function (finding 7). Validation no longer excludes it.
12. `NewSpaceRounding.tla`: the size_t rounding, checked against a reference, and the overflow (finding 8).
13. The allocator's safety run now has three threads. The refinement runs were merged into the `link` and `allocator_limit_progress` runs.

Done in the fourth sitting: the caller-dependent cases of section 5. Item 8 was weighed and dropped, see section 5.

Done in the fifth sitting, after a review against the source:

- Four properties were removed because each restated a single line or a spec-modelled definition. `StartFunctionLive` restated line 82, `EnvironmentBoundOnce` restated line 192, `CountersMatchHandles` restated the `MetaAllocator` bookkeeping, and `MultiplierMatchesReference` compared the code's formula with itself.
- The hazards those properties alone stood for were removed, or keep a note.
- A global's export is now a JS number, without an int32/double tag the code does not fix.
- `PressureSignalsAgree` now also runs with an even limit.

Dropped:

8. Reference counting of handles, see section 5.
10. A composed module of the allocator and the linker, see section 5.

What is left of the code is outside TLC's reach or outside the repository: the caller-dependent hazards and the items listed in section 5. The components marked partly modelled stay partly modelled for those reasons.
