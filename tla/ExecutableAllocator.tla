------------------------- MODULE ExecutableAllocator -------------------------
(***************************************************************************)
(* The demand executable allocator of src/jit/ExecutableAllocator.cpp: one *)
(* process-wide DemandExecutableAllocator (gAllocator, registered in the   *)
(* allocators() set at construction) shared by every thread that compiles *)
(* code.  Its base class MetaAllocator (not in this repository, modelled   *)
(* from the specification) serialises allocate and release on the          *)
(* allocator's lock, sub-allocates free space, and calls back              *)
(* allocateNewSpace, notifyNeedPage and notifyPageIsFree, which are        *)
(* modelled from the source.                                               *)
(*                                                                         *)
(* Sizes are counted in allocation granules (jitAllocationGranule bytes);  *)
(* a page is PageSize granules.  A thread's steps are split where it waits *)
(* for a second lock: the allocator lock (lockOwner) is held across        *)
(* allocateNewSpace, which takes the registry mutex (registryOwner) for    *)
(* the EXECUTABLE_MEMORY_LIMIT check; the registry queries hold the mutex  *)
(* while they read the counters of every registered allocator.            *)
(***************************************************************************)
EXTENDS Integers, Sequences, FiniteSetsExt

CONSTANTS
    Threads,        \* threads calling into the allocator
    NoThread,       \* owner of a free lock
    Sizes,          \* requested sizes, in granules (already rounded to the granule)
    PageSize,       \* pageSize(), in granules
    LargeAllocSize, \* JIT_ALLOCATOR_LARGE_ALLOC_SIZE, in granules
    AddressSpace,   \* granules of address space PageReservation::reserve can hand out
    Limit,          \* EXECUTABLE_MEMORY_LIMIT in granules, or NoLimit when not defined
    NoLimit,
    Probes          \* code addresses a caller asks isValidExecutableMemory about

Efforts == {"MustSucceed", "MayFail"}      \* JITCompilationEffort
Granules == 0 .. AddressSpace - 1
Pages == 0 .. (AddressSpace \div PageSize) - 1

ASSUME /\ NoThread \notin Threads
       /\ Sizes \subseteq Nat \ {0}
       /\ PageSize \in Nat \ {0}
       /\ LargeAllocSize % PageSize = 0
       /\ AddressSpace % PageSize = 0
       /\ Limit \in Nat \cup {NoLimit}
       /\ Probes \subseteq Granules

VARIABLES
    pc,             \* pc[t]: where thread t is in its call
    request,        \* request[t]: [size, effort] of t's allocate call in progress
    lockOwner,      \* gAllocator->getLock(): the MetaAllocator lock
    registryOwner,  \* allocatorsMutex()
    free,           \* granules in the MetaAllocator's free space
    handles,        \* live ExecutableMemoryHandles, as [start, size]
    pageOccupancy,  \* m_pageOccupancyMap: live handles touching each page
    committed,      \* pages committed at the OS (OSAllocator::commit / decommit)
    reservations,   \* reservations: the PageReservations, as [base, pages]
    bytesAllocated, \* m_bytesAllocated
    bytesCommitted, \* m_bytesCommitted
    aborted,        \* "none", or the RELEASE_ASSERT that stopped the process
    checked         \* checked[t]: [address, valid] of t's last isValidExecutableMemory

vars == <<pc, request, lockOwner, registryOwner, free, handles, pageOccupancy,
          committed, reservations, bytesAllocated, bytesCommitted, aborted, checked>>

Run(a, n) == a .. a + n - 1

-----------------------------------------------------------------------------
(* MetaAllocator bookkeeping (modelled from the specification).            *)

(* The pages a range touches: firstPage .. lastPage. *)
PagesOf(a, n) == (a \div PageSize) .. ((a + n - 1) \div PageSize)

(* findAndRemoveFreeSpace: a run of n free granules at one end of a free   *)
(* chunk.  The best-fit and left/right placement policy is abstracted to   *)
(* any such run.                                                           *)
FreeRuns(n) ==
    {a \in Granules : Run(a, n) \subseteq free
                      /\ ((a - 1) \notin free \/ (a + n) \notin free)}

(* notifyNeedPage(page): OSAllocator::commit of each page. *)
NotifyNeedPage(needed) == committed \cup needed

(* Mutant: the pages of the whole released range are decommitted. *)
NotifyPageIsFreeRange(freed, h) == committed \ PagesOf(h.start, h.size)

(* notifyPageIsFree(page): OSAllocator::decommit of each page freed by h. *)
NotifyPageIsFree(freed, h) == committed \ freed

(* The tail of MetaAllocator::allocate at start a: incrementPageOccupancy, *)
(* which calls notifyNeedPage for every page it takes from 0 to 1, then    *)
(* m_bytesAllocated += sizeInBytes and a new handle.                       *)
TakeRange(a, n) ==
    LET needed == {p \in PagesOf(a, n) : pageOccupancy[p] = 0}
    IN  /\ handles' = handles \cup {[start |-> a, size |-> n]}
        /\ pageOccupancy' = [p \in Pages |->
                               IF p \in PagesOf(a, n) THEN pageOccupancy[p] + 1
                               ELSE pageOccupancy[p]]
        /\ bytesCommitted' = bytesCommitted + PageSize * Cardinality(needed)
        /\ committed' = NotifyNeedPage(needed)
        /\ bytesAllocated' = bytesAllocated + n

-----------------------------------------------------------------------------
(* Mutant: the byte count is rounded down to the large allocation size. *)
NewSpacePagesRoundedDown(numPages) ==
    ((((numPages * PageSize) \div LargeAllocSize) * LargeAllocSize)
        + PageSize - 1) \div PageSize

(* DemandExecutableAllocator::allocateNewSpace: the page count rounded up  *)
(* to the large allocation size.                                           *)
NewSpacePages(numPages) ==
    ((((numPages * PageSize + LargeAllocSize - 1) \div LargeAllocSize) * LargeAllocSize)
        + PageSize - 1) \div PageSize

(* requestedNumberOfPages of MetaAllocator::allocate *)
RequestedPages(n) == (n + PageSize - 1) \div PageSize

ReservedEnd ==
    LET RECURSIVE end(_)
        end(i) == IF i = 0 THEN 0
                  ELSE end(i - 1) + reservations[i].pages * PageSize
    IN  end(Len(reservations))

(* MetaAllocator::allocate after allocateNewSpace: addFreeSpace(start +    *)
(* sizeInBytes, roundedUpSize - sizeInBytes).                              *)
NewSpaceFree(base, pages, n) == Run(base, pages * PageSize) \ Run(base, n)

Idle(t) == pc[t] = "idle"

(* ExecutableAllocator::allocate when the free space has a fitting run:    *)
(* MetaAllocator::allocate takes the lock, finds the run, takes it and     *)
(* unlocks; the result is non-null so the effort assertion holds.          *)
AllocateFromFreeSpace(t, n) ==
    /\ aborted = "none" /\ Idle(t) /\ lockOwner = NoThread
    /\ \E a \in FreeRuns(n) :
          /\ TakeRange(a, n)
          /\ free' = free \ Run(a, n)
    /\ UNCHANGED <<checked, pc, request, lockOwner, registryOwner, reservations, aborted>>

(* ExecutableAllocator::allocate when no run fits: MetaAllocator::allocate *)
(* takes the lock and calls allocateNewSpace, which (with a limit) first   *)
(* asks the registry for the bytes allocated by all allocators.            *)
AllocateNeedsNewSpace(t, n, effort) ==
    /\ aborted = "none" /\ Idle(t) /\ lockOwner = NoThread
    /\ FreeRuns(n) = {}
    /\ lockOwner' = t
    /\ request' = [request EXCEPT ![t] = [size |-> n, effort |-> effort]]
    /\ pc' = [pc EXCEPT ![t] = IF Limit = NoLimit THEN "reserve" ELSE "limitLock"]
    /\ UNCHANGED <<checked, registryOwner, free, handles, pageOccupancy, committed,
                   reservations, bytesAllocated, bytesCommitted, aborted>>

(* bytesAllocatedByAllAllocators(): lock allocatorsMutex(). *)
LimitLock(t) ==
    /\ aborted = "none" /\ pc[t] = "limitLock" /\ registryOwner = NoThread
    /\ registryOwner' = t
    /\ pc' = [pc EXCEPT ![t] = "limitCheck"]
    /\ UNCHANGED <<checked, request, lockOwner, free, handles, pageOccupancy, committed,
                   reservations, bytesAllocated, bytesCommitted, aborted>>

(* Mutant: the counter accessor takes the allocator's lock. *)
ReadAllocatorCounterLocked(t) ==
    registryOwner = t /\ lockOwner \in {NoThread, t}

(* Reading allocator->bytesAllocated() or bytesCommitted() of the one     *)
(* registered allocator while holding the registry mutex: MetaAllocator's  *)
(* accessors read the counter without taking the allocator's lock.         *)
ReadAllocatorCounter(t) == registryOwner = t

(* The limit check: if bytesAllocatedByAllAllocators() >= limit,           *)
(* allocateNewSpace returns 0, MetaAllocator::allocate unlocks and returns *)
(* null, and ExecutableAllocator::allocate's RELEASE_ASSERT(result ||      *)
(* effort != JITCompilationMustSucceed) aborts a must-succeed call.        *)
LimitCheck(t) ==
    /\ aborted = "none" /\ pc[t] = "limitCheck" /\ ReadAllocatorCounter(t)
    /\ registryOwner' = NoThread
    /\ IF bytesAllocated >= Limit
       THEN /\ lockOwner' = NoThread
            /\ pc' = [pc EXCEPT ![t] = "idle"]
            /\ aborted' = IF request[t].effort = "MustSucceed"
                          THEN "MustSucceed" ELSE "none"
       ELSE /\ pc' = [pc EXCEPT ![t] = "reserve"]
            /\ UNCHANGED <<lockOwner, aborted>>
    /\ UNCHANGED <<checked, request, free, handles, pageOccupancy, committed,
                   reservations, bytesAllocated, bytesCommitted>>

(* PageReservation::reserve of the rounded page count; RELEASE_ASSERT(     *)
(* reservation) aborts when the address space is exhausted.  Otherwise the *)
(* reservation is appended and MetaAllocator::allocate places the handle   *)
(* at its base, adds the rest to the free space and unlocks.               *)
Reserve(t) ==
    /\ aborted = "none" /\ pc[t] = "reserve"
    /\ LET n == request[t].size
           pages == NewSpacePages(RequestedPages(n))
           base == ReservedEnd
       IN  IF base + pages * PageSize > AddressSpace
           THEN /\ aborted' = "Reservation"
                /\ UNCHANGED <<pc, lockOwner, free, handles, pageOccupancy,
                               committed, reservations, bytesAllocated, bytesCommitted>>
           ELSE /\ reservations' = Append(reservations, [base |-> base, pages |-> pages])
                /\ free' = free \cup NewSpaceFree(base, pages, n)
                /\ TakeRange(base, n)
                /\ lockOwner' = NoThread
                /\ pc' = [pc EXCEPT ![t] = "idle"]
                /\ UNCHANGED aborted
    /\ UNCHANGED <<checked, request, registryOwner>>

(* decrementPageOccupancy: the pages whose count goes from 1 to 0. *)
PagesFreedBy(h) == {p \in PagesOf(h.start, h.size) : pageOccupancy[p] = 1}

(* Mutant: the released size is subtracted twice. *)
ReturnRangeCountsTwice(h) ==
    /\ free' = free \cup Run(h.start, h.size)
    /\ bytesAllocated' = bytesAllocated - 2 * h.size

(* addFreeSpaceFromReleasedHandle: m_bytesAllocated -= sizeInBytes, then    *)
(* addFreeSpace.                                                            *)
ReturnRange(h) ==
    /\ free' = free \cup Run(h.start, h.size)
    /\ bytesAllocated' = bytesAllocated - h.size

(* The last reference to a handle drops (on any thread): MetaAllocator::   *)
(* release takes the lock, decrementPageOccupancy calls notifyPageIsFree   *)
(* for every page it takes from 1 to 0, and the range and its bytes return *)
(* to the free space.                                                      *)
Release(t, h) ==
    /\ aborted = "none" /\ Idle(t) /\ lockOwner = NoThread
    /\ LET freed == PagesFreedBy(h)
       IN  /\ handles' = handles \ {h}
           /\ pageOccupancy' = [p \in Pages |->
                                  IF p \in PagesOf(h.start, h.size)
                                  THEN pageOccupancy[p] - 1 ELSE pageOccupancy[p]]
           /\ bytesCommitted' = bytesCommitted - PageSize * Cardinality(freed)
           /\ committed' = NotifyPageIsFree(freed, h)
           /\ ReturnRange(h)
    /\ UNCHANGED <<checked, pc, request, lockOwner, registryOwner, reservations, aborted>>

(* committedByteCount() / underMemoryPressure() / memoryPressureMultiplier: *)
(* the registry query locks allocatorsMutex() ...                          *)
QueryLock(t) ==
    /\ aborted = "none" /\ Idle(t) /\ registryOwner = NoThread
    /\ registryOwner' = t
    /\ pc' = [pc EXCEPT ![t] = "query"]
    /\ UNCHANGED <<checked, request, lockOwner, free, handles, pageOccupancy, committed,
                   reservations, bytesAllocated, bytesCommitted, aborted>>

(* ... sums the counter of every registered allocator and unlocks. *)
QueryRead(t) ==
    /\ aborted = "none" /\ pc[t] = "query" /\ ReadAllocatorCounter(t)
    /\ registryOwner' = NoThread
    /\ pc' = [pc EXCEPT ![t] = "idle"]
    /\ UNCHANGED <<checked, request, lockOwner, free, handles, pageOccupancy, committed,
                   reservations, bytesAllocated, bytesCommitted, aborted>>

(* Mutant: the LockHolder does not hold the allocator's lock. *)
GetLockNotHeld(t) == lockOwner' = lockOwner

(* ExecutableAllocator::getLock(): the caller's LockHolder takes           *)
(* gAllocator->getLock().                                                  *)
GetLock(t) == lockOwner' = t

(* isValidExecutableMemory(locker, address): gAllocator->                 *)
(* isInAllocatedMemory, which (MetaAllocator, from the specification)      *)
(* asks whether the address's page is occupied by a live handle.           *)
IsValidExecutableMemory(a) == pageOccupancy[a \div PageSize] > 0

NoCheck == [address |-> 0, valid |-> FALSE]

(* A caller (a signal handler checking a code pointer) holds a LockHolder *)
(* on getLock() and asks isValidExecutableMemory(locker, address).        *)
ValidityCheck(t, a) ==
    /\ aborted = "none" /\ Idle(t) /\ lockOwner = NoThread
    /\ GetLock(t)
    /\ checked' = [checked EXCEPT ![t] = [address |-> a, valid |-> IsValidExecutableMemory(a)]]
    /\ pc' = [pc EXCEPT ![t] = "locked"]
    /\ UNCHANGED <<request, registryOwner, free, handles, pageOccupancy, committed,
                   reservations, bytesAllocated, bytesCommitted, aborted>>

(* ... uses the answer and destroys the LockHolder; the answer goes out of *)
(* scope with it.                                                          *)
ValidityUnlock(t) ==
    /\ aborted = "none" /\ pc[t] = "locked"
    /\ lockOwner' = NoThread
    /\ pc' = [pc EXCEPT ![t] = "idle"]
    /\ checked' = [checked EXCEPT ![t] = NoCheck]
    /\ UNCHANGED <<request, registryOwner, free, handles, pageOccupancy,
                   committed, reservations, bytesAllocated, bytesCommitted, aborted>>

(* The DemandExecutableAllocator constructor: registered in allocators()  *)
(* under allocatorsMutex(), with no reservation ("Don't preallocate any    *)
(* memory here"), no free space, no handles and zero counters.             *)
NewAllocator ==
    /\ free = {}
    /\ handles = {}
    /\ pageOccupancy = [p \in Pages |-> 0]
    /\ committed = {}
    /\ reservations = <<>>
    /\ bytesAllocated = 0
    /\ bytesCommitted = 0

(* ExecutableAllocator::initializeAllocator: gAllocator is created before  *)
(* any thread uses it; every thread is outside the allocator and no lock   *)
(* is held.                                                                *)
Init ==
    /\ NewAllocator
    /\ pc = [t \in Threads |-> "idle"]
    /\ request = [t \in Threads |-> [size |-> 0, effort |-> "MayFail"]]
    /\ lockOwner = NoThread
    /\ registryOwner = NoThread
    /\ aborted = "none"
    /\ checked = [t \in Threads |-> NoCheck]

Next ==
    \E t \in Threads :
        \/ \E n \in Sizes : AllocateFromFreeSpace(t, n)
        \/ \E n \in Sizes, e \in Efforts : AllocateNeedsNewSpace(t, n, e)
        \/ LimitLock(t)
        \/ LimitCheck(t)
        \/ Reserve(t)
        \/ \E h \in handles : Release(t, h)
        \/ QueryLock(t)
        \/ QueryRead(t)
        \/ \E a \in Probes : ValidityCheck(t, a)
        \/ ValidityUnlock(t)

(* A thread inside a call keeps running: the steps after a lock is taken   *)
(* are weakly fair; taking a contended lock is strongly fair, as WTF::Lock *)
(* eventually hands the lock to a waiting thread.  Starting a call is not  *)
(* fair: no thread has to allocate or query.                               *)
Fairness ==
    \A t \in Threads :
        /\ SF_vars(LimitLock(t))
        /\ SF_vars(LimitCheck(t))
        /\ WF_vars(Reserve(t))
        /\ SF_vars(QueryRead(t))
        /\ WF_vars(ValidityUnlock(t))

Spec == Init /\ [][Next]_vars /\ Fairness

-----------------------------------------------------------------------------
(* Properties *)

Reserved == UNION {Run(reservations[i].base, reservations[i].pages * PageSize) :
                       i \in DOMAIN reservations}
HandleRange(h) == Run(h.start, h.size)
LivePages == UNION {PagesOf(h.start, h.size) : h \in handles}

TypeOK ==
    /\ pc \in [Threads -> {"idle", "limitLock", "limitCheck", "reserve", "query", "locked"}]
    /\ request \in [Threads -> [size : Sizes \cup {0}, effort : Efforts]]
    /\ lockOwner \in Threads \cup {NoThread}
    /\ registryOwner \in Threads \cup {NoThread}
    /\ free \subseteq Granules
    /\ handles \subseteq [start : Granules, size : Sizes]
    /\ pageOccupancy \in [Pages -> Nat]
    /\ committed \subseteq Pages
    /\ bytesAllocated \in Nat
    /\ bytesCommitted \in Nat
    /\ aborted \in {"none", "MustSucceed", "Reservation"}
    /\ checked \in [Threads -> [address : Granules, valid : BOOLEAN]]

(* The free space and the live handles partition the reserved address      *)
(* space: no two live handles overlap, no live handle overlaps free space  *)
(* (so no later allocation can be placed over live code), and no reserved  *)
(* granule is lost, across any interleaving of allocations that grow the   *)
(* allocator, allocations from free space and releases on any thread.     *)
ReservedSpacePartitioned ==
    /\ free \cup UNION {HandleRange(h) : h \in handles} = Reserved
    /\ \A h \in handles : HandleRange(h) \cap free = {}
    /\ \A h1, h2 \in handles : h1 # h2 => HandleRange(h1) \cap HandleRange(h2) = {}

(* The pages committed at the OS (notifyNeedPage / notifyPageIsFree) are   *)
(* exactly the pages live handles touch: code in a live handle is never    *)
(* decommitted when a neighbour sharing its page is released, and a page   *)
(* no handle uses is given back.                                           *)
LiveCodeIsCommitted ==
    committed = LivePages

(* While a caller still holds the LockHolder it passed to                   *)
(* isValidExecutableMemory, the answer it got is still true: the address  *)
(* lies on a page of a live handle exactly when the answer said so, since *)
(* no release or allocation on another thread can run in between.  This   *)
(* is what a signal handler relies on when it inspects the code it found. *)
ValidityAnswerCurrent ==
    \A t \in Threads :
        pc[t] = "locked" => checked[t].valid = (checked[t].address \div PageSize \in LivePages)

(* The allocator implements the abstract executable memory of             *)
(* ExecutableMemory: each successful allocate, from free space or after    *)
(* growing, is one atomic allocation of a range inside the address space   *)
(* that aliases no live handle and adds exactly its size to               *)
(* m_bytesAllocated; each release gives back exactly one live handle and   *)
(* its bytes; every other step (taking and dropping the locks, the limit   *)
(* check, the registry queries, a failed call) changes none of these.      *)
Memory == INSTANCE ExecutableMemory
              WITH Space <- Granules, live <- handles, allocated <- bytesAllocated,
                   stopped <- (aborted # "none")

ImplementsExecutableMemory == Memory!Spec

(* Every allocator call a thread has started returns (or the process      *)
(* aborts): the allocator lock held across allocateNewSpace and the       *)
(* registry mutex held across the counter sum never wait on each other.   *)
CallsReturn ==
    \A t \in Threads : pc[t] # "idle" ~> (pc[t] = "idle" \/ aborted # "none")

(* The specification (4.2, 7): allocation failure is soft, so an allocate  *)
(* call that is not JITCompilationMustSucceed never aborts the process.    *)
AllocationFailureIsSoft ==
    aborted \in {"none", "MustSucceed"}

(* The specification (8): once the bytes allocated reach the configured    *)
(* limit, every allocate call fails, so no step increases them.            *)
CapStopsAllocation ==
    [][Limit # NoLimit /\ bytesAllocated >= Limit => bytesAllocated' <= bytesAllocated]_vars

=============================================================================
