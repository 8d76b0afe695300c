\* The default build (EXECUTABLE_MEMORY_LIMIT is not defined), with three
\* threads: two can race to grow or release while a third holds the
\* allocator lock for an isValidExecutableMemory check.
CONSTANTS
    Threads = {t1, t2, t3}
    NoThread = NoThread
    Sizes <- MCSizes
    PageSize <- MCPageSize
    LargeAllocSize <- MCLargeAllocSize
    AddressSpace <- MCAddressSpace
    Limit = NoLimit
    NoLimit = NoLimit
    Probes <- MCProbes

SPECIFICATION Spec

\* Threads are interchangeable, and every property checked here is an invariant.
SYMMETRY ThreadSymmetry

\* The process stops when a RELEASE_ASSERT fires.
CHECK_DEADLOCK FALSE

INVARIANT TypeOK
INVARIANT ReservedSpacePartitioned
INVARIANT LiveCodeIsCommitted
INVARIANT ValidityAnswerCurrent
