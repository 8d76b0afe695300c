\* The default build: EXECUTABLE_MEMORY_LIMIT is not defined.
CONSTANTS
    Threads = {t1, t2}
    NoThread = NoThread
    Sizes <- MCSizes
    PageSize <- MCPageSize
    LargeAllocSize <- MCLargeAllocSize
    AddressSpace <- MCAddressSpace
    Limit = NoLimit
    NoLimit = NoLimit
    Probes <- MCNoProbes

SPECIFICATION Spec

\* The process stops when a RELEASE_ASSERT fires.
CHECK_DEADLOCK FALSE

INVARIANT AllocationFailureIsSoft
