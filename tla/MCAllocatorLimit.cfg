\* A build with EXECUTABLE_MEMORY_LIMIT defined.
CONSTANTS
    Threads = {t1, t2}
    NoThread = NoThread
    Sizes <- MCSizes
    PageSize <- MCPageSize
    LargeAllocSize <- MCLargeAllocSize
    AddressSpace <- MCAddressSpace
    Limit <- MCLimit
    NoLimit = NoLimit
    Probes <- MCNoProbes

SPECIFICATION Spec

\* The process stops when a RELEASE_ASSERT fires.
CHECK_DEADLOCK FALSE

PROPERTY CallsReturn
PROPERTY ImplementsExecutableMemory
