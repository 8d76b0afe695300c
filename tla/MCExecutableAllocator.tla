----------------------- MODULE MCExecutableAllocator -----------------------
(***************************************************************************)
(* Instantiations of ExecutableAllocator for TLC.  A page is 2 granules    *)
(* and the large allocation size 2 pages, so a request of 1 granule        *)
(* reserves 4 granules and leaves 3 free, and a request of 3 granules      *)
(* spans two pages and shares its second page with the next allocation.   *)
(* The address space holds two such reservations.                         *)
(***************************************************************************)
EXTENDS ExecutableAllocator, TLC

MCSizes == {1, 3}
MCPageSize == 2
MCLargeAllocSize == 4
MCAddressSpace == 8
(* EXECUTABLE_MEMORY_LIMIT, when defined: reachable with the first reservation. *)
MCLimit == 3
(* A code address on the second page, which a 1-granule handle at 0 leaves *)
(* free and a 3-granule handle at 0 occupies.                              *)
MCProbes == {2}
(* No isValidExecutableMemory caller: it holds one lock and waits on nothing. *)
MCNoProbes == {}
(* Threads are interchangeable: no action names a particular thread. *)
ThreadSymmetry == Permutations(Threads)
=============================================================================
