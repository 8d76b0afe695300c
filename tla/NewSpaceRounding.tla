-------------------------- MODULE NewSpaceRounding --------------------------
(***************************************************************************)
(* The page count DemandExecutableAllocator::allocateNewSpace reserves     *)
(* (src/jit/ExecutableAllocator.cpp), in size_t arithmetic of Width bits.  *)
(* The argument numPages is MetaAllocator::allocate's requested page count *)
(* for a request it found no free run for: a page count whose byte size is *)
(* a size_t.  pageSize() is the OS page size, fixed for a process and      *)
(* chosen among PageSizes; JIT_ALLOCATOR_LARGE_ALLOC_SIZE is LargePages    *)
(* pages.  The state is one call; every step is a new call.               *)
(***************************************************************************)
EXTENDS Integers, FiniteSetsExt

CONSTANTS
    Width,          \* bits of a size_t in the model
    PageSizes,      \* the page sizes pageSize() may return
    LargePages      \* JIT_ALLOCATOR_LARGE_ALLOC_SIZE in pages

SizeMax == 2^Width - 1
SizeT == 0 .. SizeMax

ASSUME /\ Width \in Nat \ {0}
       /\ PageSizes \subseteq 1 .. SizeMax
       /\ LargePages \in Nat \ {0}

VARIABLES
    pageSize,       \* pageSize()
    numPages        \* the argument, a reference to MetaAllocator's page count

vars == <<pageSize, numPages>>

LargeAllocSize(ps) == LargePages * ps

(* The page counts MetaAllocator::allocate can pass: at least one page,    *)
(* and numPages * pageSize() a size_t.                                     *)
RequestablePages(ps) == {n \in 1 .. SizeMax : n * ps <= SizeMax}

(* Mutant: the byte count is rounded down to the large allocation size. *)
NewNumPagesRoundedDown(ps, n) ==
    LET large == LargeAllocSize(ps)
        bytes == ((n * ps) \div large) * large
    IN  ((bytes + ps - 1) % 2^Width) \div ps

(* newNumPages: the bytes of numPages pages rounded up to a multiple of    *)
(* the large allocation size, then to pages; every + and * wraps.          *)
NewNumPages(ps, n) ==
    LET large == LargeAllocSize(ps)
        bytes == (((n * ps + large - 1) % 2^Width) \div large) * large
    IN  ((bytes + ps - 1) % 2^Width) \div ps

(* A call of allocateNewSpace. *)
Init == pageSize \in PageSizes /\ numPages \in RequestablePages(pageSize)

AllocateNewSpace ==
    /\ numPages' \in RequestablePages(pageSize)
    /\ UNCHANGED pageSize

Next == AllocateNewSpace

Spec == Init /\ [][Next]_vars

-----------------------------------------------------------------------------
(* Properties *)

(* The reference over unbounded integers: the fewest pages holding the     *)
(* least multiple of the large allocation size that covers the request.    *)
ReferencePages(ps, n) ==
    LET large == LargeAllocSize(ps)
        units == Min({u \in 1 .. n : u * large >= n * ps})
    IN  (units * large + ps - 1) \div ps

(* Whenever the rounded reservation fits in a size_t, allocateNewSpace     *)
(* reserves exactly the reference page count: the request covered, in     *)
(* whole large allocation units, never more than one unit beyond it.      *)
RoundingMatchesReference ==
    ReferencePages(pageSize, numPages) * pageSize + LargeAllocSize(pageSize) <= SizeMax
        => NewNumPages(pageSize, numPages) = ReferencePages(pageSize, numPages)

(* ASSERT(newNumPages >= numPages) in allocateNewSpace: the reservation    *)
(* never has fewer pages than the allocation it is made for.              *)
NewSpaceCoversRequest ==
    NewNumPages(pageSize, numPages) >= numPages

=============================================================================
