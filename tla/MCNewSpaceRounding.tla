------------------------- MODULE MCNewSpaceRounding -------------------------
(***************************************************************************)
(* An 8-bit size_t, pages of 2 or 4 bytes and a large allocation size of   *)
(* 4 pages (JIT_ALLOCATOR_LARGE_ALLOC_SIZE is pageSize() * 4): requests    *)
(* reach the top of the size_t range, where the rounding wraps.            *)
(***************************************************************************)
EXTENDS NewSpaceRounding

MCWidth == 8
MCPageSizes == {2, 4}
MCLargePages == 4
=============================================================================
