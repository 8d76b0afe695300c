------------------------ MODULE MCAllocatorArithmetic ------------------------
(***************************************************************************)
(* The size_t arithmetic of src/jit/ExecutableAllocator.cpp checked in one *)
(* run: the memory pressure signals and the growth rounding are           *)
(* independent calls, so a step is a call of either.                      *)
(*                                                                         *)
(* MemoryPressure: a 4-bit size_t and two builds, an odd limit (7), where *)
(* LIMIT / 2 rounds down, and an even one (8), where it is exact; both are *)
(* evaluated on the same aggregate.                                        *)
(* NewSpaceRounding: an 8-bit size_t, pages of 2 or 4 bytes and a large    *)
(* allocation size of 4 pages (JIT_ALLOCATOR_LARGE_ALLOC_SIZE is           *)
(* pageSize() * 4), so that requests reach the top of the size_t range.    *)
(***************************************************************************)
EXTENDS Integers

CONSTANT NoLimit

VARIABLES total, added, pageSize, numPages

vars == <<total, added, pageSize, numPages>>

Pressure == INSTANCE MemoryPressure WITH Width <- 4, Limit <- 7
PressureEven == INSTANCE MemoryPressure WITH Width <- 4, Limit <- 8
Rounding == INSTANCE NewSpaceRounding WITH Width <- 8, PageSizes <- {2, 4}, LargePages <- 4

Init == Pressure!Init /\ Rounding!Init

Next ==
    \/ Pressure!Next /\ UNCHANGED <<pageSize, numPages>>
    \/ Rounding!Next /\ UNCHANGED <<total, added>>

Spec == Init /\ [][Next]_vars

(* underMemoryPressure() holds exactly when memoryPressureMultiplier(0)    *)
(* exceeds 2 (MemoryPressure), with an odd and with an even limit.        *)
PressureSignalsAgree ==
    Pressure!PressureSignalsAgree /\ PressureEven!PressureSignalsAgree

(* allocateNewSpace reserves the reference page count wherever the         *)
(* rounded reservation fits in a size_t (NewSpaceRounding).                *)
RoundingMatchesReference == Rounding!RoundingMatchesReference
=============================================================================
