--------------------------- MODULE MemoryPressure ---------------------------
(***************************************************************************)
(* The memory pressure signals of src/jit/ExecutableAllocator.cpp,         *)
(* ExecutableAllocator::underMemoryPressure and memoryPressureMultiplier,  *)
(* as pure operators of the aggregate that bytesAllocatedByAllAllocators() *)
(* returned and the caller's addedMemoryUsage.                             *)
(*                                                                         *)
(* size_t keeps its width (Width bits).  A double result is an exact       *)
(* ratio [num, den] with den = 0 for +infinity: the values involved are    *)
(* small integers, exact in a double, and the one rounded division is      *)
(* monotone, so comparisons of ratios are those of the doubles up to ties. *)
(*                                                                         *)
(* The state is one call: the aggregate read under allocatorsMutex() and   *)
(* the argument; every step is a new call.                                 *)
(***************************************************************************)
EXTENDS Integers

CONSTANTS
    Width,      \* bits of a size_t in the model
    Limit,      \* EXECUTABLE_MEMORY_LIMIT, or NoLimit when it is not defined
    NoLimit

SizeT == 0 .. 2^Width - 1

ASSUME /\ Width \in Nat \ {0}
       /\ Limit \in (SizeT \ {0}) \cup {NoLimit}

VARIABLES
    total,      \* bytesAllocatedByAllAllocators() as the call read it
    added       \* addedMemoryUsage

vars == <<total, added>>

-----------------------------------------------------------------------------
(* Doubles as ratios. *)
Ratio(n, d) == [num |-> n, den |-> d]
One == Ratio(1, 1)
Infinite(r) == r.den = 0
(* r1 < r2 *)
RatioLess(r1, r2) ==
    /\ ~Infinite(r1)
    /\ Infinite(r2) \/ r1.num * r2.den < r2.num * r1.den

-----------------------------------------------------------------------------
(* Mutant: the threshold is reached at half the limit. *)
UnderMemoryPressureAtHalf(t) == Limit # NoLimit /\ t >= Limit \div 2

(* underMemoryPressure(): bytesAllocatedByAllAllocators() >                *)
(* EXECUTABLE_MEMORY_LIMIT / 2 (integer division); false without a limit.  *)
UnderMemoryPressure(t) == Limit # NoLimit /\ t > Limit \div 2

(* memoryPressureMultiplier(addedMemoryUsage): the size_t sum, clamped to  *)
(* the limit; static_cast<double>(LIMIT) / (LIMIT - bytesAllocated), where *)
(* a zero divisor gives +infinity; results below 1.0 are raised to 1.0.    *)
(* Without a limit the result is 1.0.                                      *)
MemoryPressureMultiplier(t, a) ==
    IF Limit = NoLimit THEN One
    ELSE LET sum == (t + a) % 2^Width
             b == IF sum >= Limit THEN Limit ELSE sum
             r == Ratio(Limit, Limit - b)
         IN  IF RatioLess(r, One) THEN One ELSE r

-----------------------------------------------------------------------------
(* A call: any aggregate a registry can report, any argument. *)
Init == total \in SizeT /\ added \in SizeT

Query == \E t, a \in SizeT : total' = t /\ added' = a

Next == Query

Spec == Init /\ [][Next]_vars

-----------------------------------------------------------------------------
(* Properties *)

TypeOK == total \in SizeT /\ added \in SizeT

(* The two pressure signals read from the same aggregate agree:            *)
(* underMemoryPressure() holds exactly when memoryPressureMultiplier(0)    *)
(* exceeds 2, so a caller that throttles on either sees the same          *)
(* threshold, for odd and even limits alike.                               *)
PressureSignalsAgree ==
    UnderMemoryPressure(total) <=> RatioLess(Ratio(2, 1), MemoryPressureMultiplier(total, 0))

=============================================================================
