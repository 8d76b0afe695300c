--------------------------- MODULE ExecutableMemory ---------------------------
(***************************************************************************)
(* What the Region Allocator promises its callers (specification 4.2 and   *)
(* the Memory Handle invariant of section 3), with no threads, locks,      *)
(* free lists or reservations: an allocate call that succeeds atomically   *)
(* hands out a range of the requested size that aliases no live handle and *)
(* counts its bytes; releasing the last reference to a handle takes its    *)
(* range and bytes back; a failed call changes nothing.  The process may   *)
(* stop (a fatal assertion), after which nothing happens.                  *)
(***************************************************************************)
EXTENDS Integers

CONSTANTS
    Space,      \* the addresses executable memory can be handed out from
    Sizes       \* the sizes callers request

VARIABLES
    live,       \* the live handles, as [start, size]
    allocated,  \* bytesAllocated()
    stopped     \* the process has stopped

vars == <<live, allocated, stopped>>

Span(h) == h.start .. h.start + h.size - 1

Init == live = {} /\ allocated = 0 /\ stopped = FALSE

Allocate(n) ==
    /\ ~stopped
    /\ \E a \in Space :
          LET h == [start |-> a, size |-> n]
          IN  /\ Span(h) \subseteq Space
              /\ \A o \in live : Span(o) \cap Span(h) = {}
              /\ live' = live \cup {h}
    /\ allocated' = allocated + n
    /\ UNCHANGED stopped

Release(h) ==
    /\ ~stopped
    /\ live' = live \ {h}
    /\ allocated' = allocated - h.size
    /\ UNCHANGED stopped

Stop ==
    /\ ~stopped
    /\ stopped' = TRUE
    /\ UNCHANGED <<live, allocated>>

Next ==
    \/ \E n \in Sizes : Allocate(n)
    \/ \E h \in live : Release(h)
    \/ Stop

Spec == Init /\ [][Next]_vars

=============================================================================
