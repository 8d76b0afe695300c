--------------------------- MODULE Instantiation ---------------------------
(***************************************************************************)
(* What the Module Linker and the Instance Evaluator promise (the          *)
(* specification, 4.4 and 4.5), for one instance of a validated module    *)
(* descriptor: link() binds every export name to the realized value of     *)
(* its entity and records the start function, once; evaluate() then takes *)
(* the instance, in one step, to the table and memory the segments declare *)
(* up to the first invalid one, raises that segment's error, and otherwise *)
(* calls the start function, which may trap.                              *)
(*                                                                         *)
(* Functions are named by their index: the abstract state says which       *)
(* function an export or a table slot holds, not which wrapper object.     *)
(***************************************************************************)
EXTENDS ModuleDescriptor

VARIABLES
    module,     \* the descriptor
    phase,      \* "created", "linked", "evaluated", "threw", "unsupported" or "crashed"
    exports,    \* export position -> realized value
    start,      \* the start function's index, or NoStart
    slots,      \* table slot -> function index, or NoStart when empty
    bytes,      \* linear memory byte -> <<data segment, byte of it>>, or Untouched
    error,      \* the RangeError of evaluation, or "None"
    started     \* the start function has been called

vars == <<module, phase, exports, start, slots, bytes, error, started>>

(* The realized value of an export (4.4): the function's exported wrapper, *)
(* the table, the memory, or the global's value.                          *)
Exported(m, i) ==
    LET exp == m.exports[i]
    IN  CASE exp.kind = "Function" -> [kind |-> "function", index |-> exp.index]
          [] exp.kind = "Table" -> [kind |-> "table"]
          [] exp.kind = "Memory" -> [kind |-> "memory"]
          [] exp.kind = "Global" -> [kind |-> "global", global |-> exp.index]

ReexportsImport(m) ==
    \E i \in DOMAIN m.exports :
        m.exports[i].kind = "Function" /\ m.exports[i].index < ImportCount

Init ==
    /\ ChooseDescriptor(module)
    /\ phase = "created"
    /\ exports = <<>>
    /\ start = NoStart
    /\ slots = [i \in U32 |-> NoStart]
    /\ bytes = [a \in Addresses |-> Untouched]
    /\ error = "None"
    /\ started = FALSE

Link ==
    /\ phase = "created"
    /\ ~ReexportsImport(module)
    /\ phase' = "linked"
    /\ exports' = [i \in DOMAIN module.exports |-> Exported(module, i)]
    /\ start' = module.start
    /\ UNCHANGED <<module, slots, bytes, error, started>>

(* Re-exporting an import is an unsupported feature, surfaced as an error (7, 9). *)
LinkUnsupported ==
    /\ phase = "created"
    /\ ReexportsImport(module)
    /\ phase' = "unsupported"
    /\ UNCHANGED <<module, exports, start, slots, bytes, error, started>>

(* Linking an already linked instance is a programming-error fault (3). *)
Relink ==
    /\ phase = "linked"
    /\ phase' = "crashed"
    /\ UNCHANGED <<module, exports, start, slots, bytes, error, started>>

Evaluate ==
    /\ phase = "linked"
    /\ slots' = [i \in U32 |-> ReferenceSlot(AppliedElements(module), i)]
    /\ bytes' = [a \in Addresses |-> ReferenceByte(AppliedData(module), a)]
    /\ error' = ExpectedError(module)
    /\ IF error' # "None"
       THEN phase' = "threw" /\ UNCHANGED started
       ELSE /\ started' = (start # NoStart)
            /\ \/ phase' = "evaluated"
               \/ start # NoStart /\ phase' = "threw"     \* the start function trapped
    /\ UNCHANGED <<module, exports, start>>

Next == Link \/ LinkUnsupported \/ Relink \/ Evaluate

Spec == Init /\ [][Next]_vars

=============================================================================
