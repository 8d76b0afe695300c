---------------------- MODULE WebAssemblyModuleRecord ----------------------
(***************************************************************************)
(* The WebAssembly module record of src/wasm/js/WebAssemblyModuleRecord.cpp *)
(* : link() builds the module environment (export name -> value) and the   *)
(* start function wrapper, evaluate() applies the element segments to the  *)
(* table, the data segments to linear memory and calls the start function. *)
(*                                                                         *)
(* One instance is modelled.  The module descriptor produced by the        *)
(* decoder (Wasm::ModuleInformation plus the instance's table and memory)  *)
(* (ModuleDescriptor) is chosen in Init among the descriptors that pass    *)
(* validation and never changes.  Every call of WebAssemblyFunction::create mints a new wrapper;*)
(* a wrapper is identified by its position in the sequence "wrappers",     *)
(* which records the function index it was created for.                    *)
(*                                                                         *)
(* Machine words keep their width: uint32 is Width bits, uint64 and size_t *)
(* are 2*Width bits.                                                       *)
(***************************************************************************)
EXTENDS ModuleDescriptor

CONSTANT
    MaxEvaluations  \* bound on the evaluate() calls the caller makes

VARIABLES
    module,         \* the validated descriptor, fixed for the behaviour
    phase,          \* "created", "linked", "evaluated", "threw" or "crashed"
    wrappers,       \* wrappers[w]: function index of the w-th WebAssemblyFunction created
    env,            \* m_moduleEnvironment: export position -> exported value
    startFunction,  \* m_startFunction: a wrapper, or 0 when null
    instance,       \* m_instance is set
    table,          \* the table's slots, indexed by every uint32: wrapper or 0
    memory,         \* linear memory bytes: <<data segment, byte of it>> or <<0, 0>>
    error,          \* the RangeError evaluate() threw, or "None"
    startCalls,     \* calls of the start function made by evaluate()
    evaluations,    \* evaluate() calls made so far
    collected       \* wrappers the garbage collector has freed

vars == <<module, phase, wrappers, env, startFunction, instance, table,
          memory, error, startCalls, evaluations, collected>>

hasStart == module.start # NoStart

-----------------------------------------------------------------------------
(* link(): the export loop.  The loop state is [env, wrappers,             *)
(* startFunction, crashed]; a RELEASE_ASSERT stops the process.            *)

FunctionValue(w) == [kind |-> "function", wrapper |-> w]
TableValue == [kind |-> "table"]
(* Mutant: the Memory case, copied from the Table case, exports the table. *)
MemoryValueAsTable == [kind |-> "table"]
MemoryValue == [kind |-> "memory"]
(* Mutant: the global's raw wasm value is exported without ToJSValue. *)
GlobalValueRaw(g) == [kind |-> GlobalType[g], global |-> g]

(* ToJSValue(v): JSValue(loadI32Global), JSValue(loadF32Global) or         *)
(* JSValue(loadF64Global) is a JS number for the global's value.  Whether  *)
(* the JSValue encodes it as an int32 or a double (JSValue(double) encodes *)
(* integral values as int32) is not observable to script and not kept.    *)
GlobalValue(g) == [kind |-> "number", global |-> g]

Crash(st) == [st EXCEPT !.crashed = TRUE]

(* symbolTablePutTouchWatchpointSet: the environment's symbol table was    *)
(* built from the same export list, so putResult is always true.           *)
Put(st, field, v) == [st EXCEPT !.env = (field :> v) @@ @]

LinkExport(st, i) ==
    LET exp == module.exports[i]
        w == Len(st.wrappers) + 1
    IN  IF st.crashed THEN st
        ELSE CASE exp.kind = "Function" /\ exp.index < ImportCount ->
                    Crash(st)                 \* re-exporting an import
               [] exp.kind = "Function" ->
                    [Put(st, i, FunctionValue(w)) EXCEPT
                        !.wrappers = Append(@, exp.index),
                        !.startFunction = IF hasStart /\ module.start = exp.index
                                          THEN w ELSE @]
               [] exp.kind = "Table" ->
                    IF module.hasTable THEN Put(st, i, TableValue) ELSE Crash(st)
               [] exp.kind = "Memory" ->
                    IF module.hasMemory THEN Put(st, i, MemoryValue) ELSE Crash(st)
               [] exp.kind = "Global" ->
                    Put(st, i, GlobalValue(exp.index))

(* Mutant: the start function wrapper is always created afresh. *)
CreateStartFunctionAlways(st) ==
    IF hasStart
    THEN [st EXCEPT !.wrappers = Append(@, module.start),
                    !.startFunction = Len(st.wrappers) + 1]
    ELSE st

(* After the loop: a start function no export produced is created directly. *)
CreateStartFunction(st) ==
    IF hasStart /\ st.startFunction = 0
    THEN [st EXCEPT !.wrappers = Append(@, module.start),
                    !.startFunction = Len(st.wrappers) + 1]
    ELSE st

(* The end of link(): the export loop did not abort and                     *)
(* RELEASE_ASSERT(!m_instance) holds, so the instance and environment are   *)
(* bound.                                                                   *)
BindsInstance(st) == ~st.crashed /\ ~instance

(* link(state, instance): the whole method.  The module environment is a  *)
(* fresh object; m_startFunction is written during the loop, before the    *)
(* one-shot RELEASE_ASSERT(!m_instance) at the end.                        *)
Link ==
    /\ phase \in {"created", "linked"}
    /\ LET looped == FoldLeftDomain(LinkExport,
                        [env |-> <<>>, wrappers |-> wrappers,
                         startFunction |-> startFunction, crashed |-> FALSE],
                        module.exports)
           st == IF looped.crashed THEN looped ELSE CreateStartFunction(looped)
       IN  /\ wrappers' = st.wrappers
           /\ startFunction' = st.startFunction
           /\ IF BindsInstance(st)
              THEN /\ phase' = "linked"
                   /\ env' = st.env
                   /\ instance' = TRUE
              ELSE /\ phase' = "crashed"
                   /\ UNCHANGED <<env, instance>>
    /\ UNCHANGED <<module, table, memory, error, startCalls, evaluations, collected>>

-----------------------------------------------------------------------------
(* evaluate(), phase 1: element segments.  The loop state is               *)
(* [table, wrappers, error].                                               *)

(* Mutant: lastWrittenIndex computed in uint32. *)
ElementLastIndex32(e) == (e.offset + Len(e.indices) - 1) % Word32

(* lastWrittenIndex, computed in uint64 from the uint32 offset and count.  *)
ElementLastIndex(e) == (e.offset + Len(e.indices) - 1) % Word64

(* The inner loop: one WebAssemblyFunction per index, written at           *)
(* tableIndex, which is a uint32 incremented after each write.             *)
WriteElement(e, st) ==
    LET step(acc, i) ==
            LET fi == e.indices[i]
                tableIndex == (e.offset + i - 1) % Word32
                w == Len(acc.wrappers) + 1
            IN  IF acc.error # "None" THEN acc
                ELSE IF fi < ImportCount
                THEN [acc EXCEPT !.error = "ElementImport"]
                ELSE [acc EXCEPT !.wrappers = Append(@, fi),
                                 !.table = [@ EXCEPT ![tableIndex] = w]]
    IN  FoldLeftDomain(step, st, e.indices)

ApplyElement(st, k) ==
    LET e == module.elements[k]
    IN  CASE st.error # "None" -> st
          [] Len(e.indices) = 0 -> st
          [] ElementLastIndex(e) >= module.tableSize ->
               [st EXCEPT !.error = "ElementOutOfBounds"]
          [] OTHER -> WriteElement(e, st)

(* evaluate(), phase 2: data segments.  The loop state is [memory, error]. *)

(* Mutant: the "segment is too big" check is missing. *)
DataSegmentCheckNoSizeCheck(s) ==
    IF s.offset > (module.memorySize - s.size) % Word64
    THEN "SegmentOutsideMemory" ELSE "None"

(* The two bounds checks, in size_t arithmetic; "None" when both pass.     *)
DataSegmentCheck(s) ==
    CASE module.memorySize < s.size -> "SegmentTooBig"
      [] s.offset > (module.memorySize - s.size) % Word64 -> "SegmentOutsideMemory"
      [] OTHER -> "None"

(* memcpy(memory + offset, &segment->byte(0), sizeInBytes) *)
CopySegment(mem, k, s) ==
    [a \in Addresses |-> IF a \in s.offset .. s.offset + s.size - 1
                         THEN <<k, a - s.offset>> ELSE mem[a]]

(* dataSegmentFail: evaluate() returns the RangeError it throws; the     *)
(* message only formats the sizes and the reason.                          *)
DataSegmentFail(st, e) == [st EXCEPT !.error = e]

(* Mutant: empty data segments are bounds-checked too. *)
ApplyDataNoSkip(st, k) ==
    LET s == module.data[k]
    IN  CASE st.error # "None" -> st
          [] DataSegmentCheck(s) # "None" -> DataSegmentFail(st, DataSegmentCheck(s))
          [] OTHER -> [st EXCEPT !.memory = CopySegment(@, k, s)]

ApplyData(st, k) ==
    LET s == module.data[k]
    IN  CASE st.error # "None" -> st
          [] s.size = 0 -> st           \* an empty segment is skipped unchecked
          [] DataSegmentCheck(s) # "None" -> DataSegmentFail(st, DataSegmentCheck(s))
          [] OTHER -> [st EXCEPT !.memory = CopySegment(@, k, s)]

(* evaluate(state): the three phases in order; a RangeError returns at     *)
(* once, leaving what earlier segments wrote.  The start function either   *)
(* returns or throws (a trap or a JS exception), which is propagated.      *)
(* evaluate() reads m_instance and checks no state of its own: it can be   *)
(* called on a linked instance whether or not it was evaluated before.    *)
Evaluate ==
    /\ phase \in {"linked", "evaluated", "threw"}
    /\ evaluations < MaxEvaluations
    /\ evaluations' = evaluations + 1
    /\ LET el == FoldLeftDomain(ApplyElement,
                    [table |-> table, wrappers |-> wrappers, error |-> "None"],
                    module.elements)
           dl == FoldLeftDomain(ApplyData,
                    [memory |-> memory, error |-> el.error], module.data)
       IN  /\ table' = el.table
           /\ wrappers' = el.wrappers
           /\ memory' = dl.memory
           /\ error' = dl.error
           /\ IF dl.error # "None"
              THEN /\ phase' = "threw"
                   /\ UNCHANGED startCalls
              ELSE /\ startCalls' = startCalls + IF startFunction # 0 THEN 1 ELSE 0
                   /\ \/ phase' = "evaluated"
                      \/ startFunction # 0 /\ phase' = "threw"
    /\ UNCHANGED <<module, env, startFunction, instance, collected>>

(* WebAssemblyModuleRecord::visitChildren: the record marks m_instance and *)
(* m_startFunction.                                                        *)
VisitChildren == {startFunction} \ {0}

(* What a collection marks from the record: its own children, the module   *)
(* environment (visited by the base AbstractModuleRecord) and, through     *)
(* m_instance, the table's slots (the JS API objects, from the spec).      *)
Marked ==
    VisitChildren
      \cup {env[i].wrapper : i \in {j \in DOMAIN env : env[j].kind = "function"}}
      \cup (IF instance THEN {table[i] : i \in U32} \ {0} ELSE {})

(* A garbage collection between the record's methods (any allocation may   *)
(* trigger one) frees every wrapper nothing marks.                         *)
CollectGarbage ==
    /\ phase \in {"created", "linked", "evaluated", "threw"}
    /\ collected' = collected \cup ((1 .. Len(wrappers)) \ Marked)
    /\ collected' # collected
    /\ UNCHANGED <<module, phase, wrappers, env, startFunction, instance, table,
                   memory, error, startCalls, evaluations>>

(* Instantiation is over: the process aborted or evaluate() returned. *)
Finished ==
    /\ phase \in {"evaluated", "threw", "crashed"}
    /\ UNCHANGED vars

Init ==
    /\ ChooseDescriptor(module)
    /\ phase = "created"
    /\ wrappers = <<>>
    /\ env = <<>>
    /\ startFunction = 0
    /\ instance = FALSE
    /\ table = [i \in U32 |-> 0]
    /\ memory = [a \in Addresses |-> Untouched]
    /\ error = "None"
    /\ startCalls = 0
    /\ evaluations = 0
    /\ collected = {}

Next == Link \/ Evaluate \/ CollectGarbage \/ Finished

Spec == Init /\ [][Next]_vars

-----------------------------------------------------------------------------
(* Properties *)

ExportValues ==
    {FunctionValue(w) : w \in 1 .. Len(wrappers)} \cup {TableValue, MemoryValue}
        \cup [kind : {"number"}, global : DOMAIN GlobalType]

TypeOK ==
    /\ IsModuleDescriptor(module)
    /\ env \in [DOMAIN env -> ExportValues]
    /\ phase \in {"created", "linked", "evaluated", "threw", "crashed"}
    /\ wrappers \in Seq(Functions)
    /\ startFunction \in 0 .. Len(wrappers)
    /\ instance \in BOOLEAN
    /\ table \in [U32 -> 0 .. Len(wrappers)]
    /\ memory \in [Addresses -> ({0} \X {0}) \cup ((DOMAIN module.data) \X Addresses)]
    /\ error \in Errors
    /\ startCalls \in 0 .. evaluations
    /\ evaluations \in 0 .. MaxEvaluations
    /\ collected \subseteq 1 .. Len(wrappers)

(* evaluate() never calls table->setFunction with an index at or beyond    *)
(* table->size(): the bounds check on lastWrittenIndex must hold for       *)
(* offsets near the top of the uint32 range, where offset + count - 1      *)
(* does not fit in 32 bits and the running tableIndex wraps.               *)
TableWritesInBounds ==
    \A i \in U32 : i >= module.tableSize => table[i] = 0

(* No data segment memcpy writes a byte at or beyond the memory's size:    *)
(* the two checks in evaluate(), in size_t arithmetic, exclude every       *)
(* segment that does not fit, including one larger than the memory.       *)
MemoryWritesInBounds ==
    \A a \in Addresses : a >= module.memorySize => memory[a] = Untouched

(* Once evaluate() has returned or thrown, it threw the RangeError of the  *)
(* first invalid segment (none if all are valid), and the table and memory *)
(* hold exactly what the segments before it, and the valid prefix of a     *)
(* failing element segment, declare: each slot a wrapper of the function   *)
(* the last segment covering it names, each byte the byte of the last data *)
(* segment covering it.  A failed instantiation leaves these partial       *)
(* writes in place; nothing is rolled back and nothing else is written.    *)
SegmentsAppliedAsDeclared ==
    phase \in {"evaluated", "threw"} =>
        /\ error = ExpectedError(module)
        /\ \A i \in U32 : ReferenceSlot(AppliedElements(module), i) =
                            IF table[i] = 0 THEN NoStart ELSE wrappers[table[i]]
        /\ \A a \in Addresses : memory[a] = ReferenceByte(AppliedData(module), a)

(* After link() the start function wrapper exists iff the module has a     *)
(* start function, wraps that function, and, when the function is also    *)
(* exported, is the very wrapper the module environment exports, so the    *)
(* function evaluate() calls is the one script code can see.  (A second   *)
(* link() overwrites m_startFunction before its RELEASE_ASSERT aborts the  *)
(* process; nothing is observable after the abort.)                        *)
StartFunctionIsExportedWrapper ==
    instance /\ phase # "crashed" =>
        /\ hasStart <=> startFunction # 0
        /\ hasStart =>
             /\ wrappers[startFunction] = module.start
             /\ (\E i \in DOMAIN module.exports :
                    module.exports[i] = [kind |-> "Function", index |-> module.start])
                => \E i \in DOMAIN env : env[i] = FunctionValue(startFunction)

(* The identity rule of the JS API: for one instance, every reference to a *)
(* function that script code can observe (an export or a table slot) is    *)
(* the same Exported Function object.                                      *)
ObservableWrappers ==
    {env[i].wrapper : i \in {j \in DOMAIN env : env[j].kind = "function"}}
        \cup {table[i] : i \in {j \in U32 : table[j] # 0}}

WrapperIdentity ==
    \A v1, v2 \in ObservableWrappers : wrappers[v1] = wrappers[v2] => v1 = v2

(* The specification (7, 9): re-exporting an imported function is an       *)
(* unsupported feature surfaced as an explicit error, never a process      *)
(* abort.                                                                  *)
ReexportIsNotFatal ==
    (\E i \in DOMAIN module.exports :
        module.exports[i].kind = "Function" /\ module.exports[i].index < ImportCount)
    => phase # "crashed"

(* The specification (4.5, 8): evaluation runs at most once per instance, *)
(* guarded by a one-shot check, so the start function runs at most once    *)
(* however often the caller calls evaluate().                              *)
StartRunsOnce ==
    startCalls <= 1

(* The specification (4.4, 9): a wrapper is created only for a local       *)
(* function.  An imported function keeps the wrapper it already has, so   *)
(* link() refuses to re-export an import (line 114) and evaluate() refuses *)
(* a table slot naming one (line 231); the start function must be held to  *)
(* the same rule when link() creates its wrapper directly (line 185).      *)
ImportsNeverWrapped ==
    \A w \in 1 .. Len(wrappers) : wrappers[w] >= ImportCount

(* The refinement mapping to Instantiation: a wrapper is named by the      *)
(* function it was created for, a global's JSValue by the global.          *)
AbstractValue(v) ==
    CASE v.kind = "function" -> [kind |-> "function", index |-> wrappers[v.wrapper]]
      [] v.kind = "number" -> [kind |-> "global", global |-> v.global]
      [] OTHER -> v

Abstract == INSTANCE Instantiation WITH
    exports <- [i \in DOMAIN env |-> AbstractValue(env[i])],
    start <- IF startFunction = 0 THEN NoStart ELSE wrappers[startFunction],
    slots <- [i \in U32 |-> IF table[i] = 0 THEN NoStart ELSE wrappers[table[i]]],
    bytes <- memory,
    started <- startCalls > 0

(* link() and evaluate() implement the specification's instantiation: the *)
(* module environment binds every export name to its entity, the start    *)
(* function is called exactly when no segment failed, and the table and    *)
(* memory change only in one evaluate() step, to what the segments declare *)
(* (4.4, 4.5).                                                              *)
ImplementsInstantiation == Abstract!Spec

=============================================================================
