-------------------------- MODULE ModuleDescriptor --------------------------
(***************************************************************************)
(* The module descriptor (Wasm::ModuleInformation, produced by the         *)
(* decoder, plus the instance's table and memory) that                     *)
(* src/wasm/js/WebAssemblyModuleRecord.cpp reads, and the reference        *)
(* semantics of applying its segments.  The decoder is not part of the     *)
(* repository: the descriptors are the ones validation lets through.       *)
(*                                                                         *)
(* Machine words keep their width: uint32 is Width bits, uint64 and size_t *)
(* are 2*Width bits.                                                       *)
(***************************************************************************)
EXTENDS Integers, Sequences, SequencesExt

CONSTANTS
    Width,          \* bits of a uint32 in the model
    ImportCount,    \* module->importCount(): function indices below it are imports
    FunctionCount,  \* size of the function index space, imports first
    GlobalType,     \* moduleInformation.globals[i].type, for i in DOMAIN GlobalType
    ExportChoices,  \* export lists (sequences of [kind, index]) the decoder may produce
    StartChoices,   \* startFunctionIndexSpace values; NoStart stands for an empty optional
    ElementChoices, \* element segment lists (sequences of [offset, indices])
    DataChoices,    \* data segment lists (sequences of [offset, size])
    TableSizes,     \* table->size() of the instance's table, if it has one
    MemorySizes,    \* jsMemory->memory()->size() of the instance's memory, if it has one
    NoStart

Word32 == 2^Width
Word64 == 2^(2 * Width)
U32 == 0 .. Word32 - 1

Functions == 0 .. FunctionCount - 1
Errors == {"None", "ElementOutOfBounds", "ElementImport",
           "SegmentTooBig", "SegmentOutsideMemory"}

ASSUME /\ Width \in Nat \ {0}
       /\ ImportCount \in 0 .. FunctionCount
       /\ NoStart \notin Functions
       /\ StartChoices \subseteq Functions \cup {NoStart}
       /\ \A g \in DOMAIN GlobalType : GlobalType[g] \in {"i32", "f32", "f64"}

(* Addresses a memcpy of a data segment may touch: offsets and sizes are uint32. *)
MaxSegmentEnd == 2 * Word32
Addresses == 0 .. MaxSegmentEnd - 1
Untouched == <<0, 0>>

-----------------------------------------------------------------------------
(* The descriptors validation lets through: names are unique (an export is *)
(* named by its position), a table/memory export or segment needs the      *)
(* table/memory, and function indices lie in the index space.  The start   *)
(* function may be any function of the index space, an import included.   *)
Descriptor(exps, st, els, dat, hasTable, ts, hasMemory, ms) ==
    [exports |-> exps, start |-> st, elements |-> els, data |-> dat,
     hasTable |-> hasTable, tableSize |-> ts,
     hasMemory |-> hasMemory, memorySize |-> ms]

Validated(m) ==
    /\ \A i \in DOMAIN m.exports :
          /\ m.exports[i].kind = "Table" => m.hasTable
          /\ m.exports[i].kind = "Memory" => m.hasMemory
    /\ m.elements # <<>> => m.hasTable
    /\ m.data # <<>> => m.hasMemory

IsModuleDescriptor(m) ==
    /\ m.exports \in ExportChoices
    /\ m.start \in StartChoices
    /\ m.elements \in ElementChoices
    /\ m.data \in DataChoices
    /\ m.hasTable \in BOOLEAN
    /\ m.tableSize \in IF m.hasTable THEN TableSizes ELSE {0}
    /\ m.hasMemory \in BOOLEAN
    /\ m.memorySize \in IF m.hasMemory THEN MemorySizes ELSE {0}
    /\ Validated(m)

(* The initial choice of the descriptor m (a state variable): any the    *)
(* decoder may produce that validates.                                     *)
ChooseDescriptor(m) ==
    \E x \in ExportChoices, s \in StartChoices, e \in ElementChoices,
       d \in DataChoices, ht \in BOOLEAN, ts \in TableSizes,
       hm \in BOOLEAN, ms \in MemorySizes :
        /\ m = Descriptor(x, s, e, d, ht, IF ht THEN ts ELSE 0,
                          hm, IF hm THEN ms ELSE 0)
        /\ Validated(m)

-----------------------------------------------------------------------------
(* The reference semantics of instantiating descriptor m.  A segment is   *)
(* valid when it is empty or fits the table (memory) and, for an element   *)
(* segment, names no import.  The segments are applied in order up to the  *)
(* first invalid one; of that one nothing is applied, except that an       *)
(* element segment within bounds writes the slots before its first import. *)
ElementInBounds(m, e) == e.offset + Len(e.indices) <= m.tableSize

ElementValid(m, e) ==
    \/ Len(e.indices) = 0
    \/ /\ ElementInBounds(m, e)
       /\ \A j \in DOMAIN e.indices : e.indices[j] >= ImportCount

DataValid(m, s) == s.size = 0 \/ s.offset + s.size <= m.memorySize

FirstInvalid(segs, Valid(_)) ==
    LET bad == {k \in DOMAIN segs : ~Valid(segs[k])}
    IN  IF bad = {} THEN 0 ELSE CHOOSE k \in bad : \A k2 \in bad : k <= k2

FirstImport(e) ==
    CHOOSE j \in DOMAIN e.indices :
        e.indices[j] < ImportCount /\ \A j2 \in 1 .. j - 1 : e.indices[j2] >= ImportCount

BadElement(m) == FirstInvalid(m.elements, LAMBDA e : ElementValid(m, e))
BadData(m) == FirstInvalid(m.data, LAMBDA s : DataValid(m, s))

AppliedElements(m) ==
    IF BadElement(m) = 0 THEN m.elements
    ELSE LET e == m.elements[BadElement(m)]
         IN  SubSeq(m.elements, 1, BadElement(m) - 1)
               \o (IF ElementInBounds(m, e)
                   THEN <<[e EXCEPT !.indices = SubSeq(@, 1, FirstImport(e) - 1)]>>
                   ELSE <<>>)

AppliedData(m) ==
    CASE BadElement(m) # 0 -> <<>>
      [] BadData(m) = 0 -> m.data
      [] OTHER -> SubSeq(m.data, 1, BadData(m) - 1)

ExpectedError(m) ==
    CASE BadElement(m) # 0 ->
           IF ElementInBounds(m, m.elements[BadElement(m)])
           THEN "ElementImport" ELSE "ElementOutOfBounds"
      [] BadData(m) # 0 ->
           IF m.memorySize < m.data[BadData(m)].size
           THEN "SegmentTooBig" ELSE "SegmentOutsideMemory"
      [] OTHER -> "None"

(* The last segment covering slot (address) a, 0 if none. *)
LastCovering(segs, len(_), a) ==
    LET ks == {k \in DOMAIN segs : a \in segs[k].offset .. segs[k].offset + len(segs[k]) - 1}
    IN  IF ks = {} THEN 0 ELSE CHOOSE k \in ks : \A k2 \in ks : k2 <= k

(* The function index slot i holds after segments els, NoStart if none. *)
ReferenceSlot(els, i) ==
    LET k == LastCovering(els, LAMBDA e : Len(e.indices), i)
    IN  IF k = 0 THEN NoStart ELSE els[k].indices[i - els[k].offset + 1]

(* The byte at address a after segments dat: <<segment, offset in it>>. *)
ReferenceByte(dat, a) ==
    LET k == LastCovering(dat, LAMBDA s : s.size, a)
    IN  IF k = 0 THEN Untouched ELSE <<k, a - dat[k].offset>>

=============================================================================
