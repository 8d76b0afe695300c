-------------------- MODULE MCWebAssemblyModuleRecord --------------------
(***************************************************************************)
(* Instantiations of WebAssemblyModuleRecord for TLC.  uint32 is 2 bits    *)
(* wide (indices 0..3) so that offset + count - 1 leaves the uint32 range  *)
(* with two-entry segments; function 0 is an import, 1 and 2 are local.    *)
(***************************************************************************)
EXTENDS WebAssemblyModuleRecord

MCWidth == 2
MCImportCount == 1
MCFunctionCount == 3
MCGlobalType == (0 :> "i32") @@ (1 :> "f32")

FunctionExports == {[kind |-> "Function", index |-> f] : f \in 0 .. 2}
OtherExports ==
    {[kind |-> "Table", index |-> 0], [kind |-> "Memory", index |-> 0]}
        \cup {[kind |-> "Global", index |-> g] : g \in 0 .. 1}

(* Linking: every export list of up to two entries, every start function, *)
(* and one element segment so that a table slot holds a wrapper too.      *)
LinkExportChoices == BoundedSeq(FunctionExports \cup OtherExports, 2)
LinkStartChoices == {NoStart, 1, 2}
(* A start function that is the imported function 0. *)
ImportStartChoices == {0}
LinkElementChoices == {<<>>, <<[offset |-> 0, indices |-> <<1>>]>>}
LinkDataChoices == {<<>>}
LinkTableSizes == {0, 1}
LinkMemorySizes == {0}

(* Evaluation: up to two element and two data segments at offsets at the  *)
(* start, in the middle and at the top of the uint32 range, with counts   *)
(* and sizes that fit, overrun, or exceed the whole table or memory.      *)
ElementSegments ==
    {[offset |-> o, indices |-> ix] :
        o \in {0, 2, 3}, ix \in {<<>>, <<1>>, <<1, 2>>, <<2, 0>>}}
DataSegments == {[offset |-> o, size |-> n] : o \in {0, 2, 3}, n \in {0, 1, 3}}
EvalExportChoices == {<<>>}
EvalStartChoices == {NoStart, 2}
EvalElementChoices == BoundedSeq(ElementSegments, 2)
EvalDataChoices == BoundedSeq(DataSegments, 2)
EvalTableSizes == {0, 1, 3}
EvalMemorySizes == {0, 2, 3}
(* Refinement: exports of local functions and of the other kinds, with one *)
(* segment of each kind that is valid, out of bounds or names an import.  *)
RefineExportChoices ==
    BoundedSeq({[kind |-> "Function", index |-> f] : f \in 1 .. 2} \cup OtherExports, 2)
RefineStartChoices == {NoStart, 1, 2}
RefineElementChoices ==
    {<<>>, <<[offset |-> 0, indices |-> <<1, 2>>]>>, <<[offset |-> 3, indices |-> <<1, 2>>]>>,
     <<[offset |-> 1, indices |-> <<2, 0>>]>>}
RefineDataChoices ==
    {<<>>, <<[offset |-> 2, size |-> 1]>>, <<[offset |-> 3, size |-> 3]>>}
RefineTableSizes == {3}
RefineMemorySizes == {3}
=============================================================================
