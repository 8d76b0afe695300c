CONSTANTS
    Width <- MCWidth
    ImportCount <- MCImportCount
    FunctionCount <- MCFunctionCount
    GlobalType <- MCGlobalType
    ExportChoices <- EvalExportChoices
    StartChoices <- EvalStartChoices
    ElementChoices <- EvalElementChoices
    DataChoices <- EvalDataChoices
    TableSizes <- EvalTableSizes
    MemorySizes <- EvalMemorySizes
    NoStart = NoStart
    MaxEvaluations = 1

SPECIFICATION Spec

INVARIANT TableWritesInBounds
INVARIANT MemoryWritesInBounds
INVARIANT SegmentsAppliedAsDeclared
