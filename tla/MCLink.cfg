CONSTANTS
    Width <- MCWidth
    ImportCount <- MCImportCount
    FunctionCount <- MCFunctionCount
    GlobalType <- MCGlobalType
    ExportChoices <- RefineExportChoices
    StartChoices <- RefineStartChoices
    ElementChoices <- RefineElementChoices
    DataChoices <- RefineDataChoices
    TableSizes <- RefineTableSizes
    MemorySizes <- RefineMemorySizes
    NoStart = NoStart
    MaxEvaluations = 1

SPECIFICATION Spec

INVARIANT TypeOK
INVARIANT StartFunctionIsExportedWrapper
PROPERTY ImplementsInstantiation
