\* The caller calls evaluate() twice on the linked instance.
CONSTANTS
    Width <- MCWidth
    ImportCount <- MCImportCount
    FunctionCount <- MCFunctionCount
    GlobalType <- MCGlobalType
    ExportChoices <- LinkExportChoices
    StartChoices <- LinkStartChoices
    ElementChoices <- LinkElementChoices
    DataChoices <- LinkDataChoices
    TableSizes <- LinkTableSizes
    MemorySizes <- LinkMemorySizes
    NoStart = NoStart
    MaxEvaluations = 2

SPECIFICATION Spec

INVARIANT StartRunsOnce
