CONSTANTS
    Width <- MCWidth
    ImportCount <- MCImportCount
    FunctionCount <- MCFunctionCount
    GlobalType <- MCGlobalType
    ExportChoices <- LinkExportChoices
    StartChoices <- LinkStartChoices
    ElementChoices <- LinkElementChoices
    DataChoices <- LinkDataChoices
    TableSizes <- LinkTableSizes
    MemorySizes <- LinkMemorySizes
    NoStart = NoStart
    MaxEvaluations = 1

SPECIFICATION Spec

INVARIANT ReexportIsNotFatal
