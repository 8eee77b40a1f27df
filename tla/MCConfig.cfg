SPECIFICATION Spec
CONSTANTS
    FileLists <- MCFileLists
    Descriptors <- MCDescriptors
    Domains <- MCDomains
INVARIANTS
    GetLimitIsBestMatch
    FileOrderIrrelevant
    CountersApart
CHECK_DEADLOCK FALSE
