CONSTANTS
    Programs <- AllPrograms
    MaxLen = 4
    EntryArgs = {0, 1, 2}
    BackwardJumpLimit = 2
    HookDepth = 3
    HasEnterHook = TRUE
SPECIFICATION FairSpec
INVARIANTS
    TypeOK
    HooksMatchFrames
    StackNeverMisused
    StackCapSuffices
PROPERTIES
    IndicesValidated
    Terminates
    HooksAreBrackets
