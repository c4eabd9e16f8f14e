CONSTANTS
    Funcs = {"f", "g"}
    Unaware = {"g"}
    Arg <- MCArg
    LibCalls <- MCLibCalls
    DirSeqs <- MCDirSeqs
    MaxDepth = 4
    DeepCalls = {"qsort", "memcpy", "sprintf", "malloc"}
SPECIFICATION LibSpec
INVARIANTS
    MAAPsBalanced
    AnswerExact
    ChecksUseOwnMAAP
    VarArgsChecked
