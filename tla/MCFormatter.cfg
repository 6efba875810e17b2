CONSTANTS
    Params <- MCParams
    Statements <- MCStatements
    Returns <- MCReturns
    MaxStatements = 3
SPECIFICATION Spec
INVARIANTS FmtKeepsMeaning FmtIdempotent
CHECK_DEADLOCK FALSE
