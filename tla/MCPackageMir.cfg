SPECIFICATION Spec
CONSTANTS
    Decls <- MCDecls
    Programs <- MCPrograms
INVARIANTS RunsAsWritten PlainIsBuilt
CHECK_DEADLOCK FALSE
