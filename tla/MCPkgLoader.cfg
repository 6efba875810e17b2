SPECIFICATION Spec
CONSTANTS
    Worlds <- MCWorlds
    TableCap = 2
INVARIANTS CyclesRefused ImportsBound NoStalePointer OrderSound
PROPERTIES Terminates
