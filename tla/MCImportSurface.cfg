CONSTANT Families <- MCFamilies
SPECIFICATION Spec
INVARIANTS
    NamesMeanSame
    PlainAccepted
CHECK_DEADLOCK FALSE
