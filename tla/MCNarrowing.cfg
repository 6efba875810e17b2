SPECIFICATION Spec
CONSTANTS
    Families <- MCFamilies
    Inputs <- MCInputs
    Variants = {"A", "B", "C"}
    Payload = {"A", "B"}
    MaxNarrows = 2
    MaxChoices = 3
INVARIANTS NarrowedHolds CReadsAsChecked
CHECK_DEADLOCK FALSE
