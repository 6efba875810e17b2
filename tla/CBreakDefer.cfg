SPECIFICATION BuildSpec
CONSTANTS
    Bodies <- CrossingBreak
    Targets0 = {"c"}
    PackSize = 2
    MaxControls = 3
    MaxScopes = 6
    MaxDefers = 4
    MaxJumps = 4
    MaxLabels = 2
    MaxEvents = 12
    MaxChoices = 7
INVARIANTS CAsWritten
