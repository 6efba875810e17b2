SPECIFICATION BuildSpec
CONSTANTS
    Bodies <- MCAllBodies
    Targets0 = {"mir", "wasm", "c"}
    PackSize = 2
    MaxControls = 3
    MaxScopes = 6
    MaxDefers = 4
    MaxJumps = 4
    MaxLabels = 2
    MaxEvents = 12
    MaxChoices = 7
INVARIANTS ControlAsWritten NamesAsWritten WasmAsWritten CKeepsControl FlowSound
