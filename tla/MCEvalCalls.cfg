SPECIFICATION Spec
CONSTANTS
    main = main
    f = f
    h = h
    x = x
    y = y
    fileA = fileA
    fileB = fileB
    Functions <- MCFunctions
    Anonymous <- MCAnonymous
    Globals <- MCGlobals
    Consts = {y}
    FileOf <- MCFileOf
    Main = main
    MaxDepth = 2
    MaxActs = 7
    None = None
INVARIANTS HostMatchesCalls TemplateMatches
PROPERTIES ErrorsUnwind InitOnce
