SPECIFICATION MCSpec
CONSTANTS
    Integer <- MCInteger
    AliasTarget <- MCAliasTarget
    Embedded <- MCEmbedded
    NoName = NoName
    CheckCost <- ConversionCost
    BuildCost <- ArgumentCost
    RunScore <- ArgumentScore
    Families <- MCFamilies
    MaxDepth = 8
INVARIANTS CheckedIsCheapest NamesKept BuildAgrees RunAgrees EvaluatedAsWritten
