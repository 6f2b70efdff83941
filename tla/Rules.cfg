\* Every rule on every input of its small domain.
SPECIFICATION Spec
CONSTANTS
    T <- Gate
    CharsPerToken = 4
    Rate <- RateTable
    InputTokens <- InputTable
    OutputTokens <- OutputTable
    TextTokens = 8
    Safety = 115
    SlotFill = 2000
    Padding = 120
    Targets = {"background", "shirt", "glasses"}
    Scene = {"background"}
    Adjacent = {"glasses"}
    Blank = " "
    Ids = {"default", "headshot", "avatar"}
    Tokens = {"default", "any", "cv"}
    FallbackId = "default"
    Reserved = "default"
    Wildcard = "any"
    NoPreset = "none"
    Stop = {"the"}
    NoValue = NoValue
    Fields <- FieldOrder
    Regions <- RegionTable
    Lighting = "lighting"
    Filler = {"white"}
    Poison = "POISON"
    NoInventory = NoInventory
INVARIANTS
    GateIsWorstBand
    ForecastHolds
    PlanFollowsBrief
    UseCasesResolve
    FillsStayValid
    
    LocksAreHeld
    PromptKeepsLocks
CHECK_DEADLOCK FALSE
