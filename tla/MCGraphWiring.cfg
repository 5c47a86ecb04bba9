SPECIFICATION WiringSpec
CONSTANTS
    a = a
    b = b
    c = c
    x = x
    t = t
    u = u
    NoName = NoName
    Wrong = Wrong
    NoDocument = NoDocument
    Strings <- Names
    OptionSets <- AllOptions
    Configs <- AllConfigs
    TypeNames <- Types
    MaxRegistrations = 3
    Documents <- AllDocuments
    Extensions <- Parsers
    Overrides <- AllOverrides
    Hardware <- Concurrency
    StaticTypes <- OneType
    Preloads <- AllPreloads
INVARIANTS
    TypeOK
    AcceptedIsAcyclic
    CycleIsReal
    RegistryFollowsTokens
    WiredAcyclic
    EveryInputFed
    EveryNodeServed
PROPERTIES
    InitializeReturns
CHECK_DEADLOCK FALSE
