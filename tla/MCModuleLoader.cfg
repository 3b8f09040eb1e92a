SPECIFICATION LoaderSpec
CONSTANTS
    a = a
    b = b
    clean = clean
    dirty = dirty
    Rulesets <- MCRulesets
    EmptyRules <- NoRules
    Absent = Absent
    Malformed = Malformed
    NullDoc = NullDoc
    NoHash = NoHash
    Configs <- MCConfigs
    Path <- MCPath
    Content <- MCContent
    Dirty <- MCDirty
    Split <- MCSplit
    CrossFile = TRUE
    Keys <- MCKeys
    NoKey = NoKey
    Identity <- MCIdentity
    Interop <- MCPath
    Seeded <- NoPaths
    CachePolicy = "block"
    Root = Root
    None = None
    Done = Done
    MaxDepth = 2
CHECK_DEADLOCK FALSE
INVARIANTS
    LoaderTypeOK
    OwnEntriesVerified
    CachedScansPassed
    LinkedSourceWasScanned
    ManifestOnlyEscalates
    CacheGateExact
    AnalysedPairNeverPasses
PROPERTIES
    ImplementsGate
