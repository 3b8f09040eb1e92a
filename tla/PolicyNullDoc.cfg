SPECIFICATION FairSpec
CONSTANTS
    r1 = r1
    r2 = r2
    r3 = r3
    Rulesets <- MCRulesets
    EmptyRules = EmptyRules
    Absent = Absent
    Malformed = Malformed
    NullDoc = NullDoc
    NoHash = NoHash
    Configs <- MCConfigs
CHECK_DEADLOCK FALSE
PROPERTIES
    NullDocLocks
