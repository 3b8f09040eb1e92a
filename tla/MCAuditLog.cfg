SPECIFICATION Spec
CONSTANTS
    p1 = p1
    Proc <- OneProc
    MaxRotations = 4
    MaxSize = 1
    MaxEvents = 15
    Faults <- AllFaults
    NoSegment = NoSegment
CHECK_DEADLOCK FALSE
INVARIANTS
    TypeOK
    KeepsGenerations
    WritesToActive
PROPERTIES
    OnlyOldestDiscarded
