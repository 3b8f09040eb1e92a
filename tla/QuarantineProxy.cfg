SPECIFICATION QuarantineSpec
CONSTANTS
    MaxIntercepts = 4
    Burst = 2
CHECK_DEADLOCK FALSE
INVARIANT ShapeTrapsAreLawful
