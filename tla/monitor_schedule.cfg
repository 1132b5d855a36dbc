SPECIFICATION Spec
CONSTANTS
    BootClocks = {0, 6}
    NJobs = 3
    Interval <- ThreeIntervals
    MaxDuration <- ThreeDurations
    PassTime <- ThreePassTimes
    MaxOversleep = 1
    MaxTime = 10
INVARIANTS
    LatenessBounded
PROPERTIES
    AtMostOneCatchUp
    StopIsPrompt
CHECK_DEADLOCK FALSE
