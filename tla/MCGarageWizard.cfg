SPECIFICATION Spec
CONSTANTS
    Targets <- MCTargets
    Attempts = 3
    MaxFails = 4
INVARIANTS TypeOK MeasuresWhatItNames RecordingEnds MeasurementsAreKept
CHECK_DEADLOCK FALSE
