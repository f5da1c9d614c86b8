SPECIFICATION Spec
CONSTANTS
    Emitters = {e1, e2}
    Keys <- MCKeys
    Mappers <- MCMappers
    MaxEvents = 2
    MaxInits = 2
SYMMETRY EmitterSymmetry
INVARIANTS OnlyMappedLabels CountersMatchDurations
CHECK_DEADLOCK FALSE
