SPECIFICATION Spec
CONSTANTS
    Procs = {p1, p2}
    Deployments <- MCDeployments
    Patterns <- MCPatterns
    RoutingKeys <- MCKeys
    Matches <- MCMatches
    Overlaps <- MCOverlaps
    MaxDeploys = 3
    MaxStarts = 2
SYMMETRY ProcSymmetry
INVARIANTS TypeOK UniqueDispatch OrphansAreForeign StartedIsBacked
    HandledTwiceNeedsRetry ResponsesHaveExchange TopologyIsExported
CHECK_DEADLOCK FALSE
