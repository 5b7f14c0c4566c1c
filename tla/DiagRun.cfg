CONSTANTS
    Iterations <- MCIterations
    EngineCodes <- MCEngineCodes
    JsonModes <- MCJsonModes
    MaxSignals <- MCMaxSignals

SPECIFICATION Spec

INVARIANT TypeOK
INVARIANT EngineExclusive
INVARIANT IterationOutcome
INVARIANT SuccessLeavesEngineIdle
INVARIANT SingleAbort
PROPERTY CancellationTerminates
PROPERTY DispatchesCurrentIteration
PROPERTY LoopRefinement

\* RunStartDiag returns and the process exits: those states have no successor.
CHECK_DEADLOCK FALSE
