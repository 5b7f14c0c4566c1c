CONSTANTS
    Iterations <- MCIterations
    EngineCodes <- MCEngineCodes
    JsonModes <- MCJsonModes
    MaxSignals <- MCMaxSignals

SPECIFICATION Spec

PROPERTY SignalsKeepDefault

\* RunStartDiag returns and the process exits: those states have no successor.
CHECK_DEADLOCK FALSE
