\* DiagReport on two device slots.
CONSTANTS
    NumDevices <- MCNumDevices
    GpuTests <- MCOneGpuTest
    LevelOneTests <- MCLevelOneTests
    CudaRuntimeTest <- MCCudaRuntimeTest
    ErrSlots = 2
    ZeroStatus <- MCZeroStatus
    FilterChoices <- MCFilterChoices
    JsonModes <- MCJsonModes

SPECIFICATION Spec
INVARIANT TypeOK
INVARIANT IsolatePrecedence

\* RunDiagOnce returns after the report: those states have no successor.
CHECK_DEADLOCK FALSE
