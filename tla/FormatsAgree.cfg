\* DiagReport on two device slots.
CONSTANTS
    NumDevices <- MCNumDevices
    GpuTests <- MCOneGpuTest
    LevelOneTests <- MCLevelOneWithCuda
    CudaRuntimeTest <- MCCudaRuntimeTest
    ErrSlots = 1
    ZeroStatus <- MCZeroStatus
    FilterChoices <- MCFilterChoices
    JsonModes <- MCJsonModes

SPECIFICATION Spec
INVARIANT FormatsAgree

\* RunDiagOnce returns after the report: those states have no successor.
CHECK_DEADLOCK FALSE
