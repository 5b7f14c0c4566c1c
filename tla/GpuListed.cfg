\* DiagReport on two device slots.
CONSTANTS
    NumDevices <- MCNumDevices
    GpuTests <- MCGpuTests
    LevelOneTests <- MCLevelOneTests
    CudaRuntimeTest <- MCCudaRuntimeTest
    ErrSlots = 1
    ZeroStatus <- MCZeroStatus
    FilterChoices <- MCFilterChoices
    JsonModes <- MCJsonModes

SPECIFICATION Spec
INVARIANT GpuListedEveryTest

\* RunDiagOnce returns after the report: those states have no successor.
CHECK_DEADLOCK FALSE
