CONSTANTS
    MAX_PHASES = 8
    MX_DRV_SUPPORTED_HS200 = 3
    DrvSupport = {{0}, {0, 2, 3}, {0, 1, 2, 3}}
    SwitchMayFail = FALSE
SPECIFICATION Spec
CHECK_DEADLOCK FALSE
INVARIANT TunedWell
PROPERTY TuningEnds
