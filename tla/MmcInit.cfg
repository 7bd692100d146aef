CONSTANTS
    MMC_MAX_COMMAND_RETRY = 3
    SD_CMD8_MAX_RETRY = 3
    SD_ACMD41_MAX_RETRY = 3
    NarrowDdr = FALSE
SPECIFICATION Spec
CHECK_DEADLOCK FALSE
INVARIANT ModesAgree
PROPERTY InitEnds
