CONSTANTS
    CardTypes = {"mmc"}
    Kinds = {"read", "write"}
    Blocks = 4
    GroupSize = 2
    MaxBlocks = 2
    MMC_MAX_CARD_STAT_RETRY = 3
    RpmbRetry = 4
    MAX_RPMB_CMDS = 2
SPECIFICATION Spec
INVARIANT SuccessMoves
