CONSTANTS
    CardTypes = {"SDHC", "STD_MMC", "MMCHC"}
    BlockSize = 2
    SDHCI_ADMA_DESC_LINE_SZ = 4
    MaxBlkCnt = 3
    LastBlock = 7
    LbaValues = 32
    MaxBufferSize = 18
SPECIFICATION BlockSpec
INVARIANTS  OnlyRequested CommandsInRange
