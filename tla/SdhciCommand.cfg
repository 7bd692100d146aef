CONSTANTS
    LINES_TRIES = 2
    SDHCI_MAX_CMD_RETRY = 2
    TransRetries = {1, 3}
    ErrorBits = {"CMD_TIMEOUT", "CMD_CRC", "DAT_TIMEOUT", "DAT_CRC", "DAT_END_BIT", "VENDOR"}
    Conducts = {TRUE, FALSE}
SPECIFICATION Spec
PROPERTIES KeepsPort CallReturns
