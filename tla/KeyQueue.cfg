CONSTANTS
    KEYPAD_EFI_KEY_MAX_COUNT = 4
    ZeroKey = ZeroKey
    NoKey = NoKey
    KeyData = {ZeroKey, k1, k2}
SPECIFICATION QueueSpec
INVARIANT QueueTypeOK
PROPERTY ImplementsFifo
