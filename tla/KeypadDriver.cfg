CONSTANTS
    Codes = {"CR", "NULL"}
    Requests <- OnePerKey
    Capacity = 2
    MaxSerial = 3
    MaxHandles = 3
SPECIFICATION Spec
INVARIANTS NoLostWakeup ReadsInOrder KeysDelivered
PROPERTIES NotifiedOnce NotifyQueueDrains
