CONSTANTS
    BounceTime = 2
    RepeatTime = 2
    LongTime = 3
    Deltas = {1, 3}
    Moving = {"Power", "VolumeUp", "VolumeDown"}
SPECIFICATION Spec
INVARIANT TypeOK
PROPERTIES PowerReportsOnce PressesTold KeysSettle
