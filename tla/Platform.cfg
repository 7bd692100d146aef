CONSTANTS
  Versions = {1, 2}
  InterruptedOn = {1}
  Slaves = {0, 1}
  Sizes = {1, 6}
  Values = {1}
  SpmiCalls = 2
  PmicGroups = {"gpio", "key", "reset", "reset v2", "ldo", "mpp", "battery", "adc", "charger", "wled", "pwm", "misc"}
  PmicCallCount = 2
  PowerOn = {2, 7}
  BusErrors = 0
  PinCalls = 2
  PinResets = {{}, {0, 2, 5, 7, 9}}
  IrqPins = {1, 2}
  DetectionWidths = {1, 2}
  IrqTypes = {"both", "falling"}
  InheritedPins = {}
  PinToggles = 3
  PowerRequests = 1
  FifoSize = 4
  DescLen = 2
  BamLengths = {0, 1, 6, 9}
  BamFlags = {{"INT"}, {"EOT"}, {"INT", "EOT"}, {"INT", "CMD"}, {"INT", "LOCK"}}
  FifoSetUps = {TRUE}
  BamTransfers = 3
  BamErrors = 1
  Formats = {5, 6, 7, 8, 9, 10}
  Majors = {0, 1}
  ChipIds = {126, 184, 194, 207}
  Subtypes = {1, 2}
  HwPlatforms = {8}
  Tags = {1, 2}
  FlashVersions = {3, 4, 5}
  RamVersions = {0, 1, 2, 3}
  PartsV3 = 2
  PartsV4 = 4
  RamKinds = {"modem", "sdram", "imem"}
  Rewritten = {"board"}
  Rewrites = 1
  AddCalls = 1
  BaseRates = {50, 255}
  ClockRates = {400000, 50000000}
  AuSizes = {1, 10}
  SectorTops = {127}
  StaleFields = {0, 7}
  Width = 14
  Height = 40
  TextLengths = {3}
  ConsoleWrites = 2
  StaleIntStates = {TRUE, FALSE}
  Boundaries = {32, 8192}
  HeapSizes = {0, 4080, 5000}
  PoolBases = {40, 8000, 16400}
  PageBases = {24576, 32768, 40960}
  HeapCalls = 3
  AlignedRealloc = FALSE
  Low = 8
  High = 4
  Frequency = 19
  MicroPerSecond = 10
  NanoPerMicro = 4
  Delays = {3, 18}
  Lag = 1
SPECIFICATION PlatformSpec
CHECK_DEADLOCK FALSE
INVARIANT PmicCallsDone
INVARIANT GpioPinsOk
INVARIANT InterruptsExpected
INVARIANT BamMovesTruly
INVARIANT SmemServes
INVARIANT CardDescribed
INVARIANT FbConsoleOk
INVARIANT HeapBalanced
INVARIANT DelayKept
PROPERTY SpmiServes
PROPERTY ChangesAreSafe
PROPERTY InterruptsServed
PROPERTY BamTransferEnds
