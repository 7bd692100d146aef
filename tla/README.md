# Verification of HtcOneM8Pkg

HtcOneM8Pkg is UEFI firmware for MSM8974 phones (`src/MSM8974Pkg`): a keypad
driver that turns five buttons into console input, an SD/MMC stack taken over
from lk2nd that gives the boot manager its block devices, and the clock, PMIC,
DMA and interrupt drivers below them. One processor runs all of it; its
concurrency is that of UEFI task priority levels (timer and event callbacks that
interrupt the application) and of hardware that changes registers while the
driver reads them.

This directory holds TLA+ modules of the keypad and the SD/MMC stacks, of the
clock driver with both of its tables, and of the drivers and libraries under
them, the TLC runs that check them, and proofs for TLAPS.
Definitions bear the names of the C functions they translate; `PROJECT.json`
maps each to its lines.

- [Inventory](#inventory)
- [Plan](#plan)
- [The keypad modules](#the-keypad-modules)
- [The MMC modules](#the-mmc-modules)
- [The clock modules](#the-clock-modules)
- [The platform modules](#the-platform-modules)
- [Runs](#runs)
- [Proofs](#proofs)
- [Where the code departs from its comments](#where-the-code-departs-from-its-comments)
- [What is not modelled](#what-is-not-modelled)
- [Running the checks](#running-the-checks)

## Inventory

Paths are relative to `src/MSM8974Pkg`. "Promise" is what makes the component
correct; a name in `code type` is the property that states it.

### Keypad (modelled)

| Part | State | Operations | Promise |
| --- | --- | --- | --- |
| Stroke queue (`Drivers/KeypadDxe/KeypadTextIn.c`) | ring of 256 slots, head, tail | push, pop, is-empty, clear | a first-in first-out queue that drops its oldest key when full (`ImplementsFifo`) |
| Keypad device (`Library/KeypadDeviceImplLib`, `Include/Library/KeypadDeviceHelperLib.h`, `Drivers/GenericKeypadDeviceDxe`) | a context per key (state, time, repeat and long-press flags), bitmaps of held keys | GetKeys every tick, Reset | one Enter per press of Power; repeats are spaced; combinations tell the truth; keys settle (`PowerReportsOnce`, `KeysSettle`, and `PressesTold`, which joins `RepeatSpacing`, `SilentOnlyInCombo` and `ComboTruth`) |
| Keypad driver (`KeypadTextIn.c`, `KeypadController.c`, `Keypad.c`) | readers' queue, notify queue, list of registrations, notify event | timer tick, ReadKeyStroke(Ex), WaitForKey(Ex), Reset(Ex), SetState, (Un)RegisterKeyNotify, notify handler | keys are read in order and once, notifications are neither lost nor doubled (`ReadsInOrder`, `NoLostWakeup`, `NotifiedOnce`, `NotifyQueueDrains`, and `KeysDelivered`, which joins `NotifyComplete` and `PromiseKept`) |
| Driver binding (`Keypad.c`) | protocols opened, ConsoleIn, four events, timer | Start, Stop | a Start that fails at any call and a Stop leave nothing behind and no callback finds freed memory (`BindingSafe`: `NothingLeaked`, `NoUseAfterFree`, `OnlyFreshKeys`) |

The timer handler runs at TPL_NOTIFY and calls the device's GetKeys, which
pushes into the readers' queue and, for keys with a registration, into the
notify queue, and signals the notify event. The DXE core dispatches that event
at TPL_CALLBACK. Applications read at TPL_APPLICATION and raise to TPL_NOTIFY
around their use of the queues. Hard: what happens between two such sections;
overflow; reset in the middle of a press; the timer that is armed before Start
is done.

### SD/MMC (modelled)

| Part | State | Operations | Promise |
| --- | --- | --- | --- |
| Block device (`Drivers/SdhciMMCHSDxe/MMCHS.c`) | none between calls | ReadBlocks, WriteBlocks | exactly the requested bytes move (`SuccessIsComplete`, `OnlyRequested`) and every command fits its registers and the card (`CommandsInRange`, with `InsideCard`) |
| Host controller (`sdhci.c`) | controller registers, descriptor table | send a command, set clock, width, mode | success means answered and moved, a call that returned is over (`KeepsPort`, with `ImplementsPort`; `CallReturns`) |
| Card protocol (`mmc_sdhci.c`) | card record, copy of EXT_CSD | initialise, read, write, erase, write protect, RPMB, sleep, decode the card's registers | card and controller agree (`ModesAgree`: `DeviceAgrees`, `ClockWithinTiming`); what a call returns is true (`CallsTellTruth`: `MultiSuccessMoves`, `SuccessCovers`, `OnlyAskedChanged`, `RpmbSuccessRestores`); the device is as the card describes itself (`CardDescribed`); everything ends (`CallReturns`, `InitEnds`) |
| Tuning (`sdhci_msm.c`) | DLL, saved delay, static flag | tune for HS200, calibrate for HS400 | `TunedWell`: a delay well inside the widest window (`PhaseWellChosen`) and the drive strength put back (`DriverTypeRestored`); an end (`TuningEnds`) |

A block request is cut into commands, each command becomes a descriptor table
and a call of `sdhci_send_command`, which polls registers that the controller
changes meanwhile. Nothing is interrupt-driven except the power switch, which
`GpioIrq` models with the interrupt library it is registered with. Hard:
errors and time-outs that race the completion of a transfer; a command the card
executed and whose answer was lost; two sides that change mode one after the
other; arithmetic at the limits of a 16-bit count, a 16-bit length and a
wrapping EFI_LBA.

### Clocks (modelled)

| Part | State | Operations | Promise |
| --- | --- | --- | --- |
| Clock driver (`Drivers/ClockDxe`: `clock.c`, `clock_lib2.c`, `clock_pll.c`) | a reference count per clock, a recorded rate per root, the gates and configuration registers | look up by name, enable, disable, set rate, reset | counts, gates and sources agree (`BooksMatchHardware`); a root gives the rate on record (`RateAsRecorded`); a call touches its own clock and a failed one nothing (`CallsAreLocal`) |
| Clock tables (`Library/QcomPlatformClockInitLib`) | `msm8974-clock.c`, which the image uses, and `msm8994-clock.c` beside it | set-up of the SD clocks (`acpuclock.c`) | the card's core clock runs at the asked rate (`MmcClockServed`) |

Clients share roots, vote registers and PLLs without knowing of each other. Hard:
sources that every change of rate counts once more and nothing gives back; a rate that is skipped because it is already on record.

### Under the rest (modelled)

| Part | State | Operations | Promise |
| --- | --- | --- | --- |
| SPMI arbiter (`Drivers/SpmiDxe`) | static channel number, channel table, one channel's registers | read, write of 1 to 8 bytes | a call that was not cut into answers truly, and registers change only as written (`SpmiServes`) |
| PMIC (`Drivers/Pm8x41Dxe`) | registers behind the arbiter, two static slave numbers | pins, keys, resets, regulators, MPPs, battery, ADC, charger, WLED, PWM, vibrator | each call leaves what it was asked for and other bits alone (`PmicCallsDone`); set-ups change only while the block is off (`ChangesAreSafe`) |
| Pins (`GPLDriver/GpioTlmmDxe`) | two registers per pin, one for the pads | direction, level, function, strength, pull | the pin is as asked, and never drives a wrong level on the way (`GpioPinsOk`) |
| Interrupts (`Library/InterruptsLib`, `GPLDriver/GpioTlmmInterruptDxe`, the power interrupt of `sdhci_msm.c`) | list of handlers, bitmap of pins, polarity and status registers | register, mask, unmask, acknowledge, dispatch | no handler runs without its entry (`InterruptsExpected`); no level is lost and every power request is answered (`InterruptsServed`) |
| BAM (`Drivers/BamDxe`) | ring of descriptors, offset, pipe | set up, add descriptors, announce, wait, read offset | what is reported done was moved once and in order (`BamMovesTruly`); every transfer ends (`BamTransferEnds`) |
| Shared memory, board, partition tables (`SmemDxe`, `BoardDxe`, `SmemPtableDxe`) | items another processor may rewrite; the copies | read in two passes, decode, look up | board, partitions and RAM are told from one copy of their item (`SmemServes`) |
| Card registers (`mmc_sdhci.c`, `sdhci.c`) | CID, CSD, EXT_CSD, SCR, SSR | read and decode | sizes and groups are what the card says (`CardDescribed`) |
| Console (`Library/FrameBufferSerialPortLib`) | cursor, colour, cells, interrupt flag | write, write critical, clear | the cursor stays in the frame, critical text is yellow, interrupts are given back (`FbConsoleOk`) |
| Heap (`Library/MallocLib`) | header before each block | malloc, memalign, calloc, realloc, free | the firmware gets back exactly what it gave (`HeapBalanced`) |
| Timer (`Library/QTimerLib`) | a counter read in two halves | delays, conversion to time | a delay waits its ticks and does not hang on a wrap (`DelayKept`) |

### Not modelled

| Component | Why |
| --- | --- |
| Slot configuration (`Library/TargetMmcSdhciLib`) | constants; `MmcInit` takes them as CONSTANTS |
| Early boot (`PrePi`, `MemoryInitPei`, `MSM8974PkgLib`) | a straight sequence, executed once by one processor, and memory maps |
| Serial ports over a UART or memory, `FramebufferHelperLib` | no image selects the first two; the third writes display registers |
| Reset, real-time clock (`ResetSystemLib`, `VirtualRealTimeClockLib`), `PlatformBm.c` | the image takes these libraries from other packages |
| Download mode, display, logo, SMBIOS tables, platform driver | single register writes, constant tables, block copies |
| String and C library functions | small sequential functions taken over from other projects |
| Applications, component names, boot shim, image tools, ACPI tables | they keep no promise to another part |

## Plan

Order, most important behaviour first. All modules of it are written:

1. `KeyFifo`, `KeyQueue`: the abstract queue and the ring that implements it.
2. `KeypadDevice`: presses in time. `KeypadDriver`: the actors around the
   queues; it uses `KeyFifo`, which (1) shows the ring implements.
   `KeypadBinding`: the driver's life.
3. `SdhciPort` (abstract), `SdhciCommand` (implements it), `BlockIo`,
   `MmcTransfer`, `MmcTuning`, `MmcInit`.
4. `ClockTable`, `ClockTree`.
5. `SpmiArbiter`, `PmicCalls` and `Pmic`, `GpioPins`, `GpioIrq`, `Bam`, `Smem`,
   `MmcRegisters`, `FbConsole`, `Heap`, `Delay`, and `Platform` around them.
6. The proofs, in a module per group of components: `KeypadDeviceProofs`
   (`KeyQueue`, `KeypadDevice`, `KeypadBinding`), `KeypadDriverProofs`,
   `SdhciCommandProofs`, `MmcCardProofs` (`BlockIo`, `MmcInit`),
   `MmcTransferProofs`, `MsmProofs` (`MmcTuning`, `ClockTree`), and
   `PlatformProofs` and `SpmiProofs` for the parts of `Platform`. A module that
   is proved about together with another one has its part's name in `Init`,
   `Next` and `Spec` (`ClockInit`, `BlockNext`, `BindingSpec`).

Theorems worth proving next: `ChangesAreSafe`, of the power management chip.

## The keypad modules

**KeyFifo** is the promise: a sequence of at most `Capacity` keys, `Push` drops
the oldest when full, `Pop` hands out the oldest. **KeyQueue** is `EFI_KEY_QUEUE`:
`queue` is `[Head, Tail, Buffer]`; `PushEfikeyBufTail`, `PopEfikeyBufHead` and
the clear of a reset are its actions. `ImplementsFifo` instantiates `KeyFifo`
with the contents between head and tail.

**KeypadDevice** has one `ctx` record per key (the `KEY_CONTEXT`) and the bitmap
`held`. `ScanBegin` is the entry of `KeypadDeviceImplGetKeys`; then the five
keys are read one after the other as `index` walks over `KeyList`, each step
one branch of `LibKeyUpdateKeyStatus` (`Press`, `Hold`, `Repeat`,
`LongpressPower`, `LongpressOther`, `ReleaseShort`, `ReleaseLong`, `Settle`,
`StayReleased`) or `SkipKey` when the GPIO cannot be read. The read itself is
the environment: any key in `Moving` is up or down at any read, so bounces of
any pattern are among the behaviours. Times are abstract units and saturate at
`LongTime`, past which the code does not look. Only Power has a UnicodeChar.
`down`, `reports`, `since` and `powerSeen` are history.

**KeypadDriver** takes as one step whatever no other actor can interrupt:
`TimerTick` is the handler at TPL_NOTIFY; each round of the loop of ReadKeyStroke
is an action of its own, because it restores the TPL in between; a read and a poll
scan the keys first, as the tick does; `PopNotify` and `WalkNode` are the
notify handler, one node of the list per step, with ticks in between. An
application runs only while no signalled handler waits (TPL_APPLICATION is the
lowest). Every typed key carries a serial number, so two presses of one key can
be told apart; `owed`, `calls`, `promised`, `floor` and `lastRead` are history.
A registration covered by an existing entry gets that entry's handle, as in the
code. Simplifications: a scan reports at most one key (a scan with more is a
tick with nothing between it and the next); notification functions only return,
they do not call the driver; the lock lights and `KeypadErr` are left out,
`KeypadErr` because nothing ever sets it, which makes its branches dead.

**KeypadBinding** goes through `KeypadControllerDriverStart` call by call; each
call may fail and then `todo` holds the releases of the label ErrorExit, in
their order. Stop is the sequence `StopSequence`, of which uninstalling the
interfaces may fail. The timer ticks in between as soon as it is armed, clients
register and read as soon as the protocols are installed.

## The MMC modules

**SdhciPort** is what `mmc_sdhci.c` relies on. **SdhciCommand** is
`sdhci_send_command` with `sdhci_cmd_complete` and `sdhci_cmd_err_status`: the
wait for free lines, the two polling loops with each register read a step of its
own, the evaluation of the errors and the soft reset. The controller is the
environment: it answers, moves data and raises any error bit between any two
steps. `orderly` is a rigid variable, chosen in `Init`: an orderly controller
reports before the driver's last poll (its own time-outs are shorter than the
driver's patience), resets its lines when told to, and raises no vendor bits.
`ImplementsPort` holds for those; the run `sdhci_late_answer` shows it does not
hold without. `CallReturns` and the types hold for all. Soft reset is one step:
everything is forgotten or, if not orderly, nothing.

**BlockIo** is `MMCHSReadBlocks`/`MMCHSWriteBlocks` down to the descriptor table:
`Verdict` is the sequence of early returns with the wrapping sum of an EFI_LBA,
`SendChunk` one command of `mmc_read`/`mmc_write`, `sdhci_prep_desc_table` the
table with its length field in which a full line is 0, and `Dma` the controller
(external) walking the table. `moved` collects pairs of memory and card bytes.
What a card takes the command's argument for is `CardByte`, kept apart from the
driver's conversion: cards of standard capacity, SD and MMC alike, take it for the
address of a byte, all others for that of a block. The driver converts for
standard MMCs only, so that on a standard SD card other bytes move than those
asked for; `CardTypes` of the run leaves that card out, and the table of
departures shows it.
`mmc_write`'s rounding up to a block never acts, since MMCHS.c passes whole
blocks only.

**MmcTransfer** is the calls of `mmc_sdhci.c` on a card: one step per command,
which ends as the port allows: done; failed unheard; failed but executed by the
card; or, with a data phase, failed after a good answer. The card has a state,
PARTITION_CONFIG, an erase range and its blocks. A status the driver did not get
is the zeros its memset left. Addresses are counted in blocks here, their conversion
being `BlockIo`'s matter; "sd" stands for an SDHC card. Any set of whole groups may
be write protected from before (`protected`), and an erase leaves those out: the
status then has WP_ERASE_SKIP, which the driver prints and takes for success, so
`SuccessCovers` promises the selected blocks without the protected ones and
`EraseComplete`, that all of them are erased, is false. `EraseEnd` holds the
overlap check, which never acts. Erase and write protection start on a group
boundary, which is how their callers' partitions lie. Note that erase, write
protection, RPMB and sleep are exported by the driver and have no caller in the
repository.

**MmcTuning** is `sdhci_msm_execute_tuning`. Which delays pass is the
environment's choice at every test. `Starts`, `End`, `Wraps` and the choice of
the delay are `sdhci_msm_find_appropriate_phase`; the DLL is a register that may
fail to lock; two slots are tried, as `target_mmc_sdhci_init` does; the static
`attempt_cdr_unlock` outlives both.

**MmcInit** is `mmc_init` with `mmc_card_init`: the card's side (`state`,
`width`, `ddr`, `timing`), the controller's (`hostWidth`, `uhs`, `selIn`), the
three parts of the clock (`supply` set by the SDHC divider, `core`, and the
division of MCLK by two) and the driver's `hostTiming`, changed in the order of
the code's writes, for every configuration and card; a switch may fail, executed
or not. 192 MHz is written 200 and 384 is 400. An SD card is taken to have high
speed: the code never looks at the answer to CMD6.

## The clock modules

**ClockTable** is the two tables, row by row: each clock a record of its kind,
parent, registers' presence and frequency rows. Frequencies are in units of
100 Hz and dividers doubled, which makes every value an integer; registers that
two rows share are told apart by name, the others are left out. Rows of the 8994
table whose source is not the PLL their comment names (its SD card root asks
GPLL4, the 50 MHz row of its I2C roots) are as they stand.

**ClockTree** is the driver. `st` holds its books (`count`, `current`) and the
hardware (`on`, `cfg`, `reset`); every operation of the protocol is an action
that runs to its end, since nothing cuts into it. No table gives a clock a `get_parent`, so
`clk_enable` and `clk_disable` count the clock alone; `clock_lib2_rcg_set_rate` looks the
row up, enables the new row's source and programs the root through `ProgramHid` or
`ProgramMnd`, whose masks clear two of the three bits of the source field (clock_lib2.h:108 against
58). A behaviour starts with one table and a group of names, whose clients call
in any order; `ClockInitMmc`, `ClockConfigMmc` and `ClockConfigCdc` are the calls of
`acpuclock.c`. What is compiled of it is lines 105 to 209.

## The platform modules

Ten parts share no state with one another: what one needs of another is a call
that is carried out or refused, which is in the module of the caller. **Platform**
puts them side by side and gives each behaviour one `focus`: the part that moves
while the others rest in one of their initial states. Interleaving them would
multiply their states and show nothing that one at a time does not; the
interleavings that matter, of code, callbacks, other processors and hardware, are
inside the parts. Each part is a specification of its own too (`SpmiSpec`,
`PmicSpec`, `BamSpec`, ...), as the cfgs named after one use it.

**SpmiArbiter**: one register access per step; the timer's poll may begin between
any two accesses of an application's call and runs to its end, over the same
channel registers and static channel number. `InterruptedOn` are the arbiter
versions on which it does. Version 1 has one channel for all peripherals, and
version 2 a table of them.

**PmicCalls** has, for every exported call of `Pm8x41Dxe`, the script of register
accesses it makes; **Pmic** runs the scripts, one access per step, over registers
that start with `PowerOn` bits set. A refused access (`BusErrors`) is ignored, as in
the code: a read then yields zero. A call's later accesses depend on what it has
read so far. Calls come in groups: those of one group share registers.

**GpioPins**: the calls on a pin and on the pads, one register write per step.

**GpioIrq**: `InterruptsLib`'s registration in its single steps (fill, the two
link writes, raise the task priority, register at the controller), a common
handler that walks the list, the pins' driver with mask, unmask, acknowledge and
the loop that emulates a dual edge where the hardware has single edges, and the
SDHC's power interrupt. Pins toggle at any moment. The build's detection width
is 2, in which the hardware detects both edges; 1 is the emulation.

**Bam**: the driver writes descriptors into a ring, announces them through the
event register and waits; the engine takes announced descriptors one by one, may
fail one, and raises the interrupt of a flagged one. No other code of the
repository calls the driver; its transfers are taken from the types of its
interface.

**Smem**: items are read twice, unit by unit, and another processor may rewrite
an item once in between, not taking the lock that the code leaves as a TODO.
Board formats, partition tables and RAM tables of all versions are among the
initial states; the decoding goes through the chip's target and baseband tables.
A partition of RAM may start in the middle of a megabyte, where the assertion of
`get_ddr_start` stops.

**MmcRegisters**: a card's registers as sets of bits, the R2 answers as the
controller shifts them, data blocks in the card's byte order, and the decoding of
each field. Twenty-odd cards: standard and large SD, MMC with and without large
groups, at the limits of the fields. What a code means is taken from the cards'
standards and not from the driver: an allocation unit is a row of `AuTable`, whose codes
above 0xA the driver's power of two does not give (`AuSizes` of the run ends at 0xA),
and the four bytes of SEC_COUNT are unsigned, while the driver's shift extends the sign
of the uppermost (`SectorTops` of the run ends at 127).

**FbConsole**: characters are drawn one by one; in the moments at which the code
turns interrupts on, a handler may write. A newline jumps over the call that turns
them off, so with interrupts on it is taken statement by statement
(`InterruptibleFeed`: the row read, written back, the column, the bound looked at,
screen and row cleared) and a handler may write between any two, with the cursor in
the last row for a moment. So is the look at a space's column
(`LookAtSpace`). With interrupts off a line feed is one step. `StaleIntStates` is what the variable
`intstate` may hold where the jump for a newline goes round its assignment.

**Heap**: addresses are numbers out of small sets; pools and pages are the
firmware's. **Delay**: counter registers of 8 and 4 values, between two reads of
which up to `Lag` ticks pass.

## Runs

| Run | Module | Bounds | Shows |
| --- | --- | --- | --- |
| `key_queue` | KeyQueue | 4 slots, 3 keystrokes | the ring implements the queue; 4 slots wrap and overflow in every position, nothing in the ring depends on more |
| `keypad_device` | KeypadDevice | Power and both volume keys move; bounce 2, repeat 2, long press 3; 1 or 3 units between scans | presses, repeats, combinations, through all bounces, resets and failed reads. 3 units is a scan after LongTime, as after a long absence of the timer; the first Delta after boot is huge |
| `keypad_driver` | MCKeypadDriver | queues of 2, 3 keys typed, 3 registrations | all interleavings with overflow of both queues and partial keys; each registration for a key or shift state of its own |
| `keypad_binding` | KeypadBinding | none needed | failure at any call of Start, Stop that succeeds or fails, callbacks between any two |
| `sdhci_command` | SdhciCommand | 2 tries and polls, 1 or 3 polls of the transfer; six error bits | both promises; 2 is the least that has a poll that is not the last, 1 and 3 are the default and a longer `cmd_timeout` |
| `block_io` | BlockIo | blocks of 2 bytes, lines of 4, 3 blocks per command, 8 blocks, requests up to 9 blocks, 32 LBAs | every request: several commands, several lines, partial last lines, wrapping sums |
| `mmc_transfer` | MmcTransfer | 4 blocks in groups of 2; transfers of 1 or 2 blocks; 3 status polls, 4 for RPMB, 2 RPMB commands | all calls in sequence with any command failing, heard or unheard |
| `mmc_single_block` | MmcTransfer | same, reads and writes | violated, see below |
| `mmc_tuning` | MmcTuning | 8 delays (16 in the code), drive strengths 0 to 3, three kinds of card | every set of passing delays: 8 have windows at all places, across the end, and ties |
| `mmc_init` | MmcInit | 3 tries per loop, all configurations with DDR on 8 lines only | every path to HS, DDR, HS200, HS400 and SD |
| `clock_tree` | ClockTree | both tables; five groups of names; 3 rates; counts up to 2, of sources up to 3 | an SD clock alone, branches under one root, votes in one register (two of them names of one clock), roots on one PLL, a branch with no rate of its own, a reset line |
| `platform` | Platform | see its cfg: 2 SPMI and 2 PMIC calls, 2 pin calls, 2 pins with 3 toggles, a ring of 4 with 3 transfers of up to 9 bytes in descriptors of 2, one rewriting of an item, a screen of 2 columns and 3 rows with 2 calls of 3 characters, 3 heap calls, counter of 8 × 4 | every part keeps its promise; rings, counters and screens wrap, and two calls in a row are the least in which a call can find what another left |

Bounds are constants or guards: `MaxSerial` and `MaxHandles` stop typing and
registering in `KeypadDriver`, and its invariants do not mention them except in
the type. The counts of calls in the platform parts are such bounds too; with
them a behaviour stops, so `platform` and `clock_tree`, whose sources' counts only
grow, are checked without deadlock. `LbaValues` and the others of `BlockIo` scale the real 512-byte
blocks, 65536-byte lines and 65535 blocks per command; `MmcCardProofs` shows the
sizes do not matter. `MmcTuning` and `MmcInit` are runs without a deadlock check,
because the calls they model happen once per boot and end.

**Fairness.** `KeypadDevice`: a scan begins again (the periodic timer) and a scan
that began goes on (straight code). `KeypadDriver`: the notify handler, once
signalled, runs and goes on, which the event dispatcher of the DXE core gives;
typing and reading are not fair. `SdhciCommand`, `MmcTransfer`, `MmcTuning`,
`MmcInit`: code that was entered goes on; nothing but the driver runs. The
controller of `SdhciCommand` is fair only if it is orderly, where "it reports in
time" is what orderly means; `CallReturns` does not need it. `GpioIrq`: the processor takes a pending interrupt
when it can, its client reads after unmasking, and code at high priority goes on.
`Bam`: the driver runs on and the engine works off what it was told of; nothing is
assumed of the rate at which transfers are asked for.

**Joined properties.** A property such as `CallsTellTruth` is the conjunction of
named parts, each with a comment of its own in the module; replace its name in the
cfg by a part's to check that part alone.

**Mutants.** Every property of a passing run has a mutant of the code in
`PROJECT.json`, an operator next to the definition it replaces, under which TLC
finds the property violated: a wrap-around forgotten, a stop command's status
not looked at, events released in another order, and so on.

## Proofs

TLAPS checks, for every value of the constants:

| Theorem | Says | By |
| --- | --- | --- |
| `QueueTypeHolds`, `QueueImplementsFifo` (KeypadDeviceProofs) | the ring stays well formed and implements `KeyFifo` | every step maps to a step: `PopRemovesOldest`, `PushAppends`, `PushImplementsPush`, `EmptiedIsEmpty` about the contents between head and tail |
| `DeviceTypeOK`, `PowerReportsOnceHolds`, `PressesToldHolds` (KeypadDeviceProofs) | types; exactly one keystroke per press of Power; repeats are spaced, silence is a combination, combinations tell the truth | `PowerInv`; `TellInv` |
| `ReadsInOrderHolds`, `NoLostWakeupHolds`, `KeysDeliveredHolds`, `NotifiedOnceHolds` (KeypadDriverProofs) | order of the keys read; nobody waits for a wake-up that does not come; no call owed is forgotten, and what a poll promised can be read; no function is called twice for a key | `OrderInv`, `WakeupInv`, `DeliverInv`, `OnceInv` |
| `BindingIsSafe` (KeypadDeviceProofs) | whatever call of Start or Stop fails: nothing leaks, nothing freed is used, only fresh keys are read | `BindingInv` |
| `BlockIoTypeOK`, `SuccessIsCompleteHolds`, `OnlyRequestedHolds`, `InsideCardHolds`, `CommandsInRangeHolds` (MmcCardProofs) | requests are complete, exact and inside the card, and fit their registers | `IInv` |
| `CardAndControllerAgree` (MmcCardProofs) | card and controller agree on width and mode whenever data is read, and the card is never clocked too fast | `Inv`, whose `Rows` say what holds at each label |
| `CommandTypeOK`, `KeepsPortHolds` (SdhciCommandProofs) | types; with an orderly controller a command implements `SdhciPort` | `PortInv`; every step maps to a step or a stutter |
| `CallsTellTruthHolds` (MmcTransferProofs) | what read, write, erase, write protection and RPMB return is true of the card | `TruthInv` |
| `TuningIsWellChosen` (MsmProofs) | the delay kept lies well inside a longest window, and the drive strength is put back | `Inv`; lemmas about windows on a ring |
| `BooksHold`, `CallsStayLocal`, `RatesHold`, `MmcClockIsServed` (MsmProofs) | counts, gates and sources agree; a call touches its own clock; a root of the build's table gives the rate on record; the card's clock gets what it asks for | `BooksInv`, `RatesInv`, `MmcAsked` |
| `HeapBalancedHolds`, `InterruptsExpectedHolds`, `FbConsoleOkHolds`, `BamMovesTrulyHolds`, `DelayKeptHolds`, `GpioPinsOkHolds`, `SmemServesHolds` (PlatformProofs) | the firmware gets back what it gave; no handler runs without its entry; the console keeps frame, colour and interrupts; what a transfer reports was moved once and in order; a delay waits its time; a pin is as asked and never drives a wrong level; board, modem and RAM are told from one copy of their item, and the flash table is the one in memory | `HeapInv`, `IrqInv`, `ConInv`, `BamInv`, `DelayInv`, `PinInv`, `SmemInv` |
| `SpmiServesHolds` (SpmiProofs) | a call to the arbiter that was not cut into answers truly, and registers change only as written, on both versions and for any bytes | `SpmiInv` |

The theorems of `PlatformProofs` and `SpmiProofs` are about `PlatformSpec`: a lemma
per part (`PinStepOrRest` and the like) says that a step of the platform is one of that part
or leaves it alone.

The assumptions are the named ASSUMEs of the modules: at least two slots;
`0 < BounceTime <= RepeatTime <= LongTime`; positive capacity; positive sizes and
`LbaValues > LastBlock + MaxBufferSize`, which says that a card and a buffer are
smaller than the range of an EFI_LBA; a screen of at least a column and three
rows; aligned pools and page addresses from the firmware; a ring whose size is a
power of two, as the pipe's registers want it; registers of no more bits than they have; versions and
formats in shared memory that are numbers, and a hardware platform that fits its byte
of the target, as all those `smem.h` names do. The bound
variables are not restricted: the proofs of `KeypadDriver` hold for any `MaxSerial` and
`MaxHandles`, those of the platform for any number of calls.

Eleven theorems have a hypothesis of their own, which a run of this directory
satisfies; without it the property is false, as the table of departures shows for
all but the last:

| Hypothesis | Of | Means |
| --- | --- | --- |
| `OneFunctionPerKey` | `NotifiedOnceHolds` | no two functions are registered for one key; otherwise each is called twice |
| `NoStandardSd` | `SuccessIsCompleteHolds`, `OnlyRequestedHolds` | the card is not an SD card of standard capacity, whose addresses the driver does not convert |
| `WholeGroups` | `CallsTellTruthHolds` | an eMMC of whole erase groups; on SD an erase ends short of its range |
| `~NarrowDdr` | `CardAndControllerAgree` | a controller that does DDR has eight lines; with fewer the card is switched to eight all the same |
| `~SwitchMayFail` | `TuningIsWellChosen` | the card carries out the switches of its drive strength; a failed switch back is ignored |
| `InheritedPins = {}` | `InterruptsExpectedHolds` | the stage before left no interrupt on |
| `2 \notin InterruptedOn` | `SpmiServesHolds` | on version 2 of the arbiter the key poll does not cut into a call; on version 1 it may |
| `BamUsed` | `BamMovesTrulyHolds` | the driver initialises the FIFO and asks for no two flags that exclude each other |
| `TablesStand` | `SmemServesHolds` | no other processor rewrites a partition table while it is read (the board's description it may), and `smem_add_modem_partitions` is called once |
| `DelayPaced` | `DelayKeptHolds` | a round of reads is shorter than a turn of the low register, and a delay shorter than one of the counter by a few reads: 2^56 ticks of 19.2 MHz are a hundred years |

The theorems of the clock driver have no hypothesis: its tables are definitions, and
the theorems hold for every behaviour over them, not only for the groups of names
and the three rates of the run. `RatesHold` speaks of the build's table, `chip =
"msm8974"`. Of the rows of `msm8994-clock.c`, which no image of this repository uses,
some do not give the rate they are listed for: 50 MHz of the I2C roots is GPLL0 by 16,
that is 37.5 MHz; 63.16 MHz of the UART roots is GPLL0 by 9.5, rounded; 96 and
384 MHz of an SD card root are GPLL4, listed at 1.6 GHz, by 6 and by 1. The other three
theorems hold over both tables.

Why the properties need strengthening:

- `PowerReportsOnce` speaks of the step that ends a press. `PowerInv` says how
  many keystrokes there have been at each point of it: none while pressed, one
  once the long press was handled, one while its release settles. It also needs
  that no other key has Power's data and that Power never repeats.
- `PressesTold` compares a report with what the hand did. `DataInv` ties the bitmaps
  to the keys last read, whose data nobody else has; `PressInv` says how far a
  press has come by its flags, and that a long press which stayed silent saw Power.
- `ReadsInOrder` compares the queue with the last key read and the last one
  before a reset. `OrderInv` adds that every key in it has been typed, so that
  the next one typed is later than all of them.
- `NoLostWakeup` is nearly inductive; the case that matters is a scan that adds
  to a queue the handler is about to find empty (`ScanSignals`).
- `KeysDelivered` says of an idle handler that everything owed was called.
  `OwedInv` says where an owed call is while it is not: its key waits in the queue,
  or is walked and its node is still ahead. For `NotifiedOnce` the same in the other
  direction (`CalledInv`): a call was made for no key that still waits, and of the
  key that is walked only at nodes behind the walk.
- `BindingSafe` is about every point of Start and Stop. `StartHas` says what each
  call of Start has got so far, `CleanupHas` that a clean-up has released all it
  has passed, wherever it was entered; that it ends with nothing held follows.
- `SuccessIsComplete` needs to know where a request is: `Moved` says that the
  bytes moved are exactly those up to the current one (`Upto`), `Running` ties
  the command's argument, count and table to the chunk. `Walking` ties where the
  controller is on the card to what the card made of the argument, `AsAsked` puts the
  bytes moved where they were asked for if the card takes the argument as the driver
  means it (`ReadAsMeant`), which a standard SD card does not. The rest is arithmetic
  about division, in the lemmas `DivRest`, `LastDescriptor`, `TableEntry`,
  `AcceptedFits` and `ChunkFits`.
- `KeepsPort` needs that a status bit is about the command last written
  (`BitsOwn`), that a phase that is over has left its bit or an error
  (`PhasesClosed`), and that what was read into `int_status` still holds when it is
  looked at (`ReadHolds`): the controller may go on between the two.
- `CallsTellTruth` looks at the call that is over. `EraseInv` follows the range from
  the addresses sent to the blocks changed, less those protected, `ProtectInv` the groups one by one,
  `RetryInv` the counts a status loop is left by.
- `ModesAgree` speaks of the moments at which data is read. `Rows` says, label of
  the bring-up by label, which of the two sides has been changed already and what the
  three parts of the clock are set to; `ClockFits` what every step leaves in place, one
  that fails included; `Retries` bounds the loops.
- `TunedWell` is about the last delay set. `DefaultStrength` says
  where in the call the drive strength may be another than the default, and that this
  is remembered. That the code's search, which walks the
  delays once and joins the row at the end with the one at the start, finds a longest
  window is `ChosenWell`, from lemmas about rows on a ring (`RowWindow`, `WindowInRow`,
  `LongestFits`).
- `BooksMatchHardware` holds between calls. `BooksInv` ties gates to counts (`Follows`),
  sources to the roots recorded for them (`Held`). What needs an argument is the change of
  rate, which counts the new source and moves one root from one source's set to
  another's. That every entry of both tables has the fields and the parents this needs
  is shown section by section (`Sdcc8974Section` and the like).
- `RateAsRecorded` compares the registers with the record. `RatesInv` says that the
  registers of a root produce the recorded row, whichever row was there before
  (`Produces`), the source as far as the mask of its field lets them (`Settled`); that
  each row of the table gives its rate is shown row by row (`ExactRow`).
- `HeapBalanced`: `HeapFits` says that what the firmware has handed out is what the
  headers would give back, each block in a place of its own; the lemmas are about
  alignment.
- `InterruptsExpected`: `IrqList` has the shape of the linked list at every point of
  an insertion, `IrqSources` which vectors are registered and enabled meanwhile.
- `FbConsoleOk`: calls nest, one interrupting the other. `ConColours` says what each
  has to put back, so that the first gives back what it found. `ConRows` says when the
  cursor may be in the last row: only while a call that is in a line feed has
  written the row and not yet cleared the screen (`ConPastEnd`). A handler that
  draws meanwhile draws in the last row at most, which is still in the frame.
- `BamMovesTruly`: `BamCut` and `BamWritten` describe the descriptors cut so far,
  modulo the size of the ring, and `BamMoving` how many of them the engine has taken,
  whatever the client has read by then.
- `DelayKept`: the counter stands at the sum of start and time passed, taken modulo
  its width (`CounterIs`); a round reads a count that lies between two of its
  moments (`RoundIs`); the first count and the last bound the wait (`CountIs`).
- `SpmiServes`: `CommandsOwned` says that a command which waits in a register block
  is one a call waits for, and that the poll has issued none since; `DataIn` which
  bytes of a write are in the data registers; `Landed` what has been carried out for
  a call nobody cut into; `Alone` where the one call may be during the other.
- `GpioPinsOk`: `PinMoving` says what a call between its writes has done; `PadsSet`
  that the pads set so far do not disturb each other, since their bits lie apart.
- `SmemServes` speaks of drivers that have loaded. `ReadingIs` says that the copy so far is
  the beginning of an item that has not changed since, unless the description was
  rewritten; of a mixture of two descriptions what still holds is that the members
  told from one word agree with each other (`TellsTruth`), since each is told from the
  copy. `FlashIs` says part by part what of the table in memory is served.

Only model-checked: all liveness (TLAPS has no rules here for fairness and
ENABLED); `PmicCallsDone` and `CardDescribed`, which compare what a call left or decoded with a
reference definition, call by call and field by field, where a proof would be the
enumeration TLC makes; `ChangesAreSafe`.

## Where the code departs from its comments

One is a run of its own, with a finding in `PROJECT.json`:

- `mmc_single_block`: a one-block transfer whose answer was good and whose data
  phase failed returns success (mmc_sdhci.c:1953); only multi-block transfers
  return the failure.

The others are reproduced with TLC in the same way. The first column is the cfg:
one of this directory, or a run's with constants changed, its properties replaced
by the one of the second column. Each property's comment in the module quotes the
statement it takes from the code.

| Configuration | Property | What the code does |
| --- | --- | --- |
| KeypadNotifyTwice.cfg (MCKeypadDriver) | NotifiedOnce | with two functions registered for one key each is called twice per press: the loop over the registrations queues the key once per match (Keypad.c:182) and the handler calls all matches for each entry. `NotifiedOnce` holds in `keypad_driver`, whose registrations do not overlap |
| SdhciLateAnswer.cfg (SdhciCommand) | SuccessIsOwn | when the driver's own patience ends it returns a failure without resetting the lines (sdhci.c:541); the completion comes later and is taken for the next command's |
| KeypadDevice.cfg, `RepeatTime = 3`, `LongTime = 5`, `Deltas = {3}`, `Moving = {"CameraFocus"}` (KeypadDevice) | ResetReinitialisesKeys | Reset leaves the camera focus key's context (KeypadDeviceImplLib.c:140) |
| KeypadDriver.cfg, `Requests = {}`, `MaxSerial = 2`, `MaxHandles = 0` (MCKeypadDriver) | PollTakesNothing | a poll of WaitForKeyEx drops partial keys ReadKeyStrokeEx would return (KeypadTextIn.c:323) |
| KeypadBinding.cfg (KeypadBinding) | BoundIsScanned | a Stop that fails has already closed the timer (Keypad.c:468) |
| KeypadBinding.cfg (KeypadBinding) | ListExists | the error path walks the list of a NULL ConsoleIn (Keypad.c:393) |
| SdhciVendorError.cfg (SdhciCommand) | ErrorsFail | error bits 10 to 15 are enabled, end the wait and are reported as success (sdhci.h:189) |
| SdhciCommand.cfg, `ErrorBits = {"CMD_TIMEOUT", "CMD_CRC", "DAT_TIMEOUT", "DAT_CRC", "DAT_END_BIT"}`, `Conducts = {TRUE}` (SdhciCommand) | TuningSeesDataErrors | while tuning a data end bit error does not end the wait (sdhci.c:529) |
| BlockIo.cfg, `CardTypes = {"STD_SD", "SDHC", "STD_MMC", "MMCHC"}` (BlockIo) | SuccessIsComplete, OnlyRequested | an SD card of standard capacity, for which the driver has a type of its own (mmc_sdhci.c:1324), is sent the number of a block where it takes the address of a byte: the conversion asks for STD_MMC only (mmc_sdhci.c:1915, 1985) |
| MmcTransfer.cfg (MmcTransfer) | EraseComplete | a status that says that only part of the range was erased, the rest being write protected, is printed and 0 returned (mmc_sdhci.c:2139) |
| MmcEraseSd.cfg (MmcTransfer) | SuccessCovers | on SD the end address is the first block of the last unit (mmc_sdhci.c:2211) |
| MmcTransfer.cfg, `Kinds = {"rpmb"}` (MmcTransfer) | RpmbSwitchesBack | a switch to RPMB whose status is lost is not undone (mmc_sdhci.c:2492) |
| MmcRpmbTimeout.cfg (MmcTransfer) | TimeoutMeansBusy | one retry count for all RPMB commands, last poll discarded (mmc_sdhci.c:2522) |
| MmcTransfer.cfg, `Kinds = {"wp", "rpmb"}` (MmcTransfer) | BootConfigKept | after a failed EXT_CSD read a switch clears the boot configuration (mmc_sdhci.c:2449) |
| MmcDriverType.cfg (MmcTuning) | DriverTypeRestored | a failed switch back of the drive strength is ignored (sdhci_msm.c:828) |
| MmcTuning.cfg (MmcTuning) | SuccessIsConfigured | a DLL that does not take the chosen delay ends in success (sdhci_msm.c:860) |
| MmcTuning.cfg (MmcTuning) | CdrAfterAllPassed | attempt_cdr_unlock is never reset (sdhci_msm.c:875) |
| MmcNarrowDdr.cfg (MmcInit) | DeviceAgrees | DDR always switches the card to 8 lines (mmc_sdhci.c:946) |
| MmcInit.cfg (MmcInit) | DividerDisabled | the MCLK divider stays on after the tuning of HS200 (mmc_sdhci.c:918) |
| ClockSource.cfg (ClockTree) | EveryRateAsRecorded | the mask of the source field misses its third bit: a root that goes from a source above 3 to one below keeps it (clock_lib2.h:108) |
| ClockTree.cfg, `ChipsUsed = {"msm8974"}`, `NameGroups = {{"mdss_axi_clk", "mmss_s0_axi_clk"}}` (ClockTree) | RateIsOwn | a rate asked for through one branch changes the rate of every other under the root |
| ClockTree.cfg, `ChipsUsed = {"msm8974"}`, `NameGroups = {{"edp_aux_clk"}}` (ClockTree) | NoWildAccess | the eDP roots of the tables have no configuration registers; setting their rate writes near address 0 |
| SpmiInterrupted.cfg (SpmiArbiter) | InterruptedTrue | a poll that cuts into a call takes over its channel; the call returns 0 with the other's data (spmi.c:148) |
| Platform.cfg, `InterruptedOn = {2}` (Platform) | SpmiServes | on version 2 a poll that cuts in leaves its own channel behind: the rest of the interrupted call goes to the poll's peripheral |
| PmicBusError.cfg (Pmic) | ResetArmed | a refused SPMI access goes unnoticed: the reset is not what was configured (pm8x41.c:58) |
| Platform.cfg, `PmicGroups = {"adc"}` (Platform) | UnsupportedRefused | a channel that is in no table is measured all the same, as the last entry of the table says: get_channel_prop never returns NULL (pm8x41_adc.c:57) |
| Platform.cfg, `PmicGroups = {"pwm"}` (Platform) | PwmPeriodKept | periods beyond the longest the chip has, here five minutes, are programmed with the nearest error found and not refused |
| Platform.cfg, `PmicGroups = {"wled"}` (Platform) | WledOneSlave | wled_config writes some registers to the configured slave and the LAB's to another |
| Platform.cfg, `InheritedPins = {1}` (Platform) | InterruptsExpected | an interrupt left on by the stage before is taken when the summary is unmasked, and has no handler |
| Platform.cfg, `DetectionWidths = {1}` (Platform) | EmulatedKnown | with single-edge hardware a level may be lost; the build's is not |
| BamFullRing.cfg (Bam) | AcceptedAnnounced | a transfer of as many descriptors as slots is accepted and never announced (bam.c:339 against 255) |
| Platform.cfg, `BamFlags = {{"INT", "LOCK", "UNLOCK"}, {"EOT"}, {"INT", "EOT"}, {"INT", "CMD"}, {"INT", "LOCK"}}` (Platform) | OnlyWritten | LOCK together with UNLOCK is refused by bam_add_one_desc, whose result is ignored: the event announces a descriptor nobody wrote (bam.c:417) |
| Platform.cfg, `FifoSetUps = {FALSE}` (Platform) | OnlyWritten | on a pipe whose FIFO was never initialised nothing is written and the event is generated all the same |
| Platform.cfg (Platform) | BoardOfOneDescription | two reads without the lock of the TODO at smem.c:74: the chip may come from one description and the platform from the next |
| Platform.cfg (Platform) | TableWithinRead | the number of partitions is compared with the room of the copy (smem_ptable.c:79) and not with the version's limit: a version 3 table of 17 to 32 passes, though a version 3 read copies 16 |
| SmemTornTable.cfg (Smem) | TableWithinRead | the number of partitions is checked on a first read and used from a second (smem_ptable.c:79) |
| Platform.cfg (Platform) | DdrIsDdr | the start of the RAM is looked for among SDRAM and IMEM partitions, smem_ram_ptn_is_ddr knows SDRAM and the EBI chip selects (smem_ptable.c:271, smem.h:724) |
| Platform.cfg, `HwPlatforms = {8, 12}` (Platform) | PlatformNamed | HW_PLATFORM_IPC (12) is a platform of smem.h:500 and has no entry in the table of names |
| Platform.cfg, `AddCalls = 2` (Platform) | ModemPartitionsNamed | the names are cut in place by strtok: a second call adds the partitions under their first parts (smem_ptable.c:133) |
| Platform.cfg (Platform) | WpGroupDecoded | an SD card's write-protect group is computed from fields nobody assigned |
| Platform.cfg, `AuSizes = {11}` (Platform) | CardDescribed | the erase unit is computed as a power of two (mmc_sdhci.c:1387); the codes 0xB to 0xF mean 12, 16, 24, 32 and 64 MB |
| Platform.cfg, `SectorTops = {128}` (Platform) | CardDescribed | the uppermost byte of SEC_COUNT is shifted as a signed number (mmc_sdhci.c:223): a card of 2^31 sectors or more gets a capacity far beyond its own |
| Platform.cfg (Platform) | CursorAboveLastRow | a handler writes while a line feed is between the increment of the row and the clear of the screen (FrameBufferSerialPortLib.c:173-175), and draws in the row that is about to be cleared |
| Platform.cfg (Platform) | WhiteUnlessCritical | a handler that writes during a critical write writes in yellow |
| Platform.cfg (Platform) | InterruptsKept | a newline enables interrupts by an uninitialised variable (FrameBufferSerialPortLib.c:181) |
| Platform.cfg, `AlignedRealloc = TRUE` (Platform) | ReallocAligned | realloc of an aligned block prints an error and goes on |
| Platform.cfg (Platform) | DelayNotShort | a delay is rounded down to ticks (QTimerLib.c:57) |

The corresponding passing runs exclude exactly these cases through a constant
(`Requests`, `Conducts`, `CardTypes`, `SwitchMayFail`, `NarrowDdr`, `InterruptedOn`,
`BusErrors`, `InheritedPins`, `BamFlags`, `FifoSetUps`, `AuSizes`, `SectorTops`,
`AlignedRealloc` and others) or do not state the property.

## What is not modelled

- The components listed under [Not modelled](#not-modelled): constant tables,
  one-shot start-up sequences, register writes without state, pure formatting and
  layout, programs that use the firmware.
- Keypad: `Supported` and the component names; notification functions that call
  back into the driver; scans that report more than one key at once.
- SD/MMC: `sdhci_init` and the writes of the power switch, `mmc_get_wp_status` (one
  read), the erase time-out in milliseconds (a count of polls here). The buffers of
  SSR, SCR and EXT_CSD are never freed; the month and the year of an MMC's CID come
  out swapped; `sdhci_set_bus_width` sets the new width without clearing the old;
  a large MMC's HC_WP_GRP_SIZE is not looked at. None of it has a property.
- Clocks: the polls for the hardware's answer, which is taken to come; `acpuclock.c`
  outside lines 105 to 209, which is not compiled; `clock-local.c` and the MMC clock
  override library, which nothing uses.
- Platform: waits of the arbiter and of the ADC are without time-out in the code and
  taken to end. Of the PMIC, the values of regulators below their minimum, a PWM of
  six bits (its upper byte is not initialised) and an ADC whose two references are
  equal are left out. `smem_get_alloc_entry` and `board_pmic_info` hand out words as
  they are. RAM behind an EBI chip select is left out of `RamKinds`: `get_ddr_start` would
  not find it and return 0, since the assertion for that case is of a string, which is never
  false. In `malloc.c`, sums that overflow and the signature left behind by a
  free. Scrolling of the console (`FbConScrollUp`) and the display's refresh. The
  timer's DXE set-up.
- The rest of edk2: event dispatch, timers and TPLs are external, modelled by
  what the drivers use of them.

## Running the checks

    tlc -workers 2 -config KeyQueue.cfg KeyQueue
    tlapm KeypadDeviceProofs.tla

The cfg of a run is in `PROJECT.json`. The longest runs, `clock_tree`, `platform` and
`keypad_device`, take two to three minutes, `mmc_tuning` half a minute and the
others less. `PlatformProofs` takes twenty minutes from nothing, `MsmProofs`, `SpmiProofs`,
`MmcTransferProofs` and `KeypadDriverProofs` a few, the other proof modules seconds.
