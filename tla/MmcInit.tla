------------------------------- MODULE MmcInit -------------------------------
(* mmc_init and mmc_card_init (mmc_sdhci.c): a card is identified as MMC or  *)
(* SD and brought, by one switch command after the other, to the fastest    *)
(* mode it shares with the controller.  Card and controller each keep their *)
(* own idea of bus width, data rate and timing, and the clock is made of    *)
(* three parts; the order of the writes decides whether they agree.  Each   *)
(* slot gets a new device, so one call is modelled.                         *)
EXTENDS Naturals

CONSTANTS
    MMC_MAX_COMMAND_RETRY,      \* of CMD1
    SD_CMD8_MAX_RETRY,
    SD_ACMD41_MAX_RETRY,
    NarrowDdr                   \* BOOLEAN: DDR controllers with under 8 lines

ASSUME RetriesAssumption ==
    /\ {MMC_MAX_COMMAND_RETRY, SD_CMD8_MAX_RETRY, SD_ACMD41_MAX_RETRY} \subseteq Nat \ {0}
    /\ NarrowDdr \in BOOLEAN

\* The target's bus_width and hs400_support, and host->caps.
Config == [width : {1, 4, 8}, hs400 : BOOLEAN, bus8 : BOOLEAN, sdr104 : BOOLEAN, ddr : BOOLEAN]

\* A card: what it is, whether an SD card has 4 lines, the DEVICE_TYPE of an
\* MMC, and whether its RST_n function has to be enabled.
Card == [type : {"mmc", "sd"}, wide : BOOLEAN, modes : SUBSET {"hs400", "hs200", "ddr"},
         rst_n : BOOLEAN]

VARIABLES
    pc, retry, result,
    cfg, card,
    bus_width,                      \* chosen by mmc_card_init
    state, width, ddr, timing,      \* the card's
    hostWidth, uhs, selIn,          \* the controller's
    supply, core, mclk2,            \* SDHC clock, core clock, MCLK divided by 2
    hostTiming, tuning_done         \* host->timing, msm_host->tuning_done

cardSide == <<state, width, ddr, timing>>
modeRegs == <<hostWidth, uhs, selIn>>
clocks == <<supply, core, mclk2>>
saved == <<hostTiming, tuning_done>>
vars == <<pc, retry, result, cfg, card, bus_width, cardSide, modeRegs, clocks, saved>>

\* After mmc_host_init: one line, the slowest mode, 400 kHz (here 0 MHz).
Init ==
    /\ pc = "CMD0" /\ retry = 0 /\ result = "none"
    /\ cfg \in {c \in Config : ~c.ddr \/ NarrowDdr \/ (c.width = 8 /\ c.bus8)}
    /\ card \in Card
    /\ bus_width = 1
    /\ state = "idle" /\ width = 1 /\ ddr = FALSE /\ timing = "legacy"
    /\ hostWidth = 1 /\ uhs = "SDR12" /\ selIn = FALSE
    /\ supply = 0 /\ core = 200 /\ mclk2 = FALSE
    /\ hostTiming = "SDR12" /\ tuning_done = FALSE

-----------------------------------------------------------------------------
(* Helpers *)

Goto(label) == pc' = label /\ UNCHANGED result
Fail == pc' = "done" /\ result' = "NULL"

\* sdhci_set_uhs_mode, with the clock it supplies.
sdhci_set_uhs_mode(mode) ==
    /\ uhs' = mode
    /\ supply' = CASE mode = "SDR104" -> 200
                   [] mode = "SDR12"  -> 25
                   [] OTHER           -> 50

\* sdhci_msm_set_mci_clk for host->timing: HS400 divides MCLK, and is selected
\* over the mode register once the tuning is done; other timings give the mode
\* back to the register and leave the divider.
sdhci_msm_set_mci_clk(mode) ==
    /\ mclk2' = (mclk2 \/ mode = "HS400")
    /\ selIn' = IF mode = "HS400" THEN selIn \/ tuning_done ELSE FALSE

\* mmc_switch_cmd: CMD6 with its status; a failure does not tell whether the
\* card has switched.
Switch(w, d, t, next) ==
    \/ width' = w /\ ddr' = d /\ timing' = t /\ next
    \/ /\ Fail
       /\ \/ width' = w /\ ddr' = d /\ timing' = t
          \/ UNCHANGED <<width, ddr, timing>>
       /\ UNCHANGED <<modeRegs, clocks, saved>>

-----------------------------------------------------------------------------
(* Identification *)

\* mmc_reset_card: without an MMC's answer an SD card is tried.
ResetCard ==
    /\ pc = "CMD0"
    /\ \/ Goto("CMD1") \/ Goto("CMD8")
    /\ UNCHANGED <<retry, cfg, card, bus_width, cardSide, modeRegs, clocks, saved>>

\* Mutant of SendOpCond: the tries start again instead of ending.
SendOpCondForever ==
    /\ pc = "CMD1"
    /\ \/ /\ card.type = "mmc"
          /\ Goto("identify") /\ state' = "ready"
          /\ UNCHANGED retry
       \/ /\ card.type = "mmc"
          /\ Goto("CMD1") /\ retry' = (retry + 1) % MMC_MAX_COMMAND_RETRY
          /\ UNCHANGED state
       \/ Goto("CMD8") /\ retry' = 0 /\ UNCHANGED state
    /\ UNCHANGED <<cfg, card, bus_width, width, ddr, timing, modeRegs, clocks, saved>>

\* mmc_send_op_cond: until the card is no longer busy.
SendOpCond ==
    /\ pc = "CMD1"
    /\ \/ /\ card.type = "mmc"
          /\ Goto("identify") /\ state' = "ready"
          /\ UNCHANGED retry
       \/ /\ card.type = "mmc"
          /\ IF retry + 1 < MMC_MAX_COMMAND_RETRY
             THEN Goto("CMD1") /\ retry' = retry + 1
             ELSE Goto("CMD8") /\ retry' = 0
          /\ UNCHANGED state
       \/ Goto("CMD8") /\ retry' = 0 /\ UNCHANGED state
    /\ UNCHANGED <<cfg, card, bus_width, width, ddr, timing, modeRegs, clocks, saved>>

\* mmc_sd_card_init: CMD8 until it echoes the voltage, ACMD41 until the card is
\* ready; an MMC answers neither.
SdCardInit ==
    /\ \/ /\ pc = "CMD8" /\ card.type = "sd"
          /\ \/ Goto("ACMD41") /\ retry' = 0
             \/ IF retry + 1 < SD_CMD8_MAX_RETRY
                THEN Goto("CMD8") /\ retry' = retry + 1
                ELSE Fail /\ UNCHANGED retry
          /\ UNCHANGED state
       \/ /\ pc = "ACMD41"
          /\ \/ Goto("identify") /\ state' = "ready" /\ UNCHANGED retry
             \/ /\ IF retry + 1 < SD_ACMD41_MAX_RETRY
                   THEN Goto("ACMD41") /\ retry' = retry + 1
                   ELSE Fail /\ UNCHANGED retry
                /\ UNCHANGED state
       \/ /\ pc \in {"CMD8", "ACMD41"}
          /\ Fail /\ UNCHANGED <<retry, state>>
    /\ UNCHANGED <<cfg, card, bus_width, width, ddr, timing, modeRegs, clocks, saved>>

\* mmc_identify_card: CMD2, CMD3, CMD9 and CMD7 take the card to the transfer
\* state; one that fails ends the initialisation.
Identify ==
    /\ pc = "identify"
    /\ \/ /\ state # "stby"
          /\ state' = IF state = "ready" THEN "ident" ELSE "stby"
          /\ Goto("identify")
       \/ state = "stby" /\ state' = "tran" /\ Goto("hsInterface")
       \/ Fail /\ UNCHANGED state
    /\ UNCHANGED <<retry, cfg, card, bus_width, width, ddr, timing, modeRegs, clocks, saved>>

-----------------------------------------------------------------------------
(* Speed and width *)

\* Mutant of SetHsInterface: the controller is not told.
SetHsInterfaceCardOnly(label, next) ==
    /\ pc = label
    /\ Switch(width, ddr, "hs", Goto(next) /\ UNCHANGED <<modeRegs, clocks, saved>>)
    /\ UNCHANGED <<retry, cfg, card, bus_width, state>>

\* mmc_set_hs_interface: the card first, then the controller.
SetHsInterface(label, next) ==
    /\ pc = label
    /\ Switch(width, ddr, "hs",
          /\ Goto(next)
          /\ sdhci_set_uhs_mode("SDR25") /\ hostTiming' = "SDR25"
          /\ UNCHANGED <<hostWidth, selIn, core, mclk2, tuning_done>>)
    /\ UNCHANGED <<retry, cfg, card, bus_width, state>>

HsInterface == card.type = "mmc" /\ SetHsInterface("hsInterface", "data")

\* mmc_sd_set_hs: CMD6 is a data command of an SD card, whose answer is not
\* looked at (the card is taken to have high speed); host->timing is kept.
SdSetHs ==
    /\ pc = "hsInterface" /\ card.type = "sd"
    /\ \/ /\ timing' = "hs" /\ Goto("data")
          /\ sdhci_set_uhs_mode("SDR25")
       \/ /\ Fail /\ timing' \in {timing, "hs"}
          /\ UNCHANGED <<uhs, supply>>
    /\ UNCHANGED <<retry, cfg, card, bus_width, state, width, ddr, hostWidth, selIn,
                   core, mclk2, saved>>

\* The data read in between: EXT_CSD of an MMC, SCR and SD status of an SD card.
ReadRegisters ==
    /\ pc = "data"
    /\ Goto(IF card.type = "mmc" THEN "width" ELSE "sdWidth") \/ Fail
    /\ UNCHANGED <<retry, cfg, card, bus_width, cardSide, modeRegs, clocks, saved>>

\* The mode an MMC is brought to: HS400, HS200, DDR or high speed.
Path ==
    IF cfg.hs400 /\ "hs400" \in card.modes THEN "hs400"
    ELSE IF cfg.sdr104 /\ "hs200" \in card.modes THEN "hs200"
    ELSE IF cfg.ddr /\ "ddr" \in card.modes THEN "ddr"
    ELSE "hs"

\* sdhci_set_bus_width, then the first step of the path; HS400 needs 8 lines.
SetHostWidth ==
    /\ pc = "width"
    /\ bus_width' = IF cfg.width = 8 /\ cfg.bus8 THEN 8
                    ELSE IF cfg.width = 4 THEN 4 ELSE 1
    /\ hostWidth' = bus_width'
    /\ IF Path = "hs400" /\ bus_width' # 8 THEN Fail
       ELSE Goto(IF Path \in {"hs400", "hs200"} THEN "hs200Width" ELSE Path)
    /\ UNCHANGED <<retry, cfg, card, cardSide, uhs, selIn, clocks, saved>>

SwitchOnly(label, w, d, t, next) ==
    /\ pc = label
    /\ Switch(w, d, t, Goto(next) /\ UNCHANGED <<modeRegs, clocks, saved>>)
    /\ UNCHANGED <<retry, cfg, card, bus_width, state>>

\* mmc_set_hs200_mode: width and timing of the card, then the controller.
Hs200Width == SwitchOnly("hs200Width", bus_width, FALSE, timing, "hs200Timing")

Hs200Timing ==
    /\ pc = "hs200Timing"
    /\ Switch(width, ddr, "hs200",
          /\ Goto(IF Path = "hs400" THEN "divideClock" ELSE "tune")
          /\ sdhci_set_uhs_mode("SDR104")
          /\ UNCHANGED <<hostWidth, selIn, core, mclk2, saved>>)
    /\ UNCHANGED <<retry, cfg, card, bus_width, state>>

\* On the way to HS400 the tuning runs with the core at 400 MHz, divided.
DivideClock ==
    /\ \/ pc = "divideClock" /\ Goto("raiseCore")
       \/ pc = "divideClock400" /\ Goto("raiseCore400")
    /\ hostTiming' = "HS400"
    /\ sdhci_msm_set_mci_clk("HS400")
    /\ UNCHANGED <<retry, cfg, card, bus_width, cardSide, hostWidth, uhs, supply, core, tuning_done>>

RaiseCore ==
    /\ \/ pc = "raiseCore" /\ Goto("tune")
       \/ pc = "raiseCore400" /\ Goto("calibrate")
    /\ core' = 400
    /\ UNCHANGED <<retry, cfg, card, bus_width, cardSide, modeRegs, supply, mclk2, saved>>

\* sdhci_msm_execute_tuning, with its data; then the clock is put back.
Tune ==
    /\ pc = "tune"
    /\ tuning_done' = TRUE
    /\ hostTiming' = "HS200"
    /\ IF hostTiming = "HS400"
       THEN core' = 200 /\ sdhci_msm_set_mci_clk("HS200")
       ELSE UNCHANGED <<core, mclk2, selIn>>
    /\ Fail \/ Goto(IF Path = "hs400" THEN "slowDown" ELSE "rstN")
    /\ UNCHANGED <<retry, cfg, card, bus_width, cardSide, hostWidth, uhs, supply>>

\* mmc_set_hs400_mode: 25 MHz, high speed, DDR, HS400, calibration.
SlowDown ==
    /\ pc = "slowDown"
    /\ Goto("hsAgain")
    /\ hostTiming' = "SDR12" /\ sdhci_set_uhs_mode("SDR12")
    /\ UNCHANGED <<retry, cfg, card, bus_width, cardSide, hostWidth, selIn, core, mclk2, tuning_done>>

HsAgain == SetHsInterface("hsAgain", "ddr")

\* mmc_set_ddr_mode: eight lines, whatever the width of the controller.
SetDdrMode ==
    /\ pc = "ddr"
    /\ Switch(8, TRUE, timing,
          /\ Goto(IF Path = "hs400" THEN "hs400Timing" ELSE "rstN")
          /\ hostTiming' = "DDR50" /\ sdhci_set_uhs_mode("DDR50")
          /\ UNCHANGED <<hostWidth, selIn, core, mclk2, tuning_done>>)
    /\ UNCHANGED <<retry, cfg, card, bus_width, state>>

Hs400Timing ==
    /\ pc = "hs400Timing"
    /\ Switch(width, ddr, "hs400",
          /\ Goto("divideClock400")
          /\ hostTiming' = "HS400" /\ sdhci_set_uhs_mode("SDR104")
          /\ UNCHANGED <<hostWidth, selIn, core, mclk2, tuning_done>>)
    /\ UNCHANGED <<retry, cfg, card, bus_width, state>>

Calibrate ==
    /\ pc = "calibrate"
    /\ Goto("rstN") \/ Fail
    /\ UNCHANGED <<retry, cfg, card, bus_width, cardSide, modeRegs, clocks, saved>>

\* High speed: mmc_set_hs_interface once more, then the card's width.
Hs == SetHsInterface("hs", "hsWidth")
HsWidth == SwitchOnly("hsWidth", bus_width, ddr, timing, "rstN")

\* mmc_sd_set_bus_width (CMD55, ACMD6), then the controller.
SdWidth ==
    /\ pc = "sdWidth"
    /\ bus_width' = IF card.wide THEN 4 ELSE 1
    /\ \/ width' = bus_width' /\ hostWidth' = bus_width' /\ Goto("rstN")
       \/ width' \in {width, bus_width'} /\ UNCHANGED hostWidth /\ Fail
    /\ UNCHANGED <<retry, cfg, card, state, ddr, timing, uhs, selIn, clocks, saved>>

\* RST_n_FUNCTION of an MMC, if it is not set yet.
RstN ==
    /\ pc = "rstN"
    /\ \/ pc' = "done" /\ result' = "device"
       \/ card.type = "mmc" /\ card.rst_n /\ Fail
    /\ UNCHANGED <<retry, cfg, card, bus_width, cardSide, modeRegs, clocks, saved>>

Next ==
    \/ ResetCard \/ SendOpCond \/ SdCardInit \/ Identify
    \/ HsInterface \/ SdSetHs \/ ReadRegisters \/ SetHostWidth
    \/ Hs200Width \/ Hs200Timing \/ DivideClock \/ RaiseCore \/ Tune
    \/ SlowDown \/ HsAgain \/ SetDdrMode \/ Hs400Timing \/ Calibrate
    \/ Hs \/ HsWidth \/ SdWidth \/ RstN

Spec == Init /\ [][Next]_vars /\ WF_vars(Next)

-----------------------------------------------------------------------------
(* Properties *)

\* Registers and the card's settings have their types, and a loop stays within
\* its retries.
TypeOK ==
    /\ result \in {"none", "device", "NULL"}
    /\ pc = "CMD1" => retry < MMC_MAX_COMMAND_RETRY
    /\ pc = "CMD8" => retry < SD_CMD8_MAX_RETRY
    /\ pc = "ACMD41" => retry < SD_ACMD41_MAX_RETRY
    /\ state \in {"idle", "ready", "ident", "stby", "tran"}
    /\ {width, hostWidth, bus_width} \subseteq {1, 4, 8}
    /\ ddr \in BOOLEAN /\ selIn \in BOOLEAN /\ mclk2 \in BOOLEAN
    /\ timing \in {"legacy", "hs", "hs200", "hs400"}
    /\ uhs \in {"SDR12", "SDR25", "DDR50", "SDR104"}
    /\ supply \in {0, 25, 50, 200} /\ core \in {200, 400}
    /\ hostTiming \in {"SDR12", "SDR25", "DDR50", "HS200", "HS400"}

\* The mode each side runs in.
HostMode == IF selIn THEN "HS400" ELSE uhs
CardMode ==
    CASE timing = "legacy" -> "SDR12"
      [] timing = "hs" -> IF ddr THEN "DDR50" ELSE "SDR25"
      [] timing = "hs200" -> "SDR104"
      [] timing = "hs400" -> "HS400"

Agreed == hostWidth = width /\ HostMode = CardMode

\* Whenever data is read on the way - EXT_CSD or SCR, the tuning blocks - and
\* when mmc_init returns a device, the controller uses the width and the mode
\* its card was switched to ("Set the bus width based on host, target
\* capbilities").
DeviceAgrees == result = "device" \/ pc \in {"data", "tune"} => state = "tran" /\ Agreed

\* The clock at the card, in MHz.
CardClock ==
    (IF supply = 200 THEN core ELSE (supply * core) \div 200) \div (IF mclk2 THEN 2 ELSE 1)

\* "... to ensure card receives no more than 200 MHZ clock frequency": at no
\* time is the card clocked faster than its timing allows.
ClockWithinTiming ==
    CardClock <= CASE timing = "legacy" -> 26
                   [] timing = "hs" -> 52
                   [] OTHER -> 200

\* Taken together: at every step of the bring-up card and controller are in
\* modes that fit each other, and the clock fits the card's.
ModesAgree == TypeOK /\ DeviceAgrees /\ ClockWithinTiming

\* mmc_init returns, with a device or without one.
InitEnds == <>(pc = "done")

\* "revert back the clock to 200MHZ and disable the MCI_CLK divider": after the
\* tuning of HS200 the divider is off (mmc_set_hs200_mode).
DividerDisabled == pc = "slowDown" => ~mclk2
=============================================================================
