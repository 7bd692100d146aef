-------------------------------- MODULE Pmic --------------------------------
(***************************************************************************)
(* The power management chip driver at work: one call at a time, one       *)
(* access per step, over the chip's registers.  The chip: registers hold   *)
(* what is written, but a secured register only right after the access     *)
(* key; status registers are inputs; a conversion request measures the     *)
(* channel selected at that moment.                                        *)
(*                                                                         *)
(* Calls come in groups, one group per behaviour: those that share         *)
(* registers or static variables follow one another, the others have       *)
(* nothing to tell each other.                                             *)
(***************************************************************************)
EXTENDS PmicCalls, TLC

CONSTANTS PmicGroups,    \* the groups of calls that are made
          PmicCallCount, \* bound on the calls of a behaviour
          PowerOn,       \* the bits set in a register nobody has written
          BusErrors      \* bound on refused SPMI commands

VARIABLES pmic,     \* the registers written so far
          group,    \* this behaviour's group of calls
          fn, todo, \* the call and the accesses it has yet to make
          got,      \* the values it has read
          before,   \* the registers when it began
          slaves,   \* mpp_slave_id and wled_slave_id
          chip,     \* the chip: [open |-> after the access key,
                    \*   settled |-> a wait has passed since a reset was switched off, adc |-> channel measured]
          pmicLeft, errorsLeft
pmicVars == <<pmic, group, fn, todo, got, before, slaves, chip, pmicLeft, errorsLeft>>

Reg(r, a) == IF a \in DOMAIN r THEN r[a] ELSE PowerOn

\* What the converter measures on a channel, in counts; 14 is the ground,
\* 15 and 10 the higher references.
Raw == 6 :> 38000 @@ 39 :> 45000 @@ 49 :> 30000 @@ 9 :> 31000 @@ 10 :> 36000 @@ 14 :> 20000 @@ 15 :> 42000

-----------------------------------------------------------------------------
(* The calls, with the inputs they are made with.                          *)

Ldos == [f : {"ldo_set_voltage"}, ldo : {1}, type : {"NLDO"}, uv : {750000, 1200000, 1537500}]
        \cup [f : {"ldo_set_voltage"}, ldo : {1}, type : {"PLDO"}, uv : {760000, 1537500, 3074999, 3075000, 4900000}]
Enable(f) == [f : {f}, enable : BOOLEAN]
Plain(fs) == [f : fs]

\* pmi8994_config_mpp_slave_id and pm8x41_wled_config_slave_id come among the
\* calls that use the slave.
Calls(g) ==
    CASE g = "gpio" -> [f : {"gpio_config"}, sid : {0, 1}, pin : {1}, direction : {Bits(0), Bits(1)}, function : {Bits(4)},
                           pull : {Bits(2)}, vin : {Bits(1)}, strength : {Bits(3)}, buffer : {Bits(1)}]
                       \cup [f : {"gpio_get"}, sid : {0}, pin : {1}]
                       \cup [f : {"gpio_set"}, sid : {0, 1}, pin : {1}, value : {Bits(0), Bits(1)}]
      [] g = "key" -> Plain({"v2_resin_status", "resin_status", "get_pwrkey_is_pressed", "resin_s2_reset_enable",
                             "resin_s2_reset_disable"})
      [] g = "reset" -> [f : {"reset_configure", "pm8994_reset_configure"}, type : {Bits(1), Bits(4), Bits(7)}]
                        \cup Plain({"clear_pmic_watchdog"})
      [] g = "reset v2" -> [f : {"v2_reset_configure"}, type : {Bits(1), Bits(4), Bits(7)}]
      [] g = "ldo" -> Ldos \cup [f : {"ldo_control"}, ldo : {1}, enable : BOOLEAN]
      [] g = "mpp" -> [f : {"enable_mpp"}, mpp : {1}, enable : BOOLEAN]
                      \cup [f : {"config_output_mpp"}, mpp : {1}, vin : {Bits(2)}, mode : {Bits(1)}]
                      \cup [f : {"config_mpp_slave_id"}, slave : {0, 2}]
                      \cup [f : {"enable_mpp_as_adc"}, mpp : {1, 8}]
      [] g = "battery" -> Plain({"pm8xxx_is_battery_broken", "pmi8994_is_battery_broken"})
      [] g = "adc" -> [f : {"adc_channel_read"}, chan : {6, 39, 49, 7}]
                      \cup [f : {"get_voltage_based_soc"}, chan : {6}, cutoff : {3200000}, max : {4200000, 3200000}]
      [] g = "charger" -> [f : {"iusb_max_config"}, ua : {99999, 100000, 150000, 500000, 1999999, 2500000}]
                          \cup [f : {"ibat_max_config"}, ua : {100000, 149999, 3250000, 3250001}]
                          \cup [f : {"chgr_vdd_max_config"}, uv : {3240000, 4200000, 5790000}]
                          \cup Enable("chgr_ctl_enable")
      [] g = "wled" -> [f : {"wled_config"}, scheme : {Bits(1)}, level : {{1, 9}}, duty : {Bits(2)}, ovp : {Bits(3)},
                           scale : {Bits(20)}, fdbck : {Bits(4)}]
                       \cup [f : {"wled_config_slave_id"}, slave : {0, 3}]
                       \cup UNION { Enable(f) : f \in {"wled_sink_control", "wled_iled_sync_control",
                                                       "wled_led_mod_enable", "wled_enable"} }
      [] g = "pwm" -> [f : {"pwm_config"}, period : PwmPeriods,
                          duty : {0, 7, 500, 280000000}, stray : {Bits(0), Bits(1)}]
                      \cup Enable("pwm_enable")
      [] OTHER -> Plain({"set_boot_done", "vib_turn_on", "vib_turn_off", "get_pmic_rev", "get_pon_reason",
                         "get_pon_poff_reason1", "get_pon_poff_reason2", "get_is_cold_boot"})
                  \cup Enable("diff_clock_ctrl") \cup Enable("enable_mvs")
                  \cup [f : {"lpg_write"}, sid : {1, 3}, chan : {1}, off : {"70"}, value : {Bits(128)}]

Script(f) ==
    CASE f.f = "gpio_config" -> GpioConfigScript(f)
      [] f.f = "gpio_get" -> GpioGetScript(f)
      [] f.f = "gpio_set" -> GpioSetScript(f)
      [] f.f = "v2_resin_status" -> ResinStatusV2Script
      [] f.f \in {"resin_status", "get_pwrkey_is_pressed"} -> R(Pon(0, "INT_RT_STS"))
      [] f.f = "resin_s2_reset_enable" -> ResinEnable
      [] f.f = "resin_s2_reset_disable" -> ResinDisable
      [] f.f = "reset_configure" -> ResetScript(f)
      [] f.f = "pm8994_reset_configure" -> ResetPm8994Script(f)
      [] f.f = "clear_pmic_watchdog" -> W(Pon(0, "WD_RESET_S2_CTL2"), {})
      [] f.f = "v2_reset_configure" -> ResetV2Script(f)
      [] f.f = "ldo_set_voltage" -> LdoVoltageScript(f)
      [] f.f = "ldo_control" -> LdoControlScript(f)
      [] f.f = "enable_mpp" -> MppEnableScript(f, slaves.mpp)
      [] f.f = "config_output_mpp" -> MppOutputScript(f, slaves.mpp)
      [] f.f = "enable_mpp_as_adc" -> MppAdcScript(f)
      [] f.f = "pm8xxx_is_battery_broken" -> BatteryScript
      [] f.f = "pmi8994_is_battery_broken" -> Pmi8994BatteryScript
      [] f.f \in {"adc_channel_read", "get_voltage_based_soc"} -> AdcReadScript(f)
      [] f.f = "iusb_max_config" -> UsbScript(f)
      [] f.f = "ibat_max_config" -> BatteryCurrentScript(f)
      [] f.f = "chgr_vdd_max_config" -> VddMaxScript(f)
      [] f.f = "chgr_ctl_enable" -> ChargeControlScript(f)
      [] f.f = "wled_config" -> WledConfigScript(f, slaves.wled)
      [] f.f = "wled_sink_control" -> WledSinkScript(f, slaves.wled)
      [] f.f = "wled_iled_sync_control" -> WledSyncScript(f, slaves.wled)
      [] f.f = "wled_led_mod_enable" -> WledModulatorScript(f, slaves.wled)
      [] f.f = "wled_enable" -> WledEnableScript(f, slaves.wled)
      [] f.f = "pwm_config" -> PwmConfigScript(f)
      [] f.f = "pwm_enable" -> PwmEnableScript(f)
      [] f.f = "set_boot_done" -> Update(At(0, "MISC_BOOT_DONE"), 1, {}, Bit(7))
      [] f.f = "vib_turn_on" -> VibOnScript
      [] f.f = "vib_turn_off" -> VibOffScript
      [] f.f = "get_pmic_rev" -> R(At(0, "REVISION4"))
      [] f.f = "get_pon_reason" -> R(Pon(0, "PON_REASON1"))
      [] f.f = "get_pon_poff_reason1" -> R(Pon(0, "POFF_REASON1"))
      [] f.f = "get_pon_poff_reason2" -> R(Pon(0, "POFF_REASON2"))
      [] f.f = "get_is_cold_boot" -> R(Pon(0, "WARMBOOT_STATUS1")) \o R(Pon(0, "WARMBOOT_STATUS2"))
      [] f.f = "diff_clock_ctrl" -> DiffClockScript(f)
      [] f.f = "enable_mvs" -> MvsScript(f)
      [] f.f = "lpg_write" -> LpgWriteScript(f)
      [] OTHER -> <<>>

-----------------------------------------------------------------------------
(* The driver and the chip.                                                *)

PmicInit ==
    /\ pmic = <<>> /\ before = <<>> /\ got = <<>> /\ fn = [f |-> "none"] /\ todo = <<>>
    /\ group \in PmicGroups /\ slaves = [mpp |-> 0, wled |-> 0]
    /\ chip = [open |-> FALSE, settled |-> TRUE, adc |-> 6]
    /\ pmicLeft = PmicCallCount /\ errorsLeft = BusErrors

\* A call begins.  The two that only set a slave are over at once.
PmicCall ==
    /\ todo = <<>> /\ pmicLeft > 0 /\ pmicLeft' = pmicLeft - 1
    /\ \E f \in Calls(group) :
          /\ fn' = f /\ got' = <<>> /\ before' = pmic
          /\ slaves' = CASE f.f = "config_mpp_slave_id" -> [slaves EXCEPT !.mpp = f.slave]
                         [] f.f = "wled_config_slave_id" -> [slaves EXCEPT !.wled = f.slave]
                         [] OTHER -> slaves
          /\ todo' = Script(f)
    /\ UNCHANGED <<pmic, group, chip, errorsLeft>>

This == Head(todo)
Moves == todo' = Tail(todo)

\* Registers whose content is the chip's, not the driver's.
Inputs(a) ==
    CASE a = Pon(0, "INT_RT_STS") -> {Bits(0), Bits(1), Bits(2), Bits(16)}
      [] a = At(2, "INT_RT_STS") -> {Bits(0), Bits(64)}
      [] a = At(0, "VBAT_IN_TSTS") -> {Bits(0), Bits(2)}
      [] a = Vadc("DATA_MSB") -> {Bits(Raw[chip.adc] \div 256)}
      [] a = Vadc("DATA_LSB") -> {Bits(Raw[chip.adc] % 256)}
      [] OTHER -> {Reg(pmic, a)}

\* A command may be refused, which the driver does not look at.
Refusals == IF errorsLeft > 0 THEN BOOLEAN ELSE {FALSE}
Counted(refused) == errorsLeft' = IF refused THEN errorsLeft - 1 ELSE errorsLeft

PmicRead ==
    /\ todo # <<>> /\ This.op = "read" /\ Moves
    /\ \E refused \in Refusals :
          /\ \E v \in IF refused THEN {{}} ELSE Inputs(This.a) : got' = Append(got, v)
          /\ Counted(refused)
    /\ UNCHANGED <<pmic, group, fn, before, slaves, chip, pmicLeft>>

Secured == {At(0, "COMP_OVR0"), At(0, "TRKL_CHG_TEST")}
Charger == Secured \cup {At(0, "IBAT_ATC_A"), At(0, "VBAT_DET")}
NewValue == ((IF This.from = 0 THEN {} ELSE got[This.from]) \ This.clear) \cup This.set

\* What a write does to the chip.
Stored == IF This.a \in Secured /\ ~chip.open THEN pmic ELSE This.a :> NewValue @@ pmic
Noticed ==
    [open |-> CASE This.a = At(0, "SEC_ACCESS") -> NewValue = Bits(165)
                [] This.a \in Charger -> FALSE
                [] OTHER -> chip.open,
     settled |-> chip.settled /\ ~(/\ This.a[4] \in {"RESIN_S2_CTL", "PS_HOLD_CTL", "PS_HOLD_CTL2"}
                                   /\ EN \in Reg(pmic, This.a) /\ EN \notin NewValue),
     adc |-> IF This.a = Vadc("CONV_REQ") /\ EN \in Reg(pmic, Vadc("EN_CTL"))
             THEN Number(Reg(pmic, Vadc("CHAN_SEL"))) ELSE chip.adc]

PmicWrite ==
    /\ todo # <<>> /\ This.op = "write" /\ Moves
    /\ \E refused \in Refusals :
          /\ pmic' = IF refused THEN pmic ELSE Stored
          /\ chip' = IF refused THEN chip ELSE Noticed
          /\ Counted(refused)
    /\ UNCHANGED <<group, fn, got, before, slaves, pmicLeft>>

\* A delay, or the end of a conversion, which comes.
PmicPause ==
    /\ todo # <<>> /\ This.op \in {"wait", "poll"} /\ Moves
    /\ chip' = [chip EXCEPT !.settled = @ \/ This.op = "wait"]
    /\ UNCHANGED <<pmic, group, fn, got, before, slaves, pmicLeft, errorsLeft>>

PmicNext == PmicCall \/ PmicRead \/ PmicWrite \/ PmicPause
PmicSpec == PmicInit /\ [][PmicNext]_pmicVars
-----------------------------------------------------------------------------
(* Properties                                                              *)

PmicTypeOK ==
    /\ Len(todo) <= 33 /\ Len(got) <= 6 /\ group \in PmicGroups
    /\ \A a \in DOMAIN pmic : pmic[a] \subseteq 0 .. 7
    /\ slaves.mpp \in {0, 2} /\ slaves.wled \in {0, 3}

Now(a) == Reg(pmic, a)
Was(a) == Reg(before, a)
Done(f) == todo = <<>> /\ fn.f = f

\* After a reset is configured, dropping PS_HOLD does what was asked: the
\* enable is on and the type is the asked one, on every chip that has it; the
\* volume key's own reset is off again after its status was looked at.
ResetArmed ==
    /\ Done("reset_configure") \/ Done("pm8994_reset_configure") =>
          Now(Pon(0, "PS_HOLD_CTL2")) = Bit(EN) /\ Now(Pon(0, "PS_HOLD_CTL")) = fn.type
    /\ Done("pm8994_reset_configure") => Now(Pon(2, "PS_HOLD_CTL")) = fn.type
    /\ Done("v2_reset_configure") => Now(Pon(0, "PS_HOLD_CTL")) = fn.type \cup Bit(EN)
    /\ Done("v2_resin_status") => EN \notin Now(Pon(0, "RESIN_S2_CTL"))

\* A configured pin is on, drives what was asked and only then has an output
\* stage set.
PinAsAsked ==
    Done("gpio_config") =>
       LET G(r) == Gpio(fn.sid, fn.pin, r)
       IN /\ EN \in Now(G("EN_CTL"))
          /\ Now(G("MODE_CTL")) = fn.function \cup Shifted(fn.direction, 4)
          /\ fn.direction = Bits(0) => Now(G("DIG_OUT_CTL")) = Was(G("DIG_OUT_CTL"))

\* The voltage that a regulator's range and multiplier stand for.
Microvolts(range, mult) ==
    CASE range = 2 -> 750000 + 12500 * mult
      [] range = 3 -> 1500000 + 25000 * mult
      [] OTHER -> 1750000 + 50000 * mult

\* A regulator is programmed to the asked voltage or less than a step below it,
\* with a multiplier its field holds, and the N type only in its one range.
LdoAsAsked ==
    Done("ldo_set_voltage") =>
       LET range == Number(Now(At(fn.ldo, "RANGE_CTRL")))
           mult == Number(Now(At(fn.ldo, "STEP_CTRL")))
       IN /\ Microvolts(range, mult) <= fn.uv /\ fn.uv < Microvolts(range, mult + 1)
          /\ mult < 64 /\ (fn.type = "NLDO" => range = 2)

\* The battery test leaves the charger as it found it: the trickle current, the
\* detection voltage and the fast charge current are back, the forced charge is
\* off, and of the registers it shares only its own bit may differ.  Not put
\* back by the code, and not asked for here: the override of the comparator
\* (COMP_OVR0, pm8x41.c:608) and the float voltage of the pmi8994, which stays
\* at 4.35 V.
BatteryRestored ==
    /\ Done("pm8xxx_is_battery_broken") =>
          /\ \A r \in {"IBAT_ATC_A", "VBAT_DET"} : Now(At(0, r)) = Was(At(0, r))
          /\ Now(At(0, "TRKL_CHG_TEST")) = {}
    /\ Done("pmi8994_is_battery_broken") =>
          /\ Now(At(2, "FCC_CFG")) = Was(At(2, "FCC_CFG"))
          /\ \A r \in {"CHGR_CFG2", "TRIM_OPTIONS"} : Now(At(2, r)) = Was(At(2, r)) \cup Bit(3)

\* A converted value is the channel's own, corrected by the two references of
\* its kind, and the converter is off again.
AdcTrue ==
    (Done("adc_channel_read") \/ Done("get_voltage_based_soc")) /\ fn.chan \in {6, 39, 49} =>
       LET p == ChannelProp(fn.chan)
       IN /\ Calibrate(p.calib, AdcResult(got, 1), AdcResult(got, 2), AdcResult(got, 3)) =
                 IF fn.chan = 49 THEN Calibrate("ratio", Raw[49], Raw[15], Limited(Raw[14]))
                 ELSE Calibrate("abs", Limited(Raw[fn.chan]), Raw[10], Raw[9])
          /\ EN \notin Now(Vadc("EN_CTL"))

\* A charger's limit is never programmed above what was asked, and stays within
\* a step of it; a value out of range changes nothing.
UsbLimit(n) == IF n = 1 THEN 150000 ELSE IF n = 0 THEN 100000 ELSE n * 100000
LimitRespected(r, limit, step, asked, low, high) ==
    IF asked < low \/ asked > high THEN Now(At(0, r)) = Was(At(0, r))
    ELSE limit <= asked /\ asked - limit < step
LimitsRespected ==
    /\ Done("iusb_max_config") => LimitRespected("IUSB_MAX",
          UsbLimit(Number(Now(At(0, "IUSB_MAX")))), 100000, fn.ua, 100000, 2500000)
    /\ Done("ibat_max_config") => LimitRespected("IBAT_MAX",
          100000 + 50000 * Number(Now(At(0, "IBAT_MAX"))), 50000, fn.ua, 100000, 3250000)
    /\ Done("chgr_vdd_max_config") => LimitRespected("CHGR_VDD_MAX",
          3240000 + 10000 * Number(Now(At(0, "CHGR_VDD_MAX"))), 10000, fn.uv, 3240000, 5790000)

\* No clock, pre-divider and exponent come closer to the asked period than the
\* registers' own, although the search stops early; the duty cycle never
\* exceeds the counter.
PwmChosen == <<Number(Now(Pwm("SIZE_CLK")) \cap Bits(3)),
               Number({ i - 5 : i \in Now(Pwm("FREQ_PREDIV")) \cap {5, 6} }) + 1,
               Number(Now(Pwm("FREQ_PREDIV")) \cap Bits(7))>>
PwmBest ==
    Done("pwm_config") /\ fn.period >= 7 /\ fn.duty <= fn.period =>
       LET n == PeriodCount(fn.period)
       IN /\ \A s \in Settings : ErrorOf(PwmChosen, n) <= ErrorOf(s, n)
          /\ fn.duty = fn.period => Bits(63) \subseteq Now(Pwm("VALUE_LSB"))

\* A call that updates a field leaves the other bits of the register alone.
Field(a) ==
    CASE fn.f = "gpio_set" -> Bits(15)
      [] a = At(1, "VIB_VTG_CTL") -> Bits(31)
      [] fn.f = "set_boot_done" -> Bit(7)
      [] a[4] \in {"DIFF_CLK1_EN_CTL", "VIB_EN_CTL"} -> Bit(7)
      [] fn.f = "gpio_config" /\ a = Gpio(fn.sid, fn.pin, "EN_CTL") -> Bit(EN)
      [] OTHER -> 0 .. 7
OtherBitsKept == todo = <<>> => \A a \in DOMAIN pmic : Now(a) \ Field(a) = Was(a) \ Field(a)

PmicCallsDone ==
    /\ PmicTypeOK /\ ResetArmed /\ PinAsAsked /\ LdoAsAsked /\ BatteryRestored
    /\ AdcTrue /\ LimitsRespected /\ PwmBest /\ OtherBitsKept

\* What may only change while something is off: a pin's set-up while the pin is
\* off, a reset's type and timers while the reset is off and has had the time
\* to go off.  (pm8994_reset_configure leaves the second chip's reset alone.)
ResetType(a) ==
    CASE a \in { Pon(0, "RESIN_S2_CTL"), Pon(0, "RESIN_S1_TIMER"), Pon(0, "RESIN_S2_TIMER") } -> Pon(0, "RESIN_S2_CTL")
      [] a = Pon(0, "PS_HOLD_CTL") /\ group = "reset" -> Pon(0, "PS_HOLD_CTL2")
      [] OTHER -> Pon(0, "PS_HOLD_CTL")
ChangedWhileOff(a) ==
    CASE a[1] = 0 /\ a[4] \in {"RESIN_S2_CTL", "RESIN_S1_TIMER", "RESIN_S2_TIMER", "PS_HOLD_CTL"} ->
             Reg(pmic', a) \cap Bits(15) # Now(a) \cap Bits(15) /\ Reg(pmic', a) # {} =>
                EN \notin Now(ResetType(a)) /\ chip.settled
      [] fn.f = "gpio_config" /\ a # Gpio(fn.sid, fn.pin, "EN_CTL") ->
             Reg(pmic', a) # Now(a) => EN \notin Now(Gpio(fn.sid, fn.pin, "EN_CTL"))
      [] OTHER -> TRUE
ChangesAreSafe == [][\A a \in DOMAIN pmic' : ChangedWhileOff(a)]_pmicVars

\* A channel that is not in the table is refused, as its error message says.
UnsupportedRefused == Done("adc_channel_read") /\ fn.chan \notin {6, 39, 49} => got = <<>>

\* A long period is programmed within a factor of two of what was asked.
PwmPeriodKept ==
    Done("pwm_config") /\ fn.period >= 1000000 /\ fn.duty <= fn.period =>
       LET us == (PeriodOf(PwmChosen) \div 1000) * 2^PwmSize(fn.period)
       IN 2 * us >= fn.period /\ us <= 2 * fn.period

\* The LED driver's calls stay with the slave that was configured.
WledOneSlave == group = "wled" => \A a \in DOMAIN pmic : a[1] \in {1, slaves.wled, 3}
==============================================================================
