------------------------------ MODULE PmicCalls ------------------------------
(***************************************************************************)
(* The power management chip driver (Pm8x41Dxe): every exported call is a  *)
(* script of register accesses, each one SPMI command.  A register is the  *)
(* set of its bits that are one, an address is <<slave, register>>.  The   *)
(* driver ignores what the SPMI driver returns: a refused read leaves the  *)
(* zero the variable started with, a refused write changes nothing.        *)
(*                                                                         *)
(* Here are the scripts and what they compute; Pmic runs them.             *)
(***************************************************************************)
EXTENDS Naturals, Sequences, FiniteSetsExt

Bits(n) == { i \in 0 .. 7 : (n \div 2^i) % 2 = 1 }
Bit(i) == { i }
Number(bits) == MapThenSumSet(LAMBDA i : 2^i, bits)
Shifted(bits, k) == { i + k : i \in bits } \cap 0 .. 7

\* The accesses.  R reads; W writes a value; Put writes the call's k-th value
\* read with some bits cleared and some set; Wait is a delay long enough for a
\* disabled reset to be off; Poll waits for bits of a register.
R(a) == <<[op |-> "read", a |-> a]>>
W(a, v) == <<[op |-> "write", a |-> a, from |-> 0, clear |-> {}, set |-> v]>>
Put(a, k, clear, set) == <<[op |-> "write", a |-> a, from |-> k, clear |-> clear, set |-> set]>>
Update(a, k, clear, set) == R(a) \o Put(a, k, clear, set)
Wait == <<[op |-> "wait"]>>
Poll(a, mask, value) == <<[op |-> "poll", a |-> a, mask |-> mask, value |-> value]>>

-----------------------------------------------------------------------------
(* pm8x41.c                                                                *)

EN == 7  \* PERPH_EN_BIT, S2_RESET_EN_BIT, LDO_VREG_ENABLE_BIT, the MPP's and MVS's
At(sid, r) == <<sid, "", 0, r>>
Gpio(sid, pin, r) == <<sid, "GPIO", pin, r>>
Pon(sid, r) == <<sid, "PON", 0, r>>

\* A pin's configuration: the pin is off while it changes.
GpioConfigScript(f) ==
    LET G(r) == Gpio(f.sid, f.pin, r)
    IN Update(G("EN_CTL"), 1, Bit(EN), {})
       \o W(G("MODE_CTL"), f.function \cup Shifted(f.direction, 4))
       \o W(G("DIG_PULL_CTL"), f.pull) \o W(G("DIG_VIN_CTL"), f.vin)
       \o (IF f.direction = Bits(1) THEN W(G("DIG_OUT_CTL"), f.strength \cup Shifted(f.buffer, 4)) ELSE <<>>)
       \o Update(G("EN_CTL"), 2, {}, Bit(EN))
GpioGetScript(f) == R(Gpio(f.sid, f.pin, "STATUS"))
GpioSetScript(f) == Update(Gpio(f.sid, f.pin, "MODE_CTL"), 1, Bits(15), f.value)

\* Mutant of ResinEnable: the timers are set after the reset is armed.
ResinEnableLate ==
    W(Pon(0, "RESIN_S2_CTL"), {}) \o Wait
    \o W(Pon(0, "RESIN_S2_CTL"), Bits(1))
    \o Update(Pon(0, "RESIN_S2_CTL"), 1, {}, Bit(EN))
    \o W(Pon(0, "RESIN_S1_TIMER"), {}) \o W(Pon(0, "RESIN_S2_TIMER"), Bits(7))

\* pm8x41_resin_s2_reset_enable: off, a pause, the timers, the type, then on.
ResinEnable ==
    W(Pon(0, "RESIN_S2_CTL"), {}) \o Wait
    \o W(Pon(0, "RESIN_S1_TIMER"), {}) \o W(Pon(0, "RESIN_S2_TIMER"), Bits(7))
    \o W(Pon(0, "RESIN_S2_CTL"), Bits(1))
    \o Update(Pon(0, "RESIN_S2_CTL"), 1, {}, Bit(EN))
ResinDisable == W(Pon(0, "RESIN_S2_CTL"), {}) \o Wait
ResinStatusV2Script == ResinEnable \o R(Pon(0, "INT_RT_STS")) \o ResinDisable

\* The three ways to program what a drop of PS_HOLD does.  Version 2 parts have
\* type and enable in one register.
ResetPm8994Script(f) ==
    W(Pon(0, "PS_HOLD_CTL2"), {}) \o Wait
    \o W(Pon(0, "PS_HOLD_CTL"), f.type) \o W(Pon(2, "PS_HOLD_CTL"), f.type)
    \o W(Pon(0, "PS_HOLD_CTL2"), Bit(EN))
ResetV2Script(f) ==
    W(Pon(0, "PS_HOLD_CTL"), {}) \o Wait
    \o W(Pon(0, "PS_HOLD_CTL"), f.type) \o Update(Pon(0, "PS_HOLD_CTL"), 1, {}, Bit(EN))
ResetScript(f) ==
    W(Pon(0, "PS_HOLD_CTL2"), {}) \o Wait
    \o W(Pon(0, "PS_HOLD_CTL"), f.type) \o W(Pon(0, "PS_HOLD_CTL2"), Bit(EN))

\* The range of a regulator's voltage: register value, step and lowest voltage.
NldoRange == [range |-> 2, step |-> 12500, vmin |-> 750000]
PldoRange(uv) ==
    CASE uv < 1537500 -> [range |-> 2, step |-> 12500, vmin |-> 750000]
      [] uv >= 1537500 /\ uv < 3075000 -> [range |-> 3, step |-> 25000, vmin |-> 1500000]
      [] OTHER -> [range |-> 4, step |-> 50000, vmin |-> 1750000]

\* Mutant of LdoRange: the P type's ranges for every regulator.
LdoRangeP(type, uv) == PldoRange(uv)
LdoRange(type, uv) == IF type = "PLDO" THEN PldoRange(uv) ELSE NldoRange
LdoVoltageScript(f) ==
    LET r == LdoRange(f.type, f.uv)
    IN W(At(f.ldo, "POWER_MODE"), Bit(7)) \o W(At(f.ldo, "RANGE_CTRL"), Bits(r.range))
       \o W(At(f.ldo, "STEP_CTRL"), Bits((f.uv - r.vmin) \div r.step))
LdoControlScript(f) == W(At(f.ldo, "EN_CTL"), IF f.enable THEN Bit(EN) ELSE {})

LpgWriteScript(f) == W(<<f.sid, "LPG", f.chan, f.off>>, f.value)
MvsScript(f) == W(At(1, "MVS_EN_CTL"), IF f.enable THEN Bit(EN) ELSE {})

\* The MPPs' slave is a static variable that pmi8994_config_mpp_slave_id sets.
Mpp(slave, n, r) == <<slave, "MPP", n, r>>
MppEnableScript(f, slave) == W(Mpp(slave, f.mpp, "EN_CTL"), IF f.enable THEN Bit(EN) ELSE {})
MppOutputScript(f, slave) ==
    W(Mpp(slave, f.mpp, "DIG_VIN_CTL"), f.vin)
    \o W(Mpp(slave, f.mpp, "MODE_CTL"), f.mode \cup Shifted(Bits(1), 4))
DiffClockScript(f) ==
    Update(At(0, "DIFF_CLK1_EN_CTL"), 1, IF f.enable THEN {} ELSE Bit(EN), IF f.enable THEN Bit(EN) ELSE {})

\* pm8xxx_is_battery_broken.  A secured register takes a value only right
\* after the access key, 0xA5, is written.
SecAccess == W(At(0, "SEC_ACCESS"), Bits(165))

BatteryRestore ==
    SecAccess \o W(At(0, "TRKL_CHG_TEST"), {}) \o W(At(0, "VCP"), Bits(1))
    \o Put(At(0, "IBAT_ATC_A"), 1, {}, {}) \o Put(At(0, "VBAT_DET"), 2, {}, {})
BatteryScript ==
    R(At(0, "IBAT_ATC_A")) \o R(At(0, "VBAT_DET"))
    \o W(At(0, "IBAT_ATC_A"), {}) \o W(At(0, "VBAT_DET"), Bits(53))
    \o SecAccess \o W(At(0, "COMP_OVR0"), Bits(8)) \o W(At(0, "VCP"), {})
    \o SecAccess \o W(At(0, "TRKL_CHG_TEST"), Bits(1)) \o Wait
    \o R(At(0, "VBAT_IN_TSTS")) \o BatteryRestore

\* pmi8994_is_battery_broken: everything is put back but the float voltage,
\* which becomes 4.35 V whatever it was.
Pmi8994BatteryScript ==
    Update(At(2, "TRIM_OPTIONS"), 1, Bit(3), {}) \o Update(At(2, "CHGR_CFG2"), 2, Bit(3), {})
    \o R(At(2, "FCC_CFG")) \o W(At(2, "FCC_CFG"), {}) \o W(At(2, "FV_CFG"), Bits(63)) \o Wait
    \o R(At(2, "INT_RT_STS"))
    \o W(At(2, "FV_CFG"), Bits(43)) \o Update(At(2, "CHGR_CFG2"), 5, {}, Bit(3))
    \o Put(At(2, "FCC_CFG"), 3, {}, {}) \o Update(At(2, "TRIM_OPTIONS"), 6, {}, Bit(3))

-----------------------------------------------------------------------------
(* pm8x41_adc.c                                                            *)

Vadc(r) == <<0, "VADC", 0, r>>

\* adc_data; a channel that is not in it is read with its last entry.
AdcTable == << [chan |-> 49, calib |-> "ratio"], [chan |-> 6, calib |-> "abs"], [chan |-> 39, calib |-> "abs"] >>
ChannelProp(ch) ==
    IF \E i \in DOMAIN AdcTable : AdcTable[i].chan = ch
    THEN AdcTable[CHOOSE i \in DOMAIN AdcTable : AdcTable[i].chan = ch] ELSE AdcTable[Len(AdcTable)]

\* adc_configure: set up, on, request, wait for the end of conversion, read
\* the two halves, off.
AdcConvert(chan, settle) ==
    W(Vadc("MODE_CTRL"), {}) \o W(Vadc("CHAN_SEL"), Bits(chan)) \o W(Vadc("DIG_PARAM"), Bits(4))
    \o W(Vadc("HW_SETTLE"), Bits(settle)) \o W(Vadc("FAST_AVG"), {})
    \o W(Vadc("EN_CTL"), Bit(EN)) \o W(Vadc("CONV_REQ"), Bit(7))
    \o Poll(Vadc("STATUS"), Bits(3), Bits(1)) \o R(Vadc("DATA_MSB")) \o R(Vadc("DATA_LSB"))
    \o W(Vadc("EN_CTL"), (0 .. 7) \ Bit(EN))

\* vadc_calibrate's two references, the higher first.
CalibChannels(calib) == IF calib = "abs" THEN <<10, 9>> ELSE <<15, 14>>
AdcReadScript(f) ==
    LET p == ChannelProp(f.chan)
        refs == CalibChannels(p.calib)
    IN AdcConvert(p.chan, 1) \o AdcConvert(refs[1], 0) \o AdcConvert(refs[2], 0)

\* adc_limit_result_range.
Limited(raw) == IF raw < 24576 THEN 24576 ELSE IF raw > 43008 THEN 43008 ELSE raw
AdcResult(got, k) == Limited(Number({ i + 8 : i \in got[2 * k - 1] } \cup got[2 * k]))
Calibrate(calib, raw, high, low) ==
    IF calib = "abs" THEN ((raw - low) * (625000 \div (high - low)) + 625000) * 3
    ELSE (raw - low) * (1800000 \div (high - low))
Soc(uv, cutoff, max) == ((uv - cutoff) * 100) \div (max - cutoff)

\* The chargers' limits; out of range is refused without an access.
UsbValue(ua) == CASE ua = 100000 -> 0 [] ua = 150000 -> 1 [] OTHER -> ua \div 100000
UsbScript(f) == IF f.ua \in 100000 .. 2500000 THEN W(At(0, "IUSB_MAX"), Bits(UsbValue(f.ua))) ELSE <<>>
BatteryCurrentScript(f) ==
    IF f.ua \in 100000 .. 3250000 THEN W(At(0, "IBAT_MAX"), Bits((f.ua - 100000) \div 50000)) ELSE <<>>
VddMaxScript(f) ==
    IF f.uv \in 3240000 .. 5790000 THEN W(At(0, "CHGR_VDD_MAX"), Bits((f.uv - 3240000) \div 10000)) ELSE <<>>
ChargeControlScript(f) ==
    IF f.enable THEN W(At(0, "CHGR_CHG_CTRL"), Bit(EN)) \o W(At(0, "MISC_BOOT_DONE"), Bit(7))
    ELSE W(At(0, "CHGR_CHG_CTRL"), {})

\* The MPP as an ADC input; here the MPP is always that of slave 0.
MppAdcScript(f) ==
    IF f.mpp > 7 THEN <<>>
    ELSE W(Mpp(0, f.mpp, "MODE_CTL"), Shifted(Bits(4), 4) \cup Bits(1))
         \o W(Mpp(0, f.mpp, "EN_CTL"), Bit(EN)) \o W(Mpp(0, f.mpp, "AIN_CTL"), Bits(3))
-----------------------------------------------------------------------------
(* pm8x41_wled.c and pm_vib.c                                              *)

\* The LED driver's slave is a static variable too; zero stands for slave 1.
WledSlave(slave) == IF slave # 0 THEN slave ELSE 1
Wled(slave, r) == <<WledSlave(slave), "WLED", 0, r>>
Led(slave, r, i) == <<WledSlave(slave), "WLED", i, r>>
\* PM_LAB_BASE names slave 1 itself, and the slave is added to it again.
Lab(slave, r) == <<1 + WledSlave(slave), "LAB", 0, r>>
Leds(a(_), v) == W(a(1), v) \o W(a(2), v) \o W(a(3), v)
Brightness(slave, i, level) ==
    W(Led(slave, "LSB", i), { b \in level : b < 8 })
    \o W(Led(slave, "MSB", i), { b \in 0 .. 7 : b + 8 \in level })
WledConfigScript(f, slave) ==
    W(Wled(slave, "MODULATION"), f.scheme)
    \o Brightness(slave, 1, f.level) \o Brightness(slave, 2, f.level) \o Brightness(slave, 3, f.level)
    \o W(Wled(slave, "MAX_DUTY"), f.duty) \o W(Wled(slave, "OVP"), f.ovp)
    \o Leds(LAMBDA i : Led(slave, "FULL_SCALE", i), f.scale)
    \o W(Wled(slave, "FDBCK"), f.fdbck)
    \o W(Lab(slave, "CURRENT_SENSE"), Bits(10)) \o W(Lab(slave, "PS_CTL"), Bits(128))
WledSinkScript(f, slave) == W(Wled(slave, "CURRENT_SINK"), IF f.enable THEN {5, 6, 7} ELSE {})
WledSyncScript(f, slave) == W(Wled(slave, "ILED_SYNC"), IF f.enable THEN {0, 1, 2} ELSE {})
WledModulatorScript(f, slave) ==
    Leds(LAMBDA i : Led(slave, "CTNL", i), IF f.enable THEN Bit(7) ELSE {})
WledEnableScript(f, slave) == W(Wled(slave, "ENABLE"), IF f.enable THEN Bit(7) ELSE {})

VibOnScript ==
    Update(At(1, "VIB_VTG_CTL"), 1, Bits(31), Bits(22)) \o Update(At(1, "VIB_EN_CTL"), 2, {}, Bit(EN))
VibOffScript == Update(At(1, "VIB_EN_CTL"), 1, Bit(EN), {})

-----------------------------------------------------------------------------
(* pm_pwm.c: a period is the clock's times pre-divider times 2^m times the  *)
(* size of the counter, 2^6 or 2^9.                                         *)

ClockNs == <<976562, 30517, 52>>
PreDivide == <<1, 3, 5, 6>>
MaxMpt == 6 * 976562 * 128
Settings == (1 .. 3) \X (1 .. 4) \X (0 .. 7)  \* clock, pre-divider, exponent
PeriodOf(s) == ClockNs[s[1]] * PreDivide[s[2]] * 2^s[3]
ErrorOf(s, n) == IF n > PeriodOf(s) THEN n - PeriodOf(s) ELSE PeriodOf(s) - n

\* The period of one count of a 6 bit counter, in nanoseconds; 9 bits where
\* that is more than any setting gives.  Periods above 274 s overflow the
\* 32 bits (the last eighth of the product is kept here).
Eighth(us) == ((us \div 64) * 125) % 2^29
NineBits(us) == us >= 4294967 /\ Eighth(us) >= MaxMpt \div 8
PeriodCount(us) ==
    IF us < 4294967 THEN (us * 125) \div 8 ELSE IF NineBits(us) THEN Eighth(us) ELSE Eighth(us) * 8

\* The exponents tried for a clock and pre-divider: up to the first that errs
\* more than the one before it.
Tried(clk, div, n) ==
    { m \in 0 .. 7 : \A k \in 2 .. m : ErrorOf(<<clk, div, k - 1>>, n) <= ErrorOf(<<clk, div, k - 2>>, n) }

\* pm_pwm_calc_period: of those tried, the first that errs least.
Before(s, t) == \/ s[1] < t[1]
                \/ s[1] = t[1] /\ s[2] < t[2]
                \/ s[1] = t[1] /\ s[2] = t[2] /\ s[3] < t[3]
CalcPeriod(us) ==
    LET n == PeriodCount(us)
        tried == { s \in Settings : s[3] \in Tried(s[1], s[2], n) }
    IN CHOOSE s \in tried : \A t \in tried \ {s} :
          \/ ErrorOf(s, n) < ErrorOf(t, n)
          \/ ErrorOf(s, n) = ErrorOf(t, n) /\ Before(s, t)

\* The periods that clients ask for here, and what they come to.
PwmPeriods == {6, 7, 1000, 20000, 47000000, 48000064, 270000000, 300000000}
Calculated == [us \in PwmPeriods |-> CalcPeriod(us)]

\* pm_pwm_calc_pwm_value.
PwmSize(us) == IF NineBits(us) THEN 9 ELSE 6
PwmValue(us, duty) ==
    LET size == PwmSize(us)
        v == IF duty < 2^(30 - size) * 4 THEN (duty * 2^size) \div us ELSE duty \div (us \div 2^size)
    IN IF v > 2^size - 1 THEN 2^size - 1 ELSE v

\* pm_pwm_config_regs.  The fifth control register of a 6 bit PWM is written
\* from an element nobody set: stray is what it happens to hold.
Pwm(r) == <<1, "PWM", 0, r>>
PwmConfigScript(f) ==
    LET s == Calculated[f.period]
        v == PwmValue(f.period, f.duty)
        nine == NineBits(f.period)
    IN IF f.duty > f.period \/ f.period > 384000000 \/ f.period < 7 THEN <<>>
       ELSE W(Pwm("SIZE_CLK"), (IF nine THEN Bit(2) ELSE {}) \cup Bits(s[1]))
            \o W(Pwm("FREQ_PREDIV"), Shifted(Bits(s[2] - 1), 5) \cup Bits(s[3]))
            \o W(Pwm("TYPE"), Bit(5)) \o W(Pwm("VALUE_LSB"), Bits(v % 256))
            \o W(Pwm("VALUE_MSB"), IF nine THEN Bits(v \div 256) ELSE f.stray)
            \o W(Pwm("SYNC"), Bit(0))
PwmEnableScript(f) == W(Pwm("ENABLE"), IF f.enable THEN Bit(EN) ELSE {})
==============================================================================
