------------------------------ MODULE GpioPins ------------------------------
(***************************************************************************)
(* The pin controller driver (GpioTlmmDxe): direction, level, function,    *)
(* drive strength and pull of a pin, kept in a control and an I/O register *)
(* per pin, and the pad settings of the memory card's own pins (tlmm.c),   *)
(* which share one register.  A register is the set of its bits that are   *)
(* one.  Every register access is a step: what the pin drives is visible   *)
(* outside between them.                                                   *)
(***************************************************************************)
EXTENDS Naturals, Sequences

CONSTANTS PinCalls,   \* bound on the calls of a behaviour
          PinResets   \* what a pin's control register may hold at first

ASSUME PinsAssumption == PinCalls \in Nat /\ PinResets \subseteq SUBSET (0 .. 9)

VARIABLES ctl, out,   \* the pin's control register and output bit
          sdc,        \* the pads' register
          pinCall,    \* the call in progress, or the last one
          pinStep,    \* how many of its register writes are done, 0 when idle
          pinWas,     \* the registers when it began
          pinLeft     \* calls still allowed by PinCalls
pinVars == <<ctl, out, sdc, pinCall, pinStep, pinWas, pinLeft>>

\* Values here are at most 31, so that the sum stays within 32 bits.
BitsAt(n, low) == { i + low : i \in { k \in 0 .. 4 : (n \div 2^k) % 2 = 1 } }

\* The platform's settings: PcdGpioTlmm*Bit and NumFunctions.
PullBit == 0
MuxBit == 2
DrvBit == 6
OeBit == 9
NumFunctions == 12

\* Mutant of OrderBase2: the bits of the number rounded down.
OrderBase2Down(n) == CHOOSE b \in 0 .. 31 : 2^b <= n /\ (b = 30 \/ n < 2^(b + 1))
\* The bits needed to tell n values apart.
OrderBase2(n) == CHOOSE b \in 0 .. 30 : n <= 2^b /\ (b = 0 \/ 2^(b - 1) < n)

\* The fields of a control register: lowest and highest bit.
FieldBits ==
    [pull |-> PullBit .. PullBit + 1,
     mux |-> MuxBit .. MuxBit + OrderBase2(NumFunctions) - 1,
     drv |-> DrvBit .. DrvBit + 2,
     oe |-> {OeBit}]
Replaced(reg, mask, value) == (reg \ mask) \cup value

\* Pad settings of the card slots: the offsets of tlmm_sdc_drv_ctrl, the masks
\* the callers give with them, and what a call asks for.
Pads == [sdc1_data |-> [off |-> 0, mask |-> 7], sdc1_cmd |-> [off |-> 3, mask |-> 7],
         sdc1_clk |-> [off |-> 6, mask |-> 7], sdc1_data_pull |-> [off |-> 9, mask |-> 3],
         sdc1_cmd_pull |-> [off |-> 11, mask |-> 3], sdc1_clk_pull |-> [off |-> 13, mask |-> 3]]
Cfg(pad, val) == [pad |-> pad, val |-> val]
PadCalls == { << Cfg("sdc1_clk", 7), Cfg("sdc1_cmd", 4), Cfg("sdc1_data", 4) >>,
              << Cfg("sdc1_clk_pull", 0), Cfg("sdc1_cmd_pull", 3), Cfg("sdc1_data_pull", 3) >>,
              << Cfg("sdc1_data", 0) >> }

Asks ==
    [f : {"direction_input", "get_direction"}]
    \cup [f : {"direction_output", "set"}, value : {0, 1}]
    \cup [f : {"set_function"}, function : {0, 1, 2, 8, 11}]
    \cup [f : {"set_drive_strength"}, ma : {0, 2, 3, 10, 16, 18}]
    \cup [f : {"set_pull"}, pull : {0, 1, 3, 4}]
    \cup [f : {"tlmm_config"}, func : {0, 3}, dir : {0, 1}, pull : {0, 3}, drvstr : {0, 7}, enable : {0, 1}]
    \cup [f : {"set_pads"}, cfg : PadCalls]

\* Arguments a call turns down without touching a register.
Impossible(c) ==
    \/ c.f = "set_drive_strength" /\ (c.ma > 16 \/ c.ma < 2 \/ c.ma % 2 # 0)
    \/ c.f = "set_pull" /\ c.pull > 3
\* How many registers it writes.
Writes(c) ==
    CASE Impossible(c) \/ c.f = "get_direction" -> 0
      [] c.f = "direction_output" -> 2
      [] c.f = "set_pads" -> Len(c.cfg)
      [] OTHER -> 1

-----------------------------------------------------------------------------
PinInit ==
    /\ ctl \in PinResets /\ out \in {0, 1} /\ sdc = {0, 4, 8, 10, 14, 20}
    /\ pinCall = [f |-> "none"] /\ pinStep = 0 /\ pinLeft = PinCalls
    /\ pinWas = [ctl |-> ctl, out |-> out, sdc |-> sdc]

PinCall ==
    /\ pinStep = 0 /\ pinLeft > 0 /\ pinLeft' = pinLeft - 1
    /\ \E c \in Asks : pinCall' = c /\ pinStep' = IF Writes(c) = 0 THEN 0 ELSE 1
    /\ pinWas' = [ctl |-> ctl, out |-> out, sdc |-> sdc]
    /\ UNCHANGED <<ctl, out, sdc>>

\* The n-th write of a call goes to the I/O register.
Level(c, n) == c.f = "set" \/ (c.f = "direction_output" /\ n = 1)

NewCtl(c) ==
    CASE c.f = "direction_input" -> Replaced(ctl, FieldBits.oe, {})
      [] c.f = "direction_output" -> Replaced(ctl, FieldBits.oe, FieldBits.oe)
      [] c.f = "set_function" -> Replaced(ctl, FieldBits.mux, BitsAt(c.function, MuxBit))
      [] c.f = "set_drive_strength" -> Replaced(ctl, FieldBits.drv, BitsAt((c.ma \div 2) - 1, DrvBit))
      [] c.f = "set_pull" -> Replaced(ctl, FieldBits.pull, BitsAt(c.pull, PullBit))
      [] OTHER -> BitsAt(c.pull, 0) \cup BitsAt(c.func, 2) \cup BitsAt(c.drvstr, 6) \cup BitsAt(c.enable, 9)

\* Each access reads the register it changes; only the call's own step writes it.
PinWrite ==
    /\ pinStep # 0
    /\ pinStep' = IF pinStep = Writes(pinCall) THEN 0 ELSE pinStep + 1
    /\ CASE pinCall.f = "set_pads" ->
                LET c == pinCall.cfg[pinStep]
                    pad == Pads[c.pad]
                IN /\ sdc' = Replaced(sdc, BitsAt(pad.mask, pad.off), BitsAt(c.val, pad.off))
                   /\ UNCHANGED <<ctl, out>>
         [] Level(pinCall, pinStep) -> out' = pinCall.value /\ UNCHANGED <<ctl, sdc>>
         [] OTHER -> ctl' = NewCtl(pinCall) /\ UNCHANGED <<out, sdc>>
    /\ UNCHANGED <<pinCall, pinWas, pinLeft>>

PinNext == PinCall \/ PinWrite
PinSpec == PinInit /\ [][PinNext]_pinVars

-----------------------------------------------------------------------------
(* Properties.                                                             *)

PinOk == ctl \subseteq 0 .. 9 /\ out \in {0, 1} /\ sdc \subseteq 0 .. 31 /\ pinStep \in 0 .. 3

\* The value of a field of the control register.
FieldIs(name, n) == ctl \cap FieldBits[name] = BitsAt(n, CHOOSE b \in FieldBits[name] : \A k \in FieldBits[name] : b <= k)
FieldOf(c) == CASE c.f = "set_function" -> "mux" [] c.f = "set_drive_strength" -> "drv"
                [] c.f = "set_pull" -> "pull" [] OTHER -> "oe"

\* A finished call has left in its field what it was asked for, the highest
\* function and strength included, and every other bit of the registers as it
\* found it; the pads of one slot do not disturb each other.
PinKept ==
    pinStep = 0 =>
       CASE pinCall.f = "none" \/ Impossible(pinCall) \/ pinCall.f = "get_direction" ->
                <<ctl, out, sdc>> = <<pinWas.ctl, pinWas.out, pinWas.sdc>>
         [] pinCall.f = "set_pads" ->
                /\ \A i \in DOMAIN pinCall.cfg :
                      LET pad == Pads[pinCall.cfg[i].pad]
                      IN sdc \cap BitsAt(pad.mask, pad.off) = BitsAt(pinCall.cfg[i].val, pad.off)
                /\ \A p \in DOMAIN Pads : (\A i \in DOMAIN pinCall.cfg : pinCall.cfg[i].pad # p) =>
                      sdc \cap BitsAt(Pads[p].mask, Pads[p].off) = pinWas.sdc \cap BitsAt(Pads[p].mask, Pads[p].off)
         [] pinCall.f = "tlmm_config" ->
                /\ FieldIs("mux", pinCall.func) /\ FieldIs("drv", pinCall.drvstr)
                /\ FieldIs("pull", pinCall.pull) /\ FieldIs("oe", pinCall.enable)
         [] pinCall.f = "set" -> out = pinCall.value /\ ctl = pinWas.ctl
         [] OTHER ->
                /\ ctl \ FieldBits[FieldOf(pinCall)] = pinWas.ctl \ FieldBits[FieldOf(pinCall)]
                /\ CASE pinCall.f = "set_function" -> FieldIs("mux", pinCall.function)
                     [] pinCall.f = "set_drive_strength" -> FieldIs("drv", (pinCall.ma - 2) \div 2)
                     [] pinCall.f = "set_pull" -> FieldIs("pull", pinCall.pull)
                     [] pinCall.f = "direction_input" -> FieldIs("oe", 0)
                     [] OTHER -> FieldIs("oe", 1) /\ out = pinCall.value

\* A pin that direction_output makes an output never drives, not for a moment,
\* the level it was not asked for.
NeverWrongLevel ==
    pinCall.f = "direction_output" /\ OeBit \in ctl /\ OeBit \notin pinWas.ctl => out = pinCall.value

GpioPinsOk == PinOk /\ PinKept /\ NeverWrongLevel
=============================================================================
