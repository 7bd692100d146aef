------------------------------ MODULE ClockTree ------------------------------
(***************************************************************************)
(* The clock driver (ClockDxe: clock.c, clock_lib2.c, clock_pll.c) over    *)
(* the tables of ClockTable, called through the protocol by clients that   *)
(* look clocks up by name, and the MMC clock set-up of acpuclock.c.  The   *)
(* hardware is the set of gates that are on (branch enable bits, bits of   *)
(* the vote registers), the configuration registers of the root            *)
(* generators and the reset lines.                                         *)
(*                                                                         *)
(* A call runs to its end before the next: nothing in the driver waits for *)
(* anything but the hardware's answer to its own write, which comes.       *)
(***************************************************************************)
EXTENDS ClockTable, FiniteSets

CONSTANTS ChipsUsed,   \* which tables the behaviours start with
          NameGroups,  \* sets of lookup names; a behaviour's clients use one
          Slots,       \* the SD controllers that are set up
          Rates,       \* the rates clients ask for, in units of 100 Hz
          LeftOn,      \* gates the previous boot stage leaves on
          MaxCount,    \* bound on the reference count of a clients' clock
          MaxSource    \* bound on the reference count of a source

ASSUME ChipsAssumption ==
    ChipsUsed \subseteq Chips /\ MaxCount \in Nat \ {0} /\ MaxSource \in Nat

VARIABLES chip,   \* the table clk_init was given
          st,     \* the driver's and the hardware's state, see ClockStates
          call,   \* the last call and its result
          names   \* the names the clients of this behaviour use
clockVars == <<chip, st, call, names>>

Clk == Clocks(chip)
Rcgs == { c \in DOMAIN Clk : Clk[c].ops = "rcg" }

\* The clocks whose enable and disable operations drive a bit of the hardware:
\* CBCR_BRANCH_ENABLE_BIT of a branch, en_mask in the vote register shared by
\* others, en_mask in the PLLs' vote register.
BranchGate(c) == Clk[c].ops = "branch"
VoteGate(c) == Clk[c].ops = "vote"
PllGate(c) == Clk[c].ops = "pll"
HasGate(c) == BranchGate(c) \/ VoteGate(c) \/ PllGate(c)
Gates == { c \in DOMAIN Clk : HasGate(c) }

ResetConfig == [sel |-> 0, div2 |-> 1, mode |-> 0, m |-> 0, n |-> 0]

-----------------------------------------------------------------------------
(* clock.c and the operations of clock_lib2.c and clock_pll.c, as functions *)
(* from a state to the next.                                                *)

\* clk_enable: the first reference switches the gate on.  No table gives a
\* get_parent operation, so there is never a parent to enable first; a root,
\* the crystal and a reset line have nothing to switch.
ClkEnable(s, c) ==
    [s EXCEPT !.count[c] = @ + 1,
              !.on = IF s.count[c] = 0 /\ HasGate(c) THEN @ \cup {c} ELSE @]

\* Mutant of ClkDisable: the gate goes off with the first reference given back.
ClkDisableEarly(s, c) ==
    IF s.count[c] = 0 THEN s ELSE [s EXCEPT !.count[c] = @ - 1, !.on = @ \ {c}]

\* Mutant of ClkDisable: the whole vote register is cleared with the bit.
ClkDisableWholeRegister(s, c) ==
    CASE s.count[c] = 0 -> s
      [] s.count[c] = 1 -> [s EXCEPT !.count[c] = 0,
                                     !.on = { g \in @ \ {c} : Clk[g].ops # Clk[c].ops }]
      [] OTHER          -> [s EXCEPT !.count[c] = @ - 1]

\* clk_disable: the last reference switches the gate off, none is ignored.
ClkDisable(s, c) ==
    CASE s.count[c] = 0 -> s
      [] s.count[c] = 1 -> [s EXCEPT !.count[c] = 0, !.on = @ \ {c}]
      [] OTHER          -> [s EXCEPT !.count[c] = @ - 1]

\* The source select field after a write: CFG_SRC_SEL_MASK clears two of the
\* three bits that the tables' values use.
SelectAfter(old, new) == IF old >= 4 /\ new < 4 THEN new + 4 ELSE new

\* clock_lib2_rcg_set_rate_hid and _mnd, with the update that follows.
ProgramHid(cfg, row) ==
    [cfg EXCEPT !.sel = SelectAfter(@, SourceVal(row)), !.div2 = row.div2]

\* Mutant of ProgramMnd: the mode of the old rate is not cleared.
ProgramMndKeepsMode(cfg, row) ==
    [ProgramHid(cfg, row) EXCEPT
        !.mode = IF row.n # 0 THEN 2 ELSE @, !.m = row.m, !.n = row.n]

ProgramMnd(cfg, row) ==
    [ProgramHid(cfg, row) EXCEPT
        !.mode = IF row.n # 0 THEN 2 ELSE 0, !.m = row.m, !.n = row.n]
Program(how, cfg, row) == IF how = "mnd" THEN ProgramMnd(cfg, row) ELSE ProgramHid(cfg, row)

\* clock_lib2_rcg_set_rate: the first row with the rate; its source is enabled
\* before the switch, and the source of the old row keeps its reference.
RowOf(r, f) == CHOOSE i \in 1..Len(Clk[r].tbl) :
                  Clk[r].tbl[i].freq = f /\ \A j \in 1..(i - 1) : Clk[r].tbl[j].freq # f
InTable(r, f) == \E i \in 1..Len(Clk[r].tbl) : Clk[r].tbl[i].freq = f

EnableSource(s, src) == IF src = None THEN s ELSE ClkEnable(s, src)

RcgSetRate(s, r, f) ==
    LET i   == RowOf(r, f)
        row == Clk[r].tbl[i]
    IN IF i = s.current[r] THEN s
       ELSE [EnableSource(s, SrcClk(row)) EXCEPT
                !.current[r] = i,
                !.cfg[r] = Program(Clk[r].how, @, row),
                !.wild = IF Clk[r].cfgReg THEN @ ELSE @ \cup {r}]

\* clk_set_rate through a branch goes to its root, unless it has siblings.
Root(c) == IF Clk[c].ops = "branch" THEN IF Clk[c].sibling THEN None ELSE Clk[c].parent ELSE c

RateAccepted(c, f) ==
    LET r == Root(c) IN r # None /\ Clk[r].ops = "rcg" /\ InTable(r, f)

ClkSetRate(s, c, f) == RcgSetRate(s, Root(c), f)

\* clk_get_set_enable: look up, set the rate when one is given, then enable.
GetSetEnableOk(id, f) ==
    id \in DOMAIN Lookup(chip) /\ (f # 0 => RateAccepted(Lookup(chip)[id], f))
GetSetEnableState(s, id, f, enable) ==
    LET c  == Lookup(chip)[id]
        s1 == IF f # 0 THEN ClkSetRate(s, c, f) ELSE s
    IN IF enable THEN ClkEnable(s1, c) ELSE s1

\* clk_reset: the bit of the reset register.  A branch with no bcr_reg writes
\* through an address nobody set; an operation the table lacks does nothing.
HasReset(c) == chip = "msm8994" /\ Clk[c].ops \in {"branch", "reset"}
ClkReset(s, c, assert) ==
    IF ~HasReset(c) THEN s
    ELSE IF Clk[c].ops = "branch" /\ ~Clk[c].bcr THEN [s EXCEPT !.wild = @ \cup {c}]
    ELSE [s EXCEPT !.bcr = IF assert THEN @ \cup {c} ELSE @ \ {c}]

-----------------------------------------------------------------------------
(* The calls. *)

Bounded(s) ==
    \A c \in DOMAIN Clk :
        s.count[c] <= IF Clk[c].ops \in {"cxo", "pll"} THEN MaxSource ELSE MaxCount

Return(op, id, f, s, r) ==
    /\ Bounded(s)
    /\ st' = s
    /\ call' = [op |-> op, id |-> id, rate |-> f, ret |-> r]
    /\ UNCHANGED <<chip, names>>

\* The result of get_set_enable and what a failing one leaves: everything.
GetSetEnable(id, f, enable) ==
    IF GetSetEnableOk(id, f)
    THEN Return("get_set_enable", id, f, GetSetEnableState(st, id, f, enable), "ok")
    ELSE Return("get_set_enable", id, f, st, "error")

\* clk_get: a name that is in no row has no clock.
Known(id) == id \in DOMAIN Lookup(chip)
Enable(id) == Known(id) /\ Return("enable", id, 0, ClkEnable(st, Lookup(chip)[id]), "ok")
Disable(id) == Known(id) /\ Return("disable", id, 0, ClkDisable(st, Lookup(chip)[id]), "ok")
SetRate(id, f) ==
    /\ Known(id)
    /\ IF RateAccepted(Lookup(chip)[id], f)
       THEN Return("set_rate", id, f, ClkSetRate(st, Lookup(chip)[id], f), "ok")
       ELSE Return("set_rate", id, f, st, "error")
ResetClk(id, assert) ==
    /\ Known(id)
    /\ Return("reset", id, 0, ClkReset(st, Lookup(chip)[id], assert), "ok")

\* acpuclock.c: the SD controller's clocks.  An unsupported rate, and a call
\* that fails, end in ASSERT(0).
SdcIface(slot) == IF slot = 1 THEN "sdc1_iface_clk" ELSE "sdc2_iface_clk"
SdcCore(slot) == IF slot = 1 THEN "sdc1_core_clk" ELSE "sdc2_core_clk"

\* Mutant of MmcRates: 96 MHz is asked for as such, a rate of other chips.
MmcRatesRounded == [ r400k |-> 4000, r25m |-> 250000, r50m |-> 500000, r96m |-> 960000,
                     r192m |-> 1920000, r200m |-> 2000000, r400m |-> 3840000 ]

\* The rate asked of the core clock for each MMC_CLK_ constant.
MmcRates == [ r400k |-> 4000, r25m |-> 250000, r50m |-> 500000, r96m |-> 1000000,
              r192m |-> 1920000, r200m |-> 2000000, r400m |-> 3840000 ]

OrAssert(op, id, f) ==
    IF GetSetEnableOk(id, f)
    THEN Return(op, id, f, GetSetEnableState(st, id, f, TRUE), "ok")
    ELSE Return(op, id, f, st, "assert")

ClockInitMmc(slot) == OrAssert("init_mmc", SdcIface(slot), 0)
ClockConfigMmc(slot, f) ==
    IF f \in DOMAIN MmcRates THEN OrAssert("config_mmc", SdcCore(slot), MmcRates[f])
    ELSE Return("config_mmc", SdcCore(slot), 0, st, "assert")

\* clock_config_cdc: nothing on MSM8974; elsewhere the two calibration clocks,
\* the second asked for even when the first is missing.
Cdccal == << "gcc_sdcc1_cdccal_sleep_clk", "gcc_sdcc1_cdccal_ff_clk" >>
ClockConfigCdc ==
    IF chip = "msm8974" THEN Return("config_cdc", Cdccal[1], 0, st, "ok")
    ELSE LET After(s, id) == IF Known(id) THEN GetSetEnableState(s, id, 0, TRUE) ELSE s
         IN Return("config_cdc", Cdccal[1], 0, After(After(st, Cdccal[1]), Cdccal[2]),
                   IF Known(Cdccal[1]) /\ Known(Cdccal[2]) THEN "ok" ELSE "assert")

\* ClockImplLibInitialize hands clk_init the table; the counts start at zero,
\* whatever the previous boot stage left running.
ClockInit ==
    /\ chip \in ChipsUsed
    /\ names \in NameGroups
    /\ st = [ count   |-> [c \in DOMAIN Clk |-> 0],
              on      |-> LeftOn \cap Gates,
              current |-> [r \in Rcgs |-> 0],
              cfg     |-> [r \in Rcgs |-> ResetConfig],
              bcr     |-> {},
              wild    |-> {} ]
    /\ call = [op |-> "clk_init", id |-> "", rate |-> 0, ret |-> "ok"]

ClockNext ==
    \/ \E id \in names, f \in Rates \cup {0} : GetSetEnable(id, f, TRUE)
    \/ \E id \in names : Enable(id) \/ Disable(id)
    \/ \E id \in names, f \in Rates : SetRate(id, f)
    \/ \E id \in names, a \in BOOLEAN : ResetClk(id, a)
    \/ \E slot \in Slots : SdcCore(slot) \in names /\ ClockInitMmc(slot)
    \/ \E slot \in Slots, f \in DOMAIN MmcRates \cup {"other"} :
          SdcCore(slot) \in names /\ ClockConfigMmc(slot, f)
    \/ SdcCore(1) \in names /\ ClockConfigCdc

ClockSpec == ClockInit /\ [][ClockNext]_clockVars

-----------------------------------------------------------------------------
(* What the hardware produces. *)

\* The source a root's multiplexer selects, by the value in its register.
SelectedSource(r) ==
    LET rows == { Clk[r].tbl[i] : i \in 1..Len(Clk[r].tbl) }
        hits == { row.src : row \in { w \in rows : SourceVal(w) = st.cfg[r].sel } }
    IN IF hits = {} THEN None ELSE CHOOSE s \in hits : TRUE

\* The rate behind a root generator: source / divider, times m / n in dual edge mode.
RateOut(r) ==
    LET s    == SelectedSource(r)
        base == (2 * Clk[s].rate) \div st.cfg[r].div2
    IN IF s = None THEN 0
       ELSE IF st.cfg[r].mode # 2 THEN base
       ELSE IF st.cfg[r].n = 0 THEN 0
       ELSE (base \div st.cfg[r].n) * st.cfg[r].m

Row(r) == Clk[r].tbl[st.current[r]]
Running(r) == st.current[r] # 0

\* A root all of whose rows agree on the third bit of the source select, and
\* whose sources the driver controls.
Settled(r) == \A i, j \in 1..Len(Clk[r].tbl) :
                 /\ (SourceVal(Clk[r].tbl[i]) >= 4) = (SourceVal(Clk[r].tbl[j]) >= 4)
                 /\ SrcClk(Clk[r].tbl[i]) # None

-----------------------------------------------------------------------------
(* Properties *)

ClockTypeOK ==
    /\ chip \in ChipsUsed
    /\ \A c \in DOMAIN Clk : st.count[c] \in 0..(MaxCount + MaxSource)
    /\ st.on \subseteq Gates
    /\ \A r \in Rcgs : st.current[r] \in 0..Len(Clk[r].tbl)
    /\ st.bcr \subseteq DOMAIN Clk

\* A gate with a reference is on, whoever shares it under whatever name; one
\* without a reference runs only if the previous boot stage left it so.
GatesFollowCounts ==
    \A g \in Gates : /\ st.count[g] > 0 => g \in st.on
                     /\ g \in st.on => st.count[g] > 0 \/ g \in LeftOn

\* The source that a root is recorded to run from is held: a reference count
\* of at least the number of roots that run from it, so no disable of one
\* client's clock can stop another's (clk_enable(nf->src_clk) precedes every
\* switch and is never undone).
SourcesHeld ==
    \A s \in DOMAIN Clk : Clk[s].ops \in {"pll", "cxo"} =>
        st.count[s] >= Cardinality({ r \in Rcgs : Running(r) /\ SrcClk(Row(r)) = s })

\* ClockTypeOK, GatesFollowCounts and SourcesHeld together: the driver's books and
\* the hardware agree.
BooksMatchHardware == ClockTypeOK /\ GatesFollowCounts /\ SourcesHeld

\* What the registers of a root produce is the rate the driver has on record
\* for it (clock_lib2_rcg_set_rate returns without writing when the recorded
\* rate is asked for again, so a mismatch would last), after any sequence of
\* rate changes through any of its branches.
RateAsRecorded ==
    \A r \in Rcgs : (Running(r) /\ Settled(r)) => RateOut(r) = Row(r).freq

\* The same of every root with sources of its own, those included whose tables
\* use source values above and below four.
EveryRateAsRecorded ==
    \A r \in Rcgs : (Running(r) /\ SrcClk(Row(r)) # None) => RateOut(r) = Row(r).freq

\* After mmc_host_init's two calls, whatever was called before, the card's
\* core clock runs at the asked rate: the rows of the build's table hold every
\* rate up to 200 MHz that clock_config_mmc passes on, 192 MHz excepted.
MmcClockServed ==
    (chip = "msm8974" /\ call.op = "config_mmc" /\ call.rate \notin {0, 1920000, 3840000}) =>
        LET c == Lookup(chip)[call.id] IN
        /\ call.ret = "ok"
        /\ c \in st.on
        /\ RateOut(Clk[c].parent) = call.rate

\* A call touches its own clock: another gate goes on only as the source of
\* the new rate, and none but the caller's goes off; only the caller's root is
\* reprogrammed; a call that fails leaves everything as it was.
CallIsLocal ==
    LET own == IF Known(call'.id) THEN Lookup(chip)[call'.id] ELSE None IN
    /\ \A g \in st.on \ st'.on : g = own /\ call'.op = "disable" /\ st.count[g] = 1
    /\ \A g \in st'.on \ st.on : g = own \/ Clk[g].ops = "pll" \/ call'.op = "config_cdc"
    /\ \A r \in Rcgs : st'.cfg[r] # st.cfg[r] => r = Root(own)
    /\ call'.ret # "ok" => (st' = st \/ call'.op = "config_cdc")
CallsAreLocal == [][CallIsLocal]_clockVars

\* The rate of a clock changes only by a call through its own name: a rate
\* that a client was given is kept until that client asks for another.
RateIsOwn ==
    [][\A id \in names :
         LET c == Lookup(chip)[id] IN
         (Known(id) /\ Root(c) \in Rcgs /\ st'.current[Root(c)] # st.current[Root(c)]
            /\ st.count[c] > 0) => call'.id = id]_clockVars

\* No register is written that the table did not give.
NoWildAccess == st.wild = {}
=============================================================================
