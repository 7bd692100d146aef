------------------------------ MODULE MmcTuning ------------------------------
(* sdhci_msm_execute_tuning (sdhci_msm.c): every delay of the DLL is tried   *)
(* with a tuning block, the longest window of delays that work is found and *)
(* a delay inside it is kept; when every delay works the card's drive       *)
(* strength is changed and the tuning repeated.  A second call, for HS400,  *)
(* calibrates the controller at the saved delay instead.                    *)
EXTENDS Integers, FiniteSets

CONSTANTS
    MAX_PHASES,
    MX_DRV_SUPPORTED_HS200,     \* the highest drive strength
    DrvSupport,                 \* possible sets of drive strengths of a card
    SwitchMayFail               \* BOOLEAN, of the card's CMD6

Phases == 0 .. MAX_PHASES - 1
DrvTypes == 0 .. MX_DRV_SUPPORTED_HS200
NoPhase == -1

ASSUME TuningAssumption ==
    /\ MAX_PHASES \in Nat \ {0} /\ MX_DRV_SUPPORTED_HS200 \in Nat
    /\ DrvSupport \subseteq SUBSET DrvTypes
    /\ SwitchMayFail \in BOOLEAN

VARIABLES
    pc, timing,             \* the call, and host->timing
    phase, tuned,           \* delay under test, those that passed
    drv_type, drv_type_changed,
    ret,
    slot,                   \* the second slot is tried when the first fails
    attempt_cdr_unlock,     \* static: outlives calls and slots
    tuning_done, calibration_done, saved_phase,     \* of the slot
    dll,                    \* delay the DLL runs with
    support, strength       \* the card's drive strengths

loop == <<phase, tuned>>
drive == <<drv_type, drv_type_changed>>
host == <<tuning_done, calibration_done, saved_phase>>
card == <<support, strength>>
vars == <<pc, timing, loop, drive, ret, slot, attempt_cdr_unlock, host, dll, card>>

Init ==
    /\ pc = "idle" /\ timing = "none"
    /\ phase = 0 /\ tuned = {}
    /\ drv_type = 0 /\ drv_type_changed = FALSE
    /\ ret = 0 /\ slot = 1
    /\ attempt_cdr_unlock = FALSE
    /\ tuning_done = FALSE /\ calibration_done = FALSE /\ saved_phase = 0
    /\ dll = NoPhase
    /\ support \in DrvSupport /\ strength = 0

-----------------------------------------------------------------------------
(* The choice of the delay *)

\* Delays that passed are cut into rows of consecutive ones: where they start
\* and end.
Starts(passed) == {p \in passed : p - 1 \notin passed}
End(passed, s) ==
    CHOOSE e \in passed : s <= e /\ s .. e \subseteq passed /\ e + 1 \notin passed

\* Mutant of Wraps: the loop of the delays is not looked at.
WrapsNever(passed) == FALSE

\* The row that ends at the last delay goes on with the one that starts at 0.
Wraps(passed) == {0, MAX_PHASES - 1} \subseteq passed /\ passed # Phases

RowLength(passed, s) ==
    End(passed, s) - s + 1
    + (IF Wraps(passed) /\ End(passed, s) = MAX_PHASES - 1 THEN End(passed, 0) + 1 ELSE 0)

\* The first of the longest rows, three quarters of the way.
sdhci_msm_find_appropriate_phase(passed) ==
    LET rows == Starts(passed) \ (IF Wraps(passed) THEN {0} ELSE {})
        longest == CHOOSE r \in rows : \A s \in rows :
                      \/ RowLength(passed, s) < RowLength(passed, r)
                      \/ RowLength(passed, s) = RowLength(passed, r) /\ r <= s
        quarter == (RowLength(passed, longest) * 3) \div 4
    IN  (longest + (IF quarter = 0 THEN 0 ELSE quarter - 1)) % MAX_PHASES

-----------------------------------------------------------------------------
(* The call *)

\* The first call of a slot tunes; mmc_set_hs400_mode makes the second one
\* when the first succeeded.
Begin(t) ==
    /\ pc = "idle"
    /\ tuning_done => ret = 0 /\ timing = "hs400" /\ t = "hs400" /\ ~calibration_done
    /\ timing' = t
    /\ pc' = IF tuning_done THEN "calibrate" ELSE "initDll"
    /\ phase' = 0 /\ tuned' = {} /\ drv_type' = 0 /\ drv_type_changed' = FALSE
    /\ ret' = 0
    /\ UNCHANGED <<slot, attempt_cdr_unlock, host, dll, card>>

\* mmc_init failed: target_mmc_sdhci_init tries the other slot, with a new
\* msm_host and another card.
NextSlot ==
    /\ pc = "idle" /\ slot = 1 /\ ret = 1
    /\ slot' = 2
    /\ tuning_done' = FALSE /\ calibration_done' = FALSE /\ saved_phase' = 0
    /\ dll' = NoPhase /\ timing' = "none" /\ ret' = 0
    /\ support' \in DrvSupport /\ strength' = 0
    /\ UNCHANGED <<pc, loop, drive, attempt_cdr_unlock>>

\* sdhci_msm_hs400_calibration: the DLL is set up again with the saved delay
\* and calibrated, or one of the waits times out.
Calibrate ==
    /\ pc = "calibrate" /\ pc' = "out"
    /\ \/ dll' = saved_phase /\ calibration_done' = TRUE /\ UNCHANGED ret
       \/ dll' \in {NoPhase, saved_phase} /\ ret' = 1 /\ UNCHANGED calibration_done
    /\ UNCHANGED <<timing, loop, drive, slot, attempt_cdr_unlock, tuning_done, saved_phase, card>>

InitDll ==
    /\ pc = "initDll"
    /\ dll' = NoPhase
    /\ \/ pc' = "config" /\ UNCHANGED ret
       \/ pc' = "out" /\ ret' = 1
    /\ UNCHANGED <<timing, loop, drive, slot, attempt_cdr_unlock, host, card>>

\* sdhci_msm_config_dll: the output clock comes back, or not in time.
ConfigDll ==
    /\ pc = "config"
    /\ \/ dll' = phase /\ pc' = "test" /\ UNCHANGED ret
       \/ dll' = NoPhase /\ pc' = "out" /\ ret' = 1
    /\ UNCHANGED <<timing, loop, drive, slot, attempt_cdr_unlock, host, card>>

\* CMD21, and after a failure up to 50 status commands: the delay passes when
\* the block came back as it should.
SendTuningBlock ==
    /\ pc = "test"
    /\ tuned' \in {tuned, tuned \cup {phase}}
    /\ phase' = phase + 1
    /\ pc' = IF phase' < MAX_PHASES THEN "config"
             ELSE IF tuned' = Phases THEN "drvType" ELSE "restore"
    /\ UNCHANGED <<timing, drive, ret, slot, attempt_cdr_unlock, host, dll, card>>

\* mmc_set_drv_type: the result of the switch is not looked at.
mmc_set_drv_type(d) ==
    IF d \in support
    THEN strength' = d \/ (SwitchMayFail /\ strength' = strength)
    ELSE strength' = strength

\* Mutant of NextDrvType: the same drive strength again and again.
NextDrvTypeSame ==
    /\ pc = "drvType"
    /\ drv_type' = (IF drv_type = 0 THEN 1 ELSE drv_type)
    /\ drv_type_changed' = TRUE
    /\ mmc_set_drv_type(drv_type')
    /\ IF drv_type' \in support
       THEN pc' = "config" /\ phase' = 0 /\ tuned' = {}
       ELSE pc' = "restore" /\ UNCHANGED loop
    /\ UNCHANGED <<timing, ret, slot, attempt_cdr_unlock, host, dll, support>>

\* Every delay passed: on to the next drive strength the card has.
NextDrvType ==
    /\ pc = "drvType"
    /\ drv_type' = drv_type + 1
    /\ \/ /\ drv_type' <= MX_DRV_SUPPORTED_HS200
          /\ drv_type_changed' = TRUE
          /\ mmc_set_drv_type(drv_type')
          /\ IF drv_type' \in support
             THEN pc' = "config" /\ phase' = 0 /\ tuned' = {}
             ELSE UNCHANGED <<pc, loop>>
       \/ /\ drv_type' > MX_DRV_SUPPORTED_HS200
          /\ pc' = "restore"
          /\ UNCHANGED <<drv_type_changed, loop, strength>>
    /\ UNCHANGED <<timing, ret, slot, attempt_cdr_unlock, host, dll, support>>

Restore ==
    /\ pc = "restore"
    /\ IF drv_type_changed THEN mmc_set_drv_type(0) ELSE UNCHANGED strength
    /\ attempt_cdr_unlock' = (attempt_cdr_unlock \/ tuned = Phases)
    /\ \/ tuned # {} /\ pc' = "select" /\ UNCHANGED ret
       \/ tuned = {} /\ pc' = "out" /\ ret' = 1
    /\ UNCHANGED <<timing, loop, drive, slot, host, dll, support>>

\* A DLL that does not take the delay chosen ends the call with ret still 0.
Select ==
    LET selected == sdhci_msm_find_appropriate_phase(tuned) IN
    /\ pc = "select" /\ pc' = "out"
    /\ \/ dll' = selected /\ saved_phase' = selected
       \/ dll' = NoPhase /\ UNCHANGED saved_phase
    /\ UNCHANGED <<timing, loop, drive, ret, slot, attempt_cdr_unlock, tuning_done,
                   calibration_done, card>>

\* The out label: CMD21 once more when attempt_cdr_unlock says so.
Out ==
    /\ pc = "out" /\ pc' = "idle"
    /\ tuning_done' = TRUE
    /\ UNCHANGED <<timing, loop, drive, ret, slot, attempt_cdr_unlock, calibration_done,
                   saved_phase, dll, card>>

Tune ==
    \/ Calibrate \/ InitDll \/ ConfigDll \/ SendTuningBlock
    \/ NextDrvType \/ Restore \/ Select \/ Out

Next ==
    \/ \E t \in {"hs200", "hs400"} : Begin(t)
    \/ NextSlot
    \/ Tune

Spec == Init /\ [][Next]_vars /\ WF_vars(Tune)

-----------------------------------------------------------------------------
(* Properties *)

\* Delays and drive strengths are in their tables; phase is past the table
\* only once every delay was tested.
TypeOK ==
    /\ pc \in {"idle", "calibrate", "initDll", "config", "test", "drvType", "restore",
               "select", "out"}
    /\ timing \in {"none", "hs200", "hs400"}
    /\ phase \in 0 .. MAX_PHASES /\ tuned \subseteq Phases
    /\ pc \in {"config", "test"} => phase \in Phases
    /\ drv_type \in 0 .. MX_DRV_SUPPORTED_HS200 + 1 /\ drv_type_changed \in BOOLEAN
    /\ ret \in {0, 1} /\ slot \in {1, 2} /\ attempt_cdr_unlock \in BOOLEAN
    /\ tuning_done \in BOOLEAN /\ calibration_done \in BOOLEAN
    /\ saved_phase \in Phases /\ dll \in Phases \cup {NoPhase}
    /\ support \subseteq DrvTypes /\ strength \in DrvTypes

\* The window of n delays that starts at s; delays are modulo MAX_PHASES.
Window(s, n) == {(s + k) % MAX_PHASES : k \in 0 .. n - 1}
Fits(passed, n) == \E s \in Phases : Window(s, n) \subseteq passed

\* "Finds the largest consecutive sequence of phases & then selects the 3/4th
\* of the range": the delay kept is three quarters into a window of delays
\* that passed than which there is no longer one, across the wrap-around.
PhaseWellChosen ==
    pc = "out" /\ tuned # {} /\ dll # NoPhase /\ ret = 0 =>
        \E n \in 1 .. MAX_PHASES, s \in Phases :
            /\ Window(s, n) \subseteq tuned
            /\ ~Fits(tuned, n + 1) \/ n = MAX_PHASES
            /\ dll = (s + (IF n = 1 THEN 0 ELSE (3 * n) \div 4 - 1)) % MAX_PHASES

\* "Restore the driver strength to default value": after a tuning that returns
\* 0 the card drives its lines with the default strength.
DriverTypeRestored == pc \in {"select", "out", "idle"} /\ 0 \in support /\ ret = 0 => strength = 0

\* Taken together: a tuning that reports success leaves the delay and the
\* drive strength it was meant to leave.
TunedWell == TypeOK /\ PhaseWellChosen /\ DriverTypeRestored

\* The tuning ends, however many drive strengths a card has.
TuningEnds == (pc # "idle") ~> (pc = "idle")

\* "Return : 0 on Success, 1 on Failure": the DLL runs with a delay after a
\* call that returned 0 (sdhci_msm_execute_tuning).
SuccessIsConfigured == pc = "idle" /\ tuning_done /\ ret = 0 => dll \in Phases

\* "If all the tuning phases passed, send CMD21 after enabling CDR": CMD21 is
\* sent at the end of a call in which all of them passed.
CdrAfterAllPassed ==
    [][attempt_cdr_unlock /\ pc = "out" /\ pc' = "idle" => tuned = Phases]_vars
=============================================================================
