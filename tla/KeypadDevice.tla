---------------------------- MODULE KeypadDevice ----------------------------
(* The phone's five keys as KeypadDeviceImplLib.c scans them and as         *)
(* KeypadDeviceHelperLib.h turns samples into keystrokes: a short press is  *)
(* reported on release, a long press once it lasted LongTime, a volume key  *)
(* repeats, and Power combined with a volume key reports a letter.          *)
(*                                                                         *)
(* A scan (GetKeys) is one ScanBegin and one step per key of KeyList; no    *)
(* other operation runs between them, the caller holds TPL_NOTIFY.          *)
EXTENDS Integers, Sequences

CONSTANTS
    BounceTime,     \* MS2NS(10): a long press shorter than this is not over
    RepeatTime,     \* MS2NS(200): between two repeats
    LongTime,       \* MS2NS(500): a press becomes a long press
    Deltas,         \* the times that can pass between two scans
    Moving          \* the keys somebody touches

Key == {"Power", "VolumeUp", "VolumeDown", "Camera", "CameraFocus"}

ASSUME TimesAssumption ==
    /\ BounceTime \in Nat /\ RepeatTime \in Nat /\ LongTime \in Nat
    /\ 0 < BounceTime /\ BounceTime <= RepeatTime /\ RepeatTime <= LongTime
ASSUME DeltasAssumption == Deltas \subseteq Nat \ {0}
ASSUME MovingAssumption == Moving \subseteq Key

VARIABLES
    ctx,        \* per key: KEY_CONTEXT [data, time, state, repeat, longpress]
    held,       \* the bitmaps: data of the keys last read as pressed
    index,      \* the key of KeyList to read next, 0 between scans
    delta,      \* Delta of the running scan
    pushed,     \* the keystroke the last step handed to PushEfikeyBufTail
    down,       \* history: keys whose last successful read was "pressed",
                \*          forgotten by the first reset, which gives keys data
    reports,    \* history: keystrokes of the key's current press, 2 = two or more
    since,      \* history: time since the key's last keystroke or press
    powerSeen   \* history: Power was read as pressed during the key's press

vars == <<ctx, held, index, delta, pushed, down, reports, since, powerSeen>>

KeyList == <<"Power", "VolumeUp", "VolumeDown", "Camera", "CameraFocus">>

\* Keys behind a PMIC GPIO, whose read can fail; the other two are PON status
\* bits, whose read cannot.
GpioKeys == {"VolumeUp", "Camera", "CameraFocus"}

\* KeyData.Key of each context after a reset: a character or a scan code.
ResetData ==
    [k \in Key \ {"CameraFocus"} |->
        CASE k = "Power" -> "CR" [] k = "VolumeUp" -> "SCAN_UP"
          [] k = "VolumeDown" -> "SCAN_DOWN" [] k = "Camera" -> "SCAN_ESC"]

KeyCode == {"NULL", "CR", "SCAN_UP", "SCAN_DOWN", "SCAN_ESC"}

\* What can reach PushEfikeyBufTail: a context's own data or a combination.
Keystroke == KeyCode \cup {"char s", "char e", "char space"}

Context == [data : KeyCode, time : 0 .. LongTime,
            state : {"RELEASED", "PRESSED", "LONGPRESS_RELEASE"},
            repeat : BOOLEAN, longpress : BOOLEAN]

InitializedContext(d) ==
    [data |-> d, time |-> 0, state |-> "RELEASED", repeat |-> FALSE,
     longpress |-> FALSE]

\* Times are only compared with LongTime and shorter: they stop there.
Elapsed(t) == IF t + delta > LongTime THEN LongTime ELSE t + delta

\* Mutant of KeySetState: a key without data is not told apart.
KeySetStateAnyKey(k, isPressed) ==
    IF isPressed THEN held \cup {ctx[k].data} ELSE held \ {ctx[k].data}

\* KeySetState: a key without data has no bit.
KeySetState(k, isPressed) ==
    IF ctx[k].data = "NULL" THEN held
    ELSE IF isPressed THEN held \cup {ctx[k].data} ELSE held \ {ctx[k].data}

KeyGetState(d) == d \in held'

-----------------------------------------------------------------------------
Init ==
    /\ ctx = [k \in Key |-> InitializedContext("NULL")]
    /\ held = {}
    /\ index = 0
    /\ delta = 0
    /\ pushed = "none"
    /\ down = {}
    /\ reports = [k \in Key |-> 0]
    /\ since = [k \in Key |-> 0]
    /\ powerSeen = [k \in Key |-> FALSE]

\* KeypadDeviceImplReset, between two scans.  CameraFocus is not reinitialised
\* and the bitmaps keep their bits.
Reset ==
    /\ index = 0
    /\ ctx' = [k \in Key |-> IF k = "CameraFocus" THEN ctx[k]
                             ELSE InitializedContext(ResetData[k])]
    /\ reports' = [k \in Key |-> IF k = "CameraFocus" THEN reports[k] ELSE 0]
    /\ pushed' = "none"
    /\ down' = IF ctx["Power"].data = "NULL" THEN {} ELSE down
    /\ UNCHANGED <<held, index, delta, since, powerSeen>>

\* KeypadDeviceImplGetKeys is entered with the time since the last scan.
ScanBegin ==
    /\ index = 0
    /\ index' = 1
    /\ delta' \in Deltas
    /\ pushed' = "none"
    /\ UNCHANGED <<ctx, held, down, reports, since, powerSeen>>

Advance == index' = IF index = Len(KeyList) THEN 0 ELSE index + 1

\* The read of key k succeeds: LibKeyUpdateKeyStatus is entered.
ReadKey(k, isPressed) ==
    /\ index # 0 /\ k = KeyList[index]
    /\ isPressed => k \in Moving
    /\ held' = KeySetState(k, isPressed)
    /\ down' = IF isPressed THEN down \cup {k} ELSE down \ {k}
    /\ Advance
    /\ UNCHANGED delta

\* Key k's step pushes keystroke s.
Report(k, s) ==
    /\ pushed' = s
    /\ reports' = [reports EXCEPT ![k] = IF @ = 2 THEN 2 ELSE @ + 1]
    /\ since' = [since EXCEPT ![k] = 0]

Silent(k) ==
    /\ pushed' = "none"
    /\ UNCHANGED reports
    /\ since' = [since EXCEPT ![k] = Elapsed(@)]

SeePower(k) ==
    powerSeen' = [powerSeen EXCEPT ![k] = @ \/ "Power" \in down']

\* RC # 0: the key is left as it is and its share of the time is lost.
SkipKey(k) ==
    /\ index # 0 /\ k = KeyList[index]
    /\ k \in GpioKeys \cap Moving
    /\ pushed' = "none"
    /\ Advance
    /\ UNCHANGED <<ctx, held, delta, down, reports, since, powerSeen>>

StayReleased(k) ==
    /\ ctx[k].state = "RELEASED"
    /\ ReadKey(k, FALSE)
    /\ ctx' = [ctx EXCEPT ![k].time = Elapsed(@)]
    /\ Silent(k)
    /\ UNCHANGED powerSeen

Press(k) ==
    /\ ctx[k].state = "RELEASED"
    /\ ReadKey(k, TRUE)
    /\ ctx' = [ctx EXCEPT ![k].time = 0, ![k].state = "PRESSED"]
    /\ pushed' = "none"
    /\ reports' = [reports EXCEPT ![k] = 0]
    /\ since' = [since EXCEPT ![k] = 0]
    /\ powerSeen' = [powerSeen EXCEPT ![k] = "Power" \in down']

RepeatDue(k) == ctx[k].repeat /\ Elapsed(ctx[k].time) >= RepeatTime

\* Mutant of LongpressDue: it forgets that the long press was handled.
LongpressDueAgain(k) == ~RepeatDue(k) /\ Elapsed(ctx[k].time) >= LongTime

LongpressDue(k) ==
    ~RepeatDue(k) /\ ~ctx[k].longpress /\ Elapsed(ctx[k].time) >= LongTime

\* The key is held: nothing is due yet, or a combination suppressed it.
Hold(k) ==
    /\ ctx[k].state = "PRESSED"
    /\ ReadKey(k, TRUE)
    /\ ~RepeatDue(k) /\ ~LongpressDue(k)
    /\ ctx' = [ctx EXCEPT ![k].time = Elapsed(@)]
    /\ Silent(k)
    /\ SeePower(k)

\* Mutant of Repeat: the time is not started again, so every scan repeats.
RepeatKeepsTime(k) ==
    /\ ctx[k].state = "PRESSED"
    /\ ReadKey(k, TRUE)
    /\ RepeatDue(k)
    /\ ctx' = [ctx EXCEPT ![k].time = Elapsed(@)]
    /\ Report(k, ctx[k].data)
    /\ SeePower(k)

Repeat(k) ==
    /\ ctx[k].state = "PRESSED"
    /\ ReadKey(k, TRUE)
    /\ RepeatDue(k)
    /\ ctx' = [ctx EXCEPT ![k].time = 0, ![k].repeat = TRUE]
    /\ Report(k, ctx[k].data)
    /\ SeePower(k)

\* The long press of Power: one keystroke, which depends on the volume keys.
LongpressPower(k) ==
    /\ ctx[k].state = "PRESSED" /\ ctx[k].data = "CR"
    /\ ReadKey(k, TRUE)
    /\ LongpressDue(k)
    /\ Report(k, CASE KeyGetState("SCAN_DOWN") -> "char s"
                   [] ~KeyGetState("SCAN_DOWN") /\ KeyGetState("SCAN_UP") -> "char e"
                   [] OTHER -> "char space")
    /\ ctx' = [ctx EXCEPT ![k].time = Elapsed(@), ![k].longpress = TRUE]
    /\ SeePower(k)

\* The long press of another key starts its repeats, unless Power is held.
LongpressOther(k) ==
    /\ ctx[k].state = "PRESSED" /\ ctx[k].data # "CR"
    /\ ReadKey(k, TRUE)
    /\ LongpressDue(k)
    /\ \/ /\ ~KeyGetState("CR")
          /\ Report(k, ctx[k].data)
          /\ ctx' = [ctx EXCEPT ![k].time = 0, ![k].repeat = TRUE,
                                ![k].longpress = TRUE]
       \/ /\ KeyGetState("CR")
          /\ Silent(k)
          /\ ctx' = [ctx EXCEPT ![k].time = Elapsed(@), ![k].longpress = TRUE]
    /\ SeePower(k)

\* The end of a short press reports the key it held back.
ReleaseShort(k) ==
    /\ ctx[k].state = "PRESSED"
    /\ ReadKey(k, FALSE)
    /\ ~ctx[k].longpress
    /\ Report(k, ctx[k].data)
    /\ ctx' = [ctx EXCEPT ![k].time = Elapsed(@), ![k].state = "LONGPRESS_RELEASE"]
    /\ UNCHANGED powerSeen

\* Mutant of ReleaseLong: a sample inside BounceTime starts the time again.
ReleaseLongRestarts(k) ==
    /\ ctx[k].state = "PRESSED"
    /\ ReadKey(k, FALSE)
    /\ ctx[k].longpress
    /\ ctx' = IF Elapsed(ctx[k].time) >= BounceTime
              THEN [ctx EXCEPT ![k] = InitializedContext(ctx[k].data)]
              ELSE [ctx EXCEPT ![k].time = 0]
    /\ Silent(k)
    /\ UNCHANGED powerSeen

\* The end of a long press reports nothing more; a bounce is not the end.
ReleaseLong(k) ==
    /\ ctx[k].state = "PRESSED"
    /\ ReadKey(k, FALSE)
    /\ ctx[k].longpress
    /\ ctx' = IF Elapsed(ctx[k].time) >= BounceTime
              THEN [ctx EXCEPT ![k] = InitializedContext(ctx[k].data)]
              ELSE [ctx EXCEPT ![k].time = Elapsed(@)]
    /\ Silent(k)
    /\ UNCHANGED powerSeen

\* The scan after a short press only returns to RELEASED, pressed or not.
Settle(k) ==
    /\ ctx[k].state = "LONGPRESS_RELEASE"
    /\ \E isPressed \in BOOLEAN : ReadKey(k, isPressed)
    /\ ctx' = [ctx EXCEPT ![k] = InitializedContext(ctx[k].data)]
    /\ Silent(k)
    /\ UNCHANGED powerSeen

UpdateKeyStatus(k) ==
    \/ StayReleased(k) \/ Press(k) \/ Hold(k) \/ Repeat(k)
    \/ LongpressPower(k) \/ LongpressOther(k)
    \/ ReleaseShort(k) \/ ReleaseLong(k) \/ Settle(k)

GetKeys == \E k \in Key : SkipKey(k) \/ UpdateKeyStatus(k)

Next == Reset \/ ScanBegin \/ GetKeys

\* The timer event keeps scanning and a scan never blocks.
Spec == Init /\ [][Next]_vars /\ WF_vars(ScanBegin) /\ WF_vars(GetKeys)

-----------------------------------------------------------------------------
(* Properties *)

TypeOK ==
    /\ ctx \in [Key -> Context]
    /\ held \subseteq KeyCode \ {"NULL"}
    /\ index \in 0 .. Len(KeyList)
    /\ delta \in Nat
    /\ pushed \in Keystroke \cup {"none"}
    /\ down \subseteq Key
    /\ reports \in [Key -> 0 .. 2]
    /\ since \in [Key -> 0 .. LongTime]
    /\ powerSeen \in [Key -> BOOLEAN]

\* A scan step of key k ends its press.
PressEnds(k) ==
    index # 0 /\ ctx[k].state # "RELEASED" /\ ctx'[k].state = "RELEASED"

\* However long Power is held, bounces and whatever else is pressed, one press
\* of Power is one keystroke: Enter, or one of the long-press characters.
PowerReportsOnce ==
    [][PressEnds("Power") /\ ctx["Power"].data = "CR" => reports["Power"] = 1]_vars

\* A press of another key is swallowed only by a combination with Power.
SilentOnlyInCombo ==
    [][\A k \in Key \ {"Power"} :
          PressEnds(k) /\ reports[k] = 0 => powerSeen[k]]_vars

\* This step of the scan hands on a keystroke of key k.
Strokes(k) == index # 0 /\ k = KeyList[index] /\ pushed' # "none"

\* However long a key is held, each keystroke it gives while held, the tenth
\* like the first, comes at least RepeatTime after the one before it or after
\* the press (LibKeyUpdateKeyStatus starts Context->Time again at each).
RepeatSpacing ==
    [][\A k \in Key :
          Strokes(k) /\ ctx'[k].state = "PRESSED"
              => Elapsed(since[k]) >= RepeatTime]_vars

\* A combination keystroke tells the truth about the volume keys: they are
\* judged by the last read that succeeded, although Power is read first.
ComboTruth ==
    [][/\ pushed' = "char s" => "VolumeDown" \in down
       /\ pushed' = "char e" => "VolumeUp" \in down /\ "VolumeDown" \notin down
       /\ pushed' = "char space" => {"VolumeUp", "VolumeDown"} \cap down = {}]_vars

\* Taken together: the strokes a scan hands on tell what the hand did.  None
\* repeats early, none is withheld but by a combination, and a combination is
\* the one that was held (the scan of KeypadDeviceImplGetKeys).
PressesTold == RepeatSpacing /\ SilentOnlyInCombo /\ ComboTruth

\* A released key whose line can always be read does not stay pressed in the
\* driver: bounces, long presses and repeats all end.
KeysSettle ==
    \A k \in Key \ GpioKeys :
        <>[](k \notin down) => []<>(ctx[k].state = "RELEASED")

\* "Reset the input device": every key starts afresh.
ResetReinitialisesKeys ==
    [][Reset => \A k \in Key : ctx'[k].state = "RELEASED"]_vars
=============================================================================
