-------------------------- MODULE KeypadDeviceProofs --------------------------
(* Proofs about the key contexts, for every choice of the times, of the      *)
(* intervals between scans and of the keys that are touched; about the ring  *)
(* the keystrokes go through: it implements the drop-oldest queue of         *)
(* KeyFifo, for every number of slots and every set of keystrokes; and, at   *)
(* the end, about Start and Stop of the driver that holds both: whichever    *)
(* call of Start fails, wherever Stop gives up, and whatever the timer, the  *)
(* clients and the dispatcher do between two calls, nothing is used after    *)
(* its release and nothing is left when the driver is not bound.             *)
EXTENDS KeypadDevice, KeyQueue, KeypadBinding, SequenceTheorems, TLAPS

\* The index walks over the five keys of KeyList.
LEMMA KeyListKeys ==
    /\ Len(KeyList) = 5
    /\ \A i \in 1 .. 5 : KeyList[i] \in Key
BY DEF KeyList, Key

\* Times stay inside 0 .. LongTime.
LEMMA ElapsedType ==
    ASSUME NEW t \in 0 .. LongTime, delta \in Nat
    PROVE  Elapsed(t) \in 0 .. LongTime
BY TimesAssumption DEF Elapsed

LEMMA InitializedContextType ==
    ASSUME NEW d \in KeyCode
    PROVE  InitializedContext(d) \in Context
<1>1. 0 \in 0 .. LongTime
  BY TimesAssumption
<1> QED
  BY <1>1 DEF InitializedContext, Context

LEMMA ResetDataType ==
    ASSUME NEW k \in Key, k # "CameraFocus"
    PROVE  ResetData[k] \in KeyCode /\ ResetData[k] # "NULL"
           /\ (ResetData[k] = "CR" <=> k = "Power")
BY DEF ResetData, Key, KeyCode

\* What a successful read of key k changes besides the key's context.
LEMMA ReadKeyType ==
    ASSUME TypeOK, NEW k \in Key, NEW p \in BOOLEAN, ReadKey(k, p)
    PROVE  /\ held' \subseteq KeyCode \ {"NULL"}
           /\ down' \subseteq Key
           /\ index' \in 0 .. Len(KeyList)
           /\ delta' \in Nat
<1>1. ctx[k].data \in KeyCode
  BY DEF TypeOK, Context
<1>2. held' \subseteq KeyCode \ {"NULL"}
  BY <1>1 DEF TypeOK, ReadKey, KeySetState
<1>3. index' \in 0 .. Len(KeyList)
  BY KeyListKeys DEF TypeOK, ReadKey, Advance
<1> QED
  BY <1>2, <1>3 DEF TypeOK, ReadKey

\* The histories after a step of key k that reports or does not.
LEMMA HistoryType ==
    ASSUME TypeOK, NEW k \in Key
    PROVE  /\ Silent(k) => reports' \in [Key -> 0 .. 2] /\ since' \in [Key -> 0 .. LongTime]
                           /\ pushed' \in Keystroke \cup {"none"}
           /\ \A s \in Keystroke :
                 Report(k, s) => reports' \in [Key -> 0 .. 2] /\ since' \in [Key -> 0 .. LongTime]
                                 /\ pushed' \in Keystroke \cup {"none"}
           /\ SeePower(k) => powerSeen' \in [Key -> BOOLEAN]
<1>1. Elapsed(since[k]) \in 0 .. LongTime /\ 0 \in 0 .. LongTime
  BY ElapsedType, TimesAssumption DEF TypeOK
<1>2. Silent(k) => reports' \in [Key -> 0 .. 2] /\ since' \in [Key -> 0 .. LongTime]
                   /\ pushed' \in Keystroke \cup {"none"}
  BY <1>1 DEF TypeOK, Silent
<1>3. (IF reports[k] = 2 THEN 2 ELSE reports[k] + 1) \in 0 .. 2
  BY DEF TypeOK
<1>4. ASSUME NEW s \in Keystroke, Report(k, s)
      PROVE  reports' \in [Key -> 0 .. 2] /\ since' \in [Key -> 0 .. LongTime]
             /\ pushed' \in Keystroke \cup {"none"}
  BY <1>1, <1>3, <1>4 DEF TypeOK, Report
<1>5. SeePower(k) => powerSeen' \in [Key -> BOOLEAN]
  BY DEF TypeOK, SeePower
<1> QED
  BY <1>2, <1>4, <1>5

\* Every step of a scan leaves the contexts well-formed.
LEMMA ContextType ==
    ASSUME TypeOK, NEW k \in Key, UpdateKeyStatus(k)
    PROVE  ctx' \in [Key -> Context]
<1>1. ctx[k] \in Context /\ ctx[k].data \in KeyCode /\ ctx[k].time \in 0 .. LongTime
  BY DEF TypeOK, Context
<1>2. Elapsed(ctx[k].time) \in 0 .. LongTime /\ 0 \in 0 .. LongTime
  <2>1. delta \in Nat
    BY DEF TypeOK
  <2>2. Elapsed(ctx[k].time) \in 0 .. LongTime
    BY <1>1, <2>1, ElapsedType
  <2> QED
    BY <2>2, TimesAssumption
<1>3. InitializedContext(ctx[k].data) \in Context
  BY <1>1, InitializedContextType
<1>4. CASE StayReleased(k)
  BY <1>1, <1>2, <1>4 DEF StayReleased, TypeOK, Context
<1>5. CASE Press(k)
  BY <1>1, <1>2, <1>5 DEF Press, TypeOK, Context
<1>6. CASE Hold(k)
  BY <1>1, <1>2, <1>6 DEF Hold, TypeOK, Context
<1>7. CASE Repeat(k)
  BY <1>1, <1>2, <1>7 DEF Repeat, TypeOK, Context
<1>8. CASE LongpressPower(k)
  BY <1>1, <1>2, <1>8 DEF LongpressPower, TypeOK, Context
<1>9. CASE LongpressOther(k)
  <2>1. [ctx EXCEPT ![k].time = 0, ![k].repeat = TRUE, ![k].longpress = TRUE]
            \in [Key -> Context]
    BY <1>1, <1>2 DEF TypeOK, Context
  <2>2. [ctx EXCEPT ![k].time = Elapsed(@), ![k].longpress = TRUE] \in [Key -> Context]
    BY <1>1, <1>2 DEF TypeOK, Context
  <2> QED
    BY <1>9, <2>1, <2>2 DEF LongpressOther
<1>10. CASE ReleaseShort(k)
  BY <1>1, <1>2, <1>10 DEF ReleaseShort, TypeOK, Context
<1>11. CASE ReleaseLong(k)
  <2>1. [ctx EXCEPT ![k].time = Elapsed(@)] \in [Key -> Context]
    BY <1>1, <1>2 DEF TypeOK, Context
  <2>2. [ctx EXCEPT ![k] = InitializedContext(ctx[k].data)] \in [Key -> Context]
    BY <1>3 DEF TypeOK
  <2> QED
    BY <1>11, <2>1, <2>2 DEF ReleaseLong
<1>12. CASE Settle(k)
  BY <1>3, <1>12 DEF Settle, TypeOK
<1> QED
  BY <1>4, <1>5, <1>6, <1>7, <1>8, <1>9, <1>10, <1>11, <1>12 DEF UpdateKeyStatus

\* An update reads its key, and its histories stay well-formed.
LEMMA UpdateType ==
    ASSUME TypeOK, NEW k \in Key, UpdateKeyStatus(k)
    PROVE  /\ \E p \in BOOLEAN : ReadKey(k, p)
           /\ reports' \in [Key -> 0 .. 2]
           /\ since' \in [Key -> 0 .. LongTime]
           /\ pushed' \in Keystroke \cup {"none"}
           /\ powerSeen' \in [Key -> BOOLEAN]
<1>1. ctx[k].data \in Keystroke
  <2>1. ctx[k] \in Context
    BY DEF TypeOK
  <2> QED
    BY <2>1 DEF Context, Keystroke
<1>2. powerSeen \in [Key -> BOOLEAN] /\ 0 \in 0 .. LongTime
  BY TimesAssumption DEF TypeOK
<1>3. CASE StayReleased(k)
  BY <1>2, <1>3, HistoryType DEF StayReleased
<1>4. CASE Press(k)
  <2>1. reports' \in [Key -> 0 .. 2] /\ since' \in [Key -> 0 .. LongTime]
        /\ pushed' \in Keystroke \cup {"none"}
    BY <1>2, <1>4 DEF Press, TypeOK
  <2>2. powerSeen' \in [Key -> BOOLEAN]
    BY <1>2, <1>4 DEF Press
  <2> QED
    BY <1>4, <2>1, <2>2 DEF Press
<1>5. CASE Hold(k)
  BY <1>5, HistoryType DEF Hold
<1>6. CASE Repeat(k)
  BY <1>1, <1>6, HistoryType DEF Repeat
<1>7. CASE LongpressPower(k)
  <2>1. PICK s \in Keystroke : Report(k, s)
    BY <1>7 DEF LongpressPower, Keystroke
  <2> QED
    BY <1>7, <2>1, HistoryType DEF LongpressPower
<1>8. CASE LongpressOther(k)
  BY <1>1, <1>8, HistoryType DEF LongpressOther
<1>9. CASE ReleaseShort(k)
  BY <1>1, <1>2, <1>9, HistoryType DEF ReleaseShort
<1>10. CASE ReleaseLong(k)
  BY <1>2, <1>10, HistoryType DEF ReleaseLong
<1>11. CASE Settle(k)
  BY <1>2, <1>11, HistoryType DEF Settle
<1> QED
  BY <1>3, <1>4, <1>5, <1>6, <1>7, <1>8, <1>9, <1>10, <1>11 DEF UpdateKeyStatus

-----------------------------------------------------------------------------
\* The contexts, the bitmaps and the histories keep their types through every
\* scan and every reset.
THEOREM DeviceTypeOK == Spec => []TypeOK
<1>1. Init => TypeOK
  <2> SUFFICES ASSUME Init PROVE TypeOK
    OBVIOUS
  <2>1. InitializedContext("NULL") \in Context
    BY InitializedContextType DEF KeyCode
  <2>2. 0 \in 0 .. LongTime
    BY TimesAssumption
  <2> QED
    BY <2>1, <2>2, KeyListKeys DEF Init, TypeOK
<1>2. TypeOK /\ [Next]_vars => TypeOK'
  <2> SUFFICES ASSUME TypeOK, [Next]_vars PROVE TypeOK'
    OBVIOUS
  <2>1. CASE Reset
    <3>1. \A k \in Key \ {"CameraFocus"} : InitializedContext(ResetData[k]) \in Context
      BY ResetDataType, InitializedContextType
    <3>2. ctx' \in [Key -> Context]
      BY <2>1, <3>1 DEF Reset, TypeOK
    <3>3. reports' \in [Key -> 0 .. 2]
      BY <2>1 DEF Reset, TypeOK
    <3> QED
      BY <2>1, <3>2, <3>3 DEF Reset, TypeOK
  <2>2. CASE ScanBegin
    BY <2>2, KeyListKeys, DeltasAssumption DEF ScanBegin, TypeOK
  <2>3. ASSUME NEW k \in Key, SkipKey(k) PROVE TypeOK'
    BY <2>3, KeyListKeys DEF SkipKey, Advance, TypeOK
  <2>4. ASSUME NEW k \in Key, UpdateKeyStatus(k) PROVE TypeOK'
    <3>1. PICK p \in BOOLEAN : ReadKey(k, p)
      BY <2>4, UpdateType
    <3> QED
      BY <2>4, <3>1, ReadKeyType, ContextType, UpdateType DEF TypeOK
  <2>5. CASE UNCHANGED vars
    BY <2>5 DEF vars, TypeOK
  <2> QED
    BY <2>1, <2>2, <2>3, <2>4, <2>5 DEF Next, GetKeys
<1> QED
  BY <1>1, <1>2, PTL DEF Spec

-----------------------------------------------------------------------------
(* Power reports each press once.                                            *)

\* The strengthening: only Power's context carries a character, what Power has
\* reported is what its flags say, and Power never repeats.
PowerInv ==
    /\ \A k \in Key \ {"Power"} : ctx[k].data # "CR"
    /\ ctx["Power"].data = "CR" =>
          /\ ~ctx["Power"].repeat
          /\ ctx["Power"].state = "PRESSED" =>
                reports["Power"] = IF ctx["Power"].longpress THEN 1 ELSE 0
          /\ ctx["Power"].state = "LONGPRESS_RELEASE" => reports["Power"] = 1
          /\ ctx["Power"].state = "RELEASED" => ~ctx["Power"].longpress

\* A step of another key leaves Power alone, and no step changes key data.
LEMMA OtherKeys ==
    ASSUME TypeOK, NEW k \in Key, UpdateKeyStatus(k)
    PROVE  /\ \A j \in Key \ {k} : ctx'[j] = ctx[j] /\ reports'[j] = reports[j]
           /\ ctx'[k].data = ctx[k].data
<1> USE DEF InitializedContext
<1>0. ctx[k] \in Context /\ k \in DOMAIN ctx /\ k \in DOMAIN reports /\ DOMAIN ctx = Key
      /\ DOMAIN reports = Key
  BY DEF TypeOK
<1>1. CASE StayReleased(k)
  BY <1>0, <1>1 DEF StayReleased, Silent, Context
<1>2. CASE Press(k)
  BY <1>0, <1>2 DEF Press, Context
<1>3. CASE Hold(k)
  BY <1>0, <1>3 DEF Hold, Silent, Context
<1>4. CASE Repeat(k)
  BY <1>0, <1>4 DEF Repeat, Report, Context
<1>5. CASE LongpressPower(k)
  BY <1>0, <1>5 DEF LongpressPower, Report, Context
<1>6. CASE LongpressOther(k)
  BY <1>0, <1>6 DEF LongpressOther, Report, Silent, Context
<1>7. CASE ReleaseShort(k)
  BY <1>0, <1>7 DEF ReleaseShort, Report, Context
<1>8. CASE ReleaseLong(k)
  BY <1>0, <1>8 DEF ReleaseLong, Silent, Context
<1>9. CASE Settle(k)
  BY <1>0, <1>9 DEF Settle, Silent, Context
<1> QED
  BY <1>1, <1>2, <1>3, <1>4, <1>5, <1>6, <1>7, <1>8, <1>9 DEF UpdateKeyStatus

\* A step of Power keeps the account of its reports.
LEMMA PowerStep ==
    ASSUME TypeOK, PowerInv, ctx["Power"].data = "CR", UpdateKeyStatus("Power")
    PROVE  /\ PowerInv'
           /\ ctx["Power"].state # "RELEASED" /\ ctx'["Power"].state = "RELEASED"
                => reports["Power"] = 1
<1> DEFINE P == "Power"
<1> USE DEF InitializedContext
<1>0. P \in Key /\ ctx[P] \in Context /\ DOMAIN ctx = Key /\ DOMAIN reports = Key
  BY DEF TypeOK, Key
<1>1. ctx'[P].data = "CR" /\ \A k \in Key \ {P} : ctx'[k].data # "CR"
  BY <1>0, OtherKeys DEF PowerInv
<1>2. ~RepeatDue(P)
  BY DEF PowerInv, RepeatDue
<1>3. CASE StayReleased(P)
  BY <1>0, <1>1, <1>3 DEF StayReleased, Silent, PowerInv, Context
<1>4. CASE Press(P)
  BY <1>0, <1>1, <1>4 DEF Press, PowerInv, Context
<1>5. CASE Hold(P)
  BY <1>0, <1>1, <1>5 DEF Hold, Silent, PowerInv, Context
<1>6. CASE LongpressPower(P)
  <2>1. ~ctx[P].longpress /\ ctx[P].state = "PRESSED" /\ reports[P] = 0
    BY <1>6 DEF LongpressPower, LongpressDue, PowerInv
  <2>2. reports'[P] = 1
    <3>1. PICK s \in Keystroke : Report(P, s)
      BY <1>6 DEF LongpressPower, Keystroke
    <3> QED
      BY <1>0, <2>1, <3>1 DEF Report
  <2> QED
    BY <1>0, <1>1, <1>6, <2>1, <2>2 DEF LongpressPower, PowerInv, Context
<1>7. CASE ReleaseShort(P)
  <2>1. reports[P] = 0
    BY <1>7 DEF ReleaseShort, PowerInv
  <2>2. reports'[P] = 1
    BY <1>0, <1>7, <2>1 DEF ReleaseShort, Report
  <2> QED
    BY <1>0, <1>1, <1>7, <2>2 DEF ReleaseShort, PowerInv, Context
<1>8. CASE ReleaseLong(P)
  BY <1>0, <1>1, <1>8 DEF ReleaseLong, Silent, PowerInv, Context
<1>9. CASE Settle(P)
  BY <1>0, <1>1, <1>9 DEF Settle, Silent, PowerInv, Context
<1>10. ~Repeat(P) /\ ~LongpressOther(P)
  BY <1>2 DEF Repeat, LongpressOther
<1> QED
  BY <1>3, <1>4, <1>5, <1>6, <1>7, <1>8, <1>9, <1>10 DEF UpdateKeyStatus

\* PowerInv is inductive.
LEMMA PowerInvStep == TypeOK /\ PowerInv /\ [Next]_vars => PowerInv'
<1> SUFFICES ASSUME TypeOK, PowerInv, [Next]_vars PROVE PowerInv'
  OBVIOUS
<1>0. "Power" \in Key /\ DOMAIN ctx = Key
  BY DEF Key, TypeOK
<1>1. CASE Reset
  <2>1. \A k \in Key \ {"CameraFocus"} : ctx'[k] = InitializedContext(ResetData[k])
    BY <1>1 DEF Reset
  <2>2. "CameraFocus" \in Key /\ ctx'["CameraFocus"] = ctx["CameraFocus"]
    BY <1>1 DEF Reset, Key
  <2>3. \A k \in Key \ {"Power"} : ctx'[k].data # "CR"
    <3>1. \A k \in Key \ {"Power", "CameraFocus"} :
             ctx'[k].data = ResetData[k] /\ ResetData[k] # "CR"
      <4> TAKE k \in Key \ {"Power", "CameraFocus"}
      <4>1. ResetData[k] # "CR"
        BY ResetDataType
      <4>2. ctx'[k] = InitializedContext(ResetData[k])
        BY <2>1
      <4>3. ctx'[k].data = ResetData[k]
        BY <4>2 DEF InitializedContext
      <4> QED
        BY <4>1, <4>3
    <3> QED
      BY <2>2, <3>1 DEF PowerInv
  <2>4. ctx'["Power"].state = "RELEASED" /\ ~ctx'["Power"].repeat /\ ~ctx'["Power"].longpress
    <3>1. ctx'["Power"] = InitializedContext(ResetData["Power"])
      BY <1>0, <2>1
    <3> QED
      BY <3>1 DEF InitializedContext
  <2> QED
    BY <2>3, <2>4 DEF PowerInv
<1>2. CASE ScanBegin
  BY <1>2 DEF ScanBegin, PowerInv
<1>3. ASSUME NEW k \in Key, SkipKey(k) PROVE PowerInv'
  BY <1>3 DEF SkipKey, PowerInv
<1>4. ASSUME NEW k \in Key, UpdateKeyStatus(k) PROVE PowerInv'
  <2>1. CASE k # "Power"
    BY <1>0, <1>4, <2>1, OtherKeys DEF PowerInv
  <2>2. CASE k = "Power" /\ ctx["Power"].data = "CR"
    BY <1>4, <2>2, PowerStep
  <2>3. CASE k = "Power" /\ ctx["Power"].data # "CR"
    BY <1>0, <1>4, <2>3, OtherKeys DEF PowerInv
  <2> QED
    BY <2>1, <2>2, <2>3
<1>5. CASE UNCHANGED vars
  BY <1>5 DEF vars, PowerInv
<1> QED
  BY <1>1, <1>2, <1>3, <1>4, <1>5 DEF Next, GetKeys

\* However the samples fall, a press of Power that ends has been reported by
\* exactly one keystroke (LibKeyUpdateKeyStatus).
THEOREM PowerReportsOnceHolds == Spec => PowerReportsOnce
<1>1. Init => PowerInv
  <2> SUFFICES ASSUME Init PROVE PowerInv
    OBVIOUS
  <2>1. \A k \in Key : ctx[k] = InitializedContext("NULL")
    BY DEF Init
  <2>2. \A k \in Key : ctx[k].data = "NULL"
    BY <2>1 DEF InitializedContext
  <2>3. "Power" \in Key
    BY DEF Key
  <2> QED
    BY <2>2, <2>3 DEF PowerInv
<1>2. TypeOK /\ PowerInv /\ [Next]_vars
        => [PressEnds("Power") /\ ctx["Power"].data = "CR" => reports["Power"] = 1]_vars
  <2> SUFFICES ASSUME TypeOK, PowerInv, Next, PressEnds("Power"), ctx["Power"].data = "CR"
               PROVE  reports["Power"] = 1
    BY DEF PressEnds, vars
  <2>0. "Power" \in Key
    BY DEF Key
  <2>1. CASE Reset
    BY <2>1 DEF Reset, PressEnds
  <2>2. CASE ScanBegin
    BY <2>2 DEF ScanBegin, PressEnds
  <2>3. ASSUME NEW k \in Key, SkipKey(k) PROVE FALSE
    BY <2>3 DEF SkipKey, PressEnds
  <2>4. ASSUME NEW k \in Key, UpdateKeyStatus(k) PROVE reports["Power"] = 1
    <3>1. CASE k # "Power"
      BY <2>0, <2>4, <3>1, OtherKeys DEF PressEnds
    <3>2. CASE k = "Power"
      BY <2>4, <3>2, PowerStep DEF PressEnds
    <3> QED
      BY <3>1, <3>2
  <2> QED
    BY <2>1, <2>2, <2>3, <2>4 DEF Next, GetKeys
<1> QED
  BY <1>1, <1>2, PowerInvStep, DeviceTypeOK, PTL DEF Spec, PowerReportsOnce

-----------------------------------------------------------------------------
(* The strokes tell what the hand did.                                       *)

\* Before the first reset no key has data, and no bit is set; after it each
\* has its own, and the bitmaps say what was last read.
DataInv ==
    \/ held = {} /\ \A k \in Key : ctx[k].data = "NULL"
    \/ /\ \A k \in Key : ctx[k].data = IF k = "CameraFocus" THEN "NULL" ELSE ResetData[k]
       /\ \A k \in Key \ {"CameraFocus"} : ResetData[k] \in held <=> k \in down

\* Key k's flags say how far its press has come: what its time counts from,
\* that a short press was reported, and why a long one was not.
PressInv(k) ==
    /\ ctx[k].state = "RELEASED" => ~ctx[k].longpress
    /\ ctx[k].repeat => ctx[k].longpress
    /\ ctx[k].state = "PRESSED" /\ (ctx[k].repeat \/ ~ctx[k].longpress)
          => since[k] >= ctx[k].time
    /\ ctx[k].state = "LONGPRESS_RELEASE" => reports[k] >= 1
    /\ k # "Power" /\ ctx[k].state = "PRESSED" /\ ctx[k].longpress /\ reports[k] = 0
          => powerSeen[k]

TellInv == DataInv /\ \A k \in Key : PressInv(k)

LEMMA ResetDataDistinct ==
    ASSUME NEW j \in Key \ {"CameraFocus"}, NEW k \in Key \ {"CameraFocus"}, j # k
    PROVE  ResetData[j] # ResetData[k]
BY DEF ResetData, Key

\* A successful read of a key sets its bit and no other.
LEMMA BitsKept ==
    ASSUME TypeOK, DataInv, NEW k \in Key, NEW p \in BOOLEAN, ReadKey(k, p),
           \A j \in Key : ctx'[j].data = ctx[j].data
    PROVE  DataInv'
<1>1. CASE held = {} /\ \A j \in Key : ctx[j].data = "NULL"
  BY <1>1 DEF DataInv, ReadKey, KeySetState
<1>2. CASE /\ \A j \in Key : ctx[j].data = IF j = "CameraFocus" THEN "NULL" ELSE ResetData[j]
           /\ \A j \in Key \ {"CameraFocus"} : ResetData[j] \in held <=> j \in down
  <2>1. CASE k = "CameraFocus"
    BY <1>2, <2>1 DEF DataInv, ReadKey, KeySetState
  <2>2. CASE k # "CameraFocus"
    <3>1. ctx[k].data = ResetData[k] /\ ResetData[k] # "NULL"
      BY <1>2, <2>2, ResetDataType
    <3>2. held' = IF p THEN held \cup {ResetData[k]} ELSE held \ {ResetData[k]}
      BY <3>1 DEF ReadKey, KeySetState
    <3>3. down' = IF p THEN down \cup {k} ELSE down \ {k}
      BY DEF ReadKey
    <3>4. \A j \in Key \ {"CameraFocus"} : ResetData[j] \in held' <=> j \in down'
      <4> TAKE j \in Key \ {"CameraFocus"}
      <4>1. CASE j = k
        BY <3>2, <3>3, <4>1
      <4>2. CASE j # k
        <5>1. ResetData[j] # ResetData[k]
          BY <2>2, <4>2, ResetDataDistinct
        <5> QED
          BY <1>2, <3>2, <3>3, <4>2, <5>1
      <4> QED
        BY <4>1, <4>2
    <3> QED
      BY <1>2, <3>4 DEF DataInv
  <2> QED
    BY <2>1, <2>2
<1> QED
  BY <1>1, <1>2 DEF DataInv

\* A step of one key leaves the histories of the others alone.
LEMMA OtherHistories ==
    ASSUME TypeOK, NEW k \in Key, UpdateKeyStatus(k)
    PROVE  \A j \in Key \ {k} : since'[j] = since[j] /\ powerSeen'[j] = powerSeen[j]
<1>0. DOMAIN since = Key /\ DOMAIN powerSeen = Key
  BY DEF TypeOK
<1>1. CASE StayReleased(k)
  BY <1>0, <1>1 DEF StayReleased, Silent
<1>2. CASE Press(k)
  BY <1>0, <1>2 DEF Press
<1>3. CASE Hold(k)
  BY <1>0, <1>3 DEF Hold, Silent, SeePower
<1>4. CASE Repeat(k)
  BY <1>0, <1>4 DEF Repeat, Report, SeePower
<1>5. CASE LongpressPower(k)
  BY <1>0, <1>5 DEF LongpressPower, Report, SeePower
<1>6. CASE LongpressOther(k)
  BY <1>0, <1>6 DEF LongpressOther, Report, Silent, SeePower
<1>7. CASE ReleaseShort(k)
  BY <1>0, <1>7 DEF ReleaseShort, Report
<1>8. CASE ReleaseLong(k)
  BY <1>0, <1>8 DEF ReleaseLong, Silent
<1>9. CASE Settle(k)
  BY <1>0, <1>9 DEF Settle, Silent
<1> QED
  BY <1>1, <1>2, <1>3, <1>4, <1>5, <1>6, <1>7, <1>8, <1>9 DEF UpdateKeyStatus

\* Time passes alike for the key's time and for the time since its keystroke.
LEMMA ElapsedMonotone ==
    ASSUME NEW t \in 0 .. LongTime, NEW u \in 0 .. LongTime, t <= u, delta \in Nat
    PROVE  Elapsed(t) <= Elapsed(u)
BY TimesAssumption DEF Elapsed

\* The bits the combinations look at, while Power itself is read.
LEMMA ComboBits ==
    ASSUME TypeOK, DataInv, ctx["Power"].data = "CR", NEW p \in BOOLEAN, ReadKey("Power", p)
    PROVE  /\ KeyGetState("SCAN_DOWN") <=> "VolumeDown" \in down
           /\ KeyGetState("SCAN_UP") <=> "VolumeUp" \in down
<1>1. /\ "Power" \in Key
      /\ "VolumeUp" \in Key \ {"CameraFocus"} /\ ResetData["VolumeUp"] = "SCAN_UP"
      /\ "VolumeDown" \in Key \ {"CameraFocus"} /\ ResetData["VolumeDown"] = "SCAN_DOWN"
  BY DEF Key, ResetData
<1>2. \A k \in Key \ {"CameraFocus"} : ResetData[k] \in held <=> k \in down
  BY <1>1 DEF DataInv
<1>3. held' = held \cup {"CR"} \/ held' = held \ {"CR"}
  BY DEF ReadKey, KeySetState
<1> QED
  BY <1>1, <1>2, <1>3 DEF KeyGetState

\* Power's bit, after a step that reads another key.
LEMMA PowerBit ==
    ASSUME DataInv', KeyGetState("CR")
    PROVE  "Power" \in down'
<1>1. "Power" \in Key \ {"CameraFocus"} /\ ResetData["Power"] = "CR"
  BY DEF Key, ResetData
<1> QED
  BY <1>1 DEF DataInv, KeyGetState

\* What a step of key k must not do to the account of its press.
StepTold(k) ==
    /\ PressInv(k)'
    /\ pushed' # "none" /\ ctx'[k].state = "PRESSED" => Elapsed(since[k]) >= RepeatTime
    /\ k # "Power" /\ PressEnds(k) /\ reports[k] = 0 => powerSeen[k]
    /\ pushed' = "char s" => "VolumeDown" \in down
    /\ pushed' = "char e" => "VolumeUp" \in down /\ "VolumeDown" \notin down
    /\ pushed' = "char space" => {"VolumeUp", "VolumeDown"} \cap down = {}

LEMMA PressStep ==
    ASSUME TypeOK, TellInv, DataInv', NEW k \in Key, UpdateKeyStatus(k)
    PROVE  StepTold(k)
<1> DEFINE c == ctx[k]
           d == ctx'[k]
<1>0. /\ ctx[k] \in Context /\ DOMAIN ctx = Key
      /\ reports \in [Key -> 0 .. 2] /\ since \in [Key -> 0 .. LongTime]
      /\ powerSeen \in [Key -> BOOLEAN] /\ delta \in Nat
  BY DEF TypeOK
<1>1. /\ ctx[k].data \in KeyCode /\ ctx[k].time \in 0 .. LongTime
      /\ ctx[k].state \in {"RELEASED", "PRESSED", "LONGPRESS_RELEASE"}
      /\ ctx[k].repeat \in BOOLEAN /\ ctx[k].longpress \in BOOLEAN
  BY <1>0 DEF Context
<1>f. c.repeat \in BOOLEAN /\ c.longpress \in BOOLEAN /\ c.time \in Nat
  BY <1>1, TimesAssumption
<1>2. PressInv(k)
  BY DEF TellInv
<1>d. ctx[k].data \notin {"char s", "char e", "char space"}
  BY <1>1 DEF KeyCode
<1>3. /\ Elapsed(ctx[k].time) \in Nat /\ Elapsed(since[k]) \in Nat
      /\ since[k] >= ctx[k].time => Elapsed(since[k]) >= Elapsed(ctx[k].time)
      /\ RepeatTime <= LongTime /\ RepeatTime \in Nat /\ LongTime \in Nat
  <2>1. since[k] \in 0 .. LongTime /\ ctx[k].time \in 0 .. LongTime
    BY <1>0, <1>1
  <2>2. /\ Elapsed(ctx[k].time) \in 0 .. LongTime /\ Elapsed(since[k]) \in 0 .. LongTime
    BY <1>0, <2>1, ElapsedType
  <2>3. since[k] >= ctx[k].time => Elapsed(since[k]) >= Elapsed(ctx[k].time)
    BY <1>0, <2>1, <2>2, ElapsedMonotone
  <2> QED
    BY <2>2, <2>3, TimesAssumption
<1>n. reports[k] \in 0 .. 2 /\ since[k] \in Nat /\ powerSeen[k] \in BOOLEAN
  BY <1>0, TimesAssumption
<1>s. ASSUME Silent(k)
      PROVE  pushed' = "none" /\ reports'[k] = reports[k] /\ since'[k] = Elapsed(since[k])
  BY <1>0, <1>s DEF Silent
<1>r. ASSUME NEW s, Report(k, s)
      PROVE  pushed' = s /\ since'[k] = 0 /\ reports'[k] >= 1 /\ reports'[k] # 0
  <2>1. (IF reports[k] = 2 THEN 2 ELSE reports[k] + 1) \in Nat \ {0}
    BY <1>n
  <2> QED
    BY <1>0, <1>r, <2>1 DEF Report
<1>p. ASSUME SeePower(k)
      PROVE  powerSeen'[k] <=> powerSeen[k] \/ "Power" \in down'
  BY <1>0, <1>p DEF SeePower
<1>4. CASE StayReleased(k)
  <2>1. /\ c.state = "RELEASED" /\ d.state = "RELEASED"
        /\ d.longpress = c.longpress /\ d.repeat = c.repeat /\ Silent(k)
    BY <1>0, <1>4 DEF StayReleased, Context
  <2>2. pushed' = "none" /\ reports'[k] = reports[k] /\ since'[k] = Elapsed(since[k])
    BY <2>1, <1>s
  <2> QED
    BY <1>f, <1>2, <1>n, <2>1, <2>2 DEF PressInv, StepTold, PressEnds
<1>5. CASE Press(k)
  <2>1. /\ c.state = "RELEASED" /\ d.state = "PRESSED" /\ d.time = 0
        /\ d.longpress = c.longpress /\ d.repeat = c.repeat
        /\ reports'[k] = 0 /\ since'[k] = 0 /\ pushed' = "none"
    BY <1>0, <1>5 DEF Press, Context
  <2> QED
    BY <1>f, <1>2, <1>n, <2>1 DEF PressInv, StepTold, PressEnds
<1>6. CASE Hold(k)
  <2>1. /\ c.state = "PRESSED" /\ d.state = "PRESSED" /\ d.time = Elapsed(c.time)
        /\ d.longpress = c.longpress /\ d.repeat = c.repeat /\ Silent(k) /\ SeePower(k)
    BY <1>0, <1>6 DEF Hold, Context
  <2>2. pushed' = "none" /\ reports'[k] = reports[k] /\ since'[k] = Elapsed(since[k])
    BY <2>1, <1>s
  <2>3. powerSeen'[k] <=> powerSeen[k] \/ "Power" \in down'
    BY <2>1, <1>p
  <2> QED
    BY <1>f, <1>2, <1>3, <1>n, <2>1, <2>2, <2>3 DEF PressInv, StepTold, PressEnds
<1>7. CASE Repeat(k)
  <2>1. /\ c.state = "PRESSED" /\ d.state = "PRESSED" /\ d.time = 0 /\ c.repeat
        /\ d.longpress = c.longpress /\ d.repeat = TRUE /\ SeePower(k)
        /\ Elapsed(c.time) >= RepeatTime
    BY <1>0, <1>7 DEF Repeat, RepeatDue, Context
  <2>2. /\ pushed' # "char s" /\ pushed' # "char e" /\ pushed' # "char space" /\ since'[k] = 0
        /\ reports'[k] >= 1 /\ reports'[k] # 0
    BY <1>7, <1>d, <1>r DEF Repeat
  <2>3. powerSeen'[k] <=> powerSeen[k] \/ "Power" \in down'
    BY <2>1, <1>p
  <2> QED
    <3>0. d.state = "PRESSED" /\ d.longpress = TRUE /\ d.time = 0
      BY <1>f, <1>2, <2>1 DEF PressInv
    <3>b. since'[k] = 0 /\ reports'[k] >= 1 /\ reports'[k] # 0
      BY <2>2
    <3>1. PressInv(k)'
      BY <3>b, <3>0 DEF PressInv
    <3>2. Elapsed(since[k]) >= RepeatTime
      BY <1>f, <1>2, <1>3, <2>1 DEF PressInv
    <3> QED
      BY <2>1, <2>2, <3>1, <3>2 DEF StepTold, PressEnds
<1>8. CASE LongpressPower(k)
  <2>0. /\ ctx[k].data = "CR" /\ k = "Power"
    <3>1. ctx[k].data = "CR"
      BY <1>8 DEF LongpressPower
    <3>2. ctx[k].data = "NULL" \/ (k # "CameraFocus" /\ ctx[k].data = ResetData[k])
      BY DEF TellInv, DataInv
    <3> QED
      BY <3>1, <3>2, ResetDataType
  <2>1. /\ c.state = "PRESSED" /\ d.state = "PRESSED"
        /\ ~c.longpress /\ Elapsed(c.time) >= LongTime
        /\ d.longpress = TRUE /\ d.repeat = c.repeat /\ SeePower(k)
    BY <1>0, <1>8 DEF LongpressPower, LongpressDue, Context
  <2>2. PICK s : /\ Report(k, s)
                 /\ s = (CASE KeyGetState("SCAN_DOWN") -> "char s"
                           [] ~KeyGetState("SCAN_DOWN") /\ KeyGetState("SCAN_UP") -> "char e"
                           [] OTHER -> "char space")
    BY <1>8 DEF LongpressPower
  <2>3. ReadKey("Power", TRUE)
    BY <1>8, <2>0 DEF LongpressPower
  <2>4. /\ KeyGetState("SCAN_DOWN") <=> "VolumeDown" \in down
        /\ KeyGetState("SCAN_UP") <=> "VolumeUp" \in down
    BY <2>0, <2>3, ComboBits DEF TellInv
  <2>5. /\ s = "char s" => "VolumeDown" \in down
        /\ s = "char e" => "VolumeUp" \in down /\ "VolumeDown" \notin down
        /\ s = "char space" => {"VolumeUp", "VolumeDown"} \cap down = {}
    BY <2>2, <2>4
  <2>6. pushed' = s /\ since'[k] = 0 /\ reports'[k] >= 1 /\ reports'[k] # 0
    BY <2>2, <1>r
  <2>7. PressInv(k)'
    BY <1>f, <1>2, <2>0, <2>1, <2>6 DEF PressInv
  <2>8. Elapsed(since[k]) >= RepeatTime
    BY <1>f, <1>2, <1>3, <1>n, <2>1 DEF PressInv
  <2> QED
    BY <2>0, <2>1, <2>5, <2>6, <2>7, <2>8 DEF StepTold, PressEnds
<1>9. CASE LongpressOther(k)
  <2>1. /\ c.state = "PRESSED" /\ d.state = "PRESSED"
        /\ ~c.longpress /\ Elapsed(c.time) >= LongTime
        /\ d.longpress = TRUE /\ SeePower(k)
    BY <1>0, <1>9 DEF LongpressOther, LongpressDue, Context
  <2>2. CASE /\ Report(k, c.data)
             /\ ctx' = [ctx EXCEPT ![k].time = 0, ![k].repeat = TRUE, ![k].longpress = TRUE]
    <3>1. d.time = 0
      BY <1>0, <2>2 DEF Context
    <3>2. /\ pushed' # "char s" /\ pushed' # "char e" /\ pushed' # "char space" /\ since'[k] = 0
          /\ reports'[k] >= 1 /\ reports'[k] # 0
      BY <2>2, <1>d, <1>r
    <3> QED
      <4>0. d.state = "PRESSED" /\ d.longpress = TRUE
        BY <2>1
      <4>b. since'[k] = 0 /\ reports'[k] >= 1 /\ reports'[k] # 0
        BY <3>2
      <4>1. PressInv(k)'
        BY <3>1, <4>0, <4>b DEF PressInv
      <4>2. Elapsed(since[k]) >= RepeatTime
        BY <1>f, <1>2, <1>3, <2>1 DEF PressInv
      <4> QED
        BY <2>1, <3>2, <4>1, <4>2 DEF StepTold, PressEnds
  <2>3. CASE /\ KeyGetState("CR") /\ Silent(k)
             /\ ctx' = [ctx EXCEPT ![k].time = Elapsed(@), ![k].longpress = TRUE]
    <3>1. d.repeat = c.repeat
      BY <1>0, <2>3 DEF Context
    <3>2. powerSeen'[k]
      BY <1>p, <2>1, <2>3, PowerBit
    <3>3. pushed' = "none" /\ reports'[k] = reports[k] /\ since'[k] = Elapsed(since[k])
      BY <2>3, <1>s
    <3> QED
      BY <1>f, <1>2, <1>n, <2>1, <3>1, <3>2, <3>3 DEF PressInv, StepTold, PressEnds
  <2> QED
    BY <1>9, <2>2, <2>3 DEF LongpressOther
<1>10. CASE ReleaseShort(k)
  <2>1. /\ c.state = "PRESSED" /\ d.state = "LONGPRESS_RELEASE"
        /\ d.longpress = c.longpress /\ d.repeat = c.repeat
    BY <1>0, <1>10 DEF ReleaseShort, Context
  <2>2. /\ pushed' # "char s" /\ pushed' # "char e" /\ pushed' # "char space" /\ since'[k] = 0
        /\ reports'[k] >= 1 /\ reports'[k] # 0
    BY <1>10, <1>d, <1>r DEF ReleaseShort
  <2> QED
    BY <1>f, <1>2, <2>1, <2>2 DEF PressInv, StepTold, PressEnds
<1>11. CASE ReleaseLong(k)
  <2>1. c.state = "PRESSED" /\ c.longpress /\ Silent(k) /\ UNCHANGED powerSeen
    BY <1>11 DEF ReleaseLong
  <2>a. pushed' = "none" /\ reports'[k] = reports[k] /\ since'[k] = Elapsed(since[k])
    BY <2>1, <1>s
  <2>2. CASE ctx' = [ctx EXCEPT ![k] = InitializedContext(ctx[k].data)]
    <3>1. d.state = "RELEASED" /\ d.longpress = FALSE /\ d.repeat = FALSE
      BY <1>0, <2>2 DEF InitializedContext
    <3> QED
      BY <1>f, <1>2, <1>n, <2>1, <2>a, <3>1 DEF PressInv, StepTold, PressEnds
  <2>3. CASE ctx' = [ctx EXCEPT ![k].time = Elapsed(@)]
    <3>1. /\ d.state = "PRESSED" /\ d.longpress = c.longpress /\ d.repeat = c.repeat
          /\ d.time = Elapsed(c.time)
      BY <1>0, <2>1, <2>3 DEF Context
    <3> QED
      BY <1>f, <1>2, <1>3, <1>n, <2>1, <2>a, <3>1 DEF PressInv, StepTold, PressEnds
  <2> QED
    BY <1>11, <2>2, <2>3 DEF ReleaseLong
<1>12. CASE Settle(k)
  <2>1. /\ c.state = "LONGPRESS_RELEASE" /\ Silent(k)
        /\ d.state = "RELEASED" /\ d.longpress = FALSE /\ d.repeat = FALSE
    BY <1>0, <1>12 DEF Settle, InitializedContext
  <2>2. pushed' = "none" /\ reports'[k] = reports[k] /\ since'[k] = Elapsed(since[k])
    BY <2>1, <1>s
  <2> QED
    BY <1>f, <1>2, <1>n, <2>1, <2>2 DEF PressInv, StepTold, PressEnds
<1> QED
  BY <1>4, <1>5, <1>6, <1>7, <1>8, <1>9, <1>10, <1>11, <1>12 DEF UpdateKeyStatus

LEMMA TellInvStep ==
    TypeOK /\ TellInv /\ [Next]_vars
        => TellInv' /\ \A k \in Key : UpdateKeyStatus(k) => StepTold(k)
<1> SUFFICES ASSUME TypeOK, TellInv, [Next]_vars
             PROVE  TellInv' /\ \A k \in Key : UpdateKeyStatus(k) => StepTold(k)
  OBVIOUS
<1>1. ASSUME NEW k \in Key, UpdateKeyStatus(k)
      PROVE  TellInv' /\ StepTold(k)
  <2>1. PICK p \in BOOLEAN : ReadKey(k, p)
    BY <1>1, UpdateType
  <2>2. \A j \in Key : ctx'[j].data = ctx[j].data
    BY <1>1, OtherKeys
  <2>3. DataInv'
    BY <2>1, <2>2, BitsKept DEF TellInv
  <2>4. StepTold(k)
    BY <1>1, <2>3, PressStep
  <2>5. \A j \in Key : PressInv(j)'
    <3>1. ASSUME NEW j \in Key \ {k} PROVE PressInv(j)'
      <4>1. /\ ctx'[j] = ctx[j] /\ reports'[j] = reports[j]
            /\ since'[j] = since[j] /\ powerSeen'[j] = powerSeen[j]
        BY <1>1, OtherKeys, OtherHistories
      <4>2. PressInv(j)
        BY DEF TellInv
      <4> QED
        BY <4>1, <4>2 DEF PressInv
    <3> QED
      BY <2>4, <3>1 DEF StepTold
  <2> QED
    BY <2>3, <2>4, <2>5 DEF TellInv
<1>2. CASE Reset
  <2>1. \A k \in Key \ {"CameraFocus"} : ctx'[k] = InitializedContext(ResetData[k])
    BY <1>2 DEF Reset
  <2>2. /\ "CameraFocus" \in Key /\ ctx'["CameraFocus"] = ctx["CameraFocus"]
        /\ reports'["CameraFocus"] = reports["CameraFocus"]
        /\ UNCHANGED <<held, since, powerSeen>>
    BY <1>2 DEF Reset, Key
  <2>3. ctx["CameraFocus"].data = "NULL"
    BY <2>2 DEF TellInv, DataInv
  <2>4. \A k \in Key : ctx'[k].data = IF k = "CameraFocus" THEN "NULL" ELSE ResetData[k]
    <3>1. ASSUME NEW k \in Key \ {"CameraFocus"} PROVE ctx'[k].data = ResetData[k]
      <4>1. ctx'[k] = InitializedContext(ResetData[k])
        BY <2>1
      <4> QED
        BY <4>1 DEF InitializedContext
    <3> QED
      BY <2>2, <2>3, <3>1
  <2>5. \A k \in Key \ {"CameraFocus"} : ResetData[k] \in held' <=> k \in down'
    <3>1. "Power" \in Key
      BY DEF Key
    <3>2. CASE held = {} /\ \A k \in Key : ctx[k].data = "NULL"
      BY <1>2, <2>2, <3>1, <3>2 DEF Reset
    <3>3. CASE /\ \A k \in Key : ctx[k].data = IF k = "CameraFocus" THEN "NULL" ELSE ResetData[k]
               /\ \A k \in Key \ {"CameraFocus"} : ResetData[k] \in held <=> k \in down
      <4>1. ctx["Power"].data # "NULL"
        BY <3>1, <3>3, ResetDataType
      <4> QED
        BY <1>2, <2>2, <3>3, <4>1 DEF Reset
    <3> QED
      BY <3>2, <3>3 DEF TellInv, DataInv
  <2>6. \A k \in Key : PressInv(k)'
    <3>1. ASSUME NEW k \in Key \ {"CameraFocus"} PROVE PressInv(k)'
      <4>1. ctx'[k].state = "RELEASED" /\ ctx'[k].longpress = FALSE /\ ctx'[k].repeat = FALSE
        <5>1. ctx'[k] = InitializedContext(ResetData[k])
          BY <2>1
        <5> QED
          BY <5>1 DEF InitializedContext
      <4> QED
        BY <4>1 DEF PressInv
    <3>2. PressInv("CameraFocus")'
      BY <2>2 DEF TellInv, PressInv
    <3> QED
      BY <3>1, <3>2
  <2>7. \A k \in Key : ~UpdateKeyStatus(k)
    BY <1>2 DEF Reset, UpdateKeyStatus, StayReleased, Press, Hold, Repeat, LongpressPower,
       LongpressOther, ReleaseShort, ReleaseLong, Settle, ReadKey
  <2> QED
    BY <2>4, <2>5, <2>6, <2>7 DEF TellInv, DataInv
<1>3. CASE UNCHANGED <<ctx, held, down, reports, since, powerSeen>>
  BY <1>1, <1>3 DEF TellInv, DataInv, PressInv
<1>4. CASE ScanBegin \/ UNCHANGED vars
  BY <1>3, <1>4 DEF ScanBegin, vars
<1>5. ASSUME NEW k \in Key, SkipKey(k) PROVE UNCHANGED <<ctx, held, down, reports, since, powerSeen>>
  BY <1>5 DEF SkipKey
<1>6. TellInv'
  BY <1>1, <1>2, <1>3, <1>4, <1>5 DEF Next, GetKeys
<1> QED
  BY <1>1, <1>6

\* What a step does besides the key it reads: nothing is reported, nothing ends.
LEMMA QuietSteps ==
    ASSUME Next, \A k \in Key : ~UpdateKeyStatus(k)
    PROVE  /\ pushed' = "none"
           /\ \A k \in Key : ~PressEnds(k)
<1>1. CASE Reset
  BY <1>1 DEF Reset, PressEnds
<1>2. CASE ScanBegin
  BY <1>2 DEF ScanBegin, PressEnds
<1>3. ASSUME NEW k \in Key, SkipKey(k)
      PROVE  pushed' = "none" /\ UNCHANGED <<ctx, reports>>
  BY <1>3 DEF SkipKey
<1> QED
  BY <1>1, <1>2, <1>3 DEF Next, GetKeys, PressEnds

\* However the samples fall, for every key and every choice of the times: a
\* key repeats no sooner than RepeatTime after its press or its last stroke, a
\* press that says nothing was combined with Power, and a combination is told
\* by the volume keys that were held (LibKeyUpdateKeyStatus).
THEOREM PressesToldHolds == Spec => PressesTold
<1>1. Init => TellInv
  <2> SUFFICES ASSUME Init PROVE TellInv
    OBVIOUS
  <2>1. \A k \in Key : ctx[k] = InitializedContext("NULL")
    BY DEF Init
  <2>a. \A k \in Key : ctx[k].data = "NULL"
    BY <2>1 DEF InitializedContext
  <2>2. DataInv
    BY <2>a DEF Init, DataInv
  <2>3. ASSUME NEW k \in Key PROVE PressInv(k)
    <3>1. ctx[k].state = "RELEASED" /\ ctx[k].longpress = FALSE /\ ctx[k].repeat = FALSE
      <4>1. ctx[k] = InitializedContext("NULL")
        BY <2>1
      <4> QED
        BY <4>1 DEF InitializedContext
    <3> QED
      BY <3>1 DEF PressInv
  <2> QED
    BY <2>2, <2>3 DEF TellInv
<1>2. TypeOK /\ TellInv /\ [Next]_vars
        => /\ [\A k \in Key :
                  Strokes(k) /\ ctx'[k].state = "PRESSED"
                      => Elapsed(since[k]) >= RepeatTime]_vars
           /\ [\A k \in Key \ {"Power"} :
                  PressEnds(k) /\ reports[k] = 0 => powerSeen[k]]_vars
           /\ [/\ pushed' = "char s" => "VolumeDown" \in down
               /\ pushed' = "char e" => "VolumeUp" \in down /\ "VolumeDown" \notin down
               /\ pushed' = "char space" => {"VolumeUp", "VolumeDown"} \cap down = {}]_vars
  <2> SUFFICES ASSUME TypeOK, TellInv, Next
               PROVE  /\ \A k \in Key :
                            Strokes(k) /\ ctx'[k].state = "PRESSED"
                                => Elapsed(since[k]) >= RepeatTime
                      /\ \A k \in Key \ {"Power"} :
                            PressEnds(k) /\ reports[k] = 0 => powerSeen[k]
                      /\ pushed' = "char s" => "VolumeDown" \in down
                      /\ pushed' = "char e" => "VolumeUp" \in down /\ "VolumeDown" \notin down
                      /\ pushed' = "char space" => {"VolumeUp", "VolumeDown"} \cap down = {}
    OBVIOUS
  <2>1. CASE \A k \in Key : ~UpdateKeyStatus(k)
    <3>1. \A k \in Key : ~Strokes(k)
      BY <2>1, QuietSteps DEF Strokes
    <3> QED
      BY <2>1, <3>1, QuietSteps
  <2>2. ASSUME NEW j \in Key, UpdateKeyStatus(j)
        PROVE  /\ \A k \in Key :
                     Strokes(k) /\ ctx'[k].state = "PRESSED"
                         => Elapsed(since[k]) >= RepeatTime
               /\ \A k \in Key \ {"Power"} :
                     PressEnds(k) /\ reports[k] = 0 => powerSeen[k]
               /\ pushed' = "char s" => "VolumeDown" \in down
               /\ pushed' = "char e" => "VolumeUp" \in down /\ "VolumeDown" \notin down
               /\ pushed' = "char space" => {"VolumeUp", "VolumeDown"} \cap down = {}
    <3>1. StepTold(j)
      BY <2>2, TellInvStep
    <3>2. \A k \in Key \ {j} : ctx'[k] = ctx[k]
      BY <2>2, OtherKeys
    <3>p. index # 0 /\ j = KeyList[index]
      <4>1. PICK p \in BOOLEAN : ReadKey(j, p)
        BY <2>2, UpdateType
      <4> QED
        BY <4>1 DEF ReadKey
    <3>3. \A k \in Key \ {j} : ~Strokes(k)
      BY <3>p DEF Strokes
    <3>4. \A k \in Key \ {j} : ~PressEnds(k)
      BY <3>2 DEF PressEnds
    <3> QED
      BY <3>1, <3>3, <3>4 DEF StepTold, Strokes
  <2> QED
    BY <2>1, <2>2
<1>3. TypeOK /\ TellInv /\ [Next]_vars => TellInv'
  BY TellInvStep
<1> QED
  BY <1>1, <1>2, <1>3, DeviceTypeOK, PTL
     DEF Spec, PressesTold, RepeatSpacing, SilentOnlyInCombo, ComboTruth

-----------------------------------------------------------------------------
(* The ring buffer of KeypadTextIn.c *)

N == KEYPAD_EFI_KEY_MAX_COUNT

\* The slot after i is i + 1, or slot 0 after the last one.
LEMMA SuccWraps ==
    ASSUME NEW i \in Slots
    PROVE  /\ Succ(i) \in Slots
           /\ Succ(i) = IF i + 1 = N THEN 0 ELSE i + 1
<1>1. CASE i + 1 = N
  BY <1>1, SlotsAssumption DEF Succ, N, Slots
<1>2. CASE i + 1 # N
  <2>1. i + 1 \in 0 .. N - 1
    BY <1>2, SlotsAssumption DEF N, Slots
  <2>2. (i + 1) % N = i + 1
    BY <2>1, SlotsAssumption DEF N
  <2> QED
    BY <2>1, <2>2, <1>2 DEF Succ, N, Slots
<1> QED
  BY <1>1, <1>2

\* The contents of a ring are a sequence of at most N - 1 keys.
LEMMA ContentsType ==
    ASSUME NEW q \in Queue
    PROVE  /\ Count(q) \in 0 .. N - 1
           /\ \A i \in 1 .. Count(q) : SlotOf(q, i) \in Slots
           /\ Contents(q) \in Seq(KeyData)
           /\ Len(Contents(q)) = Count(q)
           /\ IsEfikeyBufEmpty(q) <=> Contents(q) = << >>
<1>1. q.Head \in Slots /\ q.Tail \in Slots /\ q.Buffer \in [Slots -> KeyData]
  BY DEF Queue
<1>2. Count(q) \in 0 .. N - 1
  BY <1>1, SlotsAssumption DEF Count, Slots, N
<1>3. \A i \in 1 .. Count(q) : SlotOf(q, i) \in Slots
  BY <1>1, <1>2, SlotsAssumption DEF SlotOf, Slots, N
<1>4. \A i \in 1 .. Count(q) : q.Buffer[SlotOf(q, i)] \in KeyData
  BY <1>1, <1>3
<1>5. Contents(q) \in [1 .. Count(q) -> KeyData]
  BY <1>4 DEF Contents
<1>6. Contents(q) \in Seq(KeyData) /\ Len(Contents(q)) = Count(q)
  BY <1>2, <1>5, SlotsAssumption DEF N, Contents
<1>7. IsEfikeyBufEmpty(q) <=> Count(q) = 0
  BY <1>1, SlotsAssumption DEF IsEfikeyBufEmpty, Count, Slots
<1>8. Contents(q) = << >> <=> Count(q) = 0
  BY <1>6
<1> QED
  BY <1>2, <1>3, <1>6, <1>7, <1>8

\* Removing the head of a non-empty ring removes its oldest key.
LEMMA PopRemovesOldest ==
    ASSUME NEW q \in Queue, ~IsEfikeyBufEmpty(q)
    PROVE  /\ HeadPopped(q) \in Queue
           /\ q.Buffer[q.Head] = Head(Contents(q))
           /\ Contents(HeadPopped(q)) = Tail(Contents(q))
           /\ Contents(q) # << >>
<1> DEFINE r == HeadPopped(q)
<1>1. q.Head \in Slots /\ q.Tail \in Slots /\ q.Buffer \in [Slots -> KeyData]
  BY DEF Queue
<1>2. /\ r = [q EXCEPT !.Head = Succ(q.Head)]
      /\ Succ(q.Head) \in Slots
      /\ Succ(q.Head) = IF q.Head + 1 = N THEN 0 ELSE q.Head + 1
  BY <1>1, SuccWraps DEF HeadPopped
<1>3. r \in Queue /\ r.Head = Succ(q.Head) /\ r.Tail = q.Tail /\ r.Buffer = q.Buffer
  BY <1>2 DEF Queue
<1>4. Contents(q) \in Seq(KeyData) /\ Len(Contents(q)) = Count(q) /\ Contents(q) # << >>
  BY ContentsType
<1>5. Contents(r) \in Seq(KeyData) /\ Len(Contents(r)) = Count(r)
  BY <1>3, ContentsType
<1>6. Count(q) \in 1 .. N - 1 /\ Count(r) = Count(q) - 1
  <2> HIDE DEF r
  <2>1. Count(q) # 0
    BY <1>1, SlotsAssumption DEF Count, Slots, IsEfikeyBufEmpty
  <2>2. Count(q) \in 1 .. N - 1
    BY <2>1, ContentsType, SlotsAssumption DEF N
  <2>3. r.Tail = q.Tail /\ r.Head = IF q.Head + 1 = N THEN 0 ELSE q.Head + 1
    BY <1>2, <1>3
  <2>4. Count(r) = Count(q) - 1
    BY <2>1, <2>3, <1>1, SlotsAssumption DEF Count, Slots, N
  <2> QED
    BY <2>2, <2>4
<1>7. q.Buffer[q.Head] = Head(Contents(q))
  <2>1. SlotOf(q, 1) = q.Head
    BY <1>1, SlotsAssumption DEF SlotOf, Slots
  <2>2. Contents(q)[1] = q.Buffer[q.Head]
    BY <2>1, <1>6 DEF Contents
  <2> QED
    BY <2>2, <1>4
<1>8. \A i \in 1 .. Count(r) : SlotOf(r, i) = SlotOf(q, i + 1)
  <2> HIDE DEF r
  <2> QED
    BY <1>1, <1>2, <1>3, <1>6, SlotsAssumption DEF SlotOf, Slots, N
<1>9. \A i \in 1 .. Count(r) : Contents(r)[i] = Tail(Contents(q))[i]
  <2> HIDE DEF r
  <2> TAKE i \in 1 .. Count(r)
  <2>1. Contents(r)[i] = q.Buffer[SlotOf(q, i + 1)]
    BY <1>3, <1>8 DEF Contents
  <2>2. i + 1 \in 1 .. Count(q)
    BY <1>6, SlotsAssumption DEF N
  <2>3. Contents(q)[i + 1] = q.Buffer[SlotOf(q, i + 1)]
    BY <2>2 DEF Contents
  <2>4. Tail(Contents(q))[i] = Contents(q)[i + 1]
    BY <1>4, <1>6, SlotsAssumption DEF N
  <2> QED
    BY <2>1, <2>3, <2>4
<1>10. Len(Tail(Contents(q))) = Count(r) /\ Tail(Contents(q)) \in Seq(KeyData)
  BY <1>4, <1>6
<1>11. Contents(r) = Tail(Contents(q))
  <2> HIDE DEF r
  <2> QED
    BY <1>5, <1>9, <1>10
<1> QED
  BY <1>3, <1>4, <1>7, <1>11

\* Writing the tail slot of a ring with a free slot appends a key.
LEMMA PushAppends ==
    ASSUME NEW q \in Queue, NEW k \in KeyData, Succ(q.Tail) # q.Head,
           NEW r, r = [q EXCEPT !.Buffer = [@ EXCEPT ![q.Tail] = k],
                                !.Tail = Succ(q.Tail)]
    PROVE  /\ r \in Queue
           /\ Contents(r) = Append(Contents(q), k)
<1>1. q.Head \in Slots /\ q.Tail \in Slots /\ q.Buffer \in [Slots -> KeyData]
  BY DEF Queue
<1>2. /\ Succ(q.Tail) \in Slots
      /\ Succ(q.Tail) = IF q.Tail + 1 = N THEN 0 ELSE q.Tail + 1
  BY <1>1, SuccWraps
<1>3. /\ r \in Queue
      /\ r.Head = q.Head
      /\ r.Tail = Succ(q.Tail)
      /\ r.Buffer = [q.Buffer EXCEPT ![q.Tail] = k]
  BY <1>1, <1>2 DEF Queue
<1>4. Contents(q) \in Seq(KeyData) /\ Len(Contents(q)) = Count(q) /\ Count(q) \in 0 .. N - 1
  BY ContentsType
<1>5. Contents(r) \in Seq(KeyData) /\ Len(Contents(r)) = Count(r)
  BY <1>3, ContentsType
<1>6. Count(r) = Count(q) + 1
  BY <1>1, <1>2, <1>3, SlotsAssumption DEF Count, Slots, N
<1>7. \A i \in 1 .. Count(q) : SlotOf(r, i) = SlotOf(q, i) /\ SlotOf(q, i) # q.Tail
  BY <1>1, <1>3, <1>4, SlotsAssumption DEF SlotOf, Count, Slots, N
<1>8. SlotOf(r, Count(r)) = q.Tail
  BY <1>1, <1>3, <1>6, SlotsAssumption DEF SlotOf, Count, Slots, N
<1>9. \A i \in 1 .. Count(r) : Contents(r)[i] = Append(Contents(q), k)[i]
  <2> TAKE i \in 1 .. Count(r)
  <2>1. Contents(r)[i] = r.Buffer[SlotOf(r, i)]
    BY DEF Contents
  <2>2. CASE i = Count(r)
    BY <1>1, <1>3, <1>4, <1>6, <1>8, <2>1, <2>2
  <2>3. CASE i # Count(r)
    <3>1. i \in 1 .. Count(q)
      BY <1>4, <1>6, <2>3
    <3>2. Contents(q)[i] = q.Buffer[SlotOf(q, i)]
      BY <3>1 DEF Contents
    <3>3. SlotOf(q, i) \in Slots
      BY <3>1, ContentsType
    <3>4. r.Buffer[SlotOf(r, i)] = q.Buffer[SlotOf(q, i)]
      BY <1>1, <1>3, <1>7, <3>1, <3>3
    <3>5. Append(Contents(q), k)[i] = Contents(q)[i]
      BY <1>4, <3>1
    <3> QED
      BY <2>1, <3>2, <3>4, <3>5
  <2> QED
    BY <2>2, <2>3
<1>10. Append(Contents(q), k) \in Seq(KeyData) /\ Len(Append(Contents(q), k)) = Count(r)
  BY <1>4, <1>6
<1> QED
  BY <1>3, <1>5, <1>9, <1>10

\* A push is the abstract push, full ring or not.
LEMMA PushImplementsPush ==
    ASSUME NEW q \in Queue, NEW k \in KeyData
    PROVE  /\ TailPushed(q, k) \in Queue
           /\ Contents(TailPushed(q, k)) = Fifo!Pushed(Contents(q), k)
<1> DEFINE m == RoomMade(q)
<1>1. q.Head \in Slots /\ q.Tail \in Slots
  BY DEF Queue
<1>2. /\ Succ(q.Tail) = IF q.Tail + 1 = N THEN 0 ELSE q.Tail + 1
      /\ Succ(q.Head) = IF q.Head + 1 = N THEN 0 ELSE q.Head + 1
  BY <1>1, SuccWraps
<1>3. Succ(q.Tail) = q.Head <=> Count(q) = N - 1
  BY <1>1, <1>2, SlotsAssumption DEF Count, Slots, N
<1>4. Len(Contents(q)) = Count(q)
  BY ContentsType
<1>5. /\ m \in Queue
      /\ m.Tail = q.Tail
      /\ Succ(m.Tail) # m.Head
      /\ Contents(m) = IF Count(q) = N - 1 THEN Tail(Contents(q)) ELSE Contents(q)
  <2>1. CASE Succ(q.Tail) = q.Head
    <3>1. ~IsEfikeyBufEmpty(q)
      BY <1>1, <1>2, <2>1, SlotsAssumption DEF IsEfikeyBufEmpty, Slots, N
    <3>2. m = [q EXCEPT !.Head = Succ(q.Head)]
      BY <2>1, <3>1 DEF RoomMade, HeadPopped
    <3>3. m.Tail = q.Tail /\ m.Head = Succ(q.Head)
      BY <3>2 DEF Queue
    <3>4. m = HeadPopped(q)
      BY <2>1 DEF RoomMade
    <3>5. m \in Queue /\ Contents(m) = Tail(Contents(q))
      BY <3>1, <3>4, PopRemovesOldest
    <3>6. Succ(q.Tail) # Succ(q.Head)
      BY <1>1, <1>2, <2>1, SlotsAssumption DEF Slots, N
    <3> QED
      BY <3>3, <3>5, <3>6, <1>3, <2>1
  <2>2. CASE Succ(q.Tail) # q.Head
    BY <2>2, <1>3 DEF RoomMade
  <2> QED
    BY <2>1, <2>2
<1>6. TailPushed(q, k) = [m EXCEPT !.Buffer = [@ EXCEPT ![m.Tail] = k], !.Tail = Succ(m.Tail)]
  BY <1>5 DEF TailPushed
<1>7. /\ TailPushed(q, k) \in Queue
      /\ Contents(TailPushed(q, k)) = Append(Contents(m), k)
  <2> HIDE DEF m
  <2> QED
    BY <1>5, <1>6, PushAppends
<1>8. Fifo!Pushed(Contents(q), k) = Append(Contents(m), k)
  BY <1>4, <1>5 DEF Fifo!Pushed, Fifo!IsFull, N
<1> QED
  BY <1>7, <1>8

\* A reset ring is empty whatever it held.
LEMMA EmptiedIsEmpty ==
    ASSUME NEW q \in Queue
    PROVE  /\ Emptied(q) \in Queue
           /\ Contents(Emptied(q)) = << >>
<1> DEFINE r == Emptied(q)
<1>1. 0 \in Slots
  BY SlotsAssumption DEF Slots
<1>2. r.Head = 0 /\ r.Tail = 0 /\ r \in Queue
  BY <1>1 DEF Queue, Emptied
<1>3. IsEfikeyBufEmpty(r)
  BY <1>2 DEF IsEfikeyBufEmpty
<1> QED
  <2> HIDE DEF r
  <2>1. Contents(r) = << >>
    BY <1>2, <1>3, ContentsType
  <2> QED
    BY <1>2, <2>1 DEF r

-----------------------------------------------------------------------------
\* Head and Tail stay inside the buffer (PushEfikeyBufTail, PopEfikeyBufHead
\* and InitKeypad's reset never index outside Buffer).
THEOREM QueueTypeHolds == QueueSpec => []QueueTypeOK
<1>1. QueueInit => QueueTypeOK
  BY SlotsAssumption, ZeroKeyAssumption DEF QueueInit, QueueTypeOK, Queue, Slots
<1>2. QueueTypeOK /\ [QueueNext]_queueVars => QueueTypeOK'
  <2> SUFFICES ASSUME QueueTypeOK, [QueueNext]_queueVars PROVE QueueTypeOK'
    OBVIOUS
  <2>1. CASE \E k \in KeyData : PushEfikeyBufTail(k)
    BY <2>1, PushImplementsPush DEF QueueTypeOK, PushEfikeyBufTail
  <2>2. CASE PopEfikeyBufHead
    <3>1. queue.Buffer[queue.Head] \in KeyData
      BY DEF QueueTypeOK, Queue
    <3> QED
      BY <2>2, <3>1, PopRemovesOldest DEF QueueTypeOK, PopEfikeyBufHead
  <2>3. CASE DropHead
    BY <2>3, PopRemovesOldest DEF QueueTypeOK, DropHead
  <2>4. CASE ResetQueue
    BY <2>4, EmptiedIsEmpty DEF QueueTypeOK, ResetQueue
  <2>5. CASE UNCHANGED queueVars
    BY <2>5 DEF queueVars, QueueTypeOK
  <2> QED
    BY <2>1, <2>2, <2>3, <2>4, <2>5 DEF QueueNext
<1> QED
  BY <1>1, <1>2, PTL DEF QueueSpec

\* The ring of KeypadTextIn.c is a drop-oldest queue of N - 1 keys: each of
\* its operations is the abstract operation of the same meaning.
THEOREM QueueImplementsFifo == QueueSpec => ImplementsFifo
<1>1. QueueInit => Fifo!Init
  <2> SUFFICES ASSUME QueueInit PROVE Fifo!Init
    OBVIOUS
  <2>1. queue \in Queue /\ IsEfikeyBufEmpty(queue)
    BY SlotsAssumption, ZeroKeyAssumption DEF QueueInit, Queue, Slots, IsEfikeyBufEmpty
  <2>2. Contents(queue) = << >>
    BY <2>1, ContentsType
  <2> QED
    BY <2>2 DEF QueueInit, Fifo!Init
<1>2. QueueTypeOK /\ [QueueNext]_queueVars => [Fifo!Next]_(Fifo!fifoVars)
  <2> SUFFICES ASSUME QueueTypeOK, [QueueNext]_queueVars PROVE [Fifo!Next]_(Fifo!fifoVars)
    OBVIOUS
  <2> USE DEF Fifo!Next
  <2>0. queue \in Queue
    BY DEF QueueTypeOK
  <2>1. ASSUME NEW k \in KeyData, PushEfikeyBufTail(k) PROVE Fifo!Push(k)
    BY <2>0, <2>1, PushImplementsPush DEF PushEfikeyBufTail, Fifo!Push
  <2>2. CASE PopEfikeyBufHead
    BY <2>0, <2>2, PopRemovesOldest DEF PopEfikeyBufHead, Fifo!Pop
  <2>3. CASE DropHead
    BY <2>0, <2>3, PopRemovesOldest DEF DropHead, Fifo!Discard
  <2>4. CASE ResetQueue
    <3>1. Contents(queue') = << >>
      BY <2>0, <2>4, EmptiedIsEmpty DEF ResetQueue
    <3>2. Contents(queue)' = Contents(queue')
      BY DEF Contents, Count, SlotOf
    <3> QED
      BY <3>1, <3>2, <2>4 DEF ResetQueue, Fifo!Clear
  <2>5. CASE UNCHANGED queueVars
    BY <2>5 DEF queueVars, Fifo!fifoVars, Contents, Count, SlotOf
  <2> QED
    BY <2>1, <2>2, <2>3, <2>4, <2>5 DEF QueueNext
<1> QED
  BY <1>1, <1>2, QueueTypeHolds, PTL DEF QueueSpec, ImplementsFifo, Fifo!Spec

-----------------------------------------------------------------------------
(* The driver binding.  The strengthening: what the driver holds, by where    *)
(* Start or a clean-up is.                                                   *)

Resource ==
    Event \cup {"NotifyList", "ControllerNameTable", "ConsoleIn", "Protocol", "Interfaces"}

\* The resource that the release r gives back is still held.
Held(r) ==
    \/ r \in events
    \/ r = "NotifyList" /\ registered
    \/ r = "ControllerNameTable" /\ named
    \/ r = "ConsoleIn" /\ alive
    \/ r = "Protocol" /\ opened
    \/ r = "Interfaces" /\ installed

\* The clean-up s has come to its n-th release.
At(s, n) == todo = SubSeq(s, n, Len(s)) /\ \A i \in 1 .. n - 1 : ~Held(s[i])

\* An armed timer and a pending notification have their event; the clients
\* have one to signal.
EventsBacked ==
    /\ armed => "TimerEvent" \in events
    /\ signaled => "KeyNotifyProcessEvent" \in events
    /\ installed => "KeyNotifyProcessEvent" \in events
    /\ events \subseteq Event

\* What Start has got when it makes its next call.
StartHas ==
    /\ pc \in {"unbound", "ConsoleIn"}
          => events = {} /\ ~alive /\ ~named /\ ~registered
    /\ pc = "unbound" => ~opened
    /\ pc = "SetTimer" => "TimerEvent" \in events
    /\ pc \in {"WaitForKey", "WaitForKeyEx", "TimerEvent", "SetTimer",
               "KeyNotifyProcessEvent", "Reset", "ControllerNameTable", "Interfaces"}
          => alive /\ ~registered
    /\ pc \in {"Reset", "ControllerNameTable", "Interfaces"}
          => "KeyNotifyProcessEvent" \in events
    /\ pc \notin {"bound", "cleanup"} => ~installed
    /\ pc # "cleanup" => todo = << >>

\* A clean-up has released everything it has passed.
CleanupHas ==
    pc = "cleanup" =>
        \/ ~installed /\ \E n \in 1 .. 8 : At(ErrorExit, n)
        \/ \E n \in 1 .. 9 : At(StopSequence, n)

\* The reset of the device drops what the timer found before it.
FreshAfterReset ==
    pc \in {"ControllerNameTable", "Interfaces"} => "stale" \notin queued

Flags ==
    /\ pc \in {"unbound", "bound", "cleanup", "ConsoleIn", "WaitForKey", "WaitForKeyEx",
               "TimerEvent", "SetTimer", "KeyNotifyProcessEvent", "Reset",
               "ControllerNameTable", "Interfaces"}
    /\ queued \subseteq {"stale", "fresh"}
    /\ opened \in BOOLEAN /\ alive \in BOOLEAN /\ armed \in BOOLEAN /\ named \in BOOLEAN
    /\ installed \in BOOLEAN /\ registered \in BOOLEAN /\ signaled \in BOOLEAN
    /\ keyed \in BOOLEAN /\ nullList \in BOOLEAN

BindingInv ==
    /\ Flags /\ EventsBacked /\ NoUseAfterFree
    /\ StartHas /\ CleanupHas
    /\ FreshAfterReset /\ OnlyFreshKeys

-----------------------------------------------------------------------------
(* The two sequences of releases                                            *)

LEMMA ErrorExitIs ==
    /\ ErrorExit \in Seq(Resource) /\ Len(ErrorExit) = 8
    /\ ErrorExit[1] = "WaitForKey" /\ ErrorExit[2] = "TimerEvent"
    /\ ErrorExit[3] = "WaitForKeyEx" /\ ErrorExit[4] = "KeyNotifyProcessEvent"
    /\ ErrorExit[5] = "NotifyList" /\ ErrorExit[6] = "ControllerNameTable"
    /\ ErrorExit[7] = "ConsoleIn" /\ ErrorExit[8] = "Protocol"
<1>1. ErrorExit = [i \in 1 .. 8 |-> ErrorExit[i]]
  BY DEF ErrorExit
<1>2. \A i \in 1 .. 8 : ErrorExit[i] \in Resource
  BY DEF ErrorExit, Resource, Event
<1> QED
  BY <1>1, <1>2 DEF ErrorExit

LEMMA StopSequenceIs ==
    /\ StopSequence \in Seq(Resource) /\ Len(StopSequence) = 9
    /\ StopSequence[1] = "TimerEvent" /\ StopSequence[2] = "Interfaces"
    /\ StopSequence[3] = "Protocol" /\ StopSequence[4] = "WaitForKey"
    /\ StopSequence[5] = "WaitForKeyEx" /\ StopSequence[6] = "KeyNotifyProcessEvent"
    /\ StopSequence[7] = "NotifyList" /\ StopSequence[8] = "ControllerNameTable"
    /\ StopSequence[9] = "ConsoleIn"
<1>1. StopSequence = [i \in 1 .. 9 |-> StopSequence[i]]
  BY DEF StopSequence
<1>2. \A i \in 1 .. 9 : StopSequence[i] \in Resource
  BY DEF StopSequence, Resource, Event
<1> QED
  BY <1>1, <1>2 DEF StopSequence

\* A release that drops what it names, and adds nothing, brings the clean-up
\* one step on, or to its end.
LEMMA ReleaseStep ==
    ASSUME NEW s \in Seq(Resource), NEW n \in 1 .. Len(s), At(s, n), Released,
           \A r : Held(r)' => Held(r),
           ~Held(s[n])'
    PROVE  /\ Head(todo) = s[n]
           /\ \A i \in 1 .. n : ~Held(s[i])'
           /\ n # Len(s) => pc' = "cleanup" /\ At(s, n + 1)'
           /\ n = Len(s) => pc' = "unbound" /\ todo' = << >>
<1>0. Len(s) \in Nat
  OBVIOUS
<1>1. todo = SubSeq(s, n, Len(s))
  BY DEF At
<1>2. Head(todo) = s[n] /\ Tail(todo) = SubSeq(s, n + 1, Len(s))
  BY <1>0, <1>1, HeadTailOfSubSeq
<1>3. Len(todo) = Len(s) - n + 1
  BY <1>0, <1>1, SubSeqProperties
<1>4. \A i \in 1 .. n : ~Held(s[i])'
  BY <1>0 DEF At
<1>5. n # Len(s) => pc' = "cleanup"
  BY <1>0, <1>3 DEF Released
<1>6. n = Len(s) => pc' = "unbound"
  BY <1>0, <1>3 DEF Released
<1>7. At(s, n + 1)'
  BY <1>0, <1>2, <1>4 DEF At, Released
<1>8. n = Len(s) => todo' = << >>
  BY <1>0, <1>2, SubSeqEmpty DEF Released
<1> QED
  BY <1>2, <1>4, <1>5, <1>6, <1>7, <1>8

\* The first release of a clean-up.
LEMMA WholeSequence ==
    ASSUME NEW s \in Seq(Resource)
    PROVE  SubSeq(s, 1, Len(s)) = s
BY SubSeqFull

\* A release that ends one use of a resource, and begins none.
Releases(r) == Released /\ r = Head(todo) /\ ~Held(r)' /\ \A q : Held(q)' => Held(q)

\* When the last release is done nothing is held.
LEMMA CleanupKept ==
    ASSUME BindingInv, NEW r, Releases(r), EventsBacked'
    PROVE  StartHas' /\ CleanupHas'
<1>0. pc = "cleanup"
  BY DEF Releases, Released
<1>1. ASSUME NEW n \in 1 .. 8, ~installed, At(ErrorExit, n)
      PROVE  StartHas' /\ CleanupHas'
  <2>1. ~installed'
    BY <1>1 DEF Releases, Held, BindingInv, EventsBacked, Event
  <2>2. Head(todo) = ErrorExit[n] /\ n \in 1 .. Len(ErrorExit)
    BY <1>1, ErrorExitIs, HeadTailOfSubSeq DEF At
  <2>3. /\ \A i \in 1 .. n : ~Held(ErrorExit[i])'
        /\ n # 8 => pc' = "cleanup" /\ At(ErrorExit, n + 1)'
        /\ n = 8 => pc' = "unbound" /\ todo' = << >>
    <3>1. Released /\ (\A q : Held(q)' => Held(q)) /\ ~Held(ErrorExit[n])'
      BY <2>2 DEF Releases
    <3>2. ErrorExit \in Seq(Resource)
      BY ErrorExitIs
    <3>3. /\ \A i \in 1 .. n : ~Held(ErrorExit[i])'
          /\ n # Len(ErrorExit) => pc' = "cleanup" /\ At(ErrorExit, n + 1)'
          /\ n = Len(ErrorExit) => pc' = "unbound" /\ todo' = << >>
      BY <1>1, <2>2, <3>1, <3>2, ReleaseStep
    <3> QED
      BY <3>3, ErrorExitIs
  <2>4. CASE n # 8
    BY <2>1, <2>3, <2>4 DEF StartHas, CleanupHas
  <2>5. CASE n = 8
    <3>1. \A q \in Resource \ {"Interfaces"} : ~Held(q)'
      BY <2>3, <2>5, ErrorExitIs DEF Resource, Event
    <3>2. /\ ~registered' /\ ~named' /\ ~alive' /\ ~opened' /\ events' = {}
      <4>1. Event \subseteq Resource \ {"Interfaces"}
        BY DEF Resource, Event
      <4>2. events' = {}
        BY <3>1, <4>1 DEF Held, EventsBacked
      <4>3. /\ ~registered' /\ ~named' /\ ~alive' /\ ~opened'
        BY <3>1 DEF Held, Resource
      <4> QED
        BY <4>2, <4>3
    <3> QED
      BY <2>1, <2>3, <2>5, <3>2 DEF StartHas, CleanupHas
  <2> QED
    BY <2>4, <2>5
<1>2. ASSUME NEW n \in 1 .. 9, At(StopSequence, n)
      PROVE  StartHas' /\ CleanupHas'
  <2>2. Head(todo) = StopSequence[n] /\ n \in 1 .. Len(StopSequence)
    BY <1>2, StopSequenceIs, HeadTailOfSubSeq DEF At
  <2>3. /\ \A i \in 1 .. n : ~Held(StopSequence[i])'
        /\ n # 9 => pc' = "cleanup" /\ At(StopSequence, n + 1)'
        /\ n = 9 => pc' = "unbound" /\ todo' = << >>
    <3>1. Released /\ (\A q : Held(q)' => Held(q)) /\ ~Held(StopSequence[n])'
      BY <2>2 DEF Releases
    <3>2. StopSequence \in Seq(Resource)
      BY StopSequenceIs
    <3>3. /\ \A i \in 1 .. n : ~Held(StopSequence[i])'
          /\ n # Len(StopSequence) => pc' = "cleanup" /\ At(StopSequence, n + 1)'
          /\ n = Len(StopSequence) => pc' = "unbound" /\ todo' = << >>
      BY <1>2, <2>2, <3>1, <3>2, ReleaseStep
    <3> QED
      BY <3>3, StopSequenceIs
  <2>4. CASE n # 9
    BY <2>3, <2>4 DEF StartHas, CleanupHas
  <2>5. CASE n = 9
    <3>1. \A q \in Resource : ~Held(q)'
      BY <2>3, <2>5, StopSequenceIs DEF Resource, Event
    <3>2. /\ ~registered' /\ ~named' /\ ~alive' /\ ~opened' /\ ~installed' /\ events' = {}
      BY <3>1 DEF Held, Resource, EventsBacked
    <3> QED
      BY <2>3, <2>5, <3>2 DEF StartHas, CleanupHas
  <2> QED
    BY <2>4, <2>5
<1> QED
  BY <1>0, <1>1, <1>2 DEF BindingInv, CleanupHas

\* The order of both clean-ups: no timer and no client is left when the event
\* of the notifications goes, nor a notification when ConsoleIn goes.
LEMMA ReleaseOrder ==
    ASSUME BindingInv, pc = "cleanup"
    PROVE  /\ Head(todo) = "KeyNotifyProcessEvent" => ~armed /\ ~installed
           /\ Head(todo) = "ConsoleIn" => ~armed /\ ~installed /\ ~signaled
<1> USE DEF BindingInv, EventsBacked
<1>1. ASSUME NEW n \in 1 .. 8, ~installed, At(ErrorExit, n),
             Head(todo) \in {"KeyNotifyProcessEvent", "ConsoleIn"}
      PROVE  /\ ~armed
             /\ Head(todo) = "ConsoleIn" => ~signaled
  <2>1. Head(todo) = ErrorExit[n]
    BY <1>1, ErrorExitIs, HeadTailOfSubSeq DEF At
  <2>2. n \in {4, 7} /\ (Head(todo) = "ConsoleIn" => n = 7)
    BY <1>1, <2>1, ErrorExitIs
  <2>3. ~Held("TimerEvent") /\ (n = 7 => ~Held("KeyNotifyProcessEvent"))
    BY <1>1, <2>2, ErrorExitIs DEF At
  <2> QED
    BY <2>2, <2>3 DEF Held
<1>2. ASSUME NEW n \in 1 .. 9, At(StopSequence, n),
             Head(todo) \in {"KeyNotifyProcessEvent", "ConsoleIn"}
      PROVE  /\ ~armed /\ ~installed
             /\ Head(todo) = "ConsoleIn" => ~signaled
  <2>1. Head(todo) = StopSequence[n]
    BY <1>2, StopSequenceIs, HeadTailOfSubSeq DEF At
  <2>2. n \in {6, 9} /\ (Head(todo) = "ConsoleIn" => n = 9)
    BY <1>2, <2>1, StopSequenceIs
  <2>3. /\ ~Held("TimerEvent") /\ ~Held("Interfaces")
        /\ n = 9 => ~Held("KeyNotifyProcessEvent")
    BY <1>2, <2>2, StopSequenceIs DEF At
  <2> QED
    BY <2>2, <2>3 DEF Held
<1> QED
  BY <1>1, <1>2 DEF CleanupHas

-----------------------------------------------------------------------------
(* The invariant                                                            *)

LEMMA BindingInvBegins == BindingInit => BindingInv
BY DEF BindingInit, BindingInv, Flags, EventsBacked, NoUseAfterFree, StartHas, CleanupHas,
       FreshAfterReset, OnlyFreshKeys

\* The calls of Start.
LEMMA StartKeepsInv == BindingInv /\ Start => BindingInv'
<1> SUFFICES ASSUME BindingInv, Start PROVE BindingInv'
  OBVIOUS
<1> USE DEF BindingInv, Flags, EventsBacked, NoUseAfterFree, StartHas, CleanupHas,
        FreshAfterReset, OnlyFreshKeys
<1>1. CASE OpenProtocol
  BY <1>1 DEF OpenProtocol
<1>2. CASE AllocateConsoleIn
  BY <1>2 DEF AllocateConsoleIn
<1>3. ASSUME NEW e \in Event, NEW next, CreateEvent(e, next),
             \/ e = "WaitForKey" /\ next = "WaitForKeyEx"
             \/ e = "WaitForKeyEx" /\ next = "TimerEvent"
             \/ e = "TimerEvent" /\ next = "SetTimer"
             \/ e = "KeyNotifyProcessEvent" /\ next = "Reset"
      PROVE  BindingInv'
  BY <1>3 DEF CreateEvent
<1>3a. CASE CreateEvents
  BY <1>3, <1>3a DEF CreateEvents, Event
<1>4. CASE SetTimer
  BY <1>4 DEF SetTimer
<1>5. CASE ResetDevice
  BY <1>5 DEF ResetDevice
<1>6. CASE AddUnicodeStrings
  BY <1>6 DEF AddUnicodeStrings
<1>7. CASE InstallInterfaces
  BY <1>7 DEF InstallInterfaces
<1>8. CASE CallFails
  <2>1. At(ErrorExit, 1)'
    BY <1>8, ErrorExitIs, WholeSequence DEF CallFails, Fails, At
  <2>2. ~installed'
    BY <1>8 DEF CallFails, Fails
  <2> HIDE DEF At
  <2> QED
    BY <1>8, <2>1, <2>2 DEF CallFails, Fails
<1> QED
  BY <1>1, <1>2, <1>3a, <1>4, <1>5, <1>6, <1>7, <1>8 DEF Start

LEMMA StopKeepsInv == BindingInv /\ Stop => BindingInv'
<1> SUFFICES ASSUME BindingInv, Stop PROVE BindingInv'
  OBVIOUS
<1>1. At(StopSequence, 1)'
  BY StopSequenceIs, WholeSequence DEF Stop, At
<1> QED
  BY <1>1 DEF Stop, BindingInv, Flags, EventsBacked, NoUseAfterFree, StartHas, CleanupHas,
              FreshAfterReset, OnlyFreshKeys

\* The releases of both clean-ups, and the one that can fail.
LEMMA CleanupKeepsInv == BindingInv /\ Cleanup => BindingInv'
<1> SUFFICES ASSUME BindingInv, Cleanup PROVE BindingInv'
  OBVIOUS
<1> USE DEF BindingInv, Flags, EventsBacked, NoUseAfterFree, FreshAfterReset, OnlyFreshKeys
<1>0. CASE UninstallFails
  BY <1>0 DEF UninstallFails, StartHas, CleanupHas
<1> SUFFICES ASSUME Released,
                    CloseEvent \/ UninstallInterfaces \/ CloseProtocol \/ FreeNotifyList
                       \/ FreeNameTable \/ FreeConsoleIn
             PROVE  BindingInv'
  BY <1>0 DEF Cleanup, CloseEvent, UninstallInterfaces, CloseProtocol, FreeNotifyList,
              FreeNameTable, FreeConsoleIn
<1>1. pc = "cleanup" /\ pc' \in {"cleanup", "unbound"}
  BY DEF Released
<1> PICK r : r = Head(todo)
  OBVIOUS
<1>2. /\ r = "KeyNotifyProcessEvent" => ~armed /\ ~installed
      /\ r = "ConsoleIn" => ~armed /\ ~installed /\ ~signaled
  BY <1>1, ReleaseOrder
<1>3. SUFFICES /\ ~Held(r)' /\ \A q : Held(q)' => Held(q)
               /\ EventsBacked' /\ NoUseAfterFree' /\ Flags'
               /\ queued' \subseteq queued
               /\ installed' => installed
  <2>1. Releases(r) /\ EventsBacked' /\ pc' \notin {"ControllerNameTable", "Interfaces"}
    BY <1>1, <1>3 DEF Releases
  <2>2. StartHas' /\ CleanupHas'
    BY <2>1, CleanupKept
  <2> QED
    BY <1>3, <2>1, <2>2
<1>4. CASE CloseEvent
  <2>1. /\ r \in Event /\ events' = events \ {r}
        /\ armed' = (armed /\ r # "TimerEvent")
        /\ signaled' = (signaled /\ r # "KeyNotifyProcessEvent")
        /\ UNCHANGED <<opened, alive, named, installed, registered, keyed, queued, nullList>>
    BY <1>4 DEF CloseEvent
  <2>2. ~Held(r)' /\ \A q : Held(q)' => Held(q)
    BY <2>1 DEF Held, Event
  <2>3. EventsBacked' /\ NoUseAfterFree'
    BY <1>2, <2>1 DEF Event
  <2>4. Flags'
    BY <1>1, <2>1
  <2> QED
    BY <2>1, <2>2, <2>3, <2>4
<1>5. CASE UninstallInterfaces
  BY <1>1, <1>5 DEF UninstallInterfaces, Held, Event
<1>6. CASE CloseProtocol
  BY <1>1, <1>6 DEF CloseProtocol, Held, Event
<1>7. CASE FreeNotifyList
  BY <1>1, <1>7 DEF FreeNotifyList, Held, Event
<1>8. CASE FreeNameTable
  BY <1>1, <1>8 DEF FreeNameTable, Held, Event
<1>9. CASE FreeConsoleIn
  BY <1>1, <1>2, <1>9 DEF FreeConsoleIn, Held, Event
<1> QED
  BY <1>4, <1>5, <1>6, <1>7, <1>8, <1>9

\* The timer, the clients and the dispatcher, between two calls: none of them
\* runs with more than the clean-up has left.
LEMMA OthersKeepInv ==
    BindingInv /\ (TimerTick \/ ClientPoll \/ ClientRegisters \/ Dispatch) => BindingInv'
<1> SUFFICES ASSUME BindingInv, TimerTick \/ ClientPoll \/ ClientRegisters \/ Dispatch
             PROVE  BindingInv'
  OBVIOUS
<1> USE DEF BindingInv, Flags, EventsBacked, NoUseAfterFree, FreshAfterReset, OnlyFreshKeys
<1>1. UNCHANGED <<pc, todo, opened, alive, events, armed, named, installed, nullList>>
  BY DEF TimerTick, ClientPoll, ClientRegisters, Dispatch, Scan
<1>2. UNCHANGED registered \/ installed
  BY DEF TimerTick, ClientPoll, ClientRegisters, Dispatch, Scan
<1>3. StartHas'
  BY <1>1, <1>2 DEF StartHas
<1>4. \A s, n : At(s, n) /\ UNCHANGED registered => At(s, n)'
  BY <1>1 DEF At, Held
<1>5. ASSUME installed, NEW n \in 1 .. 9, At(StopSequence, n)
      PROVE  At(StopSequence, n)'
  <2>1. n \in 1 .. 2
    <3>1. Held("Interfaces")
      BY <1>5 DEF Held
    <3> QED
      BY <1>5, <3>1, StopSequenceIs DEF At
  <2>2. \A i \in 1 .. n - 1 : StopSequence[i] = "TimerEvent"
    BY <2>1, StopSequenceIs
  <2> QED
    BY <1>1, <1>5, <2>1, <2>2 DEF At, Held
<1>6. CleanupHas'
  BY <1>1, <1>2, <1>4, <1>5 DEF CleanupHas
<1>7. CASE TimerTick
  BY <1>3, <1>6, <1>7 DEF TimerTick, Scan, StartHas
<1>8. CASE ClientPoll
  BY <1>3, <1>6, <1>8 DEF ClientPoll, Scan, StartHas
<1>9. CASE ClientRegisters
  BY <1>3, <1>6, <1>9 DEF ClientRegisters
<1>10. CASE Dispatch
  BY <1>3, <1>6, <1>10 DEF Dispatch
<1> QED
  BY <1>7, <1>8, <1>9, <1>10

LEMMA BindingInvKept == BindingInv /\ [BindingNext]_bindingVars => BindingInv'
<1>1. BindingInv /\ UNCHANGED bindingVars => BindingInv'
  BY DEF bindingVars, BindingInv, Flags, EventsBacked, NoUseAfterFree, StartHas, CleanupHas, At, Held,
         FreshAfterReset, OnlyFreshKeys
<1> QED
  BY <1>1, StartKeepsInv, StopKeepsInv, CleanupKeepsInv, OthersKeepInv DEF BindingNext

LEMMA InvIsSafe == BindingInv => BindingSafe
<1> SUFFICES ASSUME BindingInv PROVE BindingSafe
  OBVIOUS
<1>1. NothingLeaked
  BY DEF BindingInv, StartHas, NothingLeaked
<1>2. \E n \in 0 .. Len(ErrorExit) : \E m \in 0 .. Len(StopSequence) :
          \/ todo = SubSeq(ErrorExit, n + 1, Len(ErrorExit))
          \/ todo = SubSeq(StopSequence, m + 1, Len(StopSequence))
  <2>1. CASE todo = << >>
    <3>1. todo = SubSeq(ErrorExit, 8 + 1, Len(ErrorExit))
      BY <2>1, ErrorExitIs, SubSeqEmpty
    <3>2. 8 \in 0 .. Len(ErrorExit) /\ 9 \in 0 .. Len(StopSequence)
      BY ErrorExitIs, StopSequenceIs
    <3> QED
      BY <3>1, <3>2
  <2>2. ASSUME NEW n \in 1 .. 8, At(ErrorExit, n) PROVE <1>2
    <3>1. todo = SubSeq(ErrorExit, (n - 1) + 1, Len(ErrorExit))
      BY <2>2 DEF At
    <3>2. n - 1 \in 0 .. Len(ErrorExit) /\ 9 \in 0 .. Len(StopSequence)
      BY ErrorExitIs, StopSequenceIs
    <3> QED
      BY <3>1, <3>2
  <2>3. ASSUME NEW n \in 1 .. 9, At(StopSequence, n) PROVE <1>2
    <3>1. todo = SubSeq(StopSequence, (n - 1) + 1, Len(StopSequence))
      BY <2>3 DEF At
    <3>2. 8 \in 0 .. Len(ErrorExit) /\ n - 1 \in 0 .. Len(StopSequence)
      BY ErrorExitIs, StopSequenceIs
    <3> QED
      BY <3>1, <3>2
  <2> QED
    BY <2>1, <2>2, <2>3 DEF BindingInv, StartHas, CleanupHas
<1>3. BindingTypeOK
  BY <1>2 DEF BindingInv, Flags, EventsBacked, BindingTypeOK
<1> QED
  BY <1>1, <1>3 DEF BindingInv, BindingSafe

\* At every step of KeypadControllerDriverStart, of its error exit and of
\* Stop, whatever call fails and whatever the timer, the clients and the
\* dispatcher do in between: what is alive is what may still be used, a driver
\* that is not bound holds nothing, and a client never sees a key from before
\* the reset.
THEOREM BindingIsSafe == BindingSpec => []BindingSafe
<1>1. BindingInit => BindingInv
  BY BindingInvBegins
<1>2. BindingInv /\ [BindingNext]_bindingVars => BindingInv'
  BY BindingInvKept
<1>3. BindingInv => BindingSafe
  BY InvIsSafe
<1> QED
  BY <1>1, <1>2, <1>3, PTL DEF BindingSpec
=============================================================================
