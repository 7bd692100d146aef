---------------------------- MODULE KeypadDriver ----------------------------
(* KeypadDxe while it is bound: the timer handler and the polls of its      *)
(* readers push keystrokes into two queues at TPL_NOTIFY, applications read *)
(* one of them at TPL_APPLICATION, and KeyNotifyProcessHandler empties the  *)
(* other at TPL_CALLBACK, calling the registered notification functions.    *)
(*                                                                         *)
(* A step is what runs without another actor coming between: a section at   *)
(* TPL_NOTIFY, or one node of the notification list.  The queues are those  *)
(* of KeyFifo; every keystroke carries a serial number, a history that      *)
(* tells two presses of one key apart.  A scan reports at most one key: one *)
(* that reports more is a tick with nothing between it and the next.        *)
EXTENDS Integers, Sequences, FiniteSets

CONSTANTS
    Codes,          \* what the device reports; "NULL" is a partial keystroke
    Requests,       \* [code, shift, fn]: registrations callers may ask for
    Capacity,       \* keys a queue holds: KEYPAD_EFI_KEY_MAX_COUNT - 1
    MaxSerial,      \* bound: keystrokes typed in a behaviour
    MaxHandles      \* bound: registrations made in a behaviour

ASSUME CapacityAssumption == Capacity \in Nat \ {0}
ASSUME RequestsAssumption ==
    \A r \in Requests : r = [code |-> r.code, shift |-> r.shift, fn |-> r.fn]
ASSUME BoundsAssumption == MaxSerial \in Nat /\ MaxHandles \in Nat

VARIABLES
    efiKeyQueue,    \* ConsoleIn->EfiKeyQueue: [code, n]
    notifyQueue,    \* ConsoleIn->EfiKeyQueueForNotify: [code, n]
    notifyList,     \* ConsoleIn->NotifyList: [handle, code, shift, fn]
    partialKeys,    \* ConsoleIn->IsSupportPartialKey
    signaled,       \* KeyNotifyProcessEvent is signalled and not dispatched
    walk,           \* KeyNotifyProcessHandler: [pc, key, node]
    reading,        \* an application is inside the loop of ReadKeyStroke
    serial,         \* history: keystrokes typed
    handles,        \* history: registrations made
    lastRead,       \* history: number of the last key a reader was given
    floor,          \* history: number of the last key typed before a reset
    owed,           \* history: <<handle, n>>, key n matched it when typed
    calls,          \* history: <<handle, n>>, its function was called for n
    promised        \* history: WaitForKey found a key, nothing took it since

queues == <<efiKeyQueue, notifyQueue, signaled, serial, owed>>
registry == <<notifyList, partialKeys, handles>>
vars == <<queues, registry, walk, reading, lastRead, floor, calls, promised>>

Fifo == INSTANCE KeyFifo WITH
    KeyData <- Codes, NoKey <- 0, fifo <- efiKeyQueue, out <- lastRead, call <- calls

NoWalk == [pc |-> "idle", key |-> [code |-> "NULL", n |-> 0], node |-> 0]

\* A registration without shift state ignores the shift state of the key.
IsKeyRegistered(r, code, shift) ==
    r.code = code /\ (r.shift # 0 => r.shift = shift)

\* The device reports no shift or toggle state.
Matches(r, key) == IsKeyRegistered(r, key.code, 0)

IsPartial(key) == key.code = "NULL"

RangeOf(s) == {s[i] : i \in DOMAIN s}

Numbers(s) == {key.n : key \in RangeOf(s)}

-----------------------------------------------------------------------------
(* Scanning: KeypadTimerHandler, which runs on the timer and at the start   *)
(* of every read and every poll.                                            *)

\* The scan reports nothing, or only a partial key nobody asked for.
ReportsNothing(code) == code = "none" \/ (code = "NULL" /\ ~partialKeys)

\* EfiKeyQueue after the scan.
Scanned(code) ==
    IF ReportsNothing(code) THEN efiKeyQueue
    ELSE Fifo!Kept(Append(efiKeyQueue, [code |-> code, n |-> serial + 1]))

\* KeypadReturnApiPushEfikeyBufTail, but for EfiKeyQueue: the key enters the
\* notify queue once for every registration that matches it.
NotifyScanned(code) ==
    LET key == [code |-> code, n |-> serial + 1]
        matching == {j \in DOMAIN notifyList : Matches(notifyList[j], key)}
        all == notifyQueue \o [i \in 1 .. Cardinality(matching) |-> key]
    IN  IF ReportsNothing(code) THEN UNCHANGED <<notifyQueue, signaled, serial, owed>>
        ELSE /\ serial < MaxSerial
             /\ serial' = serial + 1
             /\ notifyQueue' = Fifo!Kept(all)
             /\ signaled' = (signaled \/ matching # {})
             /\ owed' = {o \in owed \cup {<<notifyList[j].handle, key.n>> : j \in matching} :
                            o[2] \notin Numbers(all) \ Numbers(notifyQueue')}

\* The timer event: it interrupts everything that runs below TPL_NOTIFY.
TimerTick ==
    \E code \in Codes :
        /\ NotifyScanned(code)
        /\ efiKeyQueue' = Scanned(code)
        /\ UNCHANGED <<registry, walk, reading, lastRead, floor, calls, promised>>

-----------------------------------------------------------------------------
(* Applications.  They run at TPL_APPLICATION, so a signalled notification  *)
(* event is dispatched and its handler finished before they go on.          *)

AppRuns == ~signaled /\ walk.pc = "idle"

\* One KeypadReadKeyStrokeWorker: scan, then pop; it finds no key or key.
WorkerFindsNone ==
    \E code \in Codes \cup {"none"} :
        /\ NotifyScanned(code)
        /\ Scanned(code) = << >>
        /\ UNCHANGED <<efiKeyQueue, lastRead, promised>>

WorkerPops(key) ==
    \E code \in Codes \cup {"none"} :
        /\ NotifyScanned(code)
        /\ Scanned(code) # << >>
        /\ key = Head(Scanned(code))
        /\ efiKeyQueue' = Tail(Scanned(code))
        /\ lastRead' = key.n
        /\ promised' = FALSE

Poppable == [code : Codes, n : 1 .. MaxSerial]

\* KeypadReadKeyStrokeEx returns whatever is first, partial keys too.
ReadKeyStrokeEx ==
    /\ AppRuns /\ ~reading
    /\ \E key \in Poppable : WorkerPops(key)
    /\ UNCHANGED <<registry, walk, reading, floor, calls>>

\* KeypadReadKeyStroke: an iteration of its loop that returns a key,
ReadKeyStrokeReturns ==
    /\ AppRuns
    /\ \E key \in Poppable : WorkerPops(key) /\ ~IsPartial(key)
    /\ reading' = FALSE
    /\ UNCHANGED <<registry, walk, floor, calls>>

\* one that skips a partial key and goes round,
ReadKeyStrokeSkips ==
    /\ AppRuns
    /\ \E key \in Poppable : WorkerPops(key) /\ IsPartial(key)
    /\ reading' = TRUE
    /\ UNCHANGED <<registry, walk, floor, calls>>

\* and one that finds the queue empty: EFI_NOT_READY.
ReadKeyStrokeNotReady ==
    /\ AppRuns
    /\ WorkerFindsNone
    /\ reading' = FALSE
    /\ UNCHANGED <<registry, walk, floor, calls>>

\* Mutant of SkipsPartial: the poll looks at the queue and drops nothing.
SkipsNothing(s, i) == i = 1

\* Before position i, s has only partial keys; at i it has another or ends.
SkipsPartial(s, i) ==
    /\ \A j \in 1 .. i - 1 : IsPartial(s[j])
    /\ i <= Len(s) => ~IsPartial(s[i])

\* CheckEvent on WaitForKey or WaitForKeyEx: the event is signalled, and its
\* waiter told so, when a key is left after the partial ones were dropped.
WaitForKey ==
    /\ AppRuns /\ ~reading
    /\ \E code \in Codes \cup {"none"} :
        /\ NotifyScanned(code)
        /\ \E i \in 1 .. Len(Scanned(code)) + 1 :
              /\ SkipsPartial(Scanned(code), i)
              /\ efiKeyQueue' = SubSeq(Scanned(code), i, Len(Scanned(code)))
    /\ promised' = (efiKeyQueue' # << >>)
    /\ UNCHANGED <<registry, walk, reading, lastRead, floor, calls>>

\* Mutant of Reset: the keys that readers have not read stay.
ResetKeepsKeys ==
    /\ AppRuns /\ ~reading
    /\ notifyQueue' = << >>
    /\ partialKeys' = FALSE
    /\ floor' = serial
    /\ promised' = FALSE
    /\ UNCHANGED <<efiKeyQueue, signaled, serial, owed, notifyList, handles, walk,
                   reading, lastRead, calls>>

\* KeypadEfiReset and KeypadEfiResetEx: InitKeypad.
Reset ==
    /\ AppRuns /\ ~reading
    /\ efiKeyQueue' = << >>
    /\ notifyQueue' = << >>
    /\ partialKeys' = FALSE
    /\ floor' = serial
    /\ promised' = FALSE
    /\ UNCHANGED <<signaled, serial, owed, notifyList, handles, walk, reading,
                   lastRead, calls>>

\* KeypadSetState with a valid toggle state: EFI_KEY_STATE_EXPOSED or not.
SetState ==
    /\ AppRuns /\ ~reading
    /\ partialKeys' \in BOOLEAN
    /\ UNCHANGED <<queues, notifyList, handles, walk, reading, lastRead, floor,
                   calls, promised>>

\* KeypadRegisterKeyNotify; a request an entry covers gets that entry's handle.
RegisterKeyNotify ==
    /\ AppRuns /\ ~reading
    /\ \E r \in Requests :
        /\ ~\E e \in RangeOf(notifyList) :
                IsKeyRegistered(e, r.code, r.shift) /\ e.fn = r.fn
        /\ handles < MaxHandles
        /\ handles' = handles + 1
        /\ notifyList' = Append(notifyList,
               [handle |-> handles + 1, code |-> r.code, shift |-> r.shift, fn |-> r.fn])
    /\ UNCHANGED <<queues, partialKeys, walk, reading, lastRead, floor, calls, promised>>

\* KeypadUnregisterKeyNotify of the handle of node i of the list.
UnregisterKeyNotify ==
    /\ AppRuns /\ ~reading
    /\ \E i \in DOMAIN notifyList :
        notifyList' = [j \in 1 .. Len(notifyList) - 1 |->
                          notifyList[IF j < i THEN j ELSE j + 1]]
    /\ UNCHANGED <<queues, partialKeys, handles, walk, reading, lastRead, floor,
                   calls, promised>>

Application ==
    \/ ReadKeyStrokeEx \/ ReadKeyStrokeReturns \/ ReadKeyStrokeSkips
    \/ ReadKeyStrokeNotReady \/ WaitForKey \/ Reset \/ SetState
    \/ RegisterKeyNotify \/ UnregisterKeyNotify

-----------------------------------------------------------------------------
(* KeyNotifyProcessHandler, at TPL_CALLBACK.  The core clears the signal    *)
(* before it calls the handler, so a tick can signal the event again.       *)

Dispatch ==
    /\ signaled /\ walk.pc = "idle"
    /\ signaled' = FALSE
    /\ walk' = [walk EXCEPT !.pc = "pop"]
    /\ UNCHANGED <<efiKeyQueue, notifyQueue, serial, owed, registry, reading,
                   lastRead, floor, calls, promised>>

\* Mutant of PopNotify: the key stays in the queue while its functions are
\* called.
PopNotifyPeeks ==
    /\ walk.pc = "pop" /\ notifyQueue # << >>
    /\ walk' = [pc |-> "walk", key |-> Head(notifyQueue), node |-> 1]
    /\ UNCHANGED <<queues, registry, reading, lastRead, floor, calls, promised>>

PopNotify ==
    /\ walk.pc = "pop" /\ notifyQueue # << >>
    /\ walk' = [pc |-> "walk", key |-> Head(notifyQueue), node |-> 1]
    /\ notifyQueue' = Tail(notifyQueue)
    /\ UNCHANGED <<efiKeyQueue, signaled, serial, owed, registry, reading,
                   lastRead, floor, calls, promised>>

HandlerReturns ==
    /\ walk.pc = "pop" /\ notifyQueue = << >>
    /\ walk' = NoWalk
    /\ UNCHANGED <<queues, registry, reading, lastRead, floor, calls, promised>>

\* One node of the list: its function is called when it matches the key.
WalkNode ==
    /\ walk.pc = "walk" /\ walk.node <= Len(notifyList)
    /\ calls' = IF Matches(notifyList[walk.node], walk.key)
                THEN calls \cup {<<notifyList[walk.node].handle, walk.key.n>>}
                ELSE calls
    /\ walk' = [walk EXCEPT !.node = @ + 1]
    /\ UNCHANGED <<queues, registry, reading, lastRead, floor, promised>>

\* Mutant of WalkEnds: the handler returns after one key.
WalkEndsReturns ==
    /\ walk.pc = "walk" /\ walk.node > Len(notifyList)
    /\ walk' = NoWalk
    /\ UNCHANGED <<queues, registry, reading, lastRead, floor, calls, promised>>

WalkEnds ==
    /\ walk.pc = "walk" /\ walk.node > Len(notifyList)
    /\ walk' = [walk EXCEPT !.pc = "pop"]
    /\ UNCHANGED <<queues, registry, reading, lastRead, floor, calls, promised>>

Handler == Dispatch \/ PopNotify \/ HandlerReturns \/ WalkNode \/ WalkEnds

-----------------------------------------------------------------------------
Init ==
    /\ efiKeyQueue = << >>
    /\ notifyQueue = << >>
    /\ notifyList = << >>
    /\ partialKeys = FALSE
    /\ signaled = FALSE
    /\ walk = NoWalk
    /\ reading = FALSE
    /\ serial = 0
    /\ handles = 0
    /\ lastRead = 0
    /\ floor = 0
    /\ owed = {}
    /\ calls = {}
    /\ promised = FALSE

Next == TimerTick \/ Application \/ Handler

\* The core dispatches a signalled event and lets its handler run on.
Spec == Init /\ [][Next]_vars /\ WF_vars(Handler)

-----------------------------------------------------------------------------
(* Properties *)

TypeOK ==
    /\ efiKeyQueue \in Seq(Poppable) /\ Len(efiKeyQueue) <= Capacity
    /\ notifyQueue \in Seq(Poppable) /\ Len(notifyQueue) <= Capacity
    /\ \A e \in RangeOf(notifyList) :
          e.handle \in 1 .. handles /\ [code |-> e.code, shift |-> e.shift, fn |-> e.fn] \in Requests
    /\ partialKeys \in BOOLEAN /\ signaled \in BOOLEAN /\ reading \in BOOLEAN
    /\ promised \in BOOLEAN
    /\ walk.pc \in {"idle", "pop", "walk"}
    /\ serial \in 0 .. MaxSerial /\ handles \in 0 .. MaxHandles
    /\ lastRead \in 0 .. serial /\ floor \in 0 .. serial

\* A key waiting for its notification always has somebody coming for it: the
\* event is signalled, or the handler has not yet seen its queue empty.
NoLostWakeup == notifyQueue # << >> => signaled \/ walk.pc # "idle"

\* Once the handler has finished, every function registered for a key when it
\* was typed has been called for it, unless the notify queue overflowed.
NotifyComplete == AppRuns => owed \subseteq calls

\* A function is called for a key at most once.
NotifiedOnce ==
    [][WalkNode /\ Matches(notifyList[walk.node], walk.key)
          => <<notifyList[walk.node].handle, walk.key.n>> \notin calls]_vars

\* Readers, whichever of the two protocols they use and whatever the polls
\* drop, see the keys in the order they were typed, none twice and none from
\* before a reset.
ReadsInOrder ==
    /\ \A i \in DOMAIN efiKeyQueue :
          efiKeyQueue[i].n > lastRead /\ efiKeyQueue[i].n > floor
    /\ \A i, j \in DOMAIN efiKeyQueue :
          i < j => efiKeyQueue[i].n < efiKeyQueue[j].n

\* When WaitForKey was signalled, a read that follows finds a key: ticks that
\* come between only lose it to an overflow, which leaves the queue full.
PromiseKept ==
    promised => \/ \E i \in DOMAIN efiKeyQueue : ~IsPartial(efiKeyQueue[i])
                \/ Len(efiKeyQueue) = Capacity

\* Taken together: a key that the two queues take reaches everybody it was
\* promised to, the functions registered for it and the reader that was
\* signalled, and the queues, lists and counters keep their types.
KeysDelivered == TypeOK /\ NotifyComplete /\ PromiseKept

\* Notification functions run for the keys that are typed, all of them.
NotifyQueueDrains == []<>(notifyQueue = << >>)

\* "Signal the event if there is key available": a poll of WaitForKeyEx does
\* not take a key that ReadKeyStrokeEx would have returned.
PollTakesNothing ==
    [][WaitForKey => \A key \in RangeOf(efiKeyQueue) :
          key \in RangeOf(efiKeyQueue') \/ Len(efiKeyQueue) = Capacity]_vars
=============================================================================
