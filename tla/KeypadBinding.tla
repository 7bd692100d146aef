--------------------------- MODULE KeypadBinding ---------------------------
(* KeypadControllerDriverStart and ...Stop (Keypad.c): the calls they make  *)
(* one by one, each of which may fail, with the timer ticking between them  *)
(* as soon as it is armed.  Both end in a clean-up, a sequence of releases. *)
EXTENDS Integers, Sequences

VARIABLES
    pc,         \* the next call of Start, or "unbound", "bound", "cleanup"
    todo,       \* what the clean-up still has to release
    opened,     \* the keypad device protocol is open BY_DRIVER
    alive,      \* ConsoleIn is allocated
    events,     \* the events ConsoleIn owns
    armed,      \* TimerEvent is set to fire periodically
    named,      \* ConsoleIn->ControllerNameTable is allocated
    installed,  \* ConIn and ConInEx are installed on the controller
    registered, \* NotifyList is not empty
    signaled,   \* KeyNotifyProcessEvent is signalled and not dispatched
    keyed,      \* the key contexts of the device have their key data
    queued,     \* what EfiKeyQueue holds: keys from before Start's reset are stale
    nullList    \* KbdFreeNotifyList ran on the list of a NULL ConsoleIn

bindingVars == <<pc, todo, opened, alive, events, armed, named, installed, registered,
                 signaled, keyed, queued, nullList>>

Event == {"WaitForKey", "WaitForKeyEx", "TimerEvent", "KeyNotifyProcessEvent"}

\* The order of the releases at the label ErrorExit of Start.
ErrorExit == <<"WaitForKey", "TimerEvent", "WaitForKeyEx", "KeyNotifyProcessEvent",
               "NotifyList", "ControllerNameTable", "ConsoleIn", "Protocol">>

\* Mutant of StopSequence: the timer is stopped last.
StopSequenceLateTimer ==
    <<"Interfaces", "Protocol", "WaitForKey", "WaitForKeyEx", "KeyNotifyProcessEvent",
      "NotifyList", "ControllerNameTable", "ConsoleIn", "TimerEvent">>

\* The order of the releases of Stop; Interfaces is the one that can fail.
StopSequence == <<"TimerEvent", "Interfaces", "Protocol", "WaitForKey", "WaitForKeyEx",
                  "KeyNotifyProcessEvent", "NotifyList", "ControllerNameTable",
                  "ConsoleIn">>

BindingInit ==
    /\ pc = "unbound"
    /\ todo = << >>
    /\ opened = FALSE /\ alive = FALSE /\ armed = FALSE /\ named = FALSE
    /\ installed = FALSE /\ registered = FALSE /\ signaled = FALSE
    /\ keyed = FALSE /\ nullList = FALSE
    /\ events = {} /\ queued = {}

-----------------------------------------------------------------------------
(* KeypadControllerDriverStart *)

\* The call at pc fails and Start jumps to ErrorExit.
Fails(at) ==
    /\ pc = at
    /\ pc' = "cleanup"
    /\ todo' = ErrorExit
    /\ UNCHANGED <<opened, alive, events, armed, named, installed, registered,
                   signaled, keyed, queued, nullList>>

CallFails ==
    \E at \in {"ConsoleIn", "WaitForKey", "WaitForKeyEx", "TimerEvent", "SetTimer",
               "KeyNotifyProcessEvent", "Interfaces"} : Fails(at)

\* When it cannot be opened, Start returns at once.
OpenProtocol ==
    /\ pc = "unbound"
    /\ opened' = TRUE
    /\ pc' = "ConsoleIn"
    /\ UNCHANGED <<todo, alive, events, armed, named, installed, registered,
                   signaled, keyed, queued, nullList>>

AllocateConsoleIn ==
    /\ pc = "ConsoleIn"
    /\ alive' = TRUE
    /\ registered' = FALSE
    /\ queued' = {}
    /\ pc' = "WaitForKey"
    /\ UNCHANGED <<todo, opened, events, armed, named, installed, signaled, keyed,
                   nullList>>

CreateEvent(e, next) ==
    /\ pc = e
    /\ events' = events \cup {e}
    /\ pc' = next
    /\ UNCHANGED <<todo, opened, alive, armed, named, installed, registered,
                   signaled, keyed, queued, nullList>>

CreateEvents ==
    \/ CreateEvent("WaitForKey", "WaitForKeyEx")
    \/ CreateEvent("WaitForKeyEx", "TimerEvent")
    \/ CreateEvent("TimerEvent", "SetTimer")
    \/ CreateEvent("KeyNotifyProcessEvent", "Reset")

SetTimer ==
    /\ pc = "SetTimer"
    /\ armed' = TRUE
    /\ pc' = "KeyNotifyProcessEvent"
    /\ UNCHANGED <<todo, opened, alive, events, named, installed, registered,
                   signaled, keyed, queued, nullList>>

\* ConInEx.Reset: InitKeypad, which cannot fail.
ResetDevice ==
    /\ pc = "Reset"
    /\ keyed' = TRUE
    /\ queued' = {}
    /\ pc' = "ControllerNameTable"
    /\ UNCHANGED <<todo, opened, alive, events, armed, named, installed, registered,
                   signaled, nullList>>

AddUnicodeStrings ==
    /\ pc = "ControllerNameTable"
    /\ named' = TRUE
    /\ pc' = "Interfaces"
    /\ UNCHANGED <<todo, opened, alive, events, armed, installed, registered,
                   signaled, keyed, queued, nullList>>

InstallInterfaces ==
    /\ pc = "Interfaces"
    /\ installed' = TRUE
    /\ pc' = "bound"
    /\ UNCHANGED <<todo, opened, alive, events, armed, named, registered, signaled,
                   keyed, queued, nullList>>

Start ==
    \/ OpenProtocol \/ AllocateConsoleIn \/ CreateEvents \/ SetTimer
    \/ ResetDevice \/ AddUnicodeStrings \/ InstallInterfaces \/ CallFails

-----------------------------------------------------------------------------
(* KeypadControllerDriverStop, and the releases it shares with ErrorExit *)

Stop ==
    /\ pc = "bound"
    /\ pc' = "cleanup"
    /\ todo' = StopSequence
    /\ UNCHANGED <<opened, alive, events, armed, named, installed, registered,
                   signaled, keyed, queued, nullList>>

\* The release at the head of todo is done; the last one ends the clean-up.
Released ==
    /\ pc = "cleanup" /\ todo # << >>
    /\ todo' = Tail(todo)
    /\ pc' = IF Len(todo) = 1 THEN "unbound" ELSE pc

\* Closing an event disarms its timer and withdraws its pending notification.
\* An event that does not exist is skipped.
CloseEvent ==
    /\ Released
    /\ Head(todo) \in Event
    /\ events' = events \ {Head(todo)}
    /\ armed' = (armed /\ Head(todo) # "TimerEvent")
    /\ signaled' = (signaled /\ Head(todo) # "KeyNotifyProcessEvent")
    /\ UNCHANGED <<opened, alive, named, installed, registered, keyed, queued, nullList>>

UninstallInterfaces ==
    /\ Released
    /\ Head(todo) = "Interfaces"
    /\ installed' = FALSE
    /\ UNCHANGED <<opened, alive, events, armed, named, registered, signaled, keyed,
                   queued, nullList>>

\* A client that keeps the interfaces open: Stop gives up where it is.
UninstallFails ==
    /\ pc = "cleanup" /\ todo # << >>
    /\ Head(todo) = "Interfaces"
    /\ todo' = << >>
    /\ pc' = "bound"
    /\ UNCHANGED <<opened, alive, events, armed, named, installed, registered,
                   signaled, keyed, queued, nullList>>

CloseProtocol ==
    /\ Released
    /\ Head(todo) = "Protocol"
    /\ opened' = FALSE
    /\ UNCHANGED <<alive, events, armed, named, installed, registered, signaled,
                   keyed, queued, nullList>>

\* KbdFreeNotifyList; ErrorExit calls it whether or not ConsoleIn is NULL.
FreeNotifyList ==
    /\ Released
    /\ Head(todo) = "NotifyList"
    /\ registered' = FALSE
    /\ nullList' = (nullList \/ ~alive)
    /\ UNCHANGED <<opened, alive, events, armed, named, installed, signaled, keyed,
                   queued>>

FreeNameTable ==
    /\ Released
    /\ Head(todo) = "ControllerNameTable"
    /\ named' = FALSE
    /\ UNCHANGED <<opened, alive, events, armed, installed, registered, signaled,
                   keyed, queued, nullList>>

FreeConsoleIn ==
    /\ Released
    /\ Head(todo) = "ConsoleIn"
    /\ alive' = FALSE
    /\ queued' = {}
    /\ UNCHANGED <<opened, events, armed, named, installed, registered, signaled,
                   keyed, nullList>>

Cleanup ==
    \/ CloseEvent \/ UninstallInterfaces \/ UninstallFails \/ CloseProtocol
    \/ FreeNotifyList \/ FreeNameTable \/ FreeConsoleIn

-----------------------------------------------------------------------------
(* The rest of the system *)

\* A scan, on the timer or by a client's poll, may find a key.  A device whose
\* contexts have no data yet only reports partial keys, which are dropped.
Scan(source) ==
    /\ keyed
    /\ queued' = queued \cup {source}
    /\ signaled' = (signaled \/ registered)
    /\ UNCHANGED <<pc, todo, opened, alive, events, armed, named, installed,
                   registered, keyed, nullList>>

TimerTick ==
    armed /\ Scan(IF pc \in {"KeyNotifyProcessEvent", "Reset"} THEN "stale" ELSE "fresh")

ClientPoll == installed /\ Scan("fresh")

\* RegisterKeyNotify by a client of the installed interfaces.
ClientRegisters ==
    /\ installed
    /\ registered' = TRUE
    /\ UNCHANGED <<pc, todo, opened, alive, events, armed, named, installed, signaled,
                   keyed, queued, nullList>>

Dispatch ==
    /\ signaled
    /\ signaled' = FALSE
    /\ UNCHANGED <<pc, todo, opened, alive, events, armed, named, installed,
                   registered, keyed, queued, nullList>>

BindingNext == Start \/ Stop \/ Cleanup \/ TimerTick \/ ClientPoll \/ ClientRegisters \/ Dispatch

BindingSpec == BindingInit /\ [][BindingNext]_bindingVars

-----------------------------------------------------------------------------
(* Properties *)

BindingTypeOK ==
    /\ pc \in {"unbound", "bound", "cleanup", "ConsoleIn", "WaitForKey", "WaitForKeyEx",
               "TimerEvent", "SetTimer", "KeyNotifyProcessEvent", "Reset",
               "ControllerNameTable", "Interfaces"}
    /\ \E n \in 0 .. Len(ErrorExit) : \E m \in 0 .. Len(StopSequence) :
          \/ todo = SubSeq(ErrorExit, n + 1, Len(ErrorExit))
          \/ todo = SubSeq(StopSequence, m + 1, Len(StopSequence))
    /\ events \subseteq Event
    /\ queued \subseteq {"stale", "fresh"}
    /\ {opened, alive, armed, named, installed, registered, signaled, keyed, nullList}
          \subseteq BOOLEAN

\* Nothing that would use ConsoleIn is left when it is freed: neither the
\* timer, nor a pending notification, nor a client.  And a scan that finds a
\* registered key has an event to signal, although the timer is armed before
\* that event is created, and closed after it is not.
NoUseAfterFree ==
    /\ armed \/ signaled \/ installed => alive
    /\ registered /\ (armed \/ installed) => "KeyNotifyProcessEvent" \in events

\* Start that fails anywhere and Stop that succeeds leave nothing behind.
NothingLeaked ==
    pc = "unbound" =>
        ~opened /\ ~alive /\ ~named /\ ~installed /\ ~registered /\ events = {}

\* Keys found before the reset, with the contexts of an earlier binding, never
\* reach a client of the new one.
OnlyFreshKeys == installed => "stale" \notin queued

\* Taken together: at every step of Start, of its error exit and of Stop, and
\* whatever runs between two of them, what is alive is what may still be used.
BindingSafe == BindingTypeOK /\ NoUseAfterFree /\ NothingLeaked /\ OnlyFreshKeys

\* "This driver was not removed from this device": after a Stop that failed
\* the keypad is still scanned.
BoundIsScanned == pc = "bound" => armed

\* ErrorExit releases only what Start has got: the list of a ConsoleIn that
\* could not be allocated is not walked.
ListExists == ~nullList
=============================================================================
