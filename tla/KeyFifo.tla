------------------------------ MODULE KeyFifo ------------------------------
(* What an EFI_KEY_QUEUE promises to the keypad driver: a first-in         *)
(* first-out queue of at most Capacity keys that never refuses a key.  A   *)
(* key pushed onto a full queue costs the oldest one.                      *)
(*                                                                         *)
(* KeyQueue.tla is the ring buffer of KeypadTextIn.c and implements this   *)
(* specification.  The driver modules use the operators below.             *)
EXTENDS Integers, Sequences

CONSTANTS
    KeyData,    \* the keystrokes that can be queued
    NoKey,      \* no keystroke: nothing was handed to the caller yet
    Capacity    \* keys a queue holds

VARIABLES
    fifo,       \* the keys queued, oldest first
    out,        \* the key the last pop handed to its caller
    call        \* the last operation, so that a push cannot pass for a clear

fifoVars == <<fifo, out, call>>

Calls == {"none", "push", "pop", "discard", "reset"}

IsFull(s) == Len(s) = Capacity

\* The queue s after key k was pushed onto it.
Pushed(s, k) == Append(IF IsFull(s) THEN Tail(s) ELSE s, k)

\* The keys of s that are left after they were pushed one by one.
Kept(s) ==
    IF Len(s) <= Capacity THEN s ELSE SubSeq(s, Len(s) - Capacity + 1, Len(s))

FifoTypeOK ==
    /\ fifo \in Seq(KeyData)
    /\ Len(fifo) <= Capacity
    /\ out \in KeyData \cup {NoKey}
    /\ call \in Calls

Init ==
    /\ fifo = << >>
    /\ out = NoKey
    /\ call = "none"

Push(k) ==
    /\ fifo' = Pushed(fifo, k)
    /\ UNCHANGED out
    /\ call' = "push"

\* EFI_SUCCESS: the oldest key goes to the caller.
Pop ==
    /\ fifo # << >>
    /\ out' = Head(fifo)
    /\ fifo' = Tail(fifo)
    /\ call' = "pop"

\* A pop that passes no buffer discards the oldest key.
Discard ==
    /\ fifo # << >>
    /\ fifo' = Tail(fifo)
    /\ UNCHANGED out
    /\ call' = "discard"

Clear ==
    /\ fifo' = << >>
    /\ UNCHANGED out
    /\ call' = "reset"

Next ==
    \/ \E k \in KeyData : Push(k)
    \/ Pop
    \/ Discard
    \/ Clear

Spec == Init /\ [][Next]_fifoVars
=============================================================================
