------------------------------ MODULE KeyQueue ------------------------------
(* EFI_KEY_QUEUE, the ring buffer between the keypad's timer handler and   *)
(* its readers (KeypadTextIn.c).  One slot is always left unused so that   *)
(* Head = Tail means empty; a push onto a full ring first pops the head.   *)
EXTENDS Integers, Sequences

CONSTANTS
    KEYPAD_EFI_KEY_MAX_COUNT,   \* slots in Buffer
    KeyData,                    \* the keystrokes that can be queued
    ZeroKey,                    \* the all-zero keystroke of a fresh buffer
    NoKey                       \* no keystroke was handed out yet

ASSUME SlotsAssumption ==
    KEYPAD_EFI_KEY_MAX_COUNT \in Nat /\ KEYPAD_EFI_KEY_MAX_COUNT >= 2
ASSUME ZeroKeyAssumption == ZeroKey \in KeyData /\ NoKey \notin KeyData

VARIABLES
    queue,      \* [Head, Tail, Buffer]
    keyData,    \* what the last PopEfikeyBufHead copied to its caller
    call        \* history: the last operation

queueVars == <<queue, keyData, call>>

Slots == 0 .. KEYPAD_EFI_KEY_MAX_COUNT - 1

Queue == [Head : Slots, Tail : Slots, Buffer : [Slots -> KeyData]]

\* Mutant of Succ: the wrap-around is forgotten.
SuccNoWrap(i) == i + 1

\* The slot after slot i.
Succ(i) == (i + 1) % KEYPAD_EFI_KEY_MAX_COUNT

IsEfikeyBufEmpty(q) == q.Head = q.Tail

\* The ring after its head was removed; the slot keeps its old contents.
HeadPopped(q) ==
    IF IsEfikeyBufEmpty(q) THEN q ELSE [q EXCEPT !.Head = Succ(q.Head)]

\* Mutant of RoomMade: a full ring is not noticed.
RoomNotMade(q) == q

\* The ring with room for one more key: a full ring loses its head.
RoomMade(q) == IF Succ(q.Tail) = q.Head THEN HeadPopped(q) ELSE q

TailPushed(q, k) ==
    [RoomMade(q) EXCEPT !.Buffer = [@ EXCEPT ![q.Tail] = k],
                        !.Tail = Succ(q.Tail)]

\* The ring as InitKeypad leaves it: empty, the buffer untouched.
Emptied(q) == [q EXCEPT !.Head = 0, !.Tail = 0]

-----------------------------------------------------------------------------
QueueInit ==
    /\ queue = [Head |-> 0, Tail |-> 0, Buffer |-> [i \in Slots |-> ZeroKey]]
    /\ keyData = NoKey
    /\ call = "none"

PushEfikeyBufTail(k) ==
    /\ queue' = TailPushed(queue, k)
    /\ UNCHANGED keyData
    /\ call' = "push"

\* The caller passes a buffer (KeypadReadKeyStrokeWorker, the notify handler).
PopEfikeyBufHead ==
    /\ ~IsEfikeyBufEmpty(queue)
    /\ keyData' = queue.Buffer[queue.Head]
    /\ queue' = HeadPopped(queue)
    /\ call' = "pop"

\* The caller drops the key it removes (KeypadWaitForKey skips partial keys).
DropHead ==
    /\ ~IsEfikeyBufEmpty(queue)
    /\ queue' = HeadPopped(queue)
    /\ UNCHANGED keyData
    /\ call' = "discard"

\* InitKeypad, called by the driver's Reset.
ResetQueue ==
    /\ queue' = Emptied(queue)
    /\ UNCHANGED keyData
    /\ call' = "reset"

QueueNext ==
    \/ \E k \in KeyData : PushEfikeyBufTail(k)
    \/ PopEfikeyBufHead
    \/ DropHead
    \/ ResetQueue

QueueSpec == QueueInit /\ [][QueueNext]_queueVars

-----------------------------------------------------------------------------
(* Properties *)

\* The ring's indices stay inside the buffer and every slot holds a key.
QueueTypeOK ==
    /\ queue \in Queue
    /\ keyData \in KeyData \cup {NoKey}
    /\ call \in {"none", "push", "pop", "discard", "reset"}

\* Keys between Head and Tail, going round the end of the buffer.
Count(q) ==
    IF q.Head <= q.Tail THEN q.Tail - q.Head
    ELSE q.Tail - q.Head + KEYPAD_EFI_KEY_MAX_COUNT

\* The slot of the i-th oldest key.
SlotOf(q, i) ==
    IF q.Head + i - 1 < KEYPAD_EFI_KEY_MAX_COUNT THEN q.Head + i - 1
    ELSE q.Head + i - 1 - KEYPAD_EFI_KEY_MAX_COUNT

\* The keys of the ring, oldest first.
Contents(q) == [i \in 1 .. Count(q) |-> q.Buffer[SlotOf(q, i)]]

Fifo == INSTANCE KeyFifo WITH
    Capacity <- KEYPAD_EFI_KEY_MAX_COUNT - 1,
    fifo <- Contents(queue),
    out <- keyData,
    call <- call

\* The ring with its wrap-around and its drop-the-head rule behaves as the
\* queue of KeyFifo: no key is lost but the oldest of a full queue, none is
\* returned twice or out of order, and no stale slot is ever returned.
ImplementsFifo == Fifo!Spec
=============================================================================
