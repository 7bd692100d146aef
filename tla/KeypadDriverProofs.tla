-------------------------- MODULE KeypadDriverProofs --------------------------
(* Proofs about the keypad driver for queues of any capacity, any set of     *)
(* keystrokes and registrations, and behaviours of any length.               *)
EXTENDS KeypadDriver, FiniteSetTheorems, SequenceTheorems, TLAPS

Stamped == [code : Codes, n : Nat]

\* s is a sequence of keystrokes in the order they were typed, all of them
\* after lo and none after hi.
Ordered(s, lo, hi) ==
    /\ s \in Seq(Stamped)
    /\ \A i \in 1 .. Len(s) : lo < s[i].n /\ s[i].n <= hi
    /\ \A i, j \in 1 .. Len(s) : i < j => s[i].n < s[j].n

\* Dropping keys at either end keeps the order.
LEMMA OrderedSubSeq ==
    ASSUME NEW s, NEW lo \in Nat, NEW hi \in Nat, Ordered(s, lo, hi),
           NEW m \in 1 .. Len(s) + 1
    PROVE  Ordered(SubSeq(s, m, Len(s)), lo, hi)
<1> DEFINE t == SubSeq(s, m, Len(s))
<1>1. s \in Seq(Stamped) /\ Len(s) \in Nat
  BY DEF Ordered
<1>2. t \in Seq(Stamped) /\ Len(t) = Len(s) - m + 1
  BY <1>1
<1>3. \A i \in 1 .. Len(t) : t[i] = s[m + i - 1] /\ m + i - 1 \in 1 .. Len(s)
  BY <1>1, <1>2
<1>4. \A i \in 1 .. Len(t) : lo < t[i].n /\ t[i].n <= hi
  BY <1>3 DEF Ordered
<1>5. \A i, j \in 1 .. Len(t) : i < j => t[i].n < t[j].n
  <2> HIDE DEF t
  <2> TAKE i, j \in 1 .. Len(t)
  <2> HAVE i < j
  <2>1. m + i - 1 < m + j - 1
    BY <1>1, <1>2
  <2> QED
    BY <1>3, <2>1 DEF Ordered
<1> QED
  BY <1>2, <1>4, <1>5 DEF Ordered

\* What a reader or a reset raises the bound to, the rest of the queue is above.
LEMMA OrderedTail ==
    ASSUME NEW s, NEW lo \in Nat, NEW hi \in Nat, Ordered(s, lo, hi), s # << >>
    PROVE  /\ Ordered(Tail(s), Head(s).n, hi)
           /\ Head(s).n \in Nat /\ lo < Head(s).n /\ Head(s).n <= hi
<1>1. s \in Seq(Stamped) /\ Len(s) \in Nat /\ Len(s) >= 1
  BY DEF Ordered
<1>2. Head(s) = s[1] /\ s[1] \in Stamped
  BY <1>1
<1>3. s[1].n \in Nat /\ lo < s[1].n /\ s[1].n <= hi
  BY <1>1, <1>2 DEF Ordered, Stamped
<1>4. Tail(s) \in Seq(Stamped) /\ Len(Tail(s)) = Len(s) - 1
  BY <1>1
<1>5. \A i \in 1 .. Len(Tail(s)) : Tail(s)[i] = s[i + 1] /\ i + 1 \in 1 .. Len(s)
  BY <1>1, <1>4
<1>6. \A i \in 1 .. Len(Tail(s)) : s[1].n < Tail(s)[i].n /\ Tail(s)[i].n <= hi
  <2> TAKE i \in 1 .. Len(Tail(s))
  <2>1. Tail(s)[i] = s[i + 1] /\ i + 1 \in 1 .. Len(s) /\ 1 < i + 1 /\ 1 \in 1 .. Len(s)
    BY <1>1, <1>4, <1>5
  <2> QED
    BY <2>1 DEF Ordered
<1>7. \A i, j \in 1 .. Len(Tail(s)) : i < j => Tail(s)[i].n < Tail(s)[j].n
  <2> TAKE i, j \in 1 .. Len(Tail(s))
  <2> HAVE i < j
  <2>1. i + 1 < j + 1
    BY <1>1, <1>4
  <2> QED
    BY <1>5, <2>1 DEF Ordered
<1> QED
  BY <1>2, <1>3, <1>4, <1>6, <1>7 DEF Ordered

\* A key typed now goes to the end.
LEMMA OrderedAppend ==
    ASSUME NEW s, NEW lo \in Nat, NEW hi \in Nat, Ordered(s, lo, hi), lo <= hi,
           NEW k \in Stamped, k.n = hi + 1
    PROVE  Ordered(Append(s, k), lo, hi + 1)
<1> DEFINE t == Append(s, k)
<1>1. s \in Seq(Stamped) /\ Len(s) \in Nat
  BY DEF Ordered
<1>2. t \in Seq(Stamped) /\ Len(t) = Len(s) + 1
  BY <1>1
<1>3. \A i \in 1 .. Len(t) : t[i] = IF i = Len(s) + 1 THEN k ELSE s[i]
  BY <1>1, <1>2
<1>4. \A i \in 1 .. Len(s) : s[i].n \in Nat
  <2>1. \A i \in 1 .. Len(s) : s[i] \in Stamped
    BY <1>1
  <2> QED
    BY <2>1 DEF Stamped
<1>5. \A i \in 1 .. Len(t) : lo < t[i].n /\ t[i].n <= hi + 1
  <2> HIDE DEF t
  <2> QED
    BY <1>1, <1>2, <1>3, <1>4 DEF Ordered
<1>6. \A i, j \in 1 .. Len(t) : i < j => t[i].n < t[j].n
  <2> HIDE DEF t
  <2> TAKE i, j \in 1 .. Len(t)
  <2> HAVE i < j
  <2>1. i \in 1 .. Len(s) /\ t[i] = s[i]
    BY <1>1, <1>2, <1>3
  <2>2. CASE j = Len(s) + 1
    BY <1>3, <1>4, <2>1, <2>2 DEF Ordered
  <2>3. CASE j # Len(s) + 1
    BY <1>1, <1>2, <1>3, <2>1, <2>3 DEF Ordered
  <2> QED
    BY <2>2, <2>3
<1> QED
  BY <1>2, <1>5, <1>6 DEF Ordered

\* The queue keeps the newest keys.
LEMMA OrderedKept ==
    ASSUME NEW s, NEW lo \in Nat, NEW hi \in Nat, Ordered(s, lo, hi)
    PROVE  Ordered(Fifo!Kept(s), lo, hi)
<1>1. CASE Len(s) <= Capacity
  BY <1>1 DEF Fifo!Kept
<1>2. CASE ~(Len(s) <= Capacity)
  <2>1. Len(s) \in Nat /\ Capacity \in Nat
    BY CapacityAssumption DEF Ordered
  <2>2. Len(s) - Capacity + 1 \in 1 .. Len(s) + 1
    BY <1>2, <2>1
  <2> QED
    BY <1>2, <2>2, OrderedSubSeq DEF Fifo!Kept
<1> QED
  BY <1>1, <1>2

LEMMA OrderedEmpty ==
    ASSUME NEW lo \in Nat, NEW hi \in Nat
    PROVE  Ordered(<< >>, lo, hi)
BY DEF Ordered

\* A lower bound may be lowered.
LEMMA OrderedWeaken ==
    ASSUME NEW s, NEW lo \in Nat, NEW hi \in Nat, NEW lower \in Nat,
           Ordered(s, lo, hi), lower <= lo
    PROVE  Ordered(s, lower, hi)
<1>1. s \in Seq(Stamped)
  BY DEF Ordered
<1>2. \A i \in 1 .. Len(s) : s[i] \in Stamped
  BY <1>1
<1>3. \A i \in 1 .. Len(s) : s[i].n \in Nat
  BY <1>2 DEF Stamped
<1> QED
  BY <1>3 DEF Ordered

-----------------------------------------------------------------------------
(* Readers see every key once and in order.                                  *)

OrderInv ==
    /\ serial \in Nat /\ lastRead \in 0 .. serial /\ floor \in 0 .. serial
    /\ Ordered(efiKeyQueue, lastRead, serial)
    /\ Ordered(efiKeyQueue, floor, serial)

\* A scan adds its key at the end of the queue of the readers.
LEMMA ScannedOrdered ==
    ASSUME OrderInv, NEW code \in Codes \cup {"none"}, NotifyScanned(code)
    PROVE  /\ serial' \in Nat /\ serial <= serial'
           /\ Ordered(Scanned(code), lastRead, serial')
           /\ Ordered(Scanned(code), floor, serial')
<1>1. CASE ReportsNothing(code)
  BY <1>1 DEF OrderInv, NotifyScanned, Scanned
<1>2. CASE ~ReportsNothing(code)
  <2> DEFINE k == [code |-> code, n |-> serial + 1]
  <2>1. k \in Stamped /\ k.n = serial + 1
    BY <1>2 DEF ReportsNothing, Stamped, OrderInv
  <2>2. serial' = serial + 1 /\ Scanned(code) = Fifo!Kept(Append(efiKeyQueue, k))
    BY <1>2 DEF NotifyScanned, Scanned
  <2>3. serial' \in Nat /\ serial <= serial'
    BY <2>2 DEF OrderInv
  <2> HIDE DEF k
  <2>4. Ordered(Append(efiKeyQueue, k), lastRead, serial')
    BY <2>1, <2>2, OrderedAppend DEF OrderInv
  <2>5. Ordered(Append(efiKeyQueue, k), floor, serial')
    BY <2>1, <2>2, OrderedAppend DEF OrderInv
  <2>6. lastRead \in Nat /\ floor \in Nat
    BY DEF OrderInv
  <2> QED
    BY <2>2, <2>3, <2>4, <2>5, <2>6, OrderedKept
<1> QED
  BY <1>1, <1>2

\* A read takes the oldest key and leaves the younger ones.
LEMMA PopOrdered ==
    ASSUME OrderInv, NEW key \in Poppable, WorkerPops(key), UNCHANGED floor
    PROVE  OrderInv' /\ lastRead < lastRead'
<1>1. PICK code \in Codes \cup {"none"} :
          /\ NotifyScanned(code)
          /\ Scanned(code) # << >>
          /\ key = Head(Scanned(code))
          /\ efiKeyQueue' = Tail(Scanned(code))
          /\ lastRead' = key.n
  BY DEF WorkerPops
<1>2. /\ serial' \in Nat /\ serial <= serial'
      /\ Ordered(Scanned(code), lastRead, serial')
      /\ Ordered(Scanned(code), floor, serial')
  BY <1>1, ScannedOrdered
<1>3. lastRead \in Nat /\ floor \in Nat /\ floor <= serial /\ serial \in Nat
  BY DEF OrderInv
<1>4. /\ Ordered(efiKeyQueue', key.n, serial')
      /\ key.n \in Nat /\ lastRead < key.n /\ floor < key.n /\ key.n <= serial'
  BY <1>1, <1>2, <1>3, OrderedTail
<1>5. Ordered(efiKeyQueue', floor, serial')
  BY <1>2, <1>3, <1>4, OrderedWeaken
<1>6. OrderInv' <=> /\ serial' \in Nat /\ lastRead' \in 0 .. serial' /\ floor' \in 0 .. serial'
                    /\ Ordered(efiKeyQueue', lastRead', serial')
                    /\ Ordered(efiKeyQueue', floor', serial')
  BY DEF OrderInv, Ordered
<1> QED
  BY <1>1, <1>2, <1>3, <1>4, <1>5, <1>6

LEMMA OrderInvStep == OrderInv /\ [Next]_vars => OrderInv'
<1> SUFFICES ASSUME OrderInv, [Next]_vars PROVE OrderInv'
  OBVIOUS
<1>0. OrderInv' <=> /\ serial' \in Nat /\ lastRead' \in 0 .. serial' /\ floor' \in 0 .. serial'
                    /\ Ordered(efiKeyQueue', lastRead', serial')
                    /\ Ordered(efiKeyQueue', floor', serial')
  BY DEF OrderInv, Ordered
<1>1. /\ serial \in Nat /\ lastRead \in Nat /\ floor \in Nat
      /\ lastRead <= serial /\ floor <= serial
  BY DEF OrderInv
<1>2. CASE TimerTick
  <2>1. PICK code \in Codes : NotifyScanned(code) /\ efiKeyQueue' = Scanned(code)
    BY <1>2 DEF TimerTick
  <2> QED
    BY <1>0, <1>1, <1>2, <2>1, ScannedOrdered DEF TimerTick
<1>3. CASE ReadKeyStrokeEx \/ ReadKeyStrokeReturns \/ ReadKeyStrokeSkips
  <2>1. PICK key \in Poppable : WorkerPops(key)
    BY <1>3 DEF ReadKeyStrokeEx, ReadKeyStrokeReturns, ReadKeyStrokeSkips
  <2>2. UNCHANGED floor
    BY <1>3 DEF ReadKeyStrokeEx, ReadKeyStrokeReturns, ReadKeyStrokeSkips
  <2> QED
    BY <2>1, <2>2, PopOrdered
<1>4. CASE ReadKeyStrokeNotReady
  <2>1. PICK code \in Codes \cup {"none"} : NotifyScanned(code) /\ Scanned(code) = << >>
    BY <1>4 DEF ReadKeyStrokeNotReady, WorkerFindsNone
  <2>2. UNCHANGED <<efiKeyQueue, lastRead, floor>>
    BY <1>4 DEF ReadKeyStrokeNotReady, WorkerFindsNone
  <2>3. serial' \in Nat /\ serial <= serial'
    BY <2>1, ScannedOrdered
  <2>4. \A lo \in Nat : Ordered(efiKeyQueue, lo, serial) => Ordered(efiKeyQueue, lo, serial')
    <3> SUFFICES ASSUME NEW lo \in Nat, Ordered(efiKeyQueue, lo, serial)
                 PROVE  Ordered(efiKeyQueue, lo, serial')
      OBVIOUS
    <3>1. \A i \in 1 .. Len(efiKeyQueue) : efiKeyQueue[i] \in Stamped
      BY DEF Ordered
    <3>2. \A i \in 1 .. Len(efiKeyQueue) : efiKeyQueue[i].n \in Nat
      BY <3>1 DEF Stamped
    <3> QED
      BY <1>1, <2>3, <3>2 DEF Ordered
  <2> QED
    BY <1>0, <1>1, <2>2, <2>3, <2>4 DEF OrderInv
<1>5. CASE WaitForKey
  <2>1. PICK code \in Codes \cup {"none"} :
            /\ NotifyScanned(code)
            /\ \E i \in 1 .. Len(Scanned(code)) + 1 :
                  efiKeyQueue' = SubSeq(Scanned(code), i, Len(Scanned(code)))
    BY <1>5 DEF WaitForKey
  <2>2. UNCHANGED <<lastRead, floor>>
    BY <1>5 DEF WaitForKey
  <2> QED
    BY <1>0, <1>1, <2>1, <2>2, ScannedOrdered, OrderedSubSeq
<1>6. CASE Reset
  BY <1>0, <1>1, <1>6, OrderedEmpty DEF Reset
<1>7. CASE SetState \/ RegisterKeyNotify \/ UnregisterKeyNotify
  BY <1>0, <1>7 DEF SetState, RegisterKeyNotify, UnregisterKeyNotify, queues, OrderInv
<1>8. CASE Handler
  BY <1>0, <1>8 DEF Handler, Dispatch, PopNotify, HandlerReturns, WalkNode, WalkEnds,
     queues, OrderInv
<1>9. CASE UNCHANGED vars
  BY <1>0, <1>9 DEF vars, queues, OrderInv
<1> QED
  BY <1>2, <1>3, <1>4, <1>5, <1>6, <1>7, <1>8, <1>9 DEF Next, Application

\* Through ticks, reads, polls, resets and overflows a reader gets the keys in
\* the order they were typed, each at most once, and none from before a reset.
THEOREM ReadsInOrderHolds == Spec => []ReadsInOrder
<1>1. Init => OrderInv
  BY OrderedEmpty DEF Init, OrderInv
<1>2. OrderInv => ReadsInOrder
  <2> SUFFICES ASSUME OrderInv PROVE ReadsInOrder
    OBVIOUS
  <2>1. DOMAIN efiKeyQueue = 1 .. Len(efiKeyQueue)
    BY DEF OrderInv, Ordered
  <2>2. \A i \in 1 .. Len(efiKeyQueue) : efiKeyQueue[i] \in Stamped
    BY DEF OrderInv, Ordered
  <2>3. \A i \in 1 .. Len(efiKeyQueue) : efiKeyQueue[i].n \in Nat
    BY <2>2 DEF Stamped
  <2> QED
    BY <2>1, <2>3 DEF OrderInv, Ordered, ReadsInOrder
<1> QED
  BY <1>1, <1>2, OrderInvStep, PTL DEF Spec

-----------------------------------------------------------------------------
(* No notification is forgotten.                                             *)

\* The handler's state is a record, so that its pc can be changed.
WakeupInv ==
    /\ walk = [pc |-> walk.pc, key |-> walk.key, node |-> walk.node]
    /\ NoLostWakeup

\* The key a scan that reports code types, the nodes it matches, and the
\* notify queue when it was pushed for each of them.
Typed(code) == [code |-> code, n |-> serial + 1]

Matching(code) == {j \in DOMAIN notifyList : Matches(notifyList[j], Typed(code))}

Copies(code) == [i \in 1 .. Cardinality(Matching(code)) |-> Typed(code)]

\* What a scan that reports a key does to the notify queue.
LEMMA ScanPushes ==
    ASSUME NEW code, NotifyScanned(code), ~ReportsNothing(code)
    PROVE  /\ serial < MaxSerial /\ serial' = serial + 1
           /\ notifyQueue' = Fifo!Kept(notifyQueue \o Copies(code))
           /\ signaled' = (signaled \/ Matching(code) # {})
           /\ owed' = {o \in owed \cup {<<notifyList[j].handle, serial + 1>> : j \in Matching(code)} :
                          o[2] \notin Numbers(notifyQueue \o Copies(code)) \ Numbers(notifyQueue')}
BY DEF NotifyScanned, Typed, Matching, Copies

\* A scan that leaves a key to notify either signals the event or found one
\* there already.
\* A scan that leaves a key to notify either signals the event or found one
\* there already.
LEMMA ScanSignals ==
    ASSUME NEW code, NotifyScanned(code), notifyQueue' # << >>
    PROVE  signaled' \/ (notifyQueue # << >> /\ (signaled => signaled'))
<1>1. CASE ReportsNothing(code)
  BY <1>1 DEF NotifyScanned
<1>2. CASE ~ReportsNothing(code)
  <2>1. /\ notifyQueue' = Fifo!Kept(notifyQueue \o Copies(code))
        /\ signaled' = (signaled \/ Matching(code) # {})
    BY <1>2, ScanPushes
  <2>2. CASE Matching(code) # {}
    BY <2>1, <2>2
  <2>3. CASE Matching(code) = {} /\ notifyQueue = << >>
    <3>1. Cardinality(Matching(code)) = 0
      BY <2>3, FS_EmptySet
    <3>2. Copies(code) = << >>
      BY <3>1 DEF Copies
    <3>3. notifyQueue \o Copies(code) = << >>
      BY <2>3, <3>2
    <3>4. Fifo!Kept(<< >>) = << >>
      BY CapacityAssumption DEF Fifo!Kept
    <3> QED
      BY <2>1, <3>3, <3>4
  <2>4. CASE Matching(code) = {} /\ notifyQueue # << >>
    BY <2>1, <2>4
  <2> QED
    BY <2>2, <2>3, <2>4
<1> QED
  BY <1>1, <1>2

LEMMA WakeupInvStep == WakeupInv /\ [Next]_vars => WakeupInv'
<1> SUFFICES ASSUME WakeupInv, [Next]_vars PROVE WakeupInv'
  OBVIOUS
<1>0. walk = [pc |-> walk.pc, key |-> walk.key, node |-> walk.node]
  BY DEF WakeupInv
<1>1. ASSUME NEW code, NotifyScanned(code), UNCHANGED walk PROVE WakeupInv'
  BY <1>0, <1>1, ScanSignals DEF WakeupInv, NoLostWakeup
<1>2. CASE TimerTick
  BY <1>1, <1>2 DEF TimerTick
<1>3. CASE ReadKeyStrokeEx \/ ReadKeyStrokeReturns \/ ReadKeyStrokeSkips
  <2>1. PICK code : NotifyScanned(code)
    BY <1>3 DEF ReadKeyStrokeEx, ReadKeyStrokeReturns, ReadKeyStrokeSkips, WorkerPops
  <2>2. UNCHANGED walk
    BY <1>3 DEF ReadKeyStrokeEx, ReadKeyStrokeReturns, ReadKeyStrokeSkips
  <2> QED
    BY <1>1, <2>1, <2>2
<1>4. CASE ReadKeyStrokeNotReady \/ WaitForKey
  <2>1. PICK code : NotifyScanned(code)
    BY <1>4 DEF ReadKeyStrokeNotReady, WorkerFindsNone, WaitForKey
  <2>2. UNCHANGED walk
    BY <1>4 DEF ReadKeyStrokeNotReady, WaitForKey
  <2> QED
    BY <1>1, <2>1, <2>2
<1>5. CASE Reset \/ SetState \/ RegisterKeyNotify \/ UnregisterKeyNotify
  BY <1>0, <1>5 DEF Reset, SetState, RegisterKeyNotify, UnregisterKeyNotify, queues,
     WakeupInv, NoLostWakeup
<1>6. CASE Dispatch \/ PopNotify
  BY <1>0, <1>6 DEF Dispatch, PopNotify, WakeupInv, NoLostWakeup
<1>7. CASE HandlerReturns
  BY <1>7 DEF HandlerReturns, NoWalk, queues, WakeupInv, NoLostWakeup
<1>8. CASE WalkNode \/ WalkEnds
  BY <1>0, <1>8 DEF WalkNode, WalkEnds, queues, WakeupInv, NoLostWakeup
<1>9. CASE UNCHANGED vars
  BY <1>9 DEF vars, queues, WakeupInv, NoLostWakeup
<1> QED
  BY <1>2, <1>3, <1>4, <1>5, <1>6, <1>7, <1>8, <1>9 DEF Next, Application, Handler

\* Whatever a tick, a poll, a reset or the handler itself does in between, a
\* key that waits for its notification has a signalled event or a running
\* handler ahead of it.
THEOREM NoLostWakeupHolds == Spec => []NoLostWakeup
<1>1. Init => WakeupInv
  BY DEF Init, NoWalk, WakeupInv, NoLostWakeup
<1>2. WakeupInv => NoLostWakeup
  BY DEF WakeupInv
<1> QED
  BY <1>1, <1>2, WakeupInvStep, PTL DEF Spec

-----------------------------------------------------------------------------
(* Everybody a key was promised to gets it.                                  *)

Entry == {[handle |-> h, code |-> r.code, shift |-> r.shift, fn |-> r.fn] :
             h \in Nat, r \in Requests}

\* Some node of the list from the given one on has handle h and matches key.
ListedFrom(node, h, key) ==
    \E j \in 1 .. Len(notifyList) :
        j >= node /\ notifyList[j].handle = h /\ Matches(notifyList[j], key)

\* A call that is owed for key n of the notify queue or of the walk.
Queued(h, n) ==
    \E i \in 1 .. Len(notifyQueue) :
        notifyQueue[i].n = n /\ ListedFrom(1, h, notifyQueue[i])

Walking(h, n) ==
    walk.pc = "walk" /\ walk.key.n = n /\ ListedFrom(walk.node, h, walk.key)

ListInv ==
    /\ notifyList \in Seq(Entry)
    /\ handles \in 0 .. MaxHandles
    /\ \A i \in 1 .. Len(notifyList) : notifyList[i].handle \in 1 .. handles

\* Copies of a key carry its number, and no other key does.
QueueInv ==
    /\ serial \in 0 .. MaxSerial
    /\ notifyQueue \in Seq(Stamped) /\ Len(notifyQueue) <= Capacity
    /\ \A i \in 1 .. Len(notifyQueue) : notifyQueue[i].n \in 1 .. serial
    /\ \A i, j \in 1 .. Len(notifyQueue) :
          notifyQueue[i].n = notifyQueue[j].n => notifyQueue[i] = notifyQueue[j]

WalkInv ==
    /\ walk = [pc |-> walk.pc, key |-> walk.key, node |-> walk.node]
    /\ walk.pc \in {"idle", "pop", "walk"}
    /\ walk.node \in Nat /\ (walk.pc = "walk" => walk.node >= 1)

\* A call owed was made, or its key waits, or the walk has yet to come to its
\* node.
OwedInv ==
    \A h \in Nat, n \in Nat :
        <<h, n>> \in owed => <<h, n>> \in calls \/ Queued(h, n) \/ Walking(h, n)

ReaderInv ==
    /\ OrderInv
    /\ Len(efiKeyQueue) <= Capacity
    /\ PromiseKept

FlagInv ==
    /\ partialKeys \in BOOLEAN /\ signaled \in BOOLEAN /\ reading \in BOOLEAN
    /\ promised \in BOOLEAN

DeliverInv ==
    /\ FlagInv /\ ListInv /\ QueueInv /\ WalkInv /\ ReaderInv
    /\ owed \subseteq Nat \X Nat /\ OwedInv /\ NoLostWakeup


\* A node of the list is a registration: a handle and what was asked for.
LEMMA EntryFields ==
    ASSUME NEW e \in Entry
    PROVE  /\ e = [handle |-> e.handle, code |-> e.code, shift |-> e.shift, fn |-> e.fn]
           /\ e.handle \in Nat
           /\ [code |-> e.code, shift |-> e.shift, fn |-> e.fn] \in Requests
<1>1. PICK h \in Nat, r \in Requests :
          e = [handle |-> h, code |-> r.code, shift |-> r.shift, fn |-> r.fn]
  BY DEF Entry
<1>2. r = [code |-> r.code, shift |-> r.shift, fn |-> r.fn]
  BY RequestsAssumption
<1>3. [code |-> e.code, shift |-> e.shift, fn |-> e.fn]
      = [code |-> r.code, shift |-> r.shift, fn |-> r.fn]
  BY <1>1
<1> QED
  BY <1>1, <1>2, <1>3

LEMMA MatchingFinite ==
    ASSUME NEW code, notifyList \in Seq(Entry)
    PROVE  /\ Matching(code) \subseteq 1 .. Len(notifyList)
           /\ IsFiniteSet(Matching(code))
           /\ Cardinality(Matching(code)) \in Nat
           /\ Cardinality(Matching(code)) = 0 <=> Matching(code) = {}
<1>1. Len(notifyList) \in Nat /\ DOMAIN notifyList = 1 .. Len(notifyList)
  OBVIOUS
<1>2. Matching(code) \subseteq 1 .. Len(notifyList)
  BY <1>1 DEF Matching
<1>3. IsFiniteSet(1 .. Len(notifyList))
  BY <1>1, FS_Interval
<1>4. IsFiniteSet(Matching(code))
  BY <1>2, <1>3, FS_Subset
<1> QED
  BY <1>2, <1>4, FS_CardinalityType, FS_EmptySet

\* Pushing the copies: the keys that waited stay where they were, and what
\* follows them is the key just typed, at least once when a node matches it.
LEMMA CopiesPushed ==
    ASSUME NEW code \in Codes, notifyList \in Seq(Entry), notifyQueue \in Seq(Stamped),
           serial \in Nat
    PROVE  LET all == notifyQueue \o Copies(code) IN
           /\ all \in Seq(Stamped)
           /\ Len(all) = Len(notifyQueue) + Cardinality(Matching(code))
           /\ \A i \in 1 .. Len(notifyQueue) : i \in 1 .. Len(all) /\ all[i] = notifyQueue[i]
           /\ \A i \in 1 .. Len(all) : i > Len(notifyQueue) => all[i] = Typed(code)
           /\ Matching(code) # {} =>
                Len(notifyQueue) + 1 \in 1 .. Len(all) /\ all[Len(notifyQueue) + 1] = Typed(code)
<1> DEFINE c == Cardinality(Matching(code))
           q == notifyQueue
           w == Copies(code)
           all == q \o w
<1>1. c \in Nat /\ (c = 0 <=> Matching(code) = {})
  BY MatchingFinite
<1>2. Typed(code) \in Stamped
  BY DEF Typed, Stamped
<1>3. /\ w \in Seq(Stamped) /\ Len(w) = c
      /\ \A i \in 1 .. c : w[i] = Typed(code)
  BY <1>1, <1>2 DEF Copies
<1>4. q \in Seq(Stamped) /\ Len(q) \in Nat
  OBVIOUS
<1> HIDE DEF c, q, w
<1>5. /\ all \in Seq(Stamped) /\ Len(all) = Len(q) + c
      /\ \A i \in 1 .. Len(all) : all[i] = IF i <= Len(q) THEN q[i] ELSE w[i - Len(q)]
  <2>1. all \in Seq(Stamped) /\ Len(all) = Len(q) + Len(w)
    BY <1>3, <1>4, ConcatProperties
  <2>2. \A i \in 1 .. Len(q) + Len(w) : all[i] = IF i <= Len(q) THEN q[i] ELSE w[i - Len(q)]
    BY <1>3, <1>4, ConcatProperties
  <2> QED
    BY <1>3, <2>1, <2>2
<1> HIDE DEF all
<1>6. \A i \in 1 .. Len(q) : i \in 1 .. Len(all) /\ all[i] = q[i]
  BY <1>1, <1>4, <1>5
<1>7. ASSUME NEW i \in 1 .. Len(all), i > Len(q) PROVE all[i] = Typed(code)
  BY <1>1, <1>3, <1>4, <1>5, <1>7
<1>8. ASSUME Matching(code) # {} PROVE Len(q) + 1 \in 1 .. Len(all)
  BY <1>1, <1>4, <1>5, <1>8
<1>9. Matching(code) # {} => Len(q) + 1 \in 1 .. Len(all) /\ all[Len(q) + 1] = Typed(code)
  BY <1>4, <1>7, <1>8
<1> QED
  BY <1>5, <1>6, <1>7, <1>9 DEF all, q, w, c

\* What is kept are the last keys, at most Capacity of them.
LEMMA KeptKeys ==
    ASSUME NEW S, NEW s \in Seq(S)
    PROVE  /\ Fifo!Kept(s) \in Seq(S)
           /\ Len(Fifo!Kept(s)) <= Capacity
           /\ Len(Fifo!Kept(s)) = Len(s) \/ Len(Fifo!Kept(s)) = Capacity
           /\ Len(s) <= Capacity => Fifo!Kept(s) = s
           /\ \A i \in 1 .. Len(Fifo!Kept(s)) :
                \E k \in 1 .. Len(s) : Fifo!Kept(s)[i] = s[k]
<1>1. Len(s) \in Nat /\ Capacity \in Nat /\ Capacity >= 1
  BY CapacityAssumption
<1>2. CASE Len(s) <= Capacity
  BY <1>1, <1>2 DEF Fifo!Kept
<1>3. CASE ~(Len(s) <= Capacity)
  <2> DEFINE m == Len(s) - Capacity + 1
             t == SubSeq(s, m, Len(s))
  <2>1. m \in 1 .. Len(s)
    BY <1>1, <1>3
  <2>2. t \in Seq(S) /\ Len(t) = Len(s) - m + 1
    BY <1>1, <2>1
  <2>3. \A i \in 1 .. Len(t) : t[i] = s[m + i - 1] /\ m + i - 1 \in 1 .. Len(s)
    BY <1>1, <2>1, <2>2
  <2>4. Len(t) = Capacity
    BY <1>1, <2>2
  <2>5. Fifo!Kept(s) = t
    BY <1>3 DEF Fifo!Kept
  <2>6. \A i \in 1 .. Len(t) : \E k \in 1 .. Len(s) : t[i] = s[k]
    <3> HIDE DEF t, m
    <3> QED
      BY <2>3
  <2> HIDE DEF t, m
  <2> QED
    BY <1>1, <1>3, <2>2, <2>4, <2>5, <2>6
<1> QED
  BY <1>2, <1>3


LEMMA NumbersOf ==
    ASSUME NEW S, NEW s \in Seq(S), NEW n
    PROVE  n \in Numbers(s) <=> \E i \in 1 .. Len(s) : s[i].n = n
<1>1. DOMAIN s = 1 .. Len(s)
  OBVIOUS
<1> QED
  BY <1>1 DEF Numbers, RangeOf

\* A scan keeps the copies of one key alike, and keeps every promise: a call
\* that was owed is, or its key is still in the queue.
LEMMA ScanDelivers ==
    ASSUME ListInv, QueueInv, OwedInv, owed \subseteq Nat \X Nat,
           NEW code \in Codes \cup {"none"}, NotifyScanned(code),
           UNCHANGED <<notifyList, walk, calls>>
    PROVE  QueueInv' /\ OwedInv' /\ owed' \subseteq Nat \X Nat
<1>1. CASE ReportsNothing(code)
  <2>1. UNCHANGED <<notifyQueue, serial, owed, notifyList, walk, calls>>
    BY <1>1 DEF NotifyScanned
  <2> QED
    BY <2>1 DEF QueueInv, OwedInv, Queued, Walking, ListedFrom
<1>2. CASE ~ReportsNothing(code)
  <2> DEFINE q == notifyQueue
             all == q \o Copies(code)
             key == Typed(code)
             kept == Fifo!Kept(all)
             now == {<<notifyList[j].handle, serial + 1>> : j \in Matching(code)}
  <2>1. /\ serial < MaxSerial /\ serial' = serial + 1
        /\ notifyQueue' = kept
        /\ owed' = {o \in owed \cup now : o[2] \notin Numbers(all) \ Numbers(kept)}
    BY <1>2, ScanPushes
  <2>2. /\ code \in Codes /\ notifyList \in Seq(Entry) /\ q \in Seq(Stamped)
        /\ serial \in Nat /\ MaxSerial \in Nat /\ serial <= MaxSerial
    BY <1>2, BoundsAssumption DEF ReportsNothing, ListInv, QueueInv
  <2>3. /\ all \in Seq(Stamped)
        /\ \A i \in 1 .. Len(q) : i \in 1 .. Len(all) /\ all[i] = q[i]
        /\ \A i \in 1 .. Len(all) : i > Len(q) => all[i] = key
        /\ Matching(code) # {} => Len(q) + 1 \in 1 .. Len(all) /\ all[Len(q) + 1] = key
    BY <2>2, CopiesPushed
  <2>4. /\ kept \in Seq(Stamped) /\ Len(kept) <= Capacity
        /\ \A i \in 1 .. Len(kept) : \E k \in 1 .. Len(all) : kept[i] = all[k]
    BY <2>3, KeptKeys
  <2>5. /\ key.n = serial + 1
        /\ Len(q) \in Nat /\ Len(all) \in Nat
    BY <2>2, <2>3 DEF Typed
  <2>6. /\ \A i \in 1 .. Len(q) : q[i].n \in 1 .. serial
        /\ \A i, j \in 1 .. Len(q) : q[i].n = q[j].n => q[i] = q[j]
    BY DEF QueueInv
  <2>7. \A n : n \in Numbers(all) <=> \E i \in 1 .. Len(all) : all[i].n = n
    BY <2>3, NumbersOf
  <2>8. \A n : n \in Numbers(kept) <=> \E i \in 1 .. Len(kept) : kept[i].n = n
    BY <2>4, NumbersOf
  <2>9. \A h, n : Queued(h, n) => \E i \in 1 .. Len(q) : q[i].n = n /\ ListedFrom(1, h, q[i])
    BY DEF Queued
  <2>10. \A h, n : (\E i \in 1 .. Len(kept) : kept[i].n = n /\ ListedFrom(1, h, kept[i]))
                   => Queued(h, n)'
    BY <2>1 DEF Queued, ListedFrom
  <2>11. \A h, n : Walking(h, n) => Walking(h, n)'
    BY DEF Walking, ListedFrom
  <2>12. ASSUME NEW j \in Matching(code) PROVE ListedFrom(1, notifyList[j].handle, key)
    <3>1. j \in 1 .. Len(notifyList) /\ Matches(notifyList[j], key)
      BY <2>2 DEF Matching
    <3>2. j >= 1
      BY <2>2, <3>1
    <3> QED
      BY <3>1, <3>2 DEF ListedFrom
  <2>13. ASSUME NEW j \in Matching(code) PROVE notifyList[j].handle \in Nat
    <3>1. j \in 1 .. Len(notifyList)
      BY <2>2 DEF Matching
    <3>2. notifyList[j] \in Entry
      BY <2>2, <3>1
    <3> QED
      BY <3>2, EntryFields
  <2> HIDE DEF q, all, key, kept
  <2>14. \A i \in 1 .. Len(all) : i \in 1 .. Len(q) \/ all[i] = key
    BY <2>3, <2>5
  <2>15. \A i \in 1 .. Len(all) : all[i].n \in 1 .. serial + 1
    BY <2>2, <2>3, <2>5, <2>6, <2>14
  <2>16. ASSUME NEW i \in 1 .. Len(all), NEW j \in 1 .. Len(all), all[i].n = all[j].n
         PROVE  all[i] = all[j]
    <3>1. CASE i \in 1 .. Len(q) /\ j \in 1 .. Len(q)
      BY <2>3, <2>6, <2>16, <3>1
    <3>2. CASE i \in 1 .. Len(q) /\ all[j] = key
      BY <2>2, <2>3, <2>5, <2>6, <2>16, <3>2
    <3>3. CASE all[i] = key /\ j \in 1 .. Len(q)
      BY <2>2, <2>3, <2>5, <2>6, <2>16, <3>3
    <3>4. CASE all[i] = key /\ all[j] = key
      BY <3>4
    <3> QED
      BY <2>14, <3>1, <3>2, <3>3, <3>4
  <2>17. QueueInv'
    <3>1. \A i \in 1 .. Len(kept) : kept[i].n \in 1 .. serial + 1
      BY <2>4, <2>15
    <3>2. \A i, j \in 1 .. Len(kept) : kept[i].n = kept[j].n => kept[i] = kept[j]
      BY <2>4, <2>16
    <3>3. serial + 1 \in 0 .. MaxSerial
      BY <2>1, <2>2
    <3> QED
      BY <2>1, <2>4, <3>1, <3>2, <3>3 DEF QueueInv
  <2>18. owed' \subseteq Nat \X Nat
    <3>1. now \subseteq Nat \X Nat
      BY <2>2, <2>13
    <3> QED
      BY <2>1, <3>1
  <2>19. ASSUME NEW h \in Nat, NEW n \in Nat, <<h, n>> \in owed'
         PROVE  <<h, n>> \in calls' \/ Queued(h, n)' \/ Walking(h, n)'
    <3>1. /\ <<h, n>> \in owed \/ <<h, n>> \in now
          /\ n \notin Numbers(all) \ Numbers(kept)
      BY <2>1, <2>19
    <3>2. ASSUME NEW k \in 1 .. Len(all), all[k].n = n, ListedFrom(1, h, all[k])
          PROVE  Queued(h, n)'
      <4>1. n \in Numbers(kept)
        BY <2>7, <3>1, <3>2
      <4>2. PICK i \in 1 .. Len(kept) : kept[i].n = n
        BY <2>8, <4>1
      <4>3. PICK m \in 1 .. Len(all) : kept[i] = all[m]
        BY <2>4
      <4>4. all[m] = all[k]
        BY <2>16, <3>2, <4>2, <4>3
      <4>5. ListedFrom(1, h, kept[i])
        BY <3>2, <4>3, <4>4
      <4> QED
        BY <2>10, <4>2, <4>5
    <3>3. CASE <<h, n>> \in owed
      <4>1. <<h, n>> \in calls \/ Queued(h, n) \/ Walking(h, n)
        BY <3>3 DEF OwedInv
      <4>2. ASSUME Queued(h, n) PROVE Queued(h, n)'
        <5>1. PICK i \in 1 .. Len(q) : q[i].n = n /\ ListedFrom(1, h, q[i])
          BY <2>9, <4>2
        <5>2. i \in 1 .. Len(all) /\ all[i] = q[i]
          BY <2>3
        <5> QED
          BY <3>2, <5>1, <5>2
      <4> QED
        BY <2>11, <4>1, <4>2
    <3>4. CASE <<h, n>> \in now
      <4>1. PICK j \in Matching(code) : h = notifyList[j].handle /\ n = serial + 1
        BY <3>4
      <4>2. Len(q) + 1 \in 1 .. Len(all) /\ all[Len(q) + 1] = key
        BY <2>3
      <4>3. ListedFrom(1, h, all[Len(q) + 1]) /\ all[Len(q) + 1].n = n
        BY <2>5, <2>12, <4>1, <4>2
      <4> QED
        BY <3>2, <4>2, <4>3
    <3> QED
      BY <3>1, <3>3, <3>4
  <2> QED
    BY <2>17, <2>18, <2>19 DEF OwedInv
<1> QED
  BY <1>1, <1>2

\* A scan leaves the queue of the readers within its capacity, and what a
\* reader was promised in it, or full.
LEMMA ScannedPromise ==
    ASSUME ReaderInv, NEW code \in Codes \cup {"none"}, NotifyScanned(code)
    PROVE  LET s == Scanned(code) IN
           /\ s \in Seq(Stamped) /\ Len(s) <= Capacity
           /\ promised => (\E i \in 1 .. Len(s) : ~IsPartial(s[i])) \/ Len(s) = Capacity
<1> DEFINE q == efiKeyQueue
           k == [code |-> code, n |-> serial + 1]
<1>1. /\ q \in Seq(Stamped) /\ Len(q) \in Nat /\ Len(q) <= Capacity
      /\ serial \in Nat /\ Capacity \in Nat
      /\ promised => (\E i \in 1 .. Len(q) : ~IsPartial(q[i])) \/ Len(q) = Capacity
  <2>1. q \in Seq(Stamped) /\ serial \in Nat /\ Len(q) <= Capacity
    BY DEF ReaderInv, OrderInv, Ordered
  <2>2. DOMAIN q = 1 .. Len(q)
    BY <2>1
  <2>3. promised => (\E i \in 1 .. Len(q) : ~IsPartial(q[i])) \/ Len(q) = Capacity
    BY <2>2 DEF ReaderInv, PromiseKept
  <2>4. Len(q) \in Nat /\ Capacity \in Nat
    BY <2>1, CapacityAssumption
  <2> QED
    BY <2>1, <2>3, <2>4
<1>2. CASE ReportsNothing(code)
  BY <1>1, <1>2 DEF Scanned
<1>3. CASE ~ReportsNothing(code)
  <2>1. k \in Stamped
    BY <1>1, <1>3 DEF ReportsNothing, Stamped
  <2>2. Scanned(code) = Fifo!Kept(Append(q, k))
    BY <1>3 DEF Scanned
  <2> HIDE DEF q, k
  <2> DEFINE t == Append(q, k)
  <2>3. t \in Seq(Stamped) /\ Len(t) = Len(q) + 1 /\ \A i \in 1 .. Len(q) : t[i] = q[i]
    BY <1>1, <2>1
  <2> HIDE DEF t
  <2>4. /\ Fifo!Kept(t) \in Seq(Stamped) /\ Len(Fifo!Kept(t)) <= Capacity
        /\ Len(Fifo!Kept(t)) = Len(t) \/ Len(Fifo!Kept(t)) = Capacity
        /\ Len(t) <= Capacity => Fifo!Kept(t) = t
    BY <2>3, KeptKeys
  <2>5. ASSUME promised
        PROVE  (\E i \in 1 .. Len(Fifo!Kept(t)) : ~IsPartial(Fifo!Kept(t)[i]))
               \/ Len(Fifo!Kept(t)) = Capacity
    <3>1. CASE Len(q) = Capacity
      BY <1>1, <2>3, <2>4, <3>1
    <3>2. CASE Len(q) # Capacity
      <4>1. PICK i \in 1 .. Len(q) : ~IsPartial(q[i])
        BY <1>1, <2>5, <3>2
      <4>2. Fifo!Kept(t) = t
        BY <1>1, <2>3, <2>4, <3>2
      <4>3. i \in 1 .. Len(t) /\ t[i] = q[i]
        BY <1>1, <2>3
      <4> QED
        BY <4>1, <4>2, <4>3
    <3> QED
      BY <3>1, <3>2
  <2> QED
    BY <2>2, <2>4, <2>5 DEF t
<1> QED
  BY <1>2, <1>3

LEMMA ReaderInvStep == ReaderInv /\ [Next]_vars => ReaderInv'
<1> SUFFICES ASSUME ReaderInv, [Next]_vars PROVE ReaderInv'
  OBVIOUS
<1>1. OrderInv'
  BY OrderInvStep DEF ReaderInv
<1>2. DOMAIN efiKeyQueue' = 1 .. Len(efiKeyQueue')
  BY <1>1 DEF OrderInv, Ordered
<1>3. ReaderInv' <=>
        /\ Len(efiKeyQueue') <= Capacity
        /\ promised' => (\E i \in 1 .. Len(efiKeyQueue') : ~IsPartial(efiKeyQueue'[i]))
                        \/ Len(efiKeyQueue') = Capacity
  BY <1>1, <1>2 DEF ReaderInv, PromiseKept, IsPartial
<1>4. CASE TimerTick
  <2>1. PICK code \in Codes : NotifyScanned(code) /\ efiKeyQueue' = Scanned(code)
    BY <1>4 DEF TimerTick
  <2>2. promised' = promised
    BY <1>4 DEF TimerTick
  <2>3. /\ Len(efiKeyQueue') <= Capacity
        /\ promised => (\E i \in 1 .. Len(efiKeyQueue') : ~IsPartial(efiKeyQueue'[i]))
                        \/ Len(efiKeyQueue') = Capacity
    BY <2>1, ScannedPromise
  <2> QED
    BY <1>3, <2>2, <2>3
<1>5. CASE ReadKeyStrokeEx \/ ReadKeyStrokeReturns \/ ReadKeyStrokeSkips
  <2>1. PICK key \in Poppable : WorkerPops(key)
    BY <1>5 DEF ReadKeyStrokeEx, ReadKeyStrokeReturns, ReadKeyStrokeSkips
  <2>2. PICK code \in Codes \cup {"none"} :
            /\ NotifyScanned(code) /\ Scanned(code) # << >>
            /\ efiKeyQueue' = Tail(Scanned(code)) /\ promised' = FALSE
    BY <2>1 DEF WorkerPops
  <2>3. Scanned(code) \in Seq(Stamped) /\ Len(Scanned(code)) <= Capacity
    BY <2>2, ScannedPromise
  <2>4. Len(efiKeyQueue') = Len(Scanned(code)) - 1
    BY <2>2, <2>3
  <2>5. Len(Scanned(code)) \in Nat /\ Capacity \in Nat
    BY <2>3, CapacityAssumption
  <2>6. Len(efiKeyQueue') <= Capacity
    BY <2>3, <2>4, <2>5
  <2>7. promised' = FALSE
    BY <2>2
  <2> QED
    BY <1>3, <2>6, <2>7
<1>6. CASE ReadKeyStrokeNotReady
  <2>1. UNCHANGED <<efiKeyQueue, promised>>
    BY <1>6 DEF ReadKeyStrokeNotReady, WorkerFindsNone
  <2> QED
    BY <1>1, <2>1 DEF ReaderInv, PromiseKept
<1>7. CASE WaitForKey
  <2>1. PICK code \in Codes \cup {"none"} :
            /\ NotifyScanned(code)
            /\ \E i \in 1 .. Len(Scanned(code)) + 1 :
                  /\ SkipsPartial(Scanned(code), i)
                  /\ efiKeyQueue' = SubSeq(Scanned(code), i, Len(Scanned(code)))
    BY <1>7 DEF WaitForKey
  <2> DEFINE s == Scanned(code)
  <2>2. PICK i \in 1 .. Len(s) + 1 : SkipsPartial(s, i) /\ efiKeyQueue' = SubSeq(s, i, Len(s))
    BY <2>1
  <2>3. s \in Seq(Stamped) /\ Len(s) \in Nat /\ Len(s) <= Capacity
    BY <2>1, ScannedPromise
  <2>4. promised' = (efiKeyQueue' # << >>)
    BY <1>7 DEF WaitForKey
  <2> HIDE DEF s
  <2>5. /\ Len(efiKeyQueue') = Len(s) - i + 1
        /\ \A j \in 1 .. Len(efiKeyQueue') : efiKeyQueue'[j] = s[i + j - 1]
    BY <2>2, <2>3
  <2>6. Len(efiKeyQueue') <= Capacity
    BY <2>2, <2>3, <2>5, CapacityAssumption
  <2>7. ASSUME efiKeyQueue' # << >>
        PROVE  1 \in 1 .. Len(efiKeyQueue') /\ ~IsPartial(efiKeyQueue'[1])
    <3>1. efiKeyQueue' \in Seq(Stamped)
      BY <1>1 DEF OrderInv, Ordered
    <3>2. 1 \in 1 .. Len(efiKeyQueue')
      BY <2>7, <3>1
    <3>3. i <= Len(s) /\ efiKeyQueue'[1] = s[i]
      BY <2>3, <2>5, <3>2
    <3>4. ~IsPartial(s[i])
      BY <2>2, <3>3 DEF SkipsPartial
    <3> QED
      BY <3>2, <3>3, <3>4
  <2> QED
    BY <1>3, <2>4, <2>6, <2>7
<1>8. CASE Reset
  <2>1. efiKeyQueue' = << >> /\ promised' = FALSE
    BY <1>8 DEF Reset
  <2>2. Len(efiKeyQueue') = 0
    BY <2>1
  <2> QED
    BY <1>3, <2>1, <2>2, CapacityAssumption
<1>9. ASSUME UNCHANGED <<efiKeyQueue, promised>> PROVE ReaderInv'
  BY <1>1, <1>9 DEF ReaderInv, PromiseKept
<1>10. CASE SetState \/ RegisterKeyNotify \/ UnregisterKeyNotify
  BY <1>9, <1>10 DEF SetState, RegisterKeyNotify, UnregisterKeyNotify, queues
<1>11. CASE Handler
  BY <1>9, <1>11 DEF Handler, Dispatch, PopNotify, HandlerReturns, WalkNode, WalkEnds, queues
<1>12. CASE UNCHANGED vars
  BY <1>9, <1>12 DEF vars, queues
<1> QED
  BY <1>4, <1>5, <1>6, <1>7, <1>8, <1>10, <1>11, <1>12 DEF Next, Application

\* Every step but those of the registry leaves the list alone.
LEMMA RegistrySame ==
    ASSUME [Next]_vars, ~(RegisterKeyNotify \/ UnregisterKeyNotify)
    PROVE  UNCHANGED <<notifyList, handles>>
BY DEF Next, vars, registry, queues, TimerTick, Application, ReadKeyStrokeEx,
   ReadKeyStrokeReturns, ReadKeyStrokeSkips, ReadKeyStrokeNotReady, WaitForKey, Reset,
   SetState, Handler, Dispatch, PopNotify, HandlerReturns, WalkNode, WalkEnds

\* The list with node i taken out.
LEMMA NodeRemoved ==
    ASSUME NEW S, NEW s \in Seq(S), NEW i \in DOMAIN s
    PROVE  LET t == [j \in 1 .. Len(s) - 1 |-> s[IF j < i THEN j ELSE j + 1]] IN
           /\ t \in Seq(S) /\ Len(t) = Len(s) - 1
           /\ \A j \in 1 .. Len(t) :
                /\ (IF j < i THEN j ELSE j + 1) \in 1 .. Len(s)
                /\ t[j] = s[IF j < i THEN j ELSE j + 1]
<1> DEFINE at(j) == IF j < i THEN j ELSE j + 1
           t == [j \in 1 .. Len(s) - 1 |-> s[at(j)]]
<1>1. Len(s) \in Nat /\ i \in 1 .. Len(s) /\ Len(s) - 1 \in Nat
  OBVIOUS
<1>2. \A j \in 1 .. Len(s) - 1 : at(j) \in 1 .. Len(s)
  BY <1>1
<1>3. \A j \in 1 .. Len(s) - 1 : s[at(j)] \in S
  BY <1>2
<1> HIDE DEF at
<1>4. t \in Seq(S) /\ Len(t) = Len(s) - 1
  BY <1>1, <1>3
<1>5. \A j \in 1 .. Len(t) : at(j) \in 1 .. Len(s) /\ t[j] = s[at(j)]
  BY <1>2, <1>4
<1> QED
  BY <1>4, <1>5 DEF at

LEMMA ListInvStep == ListInv /\ [Next]_vars => ListInv'
<1> SUFFICES ASSUME ListInv, [Next]_vars PROVE ListInv'
  OBVIOUS
<1>1. /\ notifyList \in Seq(Entry) /\ Len(notifyList) \in Nat
      /\ handles \in Nat /\ MaxHandles \in Nat /\ handles <= MaxHandles
      /\ \A i \in 1 .. Len(notifyList) : notifyList[i].handle \in 1 .. handles
  BY BoundsAssumption DEF ListInv
<1>2. CASE RegisterKeyNotify
  <2>1. PICK r \in Requests :
            /\ handles < MaxHandles /\ handles' = handles + 1
            /\ notifyList' = Append(notifyList,
                   [handle |-> handles + 1, code |-> r.code, shift |-> r.shift, fn |-> r.fn])
    BY <1>2 DEF RegisterKeyNotify
  <2> DEFINE e == [handle |-> handles + 1, code |-> r.code, shift |-> r.shift, fn |-> r.fn]
  <2>2. handles + 1 \in Nat
    BY <1>1
  <2>3. e \in Entry /\ e.handle = handles + 1
    BY <2>2 DEF Entry
  <2> HIDE DEF e
  <2>4. /\ notifyList' \in Seq(Entry) /\ Len(notifyList') = Len(notifyList) + 1
        /\ \A i \in 1 .. Len(notifyList') :
              notifyList'[i] = IF i <= Len(notifyList) THEN notifyList[i] ELSE e
    BY <1>1, <2>1, <2>3 DEF e
  <2>5. \A i \in 1 .. Len(notifyList') : notifyList'[i].handle \in 1 .. handles + 1
    BY <1>1, <2>3, <2>4
  <2>6. handles' \in 0 .. MaxHandles
    BY <1>1, <2>1
  <2> QED
    BY <2>1, <2>4, <2>5, <2>6 DEF ListInv
<1>3. CASE UnregisterKeyNotify
  <2>1. PICK i \in DOMAIN notifyList :
            notifyList' = [j \in 1 .. Len(notifyList) - 1 |->
                              notifyList[IF j < i THEN j ELSE j + 1]]
    BY <1>3 DEF UnregisterKeyNotify
  <2>2. /\ notifyList' \in Seq(Entry)
        /\ \A j \in 1 .. Len(notifyList') :
              \E k \in 1 .. Len(notifyList) : notifyList'[j] = notifyList[k]
    <3>1. /\ notifyList' \in Seq(Entry)
          /\ \A j \in 1 .. Len(notifyList') :
                /\ (IF j < i THEN j ELSE j + 1) \in 1 .. Len(notifyList)
                /\ notifyList'[j] = notifyList[IF j < i THEN j ELSE j + 1]
      BY <1>1, <2>1, NodeRemoved
    <3> QED
      BY <3>1
  <2>3. handles' = handles
    BY <1>3 DEF UnregisterKeyNotify
  <2>4. \A j \in 1 .. Len(notifyList') : notifyList'[j].handle \in 1 .. handles
    BY <1>1, <2>2
  <2> QED
    BY <1>1, <2>2, <2>3, <2>4 DEF ListInv
<1>4. CASE ~(RegisterKeyNotify \/ UnregisterKeyNotify)
  BY <1>4, RegistrySame DEF ListInv
<1> QED
  BY <1>2, <1>3, <1>4

\* Nothing is owed when an application runs.
LEMMA IdleOwesNothing ==
    ASSUME QueueInv, NoLostWakeup, OwedInv, AppRuns, NEW h \in Nat, NEW n \in Nat,
           <<h, n>> \in owed
    PROVE  <<h, n>> \in calls
<1>1. notifyQueue = << >> /\ walk.pc = "idle"
  BY DEF AppRuns, NoLostWakeup
<1>2. ~Queued(h, n)
  BY <1>1 DEF Queued
<1>3. ~Walking(h, n)
  BY <1>1 DEF Walking
<1> QED
  BY <1>2, <1>3 DEF OwedInv

\* The steps that take or make calls: the handler's.
LEMMA HandlerDelivers ==
    ASSUME ListInv, QueueInv, WalkInv, OwedInv, Handler
    PROVE  QueueInv' /\ WalkInv' /\ OwedInv'
<1>0. UNCHANGED <<notifyList, owed, serial>>
  BY DEF Handler, Dispatch, PopNotify, HandlerReturns, WalkNode, WalkEnds, queues, registry
<1>1. /\ walk = [pc |-> walk.pc, key |-> walk.key, node |-> walk.node]
      /\ walk.node \in Nat /\ Len(notifyList) \in Nat
  BY DEF WalkInv, ListInv
<1>2. SUFFICES /\ QueueInv' /\ WalkInv'
               /\ \A h \in Nat, n \in Nat :
                    <<h, n>> \in owed /\ ~(<<h, n>> \in calls')
                        => Queued(h, n)' \/ Walking(h, n)'
  BY <1>0 DEF OwedInv
<1>3. CASE Dispatch
  <2>1. /\ walk.pc = "idle" /\ walk'.pc = "pop" /\ UNCHANGED <<notifyQueue, calls>>
        /\ walk' = [pc |-> "pop", key |-> walk.key, node |-> walk.node]
    BY <1>1, <1>3 DEF Dispatch
  <2>2. QueueInv' /\ WalkInv'
    BY <1>0, <1>1, <2>1 DEF QueueInv, WalkInv
  <2>3. \A h, n : ~Walking(h, n) /\ (Queued(h, n) => Queued(h, n)')
    BY <1>0, <2>1 DEF Walking, Queued, ListedFrom
  <2> QED
    BY <2>1, <2>2, <2>3 DEF OwedInv
<1>4. CASE PopNotify
  <2> DEFINE q == notifyQueue
  <2>1. /\ walk.pc = "pop" /\ q # << >> /\ UNCHANGED calls
        /\ walk' = [pc |-> "walk", key |-> Head(q), node |-> 1]
        /\ notifyQueue' = Tail(q)
    BY <1>4 DEF PopNotify
  <2>2. /\ q \in Seq(Stamped) /\ Len(q) \in Nat /\ Len(q) <= Capacity /\ Capacity \in Nat
        /\ \A i \in 1 .. Len(q) : q[i].n \in 1 .. serial
        /\ \A i, j \in 1 .. Len(q) : q[i].n = q[j].n => q[i] = q[j]
        /\ serial \in 0 .. MaxSerial
    BY CapacityAssumption DEF QueueInv
  <2>3. /\ Tail(q) \in Seq(Stamped) /\ Len(Tail(q)) = Len(q) - 1
        /\ \A i \in 1 .. Len(Tail(q)) : i + 1 \in 1 .. Len(q) /\ Tail(q)[i] = q[i + 1]
        /\ Head(q) = q[1]
    BY <2>1, <2>2
  <2>10. \A h, n : Queued(h, n) => \E i \in 1 .. Len(q) : q[i].n = n /\ ListedFrom(1, h, q[i])
    BY DEF Queued
  <2>11. \A h, n : (\E i \in 1 .. Len(Tail(q)) : Tail(q)[i].n = n /\ ListedFrom(1, h, Tail(q)[i]))
                   => Queued(h, n)'
    BY <1>0, <2>1 DEF Queued, ListedFrom
  <2>12. \A h, n : Head(q).n = n /\ ListedFrom(1, h, Head(q)) => Walking(h, n)'
    BY <1>0, <2>1 DEF Walking, ListedFrom
  <2> HIDE DEF q
  <2>4. QueueInv'
    <3>1. Len(Tail(q)) <= Capacity
      BY <2>2, <2>3
    <3>2. \A i \in 1 .. Len(Tail(q)) : Tail(q)[i].n \in 1 .. serial
      BY <2>2, <2>3
    <3>3. \A i, j \in 1 .. Len(Tail(q)) :
              Tail(q)[i].n = Tail(q)[j].n => Tail(q)[i] = Tail(q)[j]
      BY <2>2, <2>3
    <3> QED
      BY <1>0, <2>1, <2>2, <2>3, <3>1, <3>2, <3>3 DEF QueueInv
  <2>5. WalkInv'
    BY <2>1 DEF WalkInv
  <2>6. ASSUME NEW h \in Nat, NEW n \in Nat, <<h, n>> \in owed, <<h, n>> \notin calls'
        PROVE  Queued(h, n)' \/ Walking(h, n)'
    <3>1. Queued(h, n)
      BY <2>1, <2>6 DEF OwedInv, Walking
    <3>2. PICK i \in 1 .. Len(q) : q[i].n = n /\ ListedFrom(1, h, q[i])
      BY <2>10, <3>1
    <3>3. CASE i = 1
      BY <2>3, <2>12, <3>2, <3>3
    <3>4. CASE i # 1
      <4>1. i - 1 \in 1 .. Len(Tail(q))
        BY <2>2, <2>3, <3>4
      <4>2. (i - 1) + 1 = i
        BY <2>2
      <4>3. Tail(q)[i - 1] = q[i]
        BY <2>3, <4>1, <4>2
      <4> QED
        BY <2>11, <3>2, <4>1, <4>3
    <3> QED
      BY <3>3, <3>4
  <2> QED
    BY <2>4, <2>5, <2>6
<1>5. CASE HandlerReturns
  <2>1. /\ walk.pc = "pop" /\ notifyQueue = << >> /\ UNCHANGED <<notifyQueue, calls>>
        /\ walk' = NoWalk
    BY <1>5 DEF HandlerReturns, queues
  <2>2. QueueInv' /\ WalkInv'
    BY <1>0, <2>1 DEF QueueInv, WalkInv, NoWalk
  <2>3. \A h, n : ~Walking(h, n) /\ ~Queued(h, n)
    BY <2>1 DEF Walking, Queued
  <2> QED
    BY <2>1, <2>2, <2>3 DEF OwedInv
<1>6. CASE WalkNode
  <2> DEFINE node == walk.node
             key == walk.key
  <2>1. /\ walk.pc = "walk" /\ node <= Len(notifyList) /\ UNCHANGED notifyQueue
        /\ walk' = [pc |-> "walk", key |-> key, node |-> node + 1]
        /\ calls' = IF Matches(notifyList[node], key)
                    THEN calls \cup {<<notifyList[node].handle, key.n>>} ELSE calls
    BY <1>1, <1>6 DEF WalkNode, queues
  <2>2. QueueInv' /\ WalkInv'
    BY <1>0, <1>1, <2>1 DEF QueueInv, WalkInv
  <2>3. \A h, n : Queued(h, n) => Queued(h, n)'
    BY <1>0, <2>1 DEF Queued, ListedFrom
  <2>4. \A h, n : key.n = n /\ ListedFrom(node + 1, h, key) => Walking(h, n)'
    BY <1>0, <2>1 DEF Walking, ListedFrom
  <2>5. \A h, n : Walking(h, n) => key.n = n /\ ListedFrom(node, h, key)
    BY DEF Walking
  <2> HIDE DEF node, key
  <2>6. ASSUME NEW h \in Nat, NEW n \in Nat, <<h, n>> \in owed, <<h, n>> \notin calls'
        PROVE  Queued(h, n)' \/ Walking(h, n)'
    <3>1. <<h, n>> \notin calls
      BY <2>1, <2>6
    <3>2. Queued(h, n) \/ Walking(h, n)
      BY <2>6, <3>1 DEF OwedInv
    <3>3. ASSUME key.n = n, ListedFrom(node, h, key) PROVE ListedFrom(node + 1, h, key)
      <4>1. PICK j \in 1 .. Len(notifyList) :
                j >= node /\ notifyList[j].handle = h /\ Matches(notifyList[j], key)
        BY <3>3 DEF ListedFrom
      <4>2. j # node
        BY <2>1, <2>6, <3>3, <4>1
      <4>3. node \in Nat
        BY <1>1 DEF node
      <4>4. j >= node + 1
        BY <1>1, <4>1, <4>2, <4>3
      <4> QED
        BY <4>1, <4>4 DEF ListedFrom
    <3> QED
      BY <2>3, <2>4, <2>5, <3>2, <3>3
  <2> QED
    BY <2>2, <2>6
<1>7. CASE WalkEnds
  <2>1. /\ walk.node > Len(notifyList) /\ UNCHANGED <<notifyQueue, calls>>
        /\ walk' = [pc |-> "pop", key |-> walk.key, node |-> walk.node]
    BY <1>1, <1>7 DEF WalkEnds, queues
  <2>2. QueueInv' /\ WalkInv'
    BY <1>0, <1>1, <2>1 DEF QueueInv, WalkInv
  <2>3. \A h, n : ~Walking(h, n)
    BY <1>1, <2>1 DEF Walking, ListedFrom
  <2>4. \A h, n : Queued(h, n) => Queued(h, n)'
    BY <1>0, <2>1 DEF Queued, ListedFrom
  <2> QED
    BY <2>1, <2>2, <2>3, <2>4 DEF OwedInv
<1> QED
  BY <1>3, <1>4, <1>5, <1>6, <1>7 DEF Handler

LEMMA FlagInvStep == FlagInv /\ [Next]_vars => FlagInv'
<1> SUFFICES ASSUME FlagInv, [Next]_vars PROVE FlagInv'
  OBVIOUS
<1>1. ASSUME NEW code, NotifyScanned(code) PROVE signaled' \in BOOLEAN
  <2>1. CASE ReportsNothing(code)
    BY <1>1, <2>1 DEF NotifyScanned, FlagInv
  <2>2. CASE ~ReportsNothing(code)
    BY <1>1, <2>2, ScanPushes
  <2> QED
    BY <2>1, <2>2
<1>2. CASE TimerTick
  <2>1. signaled' \in BOOLEAN
    BY <1>1, <1>2 DEF TimerTick
  <2> QED
    BY <1>2, <2>1 DEF TimerTick, registry, FlagInv
<1>3. CASE ReadKeyStrokeEx \/ ReadKeyStrokeReturns \/ ReadKeyStrokeSkips
  <2>1. PICK key \in Poppable : WorkerPops(key)
    BY <1>3 DEF ReadKeyStrokeEx, ReadKeyStrokeReturns, ReadKeyStrokeSkips
  <2>2. signaled' \in BOOLEAN /\ promised' = FALSE
    BY <1>1, <2>1 DEF WorkerPops
  <2>3. partialKeys' = partialKeys /\ reading' \in BOOLEAN
    BY <1>3 DEF ReadKeyStrokeEx, ReadKeyStrokeReturns, ReadKeyStrokeSkips, registry, FlagInv
  <2> QED
    BY <2>2, <2>3 DEF FlagInv
<1>4. CASE ReadKeyStrokeNotReady
  <2>1. signaled' \in BOOLEAN /\ promised' = promised
    BY <1>1, <1>4 DEF ReadKeyStrokeNotReady, WorkerFindsNone
  <2>2. partialKeys' = partialKeys /\ reading' = FALSE
    BY <1>4 DEF ReadKeyStrokeNotReady, registry
  <2> QED
    BY <2>1, <2>2 DEF FlagInv
<1>5. CASE WaitForKey
  <2>1. signaled' \in BOOLEAN
    BY <1>1, <1>5 DEF WaitForKey
  <2>2. partialKeys' = partialKeys /\ reading' = reading /\ promised' \in BOOLEAN
    BY <1>5 DEF WaitForKey, registry
  <2> QED
    BY <2>1, <2>2 DEF FlagInv
<1>6. CASE Reset \/ SetState \/ RegisterKeyNotify \/ UnregisterKeyNotify
  BY <1>6 DEF Reset, SetState, RegisterKeyNotify, UnregisterKeyNotify, queues, FlagInv
<1>7. CASE Handler
  BY <1>7 DEF Handler, Dispatch, PopNotify, HandlerReturns, WalkNode, WalkEnds, queues,
     registry, FlagInv
<1>8. CASE UNCHANGED vars
  BY <1>8 DEF vars, queues, registry, FlagInv
<1> QED
  BY <1>2, <1>3, <1>4, <1>5, <1>6, <1>7, <1>8 DEF Next, Application

LEMMA DeliverInvStep == DeliverInv /\ [Next]_vars => DeliverInv'
<1> SUFFICES ASSUME DeliverInv, [Next]_vars PROVE DeliverInv'
  OBVIOUS
<1>1. /\ FlagInv /\ ListInv /\ QueueInv /\ WalkInv /\ ReaderInv
      /\ owed \subseteq Nat \X Nat /\ OwedInv /\ NoLostWakeup
  BY DEF DeliverInv
<1>2. FlagInv' /\ ListInv' /\ ReaderInv'
  BY <1>1, FlagInvStep, ListInvStep, ReaderInvStep
<1>3. NoLostWakeup'
  BY <1>1, WakeupInvStep DEF WakeupInv, WalkInv
<1>4. SUFFICES QueueInv' /\ WalkInv' /\ OwedInv' /\ owed' \subseteq Nat \X Nat
  BY <1>2, <1>3 DEF DeliverInv
<1>5. ASSUME NEW code \in Codes \cup {"none"}, NotifyScanned(code),
             UNCHANGED <<notifyList, walk, calls>>
      PROVE  QueueInv' /\ WalkInv' /\ OwedInv' /\ owed' \subseteq Nat \X Nat
  <2>1. WalkInv'
    BY <1>1, <1>5 DEF WalkInv
  <2> QED
    BY <1>1, <1>5, <2>1, ScanDelivers
<1>6. CASE TimerTick
  BY <1>5, <1>6 DEF TimerTick, registry
<1>7. CASE ReadKeyStrokeEx \/ ReadKeyStrokeReturns \/ ReadKeyStrokeSkips
  <2>1. PICK code \in Codes \cup {"none"} : NotifyScanned(code)
    BY <1>7 DEF ReadKeyStrokeEx, ReadKeyStrokeReturns, ReadKeyStrokeSkips, WorkerPops
  <2>2. UNCHANGED <<notifyList, walk, calls>>
    BY <1>7 DEF ReadKeyStrokeEx, ReadKeyStrokeReturns, ReadKeyStrokeSkips, registry
  <2> QED
    BY <1>5, <2>1, <2>2
<1>8. CASE ReadKeyStrokeNotReady \/ WaitForKey
  <2>1. PICK code \in Codes \cup {"none"} : NotifyScanned(code)
    BY <1>8 DEF ReadKeyStrokeNotReady, WorkerFindsNone, WaitForKey
  <2>2. UNCHANGED <<notifyList, walk, calls>>
    BY <1>8 DEF ReadKeyStrokeNotReady, WaitForKey, registry
  <2> QED
    BY <1>5, <2>1, <2>2
<1>9. CASE Reset \/ RegisterKeyNotify \/ UnregisterKeyNotify
  <2>1. AppRuns /\ UNCHANGED <<walk, calls, owed, serial>>
    BY <1>9 DEF Reset, RegisterKeyNotify, UnregisterKeyNotify, queues
  <2>2. notifyQueue' = notifyQueue \/ notifyQueue' = << >>
    BY <1>9 DEF Reset, RegisterKeyNotify, UnregisterKeyNotify, queues
  <2>3. OwedInv'
    BY <1>1, <2>1, IdleOwesNothing DEF OwedInv
  <2>4. WalkInv'
    BY <1>1, <2>1 DEF WalkInv
  <2>5. QueueInv'
    <3>1. CASE notifyQueue' = notifyQueue
      BY <1>1, <2>1, <3>1 DEF QueueInv
    <3>2. CASE notifyQueue' = << >>
      <4>1. serial' \in 0 .. MaxSerial
        BY <1>1, <2>1 DEF QueueInv
      <4> QED
        BY <3>2, <4>1, CapacityAssumption DEF QueueInv
    <3> QED
      BY <2>2, <3>1, <3>2
  <2> QED
    BY <1>1, <2>1, <2>3, <2>4, <2>5
<1>10. ASSUME UNCHANGED <<notifyList, walk, calls, owed, serial, notifyQueue>>
       PROVE  QueueInv' /\ WalkInv' /\ OwedInv' /\ owed' \subseteq Nat \X Nat
  BY <1>1, <1>10 DEF QueueInv, WalkInv, OwedInv, Queued, Walking, ListedFrom
<1>11. CASE SetState
  BY <1>10, <1>11 DEF SetState, queues
<1>12. CASE Handler
  <2>1. owed' = owed
    BY <1>12 DEF Handler, Dispatch, PopNotify, HandlerReturns, WalkNode, WalkEnds, queues
  <2> QED
    BY <1>1, <1>12, <2>1, HandlerDelivers
<1>13. CASE UNCHANGED vars
  BY <1>10, <1>13 DEF vars, queues, registry
<1> QED
  BY <1>6, <1>7, <1>8, <1>9, <1>11, <1>12, <1>13 DEF Next, Application

\* What the invariant says of the queue of the readers and of the registry.
LEMMA DeliverTypes == DeliverInv => TypeOK
<1> SUFFICES ASSUME DeliverInv PROVE TypeOK
  OBVIOUS
<1>1. FlagInv /\ ListInv /\ QueueInv /\ WalkInv /\ ReaderInv
  BY DEF DeliverInv
<1>2. ASSUME NEW s \in Seq(Stamped), \A i \in 1 .. Len(s) : s[i].n \in 1 .. serial
      PROVE  s \in Seq(Poppable)
  <2>1. \A i \in 1 .. Len(s) : s[i] \in Stamped
    OBVIOUS
  <2>2. serial <= MaxSerial /\ serial \in Nat /\ MaxSerial \in Nat
    BY <1>1, BoundsAssumption DEF QueueInv
  <2>3. 1 .. serial \subseteq 1 .. MaxSerial
    BY <2>2
  <2>4. \A i \in 1 .. Len(s) : s[i].n \in 1 .. MaxSerial
    BY <1>2, <2>3
  <2>5. \A i \in 1 .. Len(s) : s[i] \in Poppable
    BY <2>1, <2>4 DEF Stamped, Poppable
  <2>6. s = [i \in 1 .. Len(s) |-> s[i]] /\ Len(s) \in Nat
    OBVIOUS
  <2> QED
    BY <2>5, <2>6
<1>3. notifyQueue \in Seq(Poppable) /\ Len(notifyQueue) <= Capacity
  BY <1>1, <1>2 DEF QueueInv
<1>4. efiKeyQueue \in Seq(Poppable) /\ Len(efiKeyQueue) <= Capacity
  <2>1. /\ efiKeyQueue \in Seq(Stamped) /\ serial \in Nat /\ lastRead \in 0 .. serial
        /\ \A i \in 1 .. Len(efiKeyQueue) :
              lastRead < efiKeyQueue[i].n /\ efiKeyQueue[i].n <= serial
    BY <1>1 DEF ReaderInv, OrderInv, Ordered
  <2>2. \A i \in 1 .. Len(efiKeyQueue) : efiKeyQueue[i] \in Stamped
    BY <2>1
  <2>3. \A i \in 1 .. Len(efiKeyQueue) : efiKeyQueue[i].n \in Nat
    BY <2>2 DEF Stamped
  <2>4. \A i \in 1 .. Len(efiKeyQueue) : efiKeyQueue[i].n \in 1 .. serial
    BY <2>1, <2>3
  <2> QED
    BY <1>1, <1>2, <2>1, <2>4 DEF ReaderInv
<1>5. ASSUME NEW e \in RangeOf(notifyList)
      PROVE  /\ e.handle \in 1 .. handles
             /\ [code |-> e.code, shift |-> e.shift, fn |-> e.fn] \in Requests
  <2>1. notifyList \in Seq(Entry) /\ DOMAIN notifyList = 1 .. Len(notifyList)
    BY <1>1 DEF ListInv
  <2>2. PICK i \in 1 .. Len(notifyList) : e = notifyList[i]
    BY <2>1 DEF RangeOf
  <2>3. e \in Entry
    BY <2>1, <2>2
  <2> QED
    BY <1>1, <2>2, <2>3, EntryFields DEF ListInv
<1>6. serial \in 0 .. MaxSerial /\ handles \in 0 .. MaxHandles
  BY <1>1 DEF QueueInv, ListInv
<1>7. lastRead \in 0 .. serial /\ floor \in 0 .. serial
  BY <1>1 DEF ReaderInv, OrderInv
<1>8. walk.pc \in {"idle", "pop", "walk"}
  BY <1>1 DEF WalkInv
<1>9. /\ partialKeys \in BOOLEAN /\ signaled \in BOOLEAN /\ reading \in BOOLEAN
      /\ promised \in BOOLEAN
  BY <1>1 DEF FlagInv
<1> QED
  BY <1>3, <1>4, <1>5, <1>6, <1>7, <1>8, <1>9 DEF TypeOK

LEMMA DeliverInit == Init => DeliverInv
<1> SUFFICES ASSUME Init PROVE DeliverInv
  OBVIOUS
<1>1. FlagInv
  BY DEF Init, FlagInv
<1>2. ListInv
  BY BoundsAssumption DEF Init, ListInv
<1>3. QueueInv
  BY BoundsAssumption, CapacityAssumption DEF Init, QueueInv
<1>4. WalkInv
  BY DEF Init, NoWalk, WalkInv
<1>5. ReaderInv
  <2>1. OrderInv
    BY OrderedEmpty DEF Init, OrderInv
  <2> QED
    BY <2>1, CapacityAssumption DEF Init, ReaderInv, PromiseKept
<1> QED
  BY <1>1, <1>2, <1>3, <1>4, <1>5 DEF Init, DeliverInv, OwedInv, NoLostWakeup

\* Whatever comes between, a key that the two queues take reaches everybody it
\* was promised to: each function registered for it when it was typed, once the
\* handler has finished, and the reader whose poll was signalled.
THEOREM KeysDeliveredHolds == Spec => []KeysDelivered
<1>1. Init => DeliverInv
  BY DeliverInit
<1>2. DeliverInv => KeysDelivered
  <2> SUFFICES ASSUME DeliverInv PROVE KeysDelivered
    OBVIOUS
  <2>1. NotifyComplete
    <3>1. owed \subseteq Nat \X Nat
      BY DEF DeliverInv
    <3>2. ASSUME AppRuns, NEW o \in owed PROVE o \in calls
      <4>1. PICK h \in Nat, n \in Nat : o = <<h, n>>
        BY <3>1
      <4> QED
        BY <3>2, <4>1, IdleOwesNothing DEF DeliverInv
    <3> QED
      BY <3>2 DEF NotifyComplete
  <2> QED
    BY <2>1, DeliverTypes DEF DeliverInv, ReaderInv, KeysDelivered
<1> QED
  BY <1>1, <1>2, DeliverInvStep, PTL DEF Spec

-----------------------------------------------------------------------------
(* A function is called once for a key, as long as no two functions are asked *)
(* for on one key: then a key enters the notify queue once.                   *)

OneFunctionPerKey ==
    \A r, q \in Requests :
        r.code = q.code /\ r.shift = 0 /\ q.shift = 0 => r.fn = q.fn

\* The nodes of the list can be told apart, by handle and by the key of the
\* device they match.
DistinctNodes ==
    /\ \A i, j \in 1 .. Len(notifyList) :
          notifyList[i].handle = notifyList[j].handle => i = j
    /\ \A i, j \in 1 .. Len(notifyList) :
          /\ notifyList[i].code = notifyList[j].code
          /\ notifyList[i].shift = 0 /\ notifyList[j].shift = 0
          => i = j

\* The key that is walked is older than those that wait.
QueueOrder ==
    /\ serial \in Nat /\ walk.key.n \in 0 .. serial
    /\ Ordered(notifyQueue, walk.key.n, serial)

\* A call was made for no key that still waits, and for the key that is walked
\* only at the nodes behind the walk.
CalledInv ==
    \A h \in Nat, n \in Nat : <<h, n>> \in calls =>
        /\ n <= serial
        /\ \A i \in 1 .. Len(notifyQueue) : n # notifyQueue[i].n
        /\ walk.pc = "walk" /\ n = walk.key.n =>
              \E j \in 1 .. Len(notifyList) : j < walk.node /\ notifyList[j].handle = h

OnceInv == ListInv /\ WalkInv /\ DistinctNodes /\ QueueOrder /\ CalledInv

LEMMA DistinctStep ==
    ASSUME OneFunctionPerKey, ListInv, DistinctNodes, [Next]_vars
    PROVE  DistinctNodes'
<1>1. /\ notifyList \in Seq(Entry) /\ Len(notifyList) \in Nat /\ handles \in Nat
      /\ \A i \in 1 .. Len(notifyList) : notifyList[i].handle \in 1 .. handles
      /\ \A i \in 1 .. Len(notifyList) : notifyList[i] \in Entry
  BY DEF ListInv
<1>2. CASE RegisterKeyNotify
  <2>1. PICK r \in Requests :
            /\ ~\E e \in RangeOf(notifyList) :
                    IsKeyRegistered(e, r.code, r.shift) /\ e.fn = r.fn
            /\ notifyList' = Append(notifyList,
                   [handle |-> handles + 1, code |-> r.code, shift |-> r.shift, fn |-> r.fn])
    BY <1>2 DEF RegisterKeyNotify
  <2> DEFINE e == [handle |-> handles + 1, code |-> r.code, shift |-> r.shift, fn |-> r.fn]
             m == Len(notifyList)
  <2>2. /\ Len(notifyList') = m + 1
        /\ \A i \in 1 .. m + 1 : notifyList'[i] = IF i <= m THEN notifyList[i] ELSE e
    BY <1>1, <2>1
  <2>3. e.handle = handles + 1 /\ e.code = r.code /\ e.shift = r.shift
    OBVIOUS
  <2>4. ASSUME NEW i \in 1 .. m
        PROVE  ~(notifyList[i].code = r.code /\ notifyList[i].shift = 0 /\ r.shift = 0)
    <3>1. SUFFICES ASSUME notifyList[i].code = r.code, notifyList[i].shift = 0, r.shift = 0
                   PROVE  FALSE
      OBVIOUS
    <3> DEFINE x == notifyList[i]
               p == [code |-> x.code, shift |-> x.shift, fn |-> x.fn]
    <3>2. p \in Requests
      BY <1>1, EntryFields
    <3>3. p.code = r.code /\ p.shift = 0 /\ p.fn = x.fn
      BY <3>1
    <3>4. x.fn = r.fn
      BY <3>1, <3>2, <3>3 DEF OneFunctionPerKey
    <3>5. IsKeyRegistered(x, r.code, r.shift)
      BY <3>1 DEF IsKeyRegistered
    <3>6. DOMAIN notifyList = 1 .. m
      BY <1>1
    <3>7. x \in RangeOf(notifyList)
      BY <3>6 DEF RangeOf
    <3> QED
      BY <2>1, <3>4, <3>5, <3>7
  <2>5. \A i \in 1 .. m : notifyList[i].handle # handles + 1
    BY <1>1
  <2> HIDE DEF e, m
  <2>6. m \in Nat
    BY <1>1 DEF m
  <2>7. /\ \A i, j \in 1 .. m : notifyList[i].handle = notifyList[j].handle => i = j
        /\ \A i, j \in 1 .. m :
              /\ notifyList[i].code = notifyList[j].code
              /\ notifyList[i].shift = 0 /\ notifyList[j].shift = 0
              => i = j
    BY DEF DistinctNodes, m
  <2>8. \A i \in 1 .. m + 1 : (i \in 1 .. m /\ notifyList'[i] = notifyList[i])
                              \/ (i = m + 1 /\ notifyList'[i] = e)
    BY <2>2, <2>6
  <2>9. ASSUME NEW i \in 1 .. m + 1, NEW j \in 1 .. m + 1,
               notifyList'[i].handle = notifyList'[j].handle
        PROVE  i = j
    BY <2>3, <2>5, <2>7, <2>8, <2>9
  <2>10. ASSUME NEW i \in 1 .. m + 1, NEW j \in 1 .. m + 1,
                notifyList'[i].code = notifyList'[j].code,
                notifyList'[i].shift = 0, notifyList'[j].shift = 0
         PROVE  i = j
    BY <2>3, <2>4, <2>7, <2>8, <2>10
  <2> QED
    BY <2>2, <2>9, <2>10 DEF DistinctNodes
<1>3. CASE UnregisterKeyNotify
  <2>1. PICK i \in DOMAIN notifyList :
            notifyList' = [j \in 1 .. Len(notifyList) - 1 |->
                              notifyList[IF j < i THEN j ELSE j + 1]]
    BY <1>3 DEF UnregisterKeyNotify
  <2>2. \A j \in 1 .. Len(notifyList') :
            /\ (IF j < i THEN j ELSE j + 1) \in 1 .. Len(notifyList)
            /\ notifyList'[j] = notifyList[IF j < i THEN j ELSE j + 1]
    BY <1>1, <2>1, NodeRemoved
  <2>3. i \in Int
    BY <1>1
  <2>4. ASSUME NEW j \in 1 .. Len(notifyList'), NEW k \in 1 .. Len(notifyList'),
               (IF j < i THEN j ELSE j + 1) = (IF k < i THEN k ELSE k + 1)
        PROVE  j = k
    BY <2>3, <2>4
  <2> QED
    <3> DEFINE at(j) == IF j < i THEN j ELSE j + 1
    <3>1. \A j \in 1 .. Len(notifyList') :
              at(j) \in 1 .. Len(notifyList) /\ notifyList'[j] = notifyList[at(j)]
      BY <2>2
    <3>2. \A j, k \in 1 .. Len(notifyList') : at(j) = at(k) => j = k
      BY <2>4
    <3> HIDE DEF at
    <3>3. ASSUME NEW j \in 1 .. Len(notifyList'), NEW k \in 1 .. Len(notifyList'),
                 notifyList'[j].handle = notifyList'[k].handle
          PROVE  j = k
      <4>1. notifyList[at(j)].handle = notifyList[at(k)].handle
        BY <3>1, <3>3
      <4>2. at(j) = at(k)
        BY <3>1, <4>1 DEF DistinctNodes
      <4> QED
        BY <3>2, <4>2
    <3>4. ASSUME NEW j \in 1 .. Len(notifyList'), NEW k \in 1 .. Len(notifyList'),
                 notifyList'[j].code = notifyList'[k].code,
                 notifyList'[j].shift = 0, notifyList'[k].shift = 0
          PROVE  j = k
      <4>1. /\ notifyList[at(j)].code = notifyList[at(k)].code
            /\ notifyList[at(j)].shift = 0 /\ notifyList[at(k)].shift = 0
        BY <3>1, <3>4
      <4>2. at(j) = at(k)
        BY <3>1, <4>1 DEF DistinctNodes
      <4> QED
        BY <3>2, <4>2
    <3> QED
      BY <3>3, <3>4 DEF DistinctNodes
<1>4. CASE ~(RegisterKeyNotify \/ UnregisterKeyNotify)
  BY <1>4, RegistrySame DEF DistinctNodes
<1> QED
  BY <1>2, <1>3, <1>4

\* A scan queues a key once: at most one node matches it.
LEMMA ScanOnce ==
    ASSUME ListInv, DistinctNodes, QueueOrder, CalledInv,
           NEW code \in Codes \cup {"none"}, NotifyScanned(code),
           UNCHANGED <<notifyList, walk, calls>>
    PROVE  QueueOrder' /\ CalledInv'
<1>1. CASE ReportsNothing(code)
  <2>1. UNCHANGED <<notifyQueue, serial, notifyList, walk, calls>>
    BY <1>1 DEF NotifyScanned
  <2> QED
    BY <2>1 DEF QueueOrder, Ordered, CalledInv
<1>2. CASE ~ReportsNothing(code)
  <2> DEFINE q == notifyQueue
             all == q \o Copies(code)
             key == Typed(code)
             kept == Fifo!Kept(all)
             lo == walk.key.n
  <2>1. serial' = serial + 1 /\ notifyQueue' = kept
    BY <1>2, ScanPushes
  <2>2. /\ code \in Codes /\ notifyList \in Seq(Entry) /\ q \in Seq(Stamped)
        /\ serial \in Nat /\ lo \in Nat /\ lo <= serial
    BY <1>2 DEF ReportsNothing, ListInv, QueueOrder, Ordered
  <2>3. /\ all \in Seq(Stamped)
        /\ Len(all) = Len(q) + Cardinality(Matching(code))
        /\ \A i \in 1 .. Len(q) : i \in 1 .. Len(all) /\ all[i] = q[i]
        /\ \A i \in 1 .. Len(all) : i > Len(q) => all[i] = key
    BY <2>2, CopiesPushed
  <2>4. Cardinality(Matching(code)) \in {0, 1}
    <3>1. ASSUME NEW i \in Matching(code), NEW j \in Matching(code) PROVE i = j
      <4>1. /\ i \in 1 .. Len(notifyList) /\ j \in 1 .. Len(notifyList)
            /\ Matches(notifyList[i], key) /\ Matches(notifyList[j], key)
        BY <2>2 DEF Matching
      <4>2. /\ notifyList[i].code = notifyList[j].code
            /\ notifyList[i].shift = 0 /\ notifyList[j].shift = 0
        BY <4>1 DEF Matches, IsKeyRegistered
      <4> QED
        BY <4>1, <4>2 DEF DistinctNodes
    <3>2. CASE Matching(code) = {}
      BY <3>2, FS_EmptySet
    <3>3. CASE Matching(code) # {}
      <4>1. PICK i : Matching(code) = {i}
        BY <3>1, <3>3
      <4> QED
        BY <4>1, FS_Singleton
    <3> QED
      BY <3>2, <3>3
  <2>5. key.n = serial + 1 /\ Len(q) \in Nat
    BY <2>2 DEF Typed
  <2>6. /\ \A i \in 1 .. Len(q) : lo < q[i].n /\ q[i].n <= serial
        /\ \A i, j \in 1 .. Len(q) : i < j => q[i].n < q[j].n
    BY DEF QueueOrder, Ordered
  <2>7. \A i \in 1 .. Len(q) : q[i].n \in Nat
    <3>1. \A i \in 1 .. Len(q) : q[i] \in Stamped
      BY <2>2
    <3> QED
      BY <3>1 DEF Stamped
  <2>8. /\ QueueOrder' <=> /\ serial' \in Nat /\ lo \in 0 .. serial'
                           /\ Ordered(notifyQueue', lo, serial')
        /\ CalledInv' <=>
             \A h \in Nat, n \in Nat : <<h, n>> \in calls =>
                /\ n <= serial'
                /\ \A i \in 1 .. Len(notifyQueue') : n # notifyQueue'[i].n
                /\ walk.pc = "walk" /\ n = walk.key.n =>
                      \E j \in 1 .. Len(notifyList) :
                          j < walk.node /\ notifyList[j].handle = h
    BY DEF QueueOrder, Ordered, CalledInv
  <2> HIDE DEF q, all, key, kept, lo
  <2>9. \A i \in 1 .. Len(all) : (i \in 1 .. Len(q) /\ all[i] = q[i])
                                 \/ (i = Len(q) + 1 /\ all[i] = key)
    BY <2>3, <2>4, <2>5
  <2>10. Ordered(all, lo, serial + 1)
    <3>1. \A i \in 1 .. Len(all) : lo < all[i].n /\ all[i].n <= serial + 1
      BY <2>2, <2>5, <2>6, <2>7, <2>9
    <3>2. ASSUME NEW i \in 1 .. Len(all), NEW j \in 1 .. Len(all), i < j
          PROVE  all[i].n < all[j].n
      <4>1. i \in 1 .. Len(q) /\ all[i] = q[i]
        BY <2>5, <2>9, <3>2
      <4>2. CASE j \in 1 .. Len(q) /\ all[j] = q[j]
        BY <2>6, <3>2, <4>1, <4>2
      <4>3. CASE all[j] = key
        BY <2>2, <2>5, <2>6, <2>7, <4>1, <4>3
      <4> QED
        BY <2>9, <4>2, <4>3
    <3> QED
      BY <2>3, <3>1, <3>2 DEF Ordered
  <2>11. Ordered(kept, lo, serial + 1)
    BY <2>2, <2>10, OrderedKept DEF kept
  <2>12. QueueOrder'
    BY <2>1, <2>2, <2>8, <2>11
  <2>13. \A i \in 1 .. Len(kept) : \E k \in 1 .. Len(all) : kept[i] = all[k]
    BY <2>3, KeptKeys DEF kept
  <2>14. ASSUME NEW h \in Nat, NEW n \in Nat, <<h, n>> \in calls
         PROVE  /\ n <= serial + 1
                /\ \A i \in 1 .. Len(kept) : n # kept[i].n
    <3>1. n <= serial /\ \A i \in 1 .. Len(q) : n # q[i].n
      BY <2>14 DEF CalledInv, q
    <3>2. \A k \in 1 .. Len(all) : n # all[k].n
      BY <2>2, <2>5, <2>9, <3>1
    <3> QED
      BY <2>2, <2>13, <3>1, <3>2
  <2>15. \A h \in Nat, n \in Nat : <<h, n>> \in calls =>
            (walk.pc = "walk" /\ n = walk.key.n =>
                \E j \in 1 .. Len(notifyList) : j < walk.node /\ notifyList[j].handle = h)
    BY DEF CalledInv
  <2>16. CalledInv'
    BY <2>1, <2>8, <2>14, <2>15
  <2> QED
    BY <2>12, <2>16
<1> QED
  BY <1>1, <1>2

\* Popping a key leaves younger ones; calling moves behind the walk.
LEMMA HandlerOnce ==
    ASSUME ListInv, WalkInv, DistinctNodes, QueueOrder, CalledInv, Handler
    PROVE  QueueOrder' /\ CalledInv'
<1>0. UNCHANGED <<notifyList, serial>>
  BY DEF Handler, Dispatch, PopNotify, HandlerReturns, WalkNode, WalkEnds, queues, registry
<1>1. /\ walk = [pc |-> walk.pc, key |-> walk.key, node |-> walk.node]
      /\ walk.node \in Nat /\ Len(notifyList) \in Nat
      /\ serial \in Nat /\ walk.key.n \in Nat /\ walk.key.n <= serial
      /\ Ordered(notifyQueue, walk.key.n, serial)
  BY DEF WalkInv, ListInv, QueueOrder
<1>2. QueueOrder' <=> walk'.key.n \in 0 .. serial /\ Ordered(notifyQueue', walk'.key.n, serial)
  BY <1>0, <1>1 DEF QueueOrder, Ordered
<1>3. ASSUME NEW h \in Nat, NEW n \in Nat, <<h, n>> \in calls
      PROVE  /\ n <= serial
             /\ \A i \in 1 .. Len(notifyQueue) : n # notifyQueue[i].n
             /\ walk.pc = "walk" /\ n = walk.key.n =>
                   \E j \in 1 .. Len(notifyList) : j < walk.node /\ notifyList[j].handle = h
  BY <1>3 DEF CalledInv
<1>4. CASE Dispatch \/ WalkEnds
  <2>1. /\ UNCHANGED <<notifyQueue, calls>>
        /\ walk' = [pc |-> "pop", key |-> walk.key, node |-> walk.node]
    BY <1>1, <1>4 DEF Dispatch, WalkEnds, queues
  <2>2. walk'.key = walk.key /\ walk'.pc = "pop"
    BY <2>1
  <2> QED
    BY <1>0, <1>1, <1>2, <1>3, <2>1, <2>2 DEF CalledInv
<1>5. CASE HandlerReturns
  <2>1. notifyQueue = << >> /\ UNCHANGED <<notifyQueue, calls>> /\ walk' = NoWalk
    BY <1>5 DEF HandlerReturns, queues
  <2>2. walk'.key.n = 0 /\ walk'.pc = "idle"
    BY <2>1 DEF NoWalk
  <2>3. Ordered(notifyQueue', 0, serial)
    BY <1>1, <2>1, OrderedEmpty
  <2>4. QueueOrder'
    BY <1>1, <1>2, <2>2, <2>3
  <2> QED
    <3>1. \A h \in Nat, n \in Nat : <<h, n>> \in calls => n <= serial
      BY <1>3
    <3>2. \A n : \A i \in 1 .. Len(notifyQueue') : n # notifyQueue'[i].n
      BY <2>1
    <3>3. walk'.pc # "walk"
      BY <2>2
    <3> QED
      BY <1>0, <2>1, <2>4, <3>1, <3>2, <3>3 DEF CalledInv
<1>6. CASE PopNotify
  <2> DEFINE q == notifyQueue
  <2>1. /\ q # << >> /\ UNCHANGED calls
        /\ walk' = [pc |-> "walk", key |-> Head(q), node |-> 1]
        /\ notifyQueue' = Tail(q)
    BY <1>6 DEF PopNotify
  <2>2. walk'.key = Head(q)
    BY <2>1
  <2>3. /\ Ordered(Tail(q), Head(q).n, serial)
        /\ Head(q).n \in Nat /\ Head(q).n <= serial
    BY <1>1, <2>1, OrderedTail
  <2>4. QueueOrder'
    BY <1>1, <1>2, <2>1, <2>2, <2>3
  <2>5. q \in Seq(Stamped) /\ Len(q) \in Nat
    BY <1>1 DEF Ordered
  <2>6. /\ Head(q) = q[1] /\ 1 \in 1 .. Len(q)
        /\ Len(Tail(q)) = Len(q) - 1
        /\ \A i \in 1 .. Len(Tail(q)) : i + 1 \in 1 .. Len(q) /\ Tail(q)[i] = q[i + 1]
    BY <2>1, <2>5
  <2>7. ASSUME NEW h \in Nat, NEW n \in Nat, <<h, n>> \in calls
        PROVE  /\ n <= serial /\ n # Head(q).n
               /\ \A i \in 1 .. Len(Tail(q)) : n # Tail(q)[i].n
    <3>1. n <= serial /\ \A i \in 1 .. Len(q) : n # q[i].n
      BY <1>3, <2>7
    <3> QED
      BY <2>6, <3>1
  <2> HIDE DEF q
  <2>8. CalledInv'
    BY <1>0, <2>1, <2>2, <2>7 DEF CalledInv
  <2> QED
    BY <2>4, <2>8
<1>7. CASE WalkNode
  <2> DEFINE node == walk.node
             key == walk.key
  <2>1. /\ node <= Len(notifyList) /\ UNCHANGED notifyQueue
        /\ walk' = [pc |-> "walk", key |-> key, node |-> node + 1]
        /\ calls' \subseteq calls \cup {<<notifyList[node].handle, key.n>>}
        /\ walk.pc = "walk"
    BY <1>1, <1>7 DEF WalkNode, queues
  <2>2. walk'.key = key /\ walk'.node = node + 1
    BY <2>1
  <2>3. QueueOrder'
    BY <1>1, <1>2, <2>1, <2>2
  <2>4. /\ node \in Nat /\ key.n \in Nat /\ key.n <= serial
        /\ \A i \in 1 .. Len(notifyQueue) : key.n < notifyQueue[i].n
        /\ \A i \in 1 .. Len(notifyQueue) : notifyQueue[i].n \in Nat
    <3>1. \A i \in 1 .. Len(notifyQueue) : notifyQueue[i] \in Stamped
      BY <1>1 DEF Ordered
    <3>2. \A i \in 1 .. Len(notifyQueue) : notifyQueue[i].n \in Nat
      BY <3>1 DEF Stamped
    <3> QED
      BY <1>1, <3>2 DEF Ordered
  <2>5. node \in 1 .. Len(notifyList)
    BY <1>1, <2>1 DEF WalkInv
  <2> HIDE DEF node, key
  <2>6. ASSUME NEW h \in Nat, NEW n \in Nat, <<h, n>> \in calls'
        PROVE  /\ n <= serial
               /\ \A i \in 1 .. Len(notifyQueue) : n # notifyQueue[i].n
               /\ n = key.n => \E j \in 1 .. Len(notifyList) :
                                  j < node + 1 /\ notifyList[j].handle = h
    <3>1. CASE <<h, n>> \in calls
      <4>1. /\ n <= serial
            /\ \A i \in 1 .. Len(notifyQueue) : n # notifyQueue[i].n
            /\ n = key.n => \E j \in 1 .. Len(notifyList) :
                               j < node /\ notifyList[j].handle = h
        BY <1>3, <2>1, <3>1 DEF node, key
      <4>2. ASSUME NEW j \in 1 .. Len(notifyList), j < node PROVE j < node + 1
        BY <2>4, <4>2
      <4> QED
        BY <4>1, <4>2
    <3>2. CASE h = notifyList[node].handle /\ n = key.n
      <4>1. node < node + 1
        BY <2>4
      <4>2. \A i \in 1 .. Len(notifyQueue) : n # notifyQueue[i].n
        BY <2>4, <3>2
      <4> QED
        BY <2>4, <2>5, <3>2, <4>1, <4>2
    <3> QED
      BY <2>1, <2>6, <3>1, <3>2
  <2>7. CalledInv'
    BY <1>0, <2>1, <2>2, <2>6 DEF CalledInv
  <2> QED
    BY <2>3, <2>7
<1> QED
  BY <1>4, <1>5, <1>6, <1>7 DEF Handler

LEMMA OnceInvStep ==
    ASSUME OneFunctionPerKey, OnceInv, QueueInv, ListInv', WalkInv', [Next]_vars
    PROVE  OnceInv'
<1>1. ListInv /\ WalkInv /\ DistinctNodes /\ QueueOrder /\ CalledInv
  BY DEF OnceInv
<1>2. DistinctNodes'
  BY <1>1, DistinctStep
<1>3. SUFFICES QueueOrder' /\ CalledInv'
  BY <1>2 DEF OnceInv
<1>4. ASSUME NEW code \in Codes \cup {"none"}, NotifyScanned(code),
             UNCHANGED <<notifyList, walk, calls>>
      PROVE  QueueOrder' /\ CalledInv'
  BY <1>1, <1>4, ScanOnce
<1>5. CASE TimerTick
  BY <1>4, <1>5 DEF TimerTick, registry
<1>6. CASE ReadKeyStrokeEx \/ ReadKeyStrokeReturns \/ ReadKeyStrokeSkips
  <2>1. PICK code \in Codes \cup {"none"} : NotifyScanned(code)
    BY <1>6 DEF ReadKeyStrokeEx, ReadKeyStrokeReturns, ReadKeyStrokeSkips, WorkerPops
  <2>2. UNCHANGED <<notifyList, walk, calls>>
    BY <1>6 DEF ReadKeyStrokeEx, ReadKeyStrokeReturns, ReadKeyStrokeSkips, registry
  <2> QED
    BY <1>4, <2>1, <2>2
<1>7. CASE ReadKeyStrokeNotReady \/ WaitForKey
  <2>1. PICK code \in Codes \cup {"none"} : NotifyScanned(code)
    BY <1>7 DEF ReadKeyStrokeNotReady, WorkerFindsNone, WaitForKey
  <2>2. UNCHANGED <<notifyList, walk, calls>>
    BY <1>7 DEF ReadKeyStrokeNotReady, WaitForKey, registry
  <2> QED
    BY <1>4, <2>1, <2>2
<1>8. CASE Reset \/ RegisterKeyNotify \/ UnregisterKeyNotify
  <2>1. walk.pc = "idle" /\ UNCHANGED <<walk, calls, serial>>
    BY <1>8 DEF Reset, RegisterKeyNotify, UnregisterKeyNotify, AppRuns, queues
  <2>2. notifyQueue' = notifyQueue \/ notifyQueue' = << >>
    BY <1>8 DEF Reset, RegisterKeyNotify, UnregisterKeyNotify, queues
  <2>3. serial \in Nat /\ walk.key.n \in Nat /\ Ordered(notifyQueue, walk.key.n, serial)
    BY <1>1 DEF QueueOrder
  <2>4. Ordered(notifyQueue', walk.key.n, serial)
    BY <2>2, <2>3, OrderedEmpty
  <2>5. QueueOrder'
    BY <1>1, <2>1, <2>4 DEF QueueOrder, Ordered
  <2>6. CalledInv'
    <3>1. CASE notifyQueue' = notifyQueue
      BY <1>1, <2>1, <3>1 DEF CalledInv
    <3>2. CASE notifyQueue' = << >>
      <4>1. \A n : \A i \in 1 .. Len(notifyQueue') : n # notifyQueue'[i].n
        BY <3>2
      <4> QED
        BY <1>1, <2>1, <4>1 DEF CalledInv
    <3> QED
      BY <2>2, <3>1, <3>2
  <2> QED
    BY <2>5, <2>6
<1>9. ASSUME UNCHANGED <<notifyList, walk, calls, serial, notifyQueue>>
      PROVE  QueueOrder' /\ CalledInv'
  BY <1>1, <1>9 DEF QueueOrder, Ordered, CalledInv
<1>10. CASE SetState
  BY <1>9, <1>10 DEF SetState, queues
<1>11. CASE Handler
  BY <1>1, <1>11, HandlerOnce
<1>12. CASE UNCHANGED vars
  BY <1>9, <1>12 DEF vars, queues, registry
<1> QED
  BY <1>5, <1>6, <1>7, <1>8, <1>10, <1>11, <1>12 DEF Next, Application

\* The node the walk has come to has not been called for the key.
LEMMA OnceStep ==
    ASSUME OnceInv, WalkNode, Matches(notifyList[walk.node], walk.key)
    PROVE  <<notifyList[walk.node].handle, walk.key.n>> \notin calls
<1> DEFINE h == notifyList[walk.node].handle
           n == walk.key.n
<1>1. ListInv /\ WalkInv /\ DistinctNodes /\ QueueOrder /\ CalledInv
  BY DEF OnceInv
<1>2. walk.pc = "walk" /\ walk.node <= Len(notifyList)
  BY DEF WalkNode
<1>3. walk.node \in 1 .. Len(notifyList) /\ notifyList \in Seq(Entry)
  BY <1>1, <1>2 DEF WalkInv, ListInv
<1>4. notifyList[walk.node] \in Entry
  BY <1>3
<1>5. h \in Nat /\ n \in Nat
  <2>1. h \in Nat
    BY <1>4, EntryFields
  <2>2. n \in Nat
    BY <1>1 DEF QueueOrder
  <2> QED
    BY <2>1, <2>2
<1>6. SUFFICES ASSUME <<h, n>> \in calls PROVE FALSE
  OBVIOUS
<1>7. PICK j \in 1 .. Len(notifyList) : j < walk.node /\ notifyList[j].handle = h
  BY <1>1, <1>2, <1>5, <1>6 DEF CalledInv
<1>8. j = walk.node
  BY <1>1, <1>3, <1>7 DEF DistinctNodes
<1> QED
  BY <1>3, <1>7, <1>8

\* Unless two functions are asked for on one key, no function is called twice
\* for one press, however ticks, reads, resets and registrations come between.
\* Where two are, it is violated: that is what KeypadNotifyTwice shows.
THEOREM NotifiedOnceHolds == OneFunctionPerKey => (Spec => NotifiedOnce)
<1> SUFFICES ASSUME OneFunctionPerKey PROVE Spec => NotifiedOnce
  OBVIOUS
<1>1. Init => DeliverInv /\ OnceInv
  <2> SUFFICES ASSUME Init PROVE DeliverInv /\ OnceInv
    OBVIOUS
  <2>1. DeliverInv
    BY DeliverInit
  <2>2. DistinctNodes
    BY DEF Init, DistinctNodes
  <2>3. QueueOrder
    BY OrderedEmpty DEF Init, NoWalk, QueueOrder
  <2>4. CalledInv
    BY DEF Init, CalledInv
  <2> QED
    BY <2>1, <2>2, <2>3, <2>4 DEF DeliverInv, OnceInv
<1>2. DeliverInv /\ OnceInv /\ [Next]_vars => DeliverInv' /\ OnceInv'
  <2> SUFFICES ASSUME DeliverInv, OnceInv, [Next]_vars PROVE DeliverInv' /\ OnceInv'
    OBVIOUS
  <2>1. DeliverInv'
    BY DeliverInvStep
  <2>2. QueueInv /\ ListInv' /\ WalkInv'
    BY <2>1 DEF DeliverInv
  <2> QED
    BY <2>1, <2>2, OnceInvStep
<1>3. OnceInv /\ [Next]_vars
        => [WalkNode /\ Matches(notifyList[walk.node], walk.key)
              => <<notifyList[walk.node].handle, walk.key.n>> \notin calls]_vars
  BY OnceStep
<1> QED
  BY <1>1, <1>2, <1>3, PTL DEF Spec, NotifiedOnce
=============================================================================
