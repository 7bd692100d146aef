-------------------------------- MODULE Bam --------------------------------
(***************************************************************************)
(* The bus access manager's descriptor ring (BamDxe/bam.c): a pipe is set  *)
(* up, and then each transfer is cut into descriptors that are written to  *)
(* the ring, announced through the event register, awaited, and followed   *)
(* by a read of the offset where the hardware stopped.                     *)
(*                                                                         *)
(* The ring is shared memory: the hardware takes descriptors as soon as    *)
(* they are announced, while the driver goes on.                           *)
(***************************************************************************)
EXTENDS Naturals, Sequences

CONSTANTS FifoSize,      \* pipe.fifo.size, in descriptors
          DescLen,       \* BAM_MAX_DESC_DATA_LEN
          BamLengths,    \* the lengths of the transfers asked for
          BamFlags,      \* the flags asked for with the last descriptor
          FifoSetUps,    \* {TRUE}: the fifo is initialised before use
          BamTransfers,  \* bound on the transfers of a behaviour
          BamErrors      \* bound on the descriptors that fail

\* The sizes bam_pipe_fifo_init lets pass: powers of two up to 0x7FFF.
ASSUME BamAssumption ==
    /\ FifoSize \in {2, 4, 8, 16, 32, 64, 128, 256, 512, 1024, 2048, 4096, 8192, 16384}
    /\ DescLen \in Nat \ {0} /\ BamLengths \subseteq Nat
    /\ BamFlags \subseteq SUBSET {"INT", "EOT", "CMD", "LOCK", "UNLOCK"}
    /\ BamTransfers \in Nat /\ BamErrors \in Nat

VARIABLES pipe,    \* the driver's pipe: [initialized, current, offset]
          ring,    \* the descriptors in memory
          hw,      \* the pipe's hardware: [on, read, event, irq]
          bpc,     \* the driver's next step
          job,     \* the transfer asked for, with its descriptors' number
          moved,   \* the bytes the hardware moved for it, in order
          result,  \* what the calls returned
          bamLeft, bamErrors
bamVars == <<pipe, ring, hw, bpc, job, moved, result, bamLeft, bamErrors>>

Slots == 0 .. FifoSize - 1
Garbage == [first |-> 0, len |-> 0, flags |-> {}, job |-> 0]
Fewer(m, n) == IF m < n THEN m ELSE n

\* fifo_getnext.
FifoGetNext(slot) == IF slot = FifoSize - 1 THEN 0 ELSE slot + 1

\* Mutant of EventOffset: the number of descriptors added to the offset itself.
EventOffsetLate(offset, n) == (n + offset) % FifoSize
\* bam_sys_gen_event: where the last announced descriptor ends.
EventOffset(offset, n) == (n - 1 + offset) % FifoSize

-----------------------------------------------------------------------------
(* Set-up.                                                                 *)

\* bam_init, bam_sys_pipe_init: reset, interrupts on, pipe on, fifo not there.
PipeInit ==
    /\ bpc = "start" /\ hw' = [on |-> TRUE, read |-> 0, event |-> 0, irq |-> {}]
    /\ pipe' = [pipe EXCEPT !.initialized = FALSE]
    /\ bpc' = "fifo" /\ UNCHANGED <<ring, job, moved, result, bamLeft, bamErrors>>
\* bam_pipe_fifo_init, if the client calls it.
FifoInit ==
    /\ bpc = "fifo" /\ bpc' = "idle"
    /\ \E called \in FifoSetUps :
          pipe' = IF called THEN [initialized |-> TRUE, current |-> 0, offset |-> 1] ELSE pipe
    /\ UNCHANGED <<ring, hw, job, moved, result, bamLeft, bamErrors>>

-----------------------------------------------------------------------------
(* bam_add_desc.                                                           *)

\* The arguments and the space are checked.
AddDesc(len, flags) ==
    /\ bpc = "idle" /\ bamLeft > 0 /\ bamLeft' = bamLeft - 1
    /\ moved' = <<>> /\ job' = [id |-> bamLeft, len |-> len, flags |-> flags, left |-> len, n |-> 0]
    /\ IF len = 0 \/ len > FifoSize * DescLen THEN bpc' = "idle" /\ result' = "refused"
       ELSE bpc' = "descriptors" /\ result' = "none"
    /\ UNCHANGED <<pipe, ring, hw, bamErrors>>

\* What bam_add_one_desc refuses; its caller does not look.
Rejected(flags) == ~pipe.initialized \/ {"LOCK", "UNLOCK"} \subseteq flags \/ {"EOT", "CMD"} \subseteq flags
\* The next descriptor, the flags on the last only.
AddOneDesc ==
    /\ bpc = "descriptors" /\ job.left > 0
    /\ LET len == Fewer(job.left, DescLen)
           flags == IF job.left > DescLen THEN {} ELSE job.flags
           d == [first |-> job.n * DescLen, len |-> len, flags |-> flags, job |-> job.id]
       IN /\ job' = [job EXCEPT !.left = @ - len, !.n = @ + 1]
          /\ IF Rejected(flags) THEN UNCHANGED <<ring, pipe>>
             ELSE /\ ring' = [ring EXCEPT ![pipe.current] = d]
                  /\ pipe' = [pipe EXCEPT !.current = FifoGetNext(pipe.current)]
    /\ UNCHANGED <<hw, bpc, moved, result, bamLeft, bamErrors>>

\* bam_sys_gen_event, which declines a full ring without telling.
GenEvent ==
    /\ bpc = "descriptors" /\ job.left = 0
    /\ hw' = IF job.n >= FifoSize THEN hw ELSE [hw EXCEPT !.event = EventOffset(pipe.offset, job.n)]
    /\ bpc' = "wait" /\ result' = "accepted"
    /\ UNCHANGED <<pipe, ring, job, moved, bamLeft, bamErrors>>

-----------------------------------------------------------------------------
(* The hardware.                                                           *)

\* It takes the next announced descriptor and moves its data; INT and EOT
\* raise their interrupts, and so does the last announced one.
TakeDescriptor ==
    /\ hw.on /\ hw.read # hw.event
    /\ LET d == ring[hw.read]
           next == (hw.read + 1) % FifoSize
       IN /\ moved' = moved \o [i \in 1 .. d.len |-> d.first + i - 1]
          /\ hw' = [hw EXCEPT !.read = next,
                              !.irq = @ \cup (IF "INT" \in d.flags THEN {"processed"} ELSE {})
                                        \cup (IF "EOT" \in d.flags THEN {"transfer end"} ELSE {})
                                        \cup (IF next = hw.event THEN {"out of descriptors"} ELSE {})]
    /\ UNCHANGED <<pipe, ring, bpc, job, result, bamLeft, bamErrors>>

\* A descriptor fails: the pipe reports the error and stops.
FailDescriptor ==
    /\ hw.on /\ hw.read # hw.event /\ bamErrors > 0 /\ bamErrors' = bamErrors - 1
    /\ hw' = [hw EXCEPT !.on = FALSE, !.irq = @ \cup {"error"}]
    /\ UNCHANGED <<pipe, ring, bpc, job, moved, result, bamLeft>>

-----------------------------------------------------------------------------
(* bam_wait_for_interrupt and bam_read_offset_update, as the clients use   *)
(* them: the interrupt that goes with the flags is awaited.                *)

Awaited == IF "EOT" \in job.flags THEN "transfer end" ELSE "processed"

\* Mutant of Acknowledged: the awaited interrupt is cleared, the others stay.
AcknowledgedOne(irq) == irq \ {Awaited}
\* The clear register takes the three kinds at once.
Acknowledged(irq) == irq \ {"processed", "transfer end", "out of descriptors"}

WaitDone ==
    /\ bpc = "wait" /\ Awaited \in hw.irq /\ "error" \notin hw.irq
    /\ hw' = [hw EXCEPT !.irq = Acknowledged(@)]
    /\ bpc' = "update" /\ result' = "done"
    /\ UNCHANGED <<pipe, ring, job, moved, bamLeft, bamErrors>>
WaitFails ==
    /\ bpc = "wait"
    /\ "error" \in hw.irq \/ ("transfer end" \in hw.irq /\ Awaited # "transfer end")
    /\ bpc' = "start" /\ result' = "failed"
    /\ UNCHANGED <<pipe, ring, hw, job, moved, bamLeft, bamErrors>>

ReadOffsetUpdate ==
    /\ bpc = "update" /\ bpc' = "idle"
    /\ pipe' = [pipe EXCEPT !.current = hw.read, !.offset = hw.read + 1]
    /\ UNCHANGED <<ring, hw, job, moved, result, bamLeft, bamErrors>>

-----------------------------------------------------------------------------
BamInit ==
    /\ pipe = [initialized |-> FALSE, current |-> 0, offset |-> 0]
    /\ ring = [s \in Slots |-> Garbage]
    /\ hw = [on |-> FALSE, read |-> 0, event |-> 0, irq |-> {}]
    /\ bpc = "start" /\ job = [id |-> 0, len |-> 0, flags |-> {}, left |-> 0, n |-> 0]
    /\ moved = <<>> /\ result = "none" /\ bamLeft = BamTransfers /\ bamErrors = BamErrors

BamDriver ==
    \/ PipeInit \/ FifoInit \/ AddOneDesc \/ GenEvent
    \/ WaitDone \/ WaitFails \/ ReadOffsetUpdate
BamNext ==
    \/ BamDriver \/ TakeDescriptor \/ FailDescriptor
    \/ \E len \in BamLengths, flags \in BamFlags : AddDesc(len, flags)

\* The driver runs on and the hardware works off what it is told of.
BamSpec == BamInit /\ [][BamNext]_bamVars /\ WF_bamVars(BamDriver) /\ WF_bamVars(TakeDescriptor)

-----------------------------------------------------------------------------
(* Properties.                                                             *)

BamTypeOK ==
    /\ pipe.current \in Slots /\ pipe.offset \in 0 .. FifoSize /\ hw.read \in Slots /\ hw.event \in Slots
    /\ job.n \in 0 .. FifoSize /\ Len(moved) <= FifoSize * DescLen

\* The hardware takes only descriptors that the running transfer wrote, and
\* takes none of them twice: what lies between its position and the announced
\* end is this transfer's.
Announced == { s \in Slots : (s + FifoSize - hw.read) % FifoSize < (hw.event + FifoSize - hw.read) % FifoSize }
OnlyWritten == hw.on /\ bpc # "start" => \A s \in Announced : ring[s].job = job.id /\ ring[s].len > 0

\* A transfer that is reported done has moved every byte it was asked to move,
\* once and in order, across the ring's end too, and the next one starts where
\* the hardware stands.
DoneIsMoved ==
    /\ result = "done" => moved = [i \in 1 .. job.len |-> i - 1]
    /\ bpc = "idle" /\ pipe.initialized /\ hw.on => pipe.current = hw.read /\ hw.read = hw.event

BamMovesTruly == BamTypeOK /\ OnlyWritten /\ DoneIsMoved

\* Every accepted transfer comes to an end.
BamTransferEnds == bpc = "wait" ~> bpc # "wait"

\* A transfer that is accepted has been announced to the hardware.
AcceptedAnnounced == result = "accepted" => Len(moved) > 0 \/ hw.event # hw.read \/ ~hw.on
=============================================================================
