----------------------------- MODULE SpmiArbiter -----------------------------
(***************************************************************************)
(* The SPMI arbiter driver (SpmiDxe/spmi.c): one command at a time to a    *)
(* register peripheral of a power management chip, through a channel's     *)
(* configuration, data, command and status registers.                      *)
(*                                                                         *)
(* Two contexts call it.  "app" is code at TPL_APPLICATION (reset, PMIC    *)
(* set-up); "timer" is the keypad poll, whose timer notification may run   *)
(* between any two register accesses of the other and runs to its end.     *)
(* The channel number is a static variable of the driver, and the channel  *)
(* registers hold one command: neither is saved for the interrupted call.  *)
(***************************************************************************)
EXTENDS Naturals, Sequences

CONSTANTS Versions,       \* the arbiter versions (PcdSpmiVersion and hardware)
          InterruptedOn,  \* those on which the poll may interrupt a call
          Slaves,         \* slave_id: one per chip half
          Sizes,          \* param->size of the application's calls
          Values,         \* first byte of a write; the following bytes count up
          SpmiCalls       \* bound on the calls of a behaviour

ASSUME SpmiAssumption ==
    /\ InterruptedOn \subseteq Versions /\ Versions \subseteq {1, 2}
    /\ Slaves = {0, 1} /\ Sizes \subseteq 1 .. 8 /\ Values \subseteq Nat

VARIABLES arb,      \* the version this behaviour runs with
          chnlTbl,  \* chnl_tbl, empty until spmi_init fills it
          chnlNum,  \* pmic_arb_chnl_num
          port,     \* the channels' registers
          regs,     \* the registers of the peripherals
          ctx,      \* each context's call
          spmiLeft  \* calls still allowed by SpmiCalls
spmiVars == <<arb, chnlTbl, chnlNum, port, regs, ctx, spmiLeft>>

Contexts == {"app", "timer"}
Periph == Slaves      \* one register peripheral of each slave
Offsets == 0 .. 8
V2 == arb = 2
Channels == 0 .. 2

\* Hardware: channel i of a version 2 arbiter is wired to one peripheral, as
\* its PMICV2_ARB_REG_CHLN(i) register says.
Wired(p) == p + 1
PeriphOf(i) == i - 1

\* The register block a command goes through: version 2 observes (reads)
\* through registers of their own.
Block(op, n) == IF V2 /\ op = "read" THEN <<"obs", n>> ELSE <<"core", n>>
Least(m, n) == IF m < n THEN m ELSE n

\* What a pair of data registers holds besides the bytes last put there.
Padded(data) == data \o [i \in 1 .. 8 - Len(data) |-> 0]

IdlePort == [cmd |-> [op |-> "none"], status |-> "none", wdata |-> Padded(<<>>), rdata |-> Padded(<<>>)]
IdleCtx == [pc |-> "idle", op |-> "read", peri |-> 0, off |-> 0,
            data |-> <<>>, size |-> 1, buf |-> <<>>, ret |-> "none", disturbed |-> FALSE]

\* At most four bytes at a time travel in a data register.
Chunk(data, k) == SubSeq(data, 4 * k + 1, Least(Len(data), 4 * k + 4))
Slice(p, off, size) == [i \in 1 .. size |-> regs[<<p, off + i - 1>>]]
Written(p, off, data) ==
    [r \in Periph \X Offsets |->
        IF r[1] = p /\ r[2] - off \in 0 .. Len(data) - 1 THEN data[r[2] - off + 1] ELSE regs[r]]

SpmiInit ==
    /\ arb \in Versions /\ spmiLeft = SpmiCalls
    /\ chnlTbl = <<>> /\ chnlNum = 0
    /\ port = [b \in {"core", "obs"} \X Channels |-> IdlePort]
    /\ regs = [r \in Periph \X Offsets |-> 0]
    /\ ctx = [c \in Contexts |-> IdleCtx]

\* spmi_init: only a version 2 arbiter has a table to look channels up in;
\* version 1 uses PcdPmicArbChannelNum, which is 0, for everything.
SpmiSetUp ==
    /\ chnlTbl = <<>>
    /\ chnlTbl' = [p \in Periph |-> IF V2 THEN Wired(p) ELSE 0]
    /\ UNCHANGED <<arb, chnlNum, port, regs, ctx, spmiLeft>>

\* A context runs unless the timer has interrupted it.
Runs(c) == c = "timer" \/ ctx["timer"].pc = "idle"

Advance(c, changes) == ctx' = [ctx EXCEPT ![c] = changes]

\* A call of pmic_arb_write_cmd or pmic_arb_read_cmd.  The poll only reads
\* single registers; it comes at any point of an application's call if the
\* arbiter allows, and is remembered there.
CallSpmi(c) ==
    /\ chnlTbl # <<>> /\ spmiLeft > 0 /\ ctx[c].pc = "idle" /\ Runs(c)
    /\ c = "timer" => (arb \in InterruptedOn \/ ctx["app"].pc = "idle")
    /\ \E op \in {"read", "write"}, p \in Periph, off \in {0, 1}, size \in Sizes, v \in Values :
          /\ c = "timer" => op = "read" /\ size = 1
          /\ ctx' = [d \in Contexts |->
                IF d = c
                THEN [IdleCtx EXCEPT !.pc = "select", !.op = op, !.peri = p, !.off = off, !.size = size,
                         !.data = IF op = "write" THEN [i \in 1 .. size |-> v + i - 1] ELSE <<>>]
                ELSE [ctx[d] EXCEPT !.disturbed = @ \/ ctx[d].pc # "idle"]]
    /\ spmiLeft' = spmiLeft - 1
    /\ UNCHANGED <<arb, chnlTbl, chnlNum, port, regs>>

\* The channel is looked up and its interrupt mode, which nothing uses, is
\* switched off.
SelectChannel(c) ==
    /\ ctx[c].pc = "select" /\ Runs(c)
    /\ chnlNum' = IF V2 THEN chnlTbl[ctx[c].peri] ELSE chnlNum
    /\ Advance(c, [ctx[c] EXCEPT !.pc = IF ctx[c].op = "write" THEN "wdata0" ELSE "command"])
    /\ UNCHANGED <<arb, chnlTbl, port, regs, spmiLeft>>

\* write_wdata_from_array: WDATA0, and WDATA1 for what is left.
WriteData(c) ==
    \E k \in {0, 1} :
       /\ ctx[c].pc = <<"wdata0", "wdata1">>[k + 1] /\ Runs(c)
       /\ port' = [port EXCEPT ![Block("write", chnlNum)].wdata =
                      SubSeq(@, 1, 4 * k) \o SubSeq(Padded(Chunk(ctx[c].data, k)), 1, 4)
                          \o SubSeq(@, 4 * k + 5, 8)]
       /\ Advance(c, [ctx[c] EXCEPT !.pc = IF k = 0 /\ ctx[c].size > 4 THEN "wdata1" ELSE "command"])
       /\ UNCHANGED <<arb, chnlTbl, chnlNum, regs, spmiLeft>>

\* Mutant of ByteCount: the count as it is, within what a command can move.
ByteCountFull(size) == Least(size, 7)

\* The byte count of a command is one less than the bytes it moves.
ByteCount(size) == size - 1

\* The command word, which starts the command.  Version 1 names the peripheral
\* in it; version 2 leaves that to the channel it is written to.
WriteCommand(c) ==
    /\ ctx[c].pc = "command" /\ Runs(c)
    /\ port' = [port EXCEPT ![Block(ctx[c].op, chnlNum)] =
          [@ EXCEPT !.status = "none",
             !.cmd = [op |-> ctx[c].op, off |-> ctx[c].off, cnt |-> ByteCount(ctx[c].size),
                      peri |-> IF V2 THEN PeriphOf(chnlNum) ELSE ctx[c].peri]]]
    /\ Advance(c, [ctx[c] EXCEPT !.pc = "poll"])
    /\ UNCHANGED <<arb, chnlTbl, chnlNum, regs, spmiLeft>>

\* Hardware: a command is carried out, or refused with an error status.
Execute ==
    \E b \in DOMAIN port :
       LET cmd == port[b].cmd
           n == cmd.cnt + 1
       IN /\ cmd.op # "none"
          /\ \/ /\ port' = [port EXCEPT ![b] =
                      [port[b] EXCEPT !.cmd = IdlePort.cmd, !.status = "done",
                          !.rdata = IF cmd.op = "read" THEN Padded(Slice(cmd.peri, cmd.off, n))
                                    ELSE port[b].rdata]]
                /\ regs' = IF cmd.op = "write"
                           THEN Written(cmd.peri, cmd.off, SubSeq(port[b].wdata, 1, n)) ELSE regs
             \/ /\ port' = [port EXCEPT ![b] = [@ EXCEPT !.cmd = IdlePort.cmd, !.status = "failed"]]
                /\ UNCHANGED regs
          /\ UNCHANGED <<arb, chnlTbl, chnlNum, ctx, spmiLeft>>

\* How many data registers an answer of a size takes.
ReadWords(size) == (size + 3) \div 4

\* The wait for a status, without a limit.  Any status but "done" alone is
\* returned as the error; a read then fetches RDATA0 and what follows.
PollStatus(c) ==
    LET status == port[Block(ctx[c].op, chnlNum)].status
        more == status = "done" /\ ctx[c].op = "read"
    IN /\ ctx[c].pc = "poll" /\ Runs(c) /\ status # "none"
       /\ Advance(c, [ctx[c] EXCEPT !.pc = IF more THEN "rdata" ELSE "idle",
                                    !.ret = CASE status # "done" -> "error" [] more -> @ [] OTHER -> "ok"])
       /\ UNCHANGED <<arb, chnlTbl, chnlNum, port, regs, spmiLeft>>

\* read_rdata_into_array, one register per step.
ReadData(c) ==
    LET k == (Len(ctx[c].buf) + 3) \div 4
        word == Chunk(port[Block("read", chnlNum)].rdata, k)
        last == k + 1 = ReadWords(ctx[c].size)
    IN /\ ctx[c].pc = "rdata" /\ Runs(c)
       /\ Advance(c, [ctx[c] EXCEPT !.buf = @ \o SubSeq(word, 1, Least(4, ctx[c].size - 4 * k)),
                                    !.pc = IF last THEN "idle" ELSE @,
                                    !.ret = IF last THEN "ok" ELSE @])
       /\ UNCHANGED <<arb, chnlTbl, chnlNum, port, regs, spmiLeft>>

SpmiStep(c) == SelectChannel(c) \/ WriteData(c) \/ WriteCommand(c) \/ PollStatus(c) \/ ReadData(c)
SpmiNext == SpmiSetUp \/ Execute \/ \E c \in Contexts : CallSpmi(c) \/ SpmiStep(c)
SpmiSpec == SpmiInit /\ [][SpmiNext]_spmiVars

-----------------------------------------------------------------------------
(* Properties                                                              *)

SpmiTypeOK ==
    /\ arb \in Versions /\ spmiLeft \in 0 .. SpmiCalls /\ chnlNum \in Channels
    /\ regs \in [Periph \X Offsets -> Nat]
    /\ \A c \in Contexts : Len(ctx[c].buf) <= ctx[c].size

Returning(c) == ctx[c].pc # "idle" /\ ctx'[c].pc = "idle" /\ ctx'[c].ret = "ok"

\* What a call that returns 0 says is so: the bytes read are those of the
\* registers it named, the bytes written are in them.  It holds of the poll
\* and of every call the poll did not interrupt.
AnswerIsTrue(c) ==
    IF ctx[c].op = "read" THEN ctx'[c].buf = Slice(ctx[c].peri, ctx[c].off, ctx[c].size)
    ELSE Slice(ctx[c].peri, ctx[c].off, ctx[c].size) = ctx[c].data
AnswersTrue == \A c \in Contexts : Returning(c) /\ ~ctx[c].disturbed => AnswerIsTrue(c)

\* Registers change only to what the application's call in progress writes,
\* and only where it writes, however the poll cuts in.
WritesAsAsked ==
    regs' # regs => /\ ctx["app"].op = "write"
                    /\ regs' = Written(ctx["app"].peri, ctx["app"].off, ctx["app"].data)
SpmiServes == [][AnswersTrue /\ WritesAsAsked]_spmiVars

\* An interrupted call that returns 0 tells the truth as well: the comment on
\* pmic_arb_read_cmd says "0 if success".
InterruptedTrue == [][\A c \in Contexts : Returning(c) => AnswerIsTrue(c)]_spmiVars
==============================================================================
