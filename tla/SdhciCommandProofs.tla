------------------------- MODULE SdhciCommandProofs -------------------------
(* Proofs about sdhci_send_command, for any limits of its loops and any set  *)
(* of error bits: its counters keep within their limits whatever the        *)
(* controller does, and with an orderly controller it implements SdhciPort. *)
EXTENDS SdhciCommand, TLAPS

-----------------------------------------------------------------------------
(* The strengthening: what the status bits of an orderly controller say of  *)
(* the command that is with it.                                             *)

Polling == {"pollCommand", "testCommand"}
Transferring == {"pollTransfer", "testTransfer"}

\* Between two calls the controller has nothing to do and nothing to tell.
IdleClean == ~Issued => active = {} /\ sts = {} /\ err = {}

\* A phase that is under way has not been reported.
PhasesOpen ==
    /\ "response" \in active => /\ ~answered /\ sts = {}
                                /\ cmd.transfer => "data" \in active
    /\ "data" \in active => /\ cmd.transfer /\ ~moved /\ "TRANS_COMPLETE" \notin sts
                            /\ "response" \in active \/ answered

\* A status bit is about the command last written.
BitsOwn ==
    /\ "CMD_COMPLETE" \in sts => answered \/ err # {}
    /\ "TRANS_COMPLETE" \in sts => answered /\ moved /\ cmd.transfer /\ active = {}

\* A phase that is over has left its bit, or an error.
PhasesClosed ==
    /\ pc \in Polling /\ "response" \notin active => "CMD_COMPLETE" \in sts \/ err # {}
    /\ pc \in Polling \cup Transferring /\ cmd.transfer /\ active = {}
          => "TRANS_COMPLETE" \in sts \/ err # {}

\* What the driver has read still holds: bits stay until it clears them.
ReadHolds ==
    /\ pc \in {"testCommand", "testTransfer"} /\ "ERR" \in int_status => err # {}
    /\ pc = "testCommand" /\ "CMD_COMPLETE" \in int_status => "CMD_COMPLETE" \in sts
    /\ pc = "testTransfer" /\ "TRANS_COMPLETE" \in int_status => "TRANS_COMPLETE" \in sts
    /\ pc = "testCommand" /\ PatienceEnds(SDHCI_MAX_CMD_RETRY)
          => "CMD_COMPLETE" \in int_status \/ "ERR" \in int_status
    /\ pc = "testTransfer" /\ PatienceEnds(cmd.max_trans_retry)
          => "TRANS_COMPLETE" \in int_status \/ "ERR" \in int_status

\* Where the driver stands in its two loops.
LoopState ==
    /\ pc \in Polling \cup Transferring => ~trans_complete
    /\ pc \in Transferring => /\ cmd.transfer /\ sts \subseteq {"TRANS_COMPLETE"}
                              /\ "response" \notin active /\ (answered \/ err # {})

\* Past the loops either an error is up, or the command is done.
DoneOrError ==
    /\ pc = "errors" /\ trans_complete => answered /\ moved
    /\ pc = "errors" /\ err = {}
          => active = {} /\ sts = {} /\ answered /\ (cmd.transfer => moved)

PortInv ==
    orderly =>
        /\ err \subseteq CmdErrors \cup DatErrors
        /\ IdleClean /\ PhasesOpen /\ BitsOwn /\ PhasesClosed
        /\ ReadHolds /\ LoopState /\ DoneOrError

-----------------------------------------------------------------------------
(* Type correctness                                                         *)

LEMMA CommandFields ==
    ASSUME NEW c \in Command
    PROVE  /\ c.transfer \in BOOLEAN /\ c.tuning \in BOOLEAN
           /\ c.max_trans_retry \in Nat \ {0}
BY LimitsAssumption DEF Command

\* A poll that finds nothing it acts on gives the command up, takes the tuning
\* error for the end of it, or goes on.
LEMMA PollOutcomes ==
    ASSUME NEW from, NEW back, NEW limit, NEW fatal, NothingYet(from, back, limit, fatal)
    PROVE  /\ pc = from
           /\ UNCHANGED <<cmd, int_status, trans_complete, answered, moved, orderly>>
           /\ \/ ResetLines /\ pc' = "idle" /\ ret' = 1 /\ retry' = retry
              \/ /\ PatienceEnds(limit) /\ pc' = "errors" /\ ret' = 1 /\ retry' = retry + 1
                 /\ UNCHANGED <<sts, err, active>>
              \/ /\ ~PatienceEnds(limit) /\ pc' = back /\ ret' = ret /\ retry' = retry + 1
                 /\ UNCHANGED <<sts, err, active>>
BY DEF NothingYet, controller

\* A poll that is not the last leaves the counter below its limit.
LEMMA CountersKept ==
    TypeOK /\ [Next]_vars => TypeOK'
<1> SUFFICES ASSUME TypeOK, [Next]_vars PROVE TypeOK'
  OBVIOUS
<1>0. SDHCI_MAX_CMD_RETRY \in Nat \ {0}
  BY LimitsAssumption
<1> USE <1>0 DEF TypeOK
<1>1. ASSUME NEW c \in Command, SendCommand(c) PROVE TypeOK'
  BY <1>1 DEF SendCommand, controller
<1>2. CASE LinesBusy
  BY <1>2 DEF LinesBusy, controller
<1>3. CASE LinesFree
  <2>2. active' \subseteq {"response", "data"}
    BY <1>3 DEF LinesFree
  <2>3. /\ pc' = "pollCommand" /\ retry' = 0 /\ trans_complete' = FALSE /\ ret' = 0
        /\ answered' = FALSE /\ moved' = FALSE
        /\ UNCHANGED <<cmd, int_status, sts, err, orderly>>
    BY <1>3 DEF LinesFree
  <2>4. retry' \in Nat /\ retry' < SDHCI_MAX_CMD_RETRY
    BY <2>3
  <2>5. trans_complete' \in BOOLEAN /\ answered' \in BOOLEAN /\ moved' \in BOOLEAN
    BY <2>3
  <2> QED
    BY <2>2, <2>3, <2>4, <2>5
<1>4. CASE PollCommand \/ PollTransfer
  BY <1>4 DEF PollCommand, PollTransfer, ReadStatus, NormalStatus, controller
<1>5. CASE CommandComplete
  <2>1. retry' < cmd.max_trans_retry
    BY <1>5, CommandFields DEF CommandComplete
  <2>2. sts' \subseteq {"CMD_COMPLETE", "TRANS_COMPLETE"}
    BY <1>5 DEF CommandComplete
  <2> QED
    BY <1>5, <2>1, <2>2 DEF CommandComplete
<1>5a. CASE CommandError
  BY <1>5a DEF CommandError, controller
<1>6. CASE CommandNotYet
  <2>1. NothingYet("testCommand", "pollCommand", SDHCI_MAX_CMD_RETRY, CmdErrors)
    BY <1>6 DEF CommandNotYet
  <2>a. pc = "testCommand" /\ UNCHANGED <<cmd, int_status, trans_complete, answered, moved, orderly>>
    BY <2>1, PollOutcomes
  <2>2. CASE ResetLines /\ pc' = "idle" /\ ret' = 1 /\ retry' = retry
    BY <2>a, <2>2 DEF ResetLines
  <2>3. CASE retry' = retry + 1 /\ pc' = "errors" /\ ret' = 1 /\ UNCHANGED <<sts, err, active>>
    BY <2>a, <2>3
  <2>4. CASE /\ retry' = retry + 1 /\ ~PatienceEnds(SDHCI_MAX_CMD_RETRY)
             /\ pc' = "pollCommand" /\ ret' = ret /\ UNCHANGED <<sts, err, active>>
    BY <2>a, <2>4 DEF PatienceEnds
  <2> QED
    BY <2>1, <2>2, <2>3, <2>4, PollOutcomes
<1>7. CASE TransferComplete \/ TransferError
  BY <1>7 DEF TransferComplete, TransferError, controller
<1>8. CASE TransferNotYet
  <2>1. NothingYet("testTransfer", "pollTransfer", cmd.max_trans_retry, {"DAT_TIMEOUT", "DAT_CRC"})
    BY <1>8 DEF TransferNotYet
  <2>a. pc = "testTransfer" /\ UNCHANGED <<cmd, int_status, trans_complete, answered, moved, orderly>>
    BY <2>1, PollOutcomes
  <2>2. CASE ResetLines /\ pc' = "idle" /\ ret' = 1 /\ retry' = retry
    BY <2>a, <2>2 DEF ResetLines
  <2>3. CASE retry' = retry + 1 /\ pc' = "errors" /\ ret' = 1 /\ UNCHANGED <<sts, err, active>>
    BY <2>a, <2>3
  <2>4. CASE /\ retry' = retry + 1 /\ ~PatienceEnds(cmd.max_trans_retry)
             /\ pc' = "pollTransfer" /\ ret' = ret /\ UNCHANGED <<sts, err, active>>
    <3>1. cmd.max_trans_retry \in Nat
      BY CommandFields
    <3> QED
      BY <2>a, <2>4, <3>1 DEF PatienceEnds
  <2> QED
    BY <2>1, <2>2, <2>3, <2>4, PollOutcomes
<1>9. CASE CheckErrors
  BY <1>9 DEF CheckErrors, ResetLines
<1>10. CASE Answer \/ DataDone
  BY <1>10 DEF Answer, DataDone, driver
<1>11. ASSUME NEW e \in ErrorBits, AnswerError(e) \/ DataError(e) \/ VendorError(e)
       PROVE  TypeOK'
  BY <1>11 DEF AnswerError, DataError, VendorError, driver
<1>12. CASE UNCHANGED vars
  BY <1>12 DEF vars, driver, controller
<1> QED
  BY <1>1, <1>2, <1>3, <1>4, <1>5, <1>5a, <1>6, <1>7, <1>8, <1>9, <1>10, <1>11,
     <1>12 DEF Next, Driver, Controller

LEMMA CountersBegin == Init => TypeOK
<1>1. Init => cmd \in Command
  BY DEF Init, Command
<1>2. Init => orderly \in BOOLEAN
  BY LimitsAssumption DEF Init
<1> SUFFICES ASSUME Init PROVE TypeOK
  OBVIOUS
<1>3. cmd \in Command /\ orderly \in BOOLEAN
  BY <1>1, <1>2
<1> QED
  BY <1>3 DEF Init, TypeOK

\* The driver's registers have their types and no retry counter passes the
\* limit it is compared with (sdhci_send_command, sdhci_cmd_complete),
\* whatever the controller reports and whenever it does.
THEOREM CommandTypeOK == Spec => []TypeOK
<1>1. Init => TypeOK
  BY CountersBegin
<1>2. TypeOK /\ [Next]_vars => TypeOK'
  BY CountersKept
<1> QED
  BY <1>1, <1>2, PTL DEF Spec

-----------------------------------------------------------------------------
(* The status bits of an orderly controller                                 *)

LEMMA PortInvBegins == Init => PortInv
BY DEF Init, PortInv, IdleClean, PhasesOpen, BitsOwn, PhasesClosed, ReadHolds,
       LoopState, DoneOrError, Polling, Transferring, Issued

\* A controller is orderly from the start, or never.
LEMMA ConductKept == [Next]_vars => orderly' = orderly
<1>1. Driver => orderly' = orderly
  BY DEF Driver, SendCommand, LinesBusy, LinesFree, PollCommand, PollTransfer, ReadStatus,
         CommandComplete, CommandError, CommandNotYet, NothingYet, TransferComplete,
         TransferError, TransferNotYet, CheckErrors, controller
<1>2. Controller => orderly' = orderly
  BY DEF Controller, Answer, DataDone, AnswerError, DataError, VendorError
<1> QED
  BY <1>1, <1>2 DEF Next, vars, controller

LEMMA PortInvKept ==
    TypeOK /\ PortInv /\ [Next]_vars => PortInv'
<1> SUFFICES ASSUME TypeOK, PortInv, [Next]_vars, orderly PROVE PortInv'
  BY ConductKept DEF PortInv
<1> USE DEF TypeOK, PortInv, IdleClean, PhasesOpen, BitsOwn, PhasesClosed,
        ReadHolds, LoopState, DoneOrError, Polling, Transferring, Issued, PatienceEnds
<1>1. ASSUME NEW c \in Command, SendCommand(c) PROVE PortInv'
  BY <1>1 DEF SendCommand, controller
<1>2. CASE LinesBusy
  BY <1>2 DEF LinesBusy, controller
<1>3. CASE LinesFree
  BY <1>3 DEF LinesFree, Command
<1>4. CASE PollCommand
  BY <1>4 DEF PollCommand, ReadStatus, NormalStatus, Polls, controller
<1>5. CASE PollTransfer
  BY <1>5 DEF PollTransfer, ReadStatus, NormalStatus, Polls, controller
<1>6. CASE CommandComplete
  BY <1>6 DEF CommandComplete, CommandSeen
<1>7. CASE CommandError
  BY <1>7 DEF CommandError, CommandSeen, LeavesForErrors, controller
<1>8. CASE CommandNotYet
  <2>1. NothingYet("testCommand", "pollCommand", SDHCI_MAX_CMD_RETRY, CmdErrors)
    BY <1>8 DEF CommandNotYet
  <2>2. CASE ResetLines /\ pc' = "idle"
    BY <2>1, <2>2, PollOutcomes DEF ResetLines
  <2>3. CASE PatienceEnds(SDHCI_MAX_CMD_RETRY) /\ pc' = "errors" /\ UNCHANGED <<sts, err, active>>
    <3>1. err # {}
      BY <1>8, <2>1, <2>3, PollOutcomes DEF CommandNotYet, CommandSeen
    <3> QED
      BY <2>1, <2>3, <3>1, PollOutcomes
  <2>4. CASE pc' = "pollCommand" /\ UNCHANGED <<sts, err, active>>
    BY <2>1, <2>4, PollOutcomes
  <2> QED
    BY <2>1, <2>2, <2>3, <2>4, PollOutcomes
<1>9. CASE TransferComplete
  BY <1>9 DEF TransferComplete
<1>10. CASE TransferError
  BY <1>10 DEF TransferError, LeavesForErrors, controller
<1>11. CASE TransferNotYet
  <2>1. NothingYet("testTransfer", "pollTransfer", cmd.max_trans_retry, {"DAT_TIMEOUT", "DAT_CRC"})
    BY <1>11 DEF TransferNotYet
  <2>2. CASE ResetLines /\ pc' = "idle"
    BY <2>1, <2>2, PollOutcomes DEF ResetLines
  <2>3. CASE PatienceEnds(cmd.max_trans_retry) /\ pc' = "errors" /\ UNCHANGED <<sts, err, active>>
    <3>1. err # {}
      BY <1>11, <2>1, <2>3, PollOutcomes DEF TransferNotYet
    <3> QED
      BY <2>1, <2>3, <3>1, PollOutcomes
  <2>4. CASE pc' = "pollTransfer" /\ UNCHANGED <<sts, err, active>>
    BY <2>1, <2>4, PollOutcomes
  <2> QED
    BY <2>1, <2>2, <2>3, <2>4, PollOutcomes
<1>12. CASE CheckErrors
  BY <1>12 DEF CheckErrors, ResetLines
<1>13. CASE Answer
  <2>1. /\ "response" \in active /\ sts = {} /\ ~answered
        /\ active' = active \ {"response"} /\ sts' = {"CMD_COMPLETE"} /\ answered' = TRUE
        /\ UNCHANGED <<pc, cmd, retry, int_status, trans_complete, ret, err, moved, orderly>>
    BY <1>13 DEF Answer, driver
  <2>2. IdleClean' /\ PhasesOpen' /\ BitsOwn'
    BY <2>1
  <2>3. PhasesClosed' /\ LoopState' /\ DoneOrError'
    BY <2>1
  <2>4. ReadHolds'
    BY <2>1
  <2> QED
    BY <2>1, <2>2, <2>3, <2>4
<1>14. CASE DataDone
  BY <1>14 DEF DataDone, driver
<1>15. ASSUME NEW e \in ErrorBits \cap CmdErrors, AnswerError(e) PROVE PortInv'
  BY <1>15 DEF AnswerError, driver
<1>16. ASSUME NEW e \in ErrorBits \cap DatErrors, DataError(e) PROVE PortInv'
  BY <1>16 DEF DataError, driver
<1>17. ASSUME NEW e \in ErrorBits, VendorError(e) PROVE PortInv'
  BY <1>17 DEF VendorError
<1>18. CASE UNCHANGED vars
  BY <1>18 DEF vars, driver, controller
<1> QED
  BY <1>1, <1>2, <1>3, <1>4, <1>5, <1>6, <1>7, <1>8, <1>9, <1>10, <1>11, <1>12,
     <1>13, <1>14, <1>15, <1>16, <1>17, <1>18 DEF Next, Driver, Controller

-----------------------------------------------------------------------------
(* The refinement of SdhciPort                                              *)

LEMMA PortBegins == Init => Port!Init
BY DEF Init, Port!Init, Issued

\* What each step of the driver and of the controller is to the caller.
LEMMA PortStep ==
    TypeOK /\ PortInv /\ [Next]_vars => (orderly => [Port!Next]_(Port!portVars))
<1> SUFFICES ASSUME TypeOK, PortInv, [Next]_vars, orderly
             PROVE  [Port!Next]_(Port!portVars)
  OBVIOUS
<1> USE DEF Issued
<1>1. ASSUME NEW c \in Command, SendCommand(c) PROVE UNCHANGED Port!portVars
  BY <1>1 DEF SendCommand, controller, Port!portVars
<1>2. CASE LinesBusy
  <2>1. CASE retry + 1 = LINES_TRIES
    BY <1>2, <2>1 DEF LinesBusy, controller, Port!Next, Port!Refused
  <2>2. CASE retry + 1 # LINES_TRIES
    BY <1>2, <2>2 DEF LinesBusy, controller, Port!portVars
  <2> QED
    BY <2>1, <2>2
<1>3. CASE LinesFree
  <2>1. (Issued /\ cmd.transfer)' \in BOOLEAN
    BY <1>3, CommandFields DEF LinesFree, TypeOK
  <2> QED
    BY <1>3, <2>1 DEF LinesFree, Port!Next, Port!Issue
<1>4. CASE PollCommand \/ PollTransfer
  BY <1>4 DEF PollCommand, PollTransfer, ReadStatus, controller, Port!portVars
<1>5. CASE CommandComplete \/ CommandError \/ TransferComplete \/ TransferError
  BY <1>5 DEF CommandComplete, CommandError, TransferComplete, TransferError, controller,
              Port!portVars
<1>6. ASSUME NEW limit, NEW fatal,
             NEW from \in {"testCommand", "testTransfer"},
             NEW back \in {"pollCommand", "pollTransfer"},
             NothingYet(from, back, limit, fatal)
      PROVE  [Port!Next]_(Port!portVars)
  <2>1. pc = from /\ UNCHANGED <<cmd, answered, moved>>
    BY <1>6, PollOutcomes
  <2>2. CASE pc' = "idle" /\ ret' = 1
    BY <2>1, <2>2 DEF Port!Next, Port!Fails
  <2>3. CASE pc' \in {"errors", "pollCommand", "pollTransfer"}
    BY <2>1, <2>3 DEF Port!portVars
  <2> QED
    BY <1>6, <2>2, <2>3, PollOutcomes
<1>6a. CASE CommandNotYet
  BY <1>6, <1>6a DEF CommandNotYet
<1>6b. CASE TransferNotYet
  BY <1>6, <1>6b DEF TransferNotYet
<1>7. CASE CheckErrors
  <2>1. CASE ret' = 0
    <3>1. answered /\ (cmd.transfer => moved)
      BY <1>7, <2>1 DEF CheckErrors, PortInv, DoneOrError, sdhci_cmd_err_status
    <3> QED
      BY <1>7, <2>1, <3>1 DEF CheckErrors, Port!Next, Port!Succeeds
  <2>2. CASE ret' # 0
    BY <1>7, <2>2 DEF CheckErrors, Port!Next, Port!Fails
  <2> QED
    BY <2>1, <2>2
<1>8. CASE Answer
  BY <1>8 DEF Answer, driver, PortInv, PhasesOpen, IdleClean, Port!Next, Port!CardAnswers
<1>9. CASE DataDone
  BY <1>9 DEF DataDone, driver, PortInv, PhasesOpen, IdleClean, Port!Next, Port!CardMoves
<1>10. ASSUME NEW e, AnswerError(e) \/ DataError(e) \/ VendorError(e)
       PROVE  UNCHANGED Port!portVars
  BY <1>10 DEF AnswerError, DataError, VendorError, driver, Port!portVars
<1>11. CASE UNCHANGED vars
  BY <1>11 DEF vars, driver, controller, Port!portVars
<1> QED
  BY <1>1, <1>2, <1>3, <1>4, <1>5, <1>6a, <1>6b, <1>7, <1>8, <1>9, <1>10, <1>11
     DEF Next, Driver, Controller

\* sdhci_send_command keeps the promise of SdhciPort with an orderly
\* controller: it reports a command as done only when the card has answered
\* it and its data has moved, and what a call leaves behind is never taken for
\* the next one's; the counters of its polls keep within their limits.
THEOREM KeepsPortHolds == Spec => KeepsPort
<1>1. Init => TypeOK /\ PortInv /\ Port!Init
  BY CountersBegin, PortInvBegins, PortBegins
<1>2. TypeOK /\ PortInv /\ [Next]_vars => TypeOK' /\ PortInv'
  BY CountersKept, PortInvKept
<1>3. TypeOK /\ PortInv /\ [Next]_vars => [orderly => [Port!Next]_(Port!portVars)]_vars
  BY PortStep
<1> QED
  BY <1>1, <1>2, <1>3, PTL DEF Spec, KeepsPort, ImplementsPort
=============================================================================
