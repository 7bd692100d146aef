---------------------------- MODULE SdhciCommand ----------------------------
(* sdhci_send_command and sdhci_cmd_complete (sdhci.c): the driver writes a *)
(* command and polls the controller's status registers until the command   *)
(* and its transfer are complete, an error is raised, or it loses patience. *)
(* The controller and the card are the environment: they answer, move data *)
(* and raise errors at any moment between two reads of the driver.         *)
EXTENDS Naturals

CONSTANTS
    LINES_TRIES,            \* reads of the present state before giving up
    SDHCI_MAX_CMD_RETRY,    \* polls for the command
    TransRetries,           \* possible max_trans_retry: the default, cmd_timeout
    ErrorBits,              \* the bits of ERR_INT_STS that can be raised
    Conducts                \* the values of orderly to start from

CmdErrors == {"CMD_TIMEOUT", "CMD_CRC", "CMD_END_BIT", "CMD_IDX"}
DatErrors == {"DAT_TIMEOUT", "DAT_CRC", "DAT_END_BIT", "CUR_LIM", "AUTO_CMD12", "ADMA"}

ASSUME LimitsAssumption ==
    /\ LINES_TRIES \in Nat \ {0}
    /\ SDHCI_MAX_CMD_RETRY \in Nat \ {0}
    /\ TransRetries \subseteq Nat \ {0}
    /\ Conducts \subseteq BOOLEAN

\* A command: has it a transfer to wait for (data, or R1b), for how many
\* polls, and is it sent while tuning_in_progress.
Command == [transfer : BOOLEAN, max_trans_retry : TransRetries, tuning : BOOLEAN]

VARIABLES
    pc, cmd, retry, int_status, trans_complete, ret,    \* the driver
    sts,            \* NRML_INT_STS without its error bit
    err,            \* ERR_INT_STS
    active,         \* phases under way: the lines they hold are busy
    orderly,        \* the controller reports within the driver's polls, resets
                    \* its lines when it is told to and raises no vendor bits
    answered, moved \* history, of the command last written to the controller

driver == <<pc, cmd, retry, int_status, trans_complete, ret>>
controller == <<sts, err, active, answered, moved, orderly>>
vars == <<driver, controller>>

Init ==
    /\ pc = "idle"
    /\ cmd \in [transfer : {FALSE}, max_trans_retry : TransRetries, tuning : {FALSE}]
    /\ retry = 0 /\ int_status = {} /\ trans_complete = FALSE /\ ret = 0
    /\ sts = {} /\ err = {} /\ active = {}
    /\ answered = FALSE /\ moved = FALSE
    /\ orderly \in Conducts

-----------------------------------------------------------------------------
(* The driver *)

SendCommand(c) ==
    /\ pc = "idle"
    /\ pc' = "lines" /\ cmd' = c /\ retry' = 0
    /\ UNCHANGED <<int_status, trans_complete, ret, controller>>

\* The present state shows a busy line: try again after a millisecond.
LinesBusy ==
    /\ pc = "lines" /\ active # {}
    /\ retry' = retry + 1
    /\ IF retry + 1 = LINES_TRIES
       THEN pc' = "idle" /\ ret' = 1
       ELSE UNCHANGED <<pc, ret>>
    /\ UNCHANGED <<cmd, int_status, trans_complete, controller>>

\* Both lines are free: the registers are set up and the command is written.
\* Status bits left by an earlier command stay as they are.
LinesFree ==
    /\ pc = "lines" /\ active = {}
    /\ pc' = "pollCommand" /\ retry' = 0
    /\ trans_complete' = FALSE /\ ret' = 0
    /\ active' = {"response"} \cup (IF cmd.transfer THEN {"data"} ELSE {})
    /\ answered' = FALSE /\ moved' = FALSE
    /\ UNCHANGED <<cmd, int_status, sts, err, orderly>>

NormalStatus == sts \cup (IF err # {} THEN {"ERR"} ELSE {})

PatienceEnds(limit) == retry + 1 = limit

\* An orderly controller has reported before the last poll reads it.
Polls(limit) == orderly /\ PatienceEnds(limit) => active = {}

ReadStatus(from, to, limit) ==
    /\ pc = from /\ Polls(limit)
    /\ int_status' = NormalStatus
    /\ pc' = to
    /\ UNCHANGED <<cmd, retry, trans_complete, ret, controller>>

PollCommand == ReadStatus("pollCommand", "testCommand", SDHCI_MAX_CMD_RETRY)
PollTransfer == ReadStatus("pollTransfer", "testTransfer", cmd.max_trans_retry)

\* SOFT_RESET_CMD | SOFT_RESET_DATA: the controller drops what it was doing
\* and forgets its status; a reset that does not end is only logged.
ResetLines ==
    \/ sts' = {} /\ err' = {} /\ active' = {}
    \/ ~orderly /\ UNCHANGED <<sts, err, active>>

\* The poll found nothing it acts on; the err_status re-read makes an error
\* of a tuning command fatal.
NothingYet(from, back, limit, fatal) ==
    /\ pc = from
    /\ \/ /\ cmd.tuning /\ err \cap fatal # {}
          /\ ResetLines
          /\ pc' = "idle" /\ ret' = 1
          /\ UNCHANGED <<cmd, retry, int_status, trans_complete, answered, moved, orderly>>
       \/ /\ ~(cmd.tuning /\ err \cap fatal # {})
          /\ retry' = retry + 1
          /\ IF PatienceEnds(limit)
             THEN pc' = "errors" /\ ret' = 1
             ELSE pc' = back /\ UNCHANGED ret
          /\ UNCHANGED <<cmd, int_status, trans_complete, controller>>

\* An error the polls leave for: not while tuning, and not the data time-out,
\* which some controllers raise at once for an erase that completes later.
LeavesForErrors ==
    "ERR" \in int_status /\ ~cmd.tuning /\ "DAT_TIMEOUT" \notin err

CommandSeen == "CMD_COMPLETE" \in int_status /\ "CMD_TIMEOUT" \notin err

\* The response is copied and the polls for the transfer start from zero.
CommandComplete ==
    /\ pc = "testCommand" /\ CommandSeen
    /\ sts' = sts \ {"CMD_COMPLETE"}
    /\ retry' = 0
    /\ pc' = (IF cmd.transfer THEN "pollTransfer" ELSE "errors")
    /\ UNCHANGED <<cmd, int_status, trans_complete, ret, err, active, answered, moved, orderly>>

CommandError ==
    /\ pc = "testCommand" /\ ~CommandSeen /\ LeavesForErrors
    /\ pc' = "errors"
    /\ UNCHANGED <<cmd, retry, int_status, trans_complete, ret, controller>>

CommandNotYet ==
    /\ ~CommandSeen /\ ~LeavesForErrors
    /\ NothingYet("testCommand", "pollCommand", SDHCI_MAX_CMD_RETRY, CmdErrors)

TransferComplete ==
    /\ pc = "testTransfer" /\ "TRANS_COMPLETE" \in int_status
    /\ trans_complete' = TRUE
    /\ sts' = sts \ {"TRANS_COMPLETE"}
    /\ pc' = "errors"
    /\ UNCHANGED <<cmd, retry, int_status, ret, err, active, answered, moved, orderly>>

TransferError ==
    /\ pc = "testTransfer" /\ "TRANS_COMPLETE" \notin int_status /\ LeavesForErrors
    /\ pc' = "errors"
    /\ UNCHANGED <<cmd, retry, int_status, trans_complete, ret, controller>>

\* Mutant of TransferNotYet: the polls are not counted.
TransferNotYetForever ==
    /\ pc = "testTransfer"
    /\ "TRANS_COMPLETE" \notin int_status /\ ~LeavesForErrors
    /\ pc' = "pollTransfer"
    /\ UNCHANGED <<cmd, retry, int_status, trans_complete, ret, controller>>

TransferNotYet ==
    /\ "TRANS_COMPLETE" \notin int_status /\ ~LeavesForErrors
    /\ NothingYet("testTransfer", "pollTransfer", cmd.max_trans_retry,
                  {"DAT_TIMEOUT", "DAT_CRC"})

\* The errors sdhci_cmd_err_status has a branch for.
sdhci_cmd_err_status == err \cap (CmdErrors \cup DatErrors) # {}

\* Mutant of CheckErrors: a data time-out is ignored, complete or not.
CheckErrorsIgnoresTimeout ==
    /\ pc = "errors"
    /\ pc' = "idle"
    /\ \/ /\ err = {}
          /\ UNCHANGED <<ret, sts, err, active>>
       \/ /\ err # {}
          /\ ResetLines
          /\ ret' = (IF "DAT_TIMEOUT" \in err THEN 0
                     ELSE IF sdhci_cmd_err_status THEN 1 ELSE ret)
    /\ UNCHANGED <<cmd, retry, int_status, trans_complete, answered, moved, orderly>>

\* The err label: a data time-out does not count once the transfer is
\* complete, any other error fails the command; either resets the lines.
CheckErrors ==
    /\ pc = "errors"
    /\ pc' = "idle"
    /\ \/ /\ err = {}
          /\ UNCHANGED <<ret, sts, err, active>>
       \/ /\ err # {}
          /\ ResetLines
          /\ ret' = (IF "DAT_TIMEOUT" \in err /\ trans_complete THEN 0
                     ELSE IF sdhci_cmd_err_status THEN 1 ELSE ret)
    /\ UNCHANGED <<cmd, retry, int_status, trans_complete, answered, moved, orderly>>

Driver ==
    \/ \E c \in Command : SendCommand(c)
    \/ LinesBusy \/ LinesFree
    \/ PollCommand \/ CommandComplete \/ CommandError \/ CommandNotYet
    \/ PollTransfer \/ TransferComplete \/ TransferError \/ TransferNotYet
    \/ CheckErrors

-----------------------------------------------------------------------------
(* The controller and the card *)

Answer ==
    /\ "response" \in active
    /\ active' = active \ {"response"}
    /\ sts' = sts \cup {"CMD_COMPLETE"}
    /\ answered' = TRUE
    /\ UNCHANGED <<driver, err, moved, orderly>>

\* The command failed on its line, with or without command complete.
AnswerError(e) ==
    /\ "response" \in active
    /\ active' = {}
    /\ err' = err \cup {e}
    /\ sts' \in {sts, sts \cup {"CMD_COMPLETE"}}
    /\ UNCHANGED <<driver, answered, moved, orderly>>

DataDone ==
    /\ active = {"data"}
    /\ active' = {}
    /\ sts' = sts \cup {"TRANS_COMPLETE"}
    /\ moved' = TRUE
    /\ UNCHANGED <<driver, err, answered, orderly>>

\* The transfer stops; only the data time-out may come before the response,
\* or be followed by the end of the transfer.
DataError(e) ==
    /\ "data" \in active
    /\ err' = err \cup {e}
    /\ \/ active = {"data"} /\ active' = {}
       \/ e = "DAT_TIMEOUT" /\ UNCHANGED active
    /\ UNCHANGED <<driver, sts, answered, moved, orderly>>

\* Bits 10 to 15 of ERR_INT_STS, which the driver enables with the others.
VendorError(e) ==
    /\ ~orderly /\ active # {}
    /\ err' = err \cup {e}
    /\ UNCHANGED <<driver, sts, active, answered, moved, orderly>>

Controller ==
    \/ Answer
    \/ DataDone
    \/ \E e \in ErrorBits \cap CmdErrors : AnswerError(e)
    \/ \E e \in ErrorBits \cap DatErrors : DataError(e)
    \/ \E e \in ErrorBits \ (CmdErrors \cup DatErrors) : VendorError(e)

Next == Driver \/ Controller

\* A call runs to its end; the time-outs of an orderly controller make it
\* report every phase it started.
Fairness ==
    /\ WF_vars(pc # "idle" /\ Driver)
    /\ WF_vars(orderly /\ Controller /\ active' # active)

Spec == Init /\ [][Next]_vars /\ Fairness

-----------------------------------------------------------------------------
(* Properties *)

\* The driver's counters and registers have their types; a retry counter
\* never passes the limit it is compared with.
TypeOK ==
    /\ pc \in {"idle", "lines", "pollCommand", "testCommand", "pollTransfer",
               "testTransfer", "errors"}
    /\ cmd \in Command
    /\ retry \in Nat
    /\ pc \in {"pollTransfer", "testTransfer"} => retry < cmd.max_trans_retry
    /\ pc \in {"pollCommand", "testCommand"} => retry < SDHCI_MAX_CMD_RETRY
    /\ int_status \subseteq {"CMD_COMPLETE", "TRANS_COMPLETE", "ERR"}
    /\ trans_complete \in BOOLEAN /\ ret \in {0, 1}
    /\ sts \subseteq {"CMD_COMPLETE", "TRANS_COMPLETE"}
    /\ err \subseteq ErrorBits
    /\ active \subseteq {"response", "data"}
    /\ answered \in BOOLEAN /\ moved \in BOOLEAN /\ orderly \in BOOLEAN

Issued == pc \notin {"idle", "lines"}

Port == INSTANCE SdhciPort WITH
    busy <- Issued,
    data <- Issued /\ cmd.transfer,
    result <- IF Issued THEN "none" ELSE IF ret = 0 THEN "success" ELSE "failure"

\* With an orderly controller sdhci_send_command keeps the promise of
\* SdhciPort: success means answered and moved, and a call that returned
\* leaves nothing behind that the next command could take for its own.
ImplementsPort == Port!Init /\ [][orderly => [Port!Next]_(Port!portVars)]_vars

\* The same, with the counters of the polls inside their limits at every step
\* (TypeOK), whatever the controller does.
KeepsPort == []TypeOK /\ ImplementsPort

\* Every call of sdhci_send_command returns, whatever the controller does.
CallReturns == (pc # "idle") ~> (pc = "idle")

\* "Check for transfer complete": a call that returns 0 for a command with a
\* transfer returns after the transfer of this command, whatever was left of
\* the one before (sdhci_cmd_complete, the poll for TRANS_COMPLETE).
SuccessIsOwn ==
    [][pc = "errors" /\ pc' = "idle" /\ ret' = 0 /\ cmd.transfer => moved]_vars

\* "Return: 0 on Success, 1 on Failure": an error the controller has raised is
\* not returned as a success (sdhci_cmd_err_status).
ErrorsFail ==
    [][pc = "errors" /\ pc' = "idle" /\ err # {} /\ ~trans_complete => ret' = 1]_vars

\* "If we are in tuning then we need to wait until Data timeout, Data end or
\* Data CRC error": none of the three leaves the poll waiting.
TuningSeesDataErrors ==
    [][pc = "testTransfer" /\ cmd.tuning
          /\ err \cap {"DAT_TIMEOUT", "DAT_END_BIT", "DAT_CRC"} # {}
       => pc' # "pollTransfer"]_vars
=============================================================================
