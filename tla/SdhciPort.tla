----------------------------- MODULE SdhciPort -----------------------------
(* What sdhci_send_command promises to mmc_sdhci.c: a command it reports   *)
(* as done was answered by the card, with its data moved or its busy       *)
(* signal ended; once a call has returned, with whatever result, the card  *)
(* neither answers nor moves data for it any more.                         *)
(*                                                                         *)
(* SdhciCommand.tla implements this specification when the controller is   *)
(* orderly; MmcTransfer.tla is built on its outcomes.                      *)

VARIABLES
    busy,       \* a command is with the controller,
    data,       \* and has a data phase, or a busy signal (R1b)
    answered,   \* the last command's response has arrived without an error
    moved,      \* its data phase is over without an error
    result      \* what the last call returned, "none" while it runs

portVars == <<busy, data, answered, moved, result>>

Init ==
    /\ ~busy /\ ~data /\ ~answered /\ ~moved
    /\ result = "success"

Issue ==
    /\ ~busy /\ busy'
    /\ data' \in BOOLEAN
    /\ ~answered' /\ ~moved'
    /\ result' = "none"

CardAnswers ==
    /\ busy /\ ~answered /\ answered'
    /\ UNCHANGED <<busy, data, moved, result>>

CardMoves ==
    /\ busy /\ data /\ answered /\ ~moved /\ moved'
    /\ UNCHANGED <<busy, data, answered, result>>

Succeeds ==
    /\ busy /\ ~busy'
    /\ answered /\ (data => moved)
    /\ result' = "success"
    /\ ~data'
    /\ UNCHANGED <<answered, moved>>

Fails ==
    /\ busy /\ ~busy'
    /\ result' = "failure"
    /\ ~data'
    /\ UNCHANGED <<answered, moved>>

\* The lines were never free: the command is not sent.
Refused ==
    /\ ~busy
    /\ result' = "failure"
    /\ UNCHANGED <<busy, data, answered, moved>>

Next == Issue \/ CardAnswers \/ CardMoves \/ Succeeds \/ Fails \/ Refused

Spec == Init /\ [][Next]_portVars
=============================================================================
