----------------------------- MODULE MmcTransfer -----------------------------
(* The operations mmc_sdhci.c offers on an initialised card, command by      *)
(* command: reads and writes with their stop command, erase, write          *)
(* protection, RPMB transfers with their partition switches, and sleep.     *)
(* A command is one step, with an outcome of SdhciPort; what the card does  *)
(* with it, and the R1 status it answers, are the card's part.              *)
EXTENDS Integers, FiniteSets

CONSTANTS
    CardTypes,                  \* subset of {"mmc", "sd"}
    Kinds,                      \* the operations a caller uses
    Blocks,                     \* of the card
    GroupSize,                  \* blocks of an erase or write protect group
    MaxBlocks,                  \* longest read or write
    MMC_MAX_CARD_STAT_RETRY,    \* polls after an erase or write protection
    RpmbRetry,                  \* polls of an RPMB call
    MAX_RPMB_CMDS

ASSUME SizesAssumption ==
    /\ CardTypes \subseteq {"mmc", "sd"} /\ CardTypes # {}
    /\ Kinds \subseteq {"read", "write", "erase", "wp", "rpmb", "sleep"}
    /\ {Blocks, GroupSize, MaxBlocks, MMC_MAX_CARD_STAT_RETRY, RpmbRetry,
        MAX_RPMB_CMDS} \subseteq Nat \ {0}

\* A call: len counts blocks, or the commands of an RPMB request; set_clr is
\* that of mmc_set_clr_power_on_wp_user.  Erase and write protection start on a
\* group, as the card's partitions do.
Call ==
    LET Calls(kinds, addrs, lens, flags) ==
            [kind : Kinds \cap kinds, addr : addrs, len : lens, set_clr : flags]
        starts == {b \in 0 .. Blocks - 1 : b % GroupSize = 0}
    IN  Calls({"read", "write"}, {0}, 1 .. MaxBlocks, {0})
        \cup Calls({"erase"}, starts, 0 .. Blocks, {0})
        \cup Calls({"wp"}, starts, 0 .. Blocks, {0, 1})
        \cup Calls({"rpmb"}, {0}, 1 .. MAX_RPMB_CMDS, {0})
        \cup Calls({"sleep"}, {0}, {0}, {0})

\* EXT_CSD[PARTITION_CONFIG]: which partition is accessed, and the boot bits.
Config == [access : {"user", "rpmb"}, boot : BOOLEAN]

VARIABLES
    pc, call, result,   \* the call under way and what it returns
    ret, resp,          \* of the last sdhci_send_command
    retry, i,           \* polls, and commands or groups, of the call
    ext_csd,            \* the driver's copy of PARTITION_CONFIG
    card,               \* type, state, configuration, erase range, status bit,
                        \* write protected blocks
    moved, changed      \* history of the call: its data was moved; the blocks
                        \* it erased, or whose protection it set or cleared

driver == <<pc, call, result, ret, resp, retry, i, ext_csd>>
vars == <<driver, card, moved, changed>>

\* What the driver looks at in an R1 status; a command that is not answered
\* leaves the zeros of memset.
R1 == [state : {"idle", "stby", "tran", "data", "rcv", "prg", "slp"}, bad : BOOLEAN]
NoResponse == [state |-> "idle", bad |-> FALSE]

GroupOf(b) == b \div GroupSize
Group(b) == {c \in 0 .. Blocks - 1 : GroupOf(c) = GroupOf(b)}

\* Groups may be protected from before.
Init ==
    /\ pc = "idle" /\ result = 0 /\ ret = 0 /\ resp = NoResponse
    /\ call = [kind |-> "sleep", addr |-> 0, len |-> 0, set_clr |-> 0]
    /\ retry = 0 /\ i = 0
    /\ ext_csd = [access |-> "user", boot |-> TRUE]
    /\ card \in [type : CardTypes, state : {"tran"}, config : {ext_csd},
                 first : {0}, last : {0}, switchErr : {FALSE},
                 protected : {p \in SUBSET (0 .. Blocks - 1) : \A b \in p : Group(b) \subseteq p}]
    /\ moved = FALSE /\ changed = {}

-----------------------------------------------------------------------------
(* The card, and sdhci_send_command *)

\* An SD card erases the blocks from the first to the last address, an eMMC
\* the groups the two addresses are in.
Selected(c) ==
    IF c.type = "sd" THEN c.first .. c.last
    ELSE {b \in 0 .. Blocks - 1 : GroupOf(b) \in GroupOf(c.first) .. GroupOf(c.last)}

\* The states a command is legal in; an illegal command is not answered.
Legal(index) ==
    CASE index = "CMD13" -> {"stby", "tran", "data", "rcv", "prg"}
      [] index = "CMD12" -> {"data", "rcv"}
      [] index = "CMD7"  -> {"tran", "data", "prg"}
      [] index = "CMD5"  -> {"stby"}
      [] OTHER           -> {"tran"}

\* The command is lost or refused: the card does not see it.
Unheard(index) ==
    /\ ret' = 1 /\ resp' = NoResponse
    /\ UNCHANGED <<card, moved, changed>>

\* The card takes the command, answers with the state it was in and goes on
\* as "after" says; the answer, or what follows it, may fail on the way.
Taken(index, after, bad) ==
    /\ card.state \in Legal(index)
    /\ card' \in after
    /\ \/ ret' = 1 /\ resp' = NoResponse
       \/ ret' \in {0, 1} /\ resp' = [state |-> card.state, bad |-> bad]

\* A command without a data phase.
SendPlain(index, after, bad) ==
    \/ Unheard(index)
    \/ Taken(index, after, bad) /\ UNCHANGED <<moved, changed>>

\* A command with an address: out of range, it does nothing.
SendAddress(index, address, after) ==
    SendPlain(index, IF address < Blocks THEN after ELSE {card}, address >= Blocks)

\* A command with data: it succeeds with the data moved and the card in one of
\* the states done, or the card is left where the data stopped, or the card
\* answers an error and moves nothing.
SendData(index, during, done) ==
    \/ Unheard(index)
    \/ /\ Taken(index, {[card EXCEPT !.state = s] : s \in done \cup {during}}, FALSE)
       /\ moved' = (ret' = 0)
       /\ ret' = 0 => card'.state \in done
       /\ UNCHANGED changed
    \/ /\ Taken(index, {card}, TRUE)
       /\ ret' = 1
       /\ UNCHANGED <<moved, changed>>

\* CMD6, which the card may refuse with SWITCH_ERROR.
SendSwitch(config) ==
    SendPlain("CMD6",
        {[card EXCEPT !.state = s, !.config = config] : s \in {"tran", "prg"}}
        \cup {[card EXCEPT !.switchErr = TRUE]}, FALSE)

\* A card that is programming, or sends the blocks of a read, gets done.
CardFinishes ==
    /\ card.state \in {"prg", "data"}
    /\ card' = [card EXCEPT !.state = "tran"]
    /\ UNCHANGED <<driver, moved, changed>>

-----------------------------------------------------------------------------
(* The driver *)

Begin(c) ==
    /\ pc = "idle"
    /\ c.kind \in {"wp", "rpmb"} => card.type = "mmc"
    /\ call' = c /\ retry' = 0 /\ i' = 0
    /\ ret' = 0 /\ resp' = NoResponse
    /\ moved' = FALSE /\ changed' = {}
    /\ \/ /\ c.kind \in {"read", "write"} /\ pc' = "transfer" /\ UNCHANGED result
       \/ /\ c.kind = "erase" /\ c.len < GroupSize
          /\ pc' = "idle" /\ result' = 1
       \/ /\ c.kind = "erase" /\ c.len >= GroupSize
          /\ pc' = "CMD35" /\ UNCHANGED result
       \/ /\ c.kind = "wp" /\ pc' = "permWpDis" /\ UNCHANGED result
       \/ /\ c.kind = "rpmb" /\ pc' = "switchIn" /\ UNCHANGED result
       \/ /\ c.kind = "sleep" /\ pc' = "deselect" /\ UNCHANGED result
    /\ UNCHANGED <<ext_csd, card>>

Return(r) == pc' = "idle" /\ result' = r
GoOn(label) == pc' = label /\ UNCHANGED result

mmc_parse_response(r) == IF r.bad \/ r.state # "tran" THEN 1 ELSE 0

\* mmc_sdhci_read, mmc_sdhci_write: the result of the command counts for
\* several blocks, the status the card answered for one.
Transfer ==
    /\ pc = "transfer"
    /\ IF call.kind = "read"
       THEN SendData("CMD17", "data", {"tran"})
       ELSE SendData("CMD24", "rcv", {"tran", "prg"})
    /\ IF ret' = 1 /\ call.len > 1
       THEN GoOn("stop")
       ELSE Return(mmc_parse_response(resp'))
    /\ UNCHANGED <<call, retry, i, ext_csd>>

\* mmc_stop_command.
StopCommand ==
    /\ pc = "stop"
    /\ SendPlain("CMD12", {[card EXCEPT !.state = s] : s \in {"tran", "prg"}}, FALSE)
    /\ Return(IF ret' = 1 THEN 1 ELSE mmc_parse_response(resp'))
    /\ UNCHANGED <<call, retry, i, ext_csd>>

\* The status loop after an operation: until the card is ready for data, at
\* most limit times in the whole call, the last of which is a failure.
GetCardStatus == SendPlain("CMD13", {[card EXCEPT !.switchErr = FALSE]}, FALSE)

Ready(r) == r.state = "tran"

\* Mutant of PollStatus: the count starts again where the loop should end.
PollStatusRestarts(label, limit, ready, fails) ==
    /\ pc = label
    /\ GetCardStatus
    /\ retry' = IF ret' = 1 THEN retry ELSE (retry + 1) % limit
    /\ \/ ret' = 1 /\ fails
       \/ ret' = 0 /\ Ready(resp') /\ ready
       \/ ret' = 0 /\ ~Ready(resp') /\ GoOn(label) /\ i' = i
    /\ UNCHANGED <<call, ext_csd>>

PollStatus(label, limit, ready, fails) ==
    /\ pc = label
    /\ GetCardStatus
    /\ retry' = IF ret' = 1 THEN retry ELSE retry + 1
    /\ \/ ret' = 1 /\ fails
       \/ ret' = 0 /\ retry' = limit /\ fails
       \/ ret' = 0 /\ retry' # limit /\ Ready(resp') /\ ready
       \/ ret' = 0 /\ retry' # limit /\ ~Ready(resp') /\ GoOn(label) /\ i' = i
    /\ UNCHANGED <<call, ext_csd>>

\* The address of the last group of mmc_sdhci_erase, which is one group less
\* when it is past the end of the range.
EraseEnd ==
    LET end == call.addr + (call.len \div GroupSize - 1) * GroupSize
    IN  IF end > call.addr + call.len THEN end - GroupSize ELSE end

EraseGroup ==
    \/ /\ pc = "CMD35"
       /\ SendAddress("CMD35", call.addr, {[card EXCEPT !.first = call.addr]})
       /\ IF ret' = 1 \/ resp'.bad THEN Return(1) ELSE GoOn("CMD36")
       /\ UNCHANGED <<call, retry, i, ext_csd>>
    \/ /\ pc = "CMD36"
       /\ SendAddress("CMD36", EraseEnd, {[card EXCEPT !.last = EraseEnd]})
       /\ IF ret' = 1 \/ resp'.bad THEN Return(1) ELSE GoOn("CMD38")
       /\ UNCHANGED <<call, retry, i, ext_csd>>

\* mmc_send_erase: the card leaves the blocks out that are write protected.
Erase ==
    /\ pc = "CMD38"
    /\ \/ Unheard("CMD38")
       \/ /\ Taken("CMD38", {[card EXCEPT !.state = s] : s \in {"tran", "prg"}}, FALSE)
          /\ changed' = Selected(card) \ card.protected
          /\ UNCHANGED moved
    /\ IF ret' = 1 THEN Return(1) ELSE GoOn("erasePoll")
    /\ UNCHANGED <<call, retry, i, ext_csd>>

\* A status with WP_ERASE_SKIP is printed and otherwise as good as any.
ErasePoll ==
    PollStatus("erasePoll", MMC_MAX_CARD_STAT_RETRY, Return(0) /\ i' = i, Return(1) /\ i' = i)

\* mmc_switch_cmd: CMD6, then one look at the card's status, in which the card
\* has to be back in the transfer state.
Switch(label, config) ==
    /\ pc = label
    /\ SendSwitch(config)
    /\ UNCHANGED <<call, retry, i, ext_csd>>

SwitchStatus(label) ==
    /\ pc = label
    /\ GetCardStatus
    /\ UNCHANGED <<call, retry>>

SwitchFailed == ret' = 1 \/ resp'.state # "tran" \/ card.switchErr

\* mmc_set_clr_power_on_wp_user: two switches around a new read of EXT_CSD.
PermWpDis ==
    \/ /\ Switch("permWpDis", card.config)
       /\ IF ret' = 1 THEN Return(1) ELSE GoOn("permWpDisStatus")
    \/ /\ SwitchStatus("permWpDisStatus")
       /\ IF SwitchFailed THEN Return(1) ELSE GoOn("CMD8")
       /\ UNCHANGED <<i, ext_csd>>

\* mmc_get_ext_csd takes a new, cleared buffer before it sends CMD8; the card
\* may say that its protection cannot be changed.
GetExtCsd ==
    /\ pc = "CMD8"
    /\ SendData("CMD8", "data", {"tran"})
    /\ ext_csd' = IF moved' THEN card.config ELSE [access |-> "user", boot |-> FALSE]
    /\ \/ Return(1)
       \/ ret' = 0 /\ call.len >= GroupSize /\ GoOn("pwrWpEn")
    /\ UNCHANGED <<call, retry, i>>

PwrWpEn ==
    \/ /\ Switch("pwrWpEn", card.config)
       /\ IF ret' = 1 THEN Return(1) ELSE GoOn("pwrWpEnStatus")
    \/ /\ SwitchStatus("pwrWpEnStatus")
       /\ IF SwitchFailed THEN Return(1) ELSE GoOn("CMD28")
       /\ UNCHANGED <<i, ext_csd>>

\* ROUNDUP(len, wp_grp_size) / wp_grp_size.
WpGroups == (call.len + GroupSize - 1) \div GroupSize

\* What is protected once a group is set, or cleared: protection that lasts
\* until power off stays.
Protections(group) ==
    IF call.set_clr = 1 THEN {card.protected \cup group}
                        ELSE {card.protected, card.protected \ group}

\* CMD28 or CMD29 of the next group.
SetWriteProtect ==
    LET address == call.addr + i * GroupSize IN
    /\ pc = "CMD28"
    /\ \/ Unheard("CMD28")
       \/ /\ address < Blocks
          /\ \E p \in Protections(Group(address)) :
                Taken("CMD28", {[card EXCEPT !.state = s, !.protected = p] :
                                   s \in {"tran", "prg"}}, FALSE)
          /\ changed' = changed \cup Group(address)
          /\ UNCHANGED moved
       \/ /\ address >= Blocks
          /\ Taken("CMD28", {card}, TRUE)
          /\ UNCHANGED <<moved, changed>>
    /\ IF ret' = 1 \/ resp'.bad THEN Return(1) ELSE GoOn("wpPoll")
    /\ UNCHANGED <<call, retry, i, ext_csd>>

WpPoll ==
    PollStatus("wpPoll", MMC_MAX_CARD_STAT_RETRY,
        /\ i' = i + 1
        /\ IF i' = WpGroups THEN Return(0) ELSE GoOn("CMD28"),
        Return(1) /\ i' = i)

\* mmc_sdhci_switch_part: PARTITION_CONFIG as the driver last saw it, with the
\* access bits replaced; the copy follows when the switch succeeded.
WithAccess(type) == [ext_csd EXCEPT !.access = type]

SwitchIn ==
    \/ /\ Switch("switchIn", WithAccess("rpmb"))
       /\ IF ret' = 1 THEN Return(1) ELSE GoOn("switchInStatus")
    \/ /\ SwitchStatus("switchInStatus")
       /\ IF SwitchFailed
          THEN Return(1) /\ UNCHANGED ext_csd
          ELSE GoOn("CMD23") /\ ext_csd' = WithAccess("rpmb")
       /\ UNCHANGED i

\* The result of the commands is kept over the switch back.
ToErr(r) == pc' = "switchOut" /\ result' = r

RpmbCommand ==
    \/ /\ pc = "CMD23"
       /\ SendPlain("CMD23", {card}, FALSE)
       /\ IF ret' = 1 THEN ToErr(1) ELSE GoOn("rpmbSend")
       /\ UNCHANGED <<call, retry, i, ext_csd>>
    \/ /\ pc = "rpmbSend"
       /\ \/ SendData("CMD25", "rcv", {"tran", "prg"})
          \/ SendData("CMD18", "data", {"tran"})
       /\ IF ret' = 1 THEN ToErr(1) ELSE GoOn("rpmbPoll")
       /\ UNCHANGED <<call, retry, i, ext_csd>>

RpmbPoll ==
    PollStatus("rpmbPoll", RpmbRetry,
        /\ i' = i + 1
        /\ IF i' = call.len THEN ToErr(0) ELSE GoOn("CMD23"),
        ToErr(1) /\ i' = i)

\* Mutant of SwitchOut: the switch back does not count for the result.
SwitchOutIgnored ==
    \/ /\ Switch("switchOut", WithAccess("user"))
       /\ IF ret' = 1 THEN Return(result) ELSE GoOn("switchOutStatus")
    \/ /\ SwitchStatus("switchOutStatus")
       /\ IF SwitchFailed
          THEN Return(result) /\ UNCHANGED ext_csd
          ELSE Return(result) /\ ext_csd' = WithAccess("user")
       /\ UNCHANGED i

SwitchOut ==
    \/ /\ Switch("switchOut", WithAccess("user"))
       /\ IF ret' = 1 THEN Return(1) ELSE GoOn("switchOutStatus")
    \/ /\ SwitchStatus("switchOutStatus")
       /\ IF SwitchFailed
          THEN Return(1) /\ UNCHANGED ext_csd
          ELSE Return(result) /\ ext_csd' = WithAccess("user")
       /\ UNCHANGED i

\* mmc_put_card_to_sleep; CMD7 deselects the card without an answer, and an
\* SD card has no CMD5.
Sleep ==
    \/ /\ pc = "deselect"
       /\ SendPlain("CMD7", {[card EXCEPT !.state = "stby"]}, FALSE)
       /\ IF ret' = 0 /\ card.type = "mmc" THEN GoOn("CMD5") ELSE Return(0)
       /\ UNCHANGED <<call, retry, i, ext_csd>>
    \/ /\ pc = "CMD5"
       /\ SendPlain("CMD5", {[card EXCEPT !.state = "slp"]}, FALSE)
       /\ Return(0)
       /\ UNCHANGED <<call, retry, i, ext_csd>>

Driver ==
    \/ \E c \in Call : Begin(c)
    \/ Transfer \/ StopCommand
    \/ EraseGroup \/ Erase \/ ErasePoll
    \/ PermWpDis \/ GetExtCsd \/ PwrWpEn \/ SetWriteProtect \/ WpPoll
    \/ SwitchIn \/ RpmbCommand \/ RpmbPoll \/ SwitchOut
    \/ Sleep

Next == Driver \/ CardFinishes

\* A call runs to its end.
Spec == Init /\ [][Next]_vars /\ WF_vars(pc # "idle" /\ Driver)

-----------------------------------------------------------------------------
(* Properties *)

\* The driver's variables have their types; the polls of a call stay within
\* the limit of its loop, its commands or groups within their number.
TypeOK ==
    /\ pc \in {"idle", "transfer", "stop", "CMD35", "CMD36", "CMD38", "erasePoll",
               "permWpDis", "permWpDisStatus", "CMD8", "pwrWpEn", "pwrWpEnStatus",
               "CMD28", "wpPoll", "switchIn", "switchInStatus", "CMD23", "rpmbSend",
               "rpmbPoll", "switchOut", "switchOutStatus", "deselect", "CMD5"}
    /\ result \in {0, 1} /\ ret \in {0, 1} /\ resp \in R1
    /\ retry <= (IF call.kind = "rpmb" THEN RpmbRetry ELSE MMC_MAX_CARD_STAT_RETRY)
    /\ i <= (IF call.kind = "rpmb" THEN call.len ELSE WpGroups)
    /\ ext_csd \in Config /\ card.config \in Config
    /\ moved \in BOOLEAN /\ changed \subseteq 0 .. Blocks - 1

Returned(kinds) == pc = "idle" /\ call.kind \in kinds

\* A read or write of several blocks that returns 0 has moved its data: the
\* result of mmc_stop_command, returned in place of the failure, is one too.
MultiSuccessMoves ==
    Returned({"read", "write"}) /\ result = 0 /\ call.len > 1 => moved

\* "Return : 0 on Success": a read or write of any length that returns 0 has
\* moved its data (mmc_sdhci_read, mmc_sdhci_write).
SuccessMoves == Returned({"read", "write"}) /\ result = 0 => moved

Whole == call.addr .. call.addr + (call.len \div GroupSize) * GroupSize - 1
Touched == {b \in 0 .. Blocks - 1 :
              \E a \in call.addr .. call.addr + call.len - 1 : GroupOf(a) = GroupOf(b)}

\* An erase that succeeds has erased every whole group of its range but the
\* blocks that are write protected; a write protection that succeeds has
\* changed every group its range touches, and set, they are protected
\* (mmc_sdhci_erase, mmc_set_clr_power_on_wp_user).
SuccessCovers ==
    /\ Returned({"erase"}) /\ result = 0 => changed = Whole \ card.protected
    /\ Returned({"wp"}) /\ result = 0 =>
          changed = Touched /\ (call.set_clr = 1 => Touched \subseteq card.protected)

\* "Return : 0 on Success": an erase that returns 0 has erased every whole
\* group of its range (mmc_sdhci_erase).
EraseComplete == Returned({"erase"}) /\ result = 0 => changed = Whole

\* At no time, of a call that succeeds or fails, is a block erased that the
\* call does not name, or one protected outside the groups its range touches.
OnlyAskedChanged ==
    changed \subseteq (IF call.kind = "erase" THEN Whole ELSE Touched)

\* An RPMB call that returns 0 has put the card back into the user area, ready
\* for the next command, and the driver's copy of PARTITION_CONFIG is true.
RpmbSuccessRestores ==
    Returned({"rpmb"}) /\ result = 0 =>
        card.config.access = "user" /\ ext_csd = card.config /\ card.state = "tran"

\* Taken together: what a call returns is the truth about the card, of each
\* kind of call, and its loops stay within their limits.
CallsTellTruth ==
    /\ TypeOK
    /\ MultiSuccessMoves
    /\ SuccessCovers
    /\ OnlyAskedChanged
    /\ RpmbSuccessRestores

\* Every call returns: the status loops are bounded.
CallReturns == (pc # "idle") ~> (pc = "idle")

\* "5. Switch the partition back to default type": no RPMB call returns with
\* the card in the RPMB partition without having tried (mmc_sdhci_rpmb_send).
RpmbSwitchesBack ==
    [][call.kind = "rpmb" /\ pc # "idle" /\ pc' = "idle" =>
         \/ pc \in {"switchOut", "switchOutStatus"}
         \/ card'.config.access = "user"]_vars

\* "Card status check timed out": a status loop gives up on a card that is
\* not ready (mmc_sdhci_rpmb_send, mmc_send_erase, the write protection).
TimeoutMeansBusy ==
    [][ret' = 0 /\ Ready(resp') /\ pc \in {"erasePoll", "wpPoll", "rpmbPoll"} =>
         \/ i' = i + 1
         \/ pc' = "idle" /\ result' = 0]_vars

\* "Clear the partition access": a switch of the partition leaves the other
\* bits of PARTITION_CONFIG as they were (mmc_sdhci_switch_part).
BootConfigKept == [][card'.config.boot = card.config.boot]_vars
=============================================================================
