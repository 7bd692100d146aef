-------------------------- MODULE MmcTransferProofs --------------------------
(* Proofs about the operations on an initialised card, for a card and calls  *)
(* of any size and any limits of the status loops.                           *)
EXTENDS MmcTransfer, TLAPS

\* What the properties are about: an eMMC of whole erase groups.  On an SD
\* card an erase ends too early, which MmcEraseSd shows.
WholeGroups == CardTypes = {"mmc"} /\ Blocks % GroupSize = 0

TransferPcs == {"transfer", "stop"}
ErasePcs == {"CMD35", "CMD36", "CMD38", "erasePoll"}
WpPcs == {"permWpDis", "permWpDisStatus", "CMD8", "pwrWpEn", "pwrWpEnStatus", "CMD28", "wpPoll"}
RpmbPcs == {"switchIn", "switchInStatus", "CMD23", "rpmbSend", "rpmbPoll", "switchOut", "switchOutStatus"}
SleepPcs == {"deselect", "CMD5"}

CardStates == [type : CardTypes, state : {"idle", "stby", "tran", "data", "rcv", "prg", "slp"},
               config : Config, first : Nat, last : Nat, switchErr : BOOLEAN,
               protected : SUBSET (0 .. Blocks - 1)]

ShapeInv ==
    /\ result \in {0, 1} /\ ret \in {0, 1} /\ resp \in R1
    /\ ext_csd \in Config /\ card \in CardStates
    /\ moved \in BOOLEAN

\* The call under way, and where the driver is in it.
CallInv ==
    /\ call.kind \in {"read", "write", "erase", "wp", "rpmb", "sleep"}
    /\ call.addr \in 0 .. Blocks - 1 /\ call.addr % GroupSize = 0
    /\ call.len \in Nat /\ call.set_clr \in {0, 1} /\ (call.kind = "rpmb" => call.len >= 1)

PcInv ==
    /\ pc \in {"idle"} \cup TransferPcs \cup ErasePcs \cup WpPcs \cup RpmbPcs \cup SleepPcs
    /\ pc \in TransferPcs => call.kind \in {"read", "write"}
    /\ pc \in ErasePcs => call.kind = "erase" /\ call.len >= GroupSize
    /\ pc \in WpPcs => call.kind = "wp"
    /\ pc \in RpmbPcs => call.kind = "rpmb"
    /\ pc \in SleepPcs => call.kind = "sleep"

\* A status loop is left when its count is used up.
Limit == IF call.kind = "rpmb" THEN RpmbRetry ELSE MMC_MAX_CARD_STAT_RETRY

RetryInv ==
    /\ retry \in Nat /\ retry <= Limit
    /\ pc \notin {"idle", "switchOut", "switchOutStatus"} => retry < Limit

\* What is asked for: commands, or groups.
CountInv ==
    /\ i \in Nat
    /\ i <= (IF call.kind = "rpmb" THEN call.len ELSE WpGroups)
    /\ pc \in RpmbPcs \ {"switchOut", "switchOutStatus"} => i < call.len
    /\ pc \in {"permWpDis", "permWpDisStatus", "CMD8"} => i = 0
    /\ pc \in {"pwrWpEn", "pwrWpEnStatus"} => i = 0 /\ i < WpGroups
    /\ pc \in {"CMD28", "wpPoll"} => i < WpGroups

\* The first k groups from the address of the call.
GroupsDone(k) ==
    {b \in 0 .. Blocks - 1 : GroupOf(call.addr) <= GroupOf(b) /\ GroupOf(b) < GroupOf(call.addr) + k}

\* The range the card was given and what it erased.
EraseInv ==
    /\ pc \in {"CMD36", "CMD38"} => card.first = call.addr
    /\ pc = "CMD38" => card.last = EraseEnd /\ EraseEnd < Blocks
    /\ call.kind = "erase" =>
          /\ changed = {} \/ changed = GroupsDone(call.len \div GroupSize) \ card.protected
          /\ changed # {} => EraseEnd < Blocks /\ call.len >= GroupSize
          /\ pc = "erasePoll" \/ (pc = "idle" /\ result = 0) =>
                changed = GroupsDone(call.len \div GroupSize) \ card.protected
                /\ EraseEnd < Blocks /\ call.len >= GroupSize

\* The groups that were protected, one by one.
ProtectInv ==
    /\ call.kind = "wp" =>
          /\ \E k \in Nat : k <= WpGroups /\ changed = GroupsDone(k)
          /\ pc \in {"permWpDis", "permWpDisStatus", "CMD8", "pwrWpEn", "pwrWpEnStatus", "CMD28"}
                => changed = GroupsDone(i)
          /\ pc = "wpPoll" => changed = GroupsDone(i + 1)
          /\ pc = "idle" /\ result = 0 => changed = GroupsDone(WpGroups)
          /\ call.set_clr = 1 => changed \subseteq card.protected
    /\ call.kind \notin {"erase", "wp"} => changed = {}

\* The switch back was refused, or it was done.
SwitchInv ==
    /\ pc = "switchOutStatus" => card.switchErr \/ card.config = WithAccess("user")
    /\ RpmbSuccessRestores

TruthInv ==
    /\ ShapeInv /\ CallInv /\ PcInv /\ RetryInv /\ CountInv
    /\ MultiSuccessMoves /\ EraseInv /\ ProtectInv /\ SwitchInv

-----------------------------------------------------------------------------
(* Groups.                                                                   *)

LEMMA DivBounds ==
    ASSUME NEW x \in Nat, NEW g \in Nat \ {0}
    PROVE  /\ x \div g \in Nat
           /\ (x \div g) * g <= x /\ x < (x \div g) * g + g
BY Z3

LEMMA TimesMonotone ==
    ASSUME NEW x \in Int, NEW y \in Int, NEW g \in Nat, x <= y
    PROVE  x * g <= y * g
BY Z3

LEMMA DivIsUnique ==
    ASSUME NEW x \in Nat, NEW g \in Nat \ {0}, NEW k \in Nat,
           k * g <= x, x < k * g + g
    PROVE  x \div g = k
BY Z3

\* From an address that starts a group, k groups are k * GroupSize blocks.
LEMMA GroupRange ==
    ASSUME NEW a \in Nat, a % GroupSize = 0, NEW k \in Nat, NEW b \in Nat
    PROVE  GroupOf(a) <= GroupOf(b) /\ GroupOf(b) < GroupOf(a) + k
              <=> a <= b /\ b < a + k * GroupSize
<1> DEFINE g == GroupSize
           p == a \div g
           q == b \div g
<1>1. g \in Nat \ {0}
  BY SizesAssumption
<1>2. p \in Nat /\ a = p * g
  BY <1>1, Z3
<1>3. q \in Nat /\ q * g <= b /\ b < q * g + g
  BY <1>1, DivBounds
<1>4. GroupOf(a) = p /\ GroupOf(b) = q
  BY DEF GroupOf
<1> HIDE DEF g, p, q
<1>5. p <= q => a <= b
  BY <1>1, <1>2, <1>3, TimesMonotone
<1>6. ~(p <= q) => b < a
  <2> SUFFICES ASSUME q + 1 <= p PROVE b < a
    BY <1>2, <1>3
  <2>1. (q + 1) * g <= p * g
    BY <1>1, <1>2, <1>3, TimesMonotone
  <2>2. (q + 1) * g = q * g + g
    BY <1>1, <1>3, Z3
  <2> QED
    BY <1>1, <1>2, <1>3, <2>1, <2>2
<1>7. (p + k) * g = a + k * g
  BY <1>1, <1>2, Z3
<1>8. q < p + k => b < a + k * g
  <2> SUFFICES ASSUME q + 1 <= p + k PROVE b < a + k * g
    BY <1>2, <1>3
  <2>1. (q + 1) * g <= (p + k) * g
    BY <1>1, <1>2, <1>3, TimesMonotone
  <2>2. (q + 1) * g = q * g + g
    BY <1>1, <1>3, Z3
  <2> QED
    BY <1>1, <1>2, <1>3, <1>7, <2>1, <2>2
<1>9. ~(q < p + k) => ~(b < a + k * g)
  <2> SUFFICES ASSUME p + k <= q PROVE a + k * g <= b
    BY <1>1, <1>2, <1>3
  <2>1. (p + k) * g <= q * g
    BY <1>1, <1>2, <1>3, TimesMonotone
  <2> QED
    BY <1>1, <1>2, <1>3, <1>7, <2>1
<1> QED
  BY <1>4, <1>5, <1>6, <1>8, <1>9, <1>2, <1>3 DEF g

\* The last group of an erase is not past the end of its range.
LEMMA EraseEndIs ==
    ASSUME CallInv, call.len >= GroupSize
    PROVE  EraseEnd = call.addr + (call.len \div GroupSize - 1) * GroupSize
<1> DEFINE n == call.len \div GroupSize
<1>1. GroupSize \in Nat \ {0} /\ call.addr \in Nat /\ call.len \in Nat
  BY SizesAssumption DEF CallInv
<1>2. n \in Nat /\ n * GroupSize <= call.len
  BY <1>1, DivBounds
<1> DEFINE end == call.addr + (n - 1) * GroupSize
<1>3. EraseEnd = IF end > call.addr + call.len THEN end - GroupSize ELSE end
  BY Zenon DEF EraseEnd
<1> HIDE DEF n
<1>4. (n - 1) * GroupSize = n * GroupSize - GroupSize
  BY <1>1, <1>2, Z3
<1>5. n * GroupSize \in Int
  BY <1>1, <1>2
<1>6. ~(end > call.addr + call.len)
  BY <1>1, <1>2, <1>4, <1>5
<1> QED
  BY <1>3, <1>6 DEF n

\* On an eMMC the range from the first to the last group of an erase is the
\* whole groups the call names.
LEMMA WholeIsGroups ==
    ASSUME WholeGroups, CallInv, call.len >= GroupSize, EraseEnd < Blocks
    PROVE  /\ Whole = GroupsDone(call.len \div GroupSize)
           /\ \A c : c.type = "mmc" /\ c.first = call.addr /\ c.last = EraseEnd
                       => Selected(c) = Whole
<1> DEFINE g == GroupSize
           a == call.addr
           n == call.len \div g
<1>1. /\ g \in Nat \ {0} /\ Blocks \in Nat
      /\ a \in Nat /\ a % g = 0 /\ call.len \in Nat /\ g <= call.len
      /\ Blocks % g = 0
  BY SizesAssumption DEF CallInv, WholeGroups
<1>2. n \in Nat /\ n >= 1
  <2>1. n \in Nat /\ call.len < n * g + g
    BY <1>1, DivBounds
  <2> HIDE DEF n, g
  <2>2. n = 0 => n * g = 0
    BY <1>1
  <2> QED
    BY <1>1, <2>1, <2>2
<1>3. EraseEnd = a + (n - 1) * g
  BY EraseEndIs
<1>4. GroupOf(EraseEnd) = GroupOf(a) + n - 1
  <2> DEFINE p == a \div g
  <2>1. p \in Nat /\ a = p * g
    BY <1>1, Z3
  <2> HIDE DEF n, g, p
  <2>2. a + (n - 1) * g = (p + n - 1) * g
    BY <1>1, <1>2, <2>1, Z3
  <2>3. p + n - 1 \in Nat /\ (p + n - 1) * g \in Nat
    BY <1>1, <1>2, <2>1
  <2>4. ((p + n - 1) * g) \div g = p + n - 1
    BY <1>1, <2>3, DivIsUnique
  <2> QED
    BY <1>3, <2>2, <2>4 DEF GroupOf, g, p
<1>5. a + n * g <= Blocks
  <2> DEFINE m == Blocks \div g
             p == a \div g
  <2>1. p \in Nat /\ a = p * g
    BY <1>1, Z3
  <2>2. m \in Nat /\ Blocks = m * g
    BY <1>1, Z3
  <2> HIDE DEF n, g, p, m
  <2>3. (p + n - 1) * g < m * g
    <3>1. a + (n - 1) * g = (p + n - 1) * g
      BY <1>1, <1>2, <2>1, Z3
    <3> QED
      BY <1>3, <2>2, <3>1
  <2>4. p + n - 1 < m
    <3> SUFFICES ASSUME m <= p + n - 1 PROVE FALSE
      BY <1>2, <2>1, <2>2
    <3>1. m * g <= (p + n - 1) * g
      BY <1>1, <1>2, <2>1, <2>2, TimesMonotone
    <3>2. m * g \in Int /\ (p + n - 1) * g \in Int
      BY <1>1, <1>2, <2>1, <2>2
    <3> QED
      BY <2>3, <3>1, <3>2
  <2>5. (p + n) * g <= m * g
    BY <1>1, <1>2, <2>1, <2>2, <2>4, TimesMonotone
  <2>6. (p + n) * g = a + n * g
    BY <1>1, <1>2, <2>1, Z3
  <2> QED
    BY <2>2, <2>5, <2>6
<1>6. call.addr + (call.len \div GroupSize) * GroupSize = a + n * g
  OBVIOUS
<1>7. n * g \in Nat
  BY <1>1, <1>2
<1>8. ASSUME NEW b \in Nat
      PROVE  GroupOf(a) <= GroupOf(b) /\ GroupOf(b) < GroupOf(a) + n
                <=> a <= b /\ b < a + n * g
  BY <1>1, <1>2, GroupRange
<1>9. Whole = {b \in Nat : a <= b /\ b < a + n * g}
  <2> HIDE DEF n, g, a
  <2> QED
    BY <1>1, <1>2, <1>6, <1>7 DEF Whole, a, n, g
<1>10. GroupsDone(n) = Whole
  <2> HIDE DEF n, g, a
  <2> QED
    BY <1>1, <1>5, <1>7, <1>8, <1>9 DEF GroupsDone, a
<1>11. ASSUME NEW c, c.type = "mmc", c.first = call.addr, c.last = EraseEnd
       PROVE  Selected(c) = GroupsDone(n)
  <2>1. Selected(c) = {b \in 0 .. Blocks - 1 : GroupOf(b) \in GroupOf(a) .. GroupOf(EraseEnd)}
    BY <1>11 DEF Selected
  <2>2. \A b \in 0 .. Blocks - 1 : GroupOf(b) \in Nat
    BY <1>1, DivBounds DEF GroupOf
  <2>3. GroupOf(a) \in Nat
    BY <1>1, DivBounds DEF GroupOf
  <2> HIDE DEF n, g, a
  <2> QED
    BY <1>2, <1>4, <2>1, <2>2, <2>3 DEF GroupsDone, a
<1> QED
  BY <1>10, <1>11

\* The groups a range of blocks touches, from a group's start, are as many as
\* the rounded up length says.
LEMMA TouchedIsGroups ==
    ASSUME CallInv
    PROVE  WpGroups \in Nat /\ Touched = GroupsDone(WpGroups)
<1> DEFINE g == GroupSize
           a == call.addr
           w == WpGroups
<1>1. /\ g \in Nat \ {0} /\ Blocks \in Nat
      /\ a \in Nat /\ a % g = 0 /\ call.len \in Nat
  BY SizesAssumption DEF CallInv
<1>2. /\ w \in Nat /\ w * g <= call.len + g - 1 /\ call.len + g - 1 < w * g + g
  BY <1>1, DivBounds DEF WpGroups
<1>3. \A b \in Nat : GroupOf(b) \in Nat
  BY <1>1, DivBounds DEF GroupOf
<1> HIDE DEF w, g, a
<1>4. ASSUME NEW b \in 0 .. Blocks - 1, NEW c \in a .. a + call.len - 1, GroupOf(c) = GroupOf(b)
      PROVE  GroupOf(a) <= GroupOf(b) /\ GroupOf(b) < GroupOf(a) + w
  <2>1. w * g \in Nat
    BY <1>1, <1>2
  <2>2. c \in Nat /\ a <= c /\ c < a + w * g
    BY <1>1, <1>2, <2>1
  <2>3. GroupOf(a) <= GroupOf(c) /\ GroupOf(c) < GroupOf(a) + w
    BY <1>1, <1>2, <2>2, GroupRange DEF g
  <2> QED
    BY <1>4, <2>3
<1>5. ASSUME NEW b \in 0 .. Blocks - 1, GroupOf(a) <= GroupOf(b), GroupOf(b) < GroupOf(a) + w
      PROVE  \E c \in a .. a + call.len - 1 : GroupOf(c) = GroupOf(b)
  <2> DEFINE p == GroupOf(a)
             q == GroupOf(b)
  <2>1. p \in Nat /\ q \in Nat /\ p <= q /\ q - p <= w - 1
    BY <1>1, <1>2, <1>3, <1>5
  <2>2. a = p * g
    BY <1>1, Z3 DEF GroupOf, g
  <2> HIDE DEF p, q
  <2>3. q * g \in Nat /\ (q - p) * g \in Int
    BY <1>1, <2>1
  <2>4. (q * g) \div g = q
    BY <1>1, <2>1, <2>3, DivIsUnique
  <2>5. p * g <= q * g
    BY <1>1, <2>1, TimesMonotone
  <2>6. (q - p) * g <= (w - 1) * g
    BY <1>1, <1>2, <2>1, TimesMonotone
  <2>7. (w - 1) * g = w * g - g /\ (q - p) * g = q * g - p * g
    BY <1>1, <1>2, <2>1, Z3
  <2>8. q * g \in a .. a + call.len - 1
    <3>1. w * g \in Int /\ p * g \in Int
      BY <1>1, <1>2, <2>1
    <3> QED
      BY <1>1, <1>2, <2>2, <2>3, <2>5, <2>6, <2>7, <3>1
  <2>9. GroupOf(q * g) = q
    BY <2>4 DEF GroupOf, g
  <2> QED
    BY <2>8, <2>9 DEF q
<1>6. Touched = {b \in 0 .. Blocks - 1 : \E c \in a .. a + call.len - 1 : GroupOf(c) = GroupOf(b)}
  BY DEF Touched, a
<1>7. GroupsDone(w) = {b \in 0 .. Blocks - 1 :
                          GroupOf(a) <= GroupOf(b) /\ GroupOf(b) < GroupOf(a) + w}
  BY DEF GroupsDone, a
<1>8. Touched = GroupsDone(w)
  BY <1>4, <1>5, <1>6, <1>7
<1> QED
  BY <1>2, <1>8 DEF w

-----------------------------------------------------------------------------
(* What a command does.                                                      *)

States == {"idle", "stby", "tran", "data", "rcv", "prg", "slp"}

LEMMA PlainSent ==
    ASSUME ShapeInv, NEW index, NEW after \in SUBSET CardStates, NEW bad \in BOOLEAN,
           SendPlain(index, after, bad)
    PROVE  /\ ret' \in {0, 1} /\ resp' \in R1 /\ card' \in CardStates
           /\ UNCHANGED <<moved, changed>>
           /\ (card' = card /\ ret' = 1) \/ card' \in after
           /\ resp' = NoResponse
              \/ (resp' = [state |-> card.state, bad |-> bad] /\ card.state \in Legal(index))
           /\ ret' = 0 => /\ card' \in after
                          /\ resp' = [state |-> card.state, bad |-> bad]
<1>1. card \in CardStates /\ card.state \in States
  BY DEF ShapeInv, CardStates, States
<1>2. NoResponse \in R1 /\ [state |-> card.state, bad |-> bad] \in R1
  BY <1>1 DEF NoResponse, R1, States
<1>3. CASE Unheard(index)
  BY <1>1, <1>2, <1>3 DEF Unheard
<1>4. CASE Taken(index, after, bad) /\ UNCHANGED <<moved, changed>>
  BY <1>1, <1>2, <1>4 DEF Taken
<1> QED
  BY <1>3, <1>4 DEF SendPlain

\* A command with data succeeds with the data moved only, and changes nothing
\* of the card but its state.
LEMMA DataSent ==
    ASSUME ShapeInv, NEW index, NEW during \in States, NEW done \in SUBSET States,
           SendData(index, during, done)
    PROVE  /\ ret' \in {0, 1} /\ resp' \in R1 /\ card' \in CardStates
           /\ moved' \in BOOLEAN /\ (ret' = 0 => moved')
           /\ UNCHANGED changed
           /\ card'.config = card.config /\ card'.protected = card.protected
<1> DEFINE after == {[card EXCEPT !.state = s] : s \in done \cup {during}}
<1>1. card \in CardStates /\ moved \in BOOLEAN /\ card.state \in States
  BY DEF ShapeInv, CardStates, States
<1>2. ASSUME NEW s \in States
      PROVE  [card EXCEPT !.state = s] \in CardStates
             /\ [card EXCEPT !.state = s].config = card.config
             /\ [card EXCEPT !.state = s].protected = card.protected
  BY <1>1 DEF CardStates, States
<1>3. ASSUME NEW c \in after
      PROVE  c \in CardStates /\ c.config = card.config /\ c.protected = card.protected
  <2>1. PICK s \in done \cup {during} : c = [card EXCEPT !.state = s]
    OBVIOUS
  <2>2. s \in States
    OBVIOUS
  <2> QED
    BY <1>2, <2>1, <2>2
<1> HIDE DEF after
<1>4. /\ NoResponse \in R1
      /\ \A bad \in BOOLEAN : [state |-> card.state, bad |-> bad] \in R1
  BY <1>1 DEF NoResponse, R1, States
<1>5. CASE Unheard(index)
  BY <1>1, <1>4, <1>5 DEF Unheard
<1>6. CASE /\ Taken(index, after, FALSE)
           /\ moved' = (ret' = 0) /\ UNCHANGED changed
  BY <1>3, <1>4, <1>6 DEF Taken
<1>7. CASE /\ Taken(index, {card}, TRUE)
           /\ ret' = 1 /\ UNCHANGED <<moved, changed>>
  <2>1. /\ card' = card /\ ret' = 1
        /\ resp' = NoResponse \/ resp' = [state |-> card.state, bad |-> TRUE]
    BY <1>7 DEF Taken
  <2>2. resp' \in R1
    BY <1>4, <2>1
  <2> QED
    BY <1>1, <1>7, <2>1, <2>2
<1> QED
  BY <1>5, <1>6, <1>7 DEF SendData, after

\* The rest of the invariant is about calls of one kind each.
LEMMA OtherKinds ==
    ASSUME PcInv', UNCHANGED call
    PROVE  /\ call.kind # "erase" => EraseInv'
           /\ call.kind # "rpmb" => SwitchInv'
           /\ call.kind \notin {"read", "write"} => MultiSuccessMoves'
           /\ call.kind = "erase" => ProtectInv'
           /\ call.kind \notin {"erase", "wp"} /\ changed' = {} => ProtectInv'
<1>1. ASSUME call.kind # "erase" PROVE EraseInv'
  <2>1. pc' \notin {"CMD36", "CMD38"}
    BY <1>1 DEF PcInv, ErasePcs
  <2> QED
    BY <1>1, <2>1 DEF EraseInv
<1>2. ASSUME call.kind # "rpmb" PROVE SwitchInv'
  <2>1. pc' # "switchOutStatus"
    BY <1>2 DEF PcInv, RpmbPcs
  <2> QED
    BY <1>2, <2>1 DEF SwitchInv, RpmbSuccessRestores, Returned
<1>3. call.kind \notin {"read", "write"} => MultiSuccessMoves'
  BY DEF MultiSuccessMoves, Returned
<1>4. call.kind = "erase" => ProtectInv'
  BY DEF ProtectInv
<1>5. call.kind \notin {"erase", "wp"} /\ changed' = {} => ProtectInv'
  BY DEF ProtectInv
<1> QED
  BY <1>1, <1>2, <1>3, <1>4, <1>5

\* The count of the polls, when a step leaves it alone or a poll adds to it.
LEMMA RetryKept ==
    ASSUME RetryInv, UNCHANGED call, retry' \in {retry, retry + 1},
           pc \notin {"idle", "switchOut", "switchOutStatus"},
           retry' # Limit \/ pc' \in {"idle", "switchOut"}
    PROVE  RetryInv'
<1>1. Limit' = Limit
  BY DEF Limit
<1>2. retry \in Nat /\ Limit \in Nat /\ retry < Limit
  BY SizesAssumption DEF RetryInv, Limit
<1> QED
  BY <1>1, <1>2 DEF RetryInv

LEMMA RetrySame ==
    ASSUME RetryInv, UNCHANGED <<call, retry>>,
           pc \notin {"idle", "switchOut", "switchOutStatus"}
    PROVE  RetryInv'
<1>1. retry \in Nat /\ Limit \in Nat /\ retry < Limit
  BY SizesAssumption DEF RetryInv, Limit
<1> QED
  BY <1>1, RetryKept

\* Outside the loops over commands and groups their count does not matter.
LEMMA CountKept ==
    ASSUME CountInv, UNCHANGED <<call, i>>,
           pc' \in {"idle", "switchOut", "switchOutStatus"} \cup TransferPcs \cup ErasePcs \cup SleepPcs
    PROVE  CountInv'
<1>1. pc' \notin (RpmbPcs \ {"switchOut", "switchOutStatus"}) \cup WpPcs
  BY DEF TransferPcs, ErasePcs, SleepPcs, RpmbPcs, WpPcs
<1> QED
  BY <1>1 DEF CountInv, WpPcs, WpGroups

-----------------------------------------------------------------------------
(* The operations.                                                           *)

LEMMA TransferSteps ==
    ASSUME TruthInv, Transfer \/ StopCommand
    PROVE  TruthInv'
<1>1. /\ ShapeInv /\ CallInv /\ PcInv /\ RetryInv /\ CountInv /\ ProtectInv
  BY DEF TruthInv
<1>2. /\ pc \in TransferPcs /\ UNCHANGED <<call, retry, i, ext_csd>>
      /\ pc' \in {"idle", "stop"}
  BY DEF Transfer, StopCommand, TransferPcs, Return, GoOn
<1>3. call.kind \in {"read", "write"} /\ changed = {}
  BY <1>1, <1>2 DEF PcInv, ProtectInv
<1>4. /\ ret' \in {0, 1} /\ resp' \in R1 /\ card' \in CardStates /\ moved' \in BOOLEAN
      /\ changed' = changed /\ result' \in {0, 1}
      /\ pc' = "idle" /\ result' = 0 /\ call.len > 1 => moved'
  <2>1. CASE Transfer
    <3>1. SendData("CMD17", "data", {"tran"}) \/ SendData("CMD24", "rcv", {"tran", "prg"})
      BY <2>1 DEF Transfer
    <3>2. /\ ret' \in {0, 1} /\ resp' \in R1 /\ card' \in CardStates
          /\ moved' \in BOOLEAN /\ (ret' = 0 => moved')
          /\ UNCHANGED changed
      <4>1. {"tran"} \in SUBSET States /\ {"tran", "prg"} \in SUBSET States
            /\ "data" \in States /\ "rcv" \in States
        BY DEF States
      <4> QED
        BY <1>1, <3>1, <4>1, DataSent
    <3>3. \/ ret' = 1 /\ call.len > 1 /\ pc' = "stop" /\ result' = result
          \/ ~(ret' = 1 /\ call.len > 1) /\ pc' = "idle" /\ result' \in {0, 1}
      BY <2>1 DEF Transfer, GoOn, Return, mmc_parse_response
    <3> QED
      BY <1>1, <3>2, <3>3 DEF ShapeInv
  <2>2. CASE StopCommand
    <3> DEFINE after == {[card EXCEPT !.state = s] : s \in {"tran", "prg"}}
    <3>1. /\ SendPlain("CMD12", after, FALSE)
          /\ result' = IF ret' = 1 THEN 1 ELSE mmc_parse_response(resp')
      BY <2>2 DEF StopCommand, Return
    <3>2. after \in SUBSET CardStates
      BY <1>1 DEF ShapeInv, CardStates
    <3> HIDE DEF after
    <3>3. /\ ret' \in {0, 1} /\ resp' \in R1 /\ card' \in CardStates
          /\ UNCHANGED <<moved, changed>>
          /\ resp' = NoResponse
             \/ (resp' = [state |-> card.state, bad |-> FALSE] /\ card.state \in Legal("CMD12"))
      BY <1>1, <3>1, <3>2, PlainSent
    <3>4. resp'.state # "tran"
      BY <3>3 DEF NoResponse, Legal
    <3>5. result' = 1
      BY <3>1, <3>3, <3>4 DEF mmc_parse_response
    <3> QED
      BY <1>1, <3>3, <3>5 DEF ShapeInv
  <2> QED
    BY <2>1, <2>2
<1>5. ShapeInv' /\ CallInv'
  BY <1>1, <1>2, <1>4 DEF ShapeInv, CallInv
<1>6. PcInv'
  BY <1>2, <1>3 DEF PcInv, TransferPcs, ErasePcs, WpPcs, RpmbPcs, SleepPcs
<1>7. RetryInv'
  BY <1>1, <1>2, RetrySame DEF TransferPcs
<1>8. CountInv'
  BY <1>1, <1>2, CountKept DEF TransferPcs
<1>9. MultiSuccessMoves'
  BY <1>2, <1>4 DEF MultiSuccessMoves, Returned
<1>10. EraseInv' /\ SwitchInv' /\ ProtectInv'
  BY <1>2, <1>3, <1>4, <1>6, OtherKinds
<1> QED
  BY <1>5, <1>6, <1>7, <1>8, <1>9, <1>10 DEF TruthInv

LEMMA SleepSteps == TruthInv /\ Sleep => TruthInv'
<1> SUFFICES ASSUME TruthInv, Sleep PROVE TruthInv'
  OBVIOUS
<1>1. /\ ShapeInv /\ CallInv /\ PcInv /\ RetryInv /\ CountInv /\ ProtectInv
  BY DEF TruthInv
<1>2. /\ pc \in SleepPcs /\ UNCHANGED <<call, retry, i, ext_csd>>
      /\ pc' \in {"idle", "CMD5"} /\ (result' = 0 \/ result' = result)
      /\ \/ SendPlain("CMD7", {[card EXCEPT !.state = "stby"]}, FALSE)
         \/ SendPlain("CMD5", {[card EXCEPT !.state = "slp"]}, FALSE)
  BY DEF Sleep, SleepPcs, Return, GoOn
<1>3. call.kind = "sleep" /\ changed = {}
  BY <1>1, <1>2 DEF PcInv, ProtectInv
<1>4. /\ ret' \in {0, 1} /\ resp' \in R1 /\ card' \in CardStates
      /\ UNCHANGED <<moved, changed>>
  <2>1. /\ {[card EXCEPT !.state = "stby"]} \in SUBSET CardStates
        /\ {[card EXCEPT !.state = "slp"]} \in SUBSET CardStates
    BY <1>1 DEF ShapeInv, CardStates
  <2> QED
    BY <1>1, <1>2, <2>1, PlainSent
<1>5. ShapeInv' /\ CallInv'
  BY <1>1, <1>2, <1>4 DEF ShapeInv, CallInv
<1>6. PcInv'
  BY <1>2, <1>3 DEF PcInv, TransferPcs, ErasePcs, WpPcs, RpmbPcs, SleepPcs
<1>7. RetryInv'
  BY <1>1, <1>2, RetrySame DEF SleepPcs
<1>8. CountInv'
  BY <1>1, <1>2, CountKept DEF SleepPcs
<1>9. MultiSuccessMoves' /\ EraseInv' /\ SwitchInv' /\ ProtectInv'
  BY <1>2, <1>3, <1>4, <1>6, OtherKinds
<1> QED
  BY <1>5, <1>6, <1>7, <1>8, <1>9 DEF TruthInv

LEMMA CallTypes ==
    ASSUME NEW c \in Call
    PROVE  /\ c.kind \in {"read", "write", "erase", "wp", "rpmb", "sleep"}
           /\ c.addr \in 0 .. Blocks - 1 /\ c.addr % GroupSize = 0
           /\ c.len \in Nat /\ c.set_clr \in {0, 1} /\ (c.kind = "rpmb" => c.len >= 1)
<1>1. /\ Blocks \in Nat \ {0} /\ GroupSize \in Nat \ {0} /\ MaxBlocks \in Nat
      /\ MAX_RPMB_CMDS \in Nat
  BY SizesAssumption
<1>2. 0 \in 0 .. Blocks - 1 /\ 0 % GroupSize = 0
  BY <1>1, Z3
<1> DEFINE starts == {b \in 0 .. Blocks - 1 : b % GroupSize = 0}
<1>3. CASE c \in [kind : Kinds \cap {"read", "write"}, addr : {0}, len : 1 .. MaxBlocks,
                  set_clr : {0}]
  BY <1>1, <1>2, <1>3
<1>4. CASE c \in [kind : Kinds \cap {"erase"}, addr : starts, len : 0 .. Blocks,
                  set_clr : {0}]
  BY <1>1, <1>4
<1>5. CASE c \in [kind : Kinds \cap {"wp"}, addr : starts, len : 0 .. Blocks,
                  set_clr : {0, 1}]
  BY <1>1, <1>5
<1>6. CASE c \in [kind : Kinds \cap {"rpmb"}, addr : {0}, len : 1 .. MAX_RPMB_CMDS,
                  set_clr : {0}]
  BY <1>1, <1>2, <1>6
<1>7. CASE c \in [kind : Kinds \cap {"sleep"}, addr : {0}, len : {0}, set_clr : {0}]
  BY <1>1, <1>2, <1>7
<1> QED
  BY <1>3, <1>4, <1>5, <1>6, <1>7, Zenon DEF Call

LEMMA NoGroups ==
    ASSUME NEW a \in 0 .. Blocks - 1, NEW b \in 0 .. Blocks - 1
    PROVE  ~(GroupOf(a) <= GroupOf(b) /\ GroupOf(b) < GroupOf(a) + 0)
<1>1. GroupSize \in Nat \ {0} /\ a \in Nat /\ b \in Nat
  BY SizesAssumption
<1>2. GroupOf(a) \in Nat /\ GroupOf(b) \in Nat
  BY <1>1, DivBounds DEF GroupOf
<1> QED
  BY <1>2

LEMMA BeginSteps ==
    ASSUME TruthInv, NEW c \in Call, Begin(c)
    PROVE  TruthInv'
<1>1. ShapeInv
  BY DEF TruthInv
<1>2. /\ call' = c /\ retry' = 0 /\ i' = 0 /\ ret' = 0 /\ resp' = NoResponse
      /\ moved' = FALSE /\ changed' = {} /\ UNCHANGED <<ext_csd, card>>
  BY DEF Begin
<1>3. \/ c.kind \in {"read", "write"} /\ pc' = "transfer" /\ result' = result
      \/ c.kind = "erase" /\ pc' = "idle" /\ result' = 1
      \/ c.kind = "erase" /\ c.len >= GroupSize /\ pc' = "CMD35" /\ result' = result
      \/ c.kind = "wp" /\ pc' = "permWpDis" /\ result' = result
      \/ c.kind = "rpmb" /\ pc' = "switchIn" /\ result' = result
      \/ c.kind = "sleep" /\ pc' = "deselect" /\ result' = result
  BY DEF Begin
<1>4. /\ c.kind \in {"read", "write", "erase", "wp", "rpmb", "sleep"}
      /\ c.addr \in 0 .. Blocks - 1 /\ c.addr % GroupSize = 0
      /\ c.len \in Nat /\ c.set_clr \in {0, 1} /\ (c.kind = "rpmb" => c.len >= 1)
  BY CallTypes
<1>5. ShapeInv'
  <2>1. result' \in {0, 1}
    BY <1>1, <1>3 DEF ShapeInv
  <2>2. NoResponse \in R1
    BY DEF NoResponse, R1
  <2> QED
    BY <1>1, <1>2, <2>1, <2>2 DEF ShapeInv
<1>6. CallInv'
  BY <1>2, <1>4 DEF CallInv
<1>7. PcInv'
  BY <1>2, <1>3 DEF PcInv, TransferPcs, ErasePcs, WpPcs, RpmbPcs, SleepPcs
<1>8. RetryInv'
  <2>1. Limit' \in Nat \ {0}
    BY <1>2, SizesAssumption DEF Limit
  <2> QED
    BY <1>2, <2>1 DEF RetryInv
<1>9. WpGroups' \in Nat
  <2>1. GroupSize \in Nat \ {0} /\ c.len + GroupSize - 1 \in Nat
    BY <1>4, SizesAssumption
  <2>2. (c.len + GroupSize - 1) \div GroupSize \in Nat
    BY <2>1, DivBounds
  <2> QED
    BY <1>2, <2>2 DEF WpGroups
<1>10. CountInv'
  <2>1. pc' \in {"idle", "transfer", "CMD35", "permWpDis", "switchIn", "deselect"}
        /\ (pc' = "switchIn" => c.kind = "rpmb")
    BY <1>3
  <2>2. /\ pc' \notin {"pwrWpEn", "pwrWpEnStatus", "CMD28", "wpPoll"}
        /\ pc' \in RpmbPcs \ {"switchOut", "switchOutStatus"} => c.kind = "rpmb"
    BY <2>1 DEF RpmbPcs
  <2>3. i' \in Nat /\ i' = 0 /\ 0 <= WpGroups' /\ 0 <= c.len
    BY <1>2, <1>4, <1>9
  <2>4. c.kind = "rpmb" => 0 < c.len
    BY <1>4
  <2> QED
    BY <1>2, <2>2, <2>3, <2>4 DEF CountInv
<1>11. GroupsDone(0)' = {}
  <2>1. GroupsDone(0)' = {b \in 0 .. Blocks - 1 :
                            GroupOf(c.addr) <= GroupOf(b) /\ GroupOf(b) < GroupOf(c.addr) + 0}
    BY <1>2 DEF GroupsDone, GroupOf
  <2> QED
    BY <1>4, <2>1, NoGroups
<1>12. MultiSuccessMoves' /\ SwitchInv'
  <2>1. /\ ~(Returned({"read", "write"})' /\ result' = 0) /\ ~(Returned({"rpmb"})' /\ result' = 0)
        /\ pc' # "switchOutStatus"
    BY <1>2, <1>3 DEF Returned
  <2> QED
    BY <2>1 DEF MultiSuccessMoves, SwitchInv, RpmbSuccessRestores
<1>13. EraseInv'
  <2>1. pc' \notin {"CMD36", "CMD38", "erasePoll"} /\ (pc' = "idle" => result' = 1)
    BY <1>3
  <2> QED
    BY <1>2, <2>1 DEF EraseInv
<1>14. ProtectInv'
  <2>1. call'.kind = "wp" => pc' = "permWpDis"
    BY <1>2, <1>3
  <2>2. 0 \in Nat /\ 0 <= WpGroups'
    BY <1>9
  <2> QED
    BY <1>2, <1>11, <2>1, <2>2 DEF ProtectInv
<1> QED
  BY <1>5, <1>6, <1>7, <1>8, <1>10, <1>12, <1>13, <1>14 DEF TruthInv

\* What depends on the call alone.
LEMMA CallSame ==
    ASSUME UNCHANGED call
    PROVE  /\ EraseEnd' = EraseEnd /\ WpGroups' = WpGroups
           /\ \A k : GroupsDone(k)' = GroupsDone(k)
BY DEF EraseEnd, WpGroups, GroupsDone, GroupOf

\* A command with an address does nothing when the address is not the card's.
LEMMA AddressSent ==
    ASSUME ShapeInv, NEW index, NEW address \in Nat, NEW after \in SUBSET CardStates,
           SendAddress(index, address, after)
    PROVE  /\ ret' \in {0, 1} /\ resp' \in R1 /\ card' \in CardStates
           /\ UNCHANGED <<moved, changed>>
           /\ card' = card \/ card' \in after
           /\ ret' = 0 /\ ~resp'.bad => card' \in after /\ address < Blocks
<1> DEFINE then == IF address < Blocks THEN after ELSE {card}
           bad == address >= Blocks
<1>1. then \in SUBSET CardStates /\ bad \in BOOLEAN
  BY DEF ShapeInv
<1>2. SendPlain(index, then, bad)
  BY DEF SendAddress
<1> HIDE DEF then, bad
<1>3. /\ ret' \in {0, 1} /\ resp' \in R1 /\ card' \in CardStates
      /\ UNCHANGED <<moved, changed>>
      /\ card' = card \/ card' \in then
      /\ ret' = 0 => /\ card' \in then
                     /\ resp' = [state |-> card.state, bad |-> bad]
  BY <1>1, <1>2, PlainSent
<1>4. ASSUME ret' = 0, ~resp'.bad PROVE card' \in after /\ address < Blocks
  <2>1. ~bad /\ card' \in then
    BY <1>3, <1>4
  <2>2. address < Blocks
    BY <2>1, SizesAssumption DEF bad
  <2> QED
    BY <2>1, <2>2 DEF then
<1>5. card' = card \/ card' \in after
  BY <1>3 DEF then
<1> QED
  BY <1>3, <1>4, <1>5

\* A status loop: the card stays as it is, but for the error it reported, and
\* the count of the polls is not used up when the loop goes on.
LEMMA StatusPolled ==
    ASSUME ShapeInv, SendPlain("CMD13", {[card EXCEPT !.switchErr = FALSE]}, FALSE)
    PROVE  /\ ret' \in {0, 1} /\ resp' \in R1 /\ card' \in CardStates
           /\ UNCHANGED <<moved, changed>>
           /\ card'.config = card.config /\ card'.state = card.state
           /\ card'.protected = card.protected
           /\ ret' = 0 => resp'.state = card.state
<1> DEFINE one == [card EXCEPT !.switchErr = FALSE]
<1>1. one \in CardStates /\ one.config = card.config /\ one.state = card.state
      /\ one.protected = card.protected
  BY DEF ShapeInv, CardStates
<1>2. {one} \in SUBSET CardStates
  BY <1>1
<1> HIDE DEF one
<1>3. SendPlain("CMD13", {one}, FALSE)
  BY DEF one
<1>4. /\ ret' \in {0, 1} /\ resp' \in R1 /\ card' \in CardStates
      /\ UNCHANGED <<moved, changed>>
      /\ (card' = card /\ ret' = 1) \/ card' \in {one}
      /\ ret' = 0 => resp' = [state |-> card.state, bad |-> FALSE]
  BY <1>2, <1>3, PlainSent
<1>5. card' = card \/ card' = one
  BY <1>4
<1> QED
  BY <1>1, <1>4, <1>5

LEMMA EraseSteps ==
    ASSUME WholeGroups, TruthInv, EraseGroup \/ Erase \/ ErasePoll
    PROVE  TruthInv'
<1>1. /\ ShapeInv /\ CallInv /\ PcInv /\ RetryInv /\ CountInv /\ EraseInv
  BY DEF TruthInv
<1>2. pc \in ErasePcs /\ UNCHANGED <<call, i, ext_csd>>
  BY DEF EraseGroup, Erase, ErasePoll, PollStatus, ErasePcs, Return, GoOn
<1>3. call.kind = "erase" /\ call.len >= GroupSize
  BY <1>1, <1>2 DEF PcInv
<1>4. /\ EraseEnd' = EraseEnd
      /\ GroupsDone(call.len \div GroupSize)' = GroupsDone(call.len \div GroupSize)
  BY <1>2, CallSame DEF GroupsDone, GroupOf
<1> DEFINE whole == GroupsDone(call.len \div GroupSize)
<1>5. changed = {} \/ (changed = whole \ card.protected /\ EraseEnd < Blocks)
  BY <1>1, <1>3 DEF EraseInv
<1>6. call.addr \in Nat /\ EraseEnd \in Nat
  <2>1. GroupSize \in Nat \ {0} /\ call.addr \in Nat /\ call.len \in Nat
    BY <1>1, SizesAssumption DEF CallInv
  <2> DEFINE n == call.len \div GroupSize
  <2>2. n \in Nat /\ call.len < n * GroupSize + GroupSize
    BY <2>1, DivBounds
  <2>3. EraseEnd = call.addr + (n - 1) * GroupSize
    BY <1>1, <1>3, EraseEndIs
  <2> HIDE DEF n
  <2>4. n # 0
    BY <1>3, <2>1, <2>2
  <2>5. n - 1 \in Nat /\ (n - 1) * GroupSize \in Nat
    BY <2>1, <2>2, <2>4
  <2> QED
    BY <2>1, <2>3, <2>5
<1>7. card \in CardStates
  BY <1>1 DEF ShapeInv
<1>8. EraseInv' <=>
        /\ pc' \in {"CMD36", "CMD38"} => card'.first = call.addr
        /\ pc' = "CMD38" => card'.last = EraseEnd /\ EraseEnd < Blocks
        /\ changed' = {} \/ changed' = whole \ card'.protected
        /\ changed' # {} => EraseEnd < Blocks
        /\ pc' = "erasePoll" \/ (pc' = "idle" /\ result' = 0) =>
              changed' = whole \ card'.protected /\ EraseEnd < Blocks
  BY <1>2, <1>3, <1>4 DEF EraseInv
<1> HIDE DEF whole
<1>9. SUFFICES /\ ShapeInv' /\ EraseInv' /\ RetryInv'
               /\ pc' \in {"idle", "CMD36", "CMD38", "erasePoll"}
  <2>1. CallInv'
    BY <1>1, <1>2 DEF CallInv
  <2>2. PcInv'
    BY <1>2, <1>3, <1>9 DEF PcInv, TransferPcs, ErasePcs, WpPcs, RpmbPcs, SleepPcs
  <2>3. CountInv'
    BY <1>1, <1>2, <1>9, CountKept DEF ErasePcs
  <2>4. SwitchInv' /\ MultiSuccessMoves' /\ ProtectInv'
    BY <1>2, <1>3, <2>2, OtherKinds
  <2> QED
    BY <1>9, <2>1, <2>2, <2>3, <2>4 DEF TruthInv
<1>10. ASSUME ret' \in {0, 1}, resp' \in R1, card' \in CardStates,
              UNCHANGED moved, result' \in {0, 1}
       PROVE  ShapeInv'
  BY <1>1, <1>2, <1>10 DEF ShapeInv
<1>11. result \in {0, 1}
  BY <1>1 DEF ShapeInv
<1>12. CASE pc = "CMD35"
  <2> DEFINE after == {[card EXCEPT !.first = call.addr]}
  <2>1. /\ SendAddress("CMD35", call.addr, after) /\ UNCHANGED retry
        /\ \/ pc' = "idle" /\ result' = 1
           \/ ret' # 1 /\ ~resp'.bad /\ pc' = "CMD36" /\ result' = result
    BY <1>12 DEF EraseGroup, Erase, ErasePoll, PollStatus, Return, GoOn
  <2>2. /\ after \in SUBSET CardStates
        /\ \A c \in after : c.first = call.addr /\ c.protected = card.protected
    BY <1>6, <1>7 DEF CardStates
  <2> HIDE DEF after
  <2>3. /\ ret' \in {0, 1} /\ resp' \in R1 /\ card' \in CardStates
        /\ UNCHANGED <<moved, changed>>
        /\ card' = card \/ card' \in after
        /\ ret' = 0 /\ ~resp'.bad => card' \in after
    BY <1>1, <1>6, <2>1, <2>2, AddressSent
  <2>4. ShapeInv'
    BY <1>10, <1>11, <2>1, <2>3
  <2>5. RetryInv'
    BY <1>1, <1>2, <1>12, <2>1, RetrySame
  <2>6. pc' = "CMD36" => card'.first = call.addr
    BY <2>1, <2>2, <2>3
  <2>7. EraseInv'
    <3>1. card'.protected = card.protected
      BY <2>2, <2>3
    <3> QED
      BY <1>5, <1>8, <2>1, <2>3, <2>6, <3>1
  <2> QED
    BY <2>1, <2>4, <2>5, <2>7
<1>13. CASE pc = "CMD36"
  <2> DEFINE after == {[card EXCEPT !.last = EraseEnd]}
  <2>1. /\ SendAddress("CMD36", EraseEnd, after) /\ UNCHANGED retry
        /\ \/ pc' = "idle" /\ result' = 1
           \/ ret' # 1 /\ ~resp'.bad /\ pc' = "CMD38" /\ result' = result
    BY <1>13 DEF EraseGroup, Erase, ErasePoll, PollStatus, Return, GoOn
  <2>2. card.first = call.addr
    BY <1>1, <1>13 DEF EraseInv
  <2>3. /\ after \in SUBSET CardStates
        /\ \A c \in after : /\ c.first = card.first /\ c.last = EraseEnd
                           /\ c.protected = card.protected
    BY <1>6, <1>7 DEF CardStates
  <2> HIDE DEF after
  <2>4. /\ ret' \in {0, 1} /\ resp' \in R1 /\ card' \in CardStates
        /\ UNCHANGED <<moved, changed>>
        /\ card' = card \/ card' \in after
        /\ ret' = 0 /\ ~resp'.bad => card' \in after /\ EraseEnd < Blocks
    BY <1>1, <1>6, <2>1, <2>3, AddressSent
  <2>5. ShapeInv'
    BY <1>10, <1>11, <2>1, <2>4
  <2>6. RetryInv'
    BY <1>1, <1>2, <1>13, <2>1, RetrySame
  <2>7. pc' = "CMD38" => card'.first = call.addr /\ card'.last = EraseEnd /\ EraseEnd < Blocks
    BY <2>1, <2>2, <2>3, <2>4
  <2>8. EraseInv'
    <3>1. card'.protected = card.protected
      BY <2>3, <2>4
    <3> QED
      BY <1>5, <1>8, <2>1, <2>4, <2>7, <3>1
  <2> QED
    BY <2>1, <2>5, <2>6, <2>8
<1>14. CASE pc = "CMD38"
  <2> DEFINE after == {[card EXCEPT !.state = s] : s \in {"tran", "prg"}}
  <2>1. /\ Unheard("CMD38") \/ (/\ Taken("CMD38", after, FALSE)
                               /\ changed' = Selected(card) \ card.protected
                               /\ UNCHANGED moved)
        /\ UNCHANGED retry
        /\ \/ ret' = 1 /\ pc' = "idle" /\ result' = 1
           \/ ret' # 1 /\ pc' = "erasePoll" /\ result' = result
    BY <1>14 DEF EraseGroup, Erase, ErasePoll, PollStatus, Return, GoOn
  <2>2. card.first = call.addr /\ card.last = EraseEnd /\ EraseEnd < Blocks
    BY <1>1, <1>14 DEF EraseInv
  <2>3. card.type = "mmc"
    BY <1>7 DEF CardStates, WholeGroups
  <2>4. Selected(card) = whole
    BY <1>1, <1>3, <2>2, <2>3, WholeIsGroups DEF whole
  <2>5. after \in SUBSET CardStates /\ \A c \in after : c.protected = card.protected
    BY <1>7 DEF CardStates
  <2>6. NoResponse \in R1 /\ [state |-> card.state, bad |-> FALSE] \in R1
    BY <1>7 DEF CardStates, R1, NoResponse
  <2> HIDE DEF after
  <2>7. ret' \in {0, 1} /\ resp' \in R1 /\ card' \in CardStates /\ UNCHANGED moved
    BY <1>7, <2>1, <2>5, <2>6 DEF Unheard, Taken
  <2>8. /\ changed' = changed \/ changed' = whole \ card'.protected
        /\ ret' # 1 => changed' = whole \ card'.protected
        /\ card'.protected = card.protected
    BY <2>1, <2>4, <2>5 DEF Unheard, Taken
  <2>9. ShapeInv'
    BY <1>10, <1>11, <2>1, <2>7
  <2>10. RetryInv'
    BY <1>1, <1>2, <1>14, <2>1, RetrySame
  <2>11. EraseInv'
    BY <1>5, <1>8, <2>1, <2>2, <2>8
  <2> QED
    BY <2>1, <2>9, <2>10, <2>11
<1>15. CASE pc = "erasePoll"
  <2>1. /\ GetCardStatus
        /\ retry' = IF ret' = 1 THEN retry ELSE retry + 1
        /\ \/ pc' = "idle" /\ result' \in {0, 1}
           \/ /\ pc' = "erasePoll" /\ result' = result
              /\ retry' # MMC_MAX_CARD_STAT_RETRY
    BY <1>15 DEF EraseGroup, Erase, ErasePoll, PollStatus, Return, GoOn
  <2>2. /\ ret' \in {0, 1} /\ resp' \in R1 /\ card' \in CardStates
        /\ UNCHANGED <<moved, changed>> /\ card'.protected = card.protected
    BY <1>1, <2>1, StatusPolled DEF GetCardStatus
  <2>3. changed = whole \ card.protected /\ EraseEnd < Blocks
    BY <1>1, <1>3, <1>15 DEF EraseInv, whole
  <2>4. ShapeInv'
    BY <1>10, <1>11, <2>1, <2>2
  <2>5. RetryInv'
    <3>1. Limit = MMC_MAX_CARD_STAT_RETRY
      BY <1>3 DEF Limit
    <3>2. retry' \in {retry, retry + 1}
      BY <2>1
    <3> QED
      BY <1>1, <1>2, <1>15, <2>1, <3>1, <3>2, RetryKept
  <2>6. EraseInv'
    BY <1>8, <2>1, <2>2, <2>3
  <2> QED
    BY <2>1, <2>4, <2>5, <2>6
<1> QED
  BY <1>2, <1>12, <1>13, <1>14, <1>15 DEF ErasePcs

\* A switch that the card takes changes its configuration or is refused, and
\* the card keeps the error until its status is asked for.
LEMMA SwitchSent ==
    ASSUME ShapeInv, NEW config \in Config, SendSwitch(config)
    PROVE  /\ ret' \in {0, 1} /\ resp' \in R1 /\ card' \in CardStates
           /\ UNCHANGED <<moved, changed>>
           /\ card'.protected = card.protected
           /\ ret' = 0 => card'.switchErr \/ card'.config = config
<1> DEFINE done == {[card EXCEPT !.state = s, !.config = config] : s \in {"tran", "prg"}}
           refused == [card EXCEPT !.switchErr = TRUE]
<1>1. card \in CardStates
  BY DEF ShapeInv
<1>2. refused \in CardStates /\ refused.switchErr /\ refused.protected = card.protected
  BY <1>1 DEF CardStates
<1>3. /\ done \in SUBSET CardStates
      /\ \A c \in done : c.config = config /\ c.protected = card.protected
  <2>1. ASSUME NEW s \in {"tran", "prg"}
        PROVE  /\ [card EXCEPT !.state = s, !.config = config] \in CardStates
               /\ [card EXCEPT !.state = s, !.config = config].config = config
               /\ [card EXCEPT !.state = s, !.config = config].protected = card.protected
    BY <1>1 DEF CardStates
  <2> QED
    BY <2>1
<1>4. SendPlain("CMD6", done \cup {refused}, FALSE)
  BY DEF SendSwitch
<1> HIDE DEF done, refused
<1>5. done \cup {refused} \in SUBSET CardStates
  BY <1>2, <1>3
<1>6. /\ ret' \in {0, 1} /\ resp' \in R1 /\ card' \in CardStates
      /\ UNCHANGED <<moved, changed>>
      /\ card' = card \/ card' \in done \cup {refused}
      /\ ret' = 0 => card' \in done \cup {refused}
  BY <1>4, <1>5, PlainSent
<1> QED
  BY <1>2, <1>3, <1>6

\* A group told to be protected is.
LEMMA ProtectionSet ==
    ASSUME card \in CardStates, NEW group \in SUBSET (0 .. Blocks - 1),
           NEW p \in Protections(group)
    PROVE  /\ {[card EXCEPT !.state = s, !.protected = p] : s \in {"tran", "prg"}}
                 \in SUBSET {c \in CardStates : c.protected = p}
           /\ call.set_clr = 1 => p = card.protected \cup group
<1>1. p \in SUBSET (0 .. Blocks - 1)
  BY DEF CardStates, Protections
<1>2. call.set_clr = 1 => p = card.protected \cup group
  BY DEF Protections
<1>3. ASSUME NEW s \in {"tran", "prg"}
      PROVE  /\ [card EXCEPT !.state = s, !.protected = p] \in CardStates
             /\ [card EXCEPT !.state = s, !.protected = p].protected = p
  BY <1>1, <1>3 DEF CardStates
<1> QED
  BY <1>2, <1>3

LEMMA NextGroup ==
    ASSUME CallInv, NEW k \in Nat
    PROVE  GroupsDone(k + 1)
           = GroupsDone(k) \cup {b \in 0 .. Blocks - 1 : GroupOf(b) = GroupOf(call.addr + k * GroupSize)}
<1> DEFINE g == GroupSize
           a == call.addr
           p == a \div g
<1>1. g \in Nat \ {0} /\ Blocks \in Nat /\ a \in Nat /\ a % g = 0
  BY SizesAssumption DEF CallInv
<1>2. p \in Nat /\ a = p * g
  BY <1>1, Z3
<1>3. \A b \in 0 .. Blocks - 1 : GroupOf(b) \in Nat
  BY <1>1, DivBounds DEF GroupOf
<1> HIDE DEF p, g
<1>4. a + k * g = (p + k) * g
  BY <1>1, <1>2, Z3
<1>5. p + k \in Nat /\ (p + k) * g \in Nat
  BY <1>1, <1>2
<1>6. ((p + k) * g) \div g = p + k
  BY <1>1, <1>5, DivIsUnique
<1>7. GroupOf(a + k * g) = p + k /\ GroupOf(a) = p
  BY <1>4, <1>6 DEF GroupOf, p, g
<1> QED
  BY <1>2, <1>3, <1>7 DEF GroupsDone, g

\* The conditions on the groups after a step of a write protection.
LEMMA ProtectNext ==
    ASSUME UNCHANGED call, call.kind = "wp"
    PROVE  ProtectInv' <=>
             /\ \E k \in Nat : k <= WpGroups /\ changed' = GroupsDone(k)
             /\ pc' \in {"permWpDis", "permWpDisStatus", "CMD8", "pwrWpEn", "pwrWpEnStatus", "CMD28"}
                   => changed' = GroupsDone(i')
             /\ pc' = "wpPoll" => changed' = GroupsDone(i' + 1)
             /\ pc' = "idle" /\ result' = 0 => changed' = GroupsDone(WpGroups)
             /\ call.set_clr = 1 => changed' \subseteq card'.protected
BY DEF ProtectInv, GroupsDone, GroupOf, WpGroups

LEMMA ProtectSteps ==
    ASSUME TruthInv, PermWpDis \/ GetExtCsd \/ PwrWpEn \/ SetWriteProtect \/ WpPoll
    PROVE  TruthInv'
<1>1. /\ ShapeInv /\ CallInv /\ PcInv /\ RetryInv /\ CountInv /\ ProtectInv
  BY DEF TruthInv
<1>2. pc \in WpPcs /\ UNCHANGED call
  BY DEF PermWpDis, GetExtCsd, PwrWpEn, SetWriteProtect, WpPoll, Switch, SwitchStatus,
     PollStatus, WpPcs, Return, GoOn
<1>3. call.kind = "wp"
  BY <1>1, <1>2 DEF PcInv
<1>4. i \in Nat /\ WpGroups \in Nat /\ WpGroups' = WpGroups /\ i <= WpGroups
  BY <1>1, <1>2, <1>3, TouchedIsGroups, CallSame DEF CountInv
<1>5. PICK k \in Nat : /\ k <= WpGroups /\ changed = GroupsDone(k)
                       /\ call.set_clr = 1 => changed \subseteq card.protected
  BY <1>1, <1>3 DEF ProtectInv
<1>6. card \in CardStates /\ card.config \in Config /\ result \in {0, 1} /\ moved \in BOOLEAN
      /\ ext_csd \in Config
  BY <1>1 DEF ShapeInv, CardStates
<1>7. SUFFICES /\ ShapeInv' /\ ProtectInv' /\ RetryInv' /\ CountInv' /\ pc' \in {"idle"} \cup WpPcs
  <2>1. CallInv'
    BY <1>1, <1>2 DEF CallInv
  <2>2. PcInv'
    BY <1>2, <1>3, <1>7 DEF PcInv, TransferPcs, ErasePcs, WpPcs, RpmbPcs, SleepPcs
  <2>3. SwitchInv' /\ MultiSuccessMoves' /\ EraseInv'
    BY <1>2, <1>3, <2>2, OtherKinds
  <2> QED
    BY <1>7, <2>1, <2>2, <2>3 DEF TruthInv
<1>8. CountInv' <=> /\ i' \in Nat /\ i' <= WpGroups
                    /\ pc' \in RpmbPcs \ {"switchOut", "switchOutStatus"} => i' < call.len
                    /\ pc' \in {"permWpDis", "permWpDisStatus", "CMD8"} => i' = 0
                    /\ pc' \in {"pwrWpEn", "pwrWpEnStatus"} => i' = 0 /\ i' < WpGroups
                    /\ pc' \in {"CMD28", "wpPoll"} => i' < WpGroups
  BY <1>2, <1>3, <1>4 DEF CountInv
\* A step that leaves the groups alone and fails or goes on to the next one.
<1>9. ASSUME UNCHANGED <<changed, i>>, card'.protected = card.protected,
             (pc' = "idle" /\ result' = 1)
             \/ /\ pc' \in {"permWpDisStatus", "CMD8", "pwrWpEn", "pwrWpEnStatus", "CMD28"}
                /\ changed = GroupsDone(i)
      PROVE  ProtectInv'
  BY <1>2, <1>3, <1>5, <1>9, ProtectNext
<1>10. CASE pc \in {"permWpDis", "pwrWpEn"}
  <2>1. /\ SendSwitch(card.config) /\ UNCHANGED <<retry, i, ext_csd>>
        /\ \/ pc' = "idle" /\ result' = 1
           \/ pc = "permWpDis" /\ pc' = "permWpDisStatus" /\ result' = result
           \/ pc = "pwrWpEn" /\ pc' = "pwrWpEnStatus" /\ result' = result
    BY <1>10 DEF PermWpDis, GetExtCsd, PwrWpEn, SetWriteProtect, WpPoll, Switch,
       SwitchStatus, PollStatus, Return, GoOn
  <2>2. /\ ret' \in {0, 1} /\ resp' \in R1 /\ card' \in CardStates /\ UNCHANGED <<moved, changed>>
        /\ card'.protected = card.protected
    BY <1>1, <1>6, <2>1, SwitchSent
  <2>3. ShapeInv'
    BY <1>1, <2>1, <2>2 DEF ShapeInv
  <2>4. RetryInv'
    BY <1>1, <1>2, <1>10, <2>1, RetrySame
  <2>5. changed = GroupsDone(i)
    BY <1>1, <1>3, <1>10 DEF ProtectInv
  <2>6. ProtectInv'
    BY <1>9, <2>1, <2>2, <2>5
  <2>7. (pc = "permWpDis" => i = 0) /\ (pc = "pwrWpEn" => i = 0 /\ i < WpGroups)
    BY <1>1 DEF CountInv
  <2>8. CountInv'
    BY <1>4, <1>8, <2>1, <2>7 DEF RpmbPcs
  <2> QED
    BY <2>1, <2>3, <2>4, <2>6, <2>8 DEF WpPcs
<1>11. CASE pc \in {"permWpDisStatus", "pwrWpEnStatus"}
  <2>1. /\ GetCardStatus /\ UNCHANGED <<retry, i, ext_csd>>
        /\ \/ pc' = "idle" /\ result' = 1
           \/ pc = "permWpDisStatus" /\ pc' = "CMD8" /\ result' = result
           \/ pc = "pwrWpEnStatus" /\ pc' = "CMD28" /\ result' = result
    BY <1>11 DEF PermWpDis, GetExtCsd, PwrWpEn, SetWriteProtect, WpPoll, Switch,
       SwitchStatus, PollStatus, Return, GoOn
  <2>2. /\ ret' \in {0, 1} /\ resp' \in R1 /\ card' \in CardStates /\ UNCHANGED <<moved, changed>>
        /\ card'.protected = card.protected
    BY <1>1, <2>1, StatusPolled DEF GetCardStatus
  <2>3. ShapeInv'
    BY <1>1, <2>1, <2>2 DEF ShapeInv
  <2>4. RetryInv'
    BY <1>1, <1>2, <1>11, <2>1, RetrySame
  <2>5. changed = GroupsDone(i)
    BY <1>1, <1>3, <1>11 DEF ProtectInv
  <2>6. ProtectInv'
    BY <1>9, <2>1, <2>2, <2>5
  <2>7. (pc = "permWpDisStatus" => i = 0) /\ (pc = "pwrWpEnStatus" => i = 0 /\ i < WpGroups)
    BY <1>1 DEF CountInv
  <2>8. CountInv'
    BY <1>4, <1>8, <2>1, <2>7 DEF RpmbPcs
  <2> QED
    BY <2>1, <2>3, <2>4, <2>6, <2>8 DEF WpPcs
<1>12. CASE pc = "CMD8"
  <2>1. /\ SendData("CMD8", "data", {"tran"}) /\ UNCHANGED <<retry, i>>
        /\ ext_csd' = IF moved' THEN card.config ELSE [access |-> "user", boot |-> FALSE]
        /\ \/ pc' = "idle" /\ result' = 1
           \/ call.len >= GroupSize /\ pc' = "pwrWpEn" /\ result' = result
    BY <1>12 DEF PermWpDis, GetExtCsd, PwrWpEn, SetWriteProtect, WpPoll, Switch,
       SwitchStatus, PollStatus, Return, GoOn
  <2>2. /\ ret' \in {0, 1} /\ resp' \in R1 /\ card' \in CardStates /\ moved' \in BOOLEAN
        /\ UNCHANGED changed /\ card'.protected = card.protected
    <3>1. "data" \in States /\ {"tran"} \in SUBSET States
      BY DEF States
    <3> QED
      BY <1>1, <2>1, <3>1, DataSent
  <2>3. ext_csd' \in Config
    BY <1>6, <2>1 DEF Config
  <2>4. ShapeInv'
    BY <1>6, <2>1, <2>2, <2>3 DEF ShapeInv
  <2>5. RetryInv'
    BY <1>1, <1>2, <1>12, <2>1, RetrySame
  <2>6. changed = GroupsDone(i) /\ i = 0
    BY <1>1, <1>3, <1>12 DEF ProtectInv, CountInv
  <2>7. ProtectInv'
    BY <1>9, <2>1, <2>2, <2>6
  <2>8. call.len >= GroupSize => 0 < WpGroups
    <3> SUFFICES ASSUME call.len >= GroupSize PROVE 0 < WpGroups
      OBVIOUS
    <3>1. GroupSize \in Nat \ {0} /\ call.len \in Nat
      BY <1>1, SizesAssumption DEF CallInv
    <3>2. call.len + GroupSize - 1 \in Nat /\ call.len + GroupSize - 1 >= GroupSize
      BY <3>1
    <3>3. WpGroups = (call.len + GroupSize - 1) \div GroupSize
      BY DEF WpGroups
    <3>4. call.len + GroupSize - 1 < WpGroups * GroupSize + GroupSize
      BY <3>1, <3>2, <3>3, DivBounds
    <3>5. WpGroups = 0 => WpGroups * GroupSize = 0
      BY <3>1
    <3> QED
      BY <1>4, <3>1, <3>2, <3>4, <3>5
  <2>9. CountInv'
    BY <1>4, <1>8, <2>1, <2>6, <2>8 DEF RpmbPcs
  <2> QED
    BY <2>1, <2>4, <2>5, <2>7, <2>9 DEF WpPcs
<1>13. CASE pc = "CMD28"
  <2> DEFINE address == call.addr + i * GroupSize
             group == Group(address)
             after(p) == {[card EXCEPT !.state = s, !.protected = p] : s \in {"tran", "prg"}}
  <2>1. /\ \/ Unheard("CMD28")
           \/ /\ \E p \in Protections(group) : Taken("CMD28", after(p), FALSE)
              /\ changed' = changed \cup group /\ UNCHANGED moved
           \/ Taken("CMD28", {card}, TRUE) /\ UNCHANGED <<moved, changed>>
        /\ UNCHANGED <<retry, i, ext_csd>>
        /\ \/ pc' = "idle" /\ result' = 1
           \/ ret' # 1 /\ ~resp'.bad /\ pc' = "wpPoll" /\ result' = result
    BY <1>13 DEF PermWpDis, GetExtCsd, PwrWpEn, SetWriteProtect, WpPoll, Switch,
       SwitchStatus, PollStatus, Return, GoOn
  <2>2. \A p \in Protections(group) :
            /\ after(p) \in SUBSET {c \in CardStates : c.protected = p}
            /\ call.set_clr = 1 => p = card.protected \cup group
    BY <1>6, ProtectionSet DEF Group
  <2>3. /\ NoResponse \in R1
        /\ [state |-> card.state, bad |-> FALSE] \in R1
        /\ [state |-> card.state, bad |-> TRUE] \in R1
    BY <1>6 DEF CardStates, R1, NoResponse
  <2>4. changed = GroupsDone(i) /\ i < WpGroups
    BY <1>1, <1>3, <1>13 DEF ProtectInv, CountInv
  <2>5. GroupsDone(i + 1) = changed \cup group
    BY <1>1, <1>4, <2>4, NextGroup DEF Group
  <2> HIDE DEF after, group, address
  <2>6. ret' \in {0, 1} /\ resp' \in R1 /\ card' \in CardStates /\ UNCHANGED moved
    BY <1>6, <2>1, <2>2, <2>3 DEF Unheard, Taken
  <2>7. /\ changed' = GroupsDone(i) \/ changed' = GroupsDone(i + 1)
        /\ ret' # 1 /\ ~resp'.bad => changed' = GroupsDone(i + 1)
    BY <2>1, <2>4, <2>5 DEF Unheard, Taken
  <2>12. call.set_clr = 1 => changed' \subseteq card'.protected
    BY <1>5, <2>1, <2>2 DEF Unheard, Taken
  <2>8. ShapeInv'
    BY <1>6, <2>1, <2>6 DEF ShapeInv
  <2>9. RetryInv'
    BY <1>1, <1>2, <1>13, <2>1, RetrySame
  <2>10. ProtectInv'
    <3>1. \E n \in Nat : n <= WpGroups /\ changed' = GroupsDone(n)
      <4>1. i + 1 \in Nat /\ i + 1 <= WpGroups
        BY <1>4, <2>4
      <4> QED
        BY <1>4, <2>7, <4>1
    <3>2. pc' = "wpPoll" => changed' = GroupsDone(i' + 1)
      BY <2>1, <2>7
    <3>3. (pc' = "idle" => result' = 1) /\ pc' \in {"idle", "wpPoll"}
      BY <2>1
    <3> QED
      BY <1>2, <1>3, <2>12, <3>1, <3>2, <3>3, ProtectNext
  <2>11. CountInv'
    BY <1>4, <1>8, <2>1, <2>4 DEF RpmbPcs
  <2> QED
    BY <2>1, <2>8, <2>9, <2>10, <2>11 DEF WpPcs
<1>14. CASE pc = "wpPoll"
  <2>1. /\ GetCardStatus /\ UNCHANGED ext_csd
        /\ retry' = IF ret' = 1 THEN retry ELSE retry + 1
        /\ \/ pc' = "idle" /\ result' = 1 /\ i' = i
           \/ /\ retry' # MMC_MAX_CARD_STAT_RETRY /\ i' = i + 1
              /\ IF i' = WpGroups THEN pc' = "idle" /\ result' = 0
                 ELSE pc' = "CMD28" /\ result' = result
           \/ /\ retry' # MMC_MAX_CARD_STAT_RETRY
              /\ pc' = "wpPoll" /\ result' = result /\ i' = i
    BY <1>14 DEF PermWpDis, GetExtCsd, PwrWpEn, SetWriteProtect, WpPoll, Switch,
       SwitchStatus, PollStatus, Return, GoOn
  <2>2. /\ ret' \in {0, 1} /\ resp' \in R1 /\ card' \in CardStates /\ UNCHANGED <<moved, changed>>
        /\ card'.protected = card.protected
    BY <1>1, <2>1, StatusPolled DEF GetCardStatus
  <2>3. result' \in {0, 1}
    BY <1>6, <2>1
  <2>4. ShapeInv'
    BY <1>6, <2>1, <2>2, <2>3 DEF ShapeInv
  <2>5. RetryInv'
    <3>1. Limit = MMC_MAX_CARD_STAT_RETRY
      BY <1>3 DEF Limit
    <3>2. retry' \in {retry, retry + 1} /\ (retry' # Limit \/ pc' = "idle")
      BY <2>1, <3>1
    <3> QED
      BY <1>1, <1>2, <1>14, <3>2, RetryKept
  <2>6. changed = GroupsDone(i + 1) /\ i < WpGroups
    BY <1>1, <1>3, <1>14 DEF ProtectInv, CountInv
  <2>7. i + 1 \in Nat /\ i + 1 <= WpGroups
    BY <1>4, <2>6
  <2>8. ProtectInv'
    <3>1. \E n \in Nat : n <= WpGroups /\ changed' = GroupsDone(n)
      BY <2>2, <2>6, <2>7
    <3>2. pc' = "wpPoll" => changed' = GroupsDone(i' + 1)
      BY <2>1, <2>2, <2>6
    <3>3. pc' = "CMD28" => changed' = GroupsDone(i')
      BY <2>1, <2>2, <2>6
    <3>4. pc' = "idle" /\ result' = 0 => changed' = GroupsDone(WpGroups)
      BY <2>1, <2>2, <2>6
    <3>5. pc' \in {"idle", "wpPoll", "CMD28"}
      BY <2>1
    <3>6. call.set_clr = 1 => changed' \subseteq card'.protected
      BY <1>5, <2>2
    <3> QED
      BY <1>2, <1>3, <3>1, <3>2, <3>3, <3>4, <3>5, <3>6, ProtectNext
  <2>9. CountInv'
    <3>1. i' \in Nat /\ i' <= WpGroups /\ pc' \in {"idle", "wpPoll", "CMD28"}
      BY <1>4, <2>1, <2>7
    <3>2. pc' \in {"CMD28", "wpPoll"} => i' < WpGroups
      BY <1>4, <2>1, <2>6, <2>7
    <3>3. pc' \notin RpmbPcs
      BY <3>1 DEF RpmbPcs
    <3> QED
      BY <1>8, <3>1, <3>2, <3>3
  <2> QED
    BY <2>1, <2>4, <2>5, <2>8, <2>9 DEF WpPcs
<1> QED
  BY <1>2, <1>10, <1>11, <1>12, <1>13, <1>14 DEF WpPcs

LEMMA RpmbSteps ==
    ASSUME TruthInv, SwitchIn \/ RpmbCommand \/ RpmbPoll \/ SwitchOut
    PROVE  TruthInv'
<1>1. /\ ShapeInv /\ CallInv /\ PcInv /\ RetryInv /\ CountInv /\ ProtectInv /\ SwitchInv
  BY DEF TruthInv
<1>2. pc \in RpmbPcs /\ UNCHANGED call
  BY DEF SwitchIn, RpmbCommand, RpmbPoll, SwitchOut, Switch, SwitchStatus, PollStatus,
     RpmbPcs, Return, GoOn, ToErr
<1>3. call.kind = "rpmb"
  BY <1>1, <1>2 DEF PcInv
<1>4. i \in Nat /\ call.len \in Nat /\ i <= call.len /\ changed = {}
  BY <1>1, <1>3 DEF CountInv, CallInv, ProtectInv
<1>5. /\ card \in CardStates /\ card.config \in Config /\ result \in {0, 1} /\ moved \in BOOLEAN
      /\ ext_csd \in Config
  BY <1>1 DEF ShapeInv, CardStates
<1>6. \A type \in {"user", "rpmb"} : WithAccess(type) \in Config
  BY <1>5 DEF WithAccess, Config
<1>7. SUFFICES /\ ShapeInv' /\ RetryInv' /\ CountInv' /\ pc' \in {"idle"} \cup RpmbPcs
               /\ changed' = {} /\ SwitchInv'
  <2>1. CallInv'
    BY <1>1, <1>2 DEF CallInv
  <2>2. PcInv'
    BY <1>2, <1>3, <1>7 DEF PcInv, TransferPcs, ErasePcs, WpPcs, RpmbPcs, SleepPcs
  <2>3. EraseInv' /\ MultiSuccessMoves' /\ ProtectInv'
    BY <1>2, <1>3, <1>7, <2>2, OtherKinds
  <2> QED
    BY <1>7, <2>1, <2>2, <2>3 DEF TruthInv
<1>8. ASSUME i' \in Nat, i' <= call.len, pc' \in {"idle"} \cup RpmbPcs,
             pc' \notin {"idle", "switchOut", "switchOutStatus"} => i' < call.len
      PROVE  CountInv'
  <2>1. pc' \notin WpPcs
    BY <1>8 DEF RpmbPcs, WpPcs
  <2>2. pc' \in RpmbPcs \ {"switchOut", "switchOutStatus"} => i' < call.len
    BY <1>8 DEF RpmbPcs
  <2> QED
    BY <1>2, <1>3, <1>8, <2>1, <2>2 DEF CountInv, WpPcs
<1>9. ASSUME pc' # "switchOutStatus", pc' = "idle" => result' = 1
      PROVE  SwitchInv'
  BY <1>9 DEF SwitchInv, RpmbSuccessRestores, Returned
<1>10. pc \notin {"switchOut", "switchOutStatus"} => i < call.len
  BY <1>1, <1>2 DEF CountInv
<1>11. CASE pc = "switchIn"
  <2>1. /\ SendSwitch(WithAccess("rpmb")) /\ UNCHANGED <<retry, i, ext_csd>>
        /\ \/ pc' = "idle" /\ result' = 1
           \/ pc' = "switchInStatus" /\ result' = result
    BY <1>11 DEF SwitchIn, RpmbCommand, RpmbPoll, SwitchOut, Switch, SwitchStatus,
       PollStatus, Return, GoOn
  <2>2. ret' \in {0, 1} /\ resp' \in R1 /\ card' \in CardStates /\ UNCHANGED <<moved, changed>>
    BY <1>1, <1>6, <2>1, SwitchSent
  <2>3. ShapeInv'
    BY <1>5, <2>1, <2>2 DEF ShapeInv
  <2>4. RetryInv'
    BY <1>1, <1>2, <1>11, <2>1, RetrySame
  <2>5. CountInv'
    BY <1>4, <1>8, <1>10, <1>11, <2>1 DEF RpmbPcs
  <2>6. SwitchInv'
    BY <1>9, <2>1
  <2> QED
    BY <1>4, <2>1, <2>2, <2>3, <2>4, <2>5, <2>6 DEF RpmbPcs
<1>12. CASE pc = "switchInStatus"
  <2>1. /\ GetCardStatus /\ UNCHANGED <<retry, i>>
        /\ \/ pc' = "idle" /\ result' = 1 /\ ext_csd' = ext_csd
           \/ pc' = "CMD23" /\ result' = result /\ ext_csd' = WithAccess("rpmb")
    BY <1>12 DEF SwitchIn, RpmbCommand, RpmbPoll, SwitchOut, Switch, SwitchStatus,
       PollStatus, Return, GoOn
  <2>2. ret' \in {0, 1} /\ resp' \in R1 /\ card' \in CardStates /\ UNCHANGED <<moved, changed>>
    BY <1>1, <2>1, StatusPolled DEF GetCardStatus
  <2>3. ShapeInv'
    BY <1>5, <1>6, <2>1, <2>2 DEF ShapeInv
  <2>4. RetryInv'
    BY <1>1, <1>2, <1>12, <2>1, RetrySame
  <2>5. CountInv'
    BY <1>4, <1>8, <1>10, <1>12, <2>1 DEF RpmbPcs
  <2>6. SwitchInv'
    BY <1>9, <2>1
  <2> QED
    BY <1>4, <2>1, <2>2, <2>3, <2>4, <2>5, <2>6 DEF RpmbPcs
<1>13. CASE pc = "CMD23"
  <2>1. /\ SendPlain("CMD23", {card}, FALSE) /\ UNCHANGED <<retry, i, ext_csd>>
        /\ \/ pc' = "switchOut" /\ result' = 1
           \/ pc' = "rpmbSend" /\ result' = result
    BY <1>13 DEF SwitchIn, RpmbCommand, RpmbPoll, SwitchOut, Switch, SwitchStatus,
       PollStatus, Return, GoOn, ToErr
  <2>2. {card} \in SUBSET CardStates
    BY <1>5
  <2>3. ret' \in {0, 1} /\ resp' \in R1 /\ card' \in CardStates /\ UNCHANGED <<moved, changed>>
    BY <1>1, <2>1, <2>2, PlainSent
  <2>4. ShapeInv'
    BY <1>5, <2>1, <2>3 DEF ShapeInv
  <2>5. RetryInv'
    BY <1>1, <1>2, <1>13, <2>1, RetrySame
  <2>6. CountInv'
    BY <1>4, <1>8, <1>10, <1>13, <2>1 DEF RpmbPcs
  <2>7. SwitchInv'
    BY <1>9, <2>1
  <2> QED
    BY <1>4, <2>1, <2>3, <2>4, <2>5, <2>6, <2>7 DEF RpmbPcs
<1>14. CASE pc = "rpmbSend"
  <2>1. /\ \/ SendData("CMD25", "rcv", {"tran", "prg"})
           \/ SendData("CMD18", "data", {"tran"})
        /\ UNCHANGED <<retry, i, ext_csd>>
        /\ \/ pc' = "switchOut" /\ result' = 1
           \/ pc' = "rpmbPoll" /\ result' = result
    BY <1>14 DEF SwitchIn, RpmbCommand, RpmbPoll, SwitchOut, Switch, SwitchStatus,
       PollStatus, Return, GoOn, ToErr
  <2>2. /\ ret' \in {0, 1} /\ resp' \in R1 /\ card' \in CardStates /\ moved' \in BOOLEAN
        /\ UNCHANGED changed
    <3>1. "data" \in States /\ "rcv" \in States
          /\ {"tran"} \in SUBSET States /\ {"tran", "prg"} \in SUBSET States
      BY DEF States
    <3> QED
      BY <1>1, <2>1, <3>1, DataSent
  <2>3. ShapeInv'
    BY <1>5, <2>1, <2>2 DEF ShapeInv
  <2>4. RetryInv'
    BY <1>1, <1>2, <1>14, <2>1, RetrySame
  <2>5. CountInv'
    BY <1>4, <1>8, <1>10, <1>14, <2>1 DEF RpmbPcs
  <2>6. SwitchInv'
    BY <1>9, <2>1
  <2> QED
    BY <1>4, <2>1, <2>2, <2>3, <2>4, <2>5, <2>6 DEF RpmbPcs
<1>15. CASE pc = "rpmbPoll"
  <2>1. /\ GetCardStatus /\ UNCHANGED ext_csd
        /\ retry' = IF ret' = 1 THEN retry ELSE retry + 1
        /\ \/ pc' = "switchOut" /\ result' = 1 /\ i' = i
           \/ /\ retry' # RpmbRetry /\ i' = i + 1
              /\ IF i' = call.len THEN pc' = "switchOut" /\ result' = 0
                 ELSE pc' = "CMD23" /\ result' = result
           \/ /\ retry' # RpmbRetry
              /\ pc' = "rpmbPoll" /\ result' = result /\ i' = i
    BY <1>15 DEF SwitchIn, RpmbCommand, RpmbPoll, SwitchOut, Switch, SwitchStatus,
       PollStatus, Return, GoOn, ToErr
  <2>2. ret' \in {0, 1} /\ resp' \in R1 /\ card' \in CardStates /\ UNCHANGED <<moved, changed>>
    BY <1>1, <2>1, StatusPolled DEF GetCardStatus
  <2>3. result' \in {0, 1}
    BY <1>5, <2>1
  <2>4. ShapeInv'
    BY <1>5, <2>1, <2>2, <2>3 DEF ShapeInv
  <2>5. RetryInv'
    <3>1. Limit = RpmbRetry
      BY <1>3 DEF Limit
    <3>2. retry' \in {retry, retry + 1} /\ (retry' # Limit \/ pc' = "switchOut")
      BY <2>1, <3>1
    <3> QED
      BY <1>1, <1>2, <1>15, <3>2, RetryKept
  <2>6. i < call.len
    BY <1>10, <1>15
  <2>7. /\ i' \in Nat /\ i' <= call.len /\ pc' \in {"switchOut", "CMD23", "rpmbPoll"}
        /\ pc' # "switchOut" => i' < call.len
    BY <1>4, <2>1, <2>6
  <2>8. CountInv'
    BY <1>8, <2>7 DEF RpmbPcs
  <2>9. SwitchInv'
    BY <1>9, <2>7
  <2> QED
    BY <1>4, <2>2, <2>4, <2>5, <2>7, <2>8, <2>9 DEF RpmbPcs
<1>16. ASSUME UNCHANGED retry, pc' \in {"idle", "switchOutStatus"} PROVE RetryInv'
  BY <1>1, <1>2, <1>16 DEF RetryInv, Limit
<1>17. CASE pc = "switchOut"
  <2>1. /\ SendSwitch(WithAccess("user")) /\ UNCHANGED <<retry, i, ext_csd>>
        /\ \/ pc' = "idle" /\ result' = 1
           \/ ret' # 1 /\ pc' = "switchOutStatus" /\ result' = result
    BY <1>17 DEF SwitchIn, RpmbCommand, RpmbPoll, SwitchOut, Switch, SwitchStatus,
       PollStatus, Return, GoOn
  <2>2. /\ ret' \in {0, 1} /\ resp' \in R1 /\ card' \in CardStates
        /\ UNCHANGED <<moved, changed>>
        /\ ret' = 0 => card'.switchErr \/ card'.config = WithAccess("user")
    BY <1>1, <1>6, <2>1, SwitchSent
  <2>3. ShapeInv'
    BY <1>5, <2>1, <2>2 DEF ShapeInv
  <2>4. RetryInv'
    BY <1>16, <2>1
  <2>5. CountInv'
    BY <1>4, <1>8, <2>1 DEF RpmbPcs
  <2>6. SwitchInv'
    <3>1. WithAccess("user")' = WithAccess("user")
      BY <2>1 DEF WithAccess
    <3>2. pc' = "switchOutStatus" => card'.switchErr \/ card'.config = WithAccess("user")
      BY <2>1, <2>2
    <3>3. pc' = "idle" => result' = 1
      BY <2>1
    <3> QED
      BY <3>1, <3>2, <3>3 DEF SwitchInv, RpmbSuccessRestores, Returned
  <2> QED
    BY <1>4, <2>1, <2>2, <2>3, <2>4, <2>5, <2>6 DEF RpmbPcs
<1>18. CASE pc = "switchOutStatus"
  <2>1. /\ GetCardStatus /\ UNCHANGED <<retry, i>> /\ pc' = "idle"
        /\ \/ result' = 1 /\ ext_csd' = ext_csd
           \/ ~SwitchFailed /\ result' = result /\ ext_csd' = WithAccess("user")
    BY <1>18 DEF SwitchIn, RpmbCommand, RpmbPoll, SwitchOut, Switch, SwitchStatus,
       PollStatus, Return, GoOn
  <2>2. /\ ret' \in {0, 1} /\ resp' \in R1 /\ card' \in CardStates
        /\ UNCHANGED <<moved, changed>>
        /\ card'.config = card.config /\ card'.state = card.state
        /\ ret' = 0 => resp'.state = card.state
    BY <1>1, <2>1, StatusPolled DEF GetCardStatus
  <2>3. ShapeInv'
    BY <1>5, <1>6, <2>1, <2>2 DEF ShapeInv
  <2>4. RetryInv'
    BY <1>16, <2>1
  <2>5. CountInv'
    BY <1>4, <1>8, <2>1
  <2>6. SwitchInv'
    <3>1. ASSUME ~SwitchFailed, ext_csd' = WithAccess("user")
          PROVE  card'.config.access = "user" /\ ext_csd' = card'.config /\ card'.state = "tran"
      <4>1. ret' # 1 /\ resp'.state = "tran" /\ ~card.switchErr
        BY <3>1 DEF SwitchFailed
      <4>2. card.config = WithAccess("user")
        BY <1>1, <1>18, <4>1 DEF SwitchInv
      <4>3. WithAccess("user").access = "user"
        BY <1>5 DEF WithAccess, Config
      <4> QED
        BY <2>2, <3>1, <4>1, <4>2, <4>3
    <3>2. pc' # "switchOutStatus"
      BY <2>1
    <3>3. result' = 1 \/ (card'.config.access = "user" /\ ext_csd' = card'.config /\ card'.state = "tran")
      BY <2>1, <3>1
    <3> QED
      BY <3>2, <3>3 DEF SwitchInv, RpmbSuccessRestores
  <2> QED
    BY <1>4, <2>1, <2>2, <2>3, <2>4, <2>5, <2>6
<1> QED
  BY <1>2, <1>11, <1>12, <1>13, <1>14, <1>15, <1>17, <1>18 DEF RpmbPcs

\* The card gets done with what it programs or sends.
LEMMA CardSteps == TruthInv /\ CardFinishes => TruthInv'
<1> SUFFICES ASSUME TruthInv, CardFinishes PROVE TruthInv'
  OBVIOUS
<1>1. /\ UNCHANGED <<pc, call, result, ret, resp, retry, i, ext_csd, moved, changed>>
      /\ card.state # "tran" /\ card' = [card EXCEPT !.state = "tran"]
  BY DEF CardFinishes, driver
<1>2. card \in CardStates
  BY DEF TruthInv, ShapeInv
<1>3. /\ card' \in CardStates /\ card'.first = card.first /\ card'.last = card.last
      /\ card'.config = card.config /\ card'.switchErr = card.switchErr
      /\ card'.protected = card.protected
  BY <1>1, <1>2 DEF CardStates
<1>4. ShapeInv'
  BY <1>1, <1>3 DEF TruthInv, ShapeInv
<1>5. CallInv' /\ PcInv' /\ RetryInv' /\ CountInv' /\ MultiSuccessMoves'
  BY <1>1 DEF TruthInv, CallInv, PcInv, RetryInv, Limit, CountInv, WpGroups,
     MultiSuccessMoves, Returned
<1>6. EraseInv'
  BY <1>1, <1>3 DEF TruthInv, EraseInv, EraseEnd, GroupsDone, GroupOf
<1>7. ProtectInv'
  BY <1>1, <1>3 DEF TruthInv, ProtectInv, GroupsDone, GroupOf, WpGroups
<1>8. SwitchInv'
  BY <1>1, <1>3 DEF TruthInv, SwitchInv, RpmbSuccessRestores, Returned, WithAccess
<1> QED
  BY <1>4, <1>5, <1>6, <1>7, <1>8 DEF TruthInv

-----------------------------------------------------------------------------
(* The specification.                                                        *)

LEMMA TruthBegins == Init => TruthInv
<1> SUFFICES ASSUME Init PROVE TruthInv
  OBVIOUS
<1>1. /\ Blocks \in Nat \ {0} /\ GroupSize \in Nat \ {0}
      /\ MMC_MAX_CARD_STAT_RETRY \in Nat \ {0}
  BY SizesAssumption
<1>2. /\ pc = "idle" /\ result = 0 /\ ret = 0 /\ resp = NoResponse
      /\ call = [kind |-> "sleep", addr |-> 0, len |-> 0, set_clr |-> 0]
      /\ retry = 0 /\ i = 0 /\ moved = FALSE /\ changed = {}
  BY DEF Init
<1>3. call.kind = "sleep" /\ call.addr = 0 /\ call.len = 0 /\ call.set_clr = 0
  BY <1>2
<1>4. ext_csd \in Config
  BY DEF Init, Config
<1>5. card \in CardStates
  <2>1. PICK t \in CardTypes, p \in SUBSET (0 .. Blocks - 1) :
            card = [type |-> t, state |-> "tran", config |-> ext_csd, first |-> 0,
                    last |-> 0, switchErr |-> FALSE, protected |-> p]
    BY DEF Init
  <2> QED
    BY <1>4, <2>1 DEF CardStates
<1>6. ShapeInv
  BY <1>2, <1>4, <1>5 DEF ShapeInv, NoResponse, R1
<1>7. CallInv
  <2>1. 0 \in 0 .. Blocks - 1 /\ 0 % GroupSize = 0
    BY <1>1, Z3
  <2> QED
    BY <1>3, <2>1 DEF CallInv
<1>8. PcInv
  BY <1>2 DEF PcInv, TransferPcs, ErasePcs, WpPcs, RpmbPcs, SleepPcs
<1>9. RetryInv
  <2>1. Limit = MMC_MAX_CARD_STAT_RETRY
    BY <1>3 DEF Limit
  <2> QED
    BY <1>1, <1>2, <2>1 DEF RetryInv
<1>10. CountInv
  <2>1. WpGroups \in Nat
    BY <1>7, TouchedIsGroups
  <2> QED
    BY <1>2, <1>3, <2>1 DEF CountInv, RpmbPcs
<1>11. MultiSuccessMoves /\ EraseInv /\ ProtectInv /\ SwitchInv
  BY <1>2, <1>3 DEF MultiSuccessMoves, EraseInv, ProtectInv, SwitchInv,
     RpmbSuccessRestores, Returned
<1> QED
  BY <1>6, <1>7, <1>8, <1>9, <1>10, <1>11 DEF TruthInv

LEMMA TruthStutters == TruthInv /\ UNCHANGED vars => TruthInv'
<1> SUFFICES ASSUME TruthInv, UNCHANGED vars PROVE TruthInv'
  OBVIOUS
<1>1. UNCHANGED <<pc, call, result, ret, resp, retry, i, ext_csd, card, moved, changed>>
  BY DEF vars, driver
<1>2. ShapeInv' /\ CallInv' /\ PcInv' /\ RetryInv' /\ CountInv' /\ MultiSuccessMoves'
  BY <1>1 DEF TruthInv, ShapeInv, CallInv, PcInv, RetryInv, Limit, CountInv, WpGroups,
     MultiSuccessMoves, Returned
<1>3. EraseInv' /\ ProtectInv'
  BY <1>1 DEF TruthInv, EraseInv, EraseEnd, ProtectInv, GroupsDone, GroupOf, WpGroups
<1>4. SwitchInv'
  BY <1>1 DEF TruthInv, SwitchInv, RpmbSuccessRestores, Returned, WithAccess
<1> QED
  BY <1>2, <1>3, <1>4 DEF TruthInv

LEMMA TruthKept ==
    ASSUME WholeGroups, TruthInv, [Next]_vars
    PROVE  TruthInv'
<1>1. CASE \E c \in Call : Begin(c)
  BY <1>1, BeginSteps
<1>2. CASE Transfer \/ StopCommand
  BY <1>2, TransferSteps
<1>3. CASE EraseGroup \/ Erase \/ ErasePoll
  BY <1>3, EraseSteps
<1>4. CASE PermWpDis \/ GetExtCsd \/ PwrWpEn \/ SetWriteProtect \/ WpPoll
  BY <1>4, ProtectSteps
<1>5. CASE SwitchIn \/ RpmbCommand \/ RpmbPoll \/ SwitchOut
  BY <1>5, RpmbSteps
<1>6. CASE Sleep
  BY <1>6, SleepSteps
<1>7. CASE CardFinishes
  BY <1>7, CardSteps
<1>8. CASE UNCHANGED vars
  BY <1>8, TruthStutters
<1> QED
  BY <1>1, <1>2, <1>3, <1>4, <1>5, <1>6, <1>7, <1>8 DEF Next, Driver

\* What the invariant says of an eMMC of whole groups is what a caller is told.
LEMMA TruthIsTold ==
    ASSUME WholeGroups, TruthInv
    PROVE  CallsTellTruth
<1>1. /\ ShapeInv /\ CallInv /\ PcInv /\ RetryInv /\ CountInv /\ EraseInv /\ ProtectInv
      /\ MultiSuccessMoves /\ RpmbSuccessRestores
  BY DEF TruthInv, SwitchInv
<1>2. WpGroups \in Nat /\ Touched = GroupsDone(WpGroups)
  BY <1>1, TouchedIsGroups
<1>3. ASSUME EraseEnd < Blocks, call.len >= GroupSize
      PROVE  Whole = GroupsDone(call.len \div GroupSize)
  BY <1>1, <1>3, WholeIsGroups
<1>4. SuccessCovers
  <2>1. ASSUME Returned({"erase"}), result = 0 PROVE changed = Whole \ card.protected
    BY <1>1, <1>3, <2>1 DEF EraseInv, Returned
  <2>2. ASSUME Returned({"wp"}), result = 0
        PROVE  changed = Touched /\ (call.set_clr = 1 => Touched \subseteq card.protected)
    BY <1>1, <1>2, <2>2 DEF ProtectInv, Returned
  <2> QED
    BY <2>1, <2>2 DEF SuccessCovers
<1>5. OnlyAskedChanged
  <2>1. CASE call.kind = "erase"
    BY <1>1, <1>3, <2>1 DEF EraseInv, OnlyAskedChanged
  <2>2. CASE call.kind = "wp"
    <3>1. PICK k \in Nat : k <= WpGroups /\ changed = GroupsDone(k)
      BY <1>1, <2>2 DEF ProtectInv
    <3>2. GroupsDone(k) \subseteq GroupsDone(WpGroups)
      <4>1. \A b \in 0 .. Blocks - 1 : GroupOf(b) \in Nat
        BY SizesAssumption, DivBounds DEF GroupOf
      <4>2. GroupOf(call.addr) \in Nat
        BY <1>1, <4>1 DEF CallInv
      <4> QED
        BY <1>2, <3>1, <4>1, <4>2 DEF GroupsDone
    <3> QED
      BY <1>2, <2>2, <3>1, <3>2 DEF OnlyAskedChanged
  <2>3. CASE call.kind \notin {"erase", "wp"}
    BY <1>1, <2>3 DEF ProtectInv, OnlyAskedChanged
  <2> QED
    BY <2>1, <2>2, <2>3
<1>6. changed \subseteq 0 .. Blocks - 1
  <2>1. \A k : GroupsDone(k) \subseteq 0 .. Blocks - 1
    BY DEF GroupsDone
  <2> QED
    BY <1>1, <2>1 DEF EraseInv, ProtectInv
<1>7. card.config \in Config
  BY <1>1 DEF ShapeInv, CardStates
<1>8. retry <= (IF call.kind = "rpmb" THEN RpmbRetry ELSE MMC_MAX_CARD_STAT_RETRY)
  BY <1>1 DEF RetryInv, Limit
<1>9. TypeOK
  <2>1. pc \in {"idle", "transfer", "stop", "CMD35", "CMD36", "CMD38", "erasePoll",
               "permWpDis", "permWpDisStatus", "CMD8", "pwrWpEn", "pwrWpEnStatus",
               "CMD28", "wpPoll", "switchIn", "switchInStatus", "CMD23", "rpmbSend",
               "rpmbPoll", "switchOut", "switchOutStatus", "deselect", "CMD5"}
    BY <1>1 DEF PcInv, TransferPcs, ErasePcs, WpPcs, RpmbPcs, SleepPcs
  <2>2. i <= (IF call.kind = "rpmb" THEN call.len ELSE WpGroups)
    BY <1>1 DEF CountInv
  <2> QED
    BY <1>1, <1>6, <1>7, <1>8, <2>1, <2>2 DEF ShapeInv, TypeOK
<1> QED
  BY <1>1, <1>4, <1>5, <1>9 DEF CallsTellTruth

\* On an eMMC of whole groups, of any size and with any groups protected: a
\* read or write of several blocks that returns 0 has moved its data, an erase
\* that returns 0 has erased the groups it names but for the protected blocks,
\* a write protection the groups it touches, and no call changes any other; an
\* RPMB call that returns 0 has brought the card back to the user area, and
\* every status loop stays within its limit.
THEOREM CallsTellTruthHolds ==
    ASSUME WholeGroups
    PROVE  Spec => []CallsTellTruth
<1>1. Init => TruthInv
  BY TruthBegins
<1>2. TruthInv /\ [Next]_vars => TruthInv'
  BY TruthKept
<1>3. TruthInv => CallsTellTruth
  BY TruthIsTold
<1> QED
  BY <1>1, <1>2, <1>3, PTL DEF Spec
=============================================================================
