---------------------------- MODULE MmcRegisters ----------------------------
(* What the driver learns from a card's registers (mmc_sdhci.c, sdhci.c,    *)
(* MMCHS.c): CID and CSD come as R2 responses that the controller shifts,   *)
(* EXT_CSD, SCR and SD status as data blocks with the bytes in the card's   *)
(* order.  The decoded size becomes the last block of the block device, the *)
(* decoded groups the unit of erase and write protection.  Registers are    *)
(* sets of bit numbers; sizes are counted in blocks of 512 bytes.           *)
EXTENDS Integers, SequencesExt

CONSTANTS
    BaseRates,      \* caps.base_clk_rate, in MHz
    ClockRates,     \* what sdhci_clk_supply is asked for, in Hz
    AuSizes,        \* AU_SIZE in the SD status of the cards of version 2
    SectorTops,     \* the most significant byte of SEC_COUNT in EXT_CSD of the largest MMCs
    StaleFields     \* what an uninitialised field of struct mmc_csd may hold

VARIABLES
    probe,      \* the command mmc_init is at
    inserted,   \* the card
    clock,      \* caps.base_clk_rate, the rate asked for, and the clock control register
    dev,        \* struct mmc_card: what has been read and decoded
    media       \* BlockMedia of the published instance

registerVars == <<probe, inserted, clock, dev, media>>

-----------------------------------------------------------------------------
(* Bits and words *)

BitsOf(n) == {b \in 0..30 : (n \div 2^b) % 2 = 1}
NumberOf(bits) == MapThenSumSet(LAMBDA b : 2^b, bits)
Words(n, bits) == [w \in 0..(n - 1) |-> {b \in 0..31 : (32 * w) + b \in bits}]
Spread(n, start) == {start + b : b \in BitsOf(n)}

\* swap_endian32
Swap(word) == {(8 * (3 - (b \div 8))) + (b % 8) : b \in word}

\* UNPACK_BITS: a field may cross from one word into the next.
UNPACK_BITS(words, start, len) ==
    NumberOf({b \in 0..(len - 1) : (start + b) % 32 \in words[(start + b) \div 32]})

-----------------------------------------------------------------------------
(* The cards.  An MMC tells its size in the CSD, or in EXT_CSD if C_SIZE is  *)
(* 0xFFF; an SD card in one of two versions of the CSD.                     *)

SmallMmc == [kind : {"mmc"}, c_size : {0, 2047, 4094}, c_size_mult : {0, 7}, read_bl_len : {9, 11},
             sectors : {<<0, 0, 0, 1>>}, erase_group_def : {0}, hc_erase : {1},
             grp_size : {0, 31}, grp_mult : {3}, wp_grp_size : {0, 31}, rpmb : {0}, rev : {97}]
LargeMmc == [kind : {"mmc"}, c_size : {4095}, c_size_mult : {7}, read_bl_len : {9},
             sectors : {<<0, 0, 0, 1>>} \cup {<<top, 163, 0, 255>> : top \in SectorTops},
             erase_group_def : {0, 1}, hc_erase : {1, 32},
             grp_size : {31}, grp_mult : {3}, wp_grp_size : {9}, rpmb : {0, 4}, rev : {0}]
Sd1 == [kind : {"sd"}, csd : {0}, c_size : {0, 2047, 4095}, c_size_mult : {0, 7}, read_bl_len : {9, 11},
        au : {1}, erase_size : {0, 65535}, widths : {1}, cmd23 : {0}, rev : {97}]
Sd2 == [kind : {"sd"}, csd : {1}, c_size : {4095, 60000}, c_size_mult : {0}, read_bl_len : {9},
        au : AuSizes, erase_size : {0, 1, 256}, widths : {1, 5}, cmd23 : {0, 1}, rev : {0}]
Cards == SmallMmc \cup LargeMmc \cup Sd1 \cup Sd2

\* As the card's register is laid out: CSD, CID, SCR and SD status.
CsdOf(card) ==
    CASE card.kind = "sd" /\ card.csd = 1 -> Spread(1, 126) \cup Spread(card.c_size, 48)
      [] card.kind = "sd" /\ card.csd = 0 ->
            Spread(card.c_size, 62) \cup Spread(card.c_size_mult, 47) \cup Spread(card.read_bl_len, 80)
      [] OTHER ->
            Spread(2, 126) \cup Spread(card.c_size, 62) \cup Spread(card.c_size_mult, 47) \cup Spread(card.read_bl_len, 80)
            \cup Spread(card.grp_size, 42) \cup Spread(card.grp_mult, 37) \cup Spread(card.wp_grp_size, 32)
CidOf(card) ==
    Spread(69, 120) \cup Spread(256, 104) \cup Spread(card.rev, IF card.kind = "sd" THEN 56 ELSE 48)
ScrOf(card) == Spread(card.widths, 48) \cup Spread(card.cmd23, 33)
StatusOf(card) == Spread(card.au, 428) \cup Spread(card.erase_size, 408)

\* The size of an allocation unit by AU_SIZE, in KB (SD specification, 4.10.2).
AuTable == <<16, 32, 64, 128, 256, 512, 1024, 2048, 4096, 8192, 12288, 16384, 24576, 32768, 65536>>

\* The size, the unit of erase and the write protection group, in blocks.
Blocks(card) ==
    CASE card.kind = "sd" /\ card.csd = 1 -> (card.c_size + 1) * 1024
      [] card.kind = "mmc" /\ card.c_size = 4095 ->
            ((card.sectors[1] * 256 + card.sectors[2]) * 256 + card.sectors[3]) * 256 + card.sectors[4]
      [] OTHER -> (card.c_size + 1) * 2^(card.c_size_mult + 2) * 2^(card.read_bl_len - 9)
EraseUnitOf(card) ==
    CASE card.kind = "sd" -> 2 * AuTable[card.au] * (IF card.erase_size = 0 THEN 16 ELSE card.erase_size)
      [] card.kind = "mmc" /\ card.erase_group_def = 1 -> card.hc_erase * 1024
      [] OTHER -> (card.grp_size + 1) * (card.grp_mult + 1)

-----------------------------------------------------------------------------
(* Reading *)

\* The response registers hold bits 8 to 127 of an R2 response.
Response(register) == Words(4, {b - 8 : b \in {r \in register : r >= 8}})

\* Mutant of ReadR2: the low byte of a word is taken from the next register.
ReadR2Next(port) ==
    [i \in 0..3 |-> {b \in 8..31 : b - 8 \in port[i]}
                    \cup {b \in 0..7 : i # 3 /\ b + 24 \in port[(i + 1) % 4]}]

\* sdhci_cmd_complete: the four registers, moved up by eight bits.
ReadR2(port) ==
    [i \in 0..3 |-> {b \in 8..31 : b - 8 \in port[i]}
                    \cup {b \in 0..7 : i # 0 /\ b + 24 \in port[i - 1]}]

\* A block of data: its first word is the register's last, the bytes reversed.
Received(n, register) == [j \in 0..(n - 1) |-> Swap(Words(n, register)[n - 1 - j])]

\* mmc_sd_get_card_ssr turns the sixteen words round in place: from the ninth
\* on it reads words it has already written.
Turned(memory) ==
    FoldLeft(LAMBDA words, j : [words EXCEPT ![15 - j] = Swap(words[j])], memory,
             [n \in 1..16 |-> n - 1])

-----------------------------------------------------------------------------
(* The clock *)

\* sdhci_clk_supply: half the smallest even divider that does not exceed the
\* rate asked for, in ten bits of which the upper two stand below the others.
Divider(rate, asked) ==
    IF asked >= rate THEN 0
    ELSE CHOOSE n \in 1..1022 : rate \div (2 * n) <= asked /\ \A k \in 1..(n - 1) : rate \div (2 * k) > asked
ClockControl(n) == {b + 8 : b \in BitsOf(n % 256)} \cup {b + 6 : b \in BitsOf((n \div 256) % 4)}

ClockSupply ==
    /\ probe = "clock"
    /\ \E asked \in ClockRates :
          clock' = [clock EXCEPT !.asked = asked, !.ctrl = ClockControl(Divider(clock.base * 1000000, asked))]
    /\ probe' = "CMD2"
    /\ UNCHANGED <<inserted, dev, media>>

-----------------------------------------------------------------------------
(* Identification *)

NoDevice == [cid |-> <<>>, rca |-> 0, raw_csd |-> Words(4, {}), ext_csd |-> <<>>, scr |-> <<>>, ssr |-> <<>>,
             capacity |-> 0, wp_grp_size |-> 0, rpmb_size |-> 0, csd |-> <<>>]

RegistersInit ==
    /\ probe = "clock" /\ inserted \in Cards /\ dev = NoDevice /\ media = <<>>
    /\ clock \in [base : BaseRates, asked : {0}, ctrl : {{}}]

SD == inserted.kind = "sd"

\* A command that fails ends mmc_init, and nothing is published.
Step(at, next, result) ==
    /\ probe = at
    /\ \/ probe' = next /\ dev' = result
       \/ probe' = "NULL" /\ UNCHANGED dev
    /\ UNCHANGED <<inserted, clock, media>>

\* mmc_decode_and_save_cid: manufacturer, OEM and revision stand for the fields.
DecodeCid(words) ==
    [mid |-> UNPACK_BITS(words, 120, 8), oid |-> UNPACK_BITS(words, 104, 16),
     prv |-> UNPACK_BITS(words, IF SD THEN 56 ELSE 48, 8)]

AllSendCid == Step("CMD2", "CMD3", [dev EXCEPT !.cid = DecodeCid(ReadR2(Response(CidOf(inserted))))])

\* mmc_send_relative_address: an SD card chooses, an MMC is told MMC_RCA.
SendRelativeAddress == \E rca \in (IF SD THEN {3, 43690} ELSE {2}) : Step("CMD3", "CMD9", [dev EXCEPT !.rca = rca])

SendCsd == Step("CMD9", "CMD7", [dev EXCEPT !.raw_csd = ReadR2(Response(CsdOf(inserted)))])
SelectCard == Step("CMD7", IF SD THEN "SCR" ELSE "EXT_CSD", dev)

\* mmc_get_ext_csd
GetExtCsd ==
    Step("EXT_CSD", "decode",
         [dev EXCEPT !.ext_csd = [SEC_COUNT |-> inserted.sectors, ERASE_GRP_DEF |-> inserted.erase_group_def,
                                  HC_ERASE_GRP_SIZE |-> inserted.hc_erase, RPMB_SIZE_MULT |-> inserted.rpmb]])

\* mmc_sd_get_card_scr: fields of the first word received, its bytes turned.
GetCardScr ==
    LET word == Swap(Received(2, ScrOf(inserted))[0])
    IN Step("SCR", "SSR", [dev EXCEPT !.scr = [bus_widths |-> NumberOf({b - 16 : b \in word \cap 16..19}),
                                               cmd23_support |-> 1 \in word]])

\* mmc_sd_get_card_ssr: the allocation unit, and how many to erase at a time.
GetCardSsr ==
    LET status == Turned(Received(16, StatusOf(inserted)))
        aus == UNPACK_BITS(status, 408, 16)
    IN Step("SSR", "decode", [dev EXCEPT !.ssr = [au_size |-> 2^(UNPACK_BITS(status, 428, 4) + 4),
                                                  num_aus |-> IF aus = 0 THEN 16 ELSE aus]])

-----------------------------------------------------------------------------
(* mmc_decode_and_save_csd *)

\* The size of a card whose CSD tells it, in blocks of at least 512 bytes.
CsdBlocks(csd, block_len) ==
    2^(UNPACK_BITS(csd, 47, 3) + 2) * (UNPACK_BITS(csd, 62, 12) + 1) * (block_len \div 512)

\* Block lengths other than 512, 1024 and 2048 are taken for 512 of an SD card.
SdBlockLen(n) == IF n > 8 /\ n < 12 THEN 2^n ELSE 512

\* SEC_COUNT of EXT_CSD, put together as an int and widened with its sign: a
\* negative number stands for itself and 2^55, as many blocks as 64 bits count.
SecCount(bytes) ==
    LET top == IF bytes[1] < 128 THEN bytes[1] ELSE bytes[1] - 256
    IN ((top * 256 + bytes[2]) * 256 + bytes[3]) * 256 + bytes[4]

Capacity(csd) ==
    CASE SD /\ UNPACK_BITS(csd, 126, 2) = 1 -> (UNPACK_BITS(csd, 48, 22) + 1) * 1024
      [] SD /\ UNPACK_BITS(csd, 126, 2) # 1 -> CsdBlocks(csd, SdBlockLen(UNPACK_BITS(csd, 80, 4)))
      [] ~SD /\ UNPACK_BITS(csd, 62, 12) # 4095 -> CsdBlocks(csd, 2^UNPACK_BITS(csd, 80, 4))
      [] OTHER -> SecCount(dev.ext_csd.SEC_COUNT)

\* The groups of the CSD; of an SD card's the erase group is never assigned.
Groups(csd, junk) ==
    [wp_grp_size |-> IF ~SD THEN UNPACK_BITS(csd, 32, 5)
                     ELSE IF UNPACK_BITS(csd, 126, 2) = 1 THEN 0 ELSE UNPACK_BITS(csd, 32, 7),
     erase_grp_size |-> IF SD THEN junk ELSE UNPACK_BITS(csd, 42, 5),
     erase_grp_mult |-> IF SD THEN junk ELSE UNPACK_BITS(csd, 37, 5)]

WpGrpSize(csd) ==
    IF ~SD /\ dev.ext_csd.ERASE_GRP_DEF # 0
    THEN 1024 * dev.ext_csd.HC_ERASE_GRP_SIZE
    ELSE (csd.wp_grp_size + 1) * (csd.erase_grp_size + 1) * (csd.erase_grp_mult + 1)

DecodeCsd ==
    \E junk \in StaleFields :
        LET csd == Groups(dev.raw_csd, junk)
        IN /\ probe = "decode" /\ probe' = "publish"
           /\ dev' = [dev EXCEPT !.csd = csd, !.capacity = Capacity(dev.raw_csd), !.wp_grp_size = WpGrpSize(csd),
                                 !.rpmb_size = IF SD THEN 0 ELSE 256 * dev.ext_csd.RPMB_SIZE_MULT]
           /\ UNCHANGED <<inserted, clock, media>>

\* MMCHSInitialize; without memory for the instance nothing is installed.
Publish ==
    /\ probe = "publish"
    /\ \/ probe' = "published" /\ media' = [BlockSize |-> 512, LastBlock |-> dev.capacity - 1]
       \/ probe' = "NULL" /\ UNCHANGED media
    /\ UNCHANGED <<inserted, clock, dev>>

RegistersNext ==
    \/ ClockSupply \/ AllSendCid \/ SendRelativeAddress \/ SendCsd \/ SelectCard
    \/ GetExtCsd \/ GetCardScr \/ GetCardSsr \/ DecodeCsd \/ Publish

RegistersSpec == RegistersInit /\ [][RegistersNext]_registerVars

-----------------------------------------------------------------------------
(* Properties *)

\* The unit mmc_sdhci_erase works with, of what has been decoded.
EraseUnit ==
    IF SD THEN dev.ssr.au_size * dev.ssr.num_aus
    ELSE IF dev.ext_csd.ERASE_GRP_DEF # 0 THEN 1024 * dev.ext_csd.HC_ERASE_GRP_SIZE
    ELSE (dev.csd.erase_grp_size + 1) * (dev.csd.erase_grp_mult + 1)

\* The divider the controller reads off its register.
HardwareDivider == NumberOf({b - 8 : b \in clock.ctrl \cap 8..15} \cup {b + 2 : b \in clock.ctrl \cap 6..7})

\* The clock made with it is not above the one asked for.
ClockSlowEnough ==
    probe # "clock" =>
        clock.asked >= (clock.base * 1000000) \div (IF HardwareDivider = 0 THEN 1 ELSE 2 * HardwareDivider)

\* A published block device ends with the card's last block, and what erase,
\* write protection of an MMC without large groups, RPMB and the bus of an SD
\* card go by is what the card says, whichever way it says it: shifted R2
\* responses, bytes in the other order, fields across words, a status block
\* turned round in place.  A device that failed publishes nothing.  Not so for
\* AU_SIZE above 0xA, whose units are no powers of two, and for an MMC of 2^31
\* sectors and more.
CardDescribed ==
    /\ probe \in {"publish", "published"} =>
          /\ dev.cid = [mid |-> 69, oid |-> 256, prv |-> inserted.rev]
          /\ EraseUnit = EraseUnitOf(inserted)
          /\ SD => /\ dev.scr.bus_widths = inserted.widths
                   /\ dev.scr.cmd23_support = (inserted.cmd23 = 1)
          /\ ~SD => dev.rpmb_size = 256 * inserted.rpmb
          /\ ~SD /\ inserted.erase_group_def = 0 => dev.wp_grp_size = (inserted.wp_grp_size + 1) * EraseUnitOf(inserted)
    /\ IF probe = "published" THEN media.LastBlock >= 0 /\ media.LastBlock + 1 = Blocks(inserted) ELSE media = <<>>
    /\ ClockSlowEnough

\* "Calculate the wp grp size" (mmc_decode_and_save_csd): what is calculated is
\* the card's, of an SD card and of an MMC with large groups too.
WpGroupDecoded ==
    probe = "published" /\ SD /\ inserted.csd = 1 => dev.wp_grp_size = 1
=============================================================================
