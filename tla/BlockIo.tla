------------------------------ MODULE BlockIo ------------------------------
(* MMCHSReadBlocks and MMCHSWriteBlocks (MMCHS.c): the checks of a request, *)
(* its division into commands of at most SDHCI_ADMA_MAX_TRANS_SZ bytes by  *)
(* mmc_read and mmc_write, the address each command carries                *)
(* (mmc_sdhci_read, mmc_sdhci_write) and the descriptor table the          *)
(* controller walks for it (sdhci_prep_desc_table).  The two directions    *)
(* differ only in the way the bytes go.  Memory addresses are relative to  *)
(* the caller's buffer.                                                     *)
EXTENDS Integers

CONSTANTS
    CardTypes,                  \* of the cards that are in the slot
    BlockSize,                  \* SDHCI_MMC_BLK_SZ, the card's block size
    SDHCI_ADMA_DESC_LINE_SZ,    \* bytes of one descriptor at most
    MaxBlkCnt,                  \* what BLK_CNT_REG can hold
    LastBlock,                  \* of the card
    LbaValues,                  \* values of an EFI_LBA, which wraps
    MaxBufferSize               \* largest buffer of a request

SDHCI_ADMA_MAX_TRANS_SZ == MaxBlkCnt * BlockSize

\* MMC_TYPE_STD_SD and so on: card->type, as mmc_card_init found it.
AllCardTypes == {"STD_SD", "SDHC", "STD_MMC", "MMCHC"}

ASSUME TypesAssumption == CardTypes \subseteq AllCardTypes /\ CardTypes # {}
ASSUME SizesAssumption ==
    /\ BlockSize \in Nat \ {0} /\ SDHCI_ADMA_DESC_LINE_SZ \in Nat \ {0}
    /\ MaxBlkCnt \in Nat \ {0} /\ LastBlock \in Nat
    /\ MaxBufferSize \in Nat
    /\ LbaValues \in Nat /\ LbaValues > LastBlock + MaxBufferSize

\* A request, and the type of the card it goes to.
Request == [media : {"same", "other"}, Lba : 0 .. LbaValues - 1,
            BufferSize : 0 .. MaxBufferSize, Buffer : {"NULL", "valid"},
            type : CardTypes]

VARIABLES
    stage,
    req,                        \* the request under way
    Status,                     \* what it returns
    sptr, data_addr, data_len,  \* mmc_read: next memory, card address, rest
    cmd,                        \* argument and block count of the command
    sg_list,                    \* its descriptor table
    dma,                        \* the controller: next descriptor, card byte
    moved                       \* history: <<memory, card>> byte pairs moved

progress == <<sptr, data_addr, data_len>>
command == <<cmd, sg_list>>
blockVars == <<stage, req, Status, progress, command, dma, moved>>

NoRequest == [media |-> "other", Lba |-> 0, BufferSize |-> 0, Buffer |-> "NULL",
              type |-> CHOOSE type \in CardTypes : TRUE]
NoTable == [i \in {} |-> 0]

BlockInit ==
    /\ stage = "idle"
    /\ req = NoRequest
    /\ Status = "none"
    /\ sptr = 0 /\ data_addr = 0 /\ data_len = 0
    /\ cmd = [argument |-> 0, num_blocks |-> 0] /\ sg_list = NoTable
    /\ dma = [next |-> 0, card |-> 0]
    /\ moved = {}

-----------------------------------------------------------------------------
(* The descriptor table *)

\* Mutant of Descriptors: the rest after the full lines gets no descriptor.
DescriptorsNoRest(len) == IF len <= SDHCI_ADMA_DESC_LINE_SZ THEN 1
                          ELSE len \div SDHCI_ADMA_DESC_LINE_SZ

\* Entries of the table of a transfer of len bytes.
Descriptors(len) ==
    IF len <= SDHCI_ADMA_DESC_LINE_SZ THEN 1
    ELSE len \div SDHCI_ADMA_DESC_LINE_SZ
         + (IF len % SDHCI_ADMA_DESC_LINE_SZ # 0 THEN 1 ELSE 0)

\* Mutant of LineLen: the last descriptor is a full line, too.
LineLenFull(len) == 0

\* The length field has 16 bits: a full line is written as 0.
LineLen(len) == IF len < SDHCI_ADMA_DESC_LINE_SZ THEN len ELSE 0

sdhci_prep_desc_table(data, len) ==
    LET last == Descriptors(len) - 1 IN
    [i \in 0 .. last |->
        [addr |-> data + i * SDHCI_ADMA_DESC_LINE_SZ,
         len  |-> IF i < last THEN 0
                  ELSE LineLen(len - last * SDHCI_ADMA_DESC_LINE_SZ),
         end  |-> i = last]]

\* The bytes the controller moves for a descriptor: a length of 0 is a line.
BytesOf(entry) == IF entry.len = 0 THEN SDHCI_ADMA_DESC_LINE_SZ ELSE entry.len

-----------------------------------------------------------------------------
(* The request *)

\* Mutant of Verdict: the end of the request is not checked.
VerdictStartOnly(r) ==
    IF r.media # "same" THEN "EFI_MEDIA_CHANGED"
    ELSE IF r.Lba > LastBlock THEN "EFI_INVALID_PARAMETER"
    ELSE IF r.BufferSize % BlockSize # 0 THEN "EFI_BAD_BUFFER_SIZE"
    ELSE IF r.Buffer = "NULL" THEN "EFI_INVALID_PARAMETER"
    ELSE IF r.BufferSize = 0 THEN "EFI_SUCCESS"
    ELSE "transfer"

\* The early returns, in their order; the last block is computed modulo the
\* width of an EFI_LBA, so that an empty request at block 0 is invalid.
Verdict(r) ==
    IF r.media # "same" THEN "EFI_MEDIA_CHANGED"
    ELSE IF \/ r.Lba > LastBlock
            \/ (r.Lba + r.BufferSize \div BlockSize - 1) % LbaValues > LastBlock
         THEN "EFI_INVALID_PARAMETER"
    ELSE IF r.BufferSize % BlockSize # 0 THEN "EFI_BAD_BUFFER_SIZE"
    ELSE IF r.Buffer = "NULL" THEN "EFI_INVALID_PARAMETER"
    ELSE IF r.BufferSize = 0 THEN "EFI_SUCCESS"
    ELSE "transfer"

Refuse(r) ==
    /\ stage = "idle" /\ Verdict(r) # "transfer"
    /\ stage' = "returned" /\ req' = r /\ Status' = Verdict(r)
    /\ UNCHANGED <<progress, command, dma, moved>>

Accept(r) ==
    /\ stage = "idle" /\ Verdict(r) = "transfer"
    /\ stage' = "split" /\ req' = r
    /\ sptr' = 0 /\ data_addr' = r.Lba * BlockSize /\ data_len' = r.BufferSize
    /\ UNCHANGED <<Status, command, dma, moved>>

\* The bytes of the next command, full until the last.
ChunkSize(len) ==
    IF len > SDHCI_ADMA_MAX_TRANS_SZ THEN SDHCI_ADMA_MAX_TRANS_SZ ELSE len

\* What a card takes the argument of a transfer for: those of standard
\* capacity, SD and MMC, for the address of a byte, the others of a block.
CardByte(type, argument) ==
    IF type \in {"STD_SD", "STD_MMC"} THEN argument ELSE argument * BlockSize

\* mmc_sdhci_read and mmc_sdhci_write: "Standard emmc cards use byte mode
\* addressing", for which alone the driver converts the block address.
SendChunk ==
    LET blk_addr == data_addr \div BlockSize
        num_blocks == ChunkSize(data_len) \div BlockSize
    IN  /\ stage = "split" /\ data_len > 0
        /\ stage' = "dma"
        /\ cmd' = [argument |-> IF req.type = "STD_MMC" THEN blk_addr * BlockSize
                                ELSE blk_addr,
                   num_blocks |-> num_blocks]
        /\ sg_list' = sdhci_prep_desc_table(sptr, num_blocks * BlockSize)
        /\ dma' = [next |-> 0, card |-> CardByte(req.type, cmd'.argument)]
        /\ UNCHANGED <<req, Status, progress, moved>>

\* The controller moves the bytes of its next descriptor.
Dma ==
    LET entry == sg_list[dma.next] IN
    /\ stage = "dma"
    /\ moved' = moved \cup {<<entry.addr + b, dma.card + b>> : b \in 0 .. BytesOf(entry) - 1}
    /\ dma' = [next |-> dma.next + 1, card |-> dma.card + BytesOf(entry)]
    /\ stage' = IF entry.end THEN "sent" ELSE "dma"
    /\ UNCHANGED <<req, Status, progress, command>>

\* The command succeeded: on to the next one, or done.
ChunkDone ==
    /\ stage = "sent"
    /\ sptr' = sptr + ChunkSize(data_len)
    /\ data_addr' = data_addr + ChunkSize(data_len)
    /\ data_len' = data_len - ChunkSize(data_len)
    /\ IF data_len > SDHCI_ADMA_MAX_TRANS_SZ
       THEN stage' = "split" /\ UNCHANGED Status
       ELSE stage' = "returned" /\ Status' = "EFI_SUCCESS"
    /\ UNCHANGED <<req, command, dma, moved>>

\* The command failed, before, between or after its descriptors.
ChunkFails ==
    /\ stage \in {"dma", "sent"}
    /\ stage' = "returned" /\ Status' = "EFI_DEVICE_ERROR"
    /\ UNCHANGED <<req, progress, command, dma, moved>>

\* Nothing of a request survives it: the next one finds the driver as the
\* first one did.
Forget ==
    /\ stage = "returned"
    /\ stage' = "idle" /\ Status' = "none" /\ req' = NoRequest
    /\ sptr' = 0 /\ data_addr' = 0 /\ data_len' = 0
    /\ cmd' = [argument |-> 0, num_blocks |-> 0] /\ sg_list' = NoTable
    /\ dma' = [next |-> 0, card |-> 0] /\ moved' = {}

BlockNext ==
    \/ \E r \in Request : Refuse(r) \/ Accept(r)
    \/ SendChunk
    \/ Dma
    \/ ChunkDone
    \/ ChunkFails
    \/ Forget

BlockSpec == BlockInit /\ [][BlockNext]_blockVars

-----------------------------------------------------------------------------
(* Properties *)

\* Addresses and sizes have their types, and the block count of a command
\* fits its register (SDHCI_BLK_CNT_REG, 16 bits).
BlockTypeOK ==
    /\ stage \in {"idle", "split", "dma", "sent", "returned"}
    /\ req \in Request
    /\ Status \in {"none", "EFI_SUCCESS", "EFI_MEDIA_CHANGED", "EFI_INVALID_PARAMETER",
                   "EFI_BAD_BUFFER_SIZE", "EFI_DEVICE_ERROR"}
    /\ sptr \in Nat /\ data_addr \in Nat /\ data_len \in Nat
    /\ cmd.argument \in Nat /\ cmd.num_blocks \in 0 .. MaxBlkCnt
    /\ dma.next \in Nat /\ dma.card \in Nat
    /\ stage = "dma" => dma.next \in DOMAIN sg_list

\* The bytes the request asks for: buffer byte b and card byte Lba's b.
Requested == {<<b, req.Lba * BlockSize + b>> : b \in 0 .. req.BufferSize - 1}

\* A transfer that returns EFI_SUCCESS has moved every byte of the request
\* between its place in the buffer and its place on the card (the loops of
\* mmc_read and mmc_write with the tables of sdhci_prep_desc_table).  Not so
\* on an SD card of standard capacity, which mmc_sdhci.c:1324 accepts and
\* whose byte address is a block number: block n is looked for at byte n.
SuccessIsComplete ==
    stage = "returned" /\ Status = "EFI_SUCCESS" => moved = Requested

\* At no time, of a request that succeeds, fails or is refused, does the
\* controller touch a byte outside the buffer, or a byte of the card that
\* the request does not name.  On an SD card of standard capacity it does.
OnlyRequested == moved \subseteq Requested

\* No command reaches beyond the last block of the card, not even one whose
\* address the card takes for another than was meant (the two range checks of
\* MMCHSReadBlocks, whose sum may wrap).
InsideCard == \A p \in moved : p[2] < (LastBlock + 1) * BlockSize

\* Taken together: every address, length and count the driver hands to the
\* controller fits the register it goes to and lies on the card.
CommandsInRange == BlockTypeOK /\ InsideCard
=============================================================================
