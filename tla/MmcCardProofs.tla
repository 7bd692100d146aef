--------------------------- MODULE MmcCardProofs ---------------------------
(* Proofs about the card from its bring-up to the block requests on it.     *)
(* BlockIo, for every block size, descriptor size, block count and card: no *)
(* command reaches beyond the card, and unless it is an SD card of standard *)
(* capacity a request moves the bytes it names and no others, and all of    *)
(* them when it succeeds.  MmcInit, for every card: when the bring-up is over, card and  *)
(* controller are in the same mode at a clock of that mode.                 *)
EXTENDS BlockIo, MmcInit, TLAPS

-----------------------------------------------------------------------------
(* BlockIo *)

Line == SDHCI_ADMA_DESC_LINE_SZ

\* Whole blocks survive the division by the block size.
LEMMA WholeBlocks ==
    ASSUME NEW n \in Nat, NEW d \in Nat \ {0}, n % d = 0
    PROVE  (n \div d) * d = n
  OBVIOUS

LEMMA DivRest ==
    ASSUME NEW n \in Nat, NEW d \in Nat \ {0}
    PROVE  /\ n \div d \in Nat
           /\ n % d \in 0 .. d - 1
           /\ n = ((n \div d) * d) + (n % d)
  OBVIOUS

\* All descriptors but the last are full lines and the last takes the rest,
\* which is never empty and never more than a line.
LEMMA LastDescriptor ==
    ASSUME NEW len \in Nat \ {0}
    PROVE  /\ Descriptors(len) - 1 \in Nat
           /\ (Descriptors(len) - 1) * Line < len
           /\ len <= ((Descriptors(len) - 1) * Line) + Line
<1> DEFINE n == len \div Line
<1>0. Line \in Nat \ {0}
  BY SizesAssumption DEF Line
<1> DEFINE r == len % Line
<1>a. n \in Nat /\ r \in 0 .. Line - 1 /\ len = (n * Line) + r
  BY <1>0, DivRest
<1>1. CASE len <= Line
  <2>1. Descriptors(len) = 1
    BY <1>1 DEF Descriptors, Line
  <2>2. Descriptors(len) - 1 = 0 /\ 0 * Line = 0
    BY <1>0, <2>1
  <2> QED
    BY <1>0, <1>1, <2>2
<1>2. CASE ~(len <= Line) /\ len % Line # 0
  <2>1. Descriptors(len) = n + 1 /\ r # 0
    BY <1>0, <1>2 DEF Descriptors, Line
  <2> HIDE DEF n, r
  <2> QED
    BY <1>0, <1>a, <2>1
<1>3. CASE ~(len <= Line) /\ ~(len % Line # 0)
  <2>1. n \in Nat /\ len = n * Line
    BY <1>0, <1>3, <1>a
  <2>2. Descriptors(len) = n
    <3>1. Descriptors(len) = n + 0
      BY <1>3 DEF Descriptors, Line
    <3> HIDE DEF n
    <3> QED
      BY <2>1, <3>1
  <2> HIDE DEF n
  <2>3. n >= 1
    BY <1>0, <1>3, <2>1
  <2>4. (n - 1) * Line = (n * Line) - Line
    BY <1>0, <2>1
  <2> QED
    BY <1>0, <2>1, <2>2, <2>3, <2>4
<1> QED
  BY <1>1, <1>2, <1>3

\* What the controller reads in entry i of a table.
LEMMA TableEntry ==
    ASSUME NEW data \in Nat, NEW len \in Nat \ {0},
           NEW i \in 0 .. Descriptors(len) - 1
    PROVE  LET table == sdhci_prep_desc_table(data, len)
               last == Descriptors(len) - 1
           IN  /\ DOMAIN table = 0 .. last
               /\ table[i].addr = data + (i * Line)
               /\ table[i].end = (i = last)
               /\ i # last => BytesOf(table[i]) = Line
               /\ i = last => BytesOf(table[i]) = len - (last * Line)
<1> DEFINE last == Descriptors(len) - 1
           table == sdhci_prep_desc_table(data, len)
           entry == [addr |-> data + i * Line,
                     len  |-> IF i < last THEN 0 ELSE LineLen(len - last * Line),
                     end  |-> i = last]
<1>1. /\ last \in Nat /\ last * Line < len /\ len <= (last * Line) + Line
      /\ Line \in Nat \ {0}
  BY LastDescriptor, SizesAssumption DEF Line
<1>2. DOMAIN table = 0 .. last /\ table[i] = entry
  BY DEF sdhci_prep_desc_table, Line
<1> HIDE DEF last, table
<1>3. last * Line \in Nat /\ i \in 0 .. last /\ i * Line \in Nat
  BY <1>1 DEF last
<1>4. CASE i # last
  <2>1. entry.len = 0
    BY <1>3, <1>4, <1>1
  <2> QED
    BY <1>2, <1>4, <2>1 DEF BytesOf, Line, last, table
<1>5. CASE i = last
  <2> DEFINE rest == len - (last * Line)
  <2>1. rest \in 1 .. Line
    BY <1>1, <1>3
  <2>2. entry.len = LineLen(rest)
    BY <1>1, <1>3, <1>5
  <2>3. (IF LineLen(rest) = 0 THEN Line ELSE LineLen(rest)) = rest
    <3> HIDE DEF rest
    <3> QED
      BY <2>1, <1>1 DEF LineLen, Line
  <2>4. BytesOf(table[i]) = rest
    BY <1>2, <2>2, <2>3 DEF BytesOf, Line
  <2> QED
    BY <1>2, <1>5, <2>4 DEF last, table
<1> QED
  BY <1>4, <1>5

-----------------------------------------------------------------------------
\* The first n bytes of a request at card byte base.
Upto(base, n) == {<<b, base + b>> : b \in 0 .. n - 1}

\* k bytes in a row, from memory address mem and from byte "at" of the card.
Run(mem, at, k) == {<<mem + b, at + b>> : b \in 0 .. k - 1}

\* A named formula, for the provers to match as a whole.
Extends(base, m, k) == Upto(base, m) \cup Run(m, base + m, k) = Upto(base, m + k)

\* k bytes more, one after the other, extend the first m bytes.
LEMMA UptoExtends ==
    ASSUME NEW base \in Nat, NEW m \in Nat, NEW k \in Nat
    PROVE  Extends(base, m, k)
<1> DEFINE more == {<<m + b, (base + m) + b>> : b \in 0 .. k - 1}
<1>1. ASSUME NEW p \in Upto(base, m + k) PROVE p \in Upto(base, m) \cup more
  <2>1. PICK b \in 0 .. (m + k) - 1 : p = <<b, base + b>>
    BY <1>1 DEF Upto
  <2>2. CASE b < m
    BY <2>1, <2>2 DEF Upto
  <2>3. CASE b >= m
    <3>1. b - m \in 0 .. k - 1 /\ b = m + (b - m) /\ base + b = (base + m) + (b - m)
      BY <2>1, <2>3
    <3>2. p = <<m + (b - m), (base + m) + (b - m)>>
      BY <2>1, <3>1
    <3> QED
      BY <3>1, <3>2
  <2> QED
    BY <2>1, <2>2, <2>3
<1>2. ASSUME NEW p \in Upto(base, m) PROVE p \in Upto(base, m + k)
  BY <1>2 DEF Upto
<1>3. ASSUME NEW p \in more PROVE p \in Upto(base, m + k)
  <2>1. PICK b \in 0 .. k - 1 : p = <<m + b, (base + m) + b>>
    BY <1>3
  <2>2. m + b \in 0 .. (m + k) - 1 /\ (base + m) + b = base + (m + b)
    BY <2>1
  <2> QED
    BY <2>1, <2>2 DEF Upto
<1> QED
  BY <1>1, <1>2, <1>3 DEF Run, Extends

LEMMA UptoGrows ==
    ASSUME NEW base \in Nat, NEW m \in Nat, NEW n \in Nat, m <= n
    PROVE  Upto(base, m) \subseteq Upto(base, n)
  BY DEF Upto

\* Dividing a number of whole blocks gives their number.
LEMMA BlocksOf ==
    ASSUME NEW q \in Nat, NEW d \in Nat \ {0}
    PROVE  (q * d) \div d = q
  OBVIOUS

-----------------------------------------------------------------------------
(* The inductive invariant *)

Base == req.Lba * BlockSize
Chunk == ChunkSize(data_len)

\* Memory and card address advance together, by whole blocks, and what is
\* left adds up to the request.
Running ==
    stage \in {"split", "dma", "sent"} =>
        /\ Verdict(req) = "transfer"
        /\ data_addr = Base + sptr
        /\ sptr + data_len = req.BufferSize
        /\ data_len > 0
        /\ \E q \in Nat : data_len = q * BlockSize
        /\ \E q \in Nat : sptr = q * BlockSize

CardEnd == (LastBlock + 1) * BlockSize

\* The card begins where it takes the argument to point, ...
FirstByte == CardByte(req.type, cmd.argument)

\* ... and the controller walks from there, within the card.
Walking ==
    stage = "dma" =>
        /\ sg_list = sdhci_prep_desc_table(sptr, Chunk)
        /\ dma.next \in 0 .. Descriptors(Chunk) - 1
        /\ FirstByte \in Nat /\ FirstByte + Chunk <= CardEnd
        /\ dma.card = FirstByte + (dma.next * Line)

\* The card takes an argument for what the driver means by it.
ReadAsMeant == req.type # "STD_SD"

\* How far the bytes have been moved.
Moved ==
    /\ stage = "idle" => moved = {}
    /\ ReadAsMeant =>
          /\ stage = "split" => moved = Upto(Base, sptr)
          /\ stage = "dma" =>
                FirstByte = data_addr /\ moved = Upto(Base, sptr + (dma.next * Line))
          /\ stage = "sent" => moved = Upto(Base, sptr + Chunk)

AsAsked == ReadAsMeant => OnlyRequested /\ SuccessIsComplete

IInv == BlockTypeOK /\ Running /\ Walking /\ Moved /\ InsideCard /\ AsAsked

\* An accepted request lies on the card, and is made of whole blocks.
LEMMA AcceptedFits ==
    ASSUME NEW r \in Request, Verdict(r) = "transfer"
    PROVE  \E q \in Nat \ {0} :
              /\ r.BufferSize = q * BlockSize
              /\ r.Lba + q <= LastBlock + 1
<1> DEFINE q == r.BufferSize \div BlockSize
<1>0. /\ BlockSize \in Nat \ {0} /\ LbaValues \in Nat /\ LastBlock \in Nat
      /\ MaxBufferSize \in Nat /\ LbaValues > LastBlock + MaxBufferSize
  BY SizesAssumption
<1>1. /\ r.Lba \in 0 .. LbaValues - 1 /\ r.BufferSize \in 0 .. MaxBufferSize
  BY DEF Request
<1>2. /\ ~(r.Lba > LastBlock)
      /\ ~((r.Lba + q - 1) % LbaValues > LastBlock)
      /\ r.BufferSize % BlockSize = 0 /\ r.BufferSize # 0
  BY DEF Verdict
<1>3. q \in Nat /\ r.BufferSize = q * BlockSize
  <2>1. r.BufferSize \in Nat
    BY <1>0, <1>1
  <2>2. q \in Nat
    BY <1>0, <2>1, DivRest
  <2>3. q * BlockSize = r.BufferSize
    BY <1>0, <1>2, <2>1, WholeBlocks
  <2> QED
    BY <2>2, <2>3
<1> HIDE DEF q
<1>4. q # 0
  <2>1. q = 0 => r.BufferSize = 0
    BY <1>0, <1>3
  <2> QED
    BY <1>2, <2>1
<1>5. q <= r.BufferSize
  BY <1>0, <1>3, <1>4
<1>6. r.Lba + q - 1 \in 0 .. LbaValues - 1
  BY <1>0, <1>1, <1>2, <1>3, <1>4, <1>5
<1>7. (r.Lba + q - 1) % LbaValues = r.Lba + q - 1
  BY <1>0, <1>6
<1> QED
  BY <1>0, <1>1, <1>2, <1>3, <1>4, <1>6, <1>7

\* A chunk is not empty, is made of whole blocks and fits the block count.
LEMMA ChunkFits ==
    ASSUME NEW len \in Nat, NEW q \in Nat, len = q * BlockSize, len > 0
    PROVE  \E c \in 1 .. MaxBlkCnt :
              /\ ChunkSize(len) = c * BlockSize
              /\ c <= q
              /\ len - ChunkSize(len) = (q - c) * BlockSize
              /\ len - ChunkSize(len) \in Nat
              /\ len - ChunkSize(len) > 0 <=> len > SDHCI_ADMA_MAX_TRANS_SZ
<1>0. BlockSize \in Nat \ {0} /\ MaxBlkCnt \in Nat \ {0}
  BY SizesAssumption
<1>1. CASE len > SDHCI_ADMA_MAX_TRANS_SZ
  <2>1. q * BlockSize > MaxBlkCnt * BlockSize
    BY <1>1 DEF SDHCI_ADMA_MAX_TRANS_SZ
  <2>2. q > MaxBlkCnt
    BY <1>0, <2>1
  <2>3. ChunkSize(len) = MaxBlkCnt * BlockSize
    BY <1>1 DEF ChunkSize, SDHCI_ADMA_MAX_TRANS_SZ
  <2>4. (q - MaxBlkCnt) * BlockSize = (q * BlockSize) - (MaxBlkCnt * BlockSize)
    BY <1>0
  <2>5. len - ChunkSize(len) \in Nat /\ len - ChunkSize(len) > 0
    BY <1>0, <2>1, <2>3
  <2> QED
    BY <1>0, <1>1, <2>2, <2>3, <2>4, <2>5
<1>2. CASE ~(len > SDHCI_ADMA_MAX_TRANS_SZ)
  <2>1. ~(q * BlockSize > MaxBlkCnt * BlockSize)
    BY <1>2 DEF SDHCI_ADMA_MAX_TRANS_SZ
  <2>2. q <= MaxBlkCnt
    BY <1>0, <2>1
  <2>3. ChunkSize(len) = q * BlockSize
    BY <1>2 DEF ChunkSize
  <2>4. q # 0
    BY <1>0
  <2>5. (q - q) * BlockSize = 0
    BY <1>0
  <2> QED
    BY <1>0, <1>2, <2>2, <2>3, <2>4, <2>5
<1> QED
  BY <1>1, <1>2

\* The facts about the constants that the steps below use.
LEMMA Sizes ==
    /\ BlockSize \in Nat \ {0} /\ Line \in Nat \ {0} /\ MaxBlkCnt \in Nat \ {0}
    /\ LastBlock \in Nat /\ MaxBufferSize \in Nat /\ LbaValues \in Nat
    /\ LbaValues > 0
  BY SizesAssumption DEF Line

LEMMA BaseType == ASSUME BlockTypeOK PROVE Base \in Nat /\ req.BufferSize \in Nat
<1>1. req.Lba \in 0 .. LbaValues - 1 /\ req.BufferSize \in 0 .. MaxBufferSize
  BY DEF BlockTypeOK, Request
<1> QED
  BY <1>1, Sizes DEF Base

LEMMA RequestedUpto == Requested = Upto(Base, req.BufferSize)
  BY DEF Requested, Upto, Base

LEMMA BlockInvBegins == BlockInit => IInv
<1> SUFFICES ASSUME BlockInit PROVE IInv
  OBVIOUS
<1>1. NoRequest \in Request
  BY Sizes, TypesAssumption DEF NoRequest, Request
<1> QED
  BY <1>1, Sizes DEF BlockInit, IInv, BlockTypeOK, Running, Walking, Moved, InsideCard, AsAsked,
     OnlyRequested, SuccessIsComplete

LEMMA RefuseInv == ASSUME IInv, NEW r \in Request, Refuse(r) PROVE IInv'
<1>1. moved = {} /\ moved' = {}
  BY DEF Refuse, IInv, Moved
<1>a. Verdict(r) \in {"EFI_SUCCESS", "EFI_MEDIA_CHANGED", "EFI_INVALID_PARAMETER",
                     "EFI_BAD_BUFFER_SIZE"}
  BY DEF Refuse, Verdict
<1>2. BlockTypeOK'
  BY <1>a DEF Refuse, IInv, BlockTypeOK, progress, command
<1>3. Running' /\ Walking' /\ Moved' /\ InsideCard' /\ OnlyRequested'
  BY <1>1 DEF Refuse, Running, Walking, Moved, InsideCard, OnlyRequested
<1>4. SuccessIsComplete'
  <2> SUFFICES ASSUME Status' = "EFI_SUCCESS" PROVE Requested' = {}
    BY <1>1 DEF SuccessIsComplete
  <2>1. r.BufferSize = 0
    BY DEF Refuse, Verdict
  <2>2. req'.BufferSize = 0
    BY <2>1 DEF Refuse
  <2> QED
    BY <2>2 DEF Requested
<1> QED
  BY <1>2, <1>3, <1>4 DEF IInv, AsAsked

LEMMA AcceptInv == ASSUME IInv, NEW r \in Request, Accept(r) PROVE IInv'
<1>1. PICK q \in Nat \ {0} : r.BufferSize = q * BlockSize
  BY AcceptedFits DEF Accept
<1>2. /\ stage' = "split" /\ req' = r /\ Verdict(r) = "transfer"
      /\ sptr' = 0 /\ data_addr' = r.Lba * BlockSize /\ data_len' = r.BufferSize
      /\ UNCHANGED <<Status, cmd, sg_list, dma, moved>>
  BY DEF Accept, command
<1>3. moved = {}
  BY DEF Accept, IInv, Moved
<1>4. r.Lba \in Nat /\ r.Lba * BlockSize \in Nat /\ r.BufferSize \in Nat
  <2>1. r.Lba \in 0 .. LbaValues - 1 /\ r.BufferSize \in 0 .. MaxBufferSize
    BY DEF Request
  <2> QED
    BY <2>1, Sizes
<1>5. BlockTypeOK'
  BY <1>2, <1>4 DEF IInv, BlockTypeOK
<1>6. r.BufferSize > 0
  BY <1>4, <1>2 DEF Verdict
<1>7. Running'
  <2>1. 0 = 0 * BlockSize
    BY Sizes
  <2> QED
    BY <1>1, <1>2, <1>4, <1>6, <2>1 DEF Running, Base
<1>8. Upto(Base, 0)' = {}
  BY DEF Upto
<1>9. Walking' /\ Moved' /\ InsideCard' /\ AsAsked'
  BY <1>2, <1>3, <1>8 DEF Walking, Moved, InsideCard, AsAsked, OnlyRequested,
     SuccessIsComplete, Upto
<1> QED
  BY <1>5, <1>7, <1>9 DEF IInv

\* A command that goes to the right place, or before it, ends on the card.
LEMMA FitsOnCard ==
    ASSUME NEW r \in Request, Verdict(r) = "transfer"
    PROVE  /\ CardEnd \in Nat
           /\ (r.Lba * BlockSize) + r.BufferSize <= CardEnd
<1>1. PICK q \in Nat \ {0} : r.BufferSize = q * BlockSize /\ r.Lba + q <= LastBlock + 1
  BY AcceptedFits
<1>2. r.Lba \in Nat
  BY DEF Request
<1>3. PICK d \in Nat : LastBlock + 1 = (r.Lba + q) + d
  <2>1. (LastBlock + 1) - (r.Lba + q) \in Nat
    BY <1>1, <1>2, Sizes
  <2> QED
    BY <1>1, <1>2, <2>1, Sizes
<1>4. CardEnd = ((r.Lba * BlockSize) + (q * BlockSize)) + (d * BlockSize)
  <2>1. CardEnd = ((r.Lba + q) + d) * BlockSize
    BY <1>3 DEF CardEnd
  <2>2. BlockSize \in Nat
    BY Sizes
  <2> QED
    BY <2>1, <2>2, <1>1, <1>2, <1>3
<1>5. r.Lba * BlockSize \in Nat /\ d * BlockSize \in Nat /\ q * BlockSize \in Nat
  BY <1>1, <1>2, <1>3, Sizes
<1> QED
  BY <1>1, <1>4, <1>5

LEMMA SendChunkInv == ASSUME IInv, SendChunk PROVE IInv'
<1> DEFINE blk_addr == data_addr \div BlockSize
           num_blocks == Chunk \div BlockSize
<1>1. /\ stage = "split" /\ stage' = "dma"
      /\ cmd' = [argument |-> IF req.type = "STD_MMC" THEN blk_addr * BlockSize ELSE blk_addr,
                 num_blocks |-> num_blocks]
      /\ sg_list' = sdhci_prep_desc_table(sptr, num_blocks * BlockSize)
      /\ dma' = [next |-> 0, card |-> CardByte(req.type, cmd'.argument)]
      /\ UNCHANGED <<req, Status, sptr, data_addr, data_len, moved>>
  BY DEF SendChunk, Chunk, progress
<1>2. BlockTypeOK /\ Running /\ Moved
  BY DEF IInv
<1>3. PICK q \in Nat : data_len = q * BlockSize
  BY <1>1, <1>2 DEF Running
<1>4. PICK s \in Nat : sptr = s * BlockSize
  BY <1>1, <1>2 DEF Running
<1>5. /\ sptr \in Nat /\ data_addr \in Nat /\ data_len \in Nat /\ data_len > 0
      /\ data_addr = Base + sptr /\ sptr + data_len = req.BufferSize
      /\ req \in Request /\ Verdict(req) = "transfer"
  BY <1>1, <1>2 DEF Running, BlockTypeOK
<1>6. PICK c \in 1 .. MaxBlkCnt : Chunk = c * BlockSize /\ data_len - Chunk \in Nat
  BY <1>3, <1>5, ChunkFits DEF Chunk
<1>7. num_blocks = c /\ num_blocks * BlockSize = Chunk
  BY <1>6, Sizes, BlocksOf
<1>8. blk_addr \in Nat /\ blk_addr * BlockSize = data_addr
  <2>1. req.Lba \in Nat
    BY <1>2 DEF BlockTypeOK, Request
  <2>2. data_addr = (req.Lba + s) * BlockSize /\ req.Lba + s \in Nat
    BY <1>4, <1>5, <2>1, Sizes DEF Base
  <2>3. blk_addr = req.Lba + s
    BY <2>2, Sizes, BlocksOf
  <2> QED
    BY <2>2, <2>3
<1> HIDE DEF blk_addr, num_blocks
<1>a. cmd'.argument \in {blk_addr, data_addr} /\ req' = req
  BY <1>1, <1>8
<1>b. PICK first \in {blk_addr, data_addr} :
          FirstByte' = first /\ (ReadAsMeant => first = data_addr)
  BY <1>1, <1>8, <1>a DEF FirstByte, CardByte, ReadAsMeant
<1>c. blk_addr <= data_addr
  <2>1. BlockSize >= 1 /\ BlockSize \in Nat
    BY Sizes
  <2> QED
    BY <1>8, <2>1
<1>d. dma'.next = 0 /\ dma'.card = first
  BY <1>1, <1>b DEF FirstByte
<1>10. Chunk \in Nat \ {0}
  BY <1>6, Sizes
<1>11. sg_list' = sdhci_prep_desc_table(sptr, Chunk) /\ Chunk' = Chunk /\ Base' = Base
  BY <1>1, <1>7 DEF Chunk, Base
<1>12. 0 \in 0 .. Descriptors(Chunk) - 1
  BY <1>10, LastDescriptor
<1>13. DOMAIN sg_list' = 0 .. Descriptors(Chunk) - 1
  BY <1>11 DEF sdhci_prep_desc_table
<1>14. BlockTypeOK'
  <2>1. cmd'.argument \in Nat /\ cmd'.num_blocks \in 0 .. MaxBlkCnt
    BY <1>1, <1>5, <1>7, <1>8, Sizes
  <2> QED
    BY <1>1, <1>2, <1>5, <1>8, <1>b, <1>d, <1>12, <1>13, <2>1 DEF BlockTypeOK
<1>15. Running'
  BY <1>1, <1>2 DEF Running, Base
<1>16. Walking'
  <2>1. Base \in Nat /\ Base + req.BufferSize <= CardEnd /\ CardEnd \in Nat
    BY <1>2, <1>5, BaseType, FitsOnCard DEF Base
  <2>2. data_addr + Chunk <= CardEnd
    BY <1>2, <1>5, <1>6, <1>10, <2>1, BaseType
  <2>3. first \in Nat /\ first + Chunk <= CardEnd
    BY <1>5, <1>8, <1>10, <1>c, <2>1, <2>2
  <2>4. 0 * Line = 0 /\ first + (0 * Line) = first
    BY <2>3, Sizes
  <2>5. CardEnd' = CardEnd /\ sptr' = sptr
    BY <1>1 DEF CardEnd
  <2> QED
    BY <1>b, <1>d, <1>11, <1>12, <2>3, <2>4, <2>5 DEF Walking
<1>17. Moved'
  <2> SUFFICES ASSUME ReadAsMeant
               PROVE  FirstByte' = data_addr' /\ moved' = Upto(Base', sptr' + (dma'.next * Line))
    BY <1>1, <1>a DEF Moved, ReadAsMeant
  <2>1. moved' = Upto(Base, sptr)
    BY <1>1, <1>2 DEF Moved
  <2>2. 0 * Line = 0 /\ sptr + (0 * Line) = sptr
    BY <1>5, Sizes
  <2> QED
    BY <1>1, <1>b, <1>d, <1>11, <2>1, <2>2
<1>18. InsideCard' /\ AsAsked'
  BY <1>1 DEF IInv, InsideCard, AsAsked, ReadAsMeant, OnlyRequested, SuccessIsComplete, Requested
<1> QED
  BY <1>14, <1>15, <1>16, <1>17, <1>18 DEF IInv

LEMMA DmaInv == ASSUME IInv, Dma PROVE IInv'
<1> DEFINE i == dma.next
           last == Descriptors(Chunk) - 1
           entry == sg_list[i]
           k == BytesOf(entry)
<1>1. /\ stage = "dma"
      /\ moved' = moved \cup {<<entry.addr + b, dma.card + b>> : b \in 0 .. k - 1}
      /\ dma' = [next |-> i + 1, card |-> dma.card + k]
      /\ stage' = IF entry.end THEN "sent" ELSE "dma"
      /\ UNCHANGED <<req, Status, sptr, data_addr, data_len, cmd, sg_list>>
  BY DEF Dma, progress, command
<1>2. BlockTypeOK /\ Running /\ Walking /\ Moved
  BY DEF IInv
<1>3. PICK q \in Nat : data_len = q * BlockSize
  BY <1>1, <1>2 DEF Running
<1>4. /\ sptr \in Nat /\ data_addr \in Nat /\ data_len \in Nat /\ data_len > 0
      /\ data_addr = Base + sptr /\ Base \in Nat
      /\ sptr + data_len = req.BufferSize
  BY <1>1, <1>2, BaseType DEF Running, BlockTypeOK
<1>5. Chunk \in Nat \ {0} /\ Chunk <= data_len
  <2>1. PICK c \in 1 .. MaxBlkCnt : /\ Chunk = c * BlockSize
                                    /\ data_len - Chunk \in Nat
    BY <1>3, <1>4, ChunkFits DEF Chunk
  <2>2. Chunk \in Nat \ {0}
    BY <2>1, Sizes
  <2> QED
    BY <1>4, <2>1, <2>2
<1>6. /\ sg_list = sdhci_prep_desc_table(sptr, Chunk)
      /\ i \in 0 .. last
      /\ dma.card = FirstByte + (i * Line)
      /\ FirstByte \in Nat /\ FirstByte + Chunk <= CardEnd
      /\ ReadAsMeant => FirstByte = data_addr /\ moved = Upto(Base, sptr + (i * Line))
  BY <1>1, <1>2 DEF Walking, Moved
<1>7. last \in Nat /\ last * Line < Chunk /\ Chunk <= (last * Line) + Line
  BY <1>5, LastDescriptor
<1>8. /\ DOMAIN sg_list = 0 .. last
      /\ entry.addr = sptr + (i * Line)
      /\ entry.end = (i = last)
      /\ i # last => k = Line
      /\ i = last => k = Chunk - (last * Line)
  BY <1>4, <1>5, <1>6, TableEntry
<1> HIDE DEF entry, k, last
<1>9. i * Line \in Nat /\ last * Line \in Nat /\ (i + 1) * Line = (i * Line) + Line
  BY <1>6, <1>7, Sizes
<1>10. k \in Nat
  BY <1>5, <1>7, <1>8, <1>9, Sizes
<1>11. ASSUME ReadAsMeant PROVE moved' = Upto(Base, (sptr + (i * Line)) + k)
  <2> DEFINE m == sptr + (i * Line)
  <2>1. m \in Nat /\ dma.card = Base + m /\ entry.addr = m
    BY <1>4, <1>6, <1>8, <1>9, <1>11
  <2>2. moved' = Upto(Base, m) \cup Run(m, Base + m, k)
    BY <1>1, <1>6, <1>11, <2>1 DEF Run
  <2> HIDE DEF m
  <2>3. moved' = Upto(Base, m + k)
    <3>1. Base \in Nat /\ m \in Nat /\ k \in Nat
      BY <1>4, <1>10, <2>1
    <3>2. Extends(Base, m, k)
      BY <3>1, UptoExtends
    <3> QED
      BY <2>2, <3>2 DEF Extends
  <2> QED
    BY <2>3 DEF m
<1>12. (sptr + (i * Line)) + k <= sptr + Chunk
  <2>1. CASE i = last
    BY <1>4, <1>5, <1>8, <1>9, <2>1
  <2>2. CASE i # last
    <3>1. i + 1 <= last /\ i + 1 \in Nat
      BY <1>6, <1>7, <2>2
    <3>2. (i + 1) * Line <= last * Line
      <4>1. PICK d \in Nat : last = (i + 1) + d
        <5>1. last - (i + 1) \in Nat
          BY <1>7, <3>1
        <5> QED
          BY <1>7, <3>1, <5>1
      <4>2. last * Line = ((i + 1) * Line) + (d * Line) /\ d * Line \in Nat
        BY <3>1, <4>1, Sizes
      <4> QED
        BY <1>9, <4>2, <3>1, Sizes
    <3> QED
      BY <1>4, <1>5, <1>7, <1>8, <1>9, <2>2, <3>2, Sizes
  <2> QED
    BY <2>1, <2>2
<1>c. (i * Line) + k <= Chunk
  BY <1>4, <1>5, <1>9, <1>10, <1>12
<1>13. /\ Base' = Base /\ Chunk' = Chunk /\ Requested' = Requested /\ FirstByte' = FirstByte
       /\ ReadAsMeant' = ReadAsMeant /\ CardEnd' = CardEnd
  BY <1>1 DEF Base, Chunk, Requested, FirstByte, ReadAsMeant, CardEnd
<1>14. stage' = "dma" <=> i # last
  BY <1>1, <1>8
<1>15. BlockTypeOK'
  <2>1. stage' \in {"dma", "sent"}
    BY <1>1
  <2>2. dma'.next = i + 1 /\ dma'.card = dma.card + k
    BY <1>1
  <2>3. dma'.next \in Nat /\ dma'.card \in Nat
    BY <1>2, <1>6, <1>7, <1>10, <2>2 DEF BlockTypeOK
  <2>4. stage' = "dma" => dma'.next \in DOMAIN sg_list'
    BY <1>1, <1>6, <1>7, <1>8, <1>14, <2>2
  <2> QED
    BY <1>1, <1>2, <2>1, <2>3, <2>4 DEF BlockTypeOK
<1>16. Running'
  BY <1>1, <1>2, <1>13 DEF Running
<1>17. InsideCard'
  <2>1. CardEnd \in Nat
    BY Sizes DEF CardEnd
  <2>2. ASSUME NEW b \in 0 .. k - 1 PROVE dma.card + b < CardEnd
    BY <1>5, <1>6, <1>9, <1>10, <1>c, <2>1, <2>2
  <2>3. ASSUME NEW p \in moved' PROVE p[2] < CardEnd
    BY <1>1, <2>2, <2>3 DEF IInv, InsideCard, CardEnd
  <2> QED
    BY <2>3 DEF InsideCard, CardEnd
<1>18. AsAsked'
  <2> SUFFICES ASSUME ReadAsMeant PROVE OnlyRequested'
    BY <1>1, <1>13 DEF AsAsked, SuccessIsComplete
  <2>1. (sptr + (i * Line)) + k \in Nat /\ (sptr + (i * Line)) + k <= req.BufferSize
    BY <1>4, <1>5, <1>9, <1>10, <1>12, BaseType, <1>2
  <2>2. Upto(Base, (sptr + (i * Line)) + k) \subseteq Upto(Base, req.BufferSize)
    BY <1>2, <1>4, <2>1, UptoGrows, BaseType
  <2> QED
    BY <1>11, <1>13, <2>2, RequestedUpto DEF OnlyRequested
<1>19. Walking'
  <2> SUFFICES ASSUME stage' = "dma"
               PROVE  i + 1 \in 0 .. last /\ dma'.card = FirstByte + ((i + 1) * Line)
    BY <1>1, <1>6, <1>13 DEF Walking, last
  <2>1. i # last
    BY <1>14
  <2>2. k = Line
    BY <1>8, <2>1
  <2>3. dma'.card = dma.card + Line
    BY <1>1, <2>2
  <2>4. i + 1 \in 0 .. last
    BY <1>6, <1>7, <2>1
  <2> QED
    BY <1>6, <1>9, <2>3, <2>4, Sizes
<1>20. Moved'
  <2> SUFFICES ASSUME ReadAsMeant
               PROVE  /\ stage' = "dma" => moved' = Upto(Base, sptr + (dma'.next * Line))
                      /\ stage' = "sent" => moved' = Upto(Base, sptr + Chunk)
    BY <1>1, <1>6, <1>13 DEF Moved
  <2>1. CASE i # last
    <3>1. (sptr + (i * Line)) + k = sptr + ((i + 1) * Line)
      BY <1>4, <1>8, <1>9, <2>1, Sizes
    <3> QED
      BY <1>1, <1>11, <1>14, <2>1, <3>1
  <2>2. CASE i = last
    <3>1. (sptr + (i * Line)) + k = sptr + Chunk
      BY <1>4, <1>5, <1>8, <1>9, <2>2
    <3> QED
      BY <1>1, <1>11, <1>14, <2>2, <3>1
  <2> QED
    BY <2>1, <2>2
<1> QED
  BY <1>15, <1>16, <1>17, <1>18, <1>19, <1>20 DEF IInv

LEMMA ChunkDoneInv == ASSUME IInv, ChunkDone PROVE IInv'
<1>1. /\ stage = "sent"
      /\ sptr' = sptr + Chunk /\ data_addr' = data_addr + Chunk
      /\ data_len' = data_len - Chunk
      /\ IF data_len > SDHCI_ADMA_MAX_TRANS_SZ
         THEN stage' = "split" /\ Status' = Status
         ELSE stage' = "returned" /\ Status' = "EFI_SUCCESS"
      /\ UNCHANGED <<req, cmd, sg_list, dma, moved>>
  BY DEF ChunkDone, Chunk, command
<1>2. BlockTypeOK /\ Running /\ Moved
  BY DEF IInv
<1>3. PICK q \in Nat : data_len = q * BlockSize
  BY <1>1, <1>2 DEF Running
<1>4. PICK s \in Nat : sptr = s * BlockSize
  BY <1>1, <1>2 DEF Running
<1>5. /\ sptr \in Nat /\ data_addr \in Nat /\ data_len \in Nat /\ data_len > 0
      /\ data_addr = Base + sptr /\ Base \in Nat
      /\ sptr + data_len = req.BufferSize
  BY <1>1, <1>2, BaseType DEF Running, BlockTypeOK
<1>6. PICK c \in 1 .. MaxBlkCnt : /\ Chunk = c * BlockSize
                                  /\ c <= q
                                  /\ data_len - Chunk = (q - c) * BlockSize
                                  /\ data_len - Chunk \in Nat
                                  /\ data_len - Chunk > 0 <=> data_len > SDHCI_ADMA_MAX_TRANS_SZ
  BY <1>3, <1>5, ChunkFits DEF Chunk
<1>7. Chunk \in Nat
  BY <1>6, Sizes
<1>8. /\ ReadAsMeant => moved' = Upto(Base, sptr')
      /\ Base' = Base /\ Requested' = Requested /\ ReadAsMeant' = ReadAsMeant
  BY <1>1, <1>2 DEF Moved, Base, Requested, ReadAsMeant
<1>9. BlockTypeOK'
  <2>1. sptr' \in Nat /\ data_addr' \in Nat /\ data_len' \in Nat
    BY <1>1, <1>5, <1>6, <1>7
  <2>2. stage' \in {"split", "returned"} /\ (Status' = Status \/ Status' = "EFI_SUCCESS")
    BY <1>1
  <2> QED
    BY <1>1, <1>2, <2>1, <2>2 DEF BlockTypeOK
<1>10. Running'
  <2> SUFFICES ASSUME stage' = "split" PROVE Running'
    BY <1>1 DEF Running
  <2>1. data_len' > 0 /\ Verdict(req)' = "transfer"
    BY <1>1, <1>2, <1>6 DEF Running
  <2>2. q - c \in Nat /\ data_len' = (q - c) * BlockSize
    BY <1>1, <1>6
  <2>3. s + c \in Nat /\ sptr' = (s + c) * BlockSize
    BY <1>1, <1>4, <1>6, Sizes
  <2>4. data_addr' = Base' + sptr' /\ sptr' + data_len' = req'.BufferSize
    BY <1>1, <1>5, <1>7, <1>8
  <2> QED
    BY <2>1, <2>2, <2>3, <2>4 DEF Running
<1>11. Walking' /\ Moved' /\ InsideCard'
  BY <1>1, <1>2, <1>8 DEF IInv, Walking, Moved, InsideCard
<1>12. AsAsked'
  <2> SUFFICES ASSUME ReadAsMeant, stage' = "returned" PROVE moved' = Requested'
    BY <1>1, <1>8 DEF IInv, AsAsked, OnlyRequested, SuccessIsComplete
  <2>1. data_len - Chunk = 0
    BY <1>1, <1>6
  <2>2. sptr' = req.BufferSize
    BY <1>1, <1>5, <1>7, <2>1
  <2> QED
    BY <1>8, <2>2, RequestedUpto
<1> QED
  BY <1>9, <1>10, <1>11, <1>12 DEF IInv

LEMMA ChunkFailsInv == ASSUME IInv, ChunkFails PROVE IInv'
<1>1. /\ stage' = "returned" /\ Status' = "EFI_DEVICE_ERROR"
      /\ UNCHANGED <<req, sptr, data_addr, data_len, cmd, sg_list, dma, moved>>
  BY DEF ChunkFails, progress, command
<1> QED
  BY <1>1 DEF IInv, BlockTypeOK, Running, Walking, Moved, InsideCard, AsAsked, ReadAsMeant,
     OnlyRequested, SuccessIsComplete, Requested

LEMMA ForgetInv == ASSUME IInv, Forget PROVE IInv'
<1>1. NoRequest \in Request
  BY Sizes, TypesAssumption DEF NoRequest, Request
<1> QED
  BY <1>1, Sizes DEF Forget, IInv, BlockTypeOK, Running, Walking, Moved, InsideCard, AsAsked,
     OnlyRequested, SuccessIsComplete

LEMMA Invariance == BlockSpec => []IInv
<1>1. IInv /\ [BlockNext]_blockVars => IInv'
  <2> SUFFICES ASSUME IInv, [BlockNext]_blockVars PROVE IInv'
    OBVIOUS
  <2>1. ASSUME NEW r \in Request, Refuse(r) \/ Accept(r) PROVE IInv'
    BY <2>1, RefuseInv, AcceptInv
  <2>2. CASE UNCHANGED blockVars
    BY <2>2 DEF blockVars, progress, command, IInv, BlockTypeOK, Running, Walking, Moved, Base,
       Chunk, FirstByte, CardEnd, InsideCard, AsAsked, ReadAsMeant, OnlyRequested,
       SuccessIsComplete, Requested
  <2> QED
    BY <2>1, <2>2, SendChunkInv, DmaInv, ChunkDoneInv, ChunkFailsInv, ForgetInv DEF BlockNext
<1> QED
  BY <1>1, BlockInvBegins, PTL DEF BlockSpec

-----------------------------------------------------------------------------
\* Addresses and sizes keep their types, the descriptor the controller reads
\* is in its table, and a block count never outgrows BLK_CNT_REG (mmc_read,
\* mmc_write), for all sizes.
THEOREM BlockIoTypeOK == BlockSpec => []BlockTypeOK
  BY Invariance, PTL DEF IInv

\* The hypothesis of the next two: the card in the slot is not an SD card of
\* standard capacity, whose byte addresses the driver does not know of.
NoStandardSd == "STD_SD" \notin CardTypes

\* A request that succeeds has moved all of its bytes (mmc_read, mmc_write,
\* sdhci_prep_desc_table), for all sizes and each of the other cards.
THEOREM SuccessIsCompleteHolds ==
    ASSUME NoStandardSd
    PROVE  BlockSpec => []SuccessIsComplete
<1>1. IInv => SuccessIsComplete
  BY DEF NoStandardSd, IInv, AsAsked, ReadAsMeant, BlockTypeOK, Request
<1> QED
  BY <1>1, Invariance, PTL

\* No byte outside the caller's buffer or the requested blocks is touched.
THEOREM OnlyRequestedHolds ==
    ASSUME NoStandardSd
    PROVE  BlockSpec => []OnlyRequested
<1>1. IInv => OnlyRequested
  BY DEF NoStandardSd, IInv, AsAsked, ReadAsMeant, BlockTypeOK, Request
<1> QED
  BY <1>1, Invariance, PTL

\* No byte beyond the last block of the card is touched, of whatever type it
\* is: the range checks of MMCHSReadBlocks are enough, though their sum may
\* wrap, and a block number taken for a byte address is no larger.
THEOREM InsideCardHolds == BlockSpec => []InsideCard
  BY Invariance, PTL DEF IInv

\* Every address, length and count handed to the controller fits its register
\* and lies on the card.
THEOREM CommandsInRangeHolds == BlockSpec => []CommandsInRange
  BY BlockIoTypeOK, InsideCardHolds, PTL DEF CommandsInRange

-----------------------------------------------------------------------------
(* MmcInit: what card and controller are in, label by label. *)

Identifying == {"CMD0", "CMD1", "CMD8", "ACMD41", "identify", "hsInterface"}

Labels == Identifying \cup
    {"data", "width", "sdWidth", "hs200Width", "hs200Timing", "divideClock", "raiseCore",
     "tune", "slowDown", "hsAgain", "ddr", "hs400Timing", "divideClock400",
     "raiseCore400", "calibrate", "hs", "hsWidth", "rstN", "done"}

\* The card's data rate and timing with the controller's mode.
Modes(d, t, u, sel) == ddr = d /\ timing = t /\ uhs = u /\ selIn = sel

\* The three parts of the clock.
Clock(s, c, half) == supply = s /\ core = c /\ mclk2 = half

\* The lines of card and controller.
Lines(w, h) == width = w /\ hostWidth = h

\* An MMC that was selected.
Selected == card.type = "mmc" /\ state = "tran"

\* HS400 is only tried with eight lines.
ToHs400 == Selected /\ Path = "hs400" /\ bus_width = 8

\* Nothing was switched before the card is selected.
AtReset ==
    /\ Modes(FALSE, "legacy", "SDR12", FALSE) /\ Clock(0, 200, FALSE) /\ Lines(1, 1)
    /\ ~tuning_done

\* High speed with one line, while the card's registers are read.
AtHighSpeed ==
    /\ Modes(FALSE, "hs", "SDR25", FALSE) /\ Clock(50, 200, FALSE) /\ Lines(1, 1)
    /\ state = "tran" /\ ~tuning_done
    /\ card.type = "mmc" => hostTiming = "SDR25"

\* The controller has its width, the card not yet or just now.
AtHostWidth ==
    /\ Modes(FALSE, "hs", "SDR25", FALSE) /\ Clock(50, 200, FALSE)
    /\ hostWidth = bus_width
    /\ Selected /\ ~tuning_done /\ hostTiming = "SDR25"

ToHs200 == Path \in {"hs400", "hs200"} /\ (Path = "hs400" => bus_width = 8)

\* HS200, for itself or on the way to HS400.
AtHs200 ==
    /\ Modes(FALSE, "hs200", "SDR104", FALSE) /\ width = bus_width /\ hostWidth = bus_width
    /\ Selected /\ ~tuning_done

\* The tuning reads with the clock undivided, or divided from 400 MHz.
AtTune ==
    \/ ToHs400 /\ Clock(200, 400, TRUE) /\ hostTiming = "HS400"
    \/ Path = "hs200" /\ Clock(200, 200, FALSE) /\ hostTiming = "SDR25"

\* From HS200 back to high speed: first the clock, then the card.
AtSlowDown ==
    /\ Modes(FALSE, "hs200", "SDR104", FALSE) /\ Clock(200, 200, TRUE) /\ Lines(8, 8)
    /\ ToHs400 /\ tuning_done

AtHsAgain ==
    /\ Modes(FALSE, "hs200", "SDR12", FALSE) /\ Clock(25, 200, TRUE) /\ Lines(8, 8)
    /\ ToHs400 /\ tuning_done

\* Dual data rate, a mode of its own or the step before HS400.
AtDdr ==
    /\ Modes(FALSE, "hs", "SDR25", FALSE) /\ hostWidth = 8 /\ Selected
    /\ \/ ToHs400 /\ Clock(50, 200, TRUE) /\ tuning_done
       \/ Path = "ddr" /\ Clock(50, 200, FALSE) /\ ~tuning_done

AtHs400Timing ==
    /\ Modes(TRUE, "hs", "DDR50", FALSE) /\ Clock(50, 200, TRUE) /\ Lines(8, 8)
    /\ ToHs400 /\ tuning_done

\* HS400: the divider first, then the core; the mode is selected with the
\* divider.
AtHs400(sel, c) ==
    /\ Modes(TRUE, "hs400", "SDR104", sel) /\ Clock(200, c, TRUE) /\ Lines(8, 8)
    /\ ToHs400 /\ tuning_done

Rows ==
    /\ pc \in Identifying => AtReset
    /\ pc = "hsInterface" => state = "tran"
    /\ pc \in {"data", "width", "sdWidth"} => AtHighSpeed
    /\ pc = "width" => card.type = "mmc"
    /\ pc \in {"hs200Width", "hs200Timing"} => AtHostWidth /\ ToHs200
    /\ pc = "hs200Timing" => width = bus_width
    /\ pc \in {"hs", "hsWidth"} => AtHostWidth
    /\ pc \in {"divideClock", "raiseCore", "tune"} => AtHs200
    /\ pc = "divideClock" => ToHs400 /\ Clock(200, 200, FALSE)
    /\ pc = "raiseCore" => ToHs400 /\ Clock(200, 200, TRUE) /\ hostTiming = "HS400"
    /\ pc = "tune" => AtTune
    /\ pc = "slowDown" => AtSlowDown
    /\ pc = "hsAgain" => AtHsAgain
    /\ pc = "ddr" => AtDdr
    /\ pc = "hs400Timing" => AtHs400Timing
    /\ pc = "divideClock400" => AtHs400(FALSE, 200)
    /\ pc = "raiseCore400" => AtHs400(TRUE, 200)
    /\ pc = "calibrate" => AtHs400(TRUE, 400)

\* What every step leaves in place, one that fails included: the clock fits
\* the card's timing.
ClockFits ==
    /\ timing = "legacy" => supply = 0
    /\ timing = "hs" => supply \in {0, 25, 50} /\ core = 200
    /\ core = 400 => mclk2

\* What the calls end in.
Arrived == pc = "rstN" \/ result = "device" => state = "tran" /\ Agreed

\* What no step changes: the inputs.  DDR is only used with eight lines.
Inputs ==
    /\ cfg \in Config /\ card \in Card
    /\ cfg.ddr => cfg.width = 8 /\ cfg.bus8

\* The parts of the type invariant.
Registers ==
    /\ state \in {"idle", "ready", "ident", "stby", "tran"}
    /\ {width, hostWidth, bus_width} \subseteq {1, 4, 8}
    /\ ddr \in BOOLEAN /\ selIn \in BOOLEAN /\ mclk2 \in BOOLEAN
    /\ timing \in {"legacy", "hs", "hs200", "hs400"}
    /\ uhs \in {"SDR12", "SDR25", "DDR50", "SDR104"}
    /\ supply \in {0, 25, 50, 200} /\ core \in {200, 400}
    /\ hostTiming \in {"SDR12", "SDR25", "DDR50", "HS200", "HS400"}

Retries ==
    /\ retry \in Nat /\ (pc = "CMD0" => retry = 0)
    /\ pc = "CMD1" => retry < MMC_MAX_COMMAND_RETRY
    /\ pc = "CMD8" => retry < SD_CMD8_MAX_RETRY
    /\ pc = "ACMD41" => retry < SD_ACMD41_MAX_RETRY

Inv ==
    /\ TypeOK /\ Inputs
    /\ pc \in Labels /\ Retries
    /\ result = "device" => pc = "done"
    /\ Rows /\ ClockFits /\ Arrived

-----------------------------------------------------------------------------
(* What the invariant says of the properties *)

\* The clock at the card, for the values its three parts take.
LEMMA ClockValues ==
    ASSUME TypeOK, ClockFits
    PROVE  ClockWithinTiming
<1>1. (0 * 200) \div 200 = 0 /\ (25 * 200) \div 200 = 25 /\ (50 * 200) \div 200 = 50
  OBVIOUS
<1>2. (0 * 400) \div 200 = 0 /\ (25 * 400) \div 200 = 50 /\ (50 * 400) \div 200 = 100
  OBVIOUS
<1>3. DEFINE raw == IF supply = 200 THEN core ELSE (supply * core) \div 200
<1>4. supply \in {0, 25, 50, 200} /\ core \in {200, 400}
  BY DEF TypeOK
<1>5. raw \in {0, 25, 50, 100, 200, 400}
  BY <1>1, <1>2, <1>4
<1>6. raw = 400 => mclk2
  BY <1>1, <1>2, <1>4 DEF ClockFits
<1>7. timing = "legacy" => raw = 0
  BY <1>1, <1>2, <1>4 DEF ClockFits
<1>8. timing = "hs" => raw \in {0, 25, 50}
  BY <1>1, <1>2, <1>4 DEF ClockFits
<1>9. CardClock = raw \div (IF mclk2 THEN 2 ELSE 1)
  BY DEF CardClock
<1> HIDE DEF raw
<1>10. CardClock <= 200
  BY <1>5, <1>6, <1>9
<1>11. timing = "legacy" => CardClock <= 26
  BY <1>7, <1>9
<1>12. timing = "hs" => CardClock <= 52
  BY <1>8, <1>9
<1>13. CASE timing = "legacy"
  BY <1>11, <1>13 DEF ClockWithinTiming
<1>14. CASE timing = "hs"
  BY <1>12, <1>14 DEF ClockWithinTiming
<1>15. CASE timing # "legacy" /\ timing # "hs"
  BY <1>10, <1>15 DEF ClockWithinTiming
<1> QED BY <1>13, <1>14, <1>15

LEMMA HighSpeedAgrees ==
    ASSUME AtHighSpeed
    PROVE  state = "tran" /\ Agreed
  BY DEF AtHighSpeed, Modes, Lines, Agreed, HostMode, CardMode

LEMMA Hs200Agrees ==
    ASSUME AtHs200
    PROVE  state = "tran" /\ Agreed
  BY DEF AtHs200, Selected, Modes, Agreed, HostMode, CardMode

LEMMA InvImpliesModesAgree ==
    ASSUME Inv
    PROVE  ModesAgree
<1>1. ClockWithinTiming
  BY ClockValues DEF Inv
<1>2. ASSUME result = "device" \/ pc \in {"data", "tune"}
      PROVE  state = "tran" /\ Agreed
  <2>1. CASE result = "device"
    BY <2>1 DEF Inv, Arrived
  <2>2. CASE pc = "data"
    BY <2>2, HighSpeedAgrees DEF Inv, Rows
  <2>3. CASE pc = "tune"
    BY <2>3, Hs200Agrees DEF Inv, Rows
  <2> QED BY <1>2, <2>1, <2>2, <2>3
<1> QED BY <1>1, <1>2 DEF ModesAgree, DeviceAgrees, Inv

-----------------------------------------------------------------------------
(* How a step ends *)

LEMMA TypeOKParts ==
    /\ TypeOK => Registers
    /\ Registers /\ Retries /\ result \in {"none", "device", "NULL"} => TypeOK
  BY DEF TypeOK, Registers, Retries

\* The inputs and what is made of them stay.
LEMMA InputsKept ==
    ASSUME Inputs, UNCHANGED <<cfg, card>>
    PROVE  Inputs' /\ Path' = Path
  BY DEF Inputs, Path

\* Leaving with NULL, only the registers and the clock matter.
LEMMA FailedKeeps ==
    ASSUME Inv, Fail, UNCHANGED <<cfg, card>>, retry' = retry, Registers', ClockFits'
    PROVE  Inv'
<1>1. pc' = "done" /\ result' = "NULL"
  BY DEF Fail
<1>2. Retries'
  BY <1>1 DEF Retries, Inv
<1>7. TypeOK'
  <2>1. (Registers /\ Retries /\ result \in {"none", "device", "NULL"} => TypeOK)'
    BY TypeOKParts, PTL
  <2> QED BY <1>1, <1>2, <2>1
<1>3. Inputs'
  BY InputsKept DEF Inv
<1>4. Rows'
  BY <1>1 DEF Rows, Identifying
<1>5. Arrived'
  BY <1>1 DEF Arrived
<1>6. pc' \in Labels
  BY <1>1 DEF Labels
<1> QED BY <1>1, <1>2, <1>3, <1>4, <1>5, <1>6, <1>7 DEF Inv

\* Going on, the row of the next label is to be shown.
LEMMA GoneOnKeeps ==
    ASSUME Inv, pc # "done", NEW label \in Labels \ {"done"}, Goto(label),
           UNCHANGED <<cfg, card>>, Retries', Registers', ClockFits', Rows', Arrived'
    PROVE  Inv'
<1>1. pc' = label /\ result' = result /\ result # "device"
  BY DEF Goto, Inv
<1>2. TypeOK'
  <2>1. (Registers /\ Retries /\ result \in {"none", "device", "NULL"} => TypeOK)'
    BY TypeOKParts, PTL
  <2>2. result' \in {"none", "device", "NULL"}
    BY <1>1 DEF Inv, TypeOK
  <2> QED BY <2>1, <2>2
<1>3. Inputs'
  BY InputsKept DEF Inv
<1>4. pc' \in Labels /\ result' # "device"
  BY <1>1
<1> QED BY <1>2, <1>3, <1>4 DEF Inv

\* Between the identification and the end no loop counts.
LEMMA NextLabelKeeps ==
    ASSUME Inv, pc # "done",
           NEW label \in Labels \ {"done", "rstN", "CMD0", "CMD1", "CMD8", "ACMD41"}, Goto(label),
           UNCHANGED <<cfg, card>>, retry' = retry, Registers', ClockFits', Rows'
    PROVE  Inv'
<1>1. pc' = label /\ result' = result /\ result # "device"
  BY DEF Goto, Inv
<1>2. Retries'
  BY <1>1 DEF Retries, Inv
<1>3. Arrived'
  BY <1>1 DEF Arrived
<1> QED BY <1>2, <1>3, GoneOnKeeps

\* At the last label the modes have to agree.
LEMMA LastLabelKeeps ==
    ASSUME Inv, pc # "done", Goto("rstN"),
           UNCHANGED <<cfg, card>>, retry' = retry, Registers', ClockFits',
           state' = "tran" /\ Agreed'
    PROVE  Inv'
<1>1. pc' = "rstN" /\ result' = result
  BY DEF Goto
<1>2. Retries'
  BY <1>1 DEF Retries, Inv
<1>3. Arrived'
  BY DEF Arrived
<1>4. Rows'
  BY <1>1 DEF Rows, Identifying
<1>5. "rstN" \in Labels \ {"done"}
  BY DEF Labels
<1> QED BY <1>2, <1>3, <1>4, <1>5, GoneOnKeeps

-----------------------------------------------------------------------------
(* Identification *)

LEMMA ResetRow ==
    ASSUME Inv, pc \in Identifying
    PROVE  AtReset /\ Registers /\ ClockFits /\ pc # "done"
<1>1. Registers
  BY TypeOKParts DEF Inv
<1> QED BY <1>1 DEF Inv, Rows, Identifying

\* A step that leaves the registers alone stays in the first row.
LEMMA IdentifyingKeeps ==
    ASSUME Inv, pc \in Identifying, NEW label \in Identifying, Goto(label),
           UNCHANGED <<cfg, card, bus_width, width, ddr, timing, modeRegs, clocks, saved>>,
           state' \in {"idle", "ready", "ident", "stby", "tran"}, Retries',
           label = "hsInterface" => state' = "tran"
    PROVE  Inv'
<1>1. AtReset /\ Registers /\ ClockFits /\ pc # "done"
  BY ResetRow
<1>2. Registers' /\ ClockFits'
  BY <1>1 DEF Registers, ClockFits, modeRegs, clocks, saved
<1>3. AtReset'
  BY <1>1 DEF AtReset, Modes, Clock, Lines, modeRegs, clocks, saved
<1>4. Rows'
  BY <1>3 DEF Rows, Goto, Identifying
<1>5. Arrived'
  BY DEF Arrived, Goto, Identifying, Inv
<1>6. label \in Labels \ {"done"}
  BY DEF Labels, Identifying
<1> QED BY <1>1, <1>2, <1>4, <1>5, <1>6, GoneOnKeeps

\* A failure there changes no register.
LEMMA IdentifyingFails ==
    ASSUME Inv, pc \in Identifying, Fail, retry' = retry,
           UNCHANGED <<cfg, card, bus_width, width, ddr, timing, modeRegs, clocks, saved>>,
           state' \in {"idle", "ready", "ident", "stby", "tran"}
    PROVE  Inv'
<1>1. Registers' /\ ClockFits'
  BY ResetRow DEF Registers, ClockFits, modeRegs, clocks, saved
<1> QED BY <1>1, FailedKeeps

LEMMA RetryLimits ==
    /\ MMC_MAX_COMMAND_RETRY \in Nat \ {0}
    /\ SD_CMD8_MAX_RETRY \in Nat \ {0}
    /\ SD_ACMD41_MAX_RETRY \in Nat \ {0}
  BY RetriesAssumption

LEMMA ResetCardKeeps == Inv /\ ResetCard => Inv'
<1> SUFFICES ASSUME Inv, ResetCard
             PROVE  Inv'
  OBVIOUS
<1>1. pc \in Identifying
  BY DEF ResetCard, Identifying
<1>2. PICK label \in {"CMD1", "CMD8"} : Goto(label)
  BY DEF ResetCard
<1>3. UNCHANGED <<cfg, card, bus_width, width, ddr, timing, modeRegs, clocks, saved>>
  BY DEF ResetCard, cardSide
<1>4. state' \in {"idle", "ready", "ident", "stby", "tran"}
  BY DEF ResetCard, cardSide, Inv, TypeOK
<1>5. retry' = 0
  BY DEF ResetCard, Inv, Retries
<1>6. Retries'
  BY <1>2, <1>5, RetryLimits DEF Retries, Goto
<1>7. label \in Identifying /\ label # "hsInterface"
  BY <1>2 DEF Identifying
<1> QED BY <1>1, <1>2, <1>3, <1>4, <1>6, <1>7, IdentifyingKeeps

LEMMA SendOpCondKeeps == Inv /\ SendOpCond => Inv'
<1> SUFFICES ASSUME Inv, SendOpCond
             PROVE  Inv'
  OBVIOUS
<1>1. pc \in Identifying
  BY DEF SendOpCond, Identifying
<1>2. UNCHANGED <<cfg, card, bus_width, width, ddr, timing, modeRegs, clocks, saved>>
  BY DEF SendOpCond
<1>3. state' \in {"idle", "ready", "ident", "stby", "tran"}
  BY DEF SendOpCond, Inv, TypeOK
<1>4. PICK label \in {"identify", "CMD1", "CMD8"} :
         Goto(label) /\ retry' \in Nat
         /\ (label = "CMD1" => retry' < MMC_MAX_COMMAND_RETRY)
         /\ (label = "CMD8" => retry' = 0)
  BY RetryLimits DEF SendOpCond, Inv, Retries
<1>5. Retries'
  BY <1>4, RetryLimits DEF Retries, Goto
<1>6. label \in Identifying /\ label # "hsInterface"
  BY <1>4 DEF Identifying
<1> QED BY <1>1, <1>2, <1>3, <1>4, <1>5, <1>6, IdentifyingKeeps

LEMMA SdCardInitKeeps == Inv /\ SdCardInit => Inv'
<1> SUFFICES ASSUME Inv, SdCardInit
             PROVE  Inv'
  OBVIOUS
<1>1. pc \in Identifying
  BY DEF SdCardInit, Identifying
<1>2. UNCHANGED <<cfg, card, bus_width, width, ddr, timing, modeRegs, clocks, saved>>
  BY DEF SdCardInit
<1>3. state' \in {"idle", "ready", "ident", "stby", "tran"}
  BY DEF SdCardInit, Inv, TypeOK
<1>4. CASE Fail /\ retry' = retry
  BY <1>1, <1>2, <1>3, <1>4, IdentifyingFails
<1>5. CASE \E label \in {"identify", "CMD8", "ACMD41"} :
             /\ Goto(label) /\ retry' \in Nat
             /\ label = "CMD8" => retry' < SD_CMD8_MAX_RETRY
             /\ label = "ACMD41" => retry' < SD_ACMD41_MAX_RETRY
  <2>1. PICK label \in {"identify", "CMD8", "ACMD41"} :
             /\ Goto(label) /\ retry' \in Nat
             /\ label = "CMD8" => retry' < SD_CMD8_MAX_RETRY
             /\ label = "ACMD41" => retry' < SD_ACMD41_MAX_RETRY
    BY <1>5
  <2>2. Retries'
    BY <2>1 DEF Retries, Goto
  <2>3. label \in Identifying /\ label # "hsInterface"
    BY <2>1 DEF Identifying
  <2> QED BY <1>1, <1>2, <1>3, <2>1, <2>2, <2>3, IdentifyingKeeps
<1> QED BY <1>4, <1>5, RetryLimits DEF SdCardInit, Inv, Retries

LEMMA IdentifyKeeps == Inv /\ Identify => Inv'
<1> SUFFICES ASSUME Inv, Identify
             PROVE  Inv'
  OBVIOUS
<1>1. pc \in Identifying /\ retry' = retry
  BY DEF Identify, Identifying
<1>2. UNCHANGED <<cfg, card, bus_width, width, ddr, timing, modeRegs, clocks, saved>>
  BY DEF Identify
<1>3. state' \in {"idle", "ready", "ident", "stby", "tran"}
  BY DEF Identify, Inv, TypeOK
<1>4. CASE Fail
  BY <1>1, <1>2, <1>3, <1>4, IdentifyingFails
<1>5. CASE \E label \in {"identify", "hsInterface"} :
             Goto(label) /\ (label = "hsInterface" => state' = "tran")
  <2>1. PICK label \in {"identify", "hsInterface"} :
             Goto(label) /\ (label = "hsInterface" => state' = "tran")
    BY <1>5
  <2>2. Retries'
    BY <1>1, <2>1 DEF Retries, Goto, Inv
  <2>3. label \in Identifying
    BY <2>1 DEF Identifying
  <2> QED BY <1>1, <1>2, <1>3, <2>1, <2>2, <2>3, IdentifyingKeeps
<1> QED BY <1>4, <1>5 DEF Identify

-----------------------------------------------------------------------------
(* Speed and width: a step starts in the row of its label, fails with the    *)
(* card switched or not, or reaches the next row.                            *)

\* The parts of the invariant a step starts from.
LEMMA Before ==
    ASSUME Inv
    PROVE  Registers /\ Rows /\ ClockFits /\ Inputs
  BY TypeOKParts DEF Inv

\* What the controller does for a mode.
LEMMA UhsModes ==
    /\ sdhci_set_uhs_mode("SDR12") => uhs' = "SDR12" /\ supply' = 25
    /\ sdhci_set_uhs_mode("SDR25") => uhs' = "SDR25" /\ supply' = 50
    /\ sdhci_set_uhs_mode("DDR50") => uhs' = "DDR50" /\ supply' = 50
    /\ sdhci_set_uhs_mode("SDR104") => uhs' = "SDR104" /\ supply' = 200
<1>1. sdhci_set_uhs_mode("SDR12") => uhs' = "SDR12" /\ supply' = 25
  BY "SDR12" # "SDR104" DEF sdhci_set_uhs_mode
<1>2. sdhci_set_uhs_mode("SDR25") => uhs' = "SDR25" /\ supply' = 50
  BY "SDR25" # "SDR104", "SDR25" # "SDR12" DEF sdhci_set_uhs_mode
<1>3. sdhci_set_uhs_mode("DDR50") => uhs' = "DDR50" /\ supply' = 50
  BY "DDR50" # "SDR104", "DDR50" # "SDR12" DEF sdhci_set_uhs_mode
<1>4. sdhci_set_uhs_mode("SDR104") => uhs' = "SDR104" /\ supply' = 200
  BY "SDR104" # "SDR12" DEF sdhci_set_uhs_mode
<1> QED BY <1>1, <1>2, <1>3, <1>4

\* A switch that fails where the clock fits the old and the new timing.
LEMMA SwitchFails ==
    ASSUME Inv, Fail, UNCHANGED <<retry, cfg, card, bus_width, state, modeRegs, clocks, saved>>,
           width' \in {width, 8, bus_width}, ddr' \in BOOLEAN,
           timing' \in {timing, "hs", "hs200", "hs400"},
           timing' # timing => (timing' = "hs" => supply \in {0, 25, 50} /\ core = 200)
    PROVE  Inv'
<1>1. Registers'
  BY Before DEF Registers, modeRegs, clocks, saved
<1>2. ClockFits'
  BY Before DEF ClockFits, Registers, clocks
<1> QED BY <1>1, <1>2, FailedKeeps

LEMMA HsInterfaceKeeps == Inv /\ HsInterface => Inv'
<1> SUFFICES ASSUME Inv, HsInterface
             PROVE  Inv'
  OBVIOUS
<1>1. pc = "hsInterface" /\ UNCHANGED <<retry, cfg, card, bus_width, state>> /\ pc # "done"
  BY DEF HsInterface, SetHsInterface
<1>2. AtReset /\ state = "tran"
  BY <1>1 DEF Inv, Rows, Identifying
<1>3. CASE Goto("data") /\ width' = width /\ ddr' = ddr /\ timing' = "hs"
           /\ sdhci_set_uhs_mode("SDR25") /\ hostTiming' = "SDR25"
           /\ UNCHANGED <<hostWidth, selIn, core, mclk2, tuning_done>>
  <2>1. uhs' = "SDR25" /\ supply' = 50
    BY <1>3, UhsModes
  <2>2. AtHighSpeed'
    BY <1>1, <1>2, <1>3, <2>1 DEF AtReset, AtHighSpeed, Modes, Clock, Lines
  <2>3. Rows'
    BY <1>3, <2>2 DEF Rows, Goto, Identifying
  <2>4. Registers' /\ ClockFits'
    BY <1>1, <1>2, <1>3, <2>1, Before DEF Registers, ClockFits, AtReset, Clock
  <2>5. "data" \in Labels \ {"done", "rstN", "CMD0", "CMD1", "CMD8", "ACMD41"}
    BY DEF Labels
  <2> QED BY <1>1, <1>3, <2>3, <2>4, <2>5, NextLabelKeeps
<1>4. CASE Fail /\ UNCHANGED <<modeRegs, clocks, saved>>
           /\ (timing' = "hs" \/ UNCHANGED timing) /\ width' = width /\ ddr' = ddr
  <2>1. supply = 0 /\ core = 200 /\ ddr = FALSE
    BY <1>2 DEF AtReset, Clock, Modes
  <2> QED BY <1>1, <1>4, <2>1, SwitchFails
<1> QED BY <1>3, <1>4 DEF HsInterface, SetHsInterface, Switch

LEMMA SdSetHsKeeps == Inv /\ SdSetHs => Inv'
<1> SUFFICES ASSUME Inv, SdSetHs
             PROVE  Inv'
  OBVIOUS
<1>1. /\ pc = "hsInterface" /\ pc # "done" /\ card.type = "sd"
      /\ UNCHANGED <<retry, cfg, card, bus_width, state, width, ddr, hostWidth, selIn,
                     core, mclk2, saved>>
  BY DEF SdSetHs
<1>2. AtReset /\ state = "tran"
  BY <1>1 DEF Inv, Rows, Identifying
<1>3. CASE timing' = "hs" /\ Goto("data") /\ sdhci_set_uhs_mode("SDR25")
  <2>1. uhs' = "SDR25" /\ supply' = 50
    BY <1>3, UhsModes
  <2>2. AtHighSpeed'
    BY <1>1, <1>2, <1>3, <2>1 DEF AtReset, AtHighSpeed, Modes, Clock, Lines, saved
  <2>3. Rows'
    BY <1>3, <2>2 DEF Rows, Goto, Identifying
  <2>4. Registers' /\ ClockFits'
    BY <1>1, <1>2, <1>3, <2>1, Before DEF Registers, ClockFits, AtReset, Clock, saved
  <2>5. "data" \in Labels \ {"done", "rstN", "CMD0", "CMD1", "CMD8", "ACMD41"}
    BY DEF Labels
  <2> QED BY <1>1, <1>3, <2>3, <2>4, <2>5, NextLabelKeeps
<1>4. CASE Fail /\ timing' \in {timing, "hs"} /\ UNCHANGED <<uhs, supply>>
  <2>1. supply = 0 /\ core = 200 /\ ddr = FALSE
    BY <1>2 DEF AtReset, Clock, Modes
  <2>2. UNCHANGED <<modeRegs, clocks>>
    BY <1>1, <1>4 DEF modeRegs, clocks
  <2> QED BY <1>1, <1>4, <2>1, <2>2, SwitchFails
<1> QED BY <1>3, <1>4 DEF SdSetHs

LEMMA ReadRegistersKeeps == Inv /\ ReadRegisters => Inv'
<1> SUFFICES ASSUME Inv, ReadRegisters
             PROVE  Inv'
  OBVIOUS
<1>1. /\ pc = "data" /\ pc # "done"
      /\ UNCHANGED <<retry, cfg, card, bus_width, cardSide, modeRegs, clocks, saved>>
  BY DEF ReadRegisters
<1>2. AtHighSpeed
  BY <1>1 DEF Inv, Rows
<1>3. Registers' /\ ClockFits'
  BY <1>1, Before DEF Registers, ClockFits, cardSide, modeRegs, clocks, saved
<1>4. CASE Fail
  BY <1>1, <1>3, <1>4, FailedKeeps
<1>5. CASE Goto(IF card.type = "mmc" THEN "width" ELSE "sdWidth")
  <2>1. PICK label \in {"width", "sdWidth"} : Goto(label) /\ (label = "width" => card.type = "mmc")
    BY <1>5
  <2>2. AtHighSpeed'
    BY <1>1, <1>2 DEF AtHighSpeed, Modes, Clock, Lines, cardSide, modeRegs, clocks, saved
  <2>3. Rows'
    BY <1>1, <2>1, <2>2 DEF Rows, Goto, Identifying
  <2>4. label \in Labels \ {"done", "rstN", "CMD0", "CMD1", "CMD8", "ACMD41"}
    BY <2>1 DEF Labels
  <2> QED BY <1>1, <1>3, <2>1, <2>3, <2>4, NextLabelKeeps
<1> QED BY <1>4, <1>5 DEF ReadRegisters

\* The first label of the path, with what HS400 and DDR need.
LEMMA PathStart ==
    ASSUME Inv, SetHostWidth, Goto("hs200Width") \/ Goto("ddr") \/ Goto("hs")
    PROVE  /\ Goto("hs200Width") => Path \in {"hs400", "hs200"} /\ (Path = "hs400" => bus_width' = 8)
           /\ Goto("ddr") => Path = "ddr" /\ bus_width' = 8
<1>1. Path \in {"hs400", "hs200", "ddr", "hs"}
  BY DEF Path
<1>2. Path = "ddr" => bus_width' = 8
  <2>1. Path = "ddr" => cfg.ddr
    BY DEF Path
  <2> QED BY <2>1 DEF SetHostWidth, Inv, Inputs
<1>3. CASE Path = "hs400"
  <2>1. bus_width' # 8 => Fail
    BY <1>3 DEF SetHostWidth
  <2>2. ~Fail
    BY DEF Fail, Goto
  <2>3. bus_width' = 8
    BY <2>1, <2>2
  <2>4. Goto("hs200Width")
    BY <1>3, <2>3 DEF SetHostWidth
  <2> QED BY <1>3, <2>3, <2>4 DEF Goto
<1>4. CASE Path = "hs200"
  <2>1. Goto("hs200Width")
    BY <1>4 DEF SetHostWidth
  <2> QED BY <1>4, <2>1 DEF Goto
<1>5. CASE Path = "ddr"
  <2>1. Goto("ddr")
    BY <1>5 DEF SetHostWidth
  <2> QED BY <1>2, <1>5, <2>1 DEF Goto
<1>6. CASE Path = "hs"
  <2>1. Goto("hs")
    BY <1>6 DEF SetHostWidth
  <2> QED BY <2>1 DEF Goto
<1> QED BY <1>1, <1>3, <1>4, <1>5, <1>6

LEMMA SetHostWidthKeeps == Inv /\ SetHostWidth => Inv'
<1> SUFFICES ASSUME Inv, SetHostWidth
             PROVE  Inv'
  OBVIOUS
<1>1. /\ pc = "width" /\ pc # "done" /\ hostWidth' = bus_width' /\ bus_width' \in {1, 4, 8}
      /\ UNCHANGED <<retry, cfg, card, cardSide, uhs, selIn, clocks, saved>>
  BY DEF SetHostWidth
<1>2. AtHighSpeed /\ card.type = "mmc"
  BY <1>1 DEF Inv, Rows
<1>3. Registers' /\ ClockFits'
  BY <1>1, Before DEF Registers, ClockFits, cardSide, clocks, saved
<1>4. CASE Fail
  BY <1>1, <1>3, <1>4, FailedKeeps
<1>5. CASE Goto("hs200Width") \/ Goto("ddr") \/ Goto("hs")
  <2>1. PICK label \in {"hs200Width", "ddr", "hs"} : Goto(label)
    BY <1>5
  <2>2. AtHostWidth' /\ supply' = 50 /\ core' = 200 /\ mclk2' = FALSE
    BY <1>1, <1>2
    DEF AtHighSpeed, AtHostWidth, Selected, Modes, Clock, Lines, cardSide, clocks, saved
  <2>3. Path' = Path
    BY <1>1, Before, InputsKept
  <2>4. pc' = label
    BY <2>1 DEF Goto
  <2>5. CASE label = "hs200Width"
    <3>1. ToHs200'
      BY <1>5, <2>1, <2>3, <2>5, PathStart DEF ToHs200
    <3>2. Rows'
      BY <2>2, <2>4, <2>5, <3>1 DEF Rows, Identifying
    <3> QED BY <1>1, <1>3, <2>1, <2>5, <3>2, NextLabelKeeps DEF Labels
  <2>6. CASE label = "ddr"
    <3>1. Path' = "ddr" /\ hostWidth' = 8
      BY <1>1, <1>5, <2>1, <2>3, <2>6, PathStart
    <3>2. AtDdr'
      BY <2>2, <3>1 DEF AtHostWidth, AtDdr, Modes, Clock
    <3>3. Rows'
      BY <2>4, <2>6, <3>2 DEF Rows, Identifying
    <3> QED BY <1>1, <1>3, <2>1, <2>6, <3>3, NextLabelKeeps DEF Labels
  <2>7. CASE label = "hs"
    <3>1. Rows'
      BY <2>2, <2>4, <2>7 DEF Rows, Identifying
    <3> QED BY <1>1, <1>3, <2>1, <2>7, <3>1, NextLabelKeeps DEF Labels
  <2> QED BY <2>1, <2>5, <2>6, <2>7
<1>6. Path \in {"hs400", "hs200", "ddr", "hs"}
  BY DEF Path
<1> QED BY <1>4, <1>5, <1>6 DEF SetHostWidth

LEMMA Hs200WidthKeeps == Inv /\ Hs200Width => Inv'
<1> SUFFICES ASSUME Inv, Hs200Width
             PROVE  Inv'
  OBVIOUS
<1>1. pc = "hs200Width" /\ pc # "done" /\ UNCHANGED <<retry, cfg, card, bus_width, state>>
  BY DEF Hs200Width, SwitchOnly
<1>2. AtHostWidth /\ ToHs200
  BY <1>1 DEF Inv, Rows
<1>3. UNCHANGED <<modeRegs, clocks, saved>> /\ timing' = timing
  BY DEF Hs200Width, SwitchOnly, Switch
<1>4. CASE Goto("hs200Timing") /\ width' = bus_width /\ ddr' = FALSE
  <2>1. AtHostWidth' /\ width' = bus_width'
    BY <1>1, <1>2, <1>3, <1>4
    DEF AtHostWidth, Selected, Modes, Clock, modeRegs, clocks, saved
  <2>2. ToHs200'
    BY <1>1, <1>2, Before, InputsKept DEF ToHs200
  <2>3. Rows'
    BY <1>4, <2>1, <2>2 DEF Rows, Goto, Identifying
  <2>5. ddr' \in BOOLEAN /\ UNCHANGED <<hostWidth, uhs, selIn, supply, core, mclk2, hostTiming>>
    BY <1>3, <1>4 DEF modeRegs, clocks, saved
  <2>4. Registers' /\ ClockFits'
    BY <1>1, <1>3, <1>4, <2>5, Before DEF Registers, ClockFits
  <2> QED BY <1>1, <1>4, <2>3, <2>4, NextLabelKeeps DEF Labels
<1>5. CASE Fail /\ ((width' = bus_width /\ ddr' = FALSE) \/ UNCHANGED <<width, ddr>>)
  <2>1. ddr' \in BOOLEAN
    BY <1>5, Before DEF Registers
  <2> QED BY <1>1, <1>3, <1>5, <2>1, SwitchFails
<1> QED BY <1>4, <1>5 DEF Hs200Width, SwitchOnly, Switch

LEMMA Hs200TimingKeeps == Inv /\ Hs200Timing => Inv'
<1> SUFFICES ASSUME Inv, Hs200Timing
             PROVE  Inv'
  OBVIOUS
<1>1. pc = "hs200Timing" /\ pc # "done" /\ UNCHANGED <<retry, cfg, card, bus_width, state>>
  BY DEF Hs200Timing
<1>2. AtHostWidth /\ ToHs200 /\ width = bus_width
  BY <1>1 DEF Inv, Rows
<1>3. CASE /\ Goto(IF Path = "hs400" THEN "divideClock" ELSE "tune")
           /\ width' = width /\ ddr' = ddr /\ timing' = "hs200"
           /\ sdhci_set_uhs_mode("SDR104")
           /\ UNCHANGED <<hostWidth, selIn, core, mclk2, saved>>
  <2>1. uhs' = "SDR104" /\ supply' = 200
    BY <1>3, UhsModes
  <2>2. AtHs200' /\ Clock(200, 200, FALSE)' /\ hostTiming' = "SDR25" /\ Selected'
    BY <1>1, <1>2, <1>3, <2>1 DEF AtHostWidth, AtHs200, Selected, Modes, Clock, saved
  <2>3. Path' = Path
    BY <1>1, Before, InputsKept
  <2>4. Registers' /\ ClockFits'
    BY <1>1, <1>3, <2>1, Before DEF Registers, ClockFits, saved
  <2>5. CASE Path = "hs400"
    <3>1. Goto("divideClock")
      BY <1>3, <2>5
    <3>2. ToHs400'
      BY <1>1, <1>2, <2>2, <2>3, <2>5 DEF ToHs400, ToHs200
    <3>3. Rows'
      BY <2>2, <3>1, <3>2 DEF Rows, Goto, Identifying
    <3> QED BY <1>1, <2>4, <3>1, <3>3, NextLabelKeeps DEF Labels
  <2>6. CASE Path # "hs400"
    <3>1. Goto("tune")
      BY <1>3, <2>6
    <3>2. AtTune'
      BY <1>2, <2>2, <2>3, <2>6 DEF AtTune, ToHs200
    <3>3. Rows'
      BY <2>2, <3>1, <3>2 DEF Rows, Goto, Identifying
    <3> QED BY <1>1, <2>4, <3>1, <3>3, NextLabelKeeps DEF Labels
  <2> QED BY <2>5, <2>6
<1>4. CASE Fail /\ UNCHANGED <<modeRegs, clocks, saved, width, ddr>> /\ timing' \in {timing, "hs200"}
  BY <1>1, <1>4, Before, SwitchFails DEF Registers
<1> QED BY <1>3, <1>4 DEF Hs200Timing, Switch

LEMMA DivideClockKeeps == Inv /\ DivideClock => Inv'
<1> SUFFICES ASSUME Inv, DivideClock
             PROVE  Inv'
  OBVIOUS
<1>1. /\ pc \in {"divideClock", "divideClock400"} /\ pc # "done"
      /\ UNCHANGED <<retry, cfg, card, bus_width, cardSide, hostWidth, uhs, supply, core, tuning_done>>
      /\ hostTiming' = "HS400"
  BY DEF DivideClock
<1>2. mclk2' = TRUE
  BY DEF DivideClock, sdhci_msm_set_mci_clk
<1>3. selIn' = (selIn \/ tuning_done)
  BY DEF DivideClock, sdhci_msm_set_mci_clk
<1>4. ToHs400
  BY <1>1 DEF Inv, Rows, AtHs400
<1>5. ToHs400'
  BY <1>1, <1>4, Before, InputsKept DEF ToHs400, Selected, cardSide
<1>6. ClockFits'
  BY <1>1, <1>2, Before DEF ClockFits, cardSide
<1>7. CASE pc = "divideClock"
  <2>1. AtHs200 /\ Clock(200, 200, FALSE)
    BY <1>7 DEF Inv, Rows
  <2>2. selIn = FALSE /\ ~tuning_done
    BY <2>1 DEF AtHs200, Modes
  <2>3. selIn' = FALSE
    BY <1>3, <2>2
  <2>4. AtHs200' /\ Clock(200, 200, TRUE)'
    BY <1>1, <1>2, <2>1, <2>3 DEF AtHs200, Selected, Modes, Clock, cardSide
  <2>5. Goto("raiseCore")
    BY <1>7 DEF DivideClock
  <2>6. Rows'
    BY <1>1, <1>5, <2>4, <2>5 DEF Rows, Goto, Identifying
  <2>7. Registers'
    <3>1. selIn' \in BOOLEAN /\ mclk2' \in BOOLEAN
      BY <1>2, <2>3
    <3> QED BY <1>1, <3>1, Before DEF Registers, cardSide
  <2> QED BY <1>1, <1>6, <2>5, <2>6, <2>7, NextLabelKeeps DEF Labels
<1>8. CASE pc = "divideClock400"
  <2>1. AtHs400(FALSE, 200)
    BY <1>8 DEF Inv, Rows
  <2>2. tuning_done
    BY <2>1 DEF AtHs400
  <2>3. selIn' = TRUE
    BY <1>3, <2>2
  <2>4. AtHs400(TRUE, 200)'
    BY <1>1, <1>2, <1>5, <2>1, <2>3 DEF AtHs400, Modes, Clock, Lines, cardSide
  <2>5. Goto("raiseCore400")
    BY <1>8 DEF DivideClock
  <2>6. Rows'
    BY <2>4, <2>5 DEF Rows, Goto, Identifying
  <2>7. Registers'
    <3>1. selIn' \in BOOLEAN /\ mclk2' \in BOOLEAN
      BY <1>2, <2>3
    <3> QED BY <1>1, <3>1, Before DEF Registers, cardSide
  <2> QED BY <1>1, <1>6, <2>5, <2>6, <2>7, NextLabelKeeps DEF Labels
<1> QED BY <1>1, <1>7, <1>8

LEMMA RaiseCoreKeeps == Inv /\ RaiseCore => Inv'
<1> SUFFICES ASSUME Inv, RaiseCore
             PROVE  Inv'
  OBVIOUS
<1>1. /\ pc \in {"raiseCore", "raiseCore400"} /\ pc # "done" /\ core' = 400
      /\ UNCHANGED <<retry, cfg, card, bus_width, cardSide, modeRegs, supply, mclk2, saved>>
  BY DEF RaiseCore
<1>2. ToHs400
  BY <1>1 DEF Inv, Rows, AtHs400
<1>3. ToHs400'
  BY <1>1, <1>2, Before, InputsKept DEF ToHs400, Selected, cardSide
<1>4. Registers'
  BY <1>1, Before DEF Registers, cardSide, modeRegs, saved
<1>5. CASE pc = "raiseCore"
  <2>1. AtHs200 /\ Clock(200, 200, TRUE) /\ hostTiming = "HS400"
    BY <1>5 DEF Inv, Rows
  <2>2. AtHs200' /\ Clock(200, 400, TRUE)' /\ hostTiming' = "HS400"
    BY <1>1, <2>1 DEF AtHs200, Selected, Modes, Clock, cardSide, modeRegs, saved
  <2>3. Goto("tune")
    BY <1>5 DEF RaiseCore
  <2>4. Rows'
    BY <1>3, <2>2, <2>3 DEF Rows, Goto, Identifying, AtTune
  <2>5. ClockFits'
    BY <2>2 DEF ClockFits, AtHs200, Modes, Clock
  <2> QED BY <1>1, <1>4, <2>3, <2>4, <2>5, NextLabelKeeps DEF Labels
<1>6. CASE pc = "raiseCore400"
  <2>1. AtHs400(TRUE, 200)
    BY <1>6 DEF Inv, Rows
  <2>2. AtHs400(TRUE, 400)'
    BY <1>1, <1>3, <2>1 DEF AtHs400, Modes, Clock, Lines, cardSide, modeRegs, saved
  <2>3. Goto("calibrate")
    BY <1>6 DEF RaiseCore
  <2>4. Rows'
    BY <2>2, <2>3 DEF Rows, Goto, Identifying
  <2>5. ClockFits'
    BY <2>2 DEF ClockFits, AtHs400, Modes, Clock
  <2> QED BY <1>1, <1>4, <2>3, <2>4, <2>5, NextLabelKeeps DEF Labels
<1> QED BY <1>1, <1>5, <1>6

\* The tuning ends with the core at 200 MHz; the divider stays as it is.
LEMMA TuneKeeps == Inv /\ Tune => Inv'
<1> SUFFICES ASSUME Inv, Tune
             PROVE  Inv'
  OBVIOUS
<1>1. /\ pc = "tune" /\ pc # "done" /\ tuning_done' = TRUE /\ hostTiming' = "HS200"
      /\ UNCHANGED <<retry, cfg, card, bus_width, cardSide, hostWidth, uhs, supply>>
  BY DEF Tune
<1>2. AtHs200 /\ AtTune
  BY <1>1 DEF Inv, Rows
<1>3. Path' = Path
  BY <1>1, Before, InputsKept
<1>4. AtHs200 /\ supply = 200 /\ selIn = FALSE
  BY <1>2 DEF AtHs200, AtTune, Clock, Modes
<1>5. CASE ToHs400 /\ Clock(200, 400, TRUE) /\ hostTiming = "HS400"
  <2>1. core' = 200 /\ sdhci_msm_set_mci_clk("HS200")
    BY <1>5 DEF Tune
  <2>2. mclk2' = TRUE
    BY <1>5, <2>1 DEF sdhci_msm_set_mci_clk, Clock
  <2>3. selIn' = FALSE
    BY <2>1 DEF sdhci_msm_set_mci_clk
  <2>4. Registers' /\ ClockFits'
    <3>1. selIn' \in BOOLEAN /\ mclk2' \in BOOLEAN
      BY <2>2, <2>3
    <3>2. ClockFits'
      BY <1>1, <2>1, <2>2, Before DEF ClockFits, cardSide
    <3> QED BY <1>1, <2>1, <3>1, <3>2, Before DEF Registers, cardSide
  <2>5. CASE Fail
    BY <1>1, <2>4, <2>5, FailedKeeps
  <2>6. CASE Goto(IF Path = "hs400" THEN "slowDown" ELSE "rstN")
    <3>1. Goto("slowDown")
      BY <1>5, <2>6 DEF ToHs400
    <3>2. AtSlowDown'
      BY <1>1, <1>2, <1>3, <1>4, <1>5, <2>1, <2>2, <2>3
      DEF AtHs200, AtSlowDown, ToHs400, Selected, Modes, Clock, Lines, cardSide
    <3>3. Rows'
      BY <3>1, <3>2 DEF Rows, Goto, Identifying
    <3> QED BY <1>1, <2>4, <3>1, <3>3, NextLabelKeeps DEF Labels
  <2> QED BY <2>5, <2>6 DEF Tune
<1>6. CASE Path = "hs200" /\ Clock(200, 200, FALSE) /\ hostTiming = "SDR25"
  <2>1. UNCHANGED <<core, mclk2, selIn>>
    BY <1>6 DEF Tune
  <2>2. Registers' /\ ClockFits'
    BY <1>1, <2>1, Before DEF Registers, ClockFits, cardSide
  <2>3. CASE Fail
    BY <1>1, <2>2, <2>3, FailedKeeps
  <2>4. CASE Goto(IF Path = "hs400" THEN "slowDown" ELSE "rstN")
    <3>1. Goto("rstN")
      BY <1>6, <2>4
    <3>2. state = "tran" /\ Agreed
      BY <1>2, Hs200Agrees
    <3>3. state' = "tran" /\ Agreed'
      BY <1>1, <2>1, <3>2 DEF Agreed, HostMode, CardMode, cardSide
    <3> QED BY <1>1, <2>2, <3>1, <3>3, LastLabelKeeps
  <2> QED BY <2>3, <2>4 DEF Tune
<1> QED BY <1>2, <1>5, <1>6 DEF AtTune

LEMMA SlowDownKeeps == Inv /\ SlowDown => Inv'
<1> SUFFICES ASSUME Inv, SlowDown
             PROVE  Inv'
  OBVIOUS
<1>1. /\ pc = "slowDown" /\ pc # "done" /\ Goto("hsAgain") /\ hostTiming' = "SDR12"
      /\ UNCHANGED <<retry, cfg, card, bus_width, cardSide, hostWidth, selIn, core, mclk2, tuning_done>>
  BY DEF SlowDown
<1>2. uhs' = "SDR12" /\ supply' = 25
  BY UhsModes DEF SlowDown
<1>3. AtSlowDown
  BY <1>1 DEF Inv, Rows
<1>4. ToHs400'
  BY <1>1, <1>3, Before, InputsKept DEF AtSlowDown, ToHs400, Selected, cardSide
<1>5. AtHsAgain'
  BY <1>1, <1>2, <1>3, <1>4 DEF AtSlowDown, AtHsAgain, Modes, Clock, Lines, cardSide
<1>6. Rows'
  BY <1>1, <1>5 DEF Rows, Goto, Identifying
<1>7. ClockFits'
  BY <1>5 DEF ClockFits, AtHsAgain, Modes, Clock
<1>8. Registers'
  BY <1>1, <1>2, Before DEF Registers, cardSide
<1> QED BY <1>1, <1>6, <1>7, <1>8, NextLabelKeeps DEF Labels

LEMMA HsAgainKeeps == Inv /\ HsAgain => Inv'
<1> SUFFICES ASSUME Inv, HsAgain
             PROVE  Inv'
  OBVIOUS
<1>1. pc = "hsAgain" /\ pc # "done" /\ UNCHANGED <<retry, cfg, card, bus_width, state>>
  BY DEF HsAgain, SetHsInterface
<1>2. AtHsAgain
  BY <1>1 DEF Inv, Rows
<1>3. CASE /\ Goto("ddr") /\ width' = width /\ ddr' = ddr /\ timing' = "hs"
           /\ sdhci_set_uhs_mode("SDR25") /\ hostTiming' = "SDR25"
           /\ UNCHANGED <<hostWidth, selIn, core, mclk2, tuning_done>>
  <2>1. uhs' = "SDR25" /\ supply' = 50
    BY <1>3, UhsModes
  <2>2. ToHs400'
    BY <1>1, <1>2, Before, InputsKept DEF AtHsAgain, ToHs400, Selected
  <2>3. AtDdr'
    BY <1>2, <1>3, <2>1, <2>2 DEF AtHsAgain, AtDdr, ToHs400, Modes, Clock, Lines
  <2>4. Rows'
    BY <1>3, <2>3 DEF Rows, Goto, Identifying
  <2>5. Registers'
    BY <1>1, <1>3, <2>1, Before DEF Registers
  <2>6. ClockFits'
    BY <1>2, <1>3, <2>1 DEF ClockFits, AtHsAgain, Clock
  <2> QED BY <1>1, <1>3, <2>4, <2>5, <2>6, NextLabelKeeps DEF Labels
<1>4. CASE Fail /\ UNCHANGED <<modeRegs, clocks, saved, width, ddr>> /\ timing' \in {timing, "hs"}
  <2>1. supply = 25 /\ core = 200 /\ ddr' \in BOOLEAN
    BY <1>2, <1>4, Before DEF AtHsAgain, Clock, Registers
  <2> QED BY <1>1, <1>4, <2>1, SwitchFails
<1> QED BY <1>3, <1>4 DEF HsAgain, SetHsInterface, Switch

\* The card is given eight lines: the controller has them already.
LEMMA SetDdrModeKeeps == Inv /\ SetDdrMode => Inv'
<1> SUFFICES ASSUME Inv, SetDdrMode
             PROVE  Inv'
  OBVIOUS
<1>1. pc = "ddr" /\ pc # "done" /\ UNCHANGED <<retry, cfg, card, bus_width, state>>
  BY DEF SetDdrMode
<1>2. AtDdr
  BY <1>1 DEF Inv, Rows
<1>3. CASE /\ Goto(IF Path = "hs400" THEN "hs400Timing" ELSE "rstN")
           /\ width' = 8 /\ ddr' = TRUE /\ timing' = timing
           /\ hostTiming' = "DDR50" /\ sdhci_set_uhs_mode("DDR50")
           /\ UNCHANGED <<hostWidth, selIn, core, mclk2, tuning_done>>
  <2>1. uhs' = "DDR50" /\ supply' = 50
    BY <1>3, UhsModes
  <2>2. Modes(TRUE, "hs", "DDR50", FALSE)' /\ Lines(8, 8)' /\ state' = "tran"
    BY <1>1, <1>2, <1>3, <2>1 DEF AtDdr, Selected, Modes, Lines
  <2>3. Registers' /\ ClockFits'
    <3>1. ddr' \in BOOLEAN
      BY <1>3
    <3>2. core = 200 /\ timing = "hs"
      BY <1>2 DEF AtDdr, Clock, Modes
    <3>3. ClockFits'
      BY <1>3, <2>1, <3>2, Before DEF ClockFits
    <3> QED BY <1>1, <1>3, <2>1, <3>1, <3>3, Before DEF Registers
  <2>4. CASE ToHs400 /\ Clock(50, 200, TRUE) /\ tuning_done
    <3>1. ToHs400'
      BY <1>1, <2>4, Before, InputsKept DEF ToHs400, Selected
    <3>2. AtHs400Timing'
      BY <1>3, <2>1, <2>2, <2>4, <3>1 DEF AtHs400Timing, Clock
    <3>3. Goto("hs400Timing")
      BY <1>3, <2>4 DEF ToHs400
    <3>4. Rows'
      BY <3>2, <3>3 DEF Rows, Goto, Identifying
    <3> QED BY <1>1, <2>3, <3>3, <3>4, NextLabelKeeps DEF Labels
  <2>5. CASE Path = "ddr"
    <3>1. Goto("rstN")
      BY <1>3, <2>5
    <3>2. Agreed'
      BY <2>2 DEF Agreed, HostMode, CardMode, Modes, Lines
    <3> QED BY <1>1, <2>2, <2>3, <3>1, <3>2, LastLabelKeeps
  <2> QED BY <1>2, <2>4, <2>5 DEF AtDdr
<1>4. CASE /\ Fail /\ UNCHANGED <<modeRegs, clocks, saved, timing>>
           /\ width' \in {width, 8} /\ ddr' \in {ddr, TRUE}
  <2>1. ddr' \in BOOLEAN
    BY <1>4, Before DEF Registers
  <2> QED BY <1>1, <1>4, <2>1, SwitchFails
<1> QED BY <1>3, <1>4 DEF SetDdrMode, Switch

LEMMA Hs400TimingKeeps == Inv /\ Hs400Timing => Inv'
<1> SUFFICES ASSUME Inv, Hs400Timing
             PROVE  Inv'
  OBVIOUS
<1>1. pc = "hs400Timing" /\ pc # "done" /\ UNCHANGED <<retry, cfg, card, bus_width, state>>
  BY DEF Hs400Timing
<1>2. AtHs400Timing
  BY <1>1 DEF Inv, Rows
<1>3. CASE /\ Goto("divideClock400")
           /\ width' = width /\ ddr' = ddr /\ timing' = "hs400"
           /\ hostTiming' = "HS400" /\ sdhci_set_uhs_mode("SDR104")
           /\ UNCHANGED <<hostWidth, selIn, core, mclk2, tuning_done>>
  <2>1. uhs' = "SDR104" /\ supply' = 200
    BY <1>3, UhsModes
  <2>2. ToHs400'
    BY <1>1, <1>2, Before, InputsKept DEF AtHs400Timing, ToHs400, Selected
  <2>3. AtHs400(FALSE, 200)'
    BY <1>2, <1>3, <2>1, <2>2 DEF AtHs400Timing, AtHs400, Modes, Clock, Lines
  <2>4. Rows'
    BY <1>3, <2>3 DEF Rows, Goto, Identifying
  <2>5. Registers' /\ ClockFits'
    BY <1>1, <1>3, <2>1, Before DEF Registers, ClockFits
  <2> QED BY <1>1, <1>3, <2>4, <2>5, NextLabelKeeps DEF Labels
<1>4. CASE Fail /\ UNCHANGED <<modeRegs, clocks, saved, width, ddr>> /\ timing' \in {timing, "hs400"}
  BY <1>1, <1>4, Before, SwitchFails DEF Registers
<1> QED BY <1>3, <1>4 DEF Hs400Timing, Switch

LEMMA CalibrateKeeps == Inv /\ Calibrate => Inv'
<1> SUFFICES ASSUME Inv, Calibrate
             PROVE  Inv'
  OBVIOUS
<1>1. /\ pc = "calibrate" /\ pc # "done"
      /\ UNCHANGED <<retry, cfg, card, bus_width, cardSide, modeRegs, clocks, saved>>
  BY DEF Calibrate
<1>2. AtHs400(TRUE, 400)
  BY <1>1 DEF Inv, Rows
<1>3. Registers' /\ ClockFits'
  BY <1>1, Before DEF Registers, ClockFits, cardSide, modeRegs, clocks, saved
<1>4. CASE Fail
  BY <1>1, <1>3, <1>4, FailedKeeps
<1>5. CASE Goto("rstN")
  <2>1. state = "tran" /\ Agreed
    BY <1>2 DEF AtHs400, ToHs400, Selected, Modes, Lines, Agreed, HostMode, CardMode
  <2>2. state' = "tran" /\ Agreed'
    BY <1>1, <2>1 DEF Agreed, HostMode, CardMode, cardSide, modeRegs
  <2> QED BY <1>1, <1>3, <1>5, <2>2, LastLabelKeeps
<1> QED BY <1>4, <1>5 DEF Calibrate

LEMMA HsKeeps == Inv /\ Hs => Inv'
<1> SUFFICES ASSUME Inv, Hs
             PROVE  Inv'
  OBVIOUS
<1>1. pc = "hs" /\ pc # "done" /\ UNCHANGED <<retry, cfg, card, bus_width, state>>
  BY DEF Hs, SetHsInterface
<1>2. AtHostWidth
  BY <1>1 DEF Inv, Rows
<1>3. CASE /\ Goto("hsWidth") /\ width' = width /\ ddr' = ddr /\ timing' = "hs"
           /\ sdhci_set_uhs_mode("SDR25") /\ hostTiming' = "SDR25"
           /\ UNCHANGED <<hostWidth, selIn, core, mclk2, tuning_done>>
  <2>1. uhs' = "SDR25" /\ supply' = 50
    BY <1>3, UhsModes
  <2>2. AtHostWidth'
    BY <1>1, <1>2, <1>3, <2>1 DEF AtHostWidth, Selected, Modes, Clock
  <2>3. Rows'
    BY <1>3, <2>2 DEF Rows, Goto, Identifying
  <2>4. Registers'
    BY <1>1, <1>3, <2>1, Before DEF Registers
  <2>5. ClockFits'
    BY <1>2, <1>3, <2>1 DEF ClockFits, AtHostWidth, Clock
  <2> QED BY <1>1, <1>3, <2>3, <2>4, <2>5, NextLabelKeeps DEF Labels
<1>4. CASE Fail /\ UNCHANGED <<modeRegs, clocks, saved, width, ddr>> /\ timing' \in {timing, "hs"}
  <2>1. supply = 50 /\ core = 200 /\ ddr' \in BOOLEAN
    BY <1>2, <1>4, Before DEF AtHostWidth, Clock, Registers
  <2> QED BY <1>1, <1>4, <2>1, SwitchFails
<1> QED BY <1>3, <1>4 DEF Hs, SetHsInterface, Switch

LEMMA HsWidthKeeps == Inv /\ HsWidth => Inv'
<1> SUFFICES ASSUME Inv, HsWidth
             PROVE  Inv'
  OBVIOUS
<1>1. /\ pc = "hsWidth" /\ pc # "done" /\ UNCHANGED <<retry, cfg, card, bus_width, state>>
      /\ UNCHANGED <<modeRegs, clocks, saved, ddr, timing>>
  BY DEF HsWidth, SwitchOnly, Switch
<1>2. AtHostWidth
  BY <1>1 DEF Inv, Rows
<1>3. CASE Goto("rstN") /\ width' = bus_width
  <2>1. Registers' /\ ClockFits'
    BY <1>1, <1>3, Before DEF Registers, ClockFits, modeRegs, clocks, saved
  <2>2. state' = "tran" /\ Agreed'
    BY <1>1, <1>2, <1>3
    DEF AtHostWidth, Selected, Modes, Agreed, HostMode, CardMode, modeRegs
  <2> QED BY <1>1, <1>3, <2>1, <2>2, LastLabelKeeps
<1>4. CASE Fail /\ width' \in {width, bus_width}
  <2>1. ddr' \in BOOLEAN
    BY <1>1, Before DEF Registers
  <2> QED BY <1>1, <1>4, <2>1, SwitchFails
<1> QED BY <1>3, <1>4 DEF HsWidth, SwitchOnly, Switch

LEMMA SdWidthKeeps == Inv /\ SdWidth => Inv'
<1> SUFFICES ASSUME Inv, SdWidth
             PROVE  Inv'
  OBVIOUS
<1>1. /\ pc = "sdWidth" /\ pc # "done" /\ bus_width' \in {1, 4}
      /\ UNCHANGED <<retry, cfg, card, state, ddr, timing, uhs, selIn, clocks, saved>>
  BY DEF SdWidth
<1>2. AtHighSpeed
  BY <1>1 DEF Inv, Rows
<1>3. ClockFits'
  BY <1>1, Before DEF ClockFits, clocks
<1>4. CASE width' = bus_width' /\ hostWidth' = bus_width' /\ Goto("rstN")
  <2>1. Registers'
    BY <1>1, <1>4, Before DEF Registers, clocks, saved
  <2>2. state' = "tran" /\ Agreed'
    BY <1>1, <1>2, <1>4 DEF AtHighSpeed, Modes, Agreed, HostMode, CardMode
  <2> QED BY <1>1, <1>3, <1>4, <2>1, <2>2, LastLabelKeeps
<1>5. CASE width' \in {width, bus_width'} /\ UNCHANGED hostWidth /\ Fail
  <2>1. Registers'
    BY <1>1, <1>5, Before DEF Registers, clocks, saved
  <2> QED BY <1>1, <1>3, <1>5, <2>1, FailedKeeps
<1> QED BY <1>4, <1>5 DEF SdWidth

\* mmc_init returns.
LEMMA RstNKeeps == Inv /\ RstN => Inv'
<1> SUFFICES ASSUME Inv, RstN
             PROVE  Inv'
  OBVIOUS
<1>1. /\ pc = "rstN"
      /\ UNCHANGED <<retry, cfg, card, bus_width, cardSide, modeRegs, clocks, saved>>
  BY DEF RstN
<1>2. Registers' /\ ClockFits'
  BY <1>1, Before DEF Registers, ClockFits, cardSide, modeRegs, clocks, saved
<1>3. CASE Fail
  BY <1>1, <1>2, <1>3, FailedKeeps
<1>4. CASE pc' = "done" /\ result' = "device"
  <2>1. Retries'
    BY <1>1, <1>4 DEF Retries, Inv
  <2>2. TypeOK'
    <3>1. (Registers /\ Retries /\ result \in {"none", "device", "NULL"} => TypeOK)'
      BY TypeOKParts, PTL
    <3> QED BY <1>2, <1>4, <2>1, <3>1
  <2>3. Inputs'
    BY <1>1, InputsKept DEF Inv
  <2>4. Rows'
    BY <1>4 DEF Rows, Identifying
  <2>5. Arrived'
    <3>1. state = "tran" /\ Agreed
      BY <1>1 DEF Inv, Arrived
    <3> QED BY <1>1, <3>1 DEF Arrived, Agreed, HostMode, CardMode, cardSide, modeRegs
  <2> QED BY <1>2, <1>4, <2>1, <2>2, <2>3, <2>4, <2>5 DEF Inv, Labels
<1> QED BY <1>3, <1>4 DEF RstN

-----------------------------------------------------------------------------
(* The theorem *)

\* DDR needs eight lines: MmcNarrowDdr shows what a narrower controller gets.
LEMMA InitInv == ~NarrowDdr /\ Init => Inv
<1> SUFFICES ASSUME ~NarrowDdr, Init
             PROVE  Inv
  OBVIOUS
<1>1. Inputs
  BY DEF Init, Inputs
<1>2. pc = "CMD0" /\ retry = 0 /\ result = "none"
  BY DEF Init
<1>3. Registers
  BY DEF Init, Registers
<1>4. Retries
  BY <1>2 DEF Retries
<1>5. TypeOK
  BY <1>2, <1>3, <1>4, TypeOKParts
<1>6. AtReset
  BY DEF Init, AtReset, Modes, Clock, Lines
<1>7. Rows
  BY <1>2, <1>6 DEF Rows
<1>8. ClockFits /\ Arrived
  BY <1>2 DEF Init, ClockFits, Arrived
<1> QED BY <1>1, <1>2, <1>4, <1>5, <1>7, <1>8 DEF Inv, Labels, Identifying

LEMMA StutterKeeps == Inv /\ UNCHANGED vars => Inv'
  BY DEF Inv, vars, TypeOK, Inputs, Retries, Rows, ClockFits, Arrived, Agreed, HostMode,
         CardMode, AtReset, AtHighSpeed, AtHostWidth, AtHs200, AtTune, AtSlowDown, AtHsAgain,
         AtDdr, AtHs400Timing, AtHs400, ToHs400, ToHs200, Selected, Modes, Clock, Lines, Path,
         cardSide, modeRegs, clocks, saved

LEMMA NextKeeps == Inv /\ [Next]_vars => Inv'
<1>1. Inv /\ Next => Inv'
  BY ResetCardKeeps, SendOpCondKeeps, SdCardInitKeeps, IdentifyKeeps, HsInterfaceKeeps,
     SdSetHsKeeps, ReadRegistersKeeps, SetHostWidthKeeps, Hs200WidthKeeps, Hs200TimingKeeps,
     DivideClockKeeps, RaiseCoreKeeps, TuneKeeps, SlowDownKeeps, HsAgainKeeps,
     SetDdrModeKeeps, Hs400TimingKeeps, CalibrateKeeps, HsKeeps, HsWidthKeeps, SdWidthKeeps,
     RstNKeeps
  DEF Next
<1> QED BY <1>1, StutterKeeps

\* Unless a controller does DDR with fewer than eight lines, card and
\* controller agree on width and mode whenever data is read and when mmc_init
\* returns a device, and the card is never clocked faster than its timing
\* allows, however many retries there are.
THEOREM CardAndControllerAgree == ~NarrowDdr /\ Spec => []ModesAgree
<1>1. ~NarrowDdr /\ Spec => []Inv
  BY InitInv, NextKeeps, PTL DEF Spec
<1>2. Inv => ModesAgree
  BY InvImpliesModesAgree
<1> QED BY <1>1, <1>2, PTL
=============================================================================
