-------------------------------- MODULE Smem --------------------------------
(***************************************************************************)
(* Shared memory (SmemDxe/smem.c) and the two drivers that read it while   *)
(* they load: board identification (BoardDxe/board.c) and the flash and    *)
(* RAM partition tables (SmemPtableDxe/smem_ptable.c).                     *)
(*                                                                         *)
(* An item is read twice: its head, to learn its format, then the whole    *)
(* item, one word after the other and without the spinlocks that smem.c    *)
(* leaves as a TODO.  Another processor may rewrite the item in between.   *)
(* A unit is a word or a group of words the code treats alike (a build_id, *)
(* a partition, a PMIC's type and version).                                *)
(***************************************************************************)
EXTENDS Naturals, Sequences

CONSTANTS Formats,     \* minor formats of the board description
          Majors,      \* its major formats
          ChipIds,     \* msm_id
          Subtypes,    \* platform_subtype
          HwPlatforms, \* hw_platform
          Tags,        \* distinguishes two descriptions' other words
          FlashVersions, RamVersions,   \* versions of the partition tables
          PartsV3, PartsV4,             \* SMEM_PTABLE_MAX_PARTS_V3 and _V4
          RamKinds,    \* kinds of RAM partitions
          Rewritten,   \* the items another processor may rewrite
          Rewrites,    \* bound on its rewrites
          AddCalls     \* bound on calls of smem_add_modem_partitions

\* A board's hw_platform and the halves of its hardware version fit the bytes of
\* board_target_id, as those in smem.h do; RamPart knows three kinds.
ASSUME SmemAssumption ==
    /\ Formats \subseteq Nat /\ FlashVersions \subseteq Nat /\ RamVersions \subseteq Nat
    /\ HwPlatforms \subseteq 0 .. 255 /\ Tags \subseteq 0 .. 248
    /\ RamKinds \subseteq {"modem", "sdram", "imem"}
    /\ PartsV3 \in Nat /\ PartsV4 \in Nat /\ Rewrites \in Nat /\ AddCalls \in Nat

VARIABLES shm,      \* the items: allocated or not, and their units
          rewrites, \* rewrites still allowed
          toRead,     \* the items whose driver has not loaded
          rd,       \* the reading in progress
          board,    \* board, the static description
          flash,    \* smem_ptable
          apps,     \* smem_apps_flash_start
          ram,      \* ptable, the RAM partitions
          added,    \* the partitions given to ptable_add
          halt      \* the assertion that stopped, or "no"
smemVars == <<shm, rewrites, toRead, rd, board, flash, apps, ram, added, halt>>

InvalidPmic == 2147483647    \* PMIC_IS_INVALID
Items == {"board", "flash", "ram"}

(***************************************************************************)
(* What may be in shared memory.                                           *)
(***************************************************************************)
Description(major, format, chip, subtype, hw, t) ==
    <<[major |-> major, minor |-> format], chip, 16 * t + 1, hw, 65537 * t + 7, subtype,
      [type |-> t, version |-> 65536 * t], [type |-> InvalidPmic, version |-> 0],
      [type |-> t + 1, version |-> t], 20 + t, 30 + t>>

\* The units of struct smem_board_info_v6 .. v10.
BoardLen(format) == CASE format = 6 -> 6 [] format = 7 -> 7 [] format = 8 -> 9
                      [] format = 9 -> 10 [] format >= 10 -> 11

Boards == {SubSeq(d, 1, IF d[1].major = 0 /\ d[1].minor >= 6 THEN BoardLen(d[1].minor) ELSE 4) :
             d \in {Description(m, f, c, s, h, t) : m \in Majors, f \in Formats, c \in ChipIds,
                                                    s \in Subtypes, h \in HwPlatforms, t \in Tags}}

\* A name is the list of its parts between the colons.
Part(name, start) == [name |-> name, start |-> start]
FlashParts == <<Part(<<"0", "MODEM">>, 10), Part(<<"0", "APPS">>, 20), Part(<<>>, 0), Part(<<"0", "FS", "1">>, 40)>>
MaxParts(version) == IF version <= 3 THEN PartsV3 ELSE PartsV4
FlashTable(ok, v, l) ==
    <<[magic |-> ok, version |-> v, len |-> l]>> \o
        [n \in 1 .. PartsV4 |->
            IF n <= MaxParts(v) /\ n <= Len(FlashParts) THEN FlashParts[n] ELSE Part(<<>>, 0)]
FlashTables == {FlashTable(ok, v, l) : ok \in BOOLEAN, v \in FlashVersions, l \in 0 .. (PartsV4 + 1)}

\* Starts are counted in halves of a megabyte.
RamPart(kind, start) == [type |-> IF kind = "modem" THEN "boot" ELSE "system", category |-> kind, start |-> start]
RamLen == 2
RamTables == {<<[magic |-> ok, version |-> v, len |-> RamLen], RamPart(k1, 2), RamPart(k2, start)>> :
                ok \in BOOLEAN, v \in RamVersions, k1 \in RamKinds, k2 \in RamKinds, start \in {4, 5}}

Storable(item) == CASE item = "board" -> Boards [] item = "flash" -> FlashTables [] item = "ram" -> RamTables

(***************************************************************************)
(* The start, and the other processor.                                     *)
(***************************************************************************)
NoPmic == [type |-> InvalidPmic, version |-> 0, target |-> <<0, 0, 0>>]
NoBoard == [platform |-> 0, version |-> 0, hw |-> 0, subtype |-> 0, target |-> <<0, 0, 0, 0>>, baseband |-> "MSM",
            pmic |-> <<NoPmic, NoPmic, NoPmic>>, foundry |-> 0, serial |-> 0]
NoTable == <<[magic |-> FALSE, version |-> 0, len |-> 0]>>
Reading == [item |-> "none", head |-> 0, need |-> 0, buf |-> <<>>]
NotFound == 255     \* 0xFFFFFFFF

\* Items are examined one behaviour at a time: the others are not allocated.
SmemStart(i, w, present) ==
    /\ shm = [x \in Items |-> [allocated |-> present /\ x = i, units |-> IF x = i THEN w ELSE <<>>]]
    /\ toRead = {i}
    /\ rewrites = Rewrites
    /\ rd = Reading /\ board = NoBoard /\ flash = NoTable /\ apps = NotFound /\ ram = NoTable
    /\ added = <<>> /\ halt = "no"
SmemInit == \E i \in Items : \E w \in Storable(i), present \in BOOLEAN : SmemStart(i, w, present)

Rewrite(i) ==
    /\ rewrites > 0 /\ i \in Rewritten /\ shm[i].allocated
    /\ \E w \in Storable(i) : /\ Len(w) = Len(shm[i].units)
                             /\ shm' = [shm EXCEPT ![i].units = w]
    /\ rewrites' = rewrites - 1
    /\ UNCHANGED <<toRead, rd, board, flash, apps, ram, added, halt>>

(***************************************************************************)
(* Reading an item.                                                        *)
(***************************************************************************)
Running == halt = "no"
\* An item has its size checked only when the whole of it is read.
Fits(i, n) == shm[i].allocated /\ Len(shm[i].units) >= n

BasebandOf(b) ==
    IF b.subtype \notin {0, 1, 3} THEN "assert"
    ELSE CASE b.platform \in {126, 185, 186, 194} \cup (211 .. 218) -> "MSM"
           [] b.platform \in {184} \cup (208 .. 210) -> "APQ"
           [] OTHER -> "assert"

\* board_init: whatever platform_detect has filled in, the modem is told
\* from it; a board whose description could not be read is not supported.
BoardDone(b) ==
    LET modem == BasebandOf(b)
    IN /\ board' = IF modem = "assert" THEN b ELSE [b EXCEPT !.baseband = modem]
       /\ halt' = IF modem = "assert" THEN "baseband" ELSE "no"
       /\ toRead' = toRead \ {"board"} /\ rd' = Reading

Stop(why) == halt' = why /\ UNCHANGED <<board, toRead, rd>>
TableDone(i) == toRead' = toRead \ {i} /\ rd' = Reading /\ UNCHANGED <<board, halt>>
Read(i, head, n) == rd' = [item |-> i, head |-> head, need |-> n, buf |-> <<>>] /\ UNCHANGED <<board, halt, toRead>>

\* platform_detect up to the format word.
BoardHead ==
    /\ Running /\ "board" \in toRead /\ rd.item = "none"
    /\ LET f == shm["board"].units[1]
       IN  IF ~shm["board"].allocated THEN BoardDone(board)
           ELSE IF f.major # 0 THEN Stop("boardFormat")
           ELSE IF f.minor < 6 THEN BoardDone(board)
           ELSE Read("board", f, BoardLen(f.minor))
    /\ UNCHANGED <<shm, rewrites, flash, apps, ram, added>>

\* smem_ptable_init up to the length of the second read: the header goes
\* straight into smem_ptable.
FlashHead ==
    /\ Running /\ "flash" \in toRead /\ rd.item = "none"
    /\ LET h == shm["flash"].units[1]
       IN  IF ~shm["flash"].allocated THEN TableDone("flash") /\ UNCHANGED flash
           ELSE /\ flash' = <<h>>
                /\ IF ~h.magic THEN TableDone("flash")
                   ELSE IF h.len > PartsV4 THEN Stop("partitionCount")
                   ELSE IF h.version > 4 THEN Stop("partitionVersion")
                   ELSE Read("flash", h, 1 + MaxParts(h.version))
    /\ UNCHANGED <<shm, rewrites, apps, ram, added>>

\* smem_ram_ptable_init_v1 up to the length of the second read.
RamHead ==
    /\ Running /\ "ram" \in toRead /\ rd.item = "none"
    /\ LET h == shm["ram"].units[1]
       IN  IF ~shm["ram"].allocated THEN TableDone("ram")
           ELSE IF h.version > 2 THEN Stop("ramVersion")
           ELSE Read("ram", h, 1 + RamLen)
    /\ UNCHANGED <<shm, rewrites, flash, apps, ram, added>>

\* The second read starts over with the allocation and the size ...
ReadRefused ==
    /\ Running /\ rd.item # "none" /\ rd.buf = <<>> /\ ~Fits(rd.item, rd.need)
    /\ CASE rd.item = "board" -> BoardDone(board)
         [] rd.item = "flash" -> Stop("partitionRead")
         [] rd.item = "ram" -> TableDone("ram")
    /\ UNCHANGED <<shm, rewrites, flash, apps, ram, added>>

\* ... and copies unit after unit.
ReadUnit ==
    /\ Running /\ rd.item # "none" /\ Len(rd.buf) < rd.need
    /\ rd.buf = <<>> => Fits(rd.item, rd.need)
    /\ rd' = [rd EXCEPT !.buf = Append(@, shm[rd.item].units[Len(@) + 1])]
    /\ UNCHANGED <<shm, rewrites, toRead, board, flash, apps, ram, added, halt>>

WholeRead(i) == Running /\ rd.item = i /\ Len(rd.buf) = rd.need

(***************************************************************************)
(* Board identification.                                                   *)
(***************************************************************************)
Byte(n) == n % 256
\* pmic_target: major version, minor version, model.
PmicTarget(p) == <<Byte(p.version \div 65536), Byte(p.version), IF p.type = InvalidPmic THEN 0 ELSE Byte(p.type)>>
PmicOf(p) == [type |-> p.type, version |-> p.version, target |-> PmicTarget(p)]

\* Mutant of Target: the soc version stands for the hardware version.
TargetOfSoc(d) == <<Byte(d[6]), Byte(d[3] \div 65536), Byte(d[3]), Byte(d[4])>>

\* target: subtype, hardware version major and minor, hw_platform.
Target(d) == <<Byte(d[6]), Byte(d[5] \div 65536), Byte(d[5]), Byte(d[4])>>

\* The members platform_detect fills in from a description d of a format.
Identified(b, format, d) ==
    LET c == [b EXCEPT !.platform = d[2], !.version = d[3], !.hw = d[4], !.subtype = d[6]]
    IN  IF format = 6 THEN c
        ELSE IF format = 7 THEN [c EXCEPT !.pmic[1] = [type |-> d[7].type, version |-> d[7].version, target |-> <<0, 0, 0>>]]
        ELSE [c EXCEPT !.target = Target(d),
                       !.pmic = [i \in 1 .. 3 |-> PmicOf(d[6 + i])],
                       !.foundry = IF format >= 9 THEN d[10] ELSE @,
                       !.serial = IF format >= 10 THEN d[11] ELSE @]

PlatformDetected ==
    /\ WholeRead("board")
    /\ BoardDone(Identified(board, rd.head.minor, rd.buf))
    /\ UNCHANGED <<shm, rewrites, flash, apps, ram, added>>

Is8974 == board.platform \in {184, 185, 186, 126}
Is8974ac == board.platform \in {194, 216, 213, 210}
Is8974Pro == board.platform \in (208 .. 218) \cup {194}

\* The platforms board_get_hw_platform_name has a name for: its table has
\* holes and an end, and it looks at neither.
Named == (0 .. 4) \cup (7 .. 11) \cup {13, 14, 21, 23, 24}

(***************************************************************************)
(* The partition tables.                                                   *)
(***************************************************************************)
PartAt(table, n) == IF n + 1 <= Len(table) THEN table[n + 1] ELSE Part(<<>>, 0)
Placed(table, name) == {n \in 1 .. table[1].len : PartAt(table, n).name = name}
First(S) == CHOOSE n \in S : \A k \in S : n <= k

FlashTableRead ==
    /\ WholeRead("flash")
    /\ flash' = rd.buf
    /\ LET here == Placed(rd.buf, <<"0", "APPS">>)
       IN  apps' = IF here = {} THEN apps ELSE PartAt(rd.buf, First(here)).start
    /\ TableDone("flash")
    /\ UNCHANGED <<shm, rewrites, ram, added>>

\* smem_add_modem_partitions: strtok splits the stored names for good.
AddModemPartitions ==
    /\ Running /\ toRead = {} /\ flash[1].magic /\ Len(flash) > 1 /\ Len(added) < AddCalls
    /\ added' = Append(added, {Part(PartAt(flash, n).name[Len(PartAt(flash, n).name)], PartAt(flash, n).start) :
                                 n \in {k \in 1 .. flash[1].len : PartAt(flash, k).name # <<>>}})
    /\ flash' = [n \in 1 .. Len(flash) |->
                   IF n \in 2 .. flash[1].len + 1 /\ flash[n].name # <<>>
                   THEN [flash[n] EXCEPT !.name = <<@[1]>>] ELSE flash[n]]
    /\ UNCHANGED <<shm, rewrites, toRead, rd, board, apps, ram, halt>>

RamTableRead ==
    /\ WholeRead("ram")
    /\ IF ~rd.buf[1].magic THEN UNCHANGED ram /\ TableDone("ram")
       ELSE IF rd.buf[1].version > 2 THEN ram' = <<rd.buf[1]>> /\ Stop("ramCopyVersion")
       ELSE ram' = rd.buf /\ TableDone("ram")
    /\ UNCHANGED <<shm, rewrites, flash, apps, added>>

\* get_ddr_start: a partition found must start at a whole megabyte; the
\* assertion after the loop is of a string, and never fires.
Misaligned == 255   \* no start: the assertion stops
DdrStart ==
    LET found == {n \in 1 .. ram[1].len : /\ ram[n + 1].type = "system"
                                          /\ ram[n + 1].category \in {"sdram", "imem"}}
        start == ram[First(found) + 1].start
    IN  IF found = {} THEN 0 ELSE IF start % 2 = 0 THEN start ELSE Misaligned

SmemNext == \/ \E i \in Items : Rewrite(i)
            \/ BoardHead \/ FlashHead \/ RamHead \/ ReadRefused \/ ReadUnit
            \/ PlatformDetected \/ FlashTableRead \/ AddModemPartitions \/ RamTableRead
SmemSpec == SmemInit /\ [][SmemNext]_smemVars

-----------------------------------------------------------------------------
ReadDone(i) == halt = "no" /\ toRead = {} /\ shm[i].units # <<>>
Untouched == rewrites = Rewrites

SmemTypeOK == /\ toRead \subseteq Items /\ rd.item \in toRead \cup {"none"} /\ Len(rd.buf) <= rd.need
              /\ rewrites \in 0 .. Rewrites /\ Len(added) <= AddCalls /\ board.baseband \in {"MSM", "APQ"}

\* A board that is set up is one whose modem is known, told from the same
\* copy of the description as everything else: a rewriting in mid-read mixes
\* two descriptions, and never shows one in one place and the other elsewhere.
BoardAgrees ==
    ReadDone("board") =>
        /\ board.baseband = BasebandOf(board)
        /\ board.target # <<0, 0, 0, 0>> => board.target[1] = board.subtype /\ board.target[4] = board.hw
        /\ (Is8974 \/ Is8974Pro) /\ ~(Is8974 /\ Is8974Pro) /\ (Is8974ac => Is8974Pro)

\* Every member comes from its word of the description, and the target's
\* version bytes are those of the hardware.
BoardAsDescribed ==
    (ReadDone("board") /\ Untouched) =>
        LET d == shm["board"].units
        IN  /\ <<board.platform, board.version, board.hw, board.subtype>> = <<d[2], d[3], d[4], d[6]>>
            /\ d[1].minor >= 8 => /\ board.target[2] * 65536 + board.target[3] = d[5]
                                  /\ \A i \in 1 .. 3 : board.pmic[i].version = d[6 + i].version
            /\ d[1].minor >= 9 => board.foundry = d[10]

\* The flash table that is served is the one in memory, part for part, and
\* without a name where its version has no room for as many; the flash start
\* is that of the application partition.
FlashServed ==
    (ReadDone("flash") /\ flash[1].magic) =>
        LET f == shm["flash"].units
            appsAt == {n \in 2 .. f[1].len + 1 : f[n].name = <<"0", "APPS">>}
        IN  /\ added = <<>> => \A n \in 1 .. flash[1].len : PartAt(flash, n) = f[n + 1]
            /\ appsAt # {} => \E n \in appsAt : apps = f[n].start
            /\ appsAt = {} => apps = NotFound

\* Every call adds each named partition under the last part of its name.
ModemPartitionsNamed ==
    \A c \in 1 .. Len(added) :
        added[c] = {Part(p.name[Len(p.name)], p.start) :
                      p \in {shm["flash"].units[n] : n \in {k \in 2 .. flash[1].len + 1 :
                                                              shm["flash"].units[k].name # <<>>}}}

\* The start of the RAM is that of system memory, if the table has any; system
\* memory that does not start at a whole megabyte stops.
DdrIsSystem ==
    (ReadDone("ram") /\ ram[1].magic) =>
        LET system == {n \in 2 .. Len(ram) : shm["ram"].units[n].type = "system"}
        IN  IF system = {} THEN DdrStart = 0
            ELSE \E n \in system : LET start == shm["ram"].units[n].start
                                  IN  DdrStart = IF start % 2 = 0 THEN start ELSE Misaligned

SmemServes == SmemTypeOK /\ BoardAgrees /\ BoardAsDescribed /\ FlashServed /\ ModemPartitionsNamed /\ DdrIsSystem

\* The comment of smem_ptable_init: "Ensure that # of partitions is less than
\* the max we have allocated".  What is allocated is looked at, not what the
\* version has, and on the first read only.
TableWithinRead == ReadDone("flash") /\ flash[1].magic => flash[1].len < Len(flash)

\* The RAM that get_ddr_start reports is RAM to smem_ram_ptn_is_ddr as well.
IsDdr(p) == p.type = "system" /\ p.category \in {"sdram", "ebi"}
DdrIsDdr == (ReadDone("ram") /\ ram[1].magic /\ DdrStart \notin {0, Misaligned}) => \E n \in 2 .. Len(ram) : ram[n].start = DdrStart /\ IsDdr(ram[n])

\* "TODO: Use smem spinlocks" (smem.c:74): the words copied are those of one
\* description.  Without the lock the board may be put together from two.
BoardOfOneDescription ==
    (ReadDone("board") /\ board.platform # 0) =>
        \E d \in Boards :
            /\ Len(d) >= 6
            /\ <<board.platform, board.version, board.hw, board.subtype>> = <<d[2], d[3], d[4], d[6]>>
            /\ board.foundry # 0 => Len(d) >= 10 /\ board.foundry = d[10]

\* Every platform the board may report has a name.
PlatformNamed == ReadDone("board") => board.hw \in Named
=============================================================================
