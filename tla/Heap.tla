-------------------------------- MODULE Heap ---------------------------------
(* malloc, memalign, calloc, realloc and free over the firmware's pools and *)
(* pages (MallocLib/malloc.c).  A header before the data says how the block *)
(* was obtained; free must hand back to the firmware exactly what memalign  *)
(* was given.  Addresses and sizes are bytes; of the contents the model     *)
(* knows how far the owner's fill reaches.                                  *)
EXTENDS Naturals, FiniteSets

CONSTANTS
    Boundaries,         \* what memalign is asked for, beside the 8 of malloc
    HeapSizes,          \* sizes asked for, 0 among them
    PoolBases, PageBases,   \* where the firmware may place a pool and pages
    HeapCalls,          \* bound: calls
    AlignedRealloc      \* whether realloc is called with memalign's blocks

\* AllocatePool returns what is aligned to eight bytes.
ASSUME HeapAssumption ==
    /\ Boundaries \subseteq Nat \ {0} /\ HeapSizes \subseteq Nat
    /\ PoolBases \subseteq {b \in Nat : b % 8 = 0} /\ PageBases \subseteq Nat

VARIABLES
    firmware,   \* what is allocated: [base, length, type]
    header,     \* data pointer -> [Size, Boundary, Type]
    content,    \* data pointer -> how many bytes hold what the owner put there
    owned,      \* the owner's view: pointer -> [size, boundary, filled]
    stray,      \* something was freed that is not allocated
    heapCalls

heapVars == <<firmware, header, content, owned, stray, heapCalls>>

PAGE == 4096
HEAD == 16      \* sizeof(CPOOL_HEAD): four words
ALIGN_VALUE(v, a) == ((v + a - 1) \div a) * a
Pages(bytes) == ((bytes + PAGE - 1) \div PAGE) * PAGE

HeapInit ==
    /\ firmware = {} /\ header = <<>> /\ content = <<>> /\ owned = <<>>
    /\ stray = FALSE /\ heapCalls = 0

\* The firmware: a free place that starts at the boundary, pages whole.
Free(base, length) == \A f \in firmware : f.base + f.length <= base \/ base + length <= f.base
Places(type, length, boundary) ==
    IF type = "pool" THEN {b \in PoolBases : Free(b, length)}
    ELSE {b \in PageBases : b % boundary = 0 /\ Free(b, length)}

Without(f, p) == [q \in DOMAIN f \ {p} |-> f[q]]
With(f, p, v) == [q \in DOMAIN f \cup {p} |-> IF q = p THEN v ELSE f[q]]

TypeOf(boundary) == IF boundary = 8 THEN "pool" ELSE "pages"

\* Mutant of HeadSize: the header as it is, without regard for the boundary.
HeadSizePlain(boundary) == HEAD

HeadSize(boundary) == ALIGN_VALUE(HEAD, boundary)

\* What is taken for a block of this size, pages rounded up.
BlockLength(type, boundary, size) ==
    IF type = "pool" THEN HeadSize(boundary) + size ELSE Pages(HeadSize(boundary) + size)

\* memalign at one of the places the firmware may choose.
Obtain(base, boundary, size, filled) ==
    LET type == TypeOf(boundary)
        ptr == base + HeadSize(boundary)
    IN /\ firmware' = firmware \cup {[base |-> base, length |-> BlockLength(type, boundary, size), type |-> type]}
       /\ header' = With(header, ptr, [Size |-> size, Boundary |-> boundary, Type |-> type])
       /\ content' = With(content, ptr, filled)
       /\ owned' = With(owned, ptr, [size |-> size, boundary |-> boundary, filled |-> filled])

Places8(size) == Places("pool", BlockLength("pool", 8, size), 8)

Called == heapCalls < HeapCalls /\ heapCalls' = heapCalls + 1
NothingHeld == UNCHANGED <<firmware, header, content, owned, stray>>

\* No size, or no memory: NULL.
Memalign ==
    /\ Called
    /\ \E boundary \in Boundaries \cup {8}, size \in HeapSizes :
          \/ NothingHeld
          \/ /\ size # 0 /\ UNCHANGED stray
             /\ \E base \in Places(TypeOf(boundary), BlockLength(TypeOf(boundary), boundary, size), boundary) :
                   Obtain(base, boundary, size, 0)

\* calloc: all of it is filled, with zeroes.
Calloc ==
    /\ Called
    /\ \E count \in {1, 2}, size \in HeapSizes :
          \/ NothingHeld
          \/ /\ size # 0 /\ UNCHANGED stray
             /\ \E base \in Places8(count * size) : Obtain(base, 8, count * size, count * size)

\* The owner fills a block.
Fill ==
    \E p \in DOMAIN owned :
        /\ owned[p].filled < owned[p].size
        /\ owned' = [owned EXCEPT ![p].filled = owned[p].size]
        /\ content' = [content EXCEPT ![p] = owned[p].size]
        /\ UNCHANGED <<firmware, header, stray, heapCalls>>

\* What free hands to the firmware, by the block's header.
Returned(p) ==
    [base |-> p - HeadSize(header[p].Boundary), type |-> header[p].Type,
     length |-> BlockLength(header[p].Type, header[p].Boundary, header[p].Size)]

FreeBlock ==
    /\ Called
    /\ \/ NothingHeld    \* free(NULL)
       \/ \E p \in DOMAIN owned :
             /\ firmware' = firmware \ {Returned(p)}
             /\ stray' = (stray \/ Returned(p) \notin firmware)
             /\ header' = Without(header, p) /\ content' = Without(content, p) /\ owned' = Without(owned, p)

SmallerOf(a, b) == IF a < b THEN a ELSE b

\* How much of the fill CopyMem brings from block p to block q.
Moved(p, q, size) == SmallerOf(content[p], SmallerOf(header[p].Size, size))

\* realloc of NULL is malloc; of no size it is free; the same size keeps the
\* block; a failure too, and returns NULL.
Realloc ==
    /\ Called
    /\ \E size \in HeapSizes :
          \/ /\ size # 0 /\ UNCHANGED stray
             /\ \E base \in Places8(size) : Obtain(base, 8, size, 0)
          \/ NothingHeld
          \/ \E p \in DOMAIN owned :
                /\ header[p].Type = "pool" \/ AlignedRealloc
                /\ size # header[p].Size
                /\ stray' = (stray \/ Returned(p) \notin firmware)
                /\ \/ /\ size = 0 /\ firmware' = firmware \ {Returned(p)}
                      /\ header' = Without(header, p) /\ content' = Without(content, p) /\ owned' = Without(owned, p)
                   \/ /\ size # 0
                      /\ \E base \in Places8(size) :
                            LET q == base + HeadSize(8)
                            IN /\ firmware' = (firmware \ {Returned(p)})
                                   \cup {[base |-> base, length |-> BlockLength("pool", 8, size), type |-> "pool"]}
                               /\ header' = With(Without(header, p), q,
                                                 [Size |-> size, Boundary |-> 8, Type |-> "pool"])
                               /\ content' = With(Without(content, p), q, Moved(p, q, size))
                               /\ owned' = With(Without(owned, p), q,
                                                [size |-> size, boundary |-> owned[p].boundary,
                                                 filled |-> SmallerOf(owned[p].filled, size)])

HeapNext == Memalign \/ Calloc \/ Fill \/ FreeBlock \/ Realloc
HeapSpec == HeapInit /\ [][HeapNext]_heapVars

-----------------------------------------------------------------------------
(* Properties *)

\* Every block the owner holds lies, header and data, in memory of its own that
\* the firmware still has down as allocated, and starts at its boundary unless it
\* was moved; what the owner put there is there after a realloc; and whatever
\* the calls, free returns what was taken, no more, no less and nothing
\* twice: the firmware holds one allocation for every block (memalign, free, realloc).
HeapBalanced ==
    /\ ~stray
    /\ DOMAIN header = DOMAIN owned /\ Cardinality(firmware) = Cardinality(DOMAIN owned)
    /\ \A p \in DOMAIN owned :
          /\ header[p].Size = owned[p].size
          /\ \E f \in firmware :
                /\ f.base + HEAD <= p /\ p + owned[p].size <= f.base + f.length
                /\ \A q \in DOMAIN owned \ {p} : q < f.base \/ q >= f.base + f.length
          /\ p % header[p].Boundary = 0
          /\ content[p] = owned[p].filled

\* "Only malloc pointers are supported" (realloc): what memalign aligned is
\* refused, or stays aligned.
ReallocAligned == \A p \in DOMAIN owned : p % owned[p].boundary = 0
=============================================================================
