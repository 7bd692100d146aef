--------------------------- MODULE PlatformProofs ---------------------------
(* Proofs about the drivers and libraries Platform puts together.  Each is   *)
(* of one part: the steps of the others leave its state alone.               *)
EXTENDS Platform, FiniteSetTheorems, SequenceTheorems, TLAPS

-----------------------------------------------------------------------------
(* Arithmetic.                                                               *)

LEMMA DivBounds ==
    ASSUME NEW x \in Nat, NEW b \in Nat \ {0}
    PROVE  /\ x \div b \in Nat
           /\ (x \div b) * b <= x /\ x < (x \div b) * b + b
BY Z3

LEMMA SumMod ==
    ASSUME NEW x \in Nat, NEW k \in Nat, NEW b \in Nat \ {0}, x % b = 0
    PROVE  (x + k * b) % b = 0
<1>1. PICK n \in Nat : x = n * b
  <2>1. x = (x \div b) * b /\ x \div b \in Nat
    BY Z3
  <2> QED
    BY <2>1
<1>2. x + k * b = (n + k) * b
  BY <1>1, Z3
<1>3. n + k \in Nat
  OBVIOUS
<1>4. \A m \in Nat : (m * b) % b = 0
  BY Z3
<1> QED
  BY <1>2, <1>3, <1>4

\* A value is aligned upwards to the next multiple.
LEMMA Aligned ==
    ASSUME NEW v \in Nat, NEW a \in Nat \ {0}
    PROVE  /\ ALIGN_VALUE(v, a) \in Nat /\ ALIGN_VALUE(v, a) >= v
           /\ \A x \in Nat : x % a = 0 => (x + ALIGN_VALUE(v, a)) % a = 0
<1> DEFINE k == (v + a - 1) \div a
<1>1. v + a - 1 \in Nat
  OBVIOUS
<1>2. k \in Nat /\ v + a - 1 < k * a + a
  BY <1>1, DivBounds
<1>3. ALIGN_VALUE(v, a) = k * a
  BY DEF ALIGN_VALUE
<1> HIDE DEF k
<1>4. k * a \in Nat
  BY <1>2
<1>5. ASSUME NEW x \in Nat, x % a = 0 PROVE (x + k * a) % a = 0
  BY <1>2, <1>5, SumMod
<1> QED
  BY <1>2, <1>3, <1>4, <1>5

-----------------------------------------------------------------------------
(* The heap.                                                                 *)

\* What free would hand back for block p with header h.
BlockOf(p, h) ==
    [base |-> p - HeadSize(h.Boundary), type |-> h.Type,
     length |-> BlockLength(h.Type, h.Boundary, h.Size)]

Apart(f, g) == f.base + f.length <= g.base \/ g.base + g.length <= f.base

HeapHeader == [Size : Nat \ {0}, Boundary : Nat \ {0}, Type : {"pool", "pages"}]
HeapOwner == [size : Nat, boundary : Nat, filled : Nat]

\* A block with its header h, content c and owner o.
BlockFits(p, h, c, o) ==
    /\ h \in HeapHeader /\ o \in HeapOwner
    /\ h.Size = o.size /\ h.Type = TypeOf(h.Boundary)
    /\ c = o.filled /\ o.filled <= o.size
    /\ p % h.Boundary = 0 /\ p >= HeadSize(h.Boundary)

\* The firmware has down what the headers say, in places of their own.
HeapFits(F, H, C, O) ==
    /\ DOMAIN H = DOMAIN O /\ DOMAIN C = DOMAIN O
    /\ DOMAIN O \subseteq Nat /\ IsFiniteSet(DOMAIN O)
    /\ \A p \in DOMAIN O : BlockFits(p, H[p], C[p], O[p])
    /\ F = {BlockOf(p, H[p]) : p \in DOMAIN O}
    /\ \A p, q \in DOMAIN O : p # q => Apart(BlockOf(p, H[p]), BlockOf(q, H[q]))

HeapInv == HeapFits(firmware, header, content, owned) /\ ~stray

\* A header is at least as long as it is wide, and keeps the alignment.
LEMMA HeadSizes ==
    ASSUME NEW b \in Nat \ {0}
    PROVE  /\ HeadSize(b) \in Nat /\ HeadSize(b) >= HEAD
           /\ \A x \in Nat : x % b = 0 => (x + HeadSize(b)) % b = 0
BY Aligned DEF HeadSize, HEAD

LEMMA PagesHold ==
    ASSUME NEW n \in Nat
    PROVE  Pages(n) \in Nat /\ Pages(n) >= n
BY Aligned DEF Pages, PAGE, ALIGN_VALUE

\* A block lies in what was taken for it, header and data.
LEMMA BlockHolds ==
    ASSUME NEW p \in Nat, NEW h, NEW c, NEW o, BlockFits(p, h, c, o)
    PROVE  /\ BlockOf(p, h).base \in Nat /\ BlockOf(p, h).length \in Nat
           /\ BlockOf(p, h).base + HEAD <= p
           /\ p + h.Size <= BlockOf(p, h).base + BlockOf(p, h).length
           /\ p < BlockOf(p, h).base + BlockOf(p, h).length
<1>1. h.Size \in Nat \ {0} /\ h.Boundary \in Nat \ {0}
  BY DEF BlockFits, HeapHeader
<1>2. HeadSize(h.Boundary) \in Nat /\ HeadSize(h.Boundary) >= HEAD /\ HEAD = 16
  BY <1>1, HeadSizes DEF HEAD
<1>3. p >= HeadSize(h.Boundary)
  BY DEF BlockFits
<1>4. HeadSize(h.Boundary) + h.Size \in Nat
  BY <1>1, <1>2
<1>5. BlockLength(h.Type, h.Boundary, h.Size) \in Nat
      /\ BlockLength(h.Type, h.Boundary, h.Size) >= HeadSize(h.Boundary) + h.Size
  BY <1>4, PagesHold DEF BlockLength
<1>6. /\ BlockOf(p, h).base = p - HeadSize(h.Boundary)
      /\ BlockOf(p, h).length = BlockLength(h.Type, h.Boundary, h.Size)
  BY DEF BlockOf
<1> QED
  BY <1>1, <1>2, <1>3, <1>5, <1>6

\* memalign: a free place at the boundary becomes a block.
LEMMA HeapAdds ==
    ASSUME NEW F, NEW H, NEW C, NEW O, HeapFits(F, H, C, O),
           NEW base \in Nat, NEW bound \in Nat \ {0}, NEW size \in Nat \ {0}, NEW o \in HeapOwner,
           o.size = size, o.filled <= size, base % bound = 0,
           NEW length, length = BlockLength(TypeOf(bound), bound, size),
           \A f \in F : f.base + f.length <= base \/ base + length <= f.base
    PROVE  LET q == base + HeadSize(bound)
           IN HeapFits(F \cup {[base |-> base, length |-> length, type |-> TypeOf(bound)]},
                       With(H, q, [Size |-> size, Boundary |-> bound, Type |-> TypeOf(bound)]),
                       With(C, q, o.filled), With(O, q, o))
<1> DEFINE q == base + HeadSize(bound)
           h == [Size |-> size, Boundary |-> bound, Type |-> TypeOf(bound)]
           f == [base |-> base, length |-> length, type |-> TypeOf(bound)]
           D == DOMAIN O
           H1 == With(H, q, h)
           C1 == With(C, q, o.filled)
           O1 == With(O, q, o)
<1>1. HeadSize(bound) \in Nat /\ HeadSize(bound) >= HEAD /\ q % bound = 0
  BY HeadSizes
<1>2. q \in Nat
  BY <1>1
<1>3. h \in HeapHeader
  BY DEF HeapHeader, TypeOf
<1>4. h.Size = size /\ h.Boundary = bound /\ h.Type = TypeOf(bound)
  OBVIOUS
<1> HIDE DEF h
<1>5. BlockFits(q, h, o.filled, o)
  <2>1. q >= HeadSize(bound)
    BY <1>1
  <2> HIDE DEF q
  <2> QED
    BY <1>1, <1>3, <1>4, <2>1 DEF BlockFits
<1>6. BlockOf(q, h) = f
  <2>1. q - HeadSize(bound) = base
    BY <1>1
  <2> HIDE DEF q
  <2> QED
    BY <1>4, <2>1 DEF BlockOf
<1>7. /\ DOMAIN H = D /\ DOMAIN C = D /\ D \subseteq Nat /\ IsFiniteSet(D)
      /\ \A p \in D : BlockFits(p, H[p], C[p], O[p])
      /\ F = {BlockOf(p, H[p]) : p \in D}
      /\ \A p, r \in D : p # r => Apart(BlockOf(p, H[p]), BlockOf(r, H[r]))
  BY DEF HeapFits
<1> HIDE DEF q, f, D
<1>8. ASSUME NEW p \in D PROVE Apart(BlockOf(p, H[p]), f)
  <2>1. BlockOf(p, H[p]) \in F
    BY <1>7
  <2>2. f.base = base /\ f.length = length
    BY DEF f
  <2> QED
    BY <2>1, <2>2 DEF Apart
<1>9. q \notin D
  <2> SUFFICES ASSUME q \in D PROVE FALSE
    OBVIOUS
  <2>1. BlockFits(q, H[q], C[q], O[q])
    BY <1>7
  <2>2. /\ BlockOf(q, H[q]).base \in Nat /\ BlockOf(q, H[q]).length \in Nat
        /\ BlockOf(q, H[q]).base <= q
        /\ q < BlockOf(q, H[q]).base + BlockOf(q, H[q]).length
    BY <1>2, <2>1, BlockHolds DEF HEAD
  <2>3. f.base \in Nat /\ f.length \in Nat /\ f.base <= q /\ q < f.base + f.length
    BY <1>2, <1>5, <1>6, BlockHolds DEF HEAD
  <2>4. Apart(BlockOf(q, H[q]), f)
    BY <1>8
  <2> QED
    BY <1>2, <2>2, <2>3, <2>4 DEF Apart
<1>10. /\ DOMAIN H1 = D \cup {q} /\ DOMAIN C1 = D \cup {q} /\ DOMAIN O1 = D \cup {q}
       /\ H1[q] = h /\ C1[q] = o.filled /\ O1[q] = o
       /\ \A p \in D : H1[p] = H[p] /\ C1[p] = C[p] /\ O1[p] = O[p]
  BY <1>7, <1>9 DEF With, D
<1> HIDE DEF H1, C1, O1
<1>11. D \cup {q} \subseteq Nat /\ IsFiniteSet(D \cup {q})
  BY <1>2, <1>7, FS_AddElement
<1>12. \A p \in D \cup {q} : BlockFits(p, H1[p], C1[p], O1[p])
  BY <1>5, <1>7, <1>10
<1>13. F \cup {f} = {BlockOf(p, H1[p]) : p \in D \cup {q}}
  <2>1. BlockOf(q, H1[q]) = f
    BY <1>6, <1>10
  <2>2. \A p \in D : BlockOf(p, H1[p]) = BlockOf(p, H[p])
    BY <1>10
  <2> QED
    BY <1>7, <2>1, <2>2
<1>14. \A p, r \in D \cup {q} : p # r => Apart(BlockOf(p, H1[p]), BlockOf(r, H1[r]))
  <2>1. BlockOf(q, H1[q]) = f
    BY <1>6, <1>10
  <2>2. \A p \in D : BlockOf(p, H1[p]) = BlockOf(p, H[p])
    BY <1>10
  <2>3. \A p \in D : Apart(BlockOf(p, H[p]), f) /\ Apart(f, BlockOf(p, H[p]))
    BY <1>8 DEF Apart
  <2> QED
    BY <1>7, <2>1, <2>2, <2>3
<1>15. HeapFits(F \cup {f}, H1, C1, O1)
  BY <1>10, <1>11, <1>12, <1>13, <1>14 DEF HeapFits
<1> QED
  BY <1>15 DEF H1, C1, O1, q, f, h

\* free: what is handed back is what was taken.
LEMMA HeapRemoves ==
    ASSUME NEW F, NEW H, NEW C, NEW O, HeapFits(F, H, C, O), NEW p \in DOMAIN O
    PROVE  /\ BlockOf(p, H[p]) \in F
           /\ HeapFits(F \ {BlockOf(p, H[p])}, Without(H, p), Without(C, p), Without(O, p))
<1> DEFINE D == DOMAIN O
           E == D \ {p}
           H1 == Without(H, p)
           C1 == Without(C, p)
           O1 == Without(O, p)
<1>1. /\ DOMAIN H = D /\ DOMAIN C = D /\ D \subseteq Nat /\ IsFiniteSet(D)
      /\ \A q \in D : BlockFits(q, H[q], C[q], O[q])
      /\ F = {BlockOf(q, H[q]) : q \in D}
      /\ \A q, r \in D : q # r => Apart(BlockOf(q, H[q]), BlockOf(r, H[r]))
  BY DEF HeapFits
<1>2. /\ DOMAIN H1 = E /\ DOMAIN C1 = E /\ DOMAIN O1 = E
      /\ \A q \in E : H1[q] = H[q] /\ C1[q] = C[q] /\ O1[q] = O[q]
  BY <1>1 DEF Without
<1> HIDE DEF H1, C1, O1
<1>3. ASSUME NEW q \in E PROVE BlockOf(q, H[q]) # BlockOf(p, H[p])
  <2>1. Apart(BlockOf(q, H[q]), BlockOf(p, H[p]))
    BY <1>1
  <2>2. BlockFits(p, H[p], C[p], O[p]) /\ p \in Nat
    BY <1>1
  <2>3. /\ BlockOf(p, H[p]).base \in Nat /\ BlockOf(p, H[p]).length \in Nat
        /\ BlockOf(p, H[p]).base <= p
        /\ p < BlockOf(p, H[p]).base + BlockOf(p, H[p]).length
    BY <2>2, BlockHolds DEF HEAD
  <2> QED
    BY <2>1, <2>2, <2>3 DEF Apart
<1>4. F \ {BlockOf(p, H[p])} = {BlockOf(q, H1[q]) : q \in E}
  <2>1. \A q \in E : BlockOf(q, H1[q]) = BlockOf(q, H[q])
    BY <1>2
  <2> QED
    BY <1>1, <1>3, <2>1
<1>5. IsFiniteSet(E) /\ E \subseteq Nat
  BY <1>1, FS_RemoveElement
<1>6. \A q \in E : BlockFits(q, H1[q], C1[q], O1[q])
  BY <1>1, <1>2
<1>7. \A q, r \in E : q # r => Apart(BlockOf(q, H1[q]), BlockOf(r, H1[r]))
  BY <1>1, <1>2
<1>8. HeapFits(F \ {BlockOf(p, H[p])}, H1, C1, O1)
  BY <1>2, <1>4, <1>5, <1>6, <1>7 DEF HeapFits
<1>9. BlockOf(p, H[p]) \in F
  BY <1>1
<1> QED
  BY <1>8, <1>9 DEF H1, C1, O1

LEMMA HeapInvBegins == HeapInit => HeapInv
BY FS_EmptySet DEF HeapInit, HeapInv, HeapFits

\* What the invariant says of one block that is freed.
LEMMA HeapFrees ==
    ASSUME HeapInv, NEW p \in DOMAIN owned
    PROVE  /\ Returned(p) \in firmware
           /\ HeapFits(firmware \ {Returned(p)}, Without(header, p), Without(content, p),
                       Without(owned, p))
           /\ p \in Nat /\ BlockFits(p, header[p], content[p], owned[p])
<1>1. HeapFits(firmware, header, content, owned)
  BY DEF HeapInv
<1>2. Returned(p) = BlockOf(p, header[p])
  BY DEF Returned, BlockOf
<1>3. p \in Nat /\ BlockFits(p, header[p], content[p], owned[p])
  BY <1>1 DEF HeapFits
<1> QED
  BY <1>1, <1>2, <1>3, HeapRemoves

LEMMA PlacesAre ==
    ASSUME NEW bound \in Boundaries \cup {8}, NEW length,
           NEW base \in Places(TypeOf(bound), length, bound)
    PROVE  base \in Nat /\ bound \in Nat \ {0} /\ base % bound = 0 /\ Free(base, length)
BY HeapAssumption DEF Places, TypeOf

LEMMA ObtainFits ==
    ASSUME HeapInv, NEW bound \in Boundaries \cup {8}, NEW size \in Nat \ {0},
           NEW base \in Places(TypeOf(bound), BlockLength(TypeOf(bound), bound, size), bound),
           NEW filled \in 0 .. size, Obtain(base, bound, size, filled), UNCHANGED stray
    PROVE  HeapInv'
<1> DEFINE length == BlockLength(TypeOf(bound), bound, size)
           o == [size |-> size, boundary |-> bound, filled |-> filled]
           q == base + HeadSize(bound)
<1>1. base \in Nat /\ bound \in Nat \ {0} /\ base % bound = 0 /\ Free(base, length)
  BY PlacesAre
<1>2. o \in HeapOwner /\ o.size = size /\ o.filled = filled /\ filled <= size /\ filled \in Nat
  BY <1>1 DEF HeapOwner
<1>3. HeapFits(firmware, header, content, owned) /\ ~stray
  BY DEF HeapInv
<1>4. /\ firmware' = firmware \cup {[base |-> base, length |-> length, type |-> TypeOf(bound)]}
      /\ header' = With(header, q, [Size |-> size, Boundary |-> bound, Type |-> TypeOf(bound)])
      /\ content' = With(content, q, filled) /\ owned' = With(owned, q, o)
  BY DEF Obtain
<1>5. \A f \in firmware : f.base + f.length <= base \/ base + length <= f.base
  BY <1>1 DEF Free
<1> HIDE DEF length, o, q
<1>6. HeapFits(firmware \cup {[base |-> base, length |-> length, type |-> TypeOf(bound)]},
               With(header, q, [Size |-> size, Boundary |-> bound, Type |-> TypeOf(bound)]),
               With(content, q, o.filled), With(owned, q, o))
  BY <1>1, <1>2, <1>3, <1>5, HeapAdds DEF length, q
<1>7. HeapFits(firmware', header', content', owned')
  BY <1>2, <1>4, <1>6
<1> QED
  BY <1>3, <1>7 DEF HeapInv, HeapFits, BlockFits, BlockOf, Apart

LEMMA HeapInvKept ==
    ASSUME HeapInv, [HeapNext]_heapVars
    PROVE  HeapInv'
<1>1. HeapFits(firmware, header, content, owned) /\ ~stray
  BY DEF HeapInv
<1>2. ASSUME HeapFits(firmware', header', content', owned'), ~stray'
      PROVE  HeapInv'
  BY <1>2 DEF HeapInv, HeapFits, BlockFits, BlockOf, Apart
<1>3. ASSUME UNCHANGED <<firmware, header, content, owned, stray>>
      PROVE  HeapInv'
  BY <1>1, <1>2, <1>3
<1>5. ASSUME NEW size \in Nat \ {0}, NEW base \in Places8(size),
             NEW filled \in 0 .. size, Obtain(base, 8, size, filled), UNCHANGED stray
      PROVE  HeapInv'
  <2>1. base \in Places(TypeOf(8), BlockLength(TypeOf(8), 8, size), 8)
    BY <1>5 DEF Places8, TypeOf
  <2> QED
    BY <1>5, <2>1, ObtainFits
<1>6. ASSUME NEW p \in DOMAIN owned, stray' = (stray \/ Returned(p) \notin firmware),
             firmware' = firmware \ {Returned(p)}, header' = Without(header, p),
             content' = Without(content, p), owned' = Without(owned, p)
      PROVE  HeapInv'
  <2>1. HeapFits(firmware', header', content', owned')
    BY <1>6, HeapFrees
  <2>2. ~stray'
    BY <1>1, <1>6, HeapFrees
  <2> QED
    BY <1>2, <2>1, <2>2
<1>7. CASE Memalign
  <2>1. PICK bound \in Boundaries \cup {8}, size \in HeapSizes :
           \/ NothingHeld
           \/ /\ size # 0 /\ UNCHANGED stray
              /\ \E base \in Places(TypeOf(bound), BlockLength(TypeOf(bound), bound, size), bound) :
                    Obtain(base, bound, size, 0)
    BY <1>7 DEF Memalign
  <2>2. ASSUME size # 0, UNCHANGED stray,
               NEW base \in Places(TypeOf(bound), BlockLength(TypeOf(bound), bound, size), bound),
               Obtain(base, bound, size, 0)
        PROVE  HeapInv'
    <3>1. size \in Nat \ {0} /\ 0 \in 0 .. size
      BY <2>2, HeapAssumption
    <3> QED
      BY <2>2, <3>1, ObtainFits
  <2> QED
    BY <1>3, <2>1, <2>2 DEF NothingHeld
<1>8. CASE Calloc
  <2>1. PICK times \in {1, 2}, size \in HeapSizes :
           \/ NothingHeld
           \/ /\ size # 0 /\ UNCHANGED stray
              /\ \E base \in Places8(times * size) : Obtain(base, 8, times * size, times * size)
    BY <1>8 DEF Calloc
  <2>2. ASSUME size # 0, UNCHANGED stray,
               NEW base \in Places8(times * size), Obtain(base, 8, times * size, times * size)
        PROVE  HeapInv'
    <3> DEFINE n == times * size
    <3>1. n \in Nat \ {0}
      BY <2>2, HeapAssumption
    <3>2. base \in Places8(n) /\ Obtain(base, 8, n, n)
      BY <2>2
    <3> HIDE DEF n
    <3>3. n \in 0 .. n
      BY <3>1
    <3> QED
      BY <1>5, <2>2, <3>1, <3>2, <3>3
  <2> QED
    BY <1>3, <2>1, <2>2 DEF NothingHeld
<1>9. CASE Fill
  <2>1. PICK p \in DOMAIN owned :
           /\ owned' = [owned EXCEPT ![p].filled = owned[p].size]
           /\ content' = [content EXCEPT ![p] = owned[p].size]
           /\ UNCHANGED <<firmware, header, stray>>
    BY <1>9 DEF Fill
  <2>2. /\ DOMAIN header = DOMAIN owned /\ DOMAIN content = DOMAIN owned
        /\ DOMAIN owned \subseteq Nat /\ IsFiniteSet(DOMAIN owned)
        /\ \A q \in DOMAIN owned : BlockFits(q, header[q], content[q], owned[q])
        /\ firmware = {BlockOf(q, header[q]) : q \in DOMAIN owned}
        /\ \A q, r \in DOMAIN owned : q # r => Apart(BlockOf(q, header[q]), BlockOf(r, header[r]))
    BY <1>1 DEF HeapFits
  <2>3. /\ DOMAIN owned' = DOMAIN owned /\ DOMAIN content' = DOMAIN content
        /\ \A q \in DOMAIN owned \ {p} : owned'[q] = owned[q] /\ content'[q] = content[q]
        /\ owned'[p] = [owned[p] EXCEPT !.filled = owned[p].size]
        /\ content'[p] = owned[p].size
    BY <2>1, <2>2
  <2>4. BlockFits(p, header[p], content'[p], owned'[p])
    <3>1. BlockFits(p, header[p], content[p], owned[p])
      BY <2>2
    <3>2. owned[p] \in HeapOwner
      BY <3>1 DEF BlockFits
    <3>3. /\ owned'[p] \in HeapOwner /\ owned'[p].size = owned[p].size
          /\ owned'[p].filled = owned[p].size /\ owned[p].size \in Nat
      BY <2>3, <3>2 DEF HeapOwner
    <3> QED
      BY <2>3, <3>1, <3>3 DEF BlockFits
  <2>5. HeapFits(firmware', header', content', owned')
    <3>1. \A q \in DOMAIN owned : BlockFits(q, header[q], content'[q], owned'[q])
      BY <2>2, <2>3, <2>4
    <3>2. firmware' = firmware /\ header' = header
      BY <2>1
    <3> QED
      BY <2>2, <2>3, <3>1, <3>2 DEF HeapFits
  <2> QED
    BY <1>1, <1>2, <2>1, <2>5
<1>10. CASE FreeBlock
  BY <1>3, <1>6, <1>10 DEF FreeBlock, NothingHeld
<1>11. CASE Realloc
  <2>1. PICK size \in HeapSizes :
          \/ /\ size # 0 /\ UNCHANGED stray
             /\ \E base \in Places8(size) : Obtain(base, 8, size, 0)
          \/ NothingHeld
          \/ \E p \in DOMAIN owned :
                /\ stray' = (stray \/ Returned(p) \notin firmware)
                /\ \/ /\ size = 0 /\ firmware' = firmware \ {Returned(p)}
                      /\ header' = Without(header, p) /\ content' = Without(content, p) /\ owned' = Without(owned, p)
                   \/ /\ size # 0
                      /\ \E base \in Places8(size) :
                            LET q == base + HeadSize(8)
                            IN /\ firmware' = (firmware \ {Returned(p)})
                                   \cup {[base |-> base, length |-> BlockLength("pool", 8, size), type |-> "pool"]}
                               /\ header' = With(Without(header, p), q,
                                                 [Size |-> size, Boundary |-> 8, Type |-> "pool"])
                               /\ content' = With(Without(content, p), q, Moved(p, q, size))
                               /\ owned' = With(Without(owned, p), q,
                                                [size |-> size, boundary |-> owned[p].boundary,
                                                 filled |-> SmallerOf(owned[p].filled, size)])
    BY <1>11 DEF Realloc
  <2>2. size \in Nat
    BY HeapAssumption
  <2>3. ASSUME size # 0, UNCHANGED stray, NEW base \in Places8(size), Obtain(base, 8, size, 0)
        PROVE  HeapInv'
    BY <1>5, <2>2, <2>3
  <2>4. ASSUME size # 0, NEW p \in DOMAIN owned, NEW base \in Places8(size),
               stray' = (stray \/ Returned(p) \notin firmware),
               firmware' = (firmware \ {Returned(p)})
                   \cup {[base |-> base, length |-> BlockLength("pool", 8, size), type |-> "pool"]},
               header' = With(Without(header, p), base + HeadSize(8),
                              [Size |-> size, Boundary |-> 8, Type |-> "pool"]),
               content' = With(Without(content, p), base + HeadSize(8),
                               Moved(p, base + HeadSize(8), size)),
               owned' = With(Without(owned, p), base + HeadSize(8),
                             [size |-> size, boundary |-> owned[p].boundary,
                              filled |-> SmallerOf(owned[p].filled, size)])
        PROVE  HeapInv'
    <3> DEFINE o == [size |-> size, boundary |-> owned[p].boundary,
                     filled |-> SmallerOf(owned[p].filled, size)]
               length == BlockLength(TypeOf(8), 8, size)
               F == firmware \ {Returned(p)}
    <3>1. /\ Returned(p) \in firmware
          /\ HeapFits(F, Without(header, p), Without(content, p), Without(owned, p))
          /\ BlockFits(p, header[p], content[p], owned[p])
      BY HeapFrees
    <3>2. TypeOf(8) = "pool"
      BY DEF TypeOf
    <3>3. base \in Places(TypeOf(8), length, 8)
      BY <3>2 DEF Places8
    <3>4. base \in Nat /\ base % 8 = 0 /\ Free(base, length)
      BY <3>3, PlacesAre
    <3>5. owned[p] \in HeapOwner /\ owned[p].filled \in Nat /\ owned[p].boundary \in Nat
      BY <3>1 DEF BlockFits, HeapOwner
    <3>6. SmallerOf(owned[p].filled, size) \in Nat /\ SmallerOf(owned[p].filled, size) <= size
      BY <2>2, <3>5 DEF SmallerOf
    <3>7. o \in HeapOwner /\ o.size = size /\ o.filled = SmallerOf(owned[p].filled, size)
      BY <2>2, <3>5, <3>6 DEF HeapOwner
    <3>8. Moved(p, base + HeadSize(8), size) = SmallerOf(owned[p].filled, size)
      <4>1. /\ content[p] = owned[p].filled /\ owned[p].filled <= header[p].Size
            /\ header[p].Size \in Nat
        BY <3>1, <3>5 DEF BlockFits, HeapHeader
      <4> QED
        BY <2>2, <3>5, <4>1 DEF Moved, SmallerOf
    <3>9. \A f \in F : f.base + f.length <= base \/ base + length <= f.base
      BY <3>4 DEF Free
    <3> HIDE DEF o, length, F
    <3>10. 8 \in Nat \ {0} /\ size \in Nat \ {0} /\ o.filled <= size
      BY <2>2, <2>4, <3>6, <3>7
    <3>11. HeapFits(F \cup {[base |-> base, length |-> length, type |-> TypeOf(8)]},
                    With(Without(header, p), base + HeadSize(8),
                         [Size |-> size, Boundary |-> 8, Type |-> TypeOf(8)]),
                    With(Without(content, p), base + HeadSize(8), o.filled),
                    With(Without(owned, p), base + HeadSize(8), o))
      BY <3>1, <3>4, <3>7, <3>9, <3>10, HeapAdds DEF length
    <3>12. /\ firmware' = F \cup {[base |-> base, length |-> length, type |-> TypeOf(8)]}
           /\ header' = With(Without(header, p), base + HeadSize(8),
                             [Size |-> size, Boundary |-> 8, Type |-> TypeOf(8)])
           /\ content' = With(Without(content, p), base + HeadSize(8), o.filled)
           /\ owned' = With(Without(owned, p), base + HeadSize(8), o)
      BY <2>4, <3>2, <3>7, <3>8 DEF F, length, o
    <3>13. ~stray'
      BY <1>1, <2>4, <3>1
    <3> QED
      BY <1>2, <3>11, <3>12, <3>13
  <2> QED
    BY <1>3, <1>6, <2>1, <2>3, <2>4 DEF NothingHeld
<1>12. CASE UNCHANGED heapVars
  BY <1>3, <1>12 DEF heapVars
<1> QED
  BY <1>7, <1>8, <1>9, <1>10, <1>11, <1>12 DEF HeapNext

LEMMA InvIsBalanced == HeapInv => HeapBalanced
<1> SUFFICES ASSUME HeapInv PROVE HeapBalanced
  OBVIOUS
<1> DEFINE D == DOMAIN owned
           B(p) == BlockOf(p, header[p])
<1>1. /\ DOMAIN header = D /\ DOMAIN content = D /\ D \subseteq Nat /\ IsFiniteSet(D)
      /\ \A p \in D : BlockFits(p, header[p], content[p], owned[p])
      /\ firmware = {B(p) : p \in D}
      /\ \A p, q \in D : p # q => Apart(B(p), B(q))
      /\ ~stray
  BY DEF HeapInv, HeapFits
<1>2. ASSUME NEW p \in D
      PROVE  /\ B(p).base \in Nat /\ B(p).length \in Nat
             /\ B(p).base + HEAD <= p
             /\ p + header[p].Size <= B(p).base + B(p).length
             /\ p < B(p).base + B(p).length
  BY <1>1, BlockHolds
<1> HIDE DEF D, B
<1>3. \A p, q \in D : B(p) = B(q) => p = q
  <2> SUFFICES ASSUME NEW p \in D, NEW q \in D, B(p) = B(q), p # q PROVE FALSE
    OBVIOUS
  <2>1. p \in Nat /\ B(p).base \in Nat /\ B(p).length \in Nat /\ B(p).base <= p
        /\ p < B(p).base + B(p).length
    BY <1>1, <1>2 DEF HEAD
  <2>2. Apart(B(p), B(p))
    BY <1>1
  <2> QED
    BY <2>1, <2>2 DEF Apart
<1>4. Cardinality(firmware) = Cardinality(D)
  <2> DEFINE f == [p \in D |-> B(p)]
  <2>1. f \in [D -> firmware] /\ \A t \in firmware : \E p \in D : f[p] = t
    BY <1>1
  <2>2. \A a, b \in DOMAIN f : f[a] = f[b] => a = b
    BY <1>3
  <2> HIDE DEF f
  <2>3. f \in Bijection(D, firmware)
    BY <2>1, <2>2 DEF Bijection, Injection, Surjection, IsInjective
  <2>4. ExistsBijection(D, firmware)
    BY <2>3 DEF ExistsBijection
  <2> QED
    BY <1>1, <2>4, FS_Bijection
<1>5. ASSUME NEW p \in D
      PROVE  \E f \in firmware :
                /\ f.base + HEAD <= p /\ p + owned[p].size <= f.base + f.length
                /\ \A q \in D \ {p} : q < f.base \/ q >= f.base + f.length
  <2>1. header[p].Size = owned[p].size
    BY <1>1 DEF BlockFits
  <2>2. ASSUME NEW q \in D \ {p} PROVE q < B(p).base \/ q >= B(p).base + B(p).length
    <3>1. Apart(B(p), B(q))
      BY <1>1
    <3>2. q \in Nat /\ B(q).base \in Nat /\ B(q).length \in Nat /\ B(q).base <= q
          /\ q < B(q).base + B(q).length
      BY <1>1, <1>2 DEF HEAD
    <3>3. B(p).base \in Nat /\ B(p).length \in Nat
      BY <1>2
    <3> QED
      BY <3>1, <3>2, <3>3 DEF Apart
  <2>3. B(p) \in firmware
    BY <1>1
  <2> QED
    BY <1>2, <2>1, <2>2, <2>3
<1>6. \A p \in D : header[p].Size = owned[p].size /\ p % header[p].Boundary = 0
                   /\ content[p] = owned[p].filled
  BY <1>1 DEF BlockFits
<1> QED
  BY <1>1, <1>4, <1>5, <1>6 DEF HeapBalanced, D

LEMMA HeapStep == PlatformNext => [HeapNext]_heapVars
BY DEF PlatformNext, LibrariesRest

\* Whatever malloc, memalign, calloc, realloc and free are called with and
\* wherever the firmware puts the blocks, the firmware holds exactly one
\* allocation for every block of the owner, of the right extent and place.
THEOREM HeapBalancedHolds == PlatformSpec => []HeapBalanced
<1>1. PlatformInit => HeapInv
  BY HeapInvBegins DEF PlatformInit
<1>2. HeapInv /\ [PlatformNext]_platformVars => HeapInv'
  <2>1. [PlatformNext]_platformVars => [HeapNext]_heapVars
    BY HeapStep DEF platformVars
  <2> QED
    BY <2>1, HeapInvKept
<1>3. HeapInv => HeapBalanced
  BY InvIsBalanced
<1> QED
  BY <1>1, <1>2, <1>3, PTL DEF PlatformSpec

-----------------------------------------------------------------------------
(* Interrupts.                                                               *)

\* A step of a walk along the forward links, and where the walk comes.
Follow(n) == IF n = ListHead THEN ListHead ELSE links.fwd[n]

LEMMA WalkIs ==
    Walk = {links.fwd[ListHead], Follow(links.fwd[ListHead]), Follow(Follow(links.fwd[ListHead])),
            Follow(Follow(Follow(links.fwd[ListHead])))} \ {ListHead}
<1> DEFINE a == links.fwd[ListHead]
           Is(next) == next = [k \in 0 .. WalkBound |->
               IF k = 0 THEN links.fwd[ListHead]
               ELSE IF next[k - 1] = ListHead THEN ListHead ELSE links.fwd[next[k - 1]]]
           next == CHOOSE next : Is(next)
           f == [k \in 0 .. 3 |-> IF k = 0 THEN a ELSE IF k = 1 THEN Follow(a)
                    ELSE IF k = 2 THEN Follow(Follow(a)) ELSE Follow(Follow(Follow(a)))]
<1>1. WalkBound = 3
  BY DEF WalkBound
<1>2. Walk = {next[k] : k \in DOMAIN next} \ {ListHead}
  BY DEF Walk
<1>3. Is(f)
  <2> SUFFICES f = [k \in 0 .. 3 |->
               IF k = 0 THEN a
               ELSE IF f[k - 1] = ListHead THEN ListHead ELSE links.fwd[f[k - 1]]]
    BY <1>1
  <2> HIDE DEF a
  <2>1. /\ f[0] = a /\ f[1] = Follow(a) /\ f[2] = Follow(Follow(a))
        /\ f[3] = Follow(Follow(Follow(a)))
        /\ f = [k \in 0 .. 3 |-> f[k]]
    OBVIOUS
  <2> HIDE DEF f
  <2>2. ASSUME NEW k \in 0 .. 3
        PROVE  f[k] = IF k = 0 THEN a
                      ELSE IF f[k - 1] = ListHead THEN ListHead ELSE links.fwd[f[k - 1]]
    <3>1. CASE k = 0
      BY <2>1, <3>1
    <3>2. CASE k = 1
      <4>1. k - 1 = 0
        BY <3>2
      <4> QED
        BY <2>1, <3>2, <4>1 DEF Follow
    <3>3. CASE k = 2
      <4>1. k - 1 = 1
        BY <3>3
      <4> QED
        BY <2>1, <3>3, <4>1 DEF Follow
    <3>4. CASE k = 3
      <4>1. k - 1 = 2
        BY <3>4
      <4> QED
        BY <2>1, <3>4, <4>1 DEF Follow
    <3> QED
      BY <3>1, <3>2, <3>3, <3>4
  <2> QED
    BY <2>1, <2>2
<1>4. Is(next)
  <2> HIDE DEF Is
  <2> QED
    BY <1>3
<1>5. /\ DOMAIN next = 0 .. 3 /\ next[0] = a
      /\ \A k \in 1 .. 3 : next[k] = Follow(next[k - 1])
  <2> HIDE DEF next
  <2>1. next = [k \in 0 .. 3 |->
               IF k = 0 THEN links.fwd[ListHead]
               ELSE IF next[k - 1] = ListHead THEN ListHead ELSE links.fwd[next[k - 1]]]
    BY <1>1, <1>4
  <2>2. DOMAIN next = 0 .. 3
    BY <2>1
  <2>3. \A k \in 0 .. 3 : next[k] = IF k = 0 THEN links.fwd[ListHead]
               ELSE IF next[k - 1] = ListHead THEN ListHead ELSE links.fwd[next[k - 1]]
    BY <2>1
  <2>4. \A k \in 1 .. 3 : k \in 0 .. 3 /\ k # 0
    OBVIOUS
  <2> QED
    BY <2>2, <2>3, <2>4 DEF Follow
<1> HIDE DEF next, a
<1>6. next[1] = Follow(a) /\ next[2] = Follow(Follow(a)) /\ next[3] = Follow(Follow(Follow(a)))
  <2>1. next[1] = Follow(next[1 - 1]) /\ next[2] = Follow(next[2 - 1]) /\ next[3] = Follow(next[3 - 1])
    BY <1>5
  <2>2. 1 - 1 = 0 /\ 2 - 1 = 1 /\ 3 - 1 = 2
    OBVIOUS
  <2>3. next[1] = Follow(next[0]) /\ next[2] = Follow(next[1]) /\ next[3] = Follow(next[2])
    BY <2>1, <2>2
  <2> QED
    BY <1>5, <2>3
<1>7. 0 .. 3 = {0, 1, 2, 3}
  OBVIOUS
<1>8. {next[k] : k \in DOMAIN next} = {next[0], next[1], next[2], next[3]}
  BY <1>5, <1>7
<1> QED
  BY <1>2, <1>5, <1>6, <1>8 DEF a

\* Where the application is in its start.
Registering == {"fill", "link", "last", "register", "mask", "unmask"}
Registers(v, steps) == ipc.at \in steps /\ ipc.v = v
PowerAhead == Registers("summary", Registering) \/ ipc.at = "clear"

IrqAt ==
    \/ ipc \in [at : Registering, v : Vectors]
    \/ ipc \in [at : {"clear", "power on"}, v : {"power"}]
    \/ ipc = [at |-> "work", v |-> "none"]
    \/ ipc \in [at : {"dual read", "dual flip", "dual look", "read"}, p : IrqPins]

\* The list, link by link: the head, the summary's node, the controller's node.
SummaryOut == Registers("summary", {"fill", "link"})
PowerOut == PowerAhead \/ Registers("power", {"fill", "link"})
IrqList ==
    /\ links \in [fwd : [Nodes \cup {ListHead} -> Nodes \cup {ListHead, "garbage"}],
                  last : Nodes \cup {ListHead}]
    /\ SummaryOut => links.fwd[ListHead] = ListHead
    /\ ~SummaryOut => links.fwd[ListHead] = "summary"
    /\ ~SummaryOut /\ PowerOut => links.fwd["summary"] = ListHead
    /\ ~PowerOut => links.fwd["summary"] = "power" /\ links.fwd["power"] = ListHead
    /\ Registers("summary", {"link"}) => links.fwd["summary"] = ListHead
    /\ Registers("power", {"link"}) => links.fwd["power"] = ListHead
    /\ Registers("summary", {"fill", "link", "last"}) => links.last = ListHead
    /\ PowerOut /\ ~Registers("summary", {"fill", "link", "last"}) => links.last = "summary"

\* A node in the list has been filled in.
IrqEntries ==
    /\ entry \in [Nodes -> [vector : Vectors \cup {"none"}]]
    /\ ~Registers("summary", {"fill"}) => entry["summary"].vector = "summary"
    /\ ~PowerAhead /\ ~Registers("power", {"fill"}) => entry["power"].vector = "power"

\* A source is on from its user's unmasking, or masked by the task priority.
IrqSources ==
    /\ gic \in [Vectors -> [registered : BOOLEAN, enabled : BOOLEAN]]
    /\ tpl \in {"app", "high"}
    /\ \A v \in Vectors : gic[v].enabled => gic[v].registered
    /\ \A v \in Vectors : gic[v].registered => ~Registers(v, {"fill", "link", "last", "register"})
    /\ \A v \in Vectors : gic[v].enabled => ~Registers(v, Registering \ {"mask"})
    /\ \A v \in Vectors : Registers(v, {"mask", "unmask"}) => gic[v].registered
    /\ PowerAhead => ~gic["power"].registered
    /\ ipc.at = "mask" => tpl = "high"

\* What the reset left pending is gone when the controller registers.
IrqPower ==
    /\ power \in [mask : BOOLEAN, request : BOOLEAN, asked : Nat, event : Nat]
    /\ ~PowerAhead /\ power.request => power.asked > 0

\* The bitmap knows every pin whose interrupt is on.
IrqBitmap ==
    /\ DOMAIN cfg = IrqPins
    /\ \A p \in IrqPins : cfg[p] \in [enable : BOOLEAN, detect : {"none", "rising", "falling", "both", "edge"},
                                      polarity : {0, 1}, target : {"none", "kpss"}]
    /\ enabledIrqs \subseteq IrqPins /\ dualEdge \subseteq IrqPins
    /\ \A p \in IrqPins : cfg[p].enable => p \in enabledIrqs

IrqInv ==
    /\ IrqAt /\ IrqList /\ IrqEntries /\ IrqSources /\ IrqPower /\ IrqBitmap
    /\ trouble = "none"

LEMMA FollowLinks ==
    ASSUME IrqList
    PROVE  /\ SummaryOut => Walk = {}
           /\ ~SummaryOut /\ PowerOut => Walk = {"summary"}
           /\ ~PowerOut => Walk = {"summary", "power"}
<1> DEFINE a == links.fwd[ListHead]
<1>1. Walk = {a, Follow(a), Follow(Follow(a)), Follow(Follow(Follow(a)))} \ {ListHead}
  BY WalkIs
<1>2. Follow(ListHead) = ListHead
  BY DEF Follow
<1>3. /\ Follow("summary") = links.fwd["summary"] /\ Follow("power") = links.fwd["power"]
      /\ "summary" # ListHead /\ "power" # ListHead
  BY DEF Follow, ListHead
<1>4. SummaryOut => PowerOut
  BY DEF SummaryOut, PowerOut, PowerAhead, Registers, Registering
<1>5. ASSUME SummaryOut PROVE Walk = {}
  <2>1. a = ListHead
    BY <1>5 DEF IrqList
  <2> HIDE DEF a
  <2> QED
    BY <1>1, <1>2, <2>1
<1>6. ASSUME ~SummaryOut, PowerOut PROVE Walk = {"summary"}
  <2>1. a = "summary" /\ links.fwd["summary"] = ListHead
    BY <1>6 DEF IrqList
  <2> HIDE DEF a
  <2>2. Follow(a) = ListHead
    BY <1>3, <2>1
  <2> QED
    BY <1>1, <1>2, <1>3, <2>1, <2>2
<1>7. ASSUME ~PowerOut PROVE Walk = {"summary", "power"}
  <2>1. a = "summary" /\ links.fwd["summary"] = "power" /\ links.fwd["power"] = ListHead
    BY <1>4, <1>7 DEF IrqList
  <2> HIDE DEF a
  <2>2. Follow(a) = "power" /\ Follow(Follow(a)) = ListHead
    BY <1>3, <2>1
  <2> QED
    BY <1>1, <1>2, <1>3, <2>1, <2>2
<1> QED
  BY <1>5, <1>6, <1>7

\* The one entry of a vector that is in the list.
LEMMA EntryFound ==
    ASSUME IrqInv, NEW v \in Vectors, v = "summary" => ~SummaryOut, v = "power" => ~PowerOut
    PROVE  GetInterruptHandlerEntry(v) = {v}
<1>1. IrqList /\ IrqEntries
  BY DEF IrqInv
<1>2. v = "summary" \/ v = "power"
  BY DEF Vectors
<1>3. SummaryOut => PowerOut
  BY DEF SummaryOut, PowerOut, PowerAhead, Registers, Registering
<1>4. ASSUME ~SummaryOut PROVE entry["summary"].vector = "summary"
  BY <1>1, <1>4 DEF IrqEntries, SummaryOut, Registers
<1>5. ASSUME ~PowerOut PROVE entry["power"].vector = "power"
  BY <1>1, <1>5 DEF IrqEntries, PowerOut, Registers
<1>6. CASE PowerOut
  <2>1. Walk = {"summary"} /\ v = "summary"
    BY <1>1, <1>2, <1>6, FollowLinks
  <2> QED
    BY <1>4, <2>1 DEF GetInterruptHandlerEntry
<1>7. CASE ~PowerOut
  <2>1. Walk = {"summary", "power"}
    BY <1>1, <1>7, FollowLinks
  <2>2. entry["summary"].vector = "summary" /\ entry["power"].vector = "power"
    BY <1>3, <1>4, <1>5, <1>7
  <2> QED
    BY <1>2, <2>1, <2>2 DEF GetInterruptHandlerEntry
<1> QED
  BY <1>6, <1>7

LEMMA IrqIsExpected == IrqInv => InterruptsExpected
<1> SUFFICES ASSUME IrqInv PROVE InterruptsExpected
  OBVIOUS
<1>1. IrqList /\ IrqEntries /\ IrqSources /\ IrqBitmap /\ trouble = "none"
  BY DEF IrqInv
<1>2. SummaryOut => PowerOut
  BY DEF SummaryOut, PowerOut, PowerAhead, Registers, Registering
<1>3. Walk \subseteq Nodes
  BY <1>1, <1>2, FollowLinks DEF Nodes, Vectors
<1>4. ASSUME NEW n \in Walk PROVE entry[n].vector = n
  <2>1. n \in Vectors /\ (n = "summary" => ~SummaryOut) /\ (n = "power" => ~PowerOut)
    BY <1>1, <1>2, <1>4, FollowLinks DEF Vectors
  <2>2. GetInterruptHandlerEntry(n) = {n}
    BY <2>1, EntryFound
  <2> QED
    BY <2>2 DEF GetInterruptHandlerEntry
<1>5. ASSUME NEW v \in Vectors, gic[v].registered
      PROVE  \E n \in Nodes : GetInterruptHandlerEntry(v) = {n}
  <2>1. ~Registers(v, {"fill", "link", "last", "register"})
    BY <1>1, <1>5 DEF IrqSources
  <2>2. v = "power" => ~PowerAhead
    BY <1>1, <1>5 DEF IrqSources
  <2>3. (v = "summary" => ~SummaryOut) /\ (v = "power" => ~PowerOut)
    BY <2>1, <2>2 DEF SummaryOut, PowerOut, Registers
  <2>4. GetInterruptHandlerEntry(v) = {v}
    BY <2>3, EntryFound
  <2> QED
    BY <2>4 DEF Nodes
<1>6. IrqOk
  BY <1>1 DEF IrqOk, IrqSources, IrqBitmap
<1> QED
  BY <1>1, <1>3, <1>4, <1>5, <1>6 DEF InterruptsExpected, ListSound

\* What rests on the registrations alone stays while they rest.
LEMMA IrqSame ==
    ASSUME IrqInv, UNCHANGED <<ipc, links, entry, gic, tpl>>
    PROVE  IrqAt' /\ IrqList' /\ IrqEntries' /\ IrqSources'
BY DEF IrqInv, IrqAt, IrqList, IrqEntries, IrqSources, SummaryOut, PowerOut, PowerAhead, Registers

LEMMA IrqAfter ==
    ASSUME IrqInv, UNCHANGED <<links, entry, gic>>, tpl' \in {"app", "high"},
           ipc.at \notin Registering \cup {"clear"}, ipc'.at \notin Registering \cup {"clear"}
    PROVE  IrqList' /\ IrqEntries' /\ IrqSources' /\ ~PowerAhead /\ ~PowerAhead'
<1>1. /\ \A v, S : S \subseteq Registering => ~Registers(v, S)
      /\ \A v, S : S \subseteq Registering => ~Registers(v, S)'
  BY DEF Registers
<1>2. /\ {"fill"} \subseteq Registering /\ {"link"} \subseteq Registering
      /\ {"fill", "link"} \subseteq Registering /\ {"fill", "link", "last"} \subseteq Registering
      /\ {"fill", "link", "last", "register"} \subseteq Registering
      /\ {"mask", "unmask"} \subseteq Registering
      /\ Registering \ {"mask"} \subseteq Registering /\ "mask" \in Registering
  BY DEF Registering
<1>3. ~PowerAhead /\ ~SummaryOut /\ ~PowerOut /\ ~PowerAhead' /\ ~SummaryOut' /\ ~PowerOut'
  BY <1>1, <1>2 DEF PowerAhead, SummaryOut, PowerOut
<1>4. IrqList'
  BY <1>1, <1>2, <1>3 DEF IrqInv, IrqList
<1>5. IrqEntries'
  BY <1>1, <1>2, <1>3 DEF IrqInv, IrqEntries
<1>6. IrqSources'
  BY <1>1, <1>2, <1>3 DEF IrqInv, IrqSources
<1> QED
  BY <1>3, <1>4, <1>5, <1>6

LEMMA IrqInvBegins ==
    ASSUME InheritedPins = {}
    PROVE  IrqInit => IrqInv
<1> SUFFICES ASSUME IrqInit PROVE IrqInv
  OBVIOUS
<1>1. ipc.at = "fill" /\ ipc.v = "summary" /\ ipc = [at |-> "fill", v |-> "summary"]
  BY DEF IrqInit
<1>2. PowerAhead /\ SummaryOut /\ PowerOut
  BY <1>1 DEF PowerAhead, SummaryOut, PowerOut, Registers, Registering
<1>3. IrqAt
  BY <1>1 DEF IrqAt, Registering, Vectors
<1>4. IrqList
  BY <1>1, <1>2 DEF IrqInit, IrqList, Registers, Nodes, Vectors, ListHead
<1>5. IrqEntries
  BY <1>1, <1>2 DEF IrqInit, IrqEntries, Registers, Nodes, Vectors
<1>6. IrqSources
  BY <1>1, <1>2 DEF IrqInit, IrqSources, Registers, Vectors
<1>7. IrqPower
  BY <1>2 DEF IrqInit, IrqPower
<1>8. IrqBitmap
  BY DEF IrqInit, IrqBitmap, Off
<1> QED
  BY <1>3, <1>4, <1>5, <1>6, <1>7, <1>8 DEF IrqInv, IrqInit

\* The steps of a registration.
LEMMA IrqRegisters ==
    ASSUME IrqInv, NEW v \in Vectors,
           RegFill(v) \/ RegLink(v) \/ RegLast(v) \/ RegSource(v) \/ RegMask(v) \/ Unmask(v)
    PROVE  IrqInv'
<1>1. /\ IrqAt /\ IrqList /\ IrqEntries /\ IrqSources /\ IrqPower /\ IrqBitmap /\ trouble = "none"
  BY DEF IrqInv
<1>2. v = "summary" \/ v = "power"
  BY DEF Vectors
<1>3. /\ UNCHANGED <<cfg, enabledIrqs, dualEdge, power, trouble>>
  BY DEF RegFill, RegLink, RegLast, RegSource, RegMask, Unmask
<1>4. IrqBitmap' /\ trouble' = "none"
  BY <1>1, <1>3 DEF IrqBitmap
<1>5. PICK at \in Registering : ipc = [at |-> at, v |-> v]
  BY DEF RegFill, RegLink, RegLast, RegSource, RegMask, Unmask, Registering
<1>6. ipc.at = at /\ ipc.v = v
  BY <1>5
<1>7. PowerAhead <=> v = "summary"
  BY <1>2, <1>6 DEF PowerAhead, Registers, Registering
<1>8. \/ /\ at = "fill" /\ ipc' = [at |-> "link", v |-> v]
         /\ entry' = [entry EXCEPT ![v] = [vector |-> v]]
         /\ links' = [links EXCEPT !.fwd[v] = ListHead]
         /\ UNCHANGED <<gic, tpl>>
      \/ /\ at = "link" /\ ipc' = [at |-> "last", v |-> v]
         /\ links' = [links EXCEPT !.fwd[links.last] = v]
         /\ UNCHANGED <<entry, gic, tpl>>
      \/ /\ at = "last" /\ ipc' = [at |-> "register", v |-> v]
         /\ links' = [links EXCEPT !.last = v]
         /\ UNCHANGED <<entry, gic, tpl>>
      \/ /\ at = "register" /\ ipc' = [at |-> "mask", v |-> v] /\ tpl' = "high"
         /\ gic' = [gic EXCEPT ![v] = [registered |-> TRUE, enabled |-> TRUE]]
         /\ UNCHANGED <<links, entry>>
      \/ /\ at = "mask" /\ ipc' = [at |-> "unmask", v |-> v] /\ tpl' = "app"
         /\ gic' = [gic EXCEPT ![v].enabled = FALSE]
         /\ UNCHANGED <<links, entry>>
      \/ /\ at = "unmask" /\ gic' = [gic EXCEPT ![v].enabled = TRUE]
         /\ ipc' = [at |-> IF v = "summary" THEN "clear" ELSE "power on", v |-> "power"]
         /\ UNCHANGED <<links, entry, tpl>>
  <2>1. CASE RegFill(v)
    <3>1. ipc = [at |-> "fill", v |-> v] /\ ipc' = [ipc EXCEPT !.at = "link"]
      BY <2>1 DEF RegFill
    <3>2. at = "fill" /\ ipc' = [at |-> "link", v |-> v]
      BY <1>6, <3>1
    <3> QED
      BY <2>1, <3>2 DEF RegFill
  <2>2. CASE RegLink(v)
    <3>1. ipc = [at |-> "link", v |-> v] /\ ipc' = [ipc EXCEPT !.at = "last"]
      BY <2>2 DEF RegLink
    <3>2. at = "link" /\ ipc' = [at |-> "last", v |-> v]
      BY <1>6, <3>1
    <3> QED
      BY <2>2, <3>2 DEF RegLink
  <2>3. CASE RegLast(v)
    <3>1. ipc = [at |-> "last", v |-> v] /\ ipc' = [ipc EXCEPT !.at = "register"]
      BY <2>3 DEF RegLast
    <3>2. at = "last" /\ ipc' = [at |-> "register", v |-> v]
      BY <1>6, <3>1
    <3> QED
      BY <2>3, <3>2 DEF RegLast
  <2>4. CASE RegSource(v)
    <3>1. ipc = [at |-> "register", v |-> v] /\ ipc' = [ipc EXCEPT !.at = "mask"]
      BY <2>4 DEF RegSource
    <3>2. at = "register" /\ ipc' = [at |-> "mask", v |-> v]
      BY <1>6, <3>1
    <3> QED
      BY <2>4, <3>2 DEF RegSource
  <2>5. CASE RegMask(v)
    <3>1. ipc = [at |-> "mask", v |-> v] /\ ipc' = [ipc EXCEPT !.at = "unmask"]
      BY <2>5 DEF RegMask
    <3>2. at = "mask" /\ ipc' = [at |-> "unmask", v |-> v]
      BY <1>6, <3>1
    <3> QED
      BY <2>5, <3>2 DEF RegMask
  <2>6. CASE Unmask(v)
    <3>1. ipc = [at |-> "unmask", v |-> v]
      BY <2>6 DEF Unmask
    <3>2. at = "unmask"
      BY <1>6, <3>1
    <3> QED
      BY <2>6, <3>2 DEF Unmask
  <2> QED
    BY <2>1, <2>2, <2>3, <2>4, <2>5, <2>6
<1>9. PICK next : /\ ipc' = [at |-> next, v |-> IF at = "unmask" THEN "power" ELSE v]
                  /\ \/ at = "fill" /\ next = "link"
                     \/ at = "link" /\ next = "last"
                     \/ at = "last" /\ next = "register"
                     \/ at = "register" /\ next = "mask"
                     \/ at = "mask" /\ next = "unmask"
                     \/ at = "unmask" /\ next = IF v = "summary" THEN "clear" ELSE "power on"
  BY <1>8
<1>10. ipc'.at = next /\ ipc'.v = IF at = "unmask" THEN "power" ELSE v
  BY <1>9
<1>11. IrqAt'
  <2>1. CASE next \in Registering
    <3>1. at # "unmask"
      BY <1>2, <1>9, <2>1 DEF Registering
    <3> QED
      BY <1>9, <2>1, <3>1 DEF IrqAt
  <2>2. CASE at = "unmask"
    BY <1>2, <1>9, <2>2 DEF IrqAt
  <2> QED
    BY <1>9, <2>1, <2>2 DEF Registering
<1>12. PowerAhead' <=> v = "summary"
  BY <1>2, <1>9, <1>10 DEF PowerAhead, Registers, Registering
<1>13. IrqPower'
  BY <1>1, <1>3, <1>7, <1>12 DEF IrqPower
<1>14. IrqEntries'
  <2>1. entry' = IF at = "fill" THEN [entry EXCEPT ![v] = [vector |-> v]] ELSE entry
    BY <1>8
  <2>2. entry \in [Nodes -> [vector : Vectors \cup {"none"}]] /\ v \in Nodes
    BY <1>1 DEF IrqEntries, Nodes
  <2>3. [vector |-> v] \in [vector : Vectors \cup {"none"}]
    OBVIOUS
  <2>4. entry' \in [Nodes -> [vector : Vectors \cup {"none"}]]
    BY <2>1, <2>2, <2>3
  <2>5. /\ at = "fill" => entry'[v] = [vector |-> v]
        /\ \A n \in Nodes : n # v \/ at # "fill" => entry'[n] = entry[n]
    BY <2>1, <2>2
  <2>6. entry'["summary"].vector = "summary"
    <3>1. CASE at = "fill" /\ v = "summary"
      BY <2>5, <3>1
    <3>2. CASE ~(at = "fill" /\ v = "summary")
      <4>1. entry["summary"].vector = "summary"
        BY <1>1, <1>6, <3>2 DEF IrqEntries, Registers
      <4> QED
        BY <1>2, <2>5, <3>2, <4>1 DEF Nodes, Vectors
    <3> QED
      BY <3>1, <3>2
  <2>7. ASSUME v = "power" PROVE entry'["power"].vector = "power"
    <3>1. at # "fill" => entry["power"].vector = "power"
      BY <1>1, <1>6, <1>7, <2>7 DEF IrqEntries, Registers
    <3> QED
      BY <2>5, <2>7, <3>1 DEF Nodes, Vectors
  <2> QED
    BY <1>2, <1>12, <2>4, <2>6, <2>7 DEF IrqEntries
<1>15. IrqSources'
  <2>1. gic \in [Vectors -> [registered : BOOLEAN, enabled : BOOLEAN]]
    BY <1>1 DEF IrqSources
  <2>2. PICK g \in [registered : BOOLEAN, enabled : BOOLEAN] :
           /\ gic' = [gic EXCEPT ![v] = g]
           /\ at \in {"fill", "link", "last"} => g = gic[v]
           /\ at = "register" => g.registered /\ g.enabled
           /\ at = "mask" => g.registered = gic[v].registered /\ ~g.enabled
           /\ at = "unmask" => g.registered = gic[v].registered /\ g.enabled
    <3>1. gic[v] \in [registered : BOOLEAN, enabled : BOOLEAN]
      BY <2>1
    <3>2. CASE at \in {"fill", "link", "last"}
      <4>1. gic' = gic /\ [gic EXCEPT ![v] = gic[v]] = gic
        BY <1>8, <2>1, <3>2
      <4> QED
        BY <3>1, <3>2, <4>1
    <3>3. CASE at = "register"
      BY <1>8, <3>3
    <3>4. CASE at = "mask"
      <4>1. gic' = [gic EXCEPT ![v] = [gic[v] EXCEPT !.enabled = FALSE]]
        BY <1>8, <3>4
      <4>2. /\ [gic[v] EXCEPT !.enabled = FALSE] \in [registered : BOOLEAN, enabled : BOOLEAN]
            /\ [gic[v] EXCEPT !.enabled = FALSE].registered = gic[v].registered
            /\ ~[gic[v] EXCEPT !.enabled = FALSE].enabled
        BY <3>1
      <4> QED
        BY <3>4, <4>1, <4>2
    <3>5. CASE at = "unmask"
      <4>1. gic' = [gic EXCEPT ![v] = [gic[v] EXCEPT !.enabled = TRUE]]
        BY <1>8, <3>5
      <4>2. /\ [gic[v] EXCEPT !.enabled = TRUE] \in [registered : BOOLEAN, enabled : BOOLEAN]
            /\ [gic[v] EXCEPT !.enabled = TRUE].registered = gic[v].registered
            /\ [gic[v] EXCEPT !.enabled = TRUE].enabled
        BY <3>1
      <4> QED
        BY <3>5, <4>1, <4>2
    <3> QED
      BY <1>9, <3>2, <3>3, <3>4, <3>5
  <2>3. /\ gic' \in [Vectors -> [registered : BOOLEAN, enabled : BOOLEAN]]
        /\ gic'[v] = g
        /\ \A w \in Vectors : w # v => gic'[w] = gic[w]
    BY <2>1, <2>2
  <2>4. at \in {"mask", "unmask"} => gic[v].registered
    BY <1>1, <1>6 DEF IrqSources, Registers
  <2>5. g.enabled => g.registered
    BY <1>1, <1>9, <2>2, <2>4 DEF IrqSources
  <2>6. /\ g.registered => at \notin {"fill", "link", "last"}
        /\ g.enabled => at \in {"register", "unmask"}
    <3>1. /\ gic[v].registered => at \notin {"fill", "link", "last", "register"}
          /\ gic[v].enabled => at \notin Registering \ {"mask"}
      BY <1>1, <1>6 DEF IrqSources, Registers
    <3> QED
      BY <1>9, <2>2, <3>1 DEF Registering
  <2>7. tpl' \in {"app", "high"} /\ (next = "mask" => tpl' = "high")
    BY <1>1, <1>8, <1>9 DEF IrqSources
  <2>8. ASSUME NEW w \in Vectors
        PROVE  /\ gic'[w].enabled => gic'[w].registered
               /\ gic'[w].registered => ~Registers(w, {"fill", "link", "last", "register"})'
               /\ gic'[w].enabled => ~Registers(w, Registering \ {"mask"})'
               /\ Registers(w, {"mask", "unmask"})' => gic'[w].registered
    <3>1. CASE w = v
      <4>1. Registers(w, {"fill", "link", "last", "register"})' =>
               at \in {"fill", "link", "last"}
        BY <1>2, <1>9, <1>10, <3>1 DEF Registers
      <4>2. Registers(w, Registering \ {"mask"})' => at \in {"fill", "link", "last", "mask"}
        BY <1>2, <1>9, <1>10, <3>1 DEF Registers, Registering
      <4>3. Registers(w, {"mask", "unmask"})' => at \in {"register", "mask"}
        BY <1>2, <1>9, <1>10, <3>1 DEF Registers
      <4> QED
        BY <2>2, <2>3, <2>4, <2>5, <2>6, <3>1, <4>1, <4>2, <4>3
    <3>2. CASE w # v
      <4>1. \A S : S \subseteq Registering => ~Registers(w, S)'
        BY <1>2, <1>9, <1>10, <3>2 DEF Registers, Registering, Vectors
      <4>2. gic[w].enabled => gic[w].registered
        BY <1>1 DEF IrqSources
      <4> QED
        BY <2>3, <3>2, <4>1, <4>2 DEF Registering
    <3> QED
      BY <3>1, <3>2
  <2>9. PowerAhead' => ~gic'["power"].registered
    <3> SUFFICES ASSUME v = "summary" PROVE ~gic'["power"].registered
      BY <1>12
    <3> QED
      BY <1>1, <1>7, <2>3 DEF IrqSources, Vectors
  <2> QED
    BY <1>10, <2>3, <2>7, <2>8, <2>9 DEF IrqSources
<1>16. IrqList'
  <2> DEFINE ListPlaces == Nodes \cup {ListHead}
             ListLinks == Nodes \cup {ListHead, "garbage"}
  <2>1. /\ links.fwd \in [ListPlaces -> ListLinks] /\ links.last \in ListPlaces /\ v \in ListPlaces
        /\ ListHead \in ListLinks /\ v \in ListLinks
        /\ links = [fwd |-> links.fwd, last |-> links.last]
    BY <1>1 DEF IrqList, Nodes
  <2> HIDE DEF ListPlaces, ListLinks
  <2>2. PICK f \in [ListPlaces -> ListLinks], last \in ListPlaces :
           /\ links' = [fwd |-> f, last |-> last]
           /\ f = CASE at = "fill" -> [links.fwd EXCEPT ![v] = ListHead]
                    [] at = "link" -> [links.fwd EXCEPT ![links.last] = v]
                    [] OTHER -> links.fwd
           /\ last = IF at = "last" THEN v ELSE links.last
    <3>1. CASE at = "fill"
      <4>1. links' = [fwd |-> [links.fwd EXCEPT ![v] = ListHead], last |-> links.last]
        BY <1>8, <2>1, <3>1
      <4> QED
        BY <2>1, <3>1, <4>1
    <3>2. CASE at = "link"
      <4>1. links' = [fwd |-> [links.fwd EXCEPT ![links.last] = v], last |-> links.last]
        BY <1>8, <2>1, <3>2
      <4> QED
        BY <2>1, <3>2, <4>1
    <3>3. CASE at = "last"
      <4>1. links' = [fwd |-> links.fwd, last |-> v]
        BY <1>8, <2>1, <3>3
      <4> QED
        BY <2>1, <3>3, <4>1
    <3>4. CASE at \in {"register", "mask", "unmask"}
      <4>1. links' = links
        BY <1>8, <3>4
      <4> QED
        BY <2>1, <3>4, <4>1
    <3> QED
      BY <1>9, <3>1, <3>2, <3>3, <3>4
  <2>3. links'.fwd = f /\ links'.last = last
    BY <2>2
  <2>4. links' \in [fwd : [ListPlaces -> ListLinks], last : ListPlaces]
    BY <2>2
  <2>5. ListHead \in ListPlaces /\ "summary" \in ListPlaces /\ "power" \in ListPlaces
        /\ "summary" # ListHead /\ "power" # ListHead
    BY DEF ListPlaces, Nodes, Vectors, ListHead
  <2> DEFINE h == links.fwd[ListHead]
             s == links.fwd["summary"]
             p == links.fwd["power"]
  <2>6. CASE v = "summary"
    <3>1. /\ at \in {"fill", "link"} => h = ListHead
          /\ at \notin {"fill", "link"} => h = "summary" /\ s = ListHead
          /\ at = "link" => s = ListHead
          /\ at \in {"fill", "link", "last"} => links.last = ListHead
          /\ at \notin {"fill", "link", "last"} => links.last = "summary"
      BY <1>1, <1>6, <1>7, <2>6 DEF IrqList, SummaryOut, PowerOut, Registers
    <3>2. /\ at = "fill" => f[ListHead] = ListHead /\ f["summary"] = ListHead
          /\ at # "fill" => f[ListHead] = "summary" /\ f["summary"] = ListHead
          /\ at \in {"fill", "link"} => last = ListHead
          /\ at \notin {"fill", "link"} => last = "summary"
      BY <1>9, <2>1, <2>2, <2>5, <2>6, <3>1
    <3>3. /\ SummaryOut' <=> at = "fill"
          /\ PowerOut'
          /\ Registers("summary", {"link"})' <=> at = "fill"
          /\ ~Registers("power", {"link"})'
          /\ Registers("summary", {"fill", "link", "last"})' <=> at \in {"fill", "link"}
      BY <1>9, <1>10, <1>12, <2>6 DEF SummaryOut, PowerOut, Registers
    <3> QED
      BY <2>3, <2>4, <3>2, <3>3 DEF IrqList, ListPlaces, ListLinks
  <2>7. CASE v = "power"
    <3>1. /\ h = "summary"
          /\ at \in {"fill", "link"} => s = ListHead /\ links.last = "summary"
          /\ at \notin {"fill", "link"} => s = "power" /\ p = ListHead
          /\ at = "link" => p = ListHead
      BY <1>1, <1>6, <1>7, <2>7 DEF IrqList, SummaryOut, PowerOut, Registers
    <3>2. /\ f[ListHead] = "summary" /\ f["power"] = ListHead
          /\ at = "fill" => f["summary"] = ListHead /\ last = "summary"
          /\ at # "fill" => f["summary"] = "power"
      BY <1>9, <2>1, <2>2, <2>5, <2>7, <3>1
    <3>3. /\ ~SummaryOut'
          /\ PowerOut' <=> at = "fill"
          /\ ~Registers("summary", {"link"})'
          /\ ~Registers("summary", {"fill", "link", "last"})'
      BY <1>9, <1>10, <1>12, <2>7 DEF SummaryOut, PowerOut, Registers
    <3> QED
      BY <2>3, <2>4, <3>2, <3>3 DEF IrqList, ListPlaces, ListLinks
  <2> QED
    BY <1>2, <2>6, <2>7
<1> QED
  BY <1>4, <1>11, <1>13, <1>14, <1>15, <1>16 DEF IrqInv

\* What the reset left pending is cleared before the controller registers.
LEMMA IrqClears == IrqInv /\ ClearPower => IrqInv'
<1> SUFFICES ASSUME IrqInv, ClearPower PROVE IrqInv'
  OBVIOUS
<1>1. /\ IrqList /\ IrqEntries /\ IrqSources /\ IrqPower /\ IrqBitmap /\ trouble = "none"
  BY DEF IrqInv
<1>2. /\ ipc.at = "clear" /\ ipc' = [at |-> "fill", v |-> "power"]
      /\ power' = [power EXCEPT !.request = FALSE]
      /\ UNCHANGED <<links, entry, gic, tpl, cfg, enabledIrqs, dualEdge, trouble>>
  BY DEF ClearPower, PowerClear
<1>3. ipc'.at = "fill" /\ ipc'.v = "power"
  BY <1>2
<1>4. /\ PowerAhead /\ ~SummaryOut /\ PowerOut
      /\ ~PowerAhead' /\ ~SummaryOut' /\ PowerOut'
  BY <1>2, <1>3 DEF PowerAhead, SummaryOut, PowerOut, Registers, Registering
<1>5. IrqAt'
  BY <1>2 DEF IrqAt, Registering, Vectors
<1>6. IrqList'
  BY <1>1, <1>2, <1>3, <1>4 DEF IrqList, Registers
<1>7. IrqEntries'
  BY <1>1, <1>2, <1>3, <1>4 DEF IrqEntries, Registers
<1>8. IrqSources'
  <2>1. ASSUME NEW v \in Vectors, NEW S \in SUBSET Registering, Registers(v, S)'
        PROVE  ~gic[v].registered /\ ~gic[v].enabled /\ "fill" \in S
    BY <1>1, <1>3, <1>4, <2>1 DEF IrqSources, Registers
  <2> QED
    BY <1>1, <1>2, <1>3, <1>4, <2>1 DEF IrqSources, Registering
<1>9. IrqPower'
  <2>1. power' \in [mask : BOOLEAN, request : BOOLEAN, asked : Nat, event : Nat] /\ ~power'.request
    BY <1>1, <1>2 DEF IrqPower
  <2> QED
    BY <2>1 DEF IrqPower
<1>10. IrqBitmap' /\ trouble' = "none"
  BY <1>1, <1>2 DEF IrqBitmap
<1> QED
  BY <1>5, <1>6, <1>7, <1>8, <1>9, <1>10 DEF IrqInv

LEMMA IrqOpens == IrqInv /\ PowerUnmask => IrqInv'
<1> SUFFICES ASSUME IrqInv, PowerUnmask PROVE IrqInv'
  OBVIOUS
<1>1. /\ ipc.at = "power on" /\ ipc' = [at |-> "work", v |-> "none"] /\ ipc'.at = "work"
      /\ power' = [power EXCEPT !.mask = TRUE]
      /\ UNCHANGED <<links, entry, gic, tpl, cfg, enabledIrqs, dualEdge, trouble>>
  BY DEF PowerUnmask
<1>2. tpl \in {"app", "high"} /\ IrqPower /\ IrqBitmap /\ trouble = "none"
  BY DEF IrqInv, IrqSources
<1>3. IrqList' /\ IrqEntries' /\ IrqSources' /\ ~PowerAhead
  BY <1>1, <1>2, IrqAfter DEF Registering
<1>4. /\ power' \in [mask : BOOLEAN, request : BOOLEAN, asked : Nat, event : Nat]
      /\ power'.request = power.request /\ power'.asked = power.asked
  BY <1>1, <1>2 DEF IrqPower
<1>5. IrqPower'
  BY <1>2, <1>3, <1>4 DEF IrqPower
<1>6. IrqAt' /\ IrqBitmap' /\ trouble' = "none"
  BY <1>1, <1>2 DEF IrqAt, IrqBitmap
<1> QED
  BY <1>3, <1>5, <1>6 DEF IrqInv

\* The client's and the driver's steps on the pins.
LEMMA IrqConfigures ==
    ASSUME IrqInv,
           \/ \E p \in IrqPins : IrqUnmask(p) \/ IrqMask(p) \/ \E t \in IrqTypes : SetType(p, t)
           \/ DualRead \/ DualFlip \/ DualLook \/ ClientReads
    PROVE  IrqInv'
<1>1. /\ IrqPower /\ IrqBitmap /\ IrqAt /\ trouble = "none" /\ tpl \in {"app", "high"}
  BY DEF IrqInv, IrqSources
<1> DEFINE Config == [enable : BOOLEAN, detect : {"none", "rising", "falling", "both", "edge"},
                      polarity : {0, 1}, target : {"none", "kpss"}]
           OnPins == {"dual read", "dual flip", "dual look", "read"}
<1>2. /\ DOMAIN cfg = IrqPins /\ \A p \in IrqPins : cfg[p] \in Config
      /\ enabledIrqs \subseteq IrqPins /\ dualEdge \subseteq IrqPins
      /\ \A p \in IrqPins : cfg[p].enable => p \in enabledIrqs
  BY <1>1 DEF IrqBitmap
<1>3. SUFFICES /\ UNCHANGED <<links, entry, gic, power, trouble>> /\ tpl' \in {"app", "high"}
               /\ ipc.at \in OnPins \cup {"work"}
               /\ ipc' = [at |-> "work", v |-> "none"] \/ ipc' \in [at : OnPins, p : IrqPins]
               /\ IrqBitmap'
  <2>1. ipc.at \notin Registering \cup {"clear"} /\ ipc'.at \notin Registering \cup {"clear"}
    <3>1. ipc'.at \in OnPins \cup {"work"}
      <4>1. CASE ipc' = [at |-> "work", v |-> "none"]
        BY <4>1
      <4>2. CASE ipc' \in [at : OnPins, p : IrqPins]
        BY <4>2
      <4> QED
        BY <1>3, <4>1, <4>2
    <3>2. ipc.at \in OnPins \cup {"work"}
      BY <1>3
    <3> QED
      BY <3>1, <3>2 DEF Registering
  <2>2. IrqList' /\ IrqEntries' /\ IrqSources' /\ ~PowerAhead
    BY <1>3, <2>1, IrqAfter
  <2>3. IrqPower' /\ IrqAt' /\ trouble' = "none"
    BY <1>1, <1>3, <2>2 DEF IrqPower, IrqAt
  <2> QED
    BY <1>3, <2>2, <2>3 DEF IrqInv
<1>4. ASSUME ipc.at \in OnPins PROVE ipc.p \in IrqPins /\ ipc = Dual(ipc.p, ipc.at)
  <2>1. ipc \in [at : OnPins, p : IrqPins]
    <3>1. ipc \notin [at : Registering, v : Vectors]
      BY <1>4 DEF Registering
    <3>2. ipc \notin [at : {"clear", "power on"}, v : {"power"}]
      BY <1>4
    <3>3. ipc # [at |-> "work", v |-> "none"]
      <4>1. [at |-> "work", v |-> "none"].at = "work" /\ ipc.at # "work"
        BY <1>4
      <4> QED
        BY <4>1
    <3> QED
      BY <1>1, <3>1, <3>2, <3>3 DEF IrqAt
  <2> QED
    BY <2>1 DEF Dual
<1>5. ASSUME NEW p \in IrqPins, IrqUnmask(p)
      PROVE  /\ UNCHANGED <<links, entry, gic, power, trouble>> /\ tpl' \in {"app", "high"}
             /\ ipc.at \in OnPins \cup {"work"} /\ ipc' \in [at : OnPins, p : IrqPins]
             /\ IrqBitmap'
  <2>1. cfg' = [cfg EXCEPT ![p].enable = TRUE] /\ enabledIrqs' = enabledIrqs \cup {p}
        /\ dualEdge' = dualEdge
    BY <1>5 DEF IrqUnmask, EnabledWith
  <2>2. [cfg[p] EXCEPT !.enable = TRUE] \in Config
    BY <1>2
  <2>3. DOMAIN cfg' = IrqPins /\ cfg'[p] = [cfg[p] EXCEPT !.enable = TRUE]
        /\ \A q \in IrqPins : q # p => cfg'[q] = cfg[q]
    BY <1>2, <2>1
  <2>4. IrqBitmap'
    BY <1>2, <2>1, <2>2, <2>3 DEF IrqBitmap
  <2> QED
    BY <1>1, <1>5, <2>4 DEF IrqUnmask, Dual
<1>6. ASSUME NEW p \in IrqPins, IrqMask(p)
      PROVE  /\ UNCHANGED <<links, entry, gic, power, trouble>> /\ tpl' \in {"app", "high"}
             /\ ipc.at = "work" /\ ipc' = [at |-> "work", v |-> "none"]
             /\ IrqBitmap'
  <2>1. cfg' = [cfg EXCEPT ![p].enable = FALSE] /\ enabledIrqs' = enabledIrqs \ {p}
        /\ dualEdge' = dualEdge
    BY <1>6 DEF IrqMask
  <2>2. [cfg[p] EXCEPT !.enable = FALSE] \in Config /\ ~[cfg[p] EXCEPT !.enable = FALSE].enable
    BY <1>2
  <2>3. DOMAIN cfg' = IrqPins /\ cfg'[p] = [cfg[p] EXCEPT !.enable = FALSE]
        /\ \A q \in IrqPins : q # p => cfg'[q] = cfg[q]
    BY <1>2, <2>1
  <2>4. IrqBitmap'
    BY <1>2, <2>1, <2>2, <2>3 DEF IrqBitmap
  <2>5. ipc = [at |-> "work", v |-> "none"]
    BY <1>1, <1>6 DEF IrqMask, IrqAt, Registering
  <2> QED
    BY <1>1, <1>6, <2>4, <2>5 DEF IrqMask
<1>7. ASSUME NEW p \in IrqPins, NEW t \in IrqTypes, SetType(p, t)
      PROVE  /\ UNCHANGED <<links, entry, gic, power, trouble>> /\ tpl' \in {"app", "high"}
             /\ ipc.at = "work"
             /\ ipc' = [at |-> "work", v |-> "none"] \/ ipc' \in [at : OnPins, p : IrqPins]
             /\ IrqBitmap'
  <2> DEFINE new == [enable |-> FALSE, target |-> "kpss", detect |-> Detection(t, width).detect,
                     polarity |-> Detection(t, width).polarity]
  <2>1. /\ Detection(t, width).detect \in {"none", "rising", "falling", "both", "edge"}
        /\ Detection(t, width).polarity \in {0, 1}
    BY DEF Detection
  <2>2. new \in Config /\ ~new.enable
    BY <2>1
  <2>3. cfg' = [cfg EXCEPT ![p] = new] /\ enabledIrqs' = enabledIrqs /\ dualEdge' \subseteq IrqPins
    BY <1>2, <1>7 DEF SetType
  <2> HIDE DEF new
  <2>4. DOMAIN cfg' = IrqPins /\ cfg'[p] = new /\ \A q \in IrqPins : q # p => cfg'[q] = cfg[q]
    BY <1>2, <2>3
  <2>5. IrqBitmap'
    BY <1>2, <2>2, <2>3, <2>4 DEF IrqBitmap
  <2>6. ipc = [at |-> "work", v |-> "none"]
    BY <1>1, <1>7 DEF SetType, IrqAt, Registering
  <2>7. /\ UNCHANGED <<links, entry, gic, power, trouble>> /\ ipc.at = "work"
        /\ (ipc' = [at |-> "dual read", p |-> p] /\ tpl' = "high") \/ (ipc' = ipc /\ tpl' = tpl)
    BY <1>7 DEF SetType, Dual
  <2>8. [at |-> "dual read", p |-> p] \in [at : OnPins, p : IrqPins]
    OBVIOUS
  <2> QED
    BY <1>1, <2>5, <2>6, <2>7, <2>8
<1>8. ASSUME DualRead \/ DualLook \/ ClientReads
      PROVE  /\ UNCHANGED <<links, entry, gic, power, trouble>> /\ tpl' \in {"app", "high"}
             /\ ipc.at \in OnPins
             /\ ipc' = [at |-> "work", v |-> "none"] \/ ipc' \in [at : OnPins, p : IrqPins]
             /\ IrqBitmap'
  <2>1. UNCHANGED <<cfg, enabledIrqs, dualEdge>>
    BY <1>8 DEF DualRead, DualLook, ClientReads
  <2>2. IrqBitmap'
    BY <1>1, <2>1 DEF IrqBitmap
  <2>3. /\ UNCHANGED <<links, entry, gic, power, trouble>>
        /\ tpl' = tpl \/ tpl' = "app"
        /\ ipc.at \in OnPins
        /\ \/ ipc' = [at |-> "work", v |-> "none"]
           \/ ipc' = Dual(ipc.p, "dual flip")
           \/ ipc' = Dual(ipc.p, "dual read")
    BY <1>8 DEF DualRead, DualLook, ClientReads
  <2>4. \A at \in OnPins : Dual(ipc.p, at) \in [at : OnPins, p : IrqPins]
    BY <1>4, <2>3 DEF Dual
  <2> QED
    BY <1>1, <2>2, <2>3, <2>4
<1>9. ASSUME DualFlip
      PROVE  /\ UNCHANGED <<links, entry, gic, power, trouble>> /\ tpl' \in {"app", "high"}
             /\ ipc.at \in OnPins /\ ipc' \in [at : OnPins, p : IrqPins]
             /\ IrqBitmap'
  <2>1. ipc.p \in IrqPins /\ ipc.at \in OnPins
    BY <1>4, <1>9 DEF DualFlip
  <2>2. PICK p \in IrqPins : p = ipc.p
    BY <2>1
  <2>3. cfg' = [cfg EXCEPT ![p].polarity = 1 - @] /\ UNCHANGED <<enabledIrqs, dualEdge>>
    BY <1>9, <2>2 DEF DualFlip
  <2>4. cfg[p] \in Config /\ 1 - cfg[p].polarity \in {0, 1}
    BY <1>2
  <2>5. /\ [cfg[p] EXCEPT !.polarity = 1 - @] \in Config
        /\ [cfg[p] EXCEPT !.polarity = 1 - @].enable = cfg[p].enable
    BY <2>4
  <2>6. DOMAIN cfg' = IrqPins /\ cfg'[p] = [cfg[p] EXCEPT !.polarity = 1 - @]
        /\ \A q \in IrqPins : q # p => cfg'[q] = cfg[q]
    BY <1>2, <2>3
  <2>7. IrqBitmap'
    BY <1>2, <2>3, <2>5, <2>6 DEF IrqBitmap
  <2> QED
    BY <1>1, <1>9, <2>1, <2>7 DEF DualFlip, Dual
<1> QED
  BY <1>5, <1>6, <1>7, <1>8, <1>9

\* An interrupt finds its entry, its user ready and somebody who asked for it.
LEMMA IrqServed == IrqInv /\ (SummaryIrq \/ PowerIrq) => IrqInv'
<1> SUFFICES ASSUME IrqInv, SummaryIrq \/ PowerIrq PROVE IrqInv'
  OBVIOUS
<1>1. /\ IrqList /\ IrqEntries /\ IrqSources /\ IrqPower /\ IrqBitmap /\ trouble = "none"
  BY DEF IrqInv
<1>2. UNCHANGED <<ipc, links, entry, gic, tpl, enabledIrqs, dualEdge>> /\ tpl = "app"
  BY DEF SummaryIrq, PowerIrq
<1>3. IrqAt' /\ IrqList' /\ IrqEntries' /\ IrqSources'
  BY <1>2, IrqSame
<1>4. (PowerAhead' <=> PowerAhead)
  BY <1>2 DEF PowerAhead, Registers
<1>5. ASSUME NEW v \in Vectors, Pending(v)
      PROVE  Premature(v) = "none" /\ (v = "power" => ~PowerAhead)
  <2>1. gic[v].registered /\ gic[v].enabled
    BY <1>5 DEF Pending
  <2>2. ~Registers(v, Registering)
    <3>1. ~Registers(v, Registering \ {"mask"}) /\ ipc.at # "mask"
      BY <1>1, <1>2, <2>1 DEF IrqSources
    <3> QED
      BY <3>1 DEF Registers
  <2>3. v = "power" => ~PowerAhead
    BY <1>1, <2>1 DEF IrqSources
  <2>4. (v = "summary" => ~SummaryOut) /\ (v = "power" => ~PowerOut)
    BY <2>2, <2>3 DEF SummaryOut, PowerOut, Registers, Registering
  <2>5. GetInterruptHandlerEntry(v) = {v}
    BY <2>4, EntryFound
  <2>6. ~(ipc.at \in {"fill", "link", "last", "register", "mask", "unmask"} /\ ipc.v = v)
    BY <2>2 DEF Registers, Registering
  <2>7. Premature(v) = trouble
    BY <2>5, <2>6 DEF Premature
  <2> QED
    BY <1>1, <2>3, <2>7
<1>6. CASE SummaryIrq
  <2> DEFINE Config == [enable : BOOLEAN, detect : {"none", "rising", "falling", "both", "edge"},
                        polarity : {0, 1}, target : {"none", "kpss"}]
  <2>1. /\ Pending("summary") /\ UNCHANGED power
        /\ cfg' = [p \in IrqPins |-> IF p \in Flagged \cap dualEdge THEN [cfg[p] EXCEPT !.polarity = 1 - @] ELSE cfg[p]]
        /\ trouble' = IF Flagged = {} THEN "unexpected" ELSE Premature("summary")
    BY <1>6 DEF SummaryIrq
  <2>2. Flagged # {}
    <3>1. PICK p \in IrqPins : Wants(p)
      BY <2>1 DEF Pending, Line
    <3>2. p \in enabledIrqs /\ status[p]
      BY <1>1, <3>1 DEF IrqBitmap, Wants
    <3> QED
      BY <3>2 DEF Flagged
  <2>3. trouble' = "none"
    BY <1>5, <2>1, <2>2 DEF Vectors
  <2>4. IrqPower'
    BY <1>1, <1>4, <2>1 DEF IrqPower
  <2>5. IrqBitmap'
    <3>1. \A p \in IrqPins : cfg[p] \in Config /\ (cfg[p].enable => p \in enabledIrqs)
      BY <1>1 DEF IrqBitmap
    <3>2. ASSUME NEW p \in IrqPins
          PROVE  cfg'[p] \in Config /\ cfg'[p].enable = cfg[p].enable
      <4>1. cfg[p] \in Config
        BY <3>1
      <4>2. 1 - cfg[p].polarity \in {0, 1}
        BY <4>1
      <4>3. /\ [cfg[p] EXCEPT !.polarity = 1 - @] \in Config
            /\ [cfg[p] EXCEPT !.polarity = 1 - @].enable = cfg[p].enable
        BY <4>1, <4>2
      <4>4. cfg'[p] = cfg[p] \/ cfg'[p] = [cfg[p] EXCEPT !.polarity = 1 - @]
        BY <2>1
      <4> QED
        BY <4>1, <4>3, <4>4
    <3>3. DOMAIN cfg' = IrqPins
      BY <2>1
    <3> QED
      BY <1>1, <1>2, <3>1, <3>2, <3>3 DEF IrqBitmap
  <2> QED
    BY <1>3, <2>3, <2>4, <2>5 DEF IrqInv
<1>7. CASE PowerIrq
  <2>1. /\ Pending("power") /\ UNCHANGED cfg
        /\ power' = [power EXCEPT !.request = FALSE, !.event = @ + 1]
        /\ trouble' = IF power.asked = 0 THEN "premature" ELSE Premature("power")
    BY <1>7 DEF PowerIrq
  <2>2. power.request
    BY <2>1 DEF Pending, Line
  <2>3. Premature("power") = "none" /\ ~PowerAhead
    BY <1>5, <2>1 DEF Vectors
  <2>4. power.asked > 0
    BY <1>1, <2>2, <2>3 DEF IrqPower
  <2>5. trouble' = "none"
    BY <2>1, <2>3, <2>4
  <2>6. power' \in [mask : BOOLEAN, request : BOOLEAN, asked : Nat, event : Nat] /\ ~power'.request
    <3>1. power \in [mask : BOOLEAN, request : BOOLEAN, asked : Nat, event : Nat]
      BY <1>1 DEF IrqPower
    <3>2. power.event + 1 \in Nat
      BY <3>1
    <3> QED
      BY <2>1, <3>1, <3>2
  <2>7. IrqPower' /\ IrqBitmap'
    BY <1>1, <1>2, <2>1, <2>6 DEF IrqPower, IrqBitmap
  <2> QED
    BY <1>3, <2>5, <2>7 DEF IrqInv
<1> QED
  BY <1>6, <1>7

LEMMA IrqInvKept == IrqInv /\ [IrqNext]_irqVars => IrqInv'
<1> SUFFICES ASSUME IrqInv, [IrqNext]_irqVars PROVE IrqInv'
  OBVIOUS
<1>1. CASE \E v \in Vectors : RegFill(v) \/ RegLink(v) \/ RegLast(v) \/ RegSource(v) \/ RegMask(v) \/ Unmask(v)
  BY <1>1, IrqRegisters
<1>2. CASE ClearPower \/ PowerUnmask
  BY <1>2, IrqClears, IrqOpens
<1>3. CASE \/ \E p \in IrqPins : IrqUnmask(p) \/ IrqMask(p) \/ \E t \in IrqTypes : SetType(p, t)
           \/ DualRead \/ DualFlip \/ DualLook \/ ClientReads
  BY <1>3, IrqConfigures
<1>4. CASE SummaryIrq \/ PowerIrq
  BY <1>4, IrqServed
<1>5. CASE \E p \in IrqPins : Toggle(p)
  <2>1. UNCHANGED <<ipc, links, entry, gic, tpl, cfg, enabledIrqs, dualEdge, power, trouble>>
    BY <1>5 DEF Toggle
  <2>2. IrqAt' /\ IrqList' /\ IrqEntries' /\ IrqSources'
    BY <2>1, IrqSame
  <2> QED
    BY <2>1, <2>2 DEF IrqInv, IrqPower, PowerAhead, Registers, IrqBitmap
<1>6. CASE PowerRequest
  <2>1. /\ UNCHANGED <<ipc, links, entry, gic, tpl, cfg, enabledIrqs, dualEdge, trouble>>
        /\ power' = [power EXCEPT !.request = TRUE, !.asked = @ + 1]
    BY <1>6 DEF PowerRequest
  <2>2. IrqAt' /\ IrqList' /\ IrqEntries' /\ IrqSources'
    BY <2>1, IrqSame
  <2>3. power \in [mask : BOOLEAN, request : BOOLEAN, asked : Nat, event : Nat]
    BY DEF IrqInv, IrqPower
  <2>4. power.asked + 1 \in Nat /\ power.asked + 1 > 0
    BY <2>3
  <2>5. power' \in [mask : BOOLEAN, request : BOOLEAN, asked : Nat, event : Nat]
        /\ power'.asked > 0
    BY <2>1, <2>3, <2>4
  <2> QED
    BY <2>1, <2>2, <2>5 DEF IrqInv, IrqPower, IrqBitmap
<1>7. CASE UNCHANGED irqVars
  <2>1. UNCHANGED <<ipc, links, entry, gic, tpl, cfg, enabledIrqs, dualEdge, power, trouble>>
    BY <1>7 DEF irqVars
  <2>2. IrqAt' /\ IrqList' /\ IrqEntries' /\ IrqSources'
    BY <2>1, IrqSame
  <2> QED
    BY <2>1, <2>2 DEF IrqInv, IrqPower, PowerAhead, Registers, IrqBitmap
<1> QED
  BY <1>1, <1>2, <1>3, <1>4, <1>5, <1>6, <1>7 DEF IrqNext, IrqStep, IrqDeliver

LEMMA IrqStepOrRest == [PlatformNext]_platformVars => [IrqNext]_irqVars
BY DEF PlatformNext, platformVars, IrqRests, BusesRest

\* With no pin's interrupt left on by an earlier stage: whatever the order of
\* the registrations and of the interrupts that come between their steps, no
\* handler runs without its entry or before its user is ready, and no summary
\* interrupt comes of a pin that the bitmap does not know (InterruptsLib,
\* GpioTlmmInterruptDxe, sdhci_msm_init).
THEOREM InterruptsExpectedHolds ==
    ASSUME InheritedPins = {}
    PROVE  PlatformSpec => []InterruptsExpected
<1>1. PlatformInit => IrqInv
  BY IrqInvBegins DEF PlatformInit
<1>2. IrqInv /\ [PlatformNext]_platformVars => IrqInv'
  BY IrqStepOrRest, IrqInvKept
<1>3. IrqInv => InterruptsExpected
  BY IrqIsExpected
<1> QED
  BY <1>1, <1>2, <1>3, PTL DEF PlatformSpec
-----------------------------------------------------------------------------
(* The console.                                                              *)

\* What a call is at in a line feed after the row is written.
ConPast == {"column", "bound", "clear", "home"}
ConAts == ConPast \cup {"char", "space", "row"}
ConWriter == [left : Nat, repaint : Chars \cup {"none"}, at : ConAts, row : 0 .. Rows - 1, critical : BOOLEAN,
              foreground : {"none", "white", "yellow"}, enabled : BOOLEAN]

\* The colour under all calls, and with a critical one among the first n.
ConBase == IF m_Initialized THEN "white" ELSE "none"
ConCritical(n) == \E w \in 1 .. n : writers[w].critical
ConColour(n) == IF ConCritical(n) THEN "yellow" ELSE ConBase

ConTypes ==
    /\ m_Initialized \in BOOLEAN /\ interrupts \in BOOLEAN /\ caller \in BOOLEAN
    /\ m_Position \in [x : 0 .. Columns - 1, y : 0 .. Rows - 1]
    /\ writers \in Seq(ConWriter)

\* A character is painted again, or half way through, only where the text
\* still has it.
ConRepaint ==
    \A w \in 1 .. Len(writers) : writers[w].repaint # "none" \/ writers[w].at # "char" => writers[w].left > 0

\* The cursor is in the last row only after a call has written it there and
\* before that call clears the screen: that call is running, or a handler that
\* turned interrupts off above it.
ConPastEnd(w) == writers[w].at \in ConPast /\ writers[w].row = Rows - 1
ConRows ==
    m_Position.y = Rows - 1 =>
        \/ Len(writers) > 0 /\ ConPastEnd(Len(writers))
        \/ /\ Len(writers) > 1 /\ ~interrupts /\ writers[Len(writers)].at = "char"
           /\ ConPastEnd(Len(writers) - 1)

\* The colour is that of the calls in progress, and each critical call keeps
\* the colour of those under it.
ConColours ==
    /\ m_Color = ConColour(Len(writers))
    /\ \A w \in 1 .. Len(writers) : writers[w].critical => writers[w].foreground = ConColour(w - 1)
    /\ \A c \in DOMAIN shown : shown[c].critical => shown[c].colour = "yellow"

\* The first of the calls knows whether its caller had interrupts on.
ConCaller ==
    /\ Len(writers) > 0 => writers[1].enabled = caller
    /\ writers = <<>> => (caller => interrupts)

\* The character drawn last stands before the cursor.
ConDrawn(latestChar, position, cells) ==
    /\ position # [x |-> 0, y |-> 0]
    /\ CellBefore(position.x, position.y) \in DOMAIN cells
    /\ cells[CellBefore(position.x, position.y)].char = latestChar
ConLatest ==
    latest # "none" /\ (\A w \in 1 .. Len(writers) : writers[w].repaint = "none" /\ writers[w].at = "char") =>
        ConDrawn(latest, m_Position, shown)
\* Nothing is drawn before the console is initialised.
ConBlank == ~m_Initialized => latest = "none"

ConInv == ConTypes /\ ConRepaint /\ ConRows /\ ConColours /\ ConCaller /\ ConLatest /\ ConBlank

\* Pixels are numbered line after line of the frame.
LEMMA PixelIs ==
    ASSUME NEW w \in Nat, NEW x \in Nat, NEW y \in Nat, NEW r \in Nat, NEW k \in Nat
    PROVE  (y * 12 * w) + (x * (5 + 1)) + (r * w) + k = ((12 * y) + r) * w + ((6 * x) + k)
BY Z3

LEMMA LinesRise ==
    ASSUME NEW w \in Nat, NEW a \in Nat, NEW c \in Nat, a < c
    PROVE  a * w + w <= c * w /\ a * w \in Nat /\ c * w \in Nat
<1>1. PICK d \in Nat : c = a + 1 + d
  <2>1. c - a - 1 \in Nat /\ c = a + 1 + (c - a - 1)
    OBVIOUS
  <2> QED
    BY <2>1
<1>2. c * w = a * w + w + d * w
  BY <1>1, Z3
<1>3. a * w \in Nat /\ d * w \in Nat
  BY <1>1, Z3
<1> QED
  BY <1>2, <1>3

LEMMA PixelsDiffer ==
    ASSUME NEW w \in Nat, NEW a \in Nat, NEW b \in Nat, NEW c \in Nat, NEW d \in Nat,
           b < w, d < w, a * w + b = c * w + d
    PROVE  a = c /\ b = d
<1>1. ASSUME a < c PROVE FALSE
  <2>1. a * w + w <= c * w /\ a * w \in Nat /\ c * w \in Nat
    BY <1>1, LinesRise
  <2> QED
    BY <2>1
<1>2. ASSUME c < a PROVE FALSE
  <2>1. c * w + w <= a * w /\ a * w \in Nat /\ c * w \in Nat
    BY <1>2, LinesRise
  <2> QED
    BY <2>1
<1>3. a = c
  BY <1>1, <1>2
<1>4. a * w \in Nat
  BY Z3
<1> QED
  BY <1>3, <1>4

LEMMA NothingShown ==
    /\ DOMAIN <<>> = {} /\ ~(0 > 0)
    /\ \A n \in Nat \ {0} : n \in 1 .. n
OBVIOUS

LEMMA CellsDiffer ==
    ASSUME NEW x \in Nat, NEW y \in Nat
    PROVE  /\ \A k \in 0 .. 4, l \in 0 .. 4 : (6 * x) + k = (6 * y) + l => x = y
           /\ \A r \in 0 .. 11, s \in 0 .. 11 : (12 * x) + r = (12 * y) + s => x = y
OBVIOUS

\* The frame's extent in columns and rows.
LEMMA ConExtent ==
    /\ Columns \in Nat \ {0} /\ Rows \in Nat /\ Rows > 2
    /\ 6 * Columns <= Width /\ 12 * Rows < Height
<1>1. Width \in Nat /\ Height \in Nat /\ Columns > 0 /\ Rows > 2
  BY ConsoleAssumption
<1>2. Columns = Width \div 6 /\ Rows = (Height - 1) \div 12
  BY DEF Columns, Rows, FONT_WIDTH, FONT_HEIGHT
<1>3. Height # 0
  <2>1. (0 - 1) \div 12 <= 2
    OBVIOUS
  <2> QED
    BY <1>1, <1>2, <2>1
<1>4. Columns \in Nat /\ Columns * 6 <= Width
  BY <1>1, <1>2, DivBounds
<1>5. Height - 1 \in Nat
  BY <1>1, <1>3
<1>6. Rows \in Nat /\ Rows * 12 <= Height - 1
  BY <1>2, <1>5, DivBounds
<1> QED
  BY <1>1, <1>4, <1>5, <1>6

LEMMA ConOrigin ==
    /\ 0 \in 0 .. Columns - 1 /\ 0 \in 0 .. Rows - 1 /\ Rows - 1 # 0
    /\ \A x \in 0 .. Columns - 1 :
          /\ x \in Nat /\ x + 1 # 0 /\ x + 1 > 0 /\ (x + 1) - 1 = x
          /\ x + 1 >= Columns => x = Columns - 1
          /\ ~(x + 1 >= Columns) => x + 1 \in 0 .. Columns - 1
    /\ \A y \in 0 .. Rows - 1 : y \in Nat /\ y + 1 # 0 /\ (y + 1) - 1 = y
<1>1. Columns \in Nat \ {0} /\ Rows \in Nat /\ Rows > 2
  BY ConExtent
<1> QED
  BY <1>1

\* A pixel of a cell's glyph lies on a line of the frame that no other cell's
\* glyph has at that place.
LEMMA ConPixel ==
    ASSUME NEW x \in 0 .. Columns - 1, NEW y \in 0 .. Rows - 1, NEW p \in GlyphPixels(x, y)
    PROVE  \E r \in 0 .. 11, k \in 0 .. 4 :
              /\ p = ((12 * y) + r) * Width + ((6 * x) + k)
              /\ (12 * y) + r \in Nat /\ (12 * y) + r < Height
              /\ (6 * x) + k \in Nat /\ (6 * x) + k < Width
<1>1. PICK r \in 0 .. 11, k \in 0 .. 4 :
         p = (y * 12 * Width) + (x * (5 + 1)) + (r * Width) + k
  <2>1. FONT_HEIGHT - 1 = 11 /\ FONT_WIDTH - 1 = 4 /\ FONT_HEIGHT = 12 /\ FONT_WIDTH = 5
    BY DEF FONT_HEIGHT, FONT_WIDTH
  <2> QED
    BY <2>1 DEF GlyphPixels
<1>2. Width \in Nat /\ x \in Nat /\ y \in Nat /\ r \in Nat /\ k \in Nat
  BY ConsoleAssumption, ConExtent
<1>3. p = ((12 * y) + r) * Width + ((6 * x) + k)
  BY <1>1, <1>2, PixelIs
<1>4. /\ (12 * y) + r \in Nat /\ (12 * y) + r < Height
      /\ (6 * x) + k \in Nat /\ (6 * x) + k < Width
  BY <1>2, ConExtent, ConsoleAssumption
<1> QED
  BY <1>3, <1>4

LEMMA ConGlyphs == GlyphsApart
<1>1. Width \in Nat /\ Height \in Nat
  BY ConsoleAssumption
<1>2. ASSUME NEW c \in Cells, NEW p \in GlyphPixels(c[1], c[2])
      PROVE  p \in 0 .. ((Width * Height) - 1)
  <2>1. c[1] \in 0 .. Columns - 1 /\ c[2] \in 0 .. Rows - 1
    BY DEF Cells
  <2>2. PICK r \in 0 .. 11, k \in 0 .. 4 :
           /\ p = ((12 * c[2]) + r) * Width + ((6 * c[1]) + k)
           /\ (12 * c[2]) + r \in Nat /\ (12 * c[2]) + r < Height
           /\ (6 * c[1]) + k \in Nat /\ (6 * c[1]) + k < Width
    BY <2>1, ConPixel
  <2> DEFINE a == (12 * c[2]) + r
             b == (6 * c[1]) + k
  <2>3. a \in Nat /\ a < Height /\ b \in Nat /\ b < Width /\ p = a * Width + b
    BY <2>2
  <2> HIDE DEF a, b
  <2>4. a * Width + Width <= Height * Width /\ a * Width \in Nat /\ Height * Width \in Nat
    BY <1>1, <2>3, LinesRise
  <2>5. Height * Width = Width * Height
    BY <1>1, Z3
  <2> QED
    BY <1>1, <2>3, <2>4, <2>5
<1>3. ASSUME NEW c \in Cells, NEW d \in Cells \ {c},
             NEW p \in GlyphPixels(c[1], c[2]), p \in GlyphPixels(d[1], d[2])
      PROVE  FALSE
  <2>1. /\ c[1] \in 0 .. Columns - 1 /\ c[2] \in 0 .. Rows - 1 /\ c = <<c[1], c[2]>>
        /\ d[1] \in 0 .. Columns - 1 /\ d[2] \in 0 .. Rows - 1 /\ d = <<d[1], d[2]>>
    BY DEF Cells
  <2>2. PICK r \in 0 .. 11, k \in 0 .. 4 :
           /\ p = ((12 * c[2]) + r) * Width + ((6 * c[1]) + k)
           /\ (12 * c[2]) + r \in Nat /\ (12 * c[2]) + r < Height
           /\ (6 * c[1]) + k \in Nat /\ (6 * c[1]) + k < Width
    BY <2>1, ConPixel
  <2>3. PICK s \in 0 .. 11, l \in 0 .. 4 :
           /\ p = ((12 * d[2]) + s) * Width + ((6 * d[1]) + l)
           /\ (12 * d[2]) + s \in Nat /\ (12 * d[2]) + s < Height
           /\ (6 * d[1]) + l \in Nat /\ (6 * d[1]) + l < Width
    BY <1>3, <2>1, ConPixel
  <2>4. (12 * c[2]) + r = (12 * d[2]) + s /\ (6 * c[1]) + k = (6 * d[1]) + l
    <3> DEFINE m == (12 * c[2]) + r
               n == (12 * d[2]) + s
               i == (6 * c[1]) + k
               j == (6 * d[1]) + l
    <3>1. /\ m \in Nat /\ n \in Nat /\ i \in Nat /\ j \in Nat /\ i < Width /\ j < Width
          /\ m * Width + i = n * Width + j
      BY <2>2, <2>3
    <3> HIDE DEF m, n, i, j
    <3>2. m = n /\ i = j
      BY <1>1, <3>1, PixelsDiffer
    <3> QED
      BY <3>2 DEF m, n, i, j
  <2>5. c[1] \in Nat /\ c[2] \in Nat /\ d[1] \in Nat /\ d[2] \in Nat
    BY <2>1, ConExtent
  <2>6. r \in 0 .. 11 /\ s \in 0 .. 11 /\ k \in 0 .. 4 /\ l \in 0 .. 4
    BY <2>2, <2>3
  <2>7. c[1] = d[1] /\ c[2] = d[2]
    BY <2>4, <2>5, <2>6, CellsDiffer
  <2> QED
    BY <2>1, <2>7
<1> QED
  BY <1>2, <1>3 DEF GlyphsApart

LEMMA ConIsOk == ConInv => FbConsoleOk
<1> SUFFICES ASSUME ConInv PROVE FbConsoleOk
  OBVIOUS
<1>1. m_Position.x < Columns /\ m_Position.y < Rows
  <2>1. m_Position.x \in 0 .. Columns - 1 /\ m_Position.y \in 0 .. Rows - 1
    BY DEF ConInv, ConTypes
  <2> QED
    BY <2>1, ConExtent
<1>3. ASSUME \A w \in 1 .. Len(writers) : writers[w].at \in {"char", "space"}
      PROVE  m_Position.y < Rows - 1
  <2>1. m_Position.y \in 0 .. Rows - 1 /\ Len(writers) \in Nat
    BY DEF ConInv, ConTypes
  <2>2. \A w \in 1 .. Len(writers) : ~ConPastEnd(w)
    BY <1>3 DEF ConPastEnd, ConPast
  <2>3. Len(writers) > 0 => Len(writers) \in 1 .. Len(writers)
    BY <2>1
  <2>4. Len(writers) > 1 => Len(writers) - 1 \in 1 .. Len(writers)
    BY <2>1
  <2>5. m_Position.y # Rows - 1
    BY <2>2, <2>3, <2>4 DEF ConInv, ConRows
  <2> QED
    BY <2>1, <2>5, ConExtent
<1>2. ASSUME writers = <<>> PROVE (m_Initialized => m_Color = "white") /\ (caller => interrupts)
  <2>1. Len(writers) = 0
    BY <1>2
  <2>2. ~ConCritical(0)
    BY DEF ConCritical
  <2> QED
    BY <1>2, <2>1, <2>2 DEF ConInv, ConColours, ConColour, ConBase, ConCaller
<1> QED
  BY <1>1, <1>2, <1>3, ConGlyphs DEF FbConsoleOk, ConInv, ConLatest, ConDrawn, ConColours

LEMMA ConInvBegins == ConsoleInit => ConInv
<1> SUFFICES ASSUME ConsoleInit PROVE ConInv
  OBVIOUS
<1>1. writers = <<>> /\ Len(writers) = 0 /\ m_Initialized = FALSE /\ m_Color = "none" /\ latest = "none"
      /\ m_Position = [x |-> 0, y |-> 0] /\ interrupts \in BOOLEAN /\ caller = interrupts /\ shown = <<>>
  BY DEF ConsoleInit
<1>2. ConTypes
  <2>1. 0 \in 0 .. Columns - 1 /\ 0 \in 0 .. Rows - 1
    BY ConExtent
  <2>2. m_Position \in [x : 0 .. Columns - 1, y : 0 .. Rows - 1]
    BY <1>1, <2>1
  <2>3. <<>> \in Seq(ConWriter)
    OBVIOUS
  <2> QED
    BY <1>1, <2>2, <2>3 DEF ConTypes
<1>3. DOMAIN shown = {}
  BY <1>1
<1>4. ConRows
  <2>1. m_Position.y = 0
    BY <1>1
  <2> QED
    BY <2>1, ConOrigin DEF ConRows
<1> QED
  BY <1>1, <1>2, <1>3, <1>4 DEF ConInv, ConRepaint, ConColours, ConColour, ConCritical, ConBase, ConCaller, ConLatest, ConBlank

\* The running call goes on, with one character less or one to paint again;
\* the others stand.
ConGoesOn ==
    /\ Len(writers) \in Nat \ {0} /\ writers' \in Seq(ConWriter) /\ Len(writers') = Len(writers)
    /\ \A w \in 1 .. Len(writers) :
          /\ writers'[w].critical = writers[w].critical /\ writers'[w].foreground = writers[w].foreground
          /\ writers'[w].enabled = writers[w].enabled
          /\ w # Len(writers) => writers'[w] = writers[w]
    /\ writers'[Len(writers)].repaint # "none" \/ writers'[Len(writers)].at # "char" =>
          writers'[Len(writers)].left > 0

\* The running call's record is replaced by one of the same call.
LEMMA ConReplaces ==
    ASSUME ConInv, writers # <<>>, NEW t \in ConWriter,
           t.critical = writers[Len(writers)].critical, t.foreground = writers[Len(writers)].foreground,
           t.enabled = writers[Len(writers)].enabled, t.repaint # "none" \/ t.at # "char" => t.left > 0,
           writers' = [writers EXCEPT ![Len(writers)] = t]
    PROVE  ConGoesOn /\ writers'[Len(writers)] = t
<1> DEFINE n == Len(writers)
<1>1. writers \in Seq(ConWriter)
  BY DEF ConInv, ConTypes
<1>2. n \in Nat \ {0} /\ writers \in [1 .. n -> ConWriter] /\ n \in 1 .. n
  BY <1>1
<1> HIDE DEF n
<1>3. /\ writers' \in [1 .. n -> ConWriter] /\ writers'[n] = t
      /\ \A w \in 1 .. n : w # n => writers'[w] = writers[w]
  BY <1>2 DEF n
<1>4. writers' \in Seq(ConWriter) /\ Len(writers') = n
  BY <1>2, <1>3
<1> QED
  BY <1>2, <1>3, <1>4 DEF ConGoesOn, n

LEMMA ConTakes ==
    ASSUME ConInv, NEW c \in Chars, writers # <<>>, Writer.left > 0,
           writers' = CharTaken \/ writers' = PaintAgain(c)
    PROVE  /\ ConGoesOn /\ writers'[Len(writers)].at = "char"
           /\ writers' = CharTaken => writers'[Len(writers)].repaint = "none"
           /\ writers' # CharTaken => writers'[Len(writers)].repaint # "none"
<1> DEFINE n == Len(writers)
<1>1. writers \in Seq(ConWriter)
  BY DEF ConInv, ConTypes
<1>2. n \in Nat \ {0} /\ writers \in [1 .. n -> ConWriter] /\ n \in 1 .. n
  BY <1>1
<1>3. writers[n] \in ConWriter /\ writers[n].left > 0
  BY <1>2 DEF Writer
<1> HIDE DEF n
<1>4. c # "none" /\ c \in Chars \cup {"none"} /\ 0 \in 0 .. Rows - 1 /\ "char" \in ConAts
  BY ConOrigin DEF Chars, ConAts
<1> DEFINE taken == [writers[n] EXCEPT !.left = @ - 1, !.repaint = "none", !.at = "char", !.row = 0]
           again == [writers[n] EXCEPT !.repaint = c, !.at = "char", !.row = 0]
<1>5. writers[n].left - 1 \in Nat
  BY <1>3 DEF ConWriter
<1>6. /\ taken \in ConWriter /\ taken.repaint = "none" /\ taken.at = "char" /\ taken.critical = writers[n].critical
      /\ taken.foreground = writers[n].foreground /\ taken.enabled = writers[n].enabled
  BY <1>3, <1>4, <1>5 DEF ConWriter
<1>7. /\ again \in ConWriter /\ again.repaint = c /\ again.at = "char" /\ again.critical = writers[n].critical
      /\ again.foreground = writers[n].foreground /\ again.enabled = writers[n].enabled
      /\ again.left = writers[n].left
  BY <1>3, <1>4 DEF ConWriter
<1>8. CharTaken = [writers EXCEPT ![n] = taken] /\ PaintAgain(c) = [writers EXCEPT ![n] = again]
  BY DEF CharTaken, PaintAgain, n
<1> HIDE DEF taken, again
<1>9. CASE writers' = CharTaken
  <2>1. ConGoesOn /\ writers'[n] = taken
    BY <1>6, <1>8, <1>9, ConReplaces DEF n
  <2> QED
    BY <1>6, <1>9, <2>1 DEF n
<1>10. CASE writers' # CharTaken
  <2>1. writers' = [writers EXCEPT ![n] = again]
    BY <1>8, <1>10
  <2>2. again.left > 0
    BY <1>3, <1>7
  <2>3. ConGoesOn /\ writers'[n] = again
    BY <1>7, <2>1, <2>2, ConReplaces DEF n
  <2> QED
    BY <1>4, <1>7, <1>10, <2>3 DEF n
<1> QED
  BY <1>9, <1>10

\* The running call gets to another place in its character.
LEMMA ConMoves ==
    ASSUME ConInv, writers # <<>>, Writer.left > 0, NEW at \in ConAts, NEW row \in 0 .. Rows - 1, GoesOn(at, row)
    PROVE  ConGoesOn /\ writers'[Len(writers)].at = at /\ writers'[Len(writers)].row = row
<1> DEFINE n == Len(writers)
           there == [writers[n] EXCEPT !.at = at, !.row = row]
<1>1. writers \in Seq(ConWriter)
  BY DEF ConInv, ConTypes
<1>2. n \in Nat \ {0} /\ writers \in [1 .. n -> ConWriter] /\ n \in 1 .. n
  BY <1>1
<1>3. writers[n] \in ConWriter /\ writers[n].left > 0
  BY <1>2 DEF Writer
<1> HIDE DEF n
<1>4. /\ there \in ConWriter /\ there.at = at /\ there.row = row /\ there.left = writers[n].left
      /\ there.critical = writers[n].critical /\ there.foreground = writers[n].foreground
      /\ there.enabled = writers[n].enabled
  BY <1>3 DEF ConWriter
<1>5. writers' = [writers EXCEPT ![n] = there]
  BY DEF GoesOn, n
<1> HIDE DEF there
<1>6. there.left > 0
  BY <1>3, <1>4
<1>7. ConGoesOn /\ writers'[n] = there
  BY <1>4, <1>5, <1>6, ConReplaces DEF n
<1> QED
  BY <1>4, <1>7 DEF n

\* What a step of the running call keeps, whatever it does to the screen.
LEMMA ConSteps ==
    ASSUME ConInv, ConGoesOn, UNCHANGED <<m_Initialized, m_Color, caller>>, interrupts' \in BOOLEAN,
           m_Position' \in [x : 0 .. Columns - 1, y : 0 .. Rows - 1]
    PROVE  /\ ConTypes' /\ ConRepaint' /\ ConCaller'
           /\ m_Color' = ConColour(Len(writers))'
           /\ \A w \in 1 .. Len(writers') : writers'[w].critical => writers'[w].foreground = ConColour(w - 1)'
<1> DEFINE n == Len(writers)
<1>1. /\ n \in Nat \ {0} /\ writers' \in Seq(ConWriter) /\ Len(writers') = n
      /\ \A w \in 1 .. n :
            /\ writers'[w].critical = writers[w].critical /\ writers'[w].foreground = writers[w].foreground
            /\ writers'[w].enabled = writers[w].enabled
            /\ w # n => writers'[w] = writers[w]
      /\ writers'[n].repaint # "none" \/ writers'[n].at # "char" => writers'[n].left > 0
  BY DEF ConGoesOn
<1>2. ConTypes'
  BY <1>1 DEF ConInv, ConTypes
<1>3. \A w \in 1 .. n : writers[w].repaint # "none" \/ writers[w].at # "char" => writers[w].left > 0
  BY DEF ConInv, ConRepaint
<1>4. m_Color = ConColour(n) /\ \A w \in 1 .. n : writers[w].critical => writers[w].foreground = ConColour(w - 1)
  BY DEF ConInv, ConColours
<1>5. writers[1].enabled = caller
  BY <1>1 DEF ConInv, ConCaller
<1> HIDE DEF n
<1>6. ConRepaint'
  BY <1>1, <1>3 DEF ConRepaint
<1>7. ConCaller'
  <2>1. writers' # <<>>
    BY <1>1
  <2> QED
    BY <1>1, <1>5, <2>1 DEF ConCaller
<1>8. ASSUME NEW k \in 0 .. n PROVE (\E w \in 1 .. k : writers'[w].critical) <=> ConCritical(k)
  <2>1. \A w \in 1 .. k : w \in 1 .. n
    BY <1>1
  <2> QED
    BY <1>1, <2>1 DEF ConCritical
<1>9. ConBase' = ConBase
  BY DEF ConBase
<1>10. ASSUME NEW k \in 0 .. n
       PROVE  (IF \E w \in 1 .. k : writers'[w].critical THEN "yellow" ELSE ConBase') = ConColour(k)
  BY <1>8, <1>9 DEF ConColour
<1>11. m_Color' = IF \E w \in 1 .. Len(writers') : writers'[w].critical THEN "yellow" ELSE ConBase'
  BY <1>1, <1>4, <1>10
<1>12. ASSUME NEW w \in 1 .. n, writers'[w].critical
       PROVE  writers'[w].foreground = IF \E v \in 1 .. w - 1 : writers'[v].critical THEN "yellow" ELSE ConBase'
  <2>1. w - 1 \in 0 .. n
    BY <1>1
  <2> QED
    BY <1>1, <1>4, <1>10, <1>12, <2>1
<1> QED
  BY <1>1, <1>2, <1>6, <1>7, <1>11, <1>12 DEF ConColour, ConCritical

\* A step within the row, of a call that is not past the end of it.
LEMMA ConRowStays ==
    ASSUME ConInv, ConGoesOn, m_Position'.y = m_Position.y, UNCHANGED interrupts,
           writers[Len(writers)].at \in {"char", "space"}, writers'[Len(writers)].at = "char"
    PROVE  ConRows'
<1> DEFINE n == Len(writers)
<1> SUFFICES ASSUME m_Position.y = Rows - 1
             PROVE  n > 1 /\ ~interrupts /\ writers'[n - 1].at \in ConPast /\ writers'[n - 1].row = Rows - 1
  BY DEF ConRows, ConGoesOn, ConPastEnd
<1>1. ~ConPastEnd(n)
  BY DEF ConPastEnd, ConPast
<1>2. n > 1 /\ ~interrupts /\ ConPastEnd(n - 1)
  BY <1>1 DEF ConInv, ConRows
<1>3. n \in Nat \ {0} /\ \A w \in 1 .. n : w # n => writers'[w] = writers[w]
  BY DEF ConGoesOn
<1>4. n - 1 \in 1 .. n /\ n - 1 # n
  BY <1>2, <1>3
<1>5. writers'[n - 1] = writers[n - 1]
  BY <1>3, <1>4
<1> QED
  BY <1>2, <1>5 DEF ConPastEnd

\* The steps of a call that draw nothing.
LEMMA ConSkips ==
    ASSUME ConInv, \/ \E c \in {" ", "other", "a"} : Ignored(c)
                   \/ CarriageReturn
    PROVE  ConInv'
<1>1. PICK c \in Chars : /\ Comes(c) /\ writers' = CharTaken /\ Writer.at = "char"
                         /\ UNCHANGED <<m_Initialized, m_Color, caller, shown, interrupts>>
                         /\ \/ /\ m_Position' = m_Position
                               /\ latest' = IF Writer.repaint = "none" THEN latest ELSE "none"
                            \/ /\ m_Position' = [m_Position EXCEPT !.x = 0] /\ latest' = "none"
  <2>1. ASSUME NEW c \in {" ", "other", "a"}, Ignored(c) PROVE c \in Chars /\ Comes(c) /\ Writer.at = "char"
    BY <2>1 DEF Ignored, Chars
  <2>2. CarriageReturn => "\r" \in Chars /\ Comes("\r") /\ Writer.at = "char"
    BY DEF CarriageReturn, Chars, Comes
  <2> QED
    BY <2>1, <2>2 DEF Ignored, CarriageReturn
<1>2. ConGoesOn /\ writers'[Len(writers)].at = "char"
  BY <1>1, ConTakes DEF Comes
<1>3. interrupts \in BOOLEAN /\ m_Position \in [x : 0 .. Columns - 1, y : 0 .. Rows - 1]
  BY DEF ConInv, ConTypes
<1>4. m_Position' \in [x : 0 .. Columns - 1, y : 0 .. Rows - 1]
  <2>1. 0 \in 0 .. Columns - 1
    BY ConOrigin
  <2> QED
    BY <1>1, <1>3, <2>1
<1>5. /\ ConTypes' /\ ConRepaint' /\ ConCaller'
      /\ m_Color' = ConColour(Len(writers))'
      /\ \A w \in 1 .. Len(writers') : writers'[w].critical => writers'[w].foreground = ConColour(w - 1)'
  BY <1>1, <1>2, <1>3, <1>4, ConSteps
<1>6. ConLatest'
  <2> SUFFICES ASSUME latest' # "none",
                      \A w \in 1 .. Len(writers') : writers'[w].repaint = "none" /\ writers'[w].at = "char"
               PROVE  ConDrawn(latest', m_Position', shown')
    BY DEF ConLatest, ConDrawn, CellBefore
  <2>1. latest' = latest /\ m_Position' = m_Position /\ Writer.repaint = "none" /\ Writer.at = "char"
    BY <1>1
  <2>2. ASSUME NEW w \in 1 .. Len(writers) PROVE writers[w].repaint = "none" /\ writers[w].at = "char"
    BY <1>2, <2>1 DEF ConGoesOn, Writer
  <2> QED
    BY <1>1, <2>1, <2>2 DEF ConInv, ConLatest
<1>7. \A d \in DOMAIN shown' : shown'[d].critical => shown'[d].colour = "yellow"
  BY <1>1 DEF ConInv, ConColours
<1>8. ConBlank'
  BY <1>1 DEF ConInv, ConBlank
<1>9. ConRows'
  <2>1. m_Position'.y = m_Position.y
    BY <1>1, <1>3
  <2>2. writers[Len(writers)].at \in {"char", "space"}
    BY <1>1 DEF Writer
  <2> QED
    BY <1>1, <1>2, <2>1, <2>2, ConRowStays
<1> QED
  BY <1>5, <1>6, <1>7, <1>8, <1>9 DEF ConInv, ConColours

\* What newline leaves of a screen on which the last cell of a line was drawn.
LEMMA ConFeeds ==
    ASSUME ConInv, NEW c \in Chars, Comes(c), NEW drawn, NEW intstate \in BOOLEAN, Newline(c, drawn, intstate)
    PROVE  /\ \/ writers' = CharTaken
              \/ writers' = PaintAgain(c)
           /\ m_Position' \in [x : 0 .. Columns - 1, y : 0 .. Rows - 1]
           /\ interrupts' \in BOOLEAN /\ m_Position'.y # Rows - 1
           /\ writers' = CharTaken =>
                 shown' = drawn /\ m_Position' = [x |-> 0, y |-> m_Position.y + 1]
           /\ writers' # CharTaken => shown' = <<>>
<1>1. m_Position \in [x : 0 .. Columns - 1, y : 0 .. Rows - 1] /\ interrupts \in BOOLEAN
  BY DEF ConInv, ConTypes
<1> DEFINE y == m_Position.y + 1
<1>2. /\ y \in Nat /\ 0 \in 0 .. Columns - 1 /\ 0 \in 0 .. Rows - 1 /\ 0 # Rows - 1
      /\ ~(y >= Rows - 1) => y \in 0 .. Rows - 1 /\ y # Rows - 1
  BY <1>1, ConExtent
<1>3. \/ /\ y >= Rows - 1 /\ shown' = <<>> /\ m_Position' = [x |-> 0, y |-> 0]
         /\ writers' = PaintAgain(c)
      \/ /\ ~(y >= Rows - 1) /\ shown' = drawn /\ m_Position' = [x |-> 0, y |-> y] /\ writers' = CharTaken
  BY DEF Newline
<1>4. interrupts' \in BOOLEAN
  BY <1>1 DEF Newline
<1>5. m_Position' \in [x : 0 .. Columns - 1, y : 0 .. Rows - 1] /\ m_Position'.y # Rows - 1
  <2>1. CASE m_Position' = [x |-> 0, y |-> 0]
    BY <1>2, <2>1
  <2>2. CASE ~(y >= Rows - 1) /\ m_Position' = [x |-> 0, y |-> y]
    <3> HIDE DEF y
    <3> QED
      BY <1>2, <2>2
  <2> QED
    BY <1>3, <2>1, <2>2
<1>6. CharTaken # PaintAgain(c)
  <2>1. writers \in Seq(ConWriter) /\ writers # <<>> /\ Writer.left > 0
    BY DEF ConInv, ConTypes, Comes
  <2> DEFINE n == Len(writers)
  <2>2. n \in 1 .. n /\ writers \in [1 .. n -> ConWriter]
    BY <2>1
  <2> HIDE DEF n
  <2>3. writers[n] \in ConWriter
    BY <2>2
  <2>4. writers[n].left \in Nat
    BY <2>3 DEF ConWriter
  <2>5. CharTaken[n] = [writers[n] EXCEPT !.left = @ - 1, !.repaint = "none", !.at = "char", !.row = 0]
    BY <2>2 DEF CharTaken, n
  <2>6. CharTaken[n].left = writers[n].left - 1
    BY <2>3, <2>5 DEF ConWriter
  <2>7. PaintAgain(c)[n] = [writers[n] EXCEPT !.repaint = c, !.at = "char", !.row = 0]
    BY <2>2 DEF PaintAgain, n
  <2>8. PaintAgain(c)[n].left = writers[n].left
    BY <2>3, <2>7 DEF ConWriter
  <2>9. CharTaken[n].left # PaintAgain(c)[n].left
    BY <2>4, <2>6, <2>8
  <2> QED
    BY <2>9
<1> QED
  BY <1>3, <1>4, <1>5, <1>6

LEMMA ConLineFeeds ==
    ASSUME ConInv, LineFeed
    PROVE  ConInv'
<1>1. "\n" \in Chars /\ Comes("\n") /\ latest' = "none" /\ UNCHANGED <<m_Initialized, m_Color, caller>>
  BY DEF LineFeed, Chars
<1>2. PICK intstate \in BOOLEAN : Newline("\n", shown, intstate)
  BY ConsoleAssumption DEF LineFeed
<1>3. /\ \/ writers' = CharTaken
         \/ writers' = PaintAgain("\n")
      /\ m_Position' \in [x : 0 .. Columns - 1, y : 0 .. Rows - 1]
      /\ interrupts' \in BOOLEAN /\ m_Position'.y # Rows - 1
      /\ writers' = CharTaken => shown' = shown
      /\ writers' # CharTaken => shown' = <<>>
  BY <1>1, <1>2, ConFeeds
<1>4. ConGoesOn
  BY <1>1, <1>3, ConTakes DEF Comes
<1>5. /\ ConTypes' /\ ConRepaint' /\ ConCaller'
      /\ m_Color' = ConColour(Len(writers))'
      /\ \A w \in 1 .. Len(writers') : writers'[w].critical => writers'[w].foreground = ConColour(w - 1)'
  BY <1>1, <1>3, <1>4, ConSteps
<1>6. shown' = shown \/ DOMAIN shown' = {}
  BY <1>3, NothingShown
<1>7. \A d \in DOMAIN shown' : shown'[d].critical => shown'[d].colour = "yellow"
  BY <1>6 DEF ConInv, ConColours
<1>8. ConLatest' /\ ConBlank' /\ ConRows'
  BY <1>1, <1>3 DEF ConLatest, ConBlank, ConRows
<1> QED
  BY <1>5, <1>7, <1>8 DEF ConInv, ConColours

LEMMA ConPaints ==
    ASSUME ConInv, NEW c \in {" ", "a", "b"}, Paint(c)
    PROVE  ConInv'
<1> DEFINE here == <<m_Position.x, m_Position.y>>
           glyph == [char |-> c, colour |-> m_Color, critical |-> Writer.critical]
           drawn == [cell \in DOMAIN shown \cup {here} |-> IF cell = here THEN glyph ELSE shown[cell]]
<1>1. c \in Chars /\ Comes(c) /\ latest' = c /\ UNCHANGED <<m_Initialized, m_Color, caller>> /\ c # "none"
  BY DEF Paint, Chars
<1>2. m_Position \in [x : 0 .. Columns - 1, y : 0 .. Rows - 1] /\ interrupts \in BOOLEAN
  BY DEF ConInv, ConTypes
<1>3. \/ m_Position.x + 1 >= Columns /\ Newline(c, drawn, interrupts)
      \/ /\ ~(m_Position.x + 1 >= Columns) /\ shown' = drawn
         /\ m_Position' = [m_Position EXCEPT !.x = @ + 1] /\ writers' = CharTaken /\ UNCHANGED interrupts
  BY DEF Paint
<1> HIDE DEF drawn
<1>4. /\ \/ writers' = CharTaken
         \/ writers' = PaintAgain(c)
      /\ m_Position' \in [x : 0 .. Columns - 1, y : 0 .. Rows - 1]
      /\ interrupts' \in BOOLEAN
      /\ m_Position'.y # Rows - 1 \/ (m_Position'.y = m_Position.y /\ UNCHANGED interrupts /\ writers' = CharTaken)
      /\ writers' = CharTaken =>
            /\ shown' = drawn
            /\ \/ m_Position' = [x |-> 0, y |-> m_Position.y + 1] /\ m_Position.x = Columns - 1
               \/ m_Position' = [x |-> m_Position.x + 1, y |-> m_Position.y]
      /\ writers' # CharTaken => shown' = <<>>
  <2>1. CASE m_Position.x + 1 >= Columns /\ Newline(c, drawn, interrupts)
    <3>1. m_Position.x = Columns - 1
      <4>1. m_Position.x \in 0 .. Columns - 1
        BY <1>2
      <4> QED
        BY <2>1, <4>1, ConOrigin
    <3>2. Newline(c, drawn, interrupts)
      BY <2>1
    <3>3. c \in Chars /\ Comes(c) /\ interrupts \in BOOLEAN
      BY <1>1, <1>2
    <3>4. /\ \/ writers' = CharTaken
             \/ writers' = PaintAgain(c)
          /\ m_Position' \in [x : 0 .. Columns - 1, y : 0 .. Rows - 1]
          /\ interrupts' \in BOOLEAN /\ m_Position'.y # Rows - 1
          /\ writers' = CharTaken =>
                shown' = drawn /\ m_Position' = [x |-> 0, y |-> m_Position.y + 1]
          /\ writers' # CharTaken => shown' = <<>>
      BY ONLY ConInv, <3>2, <3>3, ConFeeds, Zenon
    <3> QED
      BY <3>1, <3>4
  <2>2. CASE ~(m_Position.x + 1 >= Columns) /\ shown' = drawn
             /\ m_Position' = [m_Position EXCEPT !.x = @ + 1] /\ writers' = CharTaken /\ UNCHANGED interrupts
    <3>1. m_Position.x + 1 \in 0 .. Columns - 1
      <4>1. m_Position.x \in 0 .. Columns - 1
        BY <1>2
      <4> QED
        BY <2>2, <4>1, ConOrigin
    <3>2. /\ m_Position' = [x |-> m_Position.x + 1, y |-> m_Position.y]
          /\ m_Position' \in [x : 0 .. Columns - 1, y : 0 .. Rows - 1]
      BY <1>2, <2>2, <3>1
    <3> QED
      BY <1>2, <2>2, <3>2
  <2> QED
    BY <1>3, <2>1, <2>2
<1>5. /\ ConGoesOn /\ writers'[Len(writers)].at = "char"
      /\ writers' # CharTaken => writers'[Len(writers)].repaint # "none"
  BY <1>1, <1>4, ConTakes DEF Comes
<1>6. /\ ConTypes' /\ ConRepaint' /\ ConCaller'
      /\ m_Color' = ConColour(Len(writers))'
      /\ \A w \in 1 .. Len(writers') : writers'[w].critical => writers'[w].foreground = ConColour(w - 1)'
  BY <1>1, <1>4, <1>5, ConSteps
<1>7. \A d \in DOMAIN shown' : shown'[d].critical => shown'[d].colour = "yellow"
  <2>1. CASE writers' # CharTaken
    <3>1. DOMAIN shown' = {}
      BY <1>4, <2>1, NothingShown
    <3> QED
      BY <3>1
  <2>2. CASE writers' = CharTaken
    <3>1. Writer.critical => m_Color = "yellow"
      <4>1. Len(writers) \in Nat \ {0}
        BY <1>5 DEF ConGoesOn
      <4>2. Len(writers) \in 1 .. Len(writers)
        BY <4>1, NothingShown
      <4>3. m_Color = ConColour(Len(writers))
        BY DEF ConInv, ConColours
      <4> QED
        BY <4>2, <4>3 DEF Writer, ConColour, ConCritical
    <3>2. \A d \in DOMAIN shown : shown[d].critical => shown[d].colour = "yellow"
      BY DEF ConInv, ConColours
    <3>3. shown' = drawn
      BY <1>4, <2>2
    <3>4. glyph.critical => glyph.colour = "yellow"
      BY <3>1
    <3> HIDE DEF glyph
    <3> QED
      BY <3>2, <3>3, <3>4 DEF drawn
  <2> QED
    BY <2>1, <2>2
<1>8. ConLatest'
  <2> SUFFICES ASSUME \A w \in 1 .. Len(writers') : writers'[w].repaint = "none" /\ writers'[w].at = "char"
               PROVE  ConDrawn(latest', m_Position', shown')
    BY DEF ConLatest, ConDrawn, CellBefore
  <2>1. Len(writers) \in 1 .. Len(writers')
    <3>1. Len(writers) \in Nat \ {0} /\ Len(writers') = Len(writers)
      BY <1>5 DEF ConGoesOn
    <3> QED
      BY <3>1, NothingShown
  <2>2. writers' = CharTaken
    BY <1>5, <2>1
  <2>3. shown' = drawn /\ here \in DOMAIN drawn /\ drawn[here] = glyph /\ glyph.char = c
    BY <1>4, <2>2 DEF drawn
  <2>4. /\ m_Position.x + 1 # 0 /\ m_Position.x + 1 > 0 /\ (m_Position.x + 1) - 1 = m_Position.x
        /\ m_Position.y + 1 # 0 /\ (m_Position.y + 1) - 1 = m_Position.y
    <3>1. m_Position.x \in 0 .. Columns - 1 /\ m_Position.y \in 0 .. Rows - 1
      BY <1>2
    <3> QED
      BY <3>1, ConOrigin
  <2>5. m_Position' # [x |-> 0, y |-> 0] /\ CellBefore(m_Position'.x, m_Position'.y) = here
    <3>1. CASE m_Position' = [x |-> 0, y |-> m_Position.y + 1] /\ m_Position.x = Columns - 1
      <4>1. m_Position'.x = 0 /\ m_Position'.y = m_Position.y + 1
        BY <3>1
      <4>2. m_Position'.y # 0 /\ m_Position'.y - 1 = m_Position.y
        BY <2>4, <4>1
      <4>5. ~(m_Position'.x > 0)
        <5>1. ~(0 > 0)
          BY NothingShown
        <5> QED
          BY <4>1, <5>1
      <4>3. m_Position' # [x |-> 0, y |-> 0]
        <5>1. [x |-> 0, y |-> 0].y = 0
          OBVIOUS
        <5> QED
          BY <4>2, <5>1
      <4>4. Columns - 1 = m_Position.x
        BY <3>1
      <4> QED
        BY <4>2, <4>3, <4>4, <4>5 DEF CellBefore
    <3>2. CASE m_Position' = [x |-> m_Position.x + 1, y |-> m_Position.y]
      <4>1. m_Position'.x = m_Position.x + 1 /\ m_Position'.y = m_Position.y
        BY <3>2
      <4>2. m_Position'.x > 0 /\ m_Position'.x # 0 /\ m_Position'.x - 1 = m_Position.x
        BY <2>4, <4>1
      <4>3. m_Position' # [x |-> 0, y |-> 0]
        <5>1. [x |-> 0, y |-> 0].x = 0
          OBVIOUS
        <5> QED
          BY <4>2, <5>1
      <4> QED
        BY <4>1, <4>2, <4>3 DEF CellBefore
    <3> QED
      BY <1>4, <2>2, <3>1, <3>2
  <2> HIDE DEF here, glyph
  <2> QED
    BY <1>1, <2>3, <2>5 DEF ConDrawn
<1>9. ConBlank'
  <2>1. m_Initialized
    BY DEF Paint
  <2> QED
    BY <1>1, <2>1 DEF ConBlank
<1>10. ConRows'
  <2>1. writers[Len(writers)].at \in {"char", "space"}
    BY <1>1 DEF Comes, Writer
  <2>2. CASE m_Position'.y # Rows - 1
    BY <2>2 DEF ConRows
  <2>3. CASE m_Position'.y = m_Position.y /\ UNCHANGED interrupts
    BY <1>5, <2>1, <2>3, ConRowStays
  <2> QED
    BY <1>4, <2>2, <2>3
<1> QED
  BY <1>6, <1>7, <1>8, <1>9, <1>10 DEF ConInv, ConColours

\* Which row the cursor is in while a call is in the middle of a line feed.
LEMMA ConRowOf ==
    ASSUME ConInv, writers # <<>>
    PROVE  /\ Writer.at \in ConPast /\ m_Position.y = Rows - 1 => Writer.row = Rows - 1
           /\ Writer.at \in {"char", "space", "row"} /\ interrupts => m_Position.y \in 0 .. Rows - 2
           /\ Writer \in ConWriter /\ m_Position.y \in 0 .. Rows - 1 /\ m_Position.x \in 0 .. Columns - 1
           /\ Writer.at # "char" => Writer.left > 0
<1>1. writers \in Seq(ConWriter) /\ m_Position.y \in 0 .. Rows - 1 /\ m_Position.x \in 0 .. Columns - 1
  BY DEF ConInv, ConTypes
<1>2. Len(writers) \in 1 .. Len(writers)
  BY <1>1
<1>3. Writer = writers[Len(writers)] /\ Writer \in ConWriter
  BY <1>1, <1>2 DEF Writer
<1>4. Writer.at # "char" => Writer.left > 0
  BY <1>2, <1>3 DEF ConInv, ConRepaint
<1>5. ASSUME Writer.at \in ConPast, m_Position.y = Rows - 1
      PROVE  Writer.row = Rows - 1
  BY <1>3, <1>5 DEF ConInv, ConRows, ConPastEnd, ConPast
<1>6. ASSUME Writer.at \in {"char", "space", "row"}, interrupts
      PROVE  m_Position.y # Rows - 1
  BY <1>3, <1>6 DEF ConInv, ConRows, ConPastEnd, ConPast
<1>7. m_Position.y # Rows - 1 => m_Position.y \in 0 .. Rows - 2
  BY <1>1, ConExtent
<1> QED
  BY <1>1, <1>3, <1>4, <1>5, <1>6, <1>7

\* What a step in the middle of a line feed has to show.
LEMMA ConFeedKeeps ==
    ASSUME ConInv, ConGoesOn, UNCHANGED <<m_Initialized, m_Color, interrupts, caller>>,
           m_Position' \in [x : 0 .. Columns - 1, y : 0 .. Rows - 1],
           shown' = shown \/ shown' = <<>>, latest' \in {latest, "none"},
           latest' = "none" \/ writers'[Len(writers)].at # "char",
           m_Position'.y = Rows - 1 => writers'[Len(writers)].at \in ConPast /\ writers'[Len(writers)].row = Rows - 1
    PROVE  ConInv'
<1>1. interrupts' \in BOOLEAN
  BY DEF ConInv, ConTypes
<1>2. /\ ConTypes' /\ ConRepaint' /\ ConCaller'
      /\ m_Color' = ConColour(Len(writers))'
      /\ \A w \in 1 .. Len(writers') : writers'[w].critical => writers'[w].foreground = ConColour(w - 1)'
  BY <1>1, ConSteps
<1>3. \A d \in DOMAIN shown' : shown'[d].critical => shown'[d].colour = "yellow"
  <2>1. shown' = shown \/ DOMAIN shown' = {}
    BY NothingShown
  <2> QED
    BY <2>1 DEF ConInv, ConColours
<1>4. Len(writers') = Len(writers) /\ Len(writers) \in 1 .. Len(writers) /\ Len(writers) > 0
  <2>1. Len(writers') = Len(writers) /\ Len(writers) \in Nat \ {0}
    BY DEF ConGoesOn
  <2> QED
    BY <2>1
<1>5. ConLatest'
  BY <1>4 DEF ConLatest
<1>6. ConBlank'
  BY DEF ConInv, ConBlank
<1>7. ConRows'
  BY <1>4 DEF ConRows, ConPastEnd
<1> QED
  BY <1>2, <1>3, <1>5, <1>6, <1>7 DEF ConInv, ConColours

\* A line feed or a space in whose middle a handler may write.
LEMMA ConFeedStep ==
    ASSUME ConInv, InterruptibleFeed \/ LookAtSpace
    PROVE  ConInv'
<1>1. writers # <<>> /\ UNCHANGED <<m_Initialized, m_Color, interrupts, caller>>
  BY DEF InterruptibleFeed, ReadRow, WriteRow, WriteColumn, LookAtBound, ClearScreen, FirstRow, LookAtSpace, FeedAt
<1>2. /\ Writer.at \in ConPast /\ m_Position.y = Rows - 1 => Writer.row = Rows - 1
      /\ Writer.at \in {"char", "space", "row"} /\ interrupts => m_Position.y \in 0 .. Rows - 2
      /\ Writer \in ConWriter /\ m_Position.y \in 0 .. Rows - 1 /\ m_Position.x \in 0 .. Columns - 1
      /\ Writer.at # "char" => Writer.left > 0
  BY <1>1, ConRowOf
<1>3. Writer.row \in 0 .. Rows - 1
  BY <1>2 DEF ConWriter
<1>4. m_Position \in [x : 0 .. Columns - 1, y : 0 .. Rows - 1]
  BY DEF ConInv, ConTypes
<1>5. Rows \in Nat /\ Rows > 2
  BY ConExtent
<1>6. CASE ReadRow
  <2>1. /\ Writer.at = "char" /\ interrupts /\ Writer.left > 0 /\ GoesOn("row", m_Position.y + 1)
        /\ latest' = "none" /\ UNCHANGED <<m_Position, shown>>
    BY <1>6 DEF ReadRow, FeedAt, Comes
  <2>2. m_Position.y \in 0 .. Rows - 2
    BY <1>2, <2>1
  <2>3. m_Position.y + 1 \in 0 .. Rows - 1 /\ m_Position.y # Rows - 1 /\ "row" \in ConAts
    BY <1>5, <2>2 DEF ConAts
  <2>4. ConGoesOn
    BY <1>1, <2>1, <2>3, ConMoves
  <2> QED
    BY <1>1, <1>4, <2>1, <2>3, <2>4, ConFeedKeeps
<1>7. CASE WriteRow
  <2>1. /\ Writer.at = "row" /\ GoesOn("column", Writer.row) /\ UNCHANGED <<shown, latest>>
        /\ m_Position' = [m_Position EXCEPT !.y = Writer.row]
    BY <1>7 DEF WriteRow, FeedAt
  <2>2. Writer.left > 0 /\ "column" \in ConAts /\ "column" \in ConPast
    BY <1>2, <2>1 DEF ConAts, ConPast
  <2>3. ConGoesOn /\ writers'[Len(writers)].at = "column" /\ writers'[Len(writers)].row = Writer.row
    BY <1>1, <1>3, <2>1, <2>2, ConMoves
  <2>4. m_Position' \in [x : 0 .. Columns - 1, y : 0 .. Rows - 1] /\ m_Position'.y = Writer.row
    BY <1>3, <1>4, <2>1
  <2> QED
    BY <1>1, <2>1, <2>2, <2>3, <2>4, ConFeedKeeps
<1>8. CASE WriteColumn
  <2>1. /\ Writer.at = "column" /\ GoesOn("bound", Writer.row) /\ UNCHANGED <<shown, latest>>
        /\ m_Position' = [m_Position EXCEPT !.x = 0]
    BY <1>8 DEF WriteColumn, FeedAt
  <2>2. Writer.left > 0 /\ "bound" \in ConAts /\ "bound" \in ConPast /\ Writer.at \in ConPast
    BY <1>2, <2>1 DEF ConAts, ConPast
  <2>3. ConGoesOn /\ writers'[Len(writers)].at = "bound" /\ writers'[Len(writers)].row = Writer.row
    BY <1>1, <1>3, <2>1, <2>2, ConMoves
  <2>4. m_Position' \in [x : 0 .. Columns - 1, y : 0 .. Rows - 1] /\ m_Position'.y = m_Position.y
    BY <1>4, <2>1, ConOrigin
  <2> QED
    BY <1>1, <1>2, <2>1, <2>2, <2>3, <2>4, ConFeedKeeps
<1>9. CASE LookAtBound
  <2>1. Writer.at = "bound" /\ UNCHANGED <<m_Position, shown>>
    BY <1>9 DEF LookAtBound, FeedAt
  <2>2. PICK y \in {Writer.row, m_Position.y} :
           IF y >= Rows - 1 THEN GoesOn("clear", Writer.row) /\ UNCHANGED latest
                            ELSE writers' = CharTaken /\ latest' = "none"
    BY <1>9 DEF LookAtBound
  <2>3. /\ Writer.left > 0 /\ "clear" \in ConAts /\ "clear" \in ConPast /\ Writer.at \in ConPast
        /\ "\n" \in Chars
    BY <1>2, <2>1 DEF ConAts, ConPast, Chars
  <2>4. CASE y >= Rows - 1
    <3>1. GoesOn("clear", Writer.row) /\ UNCHANGED latest
      BY <2>2, <2>4
    <3>2. ConGoesOn /\ writers'[Len(writers)].at = "clear" /\ writers'[Len(writers)].row = Writer.row
      BY <1>1, <1>3, <2>3, <3>1, ConMoves
    <3> QED
      BY <1>1, <1>2, <1>4, <2>1, <2>3, <3>1, <3>2, ConFeedKeeps
  <2>5. CASE ~(y >= Rows - 1)
    <3>1. writers' = CharTaken /\ latest' = "none"
      BY <2>2, <2>5
    <3>2. ConGoesOn
      BY <1>1, <2>3, <3>1, ConTakes
    <3>3. m_Position.y # Rows - 1
      <4>1. m_Position.y = Rows - 1 => y = Rows - 1
        BY <1>2, <2>2, <2>3
      <4>2. Rows - 1 >= Rows - 1
        BY <1>5
      <4> QED
        BY <2>5, <4>1, <4>2
    <3> QED
      BY <1>1, <1>4, <2>1, <3>1, <3>2, <3>3, ConFeedKeeps
  <2> QED
    BY <2>4, <2>5
<1>10. CASE ClearScreen
  <2>1. /\ Writer.at = "clear" /\ GoesOn("home", Writer.row) /\ shown' = <<>> /\ UNCHANGED <<m_Position, latest>>
    BY <1>10 DEF ClearScreen, FeedAt
  <2>2. Writer.left > 0 /\ "home" \in ConAts /\ "home" \in ConPast /\ Writer.at \in ConPast
    BY <1>2, <2>1 DEF ConAts, ConPast
  <2>3. ConGoesOn /\ writers'[Len(writers)].at = "home" /\ writers'[Len(writers)].row = Writer.row
    BY <1>1, <1>3, <2>1, <2>2, ConMoves
  <2> QED
    BY <1>1, <1>2, <1>4, <2>1, <2>2, <2>3, ConFeedKeeps
<1>11. CASE FirstRow
  <2>1. /\ Writer.at = "home" /\ writers' = PaintAgain("\n") /\ latest' = "none" /\ UNCHANGED shown
        /\ m_Position' = [m_Position EXCEPT !.y = 0]
    BY <1>11 DEF FirstRow, FeedAt
  <2>2. Writer.left > 0 /\ "\n" \in Chars
    BY <1>2, <2>1 DEF Chars
  <2>3. ConGoesOn
    BY <1>1, <2>1, <2>2, ConTakes
  <2>4. m_Position' \in [x : 0 .. Columns - 1, y : 0 .. Rows - 1] /\ m_Position'.y # Rows - 1
    BY <1>4, <2>1, ConOrigin
  <2> QED
    BY <1>1, <2>1, <2>3, <2>4, ConFeedKeeps
<1>12. CASE LookAtSpace
  <2>1. /\ Writer.at = "char" /\ interrupts /\ Writer.left > 0 /\ GoesOn("space", 0)
        /\ UNCHANGED <<m_Position, shown, latest>>
    BY <1>12 DEF LookAtSpace, FeedAt, Comes
  <2>2. m_Position.y \in 0 .. Rows - 2
    BY <1>2, <2>1
  <2>3. m_Position.y # Rows - 1 /\ "space" \in ConAts /\ 0 \in 0 .. Rows - 1
    BY <1>5, <2>2, ConOrigin DEF ConAts
  <2>4. ConGoesOn /\ writers'[Len(writers)].at = "space"
    BY <1>1, <2>1, <2>3, ConMoves
  <2> QED
    BY <1>1, <1>4, <2>1, <2>3, <2>4, ConFeedKeeps
<1> QED
  BY <1>6, <1>7, <1>8, <1>9, <1>10, <1>11, <1>12 DEF InterruptibleFeed

\* A call begins above those that are interrupted.
LEMMA ConBegins ==
    ASSUME ConInv, NEW critical \in BOOLEAN, BeginWrite(critical)
    PROVE  ConInv'
<1> DEFINE n == Len(writers)
<1>1. PICK left \in TextLengths :
         writers' = Append(writers, [left |-> left, repaint |-> "none", at |-> "char", row |-> 0,
                    critical |-> critical, foreground |-> m_Color,
                                      enabled |-> writers = <<>> /\ interrupts])
  BY DEF BeginWrite
<1> DEFINE call == [left |-> left, repaint |-> "none", at |-> "char", row |-> 0,
                    critical |-> critical, foreground |-> m_Color,
                    enabled |-> writers = <<>> /\ interrupts]
<1>2. /\ m_Color' = IF critical THEN "yellow" ELSE m_Color
      /\ caller' = IF writers = <<>> THEN interrupts ELSE caller
      /\ interrupts' = FALSE /\ UNCHANGED <<m_Initialized, m_Position, shown, latest>>
  BY DEF BeginWrite
<1>3. /\ m_Initialized \in BOOLEAN /\ interrupts \in BOOLEAN /\ caller \in BOOLEAN
      /\ m_Position \in [x : 0 .. Columns - 1, y : 0 .. Rows - 1] /\ writers \in Seq(ConWriter)
  BY DEF ConInv, ConTypes
<1>4. m_Color \in {"none", "white", "yellow"} /\ m_Color = ConColour(n)
  BY DEF ConInv, ConColours, ConColour, ConBase
<1>5. call \in ConWriter
  <2>1. left \in Nat
    BY ConsoleAssumption
  <2>2. (writers = <<>> /\ interrupts) \in BOOLEAN
    BY <1>3
  <2> QED
    BY <1>4, <2>1, <2>2, ConOrigin DEF ConWriter, ConAts
<1>6. /\ call.repaint = "none" /\ call.at = "char" /\ call.critical = critical /\ call.foreground = m_Color
      /\ call.enabled = (writers = <<>> /\ interrupts)
  OBVIOUS
<1> HIDE DEF call
<1>7. /\ n \in Nat /\ writers' \in Seq(ConWriter) /\ Len(writers') = n + 1 /\ writers'[n + 1] = call
      /\ \A w \in 1 .. n : writers'[w] = writers[w]
  BY <1>1, <1>3, <1>5 DEF call
<1> HIDE DEF n
<1>8. \A w \in 1 .. n + 1 : w = n + 1 \/ w \in 1 .. n
  BY <1>7
<1>9. \A w \in 1 .. n : w \in 1 .. n + 1
  BY <1>7
<1>10. ConTypes'
  BY <1>2, <1>3, <1>7 DEF ConTypes
<1>11. ConRepaint'
  <2>1. \A w \in 1 .. n : writers[w].repaint # "none" \/ writers[w].at # "char" => writers[w].left > 0
    BY DEF ConInv, ConRepaint, n
  <2> QED
    BY <1>6, <1>7, <1>8, <2>1 DEF ConRepaint
<1>12. ConBase' = ConBase
  BY <1>2 DEF ConBase
<1>13. ASSUME NEW k \in 0 .. n
       PROVE  (IF \E w \in 1 .. k : writers'[w].critical THEN "yellow" ELSE ConBase') = ConColour(k)
  <2>1. \A w \in 1 .. k : w \in 1 .. n
    BY <1>7
  <2> QED
    BY <1>7, <1>12, <2>1 DEF ConColour, ConCritical
<1>14. n \in 0 .. n /\ n + 1 \in 1 .. n + 1 /\ (n + 1) - 1 = n
  BY <1>7
<1>15. m_Color' = IF \E w \in 1 .. Len(writers') : writers'[w].critical THEN "yellow" ELSE ConBase'
  <2>1. (\E w \in 1 .. n + 1 : writers'[w].critical) <=> critical \/ \E w \in 1 .. n : writers'[w].critical
    BY <1>6, <1>7, <1>8, <1>9, <1>14
  <2>2. m_Color = IF \E w \in 1 .. n : writers'[w].critical THEN "yellow" ELSE ConBase'
    BY <1>4, <1>13, <1>14
  <2>3. CASE critical
    BY <1>2, <1>7, <2>1, <2>3
  <2>4. CASE ~critical
    BY <1>2, <1>7, <2>1, <2>2, <2>4
  <2> QED
    BY <2>3, <2>4
<1>16. ASSUME NEW w \in 1 .. Len(writers'), writers'[w].critical
       PROVE  writers'[w].foreground = IF \E v \in 1 .. w - 1 : writers'[v].critical THEN "yellow" ELSE ConBase'
  <2>1. CASE w = n + 1
    <3>1. writers'[w].foreground = ConColour(n) /\ w - 1 = n
      BY <1>4, <1>6, <1>7, <1>14, <2>1
    <3> QED
      BY <1>13, <1>14, <3>1
  <2>2. CASE w \in 1 .. n
    <3>1. w - 1 \in 0 .. n
      BY <1>7, <2>2
    <3>2. writers[w].critical => writers[w].foreground = ConColour(w - 1)
      BY <2>2 DEF ConInv, ConColours, n
    <3>3. writers'[w] = writers[w]
      BY <1>7, <2>2
    <3> QED
      BY <1>13, <1>16, <3>1, <3>2, <3>3
  <2> QED
    BY <1>7, <1>8, <2>1, <2>2
<1>17. \A d \in DOMAIN shown' : shown'[d].critical => shown'[d].colour = "yellow"
  BY <1>2 DEF ConInv, ConColours
<1>18. ConColours'
  BY <1>15, <1>16, <1>17 DEF ConColours, ConColour, ConCritical
<1>19. ConCaller'
  <2>1. writers' # <<>>
    BY <1>7
  <2>2. CASE writers = <<>>
    <3>1. n = 0 /\ writers'[1] = call
      BY <1>7, <2>2 DEF n
    <3>2. call.enabled = interrupts /\ caller' = interrupts
      BY <1>2, <1>3, <1>6, <2>2
    <3>3. writers'[1].enabled = caller'
      BY <3>1, <3>2
    <3> QED
      BY <2>1, <3>3 DEF ConCaller
  <2>3. CASE writers # <<>>
    <3>1. n > 0 /\ 1 \in 1 .. n
      BY <1>3, <1>7, <2>3 DEF n
    <3>2. writers'[1] = writers[1] /\ writers[1].enabled = caller
      BY <1>7, <3>1 DEF ConInv, ConCaller, n
    <3> QED
      BY <1>2, <2>1, <2>3, <3>2 DEF ConCaller
  <2> QED
    BY <2>2, <2>3
<1>20. ConLatest'
  <2> SUFFICES ASSUME latest' # "none",
                      \A w \in 1 .. Len(writers') : writers'[w].repaint = "none" /\ writers'[w].at = "char"
               PROVE  ConDrawn(latest', m_Position', shown')
    BY DEF ConLatest, ConDrawn, CellBefore
  <2>1. \A w \in 1 .. n : writers[w].repaint = "none" /\ writers[w].at = "char"
    BY <1>7, <1>9
  <2> QED
    BY <1>2, <2>1 DEF ConInv, ConLatest, n
<1>21. ConBlank'
  BY <1>2 DEF ConInv, ConBlank
<1>22. ConRows'
  <2> SUFFICES ASSUME m_Position.y = Rows - 1
               PROVE  n > 0 /\ writers'[n].at \in ConPast /\ writers'[n].row = Rows - 1
    <3>1. n > 0 => n + 1 > 1
      BY <1>7
    <3> QED
      BY <1>2, <1>6, <1>7, <1>14, <3>1 DEF ConRows, ConPastEnd
  <2>1. n > 0 /\ (ConPastEnd(n) \/ ~interrupts)
    BY <1>7 DEF ConInv, ConRows, n
  <2>2. writers = <<>> \/ interrupts
    BY DEF BeginWrite
  <2>3. ConPastEnd(n) /\ n \in 1 .. n
    BY <1>7, <2>1, <2>2 DEF n
  <2> QED
    BY <1>7, <2>1, <2>3 DEF ConPastEnd
<1> QED
  BY <1>10, <1>11, <1>18, <1>19, <1>20, <1>21, <1>22 DEF ConInv

\* A call returns to the one it interrupted.
LEMMA ConEnds ==
    ASSUME ConInv, EndWrite
    PROVE  ConInv'
<1> DEFINE n == Len(writers)
<1>1. /\ writers # <<>> /\ Writer.left = 0
      /\ writers' = SubSeq(writers, 1, n - 1)
      /\ m_Color' = IF Writer.critical THEN Writer.foreground ELSE m_Color
      /\ interrupts' = (interrupts \/ Writer.enabled \/ n > 1)
      /\ UNCHANGED <<m_Initialized, m_Position, shown, caller, latest>>
  BY DEF EndWrite
<1>2. /\ m_Initialized \in BOOLEAN /\ interrupts \in BOOLEAN /\ caller \in BOOLEAN
      /\ m_Position \in [x : 0 .. Columns - 1, y : 0 .. Rows - 1] /\ writers \in Seq(ConWriter)
  BY DEF ConInv, ConTypes
<1>3. n \in Nat \ {0} /\ n - 1 \in Nat
  BY <1>1, <1>2
<1>4. /\ writers' \in Seq(ConWriter) /\ Len(writers') = n - 1
      /\ \A w \in 1 .. n - 1 : writers'[w] = writers[w]
  <2> DEFINE rest == SubSeq(writers, 1, n - 1)
  <2>1. \A w \in 1 .. n - 1 : writers[w] \in ConWriter
    BY <1>2, <1>3
  <2>2. 1 \in Int /\ n - 1 \in Int
    BY <1>3
  <2> HIDE DEF n
  <2>3. /\ rest \in Seq(ConWriter) /\ Len(rest) = IF 1 <= n - 1 THEN (n - 1) - 1 + 1 ELSE 0
        /\ \A w \in 1 .. (n - 1) - 1 + 1 : rest[w] = writers[1 + w - 1]
    BY <2>1, <2>2, SubSeqProperties
  <2>4. (n - 1) - 1 + 1 = n - 1 /\ (~(1 <= n - 1) => n - 1 = 0)
    BY <1>3
  <2>5. \A w \in 1 .. n - 1 : 1 + w - 1 = w
    BY <1>3
  <2>6. Len(rest) = n - 1
    BY <2>3, <2>4
  <2>7. \A w \in 1 .. n - 1 : rest[w] = writers[w]
    BY <2>3, <2>4, <2>5
  <2> QED
    BY <1>1, <2>3, <2>6, <2>7
<1>5. Writer = writers[n]
  BY DEF Writer
<1>6. m_Color = ConColour(n) /\ \A w \in 1 .. n : writers[w].critical => writers[w].foreground = ConColour(w - 1)
  BY DEF ConInv, ConColours
<1>7. \A w \in 1 .. n : writers[w].repaint # "none" \/ writers[w].at # "char" => writers[w].left > 0
  BY DEF ConInv, ConRepaint
<1>8. writers[1].enabled = caller
  BY <1>3 DEF ConInv, ConCaller
<1>9. writers \in [1 .. n -> ConWriter]
  BY <1>2
<1> HIDE DEF n
<1>10. n \in 1 .. n /\ (\A w \in 1 .. n : w = n \/ w \in 1 .. n - 1) /\ \A w \in 1 .. n - 1 : w \in 1 .. n
  BY <1>3
<1>11. writers[n].enabled \in BOOLEAN
  <2>1. writers[n] \in ConWriter
    BY <1>9, <1>10
  <2> QED
    BY <2>1 DEF ConWriter
<1>12. ConTypes'
  <2>1. interrupts' \in BOOLEAN
    BY <1>1, <1>2, <1>5, <1>11
  <2> QED
    BY <1>1, <1>2, <1>4, <2>1 DEF ConTypes
<1>13. ConRepaint'
  BY <1>4, <1>7, <1>10 DEF ConRepaint
<1>14. ConBase' = ConBase
  BY <1>1 DEF ConBase
<1>15. ASSUME NEW k \in 0 .. n - 1
       PROVE  (IF \E w \in 1 .. k : writers'[w].critical THEN "yellow" ELSE ConBase') = ConColour(k)
  <2>1. \A w \in 1 .. k : w \in 1 .. n - 1
    BY <1>3
  <2> QED
    BY <1>4, <1>14, <2>1 DEF ConColour, ConCritical
<1>16. n - 1 \in 0 .. n - 1
  BY <1>3
<1>17. m_Color' = ConColour(n - 1)
  <2>1. CASE writers[n].critical
    <3>1. writers[n].foreground = ConColour(n - 1)
      BY <1>6, <1>10, <2>1
    <3> QED
      BY <1>1, <1>5, <2>1, <3>1
  <2>2. CASE ~writers[n].critical
    <3>1. ConCritical(n) <=> ConCritical(n - 1)
      BY <1>10, <2>2 DEF ConCritical
    <3>2. ConColour(n) = ConColour(n - 1)
      BY <3>1 DEF ConColour
    <3> QED
      BY <1>1, <1>5, <1>6, <2>2, <3>2
  <2> QED
    BY <2>1, <2>2
<1>18. m_Color' = IF \E w \in 1 .. Len(writers') : writers'[w].critical THEN "yellow" ELSE ConBase'
  BY <1>4, <1>15, <1>16, <1>17
<1>19. ASSUME NEW w \in 1 .. Len(writers'), writers'[w].critical
       PROVE  writers'[w].foreground = IF \E v \in 1 .. w - 1 : writers'[v].critical THEN "yellow" ELSE ConBase'
  <2>1. w \in 1 .. n - 1
    BY <1>4
  <2>2. w - 1 \in 0 .. n - 1 /\ w \in 1 .. n
    BY <1>3, <2>1
  <2>3. writers'[w] = writers[w]
    BY <1>4, <2>1
  <2>4. writers[w].foreground = ConColour(w - 1)
    BY <1>6, <1>19, <2>2, <2>3
  <2> QED
    BY <1>15, <2>2, <2>3, <2>4
<1>20. \A d \in DOMAIN shown' : shown'[d].critical => shown'[d].colour = "yellow"
  BY <1>1 DEF ConInv, ConColours
<1>21. ConColours'
  BY <1>18, <1>19, <1>20 DEF ConColours, ConColour, ConCritical
<1>22. ConCaller'
  <2>1. CASE n = 1
    <3>1. Len(writers') = 0
      BY <1>4, <2>1
    <3>2. caller' => interrupts'
      BY <1>1, <1>5, <1>8, <2>1
    <3>3. ~(Len(writers') > 0)
      BY <3>1
    <3> QED
      BY <3>2, <3>3 DEF ConCaller
  <2>2. CASE n # 1
    <3>1. 1 \in 1 .. n - 1 /\ n - 1 # 0
      BY <1>3, <2>2
    <3>2. writers'[1] = writers[1] /\ writers' # <<>>
      BY <1>4, <3>1
    <3> QED
      BY <1>1, <1>8, <3>2 DEF ConCaller
  <2> QED
    BY <2>1, <2>2
<1>23. ConLatest'
  <2> SUFFICES ASSUME latest' # "none",
                      \A w \in 1 .. Len(writers') : writers'[w].repaint = "none" /\ writers'[w].at = "char"
               PROVE  ConDrawn(latest', m_Position', shown')
    BY DEF ConLatest, ConDrawn, CellBefore
  <2>1. writers[n].repaint = "none" /\ writers[n].at = "char"
    <3>1. ~(writers[n].left > 0)
      BY <1>1, <1>5
    <3> QED
      BY <1>7, <1>10, <3>1
  <2>2. \A w \in 1 .. n : writers[w].repaint = "none" /\ writers[w].at = "char"
    BY <1>4, <1>10, <2>1
  <2> QED
    BY <1>1, <2>2 DEF ConInv, ConLatest, n
<1>24. ConBlank'
  BY <1>1 DEF ConInv, ConBlank
<1>25. ConRows'
  <2> SUFFICES ASSUME m_Position.y = Rows - 1
               PROVE  n - 1 > 0 /\ writers'[n - 1].at \in ConPast /\ writers'[n - 1].row = Rows - 1
    BY <1>1, <1>4 DEF ConRows, ConPastEnd
  <2>1. writers[n].at = "char"
    <3>1. ~(writers[n].left > 0)
      BY <1>1, <1>5
    <3> QED
      BY <1>7, <1>10, <3>1
  <2>2. ~ConPastEnd(n)
    BY <2>1 DEF ConPastEnd, ConPast
  <2>3. n > 1 /\ ConPastEnd(n - 1)
    BY <2>2 DEF ConInv, ConRows, n
  <2>4. n - 1 > 0 /\ n - 1 \in 1 .. n - 1
    BY <1>3, <2>3
  <2> QED
    BY <1>4, <2>3, <2>4 DEF ConPastEnd
<1> QED
  BY <1>12, <1>13, <1>21, <1>22, <1>23, <1>24, <1>25 DEF ConInv

\* Between the calls.
LEMMA ConRests ==
    ASSUME ConInv, SerialPortInitialize \/ Critical
    PROVE  ConInv'
<1>1. /\ writers = <<>> /\ writers' = <<>> /\ UNCHANGED <<shown, latest>>
      /\ \/ /\ m_Initialized' = TRUE /\ ~m_Initialized /\ m_Position' = [x |-> 0, y |-> 0] /\ m_Color' = "white"
            /\ UNCHANGED <<interrupts, caller>>
         \/ /\ interrupts' = ~interrupts /\ caller' = interrupts'
            /\ UNCHANGED <<m_Initialized, m_Position, m_Color>>
  BY DEF SerialPortInitialize, Critical
<1>2. /\ m_Initialized \in BOOLEAN /\ interrupts \in BOOLEAN /\ caller \in BOOLEAN
      /\ m_Position \in [x : 0 .. Columns - 1, y : 0 .. Rows - 1] /\ writers \in Seq(ConWriter)
  BY DEF ConInv, ConTypes
<1>3. [x |-> 0, y |-> 0] \in [x : 0 .. Columns - 1, y : 0 .. Rows - 1]
  BY ConOrigin
<1>4. ConTypes'
  BY <1>1, <1>2, <1>3 DEF ConTypes
<1>5. Len(writers') = 0 /\ Len(writers) = 0
  BY <1>1
<1>6. ~ConCritical(0) /\ m_Color = ConColour(0)
  BY <1>5 DEF ConCritical, ConInv, ConColours
<1>7. m_Color' = ConColour(0)'
  BY <1>1, <1>6 DEF ConColour, ConBase, ConCritical
<1>8. \A d \in DOMAIN shown' : shown'[d].critical => shown'[d].colour = "yellow"
  BY <1>1 DEF ConInv, ConColours
<1>9. ConColours' /\ ConRepaint'
  BY <1>5, <1>7, <1>8 DEF ConColours, ConRepaint
<1>10. ConCaller'
  <2>1. caller => interrupts
    BY <1>1 DEF ConInv, ConCaller
  <2> QED
    BY <1>1, <1>5, <2>1 DEF ConCaller
<1>11. ConLatest'
  <2>1. latest # "none" => ConDrawn(latest, m_Position, shown)
    BY <1>5 DEF ConInv, ConLatest
  <2>2. ~m_Initialized => latest = "none"
    BY DEF ConInv, ConBlank
  <2>3. latest' # "none" => m_Position' = m_Position
    BY <1>1, <2>2
  <2> QED
    BY <1>1, <2>1, <2>3 DEF ConLatest, ConDrawn, CellBefore
<1>12. ConBlank'
  BY <1>1 DEF ConInv, ConBlank
<1>13. ConRows'
  <2>1. ~(Len(writers) > 0) /\ ~(Len(writers) > 1)
    BY <1>5
  <2>2. m_Position.y # Rows - 1
    BY <2>1 DEF ConInv, ConRows
  <2>3. m_Position'.y # Rows - 1
    <3>1. [x |-> 0, y |-> 0].y = 0
      OBVIOUS
    <3> QED
      BY <1>1, <2>2, <3>1, ConOrigin
  <2> QED
    BY <2>3 DEF ConRows
<1> QED
  BY <1>4, <1>9, <1>10, <1>11, <1>12, <1>13 DEF ConInv

LEMMA ConInvKept == ConInv /\ [ConsoleNext]_consoleVars => ConInv'
<1> SUFFICES ASSUME ConInv, [ConsoleNext]_consoleVars PROVE ConInv'
  OBVIOUS
<1>1. CASE UNCHANGED consoleVars
  BY <1>1 DEF consoleVars, ConInv, ConTypes, ConRepaint, ConColours, ConColour, ConCritical, ConBase,
              ConCaller, ConLatest, ConDrawn, CellBefore, ConBlank, ConRows, ConPastEnd
<1>2. CASE BeginWrite(TRUE) \/ BeginWrite(FALSE)
  BY <1>2, ConBegins
<1>3. CASE EndWrite
  BY <1>3, ConEnds
<1>4. CASE SerialPortInitialize \/ Critical
  BY <1>4, ConRests
<1>5. CASE CarriageReturn \/ \E c \in {" ", "other", "a"} : Ignored(c)
  BY <1>5, ConSkips
<1>6. CASE LineFeed
  BY <1>6, ConLineFeeds
<1>7. CASE \E c \in {" ", "a", "b"} : Paint(c)
  BY <1>7, ConPaints
<1>8. CASE InterruptibleFeed \/ LookAtSpace
  BY <1>8, ConFeedStep
<1> QED
  BY <1>1, <1>2, <1>3, <1>4, <1>5, <1>6, <1>7, <1>8 DEF ConsoleNext

LEMMA ConStepOrRest == [PlatformNext]_platformVars => [ConsoleNext]_consoleVars
BY DEF PlatformNext, platformVars, LibrariesRest

\* For every size of the screen, length of the texts and number of the calls:
\* wherever an interrupt's handler writes, in the middle of a line feed too, and
\* wherever the screen is cleared, the cursor stays in the frame, and above its
\* last row but for a line feed that is not through; glyphs lie apart, the
\* character drawn last stands before the cursor unless one is to be painted
\* again or a line feed is not through, critical text is yellow, and the first
\* caller gets its colour and its interrupts back (FbConPutCharWithFactor,
\* SerialPortWriteCritical).
THEOREM FbConsoleOkHolds == PlatformSpec => []FbConsoleOk
<1>1. PlatformInit => ConInv
  BY ConInvBegins DEF PlatformInit
<1>2. ConInv /\ [PlatformNext]_platformVars => ConInv'
  BY ConStepOrRest, ConInvKept
<1>3. ConInv => FbConsoleOk
  BY ConIsOk
<1> QED
  BY <1>1, <1>2, <1>3, PTL DEF PlatformSpec

-----------------------------------------------------------------------------
(* The descriptor ring.                                                      *)

BamKinds == {"processed", "transfer end", "out of descriptors", "error"}

\* The slot n after where a transfer starts, and the n-th descriptor of the job.
Start == pipe.offset - 1
SlotAt(n) == (Start + n) % FifoSize
Descriptor(n) ==
    [first |-> n * DescLen, len |-> Fewer(job.len - (n * DescLen), DescLen),
     flags |-> IF job.len - (n * DescLen) > DescLen THEN {} ELSE job.flags, job |-> job.id]
Bytes(n) == [i \in 1 .. n |-> i - 1]

BamTypes ==
    /\ pipe \in [initialized : BOOLEAN, current : Slots, offset : 0 .. FifoSize]
    /\ hw \in [on : BOOLEAN, read : Slots, event : Slots, irq : SUBSET BamKinds]
    /\ job \in [id : Nat, len : Nat, flags : BamFlags \cup {{}}, left : Nat, n : 0 .. FifoSize]
    /\ DOMAIN ring = Slots /\ bamLeft \in Nat
    /\ Len(moved) <= FifoSize * DescLen
    /\ bpc \in {"start", "fifo", "idle", "descriptors", "wait", "update"}

\* Before the fifo is there, and between transfers.
BamReset == bpc = "fifo" => hw.on /\ hw.read = 0 /\ hw.event = 0 /\ hw.irq = {}
BamReady == bpc \in {"idle", "descriptors", "wait", "update"} => pipe.initialized /\ pipe.offset > 0
BamIdle ==
    bpc \in {"idle", "descriptors"} => hw.on /\ hw.read = Start /\ hw.event = Start /\ hw.irq = {}
BamCurrent ==
    /\ bpc = "idle" => pipe.current = Start
    /\ bpc \in {"descriptors", "wait"} => pipe.current = SlotAt(job.n)

\* The descriptors cut so far: all but the last are full.
BamCut ==
    bpc \in {"descriptors", "wait", "update"} =>
        /\ job.len > 0 /\ job.len <= FifoSize * DescLen
        /\ job.left > 0 => (job.n * DescLen) + job.left = job.len
        /\ job.left = 0 => job.n > 0 /\ ((job.n - 1) * DescLen) < job.len /\ job.len <= job.n * DescLen
BamWritten ==
    bpc \in {"descriptors", "wait", "update"} =>
        /\ \A k \in 0 .. job.n - 1 : ring[SlotAt(k)] = Descriptor(k)
        /\ bpc # "descriptors" => job.left = 0

\* After t descriptors the hardware has moved their bytes, and only with the
\* last of them all does it raise the interrupt the client waits for.
Taken(t) ==
    /\ hw.read = SlotAt(t) /\ hw.event = SlotAt(job.n)
    /\ moved = Bytes(IF t = job.n THEN job.len ELSE t * DescLen)
    /\ "processed" \in hw.irq \/ "transfer end" \in hw.irq => t = job.n
    /\ "transfer end" \in hw.irq => "EOT" \in job.flags
    /\ hw.on <=> "error" \notin hw.irq
BamMoving ==
    bpc = "wait" =>
        IF job.n = FifoSize THEN hw.on /\ hw.read = Start /\ hw.event = Start /\ hw.irq = {} /\ moved = <<>>
        ELSE \E t \in 0 .. job.n : Taken(t)
BamDone ==
    /\ bpc = "update" => hw.on /\ hw.read = hw.event /\ hw.irq = {}
    /\ bpc = "start" => ~hw.on
    /\ bpc \in {"descriptors", "wait"} => result # "done"
    /\ bpc = "descriptors" => moved = <<>>
    /\ result = "done" => moved = Bytes(job.len)

BamInv ==
    /\ BamTypes /\ BamReset /\ BamReady /\ BamIdle /\ BamCurrent /\ BamCut /\ BamWritten
    /\ BamMoving /\ BamDone

\* The driver initialises the fifo before use, and asks for no pair of flags
\* that bam_add_one_desc refuses.
BamUsed ==
    /\ FifoSetUps = {TRUE}
    /\ \A f \in BamFlags : ~({"LOCK", "UNLOCK"} \subseteq f) /\ ~({"EOT", "CMD"} \subseteq f)

LEMMA RingSize == FifoSize \in Nat /\ FifoSize > 1 /\ DescLen \in Nat \ {0}
BY BamAssumption

LEMMA RingMod ==
    ASSUME NEW x \in Nat, x < 2 * FifoSize
    PROVE  x % FifoSize = IF x < FifoSize THEN x ELSE x - FifoSize
BY RingSize, Z3

\* Going round the ring from slot a.
LEMMA RingAt ==
    ASSUME NEW a \in Slots, NEW k \in 0 .. FifoSize
    PROVE  /\ (a + k) % FifoSize = IF a + k < FifoSize THEN a + k ELSE a + k - FifoSize
           /\ (a + k) % FifoSize \in Slots
<1>1. a \in 0 .. FifoSize - 1
  BY DEF Slots
<1>2. (a + k) % FifoSize = IF a + k < FifoSize THEN a + k ELSE a + k - FifoSize
  <2>1. a \in Nat /\ k \in Nat /\ a + k < 2 * FifoSize
    BY <1>1, RingSize
  <2>2. \A x \in Nat, y \in Nat : x + y < 2 * FifoSize =>
           (x + y) % FifoSize = IF x + y < FifoSize THEN x + y ELSE x + y - FifoSize
    BY RingSize, Z3
  <2> QED
    BY <2>1, <2>2
<1> DEFINE m == (a + k) % FifoSize
<1>3. m = IF a + k < FifoSize THEN a + k ELSE a + k - FifoSize
  BY <1>2
<1> HIDE DEF m
<1>4. m \in Slots
  BY <1>1, <1>3, RingSize DEF Slots
<1> QED
  BY <1>2, <1>4 DEF m

LEMMA RingNext ==
    ASSUME NEW a \in Slots, NEW k \in 0 .. FifoSize - 1
    PROVE  /\ FifoGetNext((a + k) % FifoSize) = (a + (k + 1)) % FifoSize
           /\ (((a + k) % FifoSize) + 1) % FifoSize = (a + (k + 1)) % FifoSize
<1>1. a \in Nat /\ a < FifoSize /\ k \in Nat /\ k < FifoSize /\ k \in 0 .. FifoSize /\ k + 1 \in 0 .. FifoSize
  BY RingSize DEF Slots
<1>2. (a + k) % FifoSize = IF a + k < FifoSize THEN a + k ELSE a + k - FifoSize
  BY <1>1, RingAt
<1>3. (a + (k + 1)) % FifoSize = IF a + (k + 1) < FifoSize THEN a + (k + 1) ELSE a + (k + 1) - FifoSize
  BY <1>1, RingAt
<1> DEFINE r == (a + k) % FifoSize
           q == (a + (k + 1)) % FifoSize
           x == r + 1
           m == x % FifoSize
<1>4. r = (IF a + k < FifoSize THEN a + k ELSE a + k - FifoSize)
      /\ q = IF a + (k + 1) < FifoSize THEN a + (k + 1) ELSE a + (k + 1) - FifoSize
  BY <1>2, <1>3
<1>5. x = r + 1 /\ m = x % FifoSize
  OBVIOUS
<1> HIDE DEF r, q, x
<1>6. r \in Nat /\ x \in Nat /\ x < 2 * FifoSize
  BY <1>1, <1>4, <1>5, RingSize
<1>7. m = IF x < FifoSize THEN x ELSE x - FifoSize
  BY <1>6, RingMod
<1> HIDE DEF m
<1>8. FifoGetNext(r) = q
  BY <1>1, <1>4, <1>6, RingSize DEF FifoGetNext
<1>9. m = q
  BY <1>1, <1>4, <1>5, <1>6, <1>7, RingSize
<1> QED
  BY <1>8, <1>9 DEF r, q, m, x

LEMMA RingApart ==
    ASSUME NEW a \in Slots, NEW j \in 0 .. FifoSize - 1, NEW k \in 0 .. FifoSize - 1,
           (a + j) % FifoSize = (a + k) % FifoSize
    PROVE  j = k
<1>1. a \in Nat /\ a < FifoSize /\ k \in Nat /\ k < FifoSize /\ k \in 0 .. FifoSize
      /\ j \in Nat /\ j < FifoSize /\ j \in 0 .. FifoSize
  BY RingSize DEF Slots
<1>2. (IF a + k < FifoSize THEN a + k ELSE a + k - FifoSize)
         = IF a + j < FifoSize THEN a + j ELSE a + j - FifoSize
  BY <1>1, RingAt
<1> QED
  BY <1>1, <1>2, RingSize

\* What lies from slot a + t up to slot a + n.
LEMMA RingBetween ==
    ASSUME NEW a \in Slots, NEW n \in 0 .. FifoSize - 1, NEW t \in 0 .. n, NEW s \in Slots,
           NEW r, r = (a + t) % FifoSize, NEW e, e = (a + n) % FifoSize,
           (s + FifoSize - r) % FifoSize < (e + FifoSize - r) % FifoSize
    PROVE  \E k \in 0 .. n - 1 : s = (a + k) % FifoSize
<1>1. /\ a \in Nat /\ a < FifoSize /\ n \in Nat /\ n < FifoSize /\ n \in 0 .. FifoSize
      /\ t \in Nat /\ t <= n /\ t \in 0 .. FifoSize /\ s \in Nat /\ s < FifoSize
  BY RingSize DEF Slots
<1>2. r = IF a + t < FifoSize THEN a + t ELSE a + t - FifoSize
  BY <1>1, RingAt
<1>3. e = IF a + n < FifoSize THEN a + n ELSE a + n - FifoSize
  BY <1>1, RingAt
<1>4. r \in Nat /\ r < FifoSize /\ e \in Nat /\ e < FifoSize
  BY <1>1, <1>2, <1>3, RingSize
<1> DEFINE u == (s + FifoSize - r) % FifoSize
           v == (e + FifoSize - r) % FifoSize
           x == s + FifoSize - r
           y == e + FifoSize - r
<1>5. x \in Nat /\ x < 2 * FifoSize /\ y \in Nat /\ y < 2 * FifoSize
  BY <1>1, <1>4, RingSize
<1>6. u = (IF x < FifoSize THEN x ELSE x - FifoSize) /\ v = IF y < FifoSize THEN y ELSE y - FifoSize
  BY <1>5, RingMod
<1>7. u < v
  OBVIOUS
<1>8. x = s + FifoSize - r /\ y = e + FifoSize - r
  OBVIOUS
<1> HIDE DEF u, v, x, y
<1> DEFINE k == IF s >= a THEN s - a ELSE s + FifoSize - a
<1>9. k \in Nat /\ k < FifoSize /\ a + k = (IF s >= a THEN s ELSE s + FifoSize) /\ k \in 0 .. FifoSize
  BY <1>1, RingSize
<1>10. s = (a + k) % FifoSize
  <2>1. s = IF a + k < FifoSize THEN a + k ELSE a + k - FifoSize
    BY <1>1, <1>9, RingSize
  <2> QED
    BY <1>9, <2>1, RingAt
<1>11. k < n
  BY <1>1, <1>2, <1>3, <1>4, <1>5, <1>6, <1>7, <1>8, RingSize
<1>12. k \in 0 .. n - 1
  BY <1>1, <1>9, <1>11
<1> HIDE DEF k
<1> QED
  BY <1>10, <1>12

LEMMA Products ==
    ASSUME NEW n \in Nat
    PROVE  /\ n * DescLen \in Nat /\ (n + 1) * DescLen = (n * DescLen) + DescLen
           /\ \A m \in Nat : m < n => (m * DescLen) + DescLen <= n * DescLen /\ m * DescLen \in Nat
<1>1. DescLen \in Nat
  BY RingSize
<1>2. n * DescLen \in Nat /\ (n + 1) * DescLen = (n * DescLen) + DescLen
  BY <1>1, Z3
<1> QED
  BY <1>1, <1>2, LinesRise

LEMMA StartIn ==
    ASSUME BamTypes, pipe.offset > 0
    PROVE  Start \in Slots
<1>1. pipe.offset \in 0 .. FifoSize
  BY DEF BamTypes
<1> QED
  BY <1>1, RingSize DEF Start, Slots

\* Nothing is announced where the hardware has reached the end.
LEMMA NoneAnnounced ==
    ASSUME hw.read = hw.event, hw.read \in Slots
    PROVE  OnlyWritten
<1>1. ASSUME NEW s \in Announced PROVE FALSE
  <2> DEFINE u == (s + FifoSize - hw.read) % FifoSize
             y == hw.read + FifoSize - hw.read
             x == s + FifoSize - hw.read
  <2>1. s \in Slots /\ u < y % FifoSize
    BY DEF Announced
  <2>2. y = FifoSize /\ x \in Nat /\ x < 2 * FifoSize
    BY <2>1, RingSize DEF Slots
  <2>3. y \in Nat /\ y < 2 * FifoSize
    BY <2>2, RingSize
  <2> HIDE DEF y, x
  <2>4. y % FifoSize = 0
    <3>1. y % FifoSize = IF y < FifoSize THEN y ELSE y - FifoSize
      BY <2>3, RingMod
    <3> QED
      BY <2>2, <3>1, RingSize
  <2>5. u \in Nat
    <3>1. x % FifoSize = IF x < FifoSize THEN x ELSE x - FifoSize
      BY <2>2, RingMod
    <3>2. x % FifoSize \in Nat
      BY <2>2, <3>1, RingSize
    <3> QED
      BY <3>2 DEF x
  <2> HIDE DEF u
  <2> QED
    BY <2>1, <2>4, <2>5
<1> QED
  BY <1>1 DEF OnlyWritten

LEMMA BamIsTrue ==
    ASSUME BamInv
    PROVE  BamMovesTruly
<1>1. /\ BamTypes /\ BamReset /\ BamReady /\ BamIdle /\ BamCurrent /\ BamCut /\ BamWritten
      /\ BamMoving /\ BamDone
  BY DEF BamInv
<1>2. hw.read \in Slots /\ hw.event \in Slots
  BY <1>1 DEF BamTypes
<1>3. BamTypeOK
  BY <1>1 DEF BamTypes, BamTypeOK
<1>4. DoneIsMoved
  <2>1. result = "done" => moved = [i \in 1 .. job.len |-> i - 1]
    BY <1>1 DEF BamDone, Bytes
  <2>2. bpc = "idle" => pipe.current = hw.read /\ hw.read = hw.event
    BY <1>1 DEF BamIdle, BamCurrent
  <2> QED
    BY <2>1, <2>2 DEF DoneIsMoved
<1>5. OnlyWritten
  <2>1. CASE bpc = "start"
    BY <2>1 DEF OnlyWritten
  <2>2. CASE bpc \in {"fifo", "idle", "descriptors", "update"}
    <3>1. hw.read = hw.event
      BY <1>1, <2>2 DEF BamReset, BamIdle, BamDone
    <3> QED
      BY <1>2, <3>1, NoneAnnounced
  <2>3. CASE bpc = "wait" /\ job.n = FifoSize
    <3>1. hw.read = hw.event
      BY <1>1, <2>3 DEF BamMoving
    <3> QED
      BY <1>2, <3>1, NoneAnnounced
  <2>4. CASE bpc = "wait" /\ job.n # FifoSize
    <3>1. PICK t \in 0 .. job.n : Taken(t)
      BY <1>1, <2>4 DEF BamMoving
    <3>2. pipe.offset > 0 /\ Start \in Slots
      BY <1>1, <2>4, StartIn DEF BamReady
    <3>3. job.n \in 0 .. FifoSize /\ job.len \in Nat
      BY <1>1 DEF BamTypes
    <3>4. job.n \in 0 .. FifoSize - 1
      BY <2>4, <3>3, RingSize
    <3>5. hw.read = (Start + t) % FifoSize /\ hw.event = (Start + job.n) % FifoSize
      BY <3>1 DEF Taken, SlotAt
    <3>6. /\ job.n > 0 /\ ((job.n - 1) * DescLen) < job.len
          /\ \A k \in 0 .. job.n - 1 : ring[SlotAt(k)] = Descriptor(k)
      BY <1>1, <2>4 DEF BamCut, BamWritten
    <3>7. ASSUME NEW s \in Announced PROVE ring[s].job = job.id /\ ring[s].len > 0
      <4>1. s \in Slots /\ (s + FifoSize - hw.read) % FifoSize < (hw.event + FifoSize - hw.read) % FifoSize
        BY DEF Announced
      <4>2. PICK k \in 0 .. job.n - 1 : s = (Start + k) % FifoSize
        BY <3>2, <3>4, <3>5, <4>1, RingBetween
      <4>3. ring[s] = Descriptor(k)
        BY <3>6, <4>2 DEF SlotAt
      <4>4. (k * DescLen) < job.len /\ k * DescLen \in Nat
        <5> DEFINE m == job.n - 1
        <5>1. m \in Nat /\ k \in Nat /\ (k = m \/ k < m) /\ (m * DescLen) < job.len
          BY <3>4, <3>6
        <5> HIDE DEF m
        <5>2. k * DescLen \in Nat /\ m * DescLen \in Nat
          BY <5>1, Products
        <5>3. k < m => (k * DescLen) + DescLen <= m * DescLen
          BY <5>1, Products
        <5> QED
          BY <3>3, <5>1, <5>2, <5>3, RingSize
      <4>5. Fewer(job.len - (k * DescLen), DescLen) > 0
        <5> DEFINE b == k * DescLen
        <5>1. b < job.len /\ b \in Nat
          BY <4>4
        <5> HIDE DEF b
        <5>2. Fewer(job.len - b, DescLen) > 0
          BY <3>3, <5>1, RingSize DEF Fewer
        <5> QED
          BY <5>2 DEF b
      <4> QED
        BY <4>3, <4>5 DEF Descriptor
    <3> QED
      BY <3>7 DEF OnlyWritten
  <2>5. bpc \in {"start", "fifo", "idle", "descriptors", "wait", "update"}
    BY <1>1 DEF BamTypes
  <2> QED
    BY <2>1, <2>2, <2>3, <2>4, <2>5
<1> QED
  BY <1>3, <1>4, <1>5 DEF BamMovesTruly

LEMMA BamInvBegins ==
    ASSUME BamInit
    PROVE  BamInv
<1>1. /\ pipe = [initialized |-> FALSE, current |-> 0, offset |-> 0]
      /\ ring = [s \in Slots |-> Garbage]
      /\ hw = [on |-> FALSE, read |-> 0, event |-> 0, irq |-> {}]
      /\ bpc = "start" /\ job = [id |-> 0, len |-> 0, flags |-> {}, left |-> 0, n |-> 0]
      /\ moved = <<>> /\ result = "none" /\ bamLeft = BamTransfers
  BY DEF BamInit
<1>2. 0 \in Slots /\ 0 \in 0 .. FifoSize
  BY RingSize DEF Slots
<1>3. Len(moved) <= FifoSize * DescLen
  <2>1. FifoSize * DescLen \in Nat
    BY RingSize, Products
  <2>2. Len(moved) = 0
    BY <1>1
  <2> QED
    BY <2>1, <2>2
<1>4. bamLeft \in Nat
  BY <1>1, BamAssumption
<1>5. BamTypes
  BY <1>1, <1>2, <1>3, <1>4 DEF BamTypes
<1>6. BamReset /\ BamReady /\ BamIdle /\ BamCurrent /\ BamCut /\ BamWritten /\ BamMoving /\ BamDone
  BY <1>1 DEF BamReset, BamReady, BamIdle, BamCurrent, BamCut, BamWritten, BamMoving, BamDone
<1> QED
  BY <1>5, <1>6 DEF BamInv

LEMMA BamSetsUp ==
    ASSUME BamInv, PipeInit
    PROVE  BamInv'
<1>1. /\ bpc' = "fifo" /\ hw' = [on |-> TRUE, read |-> 0, event |-> 0, irq |-> {}]
      /\ pipe' = [pipe EXCEPT !.initialized = FALSE]
      /\ UNCHANGED <<ring, job, moved, result, bamLeft>>
  BY DEF PipeInit
<1>2. BamTypes /\ BamDone
  BY DEF BamInv
<1>3. BamTypes'
  <2>1. 0 \in Slots
    BY RingSize DEF Slots
  <2>2. hw' \in [on : BOOLEAN, read : Slots, event : Slots, irq : SUBSET BamKinds]
    BY <1>1, <2>1
  <2>3. pipe' \in [initialized : BOOLEAN, current : Slots, offset : 0 .. FifoSize]
    BY <1>1, <1>2 DEF BamTypes
  <2> QED
    BY <1>1, <1>2, <2>2, <2>3 DEF BamTypes
<1>4. BamReset' /\ BamReady' /\ BamIdle' /\ BamCurrent' /\ BamCut' /\ BamWritten' /\ BamMoving'
  BY <1>1 DEF BamReset, BamReady, BamIdle, BamCurrent, BamCut, BamWritten, BamMoving
<1>5. BamDone'
  BY <1>1, <1>2 DEF BamDone, Bytes
<1> QED
  BY <1>3, <1>4, <1>5 DEF BamInv

LEMMA BamFifo ==
    ASSUME BamUsed, BamInv, FifoInit
    PROVE  BamInv'
<1>1. /\ bpc = "fifo" /\ bpc' = "idle" /\ pipe' = [initialized |-> TRUE, current |-> 0, offset |-> 1]
      /\ UNCHANGED <<ring, hw, job, moved, result, bamLeft>>
  BY DEF FifoInit, BamUsed
<1>2. BamTypes /\ BamDone /\ hw.on /\ hw.read = 0 /\ hw.event = 0 /\ hw.irq = {}
  BY <1>1 DEF BamInv, BamReset
<1>3. BamTypes'
  <2>1. 0 \in Slots /\ 1 \in 0 .. FifoSize
    BY RingSize DEF Slots
  <2>2. pipe' \in [initialized : BOOLEAN, current : Slots, offset : 0 .. FifoSize]
    BY <1>1, <2>1
  <2> QED
    BY <1>1, <1>2, <2>2 DEF BamTypes
<1>4. Start' = 0 /\ pipe'.initialized /\ pipe'.offset > 0 /\ pipe'.current = 0
  BY <1>1 DEF Start
<1>5. BamReset' /\ BamReady' /\ BamIdle' /\ BamCurrent' /\ BamCut' /\ BamWritten' /\ BamMoving'
  BY <1>1, <1>2, <1>4 DEF BamReset, BamReady, BamIdle, BamCurrent, BamCut, BamWritten, BamMoving
<1>6. BamDone'
  BY <1>1, <1>2 DEF BamDone, Bytes
<1> QED
  BY <1>3, <1>5, <1>6 DEF BamInv

LEMMA BamAdds ==
    ASSUME BamInv, NEW len \in BamLengths, NEW flags \in BamFlags, AddDesc(len, flags)
    PROVE  BamInv'
<1>1. /\ bpc = "idle" /\ bamLeft > 0 /\ bamLeft' = bamLeft - 1 /\ moved' = <<>>
      /\ job' = [id |-> bamLeft, len |-> len, flags |-> flags, left |-> len, n |-> 0]
      /\ \/ bpc' = "idle" /\ result' = "refused"
         \/ len # 0 /\ ~(len > FifoSize * DescLen) /\ bpc' = "descriptors" /\ result' = "none"
      /\ UNCHANGED <<pipe, ring, hw>>
  BY DEF AddDesc
<1>2. BamTypes /\ BamDone /\ BamReady /\ BamIdle /\ BamCurrent
  BY DEF BamInv
<1>3. len \in Nat /\ FifoSize * DescLen \in Nat
  BY BamAssumption, RingSize, Products
<1>4. bamLeft \in Nat
  BY <1>2 DEF BamTypes
<1>5. BamTypes'
  <2>1. bamLeft - 1 \in Nat /\ 0 \in 0 .. FifoSize
    BY <1>1, <1>4, RingSize
  <2>2. job' \in [id : Nat, len : Nat, flags : BamFlags \cup {{}}, left : Nat, n : 0 .. FifoSize]
    BY <1>1, <1>3, <1>4, <2>1
  <2>3. Len(moved') <= FifoSize * DescLen
    <3>1. Len(moved') = 0
      BY <1>1
    <3> QED
      BY <1>3, <3>1
  <2> QED
    BY <1>1, <1>2, <2>1, <2>2, <2>3 DEF BamTypes
<1>6. /\ hw.on /\ hw.read = Start /\ hw.event = Start /\ hw.irq = {} /\ pipe.current = Start
      /\ pipe.initialized /\ pipe.offset > 0
  BY <1>1, <1>2 DEF BamReady, BamIdle, BamCurrent
<1>7. job'.n = 0 /\ job'.left = len /\ job'.len = len
  BY <1>1
<1>8. Start' = Start /\ Start \in Slots
  BY <1>1, <1>2, <1>6, StartIn DEF Start
<1>9. SlotAt(job.n)' = Start
  <2>1. SlotAt(job.n)' = (Start + 0) % FifoSize
    BY <1>7, <1>8 DEF SlotAt
  <2>2. 0 \in 0 .. FifoSize
    BY RingSize
  <2>3. (Start + 0) % FifoSize = IF Start + 0 < FifoSize THEN Start + 0 ELSE Start + 0 - FifoSize
    BY <1>8, <2>2, RingAt
  <2>4. Start \in Nat /\ Start < FifoSize
    BY <1>8, RingSize DEF Slots
  <2> DEFINE m == (Start + 0) % FifoSize
             a == Start
  <2>5. m = (IF a + 0 < FifoSize THEN a + 0 ELSE a + 0 - FifoSize) /\ a \in Nat /\ a < FifoSize
    BY <2>3, <2>4
  <2> HIDE DEF m, a
  <2>6. m = a
    BY <2>5, RingSize
  <2> QED
    BY <2>1, <2>6 DEF m, a
<1>10. BamReset' /\ BamReady' /\ BamMoving'
  BY <1>1, <1>6 DEF BamReset, BamReady, BamMoving
<1>11. BamIdle' /\ BamCurrent'
  BY <1>1, <1>6, <1>8, <1>9 DEF BamIdle, BamCurrent
<1>12. BamCut'
  <2>1. CASE bpc' = "idle"
    BY <2>1 DEF BamCut
  <2>2. CASE bpc' = "descriptors"
    <3>1. len # 0 /\ ~(len > FifoSize * DescLen)
      BY <1>1, <2>2
    <3>2. 0 * DescLen = 0
      BY RingSize, Z3
    <3>3. len > 0 /\ len <= FifoSize * DescLen /\ (0 * DescLen) + len = len
      BY <1>3, <3>1, <3>2
    <3> QED
      BY <1>7, <3>1, <3>3 DEF BamCut
  <2> QED
    BY <1>1, <2>1, <2>2
<1>13. BamWritten'
  <2>1. \A k \in 0 .. job'.n - 1 : FALSE
    BY <1>7
  <2> QED
    BY <1>1, <2>1 DEF BamWritten
<1>14. BamDone'
  BY <1>1 DEF BamDone
<1> QED
  BY <1>5, <1>10, <1>11, <1>12, <1>13, <1>14 DEF BamInv

\* A descriptor is cut and written where the ring stands.
LEMMA BamCuts ==
    ASSUME BamUsed, BamInv, AddOneDesc
    PROVE  BamInv'
<1> DEFINE n == job.n
           len == Fewer(job.left, DescLen)
           flags == IF job.left > DescLen THEN {} ELSE job.flags
           d == [first |-> job.n * DescLen, len |-> len, flags |-> flags, job |-> job.id]
<1>1. /\ BamTypes /\ BamReady /\ BamIdle /\ BamCurrent /\ BamCut /\ BamWritten /\ BamDone
  BY DEF BamInv
<1>2. /\ bpc = "descriptors" /\ job.left > 0
      /\ job' = [job EXCEPT !.left = @ - len, !.n = @ + 1]
      /\ IF Rejected(flags) THEN UNCHANGED <<ring, pipe>>
         ELSE /\ ring' = [ring EXCEPT ![pipe.current] = d]
              /\ pipe' = [pipe EXCEPT !.current = FifoGetNext(pipe.current)]
      /\ UNCHANGED <<hw, bpc, moved, result, bamLeft>>
  BY DEF AddOneDesc
<1>3. /\ job \in [id : Nat, len : Nat, flags : BamFlags \cup {{}}, left : Nat, n : 0 .. FifoSize]
      /\ pipe \in [initialized : BOOLEAN, current : Slots, offset : 0 .. FifoSize]
  BY <1>1 DEF BamTypes
<1>4. /\ pipe.initialized /\ pipe.offset > 0 /\ pipe.current = SlotAt(n)
      /\ hw.on /\ hw.read = Start /\ hw.event = Start /\ hw.irq = {}
  BY <1>1, <1>2 DEF BamReady, BamIdle, BamCurrent
<1>5. Start \in Slots
  BY <1>1, <1>4, StartIn
<1>6. ~Rejected(flags)
  <2>1. flags \in BamFlags \cup {{}}
    BY <1>3
  <2>2. ~({"LOCK", "UNLOCK"} \subseteq flags) /\ ~({"EOT", "CMD"} \subseteq flags)
    BY <2>1 DEF BamUsed
  <2> QED
    BY <1>4, <2>2 DEF Rejected
<1>7. /\ ring' = [ring EXCEPT ![pipe.current] = d]
      /\ pipe' = [pipe EXCEPT !.current = FifoGetNext(pipe.current)]
  BY <1>2, <1>6
<1>8. /\ job.len > 0 /\ job.len <= FifoSize * DescLen /\ (n * DescLen) + job.left = job.len
      /\ job.len \in Nat /\ job.left \in Nat /\ job.left > 0 /\ n \in Nat /\ n <= FifoSize /\ DescLen \in Nat \ {0}
  BY <1>1, <1>2, <1>3, RingSize DEF BamCut
<1>9. n * DescLen \in Nat /\ (n + 1) * DescLen = (n * DescLen) + DescLen
  BY <1>8, Products
<1>10. n < FifoSize /\ n \in 0 .. FifoSize - 1
  <2>1. ~(n = FifoSize)
    BY <1>8, <1>9
  <2> QED
    BY <1>8, <2>1, RingSize
<1>11. len \in Nat /\ len > 0 /\ len <= job.left /\ job.left - len \in Nat
       /\ (job.left > DescLen => len = DescLen) /\ (~(job.left > DescLen) => len = job.left)
  BY <1>8 DEF Fewer
<1>12. job.left = job.len - (n * DescLen)
  BY <1>8, <1>9
<1>13. d = Descriptor(n)
  BY <1>12 DEF Descriptor
<1> HIDE DEF len, flags, d
<1>14. /\ job' \in [id : Nat, len : Nat, flags : BamFlags \cup {{}}, left : Nat, n : 0 .. FifoSize]
       /\ job'.n = n + 1 /\ job'.left = job.left - len /\ job'.len = job.len /\ job'.id = job.id
       /\ job'.flags = job.flags
  <2>1. n + 1 \in 0 .. FifoSize
    BY <1>10, RingSize
  <2> QED
    BY <1>2, <1>3, <1>11, <2>1
<1>15. FifoGetNext(pipe.current) = SlotAt(n + 1) /\ SlotAt(n + 1) \in Slots /\ pipe.current \in Slots
  <2>1. n + 1 \in 0 .. FifoSize
    BY <1>10, RingSize
  <2> QED
    BY <1>3, <1>4, <1>5, <1>10, <2>1, RingNext, RingAt DEF SlotAt
<1>16. /\ pipe' \in [initialized : BOOLEAN, current : Slots, offset : 0 .. FifoSize]
       /\ pipe'.initialized = pipe.initialized /\ pipe'.offset = pipe.offset /\ pipe'.current = SlotAt(n + 1)
  BY <1>3, <1>7, <1>15
<1>17. Start' = Start
  BY <1>16 DEF Start
<1>18. BamTypes'
  <2>1. DOMAIN ring' = Slots
    BY <1>1, <1>7 DEF BamTypes
  <2> QED
    BY <1>1, <1>2, <1>14, <1>16, <2>1 DEF BamTypes
<1>19. BamReset' /\ BamReady' /\ BamIdle' /\ BamMoving'
  BY <1>2, <1>4, <1>16, <1>17 DEF BamReset, BamReady, BamIdle, BamMoving
<1>20. BamCurrent'
  <2>1. SlotAt(job.n)' = SlotAt(n + 1)
    BY <1>14, <1>17 DEF SlotAt
  <2> QED
    BY <1>2, <1>16, <2>1 DEF BamCurrent
<1>21. BamCut'
  <2> DEFINE b == n * DescLen
             c == (n + 1) * DescLen
             left == job.left - len
  <2>1. /\ b \in Nat /\ c = b + DescLen /\ b + job.left = job.len
        /\ left = job.left - len
    BY <1>8, <1>9
  <2>2. (n + 1) - 1 = n /\ n + 1 > 0
    BY <1>8
  <2> HIDE DEF n
  <2> HIDE DEF b, c, left
  <2>3. left > 0 => c + left = job.len
    BY <1>8, <1>11, <2>1
  <2>4. left = 0 => b < job.len /\ job.len <= c
    BY <1>8, <1>11, <2>1
  <2>5. /\ job'.left > 0 => (job'.n * DescLen) + job'.left = job'.len
        /\ job'.left = 0 => job'.n > 0 /\ ((job'.n - 1) * DescLen) < job'.len /\ job'.len <= job'.n * DescLen
    BY <1>14, <2>2, <2>3, <2>4 DEF b, c, left
  <2> QED
    BY <1>8, <1>14, <2>5 DEF BamCut
<1>22. BamWritten'
  <2> SUFFICES ASSUME NEW k \in 0 .. job'.n - 1
               PROVE  ring'[SlotAt(k)'] = Descriptor(k)'
    BY <1>2 DEF BamWritten
  <2>1. SlotAt(k)' = SlotAt(k) /\ Descriptor(k)' = Descriptor(k)
    BY <1>14, <1>17 DEF SlotAt, Descriptor
  <2>2. k \in 0 .. n
    BY <1>8, <1>14
  <2>3. CASE k = n
    <3>1. ring'[pipe.current] = d
      BY <1>1, <1>7, <1>15 DEF BamTypes
    <3> QED
      BY <1>4, <1>13, <2>1, <2>3, <3>1
  <2>4. CASE k # n
    <3>1. k \in 0 .. n - 1 /\ k \in 0 .. FifoSize - 1 /\ k \in 0 .. FifoSize
      BY <1>8, <1>10, <2>2, <2>4, RingSize
    <3>2. SlotAt(k) # SlotAt(n)
      BY <1>5, <1>10, <2>4, <3>1, RingApart DEF SlotAt
    <3>3. SlotAt(k) \in Slots
      BY <1>5, <3>1, RingAt DEF SlotAt
    <3>4. ring'[SlotAt(k)] = ring[SlotAt(k)]
      BY <1>1, <1>4, <1>7, <3>2, <3>3 DEF BamTypes
    <3>5. ring[SlotAt(k)] = Descriptor(k)
      BY <1>1, <1>2, <3>1 DEF BamWritten
    <3> QED
      BY <2>1, <3>4, <3>5
  <2> QED
    BY <2>3, <2>4
<1>23. BamDone'
  <2>1. result # "done"
    BY <1>1, <1>2 DEF BamDone
  <2> QED
    BY <1>1, <1>2, <2>1 DEF BamDone
<1> QED
  BY <1>18, <1>19, <1>20, <1>21, <1>22, <1>23 DEF BamInv

LEMMA SlotZero ==
    ASSUME BamTypes, pipe.offset > 0
    PROVE  SlotAt(0) = Start
<1> DEFINE a == Start
           m == (a + 0) % FifoSize
<1>1. a \in Slots
  BY StartIn
<1>2. a \in Nat /\ a < FifoSize /\ 0 \in 0 .. FifoSize
  BY <1>1, RingSize DEF Slots
<1> HIDE DEF a
<1>3. m = IF a + 0 < FifoSize THEN a + 0 ELSE a + 0 - FifoSize
  BY <1>1, <1>2, RingAt
<1> HIDE DEF m
<1>4. m = a
  BY <1>2, <1>3, RingSize
<1> QED
  BY <1>4 DEF m, a, SlotAt

\* What rests on the driver's part alone.
LEMMA BamDriverSame ==
    ASSUME BamInv, UNCHANGED <<pipe, ring, job>>, bpc = "wait" \/ (bpc = "descriptors" /\ job.left = 0),
           bpc' \in {"wait", "update"}
    PROVE  BamReset' /\ BamReady' /\ BamIdle' /\ BamCurrent' /\ BamCut' /\ BamWritten'
<1>1. BamReady /\ BamCurrent /\ BamCut /\ BamWritten
  BY DEF BamInv
<1>2. BamReset' /\ BamIdle'
  BY DEF BamReset, BamIdle
<1>3. BamReady'
  BY <1>1 DEF BamReady
<1>4. pipe.current = SlotAt(job.n)
  BY <1>1 DEF BamCurrent
<1>5. BamCurrent'
  BY <1>4 DEF BamCurrent, SlotAt, Start
<1>6. BamCut'
  BY <1>1 DEF BamCut
<1>7. job.left = 0 /\ \A k \in 0 .. job.n - 1 : ring[SlotAt(k)] = Descriptor(k)
  BY <1>1 DEF BamWritten
<1>8. BamWritten'
  BY <1>7 DEF BamWritten, SlotAt, Start, Descriptor
<1> QED
  BY <1>2, <1>3, <1>5, <1>6, <1>8

LEMMA BamAnnounces ==
    ASSUME BamInv, GenEvent
    PROVE  BamInv'
<1>1. BamTypes /\ BamReady /\ BamIdle /\ BamCut /\ BamDone
  BY DEF BamInv
<1>2. /\ bpc = "descriptors" /\ job.left = 0 /\ bpc' = "wait" /\ result' = "accepted"
      /\ hw' = IF job.n >= FifoSize THEN hw ELSE [hw EXCEPT !.event = EventOffset(pipe.offset, job.n)]
      /\ UNCHANGED <<pipe, ring, job, moved, bamLeft>>
  BY DEF GenEvent
<1>3. BamReset' /\ BamReady' /\ BamIdle' /\ BamCurrent' /\ BamCut' /\ BamWritten'
  BY <1>2, BamDriverSame
<1>4. /\ pipe.offset > 0 /\ hw.on /\ hw.read = Start /\ hw.event = Start /\ hw.irq = {} /\ moved = <<>>
      /\ job.n > 0
  BY <1>1, <1>2 DEF BamReady, BamIdle, BamCut, BamDone
<1>5. /\ job.n \in 0 .. FifoSize /\ pipe.offset \in 0 .. FifoSize
      /\ hw \in [on : BOOLEAN, read : Slots, event : Slots, irq : SUBSET BamKinds]
  BY <1>1 DEF BamTypes
<1>6. Start \in Slots /\ SlotAt(0) = Start
  BY <1>1, <1>4, StartIn, SlotZero
<1>7. CASE job.n >= FifoSize
  <2>1. job.n = FifoSize /\ hw' = hw
    BY <1>2, <1>5, <1>7, RingSize
  <2>2. BamMoving'
    BY <1>2, <1>4, <2>1 DEF BamMoving, Start
  <2>3. BamTypes'
    BY <1>1, <1>2, <2>1 DEF BamTypes
  <2>4. BamDone'
    BY <1>2 DEF BamDone
  <2> QED
    BY <1>3, <2>2, <2>3, <2>4 DEF BamInv
<1>8. CASE ~(job.n >= FifoSize)
  <2>1. EventOffset(pipe.offset, job.n) = SlotAt(job.n) /\ SlotAt(job.n) \in Slots
    <3>1. job.n - 1 + pipe.offset = (pipe.offset - 1) + job.n
      BY <1>5
    <3>2. SlotAt(job.n) \in Slots
      BY <1>5, <1>6, RingAt DEF SlotAt
    <3> QED
      BY <3>1, <3>2 DEF EventOffset, SlotAt, Start
  <2>2. hw' = [hw EXCEPT !.event = SlotAt(job.n)]
    BY <1>2, <1>8, <2>1
  <2>3. /\ hw' \in [on : BOOLEAN, read : Slots, event : Slots, irq : SUBSET BamKinds]
        /\ hw'.on /\ hw'.read = Start /\ hw'.event = SlotAt(job.n) /\ hw'.irq = {}
    BY <1>4, <1>5, <2>1, <2>2
  <2>4. Bytes(0) = <<>> /\ 0 * DescLen = 0
    <3>1. 0 * DescLen = 0
      BY RingSize, Z3
    <3> QED
      BY <3>1 DEF Bytes
  <2>5. job.n # 0 /\ 0 \in 0 .. job.n
    BY <1>4, <1>5
  <2>6. moved = Bytes(IF 0 = job.n THEN job.len ELSE 0 * DescLen)
    BY <1>4, <2>4, <2>5
  <2>7. SlotAt(0)' = SlotAt(0) /\ SlotAt(job.n)' = SlotAt(job.n)
    BY <1>2 DEF SlotAt, Start
  <2>8. Taken(0)'
    BY <1>2, <1>6, <2>3, <2>6, <2>7 DEF Taken, Bytes
  <2>9. BamMoving'
    <3>1. job.n # FifoSize /\ job' = job
      BY <1>2, <1>5, <1>8, RingSize
    <3>2. \E t \in 0 .. job'.n : Taken(t)'
      BY <2>5, <2>8, <3>1
    <3> QED
      BY <3>1, <3>2 DEF BamMoving
  <2>10. BamTypes'
    BY <1>1, <1>2, <2>3 DEF BamTypes
  <2>11. BamDone'
    BY <1>2 DEF BamDone
  <2> QED
    BY <1>3, <2>9, <2>10, <2>11 DEF BamInv
<1> QED
  BY <1>7, <1>8

\* The hardware appends a descriptor's bytes.
LEMMA BytesGrow ==
    ASSUME NEW m \in Nat, NEW n \in Nat
    PROVE  Bytes(m) \o [i \in 1 .. n |-> m + i - 1] = Bytes(m + n)
<1> DEFINE s == Bytes(m)
           t == [i \in 1 .. n |-> m + i - 1]
           u == Bytes(m + n)
<1>1. /\ s \in Seq(Int) /\ Len(s) = m /\ \A i \in 1 .. m : s[i] = i - 1
  BY DEF Bytes
<1>2. /\ t \in Seq(Int) /\ Len(t) = n /\ \A i \in 1 .. n : t[i] = m + i - 1
  OBVIOUS
<1>3. /\ u \in Seq(Int) /\ Len(u) = m + n /\ \A i \in 1 .. m + n : u[i] = i - 1
  BY DEF Bytes
<1> HIDE DEF s, t, u
<1>4. /\ s \o t \in Seq(Int) /\ Len(s \o t) = m + n
      /\ \A i \in 1 .. m + n : (s \o t)[i] = IF i <= m THEN s[i] ELSE t[i - m]
  BY <1>1, <1>2, ConcatProperties
<1>5. ASSUME NEW i \in 1 .. m + n PROVE (s \o t)[i] = i - 1
  <2>1. CASE i <= m
    BY <1>1, <1>4, <2>1
  <2>2. CASE ~(i <= m)
    <3>1. i - m \in 1 .. n /\ m + (i - m) - 1 = i - 1
      BY <2>2
    <3> QED
      BY <1>2, <1>4, <2>2, <3>1
  <2> QED
    BY <2>1, <2>2
<1>6. s \o t = u
  <2>1. \A i \in 1 .. m + n : (s \o t)[i] = u[i]
    BY <1>3, <1>5
  <2> QED
    BY <1>3, <1>4, <2>1, SeqEqual
<1> QED
  BY <1>6 DEF s, t, u

LEMMA BytesLength ==
    ASSUME NEW m \in Nat
    PROVE  Len(Bytes(m)) = m
BY DEF Bytes

\* The hardware only works while the driver waits, and knows of the whole job.
LEMMA BamBusy ==
    ASSUME BamInv, hw.on, hw.read # hw.event
    PROVE  bpc = "wait" /\ job.n # FifoSize /\ \E t \in 0 .. job.n - 1 : Taken(t)
<1>1. BamTypes /\ BamReset /\ BamIdle /\ BamMoving /\ BamDone
  BY DEF BamInv
<1>2. bpc \in {"start", "fifo", "idle", "descriptors", "wait", "update"} /\ job.n \in 0 .. FifoSize
  BY <1>1 DEF BamTypes
<1>3. bpc = "wait"
  BY <1>1, <1>2 DEF BamReset, BamIdle, BamDone
<1>4. job.n # FifoSize
  BY <1>1, <1>3 DEF BamMoving
<1>5. PICK t \in 0 .. job.n : Taken(t)
  BY <1>1, <1>3, <1>4 DEF BamMoving
<1>6. t # job.n
  BY <1>5 DEF Taken
<1>7. t \in 0 .. job.n - 1
  BY <1>2, <1>6
<1> QED
  BY <1>3, <1>4, <1>5, <1>7

LEMMA BamTakes ==
    ASSUME BamInv, TakeDescriptor
    PROVE  BamInv'
<1> DEFINE d == ring[hw.read]
           next == (hw.read + 1) % FifoSize
<1>1. /\ hw.on /\ hw.read # hw.event
      /\ moved' = moved \o [i \in 1 .. d.len |-> d.first + i - 1]
      /\ hw' = [hw EXCEPT !.read = next,
                          !.irq = @ \cup (IF "INT" \in d.flags THEN {"processed"} ELSE {})
                                    \cup (IF "EOT" \in d.flags THEN {"transfer end"} ELSE {})
                                    \cup (IF next = hw.event THEN {"out of descriptors"} ELSE {})]
      /\ UNCHANGED <<pipe, ring, bpc, job, result, bamLeft>>
  BY DEF TakeDescriptor
<1>2. BamTypes /\ BamReady /\ BamCut /\ BamWritten /\ BamMoving /\ BamDone
  BY DEF BamInv
<1>3. bpc = "wait" /\ job.n # FifoSize
  BY <1>1, BamBusy
<1>4. PICK t \in 0 .. job.n - 1 : Taken(t)
  BY <1>1, BamBusy
<1> DEFINE n == job.n
<1>5. /\ n \in 0 .. FifoSize /\ job.len \in Nat
      /\ hw \in [on : BOOLEAN, read : Slots, event : Slots, irq : SUBSET BamKinds]
  BY <1>2 DEF BamTypes
<1>6. n \in Nat /\ n > 0 /\ n < FifoSize /\ t \in Nat /\ t < n /\ t \in 0 .. FifoSize - 1 /\ t + 1 \in 0 .. FifoSize
      /\ t + 1 \in 0 .. n
  BY <1>3, <1>4, <1>5, RingSize
<1>7. BamReset' /\ BamReady' /\ BamIdle' /\ BamCurrent' /\ BamCut' /\ BamWritten'
  <2>1. job.left = 0
    BY <1>2, <1>3 DEF BamWritten
  <2> QED
    BY <1>1, <1>3, BamDriverSame
<1>8. Start \in Slots
  BY <1>2, <1>3, StartIn DEF BamReady
<1>9. /\ hw.read = SlotAt(t) /\ hw.event = SlotAt(n) /\ moved = Bytes(IF t = n THEN job.len ELSE t * DescLen)
      /\ "processed" \in hw.irq \/ "transfer end" \in hw.irq => t = n
      /\ "transfer end" \in hw.irq => "EOT" \in job.flags
      /\ hw.on <=> "error" \notin hw.irq
  BY <1>4 DEF Taken
<1>10. next = SlotAt(t + 1) /\ next \in Slots /\ t # n
  <2>1. hw.read = (Start + t) % FifoSize
    BY <1>9 DEF SlotAt
  <2>2. t \in 0 .. FifoSize - 1 /\ t + 1 \in 0 .. FifoSize /\ t # n
    BY <1>6
  <2>3. next = (Start + (t + 1)) % FifoSize
    BY <1>8, <2>1, <2>2, RingNext
  <2>4. (Start + (t + 1)) % FifoSize \in Slots
    BY <1>8, <2>2, RingAt
  <2> HIDE DEF next, n
  <2> QED
    BY <2>2, <2>3, <2>4 DEF SlotAt
<1>11. d = Descriptor(t)
  BY <1>2, <1>3, <1>6, <1>9 DEF BamWritten
<1>12. /\ job.left = 0 /\ ((n - 1) * DescLen) < job.len /\ job.len <= n * DescLen
       /\ job.len <= FifoSize * DescLen
  BY <1>2, <1>3 DEF BamWritten, BamCut
<1> DEFINE b == t * DescLen
           c == (t + 1) * DescLen
<1>13. b \in Nat /\ c = b + DescLen /\ c \in Nat /\ DescLen \in Nat \ {0}
  BY <1>6, Products, RingSize
<1>14. d.first = b /\ d.len = Fewer(job.len - b, DescLen)
       /\ d.flags = IF job.len - b > DescLen THEN {} ELSE job.flags
  BY <1>11 DEF Descriptor
<1>15. FifoSize * DescLen \in Nat
  BY RingSize, Products
<1>16. CASE t + 1 = n
  <2>1. (n - 1) = t /\ b < job.len /\ job.len <= c
    <3>1. n - 1 = t
      BY <1>6, <1>16
    <3> QED
      BY <1>12, <1>16, <3>1
  <2> HIDE DEF b, c, d, next, n
  <2>2. d.len = job.len - b /\ d.len \in Nat /\ b + d.len = job.len
    BY <1>5, <1>13, <1>14, <2>1 DEF Fewer
  <2>3. moved = Bytes(b)
    BY <1>9, <1>10 DEF b
  <2>4. moved' = Bytes(b + d.len)
    BY <1>1, <1>13, <1>14, <2>2, <2>3, BytesGrow
  <2>5. moved' = Bytes(job.len)
    BY <2>2, <2>4
  <2>6. d.flags = job.flags
    <3>1. ~(job.len - b > DescLen)
      BY <1>5, <1>13, <2>1
    <3> QED
      BY <1>14, <3>1
  <2>7. /\ hw' \in [on : BOOLEAN, read : Slots, event : Slots, irq : SUBSET BamKinds]
        /\ hw'.on = hw.on /\ hw'.read = next /\ hw'.event = hw.event
        /\ hw'.irq = hw.irq \cup (IF "INT" \in d.flags THEN {"processed"} ELSE {})
                            \cup (IF "EOT" \in d.flags THEN {"transfer end"} ELSE {})
                            \cup (IF next = hw.event THEN {"out of descriptors"} ELSE {})
    BY <1>1, <1>5, <1>10 DEF BamKinds
  <2>8. hw'.on <=> "error" \notin hw'.irq
    BY <1>9, <2>7
  <2>9. "transfer end" \in hw'.irq => "EOT" \in job.flags
    BY <1>9, <2>6, <2>7
  <2>10. SlotAt(n)' = SlotAt(n) /\ SlotAt(t + 1)' = SlotAt(t + 1) /\ job' = job /\ n' = n
    BY <1>1 DEF SlotAt, Start, n
  <2>11. Taken(t + 1)'
    BY <1>9, <1>10, <1>16, <2>5, <2>7, <2>8, <2>9, <2>10 DEF Taken, Bytes, n
  <2>12. BamMoving'
    <3>1. \E k \in 0 .. job'.n : Taken(k)'
      BY <1>6, <2>10, <2>11 DEF n
    <3> QED
      BY <1>3, <2>10, <3>1 DEF BamMoving
  <2>13. BamTypes'
    <3>1. Len(moved') = job.len
      BY <1>5, <2>5, BytesLength
    <3> QED
      BY <1>1, <1>2, <1>12, <2>7, <3>1 DEF BamTypes
  <2>14. BamDone'
    BY <1>1, <1>2, <1>3 DEF BamDone
  <2> QED
    BY <1>7, <2>12, <2>13, <2>14 DEF BamInv
<1>17. CASE t + 1 # n
  <2>1. c < job.len /\ c <= (n - 1) * DescLen /\ (n - 1) * DescLen \in Nat
    <3> DEFINE k == n - 1
    <3>1. k \in Nat /\ t + 1 \in Nat /\ (t + 1 < k \/ t + 1 = k)
      BY <1>6, <1>17
    <3>2. k * DescLen < job.len
      BY <1>12
    <3> HIDE DEF k
    <3>3. k * DescLen \in Nat /\ (t + 1 < k => c + DescLen <= k * DescLen)
      BY <3>1, Products
    <3>4. t + 1 = k => c = k * DescLen
      OBVIOUS
    <3> HIDE DEF c
    <3>5. c < job.len /\ c <= k * DescLen /\ k * DescLen \in Nat
      BY <1>5, <1>13, <3>1, <3>2, <3>3, <3>4
    <3> QED
      BY <3>5 DEF k
  <2> HIDE DEF b, c, d, next, n
  <2>2. d.len = DescLen /\ d.len \in Nat /\ b + d.len = c /\ job.len - b > DescLen
    BY <1>5, <1>13, <1>14, <2>1 DEF Fewer
  <2>3. moved = Bytes(b)
    BY <1>9, <1>10 DEF b
  <2>4. moved' = Bytes(b + d.len)
    BY <1>1, <1>13, <1>14, <2>2, <2>3, BytesGrow
  <2>5. moved' = Bytes(c)
    BY <2>2, <2>4
  <2>6. d.flags = {}
    BY <1>14, <2>2
  <2>7. next # hw.event
    <3>1. n \in 0 .. FifoSize - 1 /\ t + 1 \in 0 .. FifoSize - 1 /\ t + 1 # n
      <4>1. FifoSize \in Nat /\ n \in Nat /\ n < FifoSize /\ t \in Nat /\ t < n
        BY <1>6, RingSize
      <4>2. t + 1 < FifoSize
        BY <4>1
      <4> QED
        BY <1>17, <4>1, <4>2
    <3>2. (Start + (t + 1)) % FifoSize # (Start + n) % FifoSize
      BY <1>8, <3>1, RingApart
    <3> QED
      BY <1>9, <1>10, <3>2 DEF SlotAt
  <2>8. /\ hw' \in [on : BOOLEAN, read : Slots, event : Slots, irq : SUBSET BamKinds]
        /\ hw'.on = hw.on /\ hw'.read = next /\ hw'.event = hw.event /\ hw'.irq = hw.irq
    BY <1>1, <1>5, <1>10, <2>6, <2>7
  <2>9. "processed" \notin hw.irq /\ "transfer end" \notin hw.irq
    BY <1>9, <1>10
  <2>10. SlotAt(n)' = SlotAt(n) /\ SlotAt(t + 1)' = SlotAt(t + 1) /\ job' = job /\ n' = n
    BY <1>1 DEF SlotAt, Start, n
  <2>11. moved' = Bytes(IF t + 1 = n THEN job.len ELSE (t + 1) * DescLen)
    BY <1>17, <2>5 DEF c
  <2>12. Taken(t + 1)'
    BY <1>9, <1>10, <2>8, <2>9, <2>10, <2>11 DEF Taken, Bytes, n
  <2>13. BamMoving'
    <3>1. \E k \in 0 .. job'.n : Taken(k)'
      BY <1>6, <2>10, <2>12 DEF n
    <3> QED
      BY <1>3, <2>10, <3>1 DEF BamMoving
  <2>14. BamTypes'
    <3>1. Len(moved') = c
      BY <1>13, <2>5, BytesLength
    <3>2. c <= FifoSize * DescLen
      BY <1>5, <1>12, <1>13, <1>15, <2>1
    <3> QED
      BY <1>1, <1>2, <2>8, <3>1, <3>2 DEF BamTypes
  <2>15. BamDone'
    BY <1>1, <1>2, <1>3 DEF BamDone
  <2> QED
    BY <1>7, <2>13, <2>14, <2>15 DEF BamInv
<1> QED
  BY <1>16, <1>17

LEMMA BamFails ==
    ASSUME BamInv, FailDescriptor
    PROVE  BamInv'
<1>1. /\ hw.on /\ hw.read # hw.event /\ hw' = [hw EXCEPT !.on = FALSE, !.irq = @ \cup {"error"}]
      /\ UNCHANGED <<pipe, ring, bpc, job, moved, result, bamLeft>>
  BY DEF FailDescriptor
<1>2. BamTypes /\ BamDone /\ BamWritten
  BY DEF BamInv
<1>3. bpc = "wait" /\ job.n # FifoSize
  BY <1>1, BamBusy
<1>4. PICK t \in 0 .. job.n - 1 : Taken(t)
  BY <1>1, BamBusy
<1>5. BamReset' /\ BamReady' /\ BamIdle' /\ BamCurrent' /\ BamCut' /\ BamWritten'
  BY <1>1, <1>3, BamDriverSame
<1>6. hw \in [on : BOOLEAN, read : Slots, event : Slots, irq : SUBSET BamKinds] /\ job.n \in 0 .. FifoSize
  BY <1>2 DEF BamTypes
<1>7. /\ hw' \in [on : BOOLEAN, read : Slots, event : Slots, irq : SUBSET BamKinds]
      /\ hw'.on = FALSE /\ hw'.read = hw.read /\ hw'.event = hw.event /\ hw'.irq = hw.irq \cup {"error"}
  BY <1>1, <1>6 DEF BamKinds
<1>8. SlotAt(job.n)' = SlotAt(job.n) /\ SlotAt(t)' = SlotAt(t) /\ job' = job
  BY <1>1 DEF SlotAt, Start
<1>9. Taken(t)'
  BY <1>1, <1>4, <1>7, <1>8 DEF Taken, Bytes
<1>10. BamMoving'
  <2>1. t \in 0 .. job.n
    BY <1>6
  <2>2. \E k \in 0 .. job'.n : Taken(k)'
    BY <1>8, <1>9, <2>1
  <2> QED
    BY <1>3, <1>8, <2>2 DEF BamMoving
<1>11. BamTypes'
  BY <1>1, <1>2, <1>7 DEF BamTypes
<1>12. BamDone'
  BY <1>1, <1>2, <1>3 DEF BamDone
<1> QED
  BY <1>5, <1>10, <1>11, <1>12 DEF BamInv

LEMMA BamWaits ==
    ASSUME BamInv, WaitDone
    PROVE  BamInv'
<1>1. /\ bpc = "wait" /\ Awaited \in hw.irq /\ "error" \notin hw.irq
      /\ hw' = [hw EXCEPT !.irq = Acknowledged(@)] /\ bpc' = "update" /\ result' = "done"
      /\ UNCHANGED <<pipe, ring, job, moved, bamLeft>>
  BY DEF WaitDone
<1>2. BamTypes /\ BamMoving /\ BamWritten
  BY DEF BamInv
<1>3. Awaited = "processed" \/ Awaited = "transfer end"
  BY DEF Awaited
<1>4. job.n # FifoSize
  BY <1>1, <1>2 DEF BamMoving
<1>5. PICK t \in 0 .. job.n : Taken(t)
  BY <1>1, <1>2, <1>4 DEF BamMoving
<1>6. t = job.n /\ hw.on
  BY <1>1, <1>3, <1>5 DEF Taken
<1>7. moved = Bytes(job.len) /\ hw.read = hw.event
  BY <1>5, <1>6 DEF Taken
<1>8. hw \in [on : BOOLEAN, read : Slots, event : Slots, irq : SUBSET BamKinds]
  BY <1>2 DEF BamTypes
<1>9. /\ hw' \in [on : BOOLEAN, read : Slots, event : Slots, irq : SUBSET BamKinds]
      /\ hw'.on /\ hw'.read = hw'.event /\ hw'.irq = Acknowledged(hw.irq)
  BY <1>1, <1>6, <1>7, <1>8 DEF Acknowledged
<1>10. Acknowledged(hw.irq) = {}
  BY <1>1, <1>8 DEF Acknowledged, BamKinds
<1>11. BamReset' /\ BamReady' /\ BamIdle' /\ BamCurrent' /\ BamCut' /\ BamWritten'
  BY <1>1, BamDriverSame
<1>12. BamTypes' /\ BamMoving'
  BY <1>1, <1>2, <1>9 DEF BamTypes, BamMoving
<1>13. BamDone'
  BY <1>1, <1>7, <1>9, <1>10 DEF BamDone, Bytes
<1> QED
  BY <1>11, <1>12, <1>13 DEF BamInv

LEMMA BamGivesUp ==
    ASSUME BamInv, WaitFails
    PROVE  BamInv'
<1>1. /\ bpc = "wait" /\ ("error" \in hw.irq \/ ("transfer end" \in hw.irq /\ Awaited # "transfer end"))
      /\ bpc' = "start" /\ result' = "failed" /\ UNCHANGED <<pipe, ring, hw, job, moved, bamLeft>>
  BY DEF WaitFails
<1>2. BamTypes /\ BamMoving
  BY DEF BamInv
<1>3. ~hw.on
  <2>1. job.n # FifoSize
    BY <1>1, <1>2 DEF BamMoving
  <2>2. PICK t \in 0 .. job.n : Taken(t)
    BY <1>1, <1>2, <2>1 DEF BamMoving
  <2>3. "error" \in hw.irq
    BY <1>1, <2>2 DEF Taken, Awaited
  <2> QED
    BY <2>2, <2>3 DEF Taken
<1>4. BamTypes'
  BY <1>1, <1>2 DEF BamTypes
<1>5. BamReset' /\ BamReady' /\ BamIdle' /\ BamCurrent' /\ BamCut' /\ BamWritten' /\ BamMoving' /\ BamDone'
  BY <1>1, <1>3 DEF BamReset, BamReady, BamIdle, BamCurrent, BamCut, BamWritten, BamMoving, BamDone
<1> QED
  BY <1>4, <1>5 DEF BamInv

LEMMA BamUpdates ==
    ASSUME BamInv, ReadOffsetUpdate
    PROVE  BamInv'
<1>1. /\ bpc = "update" /\ bpc' = "idle"
      /\ pipe' = [pipe EXCEPT !.current = hw.read, !.offset = hw.read + 1]
      /\ UNCHANGED <<ring, hw, job, moved, result, bamLeft>>
  BY DEF ReadOffsetUpdate
<1>2. BamTypes /\ BamReady /\ BamDone
  BY DEF BamInv
<1>3. hw.on /\ hw.read = hw.event /\ hw.irq = {} /\ pipe.initialized
  BY <1>1, <1>2 DEF BamDone, BamReady
<1>4. pipe \in [initialized : BOOLEAN, current : Slots, offset : 0 .. FifoSize] /\ hw.read \in Slots
  BY <1>2 DEF BamTypes
<1>5. hw.read + 1 \in 0 .. FifoSize /\ hw.read + 1 > 0 /\ (hw.read + 1) - 1 = hw.read
  BY <1>4, RingSize DEF Slots
<1>6. /\ pipe' \in [initialized : BOOLEAN, current : Slots, offset : 0 .. FifoSize]
      /\ pipe'.current = hw.read /\ pipe'.offset = hw.read + 1 /\ pipe'.initialized
  BY <1>1, <1>3, <1>4, <1>5
<1>7. Start' = hw.read
  BY <1>5, <1>6 DEF Start
<1>8. BamTypes'
  BY <1>1, <1>2, <1>6 DEF BamTypes
<1>9. BamReset' /\ BamReady' /\ BamIdle' /\ BamCurrent' /\ BamCut' /\ BamWritten' /\ BamMoving'
  BY <1>1, <1>3, <1>5, <1>6, <1>7 DEF BamReset, BamReady, BamIdle, BamCurrent, BamCut, BamWritten, BamMoving
<1>10. BamDone'
  BY <1>1, <1>2 DEF BamDone, Bytes
<1> QED
  BY <1>8, <1>9, <1>10 DEF BamInv

LEMMA BamStands ==
    ASSUME BamInv, UNCHANGED bamVars
    PROVE  BamInv'
BY DEF bamVars, BamInv, BamTypes, BamReset, BamReady, BamIdle, BamCurrent, BamCut, BamWritten, BamMoving,
       BamDone, Taken, SlotAt, Start, Descriptor, Bytes

LEMMA BamInvKept ==
    ASSUME BamUsed
    PROVE  BamInv /\ [BamNext]_bamVars => BamInv'
<1> SUFFICES ASSUME BamInv, [BamNext]_bamVars PROVE BamInv'
  OBVIOUS
<1>1. CASE UNCHANGED bamVars
  BY <1>1, BamStands
<1>2. CASE PipeInit \/ FifoInit
  BY <1>2, BamSetsUp, BamFifo
<1>3. CASE AddOneDesc
  BY <1>3, BamCuts
<1>4. CASE GenEvent
  BY <1>4, BamAnnounces
<1>5. CASE WaitDone \/ WaitFails \/ ReadOffsetUpdate
  BY <1>5, BamWaits, BamGivesUp, BamUpdates
<1>6. CASE TakeDescriptor \/ FailDescriptor
  BY <1>6, BamTakes, BamFails
<1>7. CASE \E len \in BamLengths, flags \in BamFlags : AddDesc(len, flags)
  BY <1>7, BamAdds
<1> QED
  BY <1>1, <1>2, <1>3, <1>4, <1>5, <1>6, <1>7 DEF BamNext, BamDriver

LEMMA BamStepOrRest == [PlatformNext]_platformVars => [BamNext]_bamVars
BY DEF PlatformNext, platformVars, BamRests, BusesRest

\* For a ring of any size and transfers of any length, of a driver that
\* initialises the fifo and asks for no pair of flags that bam_add_one_desc
\* refuses: whenever the hardware takes a descriptor while the driver goes on,
\* and wherever one fails, it takes only what the running transfer wrote, and
\* a transfer reported done has moved each of its bytes once and in order
\* (bam_add_desc, bam_sys_gen_event, bam_read_offset_update).
THEOREM BamMovesTrulyHolds ==
    ASSUME BamUsed
    PROVE  PlatformSpec => []BamMovesTruly
<1>1. PlatformInit => BamInv
  BY BamInvBegins DEF PlatformInit
<1>2. BamInv /\ [PlatformNext]_platformVars => BamInv'
  BY BamStepOrRest, BamInvKept
<1>3. BamInv => BamMovesTruly
  BY BamIsTrue
<1> QED
  BY <1>1, <1>2, <1>3, PTL DEF PlatformSpec

-----------------------------------------------------------------------------
(* The timer.                                                             *)

\* The microseconds NanoSecondDelay makes of ns.
MicrosOf(ns) == (ns \div NanoPerMicro) + (IF ns % NanoPerMicro = 0 THEN 0 ELSE 1)

\* The counter's low half outlasts the reads of a round, its high half has
\* more than one value, and no delay comes near a turn of the counter.
DelayPaced ==
    /\ High > 1 /\ 5 * Lag < Low
    /\ \A ns \in Delays : TicksOf(MicrosOf(ns)) + 6 * Lag < Turn

\* What the counter shows x ticks after it stood at 0.
Face(x) == IF x < Turn THEN x ELSE IF x < 2 * Turn THEN x - Turn ELSE x - 2 * Turn

LEMMA TurnType == Turn \in Nat /\ Turn >= Low /\ Turn > 0
<1> Low \in Nat \ {0} /\ High \in Nat \ {0}
  BY DelayAssumption
<1> QED
  BY Z3 DEF Turn

LEMMA TicksType == ASSUME NEW us \in Nat PROVE TicksOf(us) \in Nat
<1> Frequency \in Nat \ {0} /\ MicroPerSecond \in Nat \ {0}
  BY DelayAssumption
<1>1. us * Frequency \in Nat
  BY Z3
<1>2. \A x \in Nat : x \div MicroPerSecond \in Nat
  BY Z3
<1> QED
  BY <1>1, <1>2 DEF TicksOf

LEMMA MicrosType == ASSUME NEW ns \in Delays PROVE MicrosOf(ns) \in Nat
<1>1. ns \in Nat /\ NanoPerMicro \in Nat \ {0}
  BY DelayAssumption
<1>2. \A x \in Nat, b \in Nat \ {0} : x \div b \in Nat
  BY Z3
<1> QED
  BY <1>1, <1>2 DEF MicrosOf

LEMMA OnceRound ==
    ASSUME NEW x \in Nat, NEW b \in Nat \ {0}, x < 2 * b
    PROVE  x % b = IF x < b THEN x ELSE x - b
<1>1. CASE x < b
  <2>1. x = 0 * b + x
    OBVIOUS
  <2> QED
    BY <1>1, Z3
<1>2. CASE x >= b
  BY <1>2, Z3
<1> QED
  BY <1>1, <1>2

\* The two halves after n more ticks, fewer than the low half has.
LEMMA Halves ==
    ASSUME NEW x \in Nat, NEW b \in Nat \ {0}
    PROVE  /\ x \div b \in Nat /\ x % b \in Nat /\ x % b < b
           /\ x = (x \div b) * b + (x % b)
BY Z3

LEMMA HalvesUnique ==
    ASSUME NEW q \in Nat, NEW r \in Nat, NEW b \in Nat \ {0}, r < b
    PROVE  (q * b + r) \div b = q /\ (q * b + r) % b = r
BY Z3

LEMMA HalvesMove ==
    ASSUME NEW x \in Nat, NEW n \in Nat, NEW b \in Nat \ {0}, n < b
    PROVE  /\ (x % b) + n < b => (x + n) \div b = x \div b /\ (x + n) % b = (x % b) + n
           /\ (x % b) + n >= b => (x + n) \div b = (x \div b) + 1 /\ (x + n) % b = (x % b) + n - b
<1> DEFINE q == x \div b
           r == x % b
<1>1. q \in Nat /\ r \in Nat /\ r < b /\ x = q * b + r
  BY Halves
<1> HIDE DEF q, r
<1>2. ASSUME r + n < b PROVE (x + n) \div b = q /\ (x + n) % b = r + n
  <2>1. x + n = q * b + (r + n)
    BY <1>1, Z3
  <2> QED
    BY <1>1, <1>2, <2>1, HalvesUnique
<1>3. ASSUME r + n >= b PROVE (x + n) \div b = q + 1 /\ (x + n) % b = r + n - b
  <2> DEFINE m == r + n - b
  <2>1. x + n = (q + 1) * b + m
    BY <1>1, Z3
  <2>2. m \in Nat /\ m < b /\ q + 1 \in Nat
    BY <1>1, <1>3
  <2> HIDE DEF m
  <2>3. ((q + 1) * b + m) \div b = q + 1 /\ ((q + 1) * b + m) % b = m
    BY <2>2, HalvesUnique
  <2> QED
    BY <2>1, <2>3 DEF m
<1> QED
  BY <1>2, <1>3 DEF q, r

\* The time given for a count is exact.
LEMMA TimeIsExact == TimeExact
<1>1. Frequency \in Nat \ {0} /\ NanoPerSecond \in Nat
  <2>1. MicroPerSecond \in Nat /\ NanoPerMicro \in Nat /\ Frequency \in Nat \ {0}
    BY DelayAssumption
  <2> QED
    BY <2>1, Z3 DEF NanoPerSecond
<1>2. ASSUME NEW t \in Nat
      PROVE  GetTimeInNanoSecond(t) = (t * NanoPerSecond) \div Frequency
  <2> DEFINE q == t \div Frequency
             r == t % Frequency
             f == Frequency
             n == NanoPerSecond
             k == (r * n) \div f
             l == (r * n) % f
  <2>1. q \in Nat /\ r \in Nat /\ t = q * f + r
    BY <1>1, Halves
  <2> f \in Nat \ {0} /\ n \in Nat
    BY <1>1
  <2>x. GetTimeInNanoSecond(t) = q * n + k
    BY DEF GetTimeInNanoSecond
  <2>y. (t * NanoPerSecond) \div Frequency = (t * n) \div f
    OBVIOUS
  <2> HIDE DEF q, r, f, n
  <2>2. r * n \in Nat
    BY <2>1, Z3
  <2>3. k \in Nat /\ l \in Nat /\ l < f /\ r * n = k * f + l
    BY <2>2, Halves
  <2> HIDE DEF k, l
  <2>4. t * n = (q * n + k) * f + l
    <3>1. t * n = q * f * n + r * n
      BY <2>1, Z3
    <3>2. q * f * n = q * n * f
      BY <2>1, Z3
    <3>3. (q * n + k) * f = q * n * f + k * f
      BY <2>1, <2>3, Z3
    <3>4. q * f * n \in Nat /\ k * f \in Nat
      BY <2>1, <2>3, Z3
    <3> QED
      BY <3>1, <3>2, <3>3, <3>4, <2>3, <2>2
  <2>5. q * n + k \in Nat
    BY <2>1, <2>3, Z3
  <2>6. (t * n) \div f = q * n + k
    <3> DEFINE p == q * n + k
    <3> HIDE DEF p
    <3>1. p \in Nat
      BY <2>5 DEF p
    <3>2. (p * f + l) \div f = p
      BY <2>3, <3>1, HalvesUnique
    <3> QED
      BY <3>2, <2>4 DEF p
  <2> QED
    BY <2>6, <2>x, <2>y
<1>3. \A t \in 0 .. Turn - 1 : t \in Nat
  BY TurnType
<1> QED
  BY <1>2, <1>3 DEF TimeExact

-----------------------------------------------------------------------------
\* What is known of a behaviour, given the ghosts of it: the counter at the
\* delay's start, and what had elapsed when InitCount, Count and the two
\* halves of the round in progress were read.  A round whose two high halves
\* differ is read again, at once and only once.
Kept == count # NotRead
Base(last) == IF Kept THEN last + 2 * Lag ELSE 0

CounterIs(s) ==
    /\ ticks \in 0 .. Turn - 1 /\ ticks = Face(s + elapsed)
    /\ elapsed \in Nat /\ elapsed < Turn + 3 * Lag
    /\ wait = "lo" => elapsed < Turn + Lag
    /\ wait = "hi2" => elapsed < Turn + 2 * Lag

RoundIs(s, last, high, low, again) ==
    LET b == IF again THEN Base(last) + 3 * Lag ELSE Base(last)
    IN  /\ wait = "hi1" => elapsed <= b /\ (again => ticks % Low <= 3 * Lag)
        /\ wait \in {"lo", "hi2"} =>
              /\ high <= elapsed /\ high <= b /\ read.hi = Face(s + high) \div Low
              /\ again => Face(s + high) % Low <= 3 * Lag
              /\ Kept => last <= high
        /\ wait = "lo" => elapsed <= high + Lag
        /\ wait = "hi2" => /\ high <= low /\ low <= high + Lag /\ low <= elapsed /\ elapsed <= low + Lag
                           /\ read.lo = Face(s + low) % Low

CountIs(s, first, last) ==
    /\ first <= 4 * Lag /\ first <= last /\ last <= elapsed /\ last < Turn + 3 * Lag
    /\ count.InitCount = Face(s + first) /\ count.Count = Face(s + last)
    /\ count.Timeout = Face(Face(s + first) + TicksOf(micros))
    /\ Face(s + first) + TicksOf(micros) < Turn => ~count.wrapping
    /\ Face(s + first) + TicksOf(micros) >= Turn /\ ~count.wrapping => Face(s + first) + (last - first) >= Turn
    /\ wait # "returned" /\ count.Timeout + 6 * Lag < Turn => last - first < TicksOf(micros)
    /\ wait = "returned" =>
          /\ last - first >= TicksOf(micros)
          /\ count.Timeout + 6 * Lag < Turn => last - first <= TicksOf(micros) + 6 * Lag /\ elapsed <= last + Lag

DelayInv ==
    /\ wait \in {"none", "hi1", "lo", "hi2", "returned"}
    /\ wait = "none" => ~Kept /\ elapsed = 0
    /\ wait = "returned" => Kept
    /\ micros \in Nat /\ (wait # "none" => TicksOf(micros) + 6 * Lag < Turn)
    /\ read \in [hi : Nat, lo : Nat]
    /\ count \in [Count : Nat, InitCount : Nat, Timeout : Nat, wrapping : BOOLEAN]
    /\ \E s \in 0 .. Turn - 1, first, last, high, low \in Nat, again \in BOOLEAN :
          /\ CounterIs(s) /\ RoundIs(s, last, high, low, again) /\ (Kept => CountIs(s, first, last))

LEMMA FaceType == ASSUME NEW x \in Nat, x < 3 * Turn PROVE Face(x) \in 0 .. Turn - 1
BY TurnType DEF Face

LEMMA FaceMoves ==
    ASSUME NEW x \in Nat, NEW n \in Nat, x + n < 3 * Turn, n < Turn
    PROVE  Face(x + n) = IF Face(x) + n < Turn THEN Face(x) + n ELSE Face(x) + n - Turn
BY TurnType DEF Face

LEMMA FaceOfFace ==
    ASSUME NEW x \in Nat, NEW n \in Nat, x + n < 3 * Turn
    PROVE  Face(x + n) = Face(Face(x) + n)
BY TurnType DEF Face

LEMMA TurnHalves ==
    ASSUME NEW x \in 0 .. Turn - 1
    PROVE  x \div Low \in Nat /\ x % Low \in Nat /\ x % Low < Low /\ x \div Low < High
<1>1. Low \in Nat \ {0} /\ High \in Nat \ {0} /\ x \in Nat /\ x < Low * High
  BY DelayAssumption, TurnType DEF Turn
<1> DEFINE q == x \div Low
           r == x % Low
<1>2. q \in Nat /\ r \in Nat /\ r < Low /\ x = q * Low + r
  BY <1>1, Halves
<1> HIDE DEF q, r
<1>3. q < High
  <2> SUFFICES ASSUME q >= High PROVE FALSE
    BY <1>1, <1>2
  <2>1. PICK d \in Nat : q = High + d
    <3>1. q - High \in Nat /\ q = High + (q - High)
      BY <1>1, <1>2
    <3> QED
      BY <3>1
  <2>2. q * Low = Low * High + d * Low /\ d * Low \in Nat /\ Low * High \in Nat
    BY <1>1, <2>1, Z3
  <2> QED
    BY <1>1, <1>2, <2>2
<1> QED
  BY <1>2, <1>3 DEF q, r

\* Within fewer ticks than the low half has values, the high half changes
\* exactly when the low half runs over.
LEMMA TurnMoves ==
    ASSUME High > 1, NEW x \in 0 .. Turn - 1, NEW n \in Nat, n < Low, NEW y,
           y = IF x + n < Turn THEN x + n ELSE x + n - Turn
    PROVE  /\ (x % Low) + n < Low => y \div Low = x \div Low /\ y % Low = (x % Low) + n
           /\ (x % Low) + n >= Low => y \div Low # x \div Low /\ y % Low = (x % Low) + n - Low
<1> DEFINE q == x \div Low
           r == x % Low
<1>1. Low \in Nat \ {0} /\ High \in Nat \ {0} /\ x \in Nat /\ Turn \in Nat
  BY DelayAssumption, TurnType
<1>2. q \in Nat /\ r \in Nat /\ r < Low /\ q < High /\ x = q * Low + r
  BY <1>1, TurnHalves, Halves
<1>3. /\ r + n < Low => (x + n) \div Low = q /\ (x + n) % Low = r + n
      /\ r + n >= Low => (x + n) \div Low = q + 1 /\ (x + n) % Low = r + n - Low
  BY <1>1, HalvesMove
<1>4. SUFFICES /\ r + n < Low => y \div Low = q /\ y % Low = r + n
               /\ r + n >= Low => y \div Low # q /\ y % Low = r + n - Low
  OBVIOUS
<1> HIDE DEF q, r
<1>5. CASE x + n < Turn
  <2>1. y = x + n
    BY <1>5
  <2> QED
    BY <1>2, <1>3, <2>1
<1>6. CASE x + n >= Turn
  <2>1. q = High - 1 /\ r + n >= Low
    <3>1. q * Low + (r + n) >= High * Low
      BY <1>1, <1>2, <1>6 DEF Turn
    <3>2. ASSUME q + 2 <= High PROVE FALSE
      <4>1. q * Low + 2 * Low <= High * Low
        BY <1>1, <1>2, <3>2, Z3
      <4>2. r + n < 2 * Low
        BY <1>1, <1>2
      <4>3. q * Low \in Nat /\ High * Low \in Nat
        BY <1>1, <1>2, Z3
      <4> QED
        BY <1>1, <1>2, <3>1, <4>1, <4>2, <4>3
    <3>3. q = High - 1
      BY <1>1, <1>2, <3>2
    <3>4. High * Low = q * Low + Low /\ q * Low \in Nat
      BY <1>1, <1>2, <3>3, Z3
    <3> QED
      BY <1>1, <1>2, <3>1, <3>3, <3>4
  <2>2. y = r + n - Low /\ y \in Nat /\ y < Low
    <3>1. Turn = q * Low + Low /\ q * Low \in Nat
      BY <1>1, <1>2, <2>1, Z3 DEF Turn
    <3> QED
      BY <1>1, <1>2, <1>6, <2>1, <3>1
  <2>3. y \div Low = 0 /\ y % Low = y
    <3>1. y = 0 * Low + y
      BY <2>2, <1>1
    <3> QED
      BY <2>2, <1>1, Z3
  <2>4. q # 0
    BY <1>1, <2>1
  <2> QED
    <3>1. y \div Low # q
      BY <2>3, <2>4
    <3>2. y % Low = r + n - Low
      BY <2>2, <2>3
    <3> QED
      BY <1>1, <1>2, <2>1, <3>1, <3>2
<1> QED
  BY <1>1, <1>5, <1>6

LEMMA FirstLook ==
    ASSUME NEW c \in 0 .. Turn - 1, NEW d \in Nat, d < Turn, NEW w \in BOOLEAN,
           w <=> Face(c + d) < c /\ c <= c
    PROVE  /\ c + d < Turn => ~w
           /\ c + d >= Turn => w
           /\ ~w /\ ~(Face(c + d) > c) => d = 0
           /\ w \/ Face(c + d) > c => d > 0
BY TurnType DEF Face

LEMMA NextLook ==
    ASSUME NEW c \in 0 .. Turn - 1, NEW d \in Nat, NEW m \in Nat, d + m < Turn,
           NEW y \in Nat, NEW z \in Nat, y <= z, c + z < 3 * Turn,
           NEW v \in BOOLEAN, c + d < Turn => ~v, c + d >= Turn /\ ~v => c + y >= Turn,
           NEW w \in BOOLEAN, w <=> v /\ Face(c + d) < Face(c + z) /\ c <= Face(c + z)
    PROVE  /\ c + d < Turn => ~w
           /\ c + d >= Turn /\ ~w => c + z >= Turn
           /\ ~w /\ ~(Face(c + d) > Face(c + z)) => z >= d
           /\ y < d /\ z <= y + m /\ Face(c + d) + m < Turn /\ (w \/ Face(c + d) > Face(c + z)) => z < d
<1> Turn \in Nat
  BY TurnType
<1>1. Face(c + d) = IF c + d < Turn THEN c + d ELSE c + d - Turn
  BY DEF Face
<1>2. CASE c + z < Turn
  BY <1>1, <1>2 DEF Face
<1>3. CASE c + z >= Turn /\ c + z < 2 * Turn
  BY <1>1, <1>3 DEF Face
<1>4. CASE c + z >= 2 * Turn
  BY <1>1, <1>4 DEF Face
<1> QED
  BY <1>2, <1>3, <1>4

-----------------------------------------------------------------------------
LEMMA DelayInvBegins == DelayInit => DelayInv
<1> SUFFICES ASSUME DelayInit PROVE DelayInv
  OBVIOUS
<1>1. /\ ticks \in 0 .. Turn - 1 /\ elapsed = 0 /\ wait = "none" /\ micros = 0
      /\ read = [hi |-> 0, lo |-> 0] /\ count = NotRead
  BY DEF DelayInit
<1>2. CounterIs(ticks)
  BY <1>1, TurnType, DelayAssumption DEF CounterIs, Face
<1>3. RoundIs(ticks, 0, 0, 0, FALSE)
  BY <1>1 DEF RoundIs
<1>4. ~Kept /\ count \in [Count : Nat, InitCount : Nat, Timeout : Nat, wrapping : BOOLEAN]
  BY <1>1, TurnType DEF Kept, NotRead
<1>5. 0 \in Nat /\ FALSE \in BOOLEAN
  OBVIOUS
<1> QED
  BY <1>1, <1>2, <1>3, <1>4, <1>5 DEF DelayInv

\* Time that passes moves the counter on.
LEMMA TimePasses ==
    ASSUME NEW s \in 0 .. Turn - 1, NEW n \in 0 .. Lag, DelayPaced,
           CounterIs(s), elapsed + n < Turn + 3 * Lag, Passing(n)
    PROVE  /\ elapsed' = elapsed + n /\ ticks' \in 0 .. Turn - 1
           /\ ticks' = Face(s + elapsed')
           /\ ticks' = IF ticks + n < Turn THEN ticks + n ELSE ticks + n - Turn
<1>1. Lag \in Nat /\ Low \in Nat /\ n \in Nat /\ n < Turn /\ 3 * Lag < Turn /\ Turn \in Nat \ {0}
  BY DelayAssumption, TurnType DEF DelayPaced
<1>2. ticks \in 0 .. Turn - 1 /\ ticks = Face(s + elapsed) /\ elapsed \in Nat /\ elapsed' = elapsed + n
  BY DEF CounterIs, Passing
<1>3. (ticks + n) % Turn = IF ticks + n < Turn THEN ticks + n ELSE ticks + n - Turn
  <2> DEFINE x == ticks + n
  <2>1. x \in Nat /\ x < 2 * Turn
    BY <1>1, <1>2
  <2>2. Turn \in Nat \ {0}
    BY <1>1
  <2> HIDE DEF x
  <2>3. x % Turn = IF x < Turn THEN x ELSE x - Turn
    BY <2>1, <2>2, OnceRound
  <2> QED
    BY <1>1, <1>2, <2>3 DEF x
<1>4. ticks' = IF ticks + n < Turn THEN ticks + n ELSE ticks + n - Turn
  BY <1>3 DEF Passing
<1>5. s + elapsed \in Nat /\ (s + elapsed) + n < 3 * Turn
  BY <1>1, <1>2
<1>6. Face((s + elapsed) + n) = ticks'
  BY <1>1, <1>2, <1>4, <1>5, FaceMoves
<1>7. (s + elapsed) + n = s + elapsed'
  BY <1>1, <1>2
<1> QED
  BY <1>1, <1>2, <1>4, <1>6, <1>7

LEMMA CountStays ==
    ASSUME NEW s, NEW first \in Nat, NEW last \in Nat, CountIs(s, first, last), UNCHANGED <<micros, count>>,
           wait # "returned", wait' # "returned", elapsed \in Nat, elapsed' \in Nat, elapsed' >= elapsed
    PROVE  CountIs(s, first, last)'
BY DEF CountIs

LEMMA DelayCalled ==
    ASSUME DelayPaced, DelayInv, NanoSecondDelay
    PROVE  DelayInv'
<1>1. /\ wait = "none" /\ wait' = "hi1" /\ UNCHANGED <<ticks, elapsed, read, count>> /\ ~Kept /\ elapsed = 0
  BY DEF NanoSecondDelay, DelayInv
<1>2. micros' \in Nat /\ TicksOf(micros') + 6 * Lag < Turn
  <2>1. PICK ns \in Delays : micros' = MicrosOf(ns)
    BY DEF NanoSecondDelay, MicrosOf
  <2> QED
    BY <2>1, MicrosType DEF DelayPaced
<1>3. PICK s \in 0 .. Turn - 1 : CounterIs(s)
  BY DEF DelayInv
<1>4. CounterIs(s)'
  BY <1>1, <1>3 DEF CounterIs
<1>5. RoundIs(s, 0, 0, 0, FALSE)' /\ ~Kept'
  BY <1>1 DEF RoundIs, Kept, Base, NotRead
<1>6. /\ read' \in [hi : Nat, lo : Nat]
      /\ count' \in [Count : Nat, InitCount : Nat, Timeout : Nat, wrapping : BOOLEAN]
  BY <1>1 DEF DelayInv
<1>7. 0 \in Nat /\ FALSE \in BOOLEAN
  OBVIOUS
<1>8. (TicksOf(micros) + 6 * Lag < Turn)'
  BY <1>2 DEF TicksOf, Turn
<1> QED
  BY <1>1, <1>2, <1>3, <1>4, <1>5, <1>6, <1>7, <1>8 DEF DelayInv

LEMMA HighRead ==
    ASSUME DelayPaced, DelayInv, ReadHigh
    PROVE  DelayInv'
<1>1. /\ wait = "hi1" /\ elapsed < Turn /\ wait' = "lo" /\ read' = [read EXCEPT !.hi = ticks \div Low]
      /\ UNCHANGED <<micros, count>>
  BY DEF ReadHigh
<1>2. PICK n \in 0 .. Lag : Passing(n)
  BY DEF ReadHigh
<1>3. PICK s \in 0 .. Turn - 1, first, last, high, low \in Nat, again \in BOOLEAN :
          CounterIs(s) /\ RoundIs(s, last, high, low, again) /\ (Kept => CountIs(s, first, last))
  BY DEF DelayInv
<1>4. Lag \in Nat /\ Turn \in Nat /\ elapsed \in Nat /\ ticks = Face(s + elapsed) /\ ticks \in 0 .. Turn - 1
  BY <1>3, DelayAssumption, TurnType DEF CounterIs
<1>5. /\ elapsed' = elapsed + n /\ ticks' \in 0 .. Turn - 1 /\ ticks' = Face(s + elapsed')
  BY <1>1, <1>2, <1>3, <1>4, TimePasses
<1>6. CounterIs(s)'
  <2>1. elapsed' \in Nat /\ elapsed' < Turn + Lag /\ elapsed' < Turn + 3 * Lag
    BY <1>1, <1>4, <1>5
  <2> QED
    BY <1>1, <1>5, <2>1 DEF CounterIs, Face, Turn
<1>7. PICK e \in Nat : e = elapsed
  BY <1>4
<1>8. RoundIs(s, last, e, low, again)'
  <2>1. Base(last)' = Base(last)
    BY <1>1 DEF Base, Kept, NotRead
  <2>2. read'.hi = ticks \div Low
    BY <1>1 DEF DelayInv
  <2>3. e <= IF again THEN Base(last)' + 3 * Lag ELSE Base(last)'
    BY <1>1, <1>3, <1>7, <2>1 DEF RoundIs
  <2>4. again => ticks % Low <= 3 * Lag
    BY <1>1, <1>3 DEF RoundIs
  <2>5. e <= elapsed' /\ elapsed' <= e + Lag
    BY <1>4, <1>5, <1>7
  <2>6. read'.hi = Face(s + e) \div Low /\ (again => Face(s + e) % Low <= 3 * Lag)
    BY <1>4, <1>7, <2>2, <2>4
  <2>7. Kept' => last <= e
    BY <1>1, <1>3, <1>7 DEF CountIs, Kept, NotRead
  <2> QED
    BY <1>1, <2>3, <2>5, <2>6, <2>7 DEF RoundIs, Face, Turn
<1>9. Kept' => CountIs(s, first, last)'
  BY <1>1, <1>3, <1>4, <1>5, CountStays DEF Kept, NotRead
<1>10. read' \in [hi : Nat, lo : Nat]
  BY <1>1, <1>4, TurnHalves DEF DelayInv
<1>11. /\ wait' = "lo" /\ micros' \in Nat /\ (TicksOf(micros) + 6 * Lag < Turn)'
       /\ count' \in [Count : Nat, InitCount : Nat, Timeout : Nat, wrapping : BOOLEAN]
  BY <1>1 DEF DelayInv, TicksOf, Turn
<1>12. \E q \in 0 .. Turn - 1, f, l, h, w \in Nat, g \in BOOLEAN :
          CounterIs(q)' /\ RoundIs(q, l, h, w, g)' /\ (Kept' => CountIs(q, f, l)')
  BY <1>3, <1>6, <1>7, <1>8, <1>9
<1> QED
  BY <1>10, <1>11, <1>12 DEF DelayInv, Turn

LEMMA LowRead ==
    ASSUME DelayPaced, DelayInv, ReadLow
    PROVE  DelayInv'
<1>1. /\ wait = "lo" /\ wait' = "hi2" /\ read' = [read EXCEPT !.lo = ticks % Low]
      /\ UNCHANGED <<micros, count>>
  BY DEF ReadLow
<1>2. PICK n \in 0 .. Lag : Passing(n)
  BY DEF ReadLow
<1>3. PICK s \in 0 .. Turn - 1, first, last, high, low \in Nat, again \in BOOLEAN :
          CounterIs(s) /\ RoundIs(s, last, high, low, again) /\ (Kept => CountIs(s, first, last))
  BY DEF DelayInv
<1>4. Lag \in Nat /\ Turn \in Nat /\ elapsed \in Nat /\ ticks = Face(s + elapsed) /\ ticks \in 0 .. Turn - 1
  BY <1>3, DelayAssumption, TurnType DEF CounterIs
<1>4a. elapsed < Turn + Lag
  BY <1>1, <1>3 DEF CounterIs
<1>5. /\ elapsed' = elapsed + n /\ ticks' \in 0 .. Turn - 1 /\ ticks' = Face(s + elapsed')
  BY <1>2, <1>3, <1>4, <1>4a, TimePasses
<1>6. CounterIs(s)'
  <2>1. elapsed' \in Nat /\ elapsed' < Turn + 2 * Lag /\ elapsed' < Turn + 3 * Lag
    BY <1>4, <1>4a, <1>5
  <2> QED
    BY <1>1, <1>5, <2>1 DEF CounterIs, Face, Turn
<1>7. PICK e \in Nat : e = elapsed
  BY <1>4
<1>8. RoundIs(s, last, high, e, again)'
  <2>1. Base(last)' = Base(last)
    BY <1>1 DEF Base, Kept, NotRead
  <2>2. read'.lo = ticks % Low /\ read'.hi = read.hi
    BY <1>1 DEF DelayInv
  <2>3. /\ high <= e /\ e <= high + Lag /\ read.hi = Face(s + high) \div Low
        /\ again => Face(s + high) % Low <= 3 * Lag
        /\ high <= IF again THEN Base(last)' + 3 * Lag ELSE Base(last)'
    BY <1>1, <1>3, <1>7, <2>1 DEF RoundIs
  <2>5. e <= elapsed' /\ elapsed' <= e + Lag
    BY <1>4, <1>5, <1>7
  <2>5a. high <= elapsed'
    BY <1>4, <1>5, <1>7, <2>3
  <2>6. read'.hi = Face(s + high) \div Low /\ read'.lo = Face(s + e) % Low
    BY <1>4, <1>7, <2>2, <2>3
  <2>7. Kept' => last <= high
    BY <1>1, <1>3 DEF RoundIs, Kept, NotRead
  <2> QED
    BY <1>1, <2>3, <2>5, <2>5a, <2>6, <2>7 DEF RoundIs, Face, Turn
<1>9. Kept' => CountIs(s, first, last)'
  BY <1>1, <1>3, <1>4, <1>5, CountStays DEF Kept, NotRead
<1>10. read' \in [hi : Nat, lo : Nat]
  BY <1>1, <1>4, TurnHalves DEF DelayInv
<1>11. /\ wait' = "hi2" /\ micros' \in Nat /\ (TicksOf(micros) + 6 * Lag < Turn)'
       /\ count' \in [Count : Nat, InitCount : Nat, Timeout : Nat, wrapping : BOOLEAN]
  BY <1>1 DEF DelayInv, TicksOf, Turn
<1>12. \E q \in 0 .. Turn - 1, f, l, h, w \in Nat, g \in BOOLEAN :
          CounterIs(q)' /\ RoundIs(q, l, h, w, g)' /\ (Kept' => CountIs(q, f, l)')
  BY <1>3, <1>6, <1>7, <1>8, <1>9
<1> QED
  BY <1>10, <1>11, <1>12 DEF DelayInv, Turn

\* Both reads of the high half agree unless the low half ran over between
\* them, and then the three reads are those of one moment.
LEMMA RoundEnds ==
    ASSUME DelayPaced, DelayInv, wait = "hi2",
           NEW s \in 0 .. Turn - 1, NEW last \in Nat, NEW high \in Nat, NEW low \in Nat, NEW again \in BOOLEAN,
           CounterIs(s), RoundIs(s, last, high, low, again)
    PROVE  /\ ticks \div Low = read.hi => CounterRead = Face(s + low) /\ CounterRead \in 0 .. Turn - 1
           /\ ticks \div Low # read.hi => CounterRead = Turn /\ ~again /\ ticks % Low < 2 * Lag
<1> DEFINE x == Face(s + high)
           n == elapsed - high
           m == low - high
<1>1. /\ Lag \in Nat /\ Turn \in Nat /\ elapsed \in Nat /\ ticks = Face(s + elapsed) /\ ticks \in 0 .. Turn - 1
      /\ Low \in Nat /\ 5 * Lag < Low /\ High > 1 /\ Low <= Turn /\ elapsed < Turn + 2 * Lag
  BY DelayAssumption, TurnType DEF CounterIs, DelayPaced
<1>2. /\ high <= low /\ low <= high + Lag /\ low <= elapsed /\ elapsed <= low + Lag
      /\ read.hi = x \div Low /\ read.lo = Face(s + low) % Low
      /\ again => x % Low <= 3 * Lag
  BY DEF RoundIs
<1>3. /\ n \in Nat /\ n <= 2 * Lag /\ m \in Nat /\ m <= n /\ n < Low /\ n < Turn /\ m < Low /\ m < Turn
      /\ s + high \in Nat /\ (s + high) + n = s + elapsed /\ (s + high) + m = s + low
      /\ (s + high) + n < 3 * Turn /\ (s + high) + m < 3 * Turn /\ s + high < 3 * Turn
  BY <1>1, <1>2
<1>4. x \in 0 .. Turn - 1
  BY <1>3, FaceType
<1>5. Face(s + elapsed) = IF x + n < Turn THEN x + n ELSE x + n - Turn
  <2>1. Face((s + high) + n) = IF x + n < Turn THEN x + n ELSE x + n - Turn
    <3> DEFINE y == s + high
    <3> HIDE DEF n
    <3>1. y \in Nat /\ y + n < 3 * Turn /\ n < Turn /\ n \in Nat
      BY <1>3
    <3> HIDE DEF y
    <3>2. Face(y + n) = IF Face(y) + n < Turn THEN Face(y) + n ELSE Face(y) + n - Turn
      BY <3>1, FaceMoves
    <3> QED
      BY <3>2 DEF y
  <2> QED
    BY <2>1, <1>3
<1>6. Face(s + low) = IF x + m < Turn THEN x + m ELSE x + m - Turn
  <2>1. Face((s + high) + m) = IF x + m < Turn THEN x + m ELSE x + m - Turn
    <3> DEFINE y == s + high
    <3> HIDE DEF m
    <3>1. y \in Nat /\ y + m < 3 * Turn /\ m < Turn /\ m \in Nat
      BY <1>3
    <3> HIDE DEF y
    <3>2. Face(y + m) = IF Face(y) + m < Turn THEN Face(y) + m ELSE Face(y) + m - Turn
      BY <3>1, FaceMoves
    <3> QED
      BY <3>2 DEF y
  <2> QED
    BY <2>1, <1>3
<1> DEFINE y == Face(s + low)
           r == x % Low
<1>7. y \in 0 .. Turn - 1
  BY <1>1, <1>3, <1>4, <1>6
<1>8. r \in Nat /\ r < Low
  BY <1>4, TurnHalves
<1> HIDE DEF x, n, m
<1>9. /\ r + n < Low => ticks \div Low = x \div Low
      /\ r + n >= Low => ticks \div Low # x \div Low /\ ticks % Low = r + n - Low
  BY <1>1, <1>3, <1>4, <1>5, TurnMoves
<1>10a. /\ y = IF x + m < Turn THEN x + m ELSE x + m - Turn
        /\ High > 1 /\ m \in Nat /\ m < Low
  BY <1>1, <1>3, <1>6
<1>10b. y \in Nat /\ Low \in Nat \ {0}
  BY <1>1, <1>7, DelayAssumption
<1> HIDE DEF y
<1>10. r + m < Low => y \div Low = x \div Low
  BY <1>4, <1>10a, TurnMoves
<1>11. y = (y \div Low) * Low + (y % Low)
  BY <1>10b, Halves
<1> HIDE DEF r
<1>12. CASE r + n < Low
  <2>1. r + m < Low
    BY <1>1, <1>3, <1>8, <1>12
  <2>2. ticks \div Low = read.hi
    BY <1>2, <1>9, <1>12
  <2>3. read.hi = y \div Low /\ read.lo = y % Low
    BY <1>2, <1>10, <2>1 DEF y
  <2>4. CounterRead = y
    BY <1>11, <2>2, <2>3 DEF CounterRead
  <2> QED
    BY <1>7, <2>2, <2>4 DEF y
<1>13. CASE r + n >= Low
  <2>1. ticks \div Low # read.hi
    BY <1>2, <1>9, <1>13
  <2>2. CounterRead = Turn
    BY <2>1 DEF CounterRead
  <2>3. ~again
    <3>1. r > 3 * Lag
      BY <1>1, <1>3, <1>8, <1>13
    <3>2. again => r <= 3 * Lag
      BY <1>2 DEF r
    <3>3. r \in Nat /\ Lag \in Nat
      BY <1>1, <1>8
    <3> QED
      BY <3>1, <3>2, <3>3
  <2>4. ticks % Low < 2 * Lag
    <3>1. r + n - Low < 2 * Lag
      BY <1>1, <1>3, <1>8
    <3> QED
      BY <3>1, <1>9, <1>13
  <2> QED
    BY <2>1, <2>2, <2>3, <2>4
<1> QED
  BY <1>1, <1>3, <1>8, <1>12, <1>13

LEMMA ReadAgain ==
    ASSUME DelayPaced, DelayInv, ReadHighAgain, CounterRead = Turn
    PROVE  DelayInv'
<1>0. TicksOf(micros) + 6 * Lag < Turn /\ wait = "hi2" /\ UNCHANGED <<micros, read>>
  BY DEF ReadHighAgain, DelayInv
<1>1. wait' = "hi1" /\ UNCHANGED count /\ \E n \in 0 .. Lag : Passing(n)
  BY DEF ReadHighAgain
<1>2. PICK n \in 0 .. Lag : Passing(n)
  BY <1>1
<1>3. PICK s \in 0 .. Turn - 1, first, last, high, low \in Nat, again \in BOOLEAN :
          CounterIs(s) /\ RoundIs(s, last, high, low, again) /\ (Kept => CountIs(s, first, last))
  BY DEF DelayInv
<1>4. Lag \in Nat /\ Turn \in Nat /\ elapsed \in Nat /\ ticks \in 0 .. Turn - 1 /\ 5 * Lag < Low /\ Low \in Nat
  BY <1>3, DelayAssumption, TurnType DEF CounterIs, DelayPaced
<1>4a. elapsed < Turn + 2 * Lag
  BY <1>0, <1>3 DEF CounterIs
<1>5. /\ elapsed' = elapsed + n /\ ticks' \in 0 .. Turn - 1 /\ ticks' = Face(s + elapsed')
      /\ ticks' = IF ticks + n < Turn THEN ticks + n ELSE ticks + n - Turn
  BY <1>2, <1>3, <1>4, <1>4a, TimePasses
<1>6. CounterIs(s)'
  <2>1. elapsed' \in Nat /\ elapsed' < Turn + 3 * Lag
    BY <1>4, <1>4a, <1>5
  <2> QED
    BY <1>1, <1>5, <2>1 DEF CounterIs, Face, Turn
<1>7. ~again /\ ticks % Low < 2 * Lag
  <2>1. ticks \div Low # read.hi
    <3>1. CounterRead \notin 0 .. Turn - 1
      BY <1>4
    <3> QED
      BY <3>1, <1>0, <1>3, RoundEnds
  <2> QED
    BY <2>1, <1>0, <1>3, RoundEnds
<1>8. RoundIs(s, last, high, low, TRUE)'
  <2>1. Base(last)' = Base(last) /\ Base(last) \in Nat
    BY <1>1, <1>4 DEF Base, Kept, NotRead
  <2>2. elapsed <= high + 2 * Lag /\ high <= Base(last)
    <3>1. high <= Base(last) /\ low <= high + Lag /\ elapsed <= low + Lag
      BY <1>0, <1>3, <1>7 DEF RoundIs
    <3> QED
      BY <1>4, <3>1
  <2>3. elapsed' <= Base(last)' + 3 * Lag
    BY <1>4, <1>5, <2>1, <2>2
  <2>4. ticks' % Low <= 3 * Lag
    <3> DEFINE r == ticks % Low
    <3>1. r \in Nat /\ r < 2 * Lag /\ n \in Nat /\ n < Low /\ n <= Lag
      BY <1>4, <1>7, TurnHalves
    <3>2. r + n < Low
      BY <3>1, <1>4
    <3>3. ticks' % Low = r + n
      BY <1>4, <1>5, <3>1, <3>2, TurnMoves DEF DelayPaced
    <3> HIDE DEF r
    <3> QED
      BY <3>1, <3>3, <1>4
  <2> QED
    BY <1>1, <2>3, <2>4 DEF RoundIs
<1>9. Kept' => CountIs(s, first, last)'
  BY <1>0, <1>1, <1>3, <1>4, <1>5, CountStays DEF Kept, NotRead
<1>11. /\ wait' = "hi1" /\ micros' \in Nat /\ (TicksOf(micros) + 6 * Lag < Turn)'
       /\ count' \in [Count : Nat, InitCount : Nat, Timeout : Nat, wrapping : BOOLEAN]
       /\ read' \in [hi : Nat, lo : Nat]
  BY <1>0, <1>1 DEF DelayInv, TicksOf, Turn
<1>12. \E q \in 0 .. Turn - 1, f, l, h, w \in Nat, g \in BOOLEAN :
          CounterIs(q)' /\ RoundIs(q, l, h, w, g)' /\ (Kept' => CountIs(q, f, l)')
  BY <1>3, <1>6, <1>8, <1>9
<1> QED
  BY <1>11, <1>12 DEF DelayInv, Turn

\* What a look at the counter makes of the record.
LEMMA Looks ==
    ASSUME NEW c \in 0 .. Turn - 1, TicksOf(micros) \in Nat, TicksOf(micros) < Turn,
           count \in [Count : Nat, InitCount : Nat, Timeout : Nat, wrapping : BOOLEAN]
    PROVE  /\ Look(c) \in [Count : Nat, InitCount : Nat, Timeout : Nat, wrapping : BOOLEAN]
           /\ Look(c).Count = c
           /\ Look(c).InitCount = (IF Kept THEN count.InitCount ELSE c)
           /\ Look(c).Timeout = (IF Kept THEN count.Timeout ELSE Face(c + TicksOf(micros)))
           /\ Look(c).wrapping <=> /\ Kept => count.wrapping
                                   /\ Look(c).Timeout < c /\ Look(c).InitCount <= c
<1>1. Turn \in Nat \ {0} /\ c \in Nat
  BY TurnType
<1>2. CASE ~Kept
  <2> DEFINE d == c + TicksOf(micros)
             next == [Count |-> c, InitCount |-> c, Timeout |-> d % Turn, wrapping |-> TRUE]
  <2>1. d \in Nat /\ d < 2 * Turn
    BY <1>1
  <2>2. Look(c) = [next EXCEPT !.wrapping = @ /\ Wrapping(next)]
    BY <1>2 DEF Look, Kept
  <2> HIDE DEF d
  <2>3. d % Turn = Face(d) /\ Face(d) \in Nat
    <3>1. d % Turn = IF d < Turn THEN d ELSE d - Turn
      BY <1>1, <2>1, OnceRound
    <3> QED
      BY <1>1, <2>1, <3>1 DEF Face
  <2>4. next = [Count |-> c, InitCount |-> c, Timeout |-> Face(d), wrapping |-> TRUE]
    BY <2>3
  <2> HIDE DEF next
  <2>5. Wrapping(next) <=> Face(d) < c /\ c <= c
    BY <2>4 DEF Wrapping
  <2>6. Look(c) = [Count |-> c, InitCount |-> c, Timeout |-> Face(d),
                      wrapping |-> (TRUE /\ Wrapping(next))]
    <3> DEFINE w == Wrapping(next)
    <3> HIDE DEF w
    <3>1. Look(c) = [next EXCEPT !.wrapping = @ /\ w]
      BY <2>2 DEF w
    <3>2. Look(c) = [Count |-> c, InitCount |-> c, Timeout |-> Face(d), wrapping |-> (TRUE /\ w)]
      BY <3>1, <2>4
    <3> QED
      BY <3>2 DEF w
  <2>7. Wrapping(next) \in BOOLEAN
    BY DEF Wrapping
  <2> QED
    BY <1>1, <1>2, <2>3, <2>5, <2>6, <2>7 DEF d
<1>3. CASE Kept
  <2> DEFINE next == [count EXCEPT !.Count = c]
  <2>1. Look(c) = [next EXCEPT !.wrapping = @ /\ Wrapping(next)]
    BY <1>3 DEF Look, Kept
  <2>2. /\ next \in [Count : Nat, InitCount : Nat, Timeout : Nat, wrapping : BOOLEAN]
        /\ next.Count = c /\ next.InitCount = count.InitCount /\ next.Timeout = count.Timeout
        /\ next.wrapping = count.wrapping
    BY <1>1
  <2> HIDE DEF next
  <2>3. Wrapping(next) <=> count.Timeout < c /\ count.InitCount <= c
    BY <2>2 DEF Wrapping
  <2>4. Wrapping(next) \in BOOLEAN /\ next.wrapping \in BOOLEAN
    BY <2>2 DEF Wrapping
  <2>5. /\ Look(c) \in [Count : Nat, InitCount : Nat, Timeout : Nat, wrapping : BOOLEAN]
        /\ Look(c).Count = next.Count /\ Look(c).InitCount = next.InitCount /\ Look(c).Timeout = next.Timeout
        /\ Look(c).wrapping = (next.wrapping /\ Wrapping(next))
    BY <2>1, <2>2, <2>4
  <2> QED
    BY <1>3, <2>2, <2>3, <2>5
<1> QED
  BY <1>2, <1>3

\* What a round that ends with count c tells; f and low are when InitCount and
\* c were read.
LookIs(c, s, f, low) ==
    /\ c = Face(s + low) /\ c \in 0 .. Turn - 1
    /\ f \in Nat /\ f <= 4 * Lag /\ f <= low /\ low <= elapsed /\ elapsed <= low + Lag
    /\ Look(c) \in [Count : Nat, InitCount : Nat, Timeout : Nat, wrapping : BOOLEAN]
    /\ Look(c).Count = c /\ Look(c).InitCount = Face(s + f)
    /\ Look(c).Timeout = Face(Face(s + f) + TicksOf(micros))
    /\ Face(s + f) + TicksOf(micros) < Turn => ~Look(c).wrapping
    /\ Face(s + f) + TicksOf(micros) >= Turn /\ ~Look(c).wrapping => Face(s + f) + (low - f) >= Turn
    /\ ~Waits(Look(c)) => low - f >= TicksOf(micros)
    /\ Look(c).Timeout + 6 * Lag < Turn =>
          /\ Waits(Look(c)) => low - f < TicksOf(micros)
          /\ low - f <= TicksOf(micros) + 6 * Lag

\* A round that ends tells how long the delay has run.
LEMMA LookTells ==
    ASSUME DelayPaced, DelayInv, wait = "hi2", NEW c, c = CounterRead, c # Turn,
           NEW s \in 0 .. Turn - 1, NEW first \in Nat, NEW last \in Nat, NEW high \in Nat, NEW low \in Nat,
           NEW again \in BOOLEAN,
           CounterIs(s), RoundIs(s, last, high, low, again), Kept => CountIs(s, first, last),
           NEW f, f = IF Kept THEN first ELSE low
    PROVE  LookIs(c, s, f, low)
<1> DEFINE d == TicksOf(micros)
           w == Look(c)
           i == Face(s + f)
           z == low - f
<1>1. /\ Lag \in Nat /\ Turn \in Nat /\ elapsed \in Nat /\ elapsed < Turn + 2 * Lag
      /\ Low \in Nat /\ 5 * Lag < Low /\ Low <= Turn
  BY DelayAssumption, TurnType DEF CounterIs, DelayPaced
<1>2. d \in Nat /\ d + 6 * Lag < Turn /\ d < Turn
  <2>1. micros \in Nat /\ d + 6 * Lag < Turn
    BY DEF DelayInv
  <2>2. d \in Nat
    BY <2>1, TicksType
  <2> HIDE DEF d
  <2> QED
    BY <1>1, <2>1, <2>2
<1>3. c = Face(s + low) /\ c \in 0 .. Turn - 1
  <2>1. ticks \div Low = read.hi
    BY RoundEnds
  <2> QED
    BY <2>1, RoundEnds
<1>4. /\ low <= elapsed /\ elapsed <= low + Lag /\ low <= high + Lag /\ high <= Base(last) + 3 * Lag
      /\ Kept => last <= low
  <2>1. Base(last) \in Nat
    BY <1>1 DEF Base
  <2>2. /\ high <= IF again THEN Base(last) + 3 * Lag ELSE Base(last)
        /\ low <= elapsed /\ elapsed <= low + Lag /\ high <= low /\ low <= high + Lag
        /\ Kept => last <= high
    BY DEF RoundIs
  <2> QED
    BY <1>1, <2>1, <2>2
<1> HIDE DEF d
<1>5. /\ w \in [Count : Nat, InitCount : Nat, Timeout : Nat, wrapping : BOOLEAN]
      /\ w.Count = c
      /\ w.InitCount = (IF Kept THEN count.InitCount ELSE c)
      /\ w.Timeout = (IF Kept THEN count.Timeout ELSE Face(c + d))
      /\ w.wrapping <=> /\ Kept => count.wrapping
                        /\ w.Timeout < c /\ w.InitCount <= c
  BY <1>2, <1>3, Looks DEF d, DelayInv
<1> HIDE DEF w
<1>6. CASE ~Kept
  <2>1. f = low /\ z = 0 /\ i = c
    BY <1>3, <1>6
  <2>2. low <= 4 * Lag
    BY <1>1, <1>4, <1>6 DEF Base
  <2> DEFINE g == w.wrapping
             t == Face(c + d)
  <2>3. w.Timeout = t /\ w.InitCount = c /\ (g <=> t < c /\ c <= c) /\ g \in BOOLEAN
    BY <1>5, <1>6
  <2>4. /\ c + d < Turn => ~g
        /\ c + d >= Turn => g
        /\ ~g /\ ~(t > c) => d = 0
        /\ g \/ t > c => d > 0
    <3> HIDE DEF g
    <3> QED
      BY <1>2, <1>3, <2>3, FirstLook
  <2>5. Waits(w) <=> g \/ t > c
    BY <1>5, <2>3 DEF Waits
  <2> HIDE DEF g, t
  <2>6. /\ i + d < Turn => ~g
        /\ i + d >= Turn /\ ~g => i + z >= Turn
        /\ ~Waits(w) => z >= d
        /\ Waits(w) => z < d
        /\ z <= d + 6 * Lag
    BY <1>1, <1>2, <2>1, <2>4, <2>5
  <2>7. w.InitCount = i /\ w.Timeout = Face(i + d)
    BY <2>1, <2>3 DEF t
  <2> QED
    BY <1>1, <1>3, <1>4, <1>5, <2>1, <2>2, <2>6, <2>7 DEF d, w, g, LookIs
<1>7. CASE Kept
  <2> DEFINE y == last - first
  <2>1. /\ f = first /\ first <= 4 * Lag /\ first <= last /\ last <= low
        /\ low <= last + 6 * Lag
    <3>1. first <= 4 * Lag /\ first <= last
      BY <1>7 DEF CountIs
    <3>2. high <= last + 5 * Lag
      BY <1>1, <1>4, <1>7 DEF Base
    <3> QED
      BY <1>1, <1>4, <1>7, <3>1, <3>2
  <2>2. /\ count.InitCount = i /\ count.Timeout = Face(i + d) /\ count.wrapping \in BOOLEAN
        /\ i + d < Turn => ~count.wrapping
        /\ i + d >= Turn /\ ~count.wrapping => i + y >= Turn
        /\ count.Timeout + 6 * Lag < Turn => y < d
    BY <1>7, <2>1 DEF CountIs, d, DelayInv
  <2>3. /\ y \in Nat /\ z \in Nat /\ y <= z /\ z <= y + 6 * Lag /\ z < Turn + 2 * Lag
        /\ 6 * Lag \in Nat /\ s + first \in Nat /\ s + first < 3 * Turn /\ (s + first) + z = s + low
        /\ (s + first) + z < 3 * Turn
    BY <1>1, <1>4, <2>1
  <2>4. i \in 0 .. Turn - 1
    BY <2>1, <2>3, FaceType
  <2>5. c = Face(i + z)
    <3> DEFINE x == s + first
    <3> HIDE DEF x, z
    <3>1. Face(x + z) = Face(Face(x) + z)
      BY <2>3, FaceOfFace DEF x
    <3> QED
      BY <3>1, <1>3, <2>1, <2>3 DEF x
  <2>6. i + z < 3 * Turn
    BY <1>1, <2>3, <2>4
  <2> DEFINE g == w.wrapping
             v == count.wrapping
             m == 6 * Lag
  <2>7. g \in BOOLEAN /\ (g <=> v /\ Face(i + d) < Face(i + z) /\ i <= Face(i + z))
    BY <1>5, <1>7, <2>2, <2>5
  <2>8. Waits(w) <=> g \/ Face(i + d) > Face(i + z)
    BY <1>5, <1>7, <2>2, <2>5 DEF Waits
  <2>9. m \in Nat /\ d + m < Turn /\ v \in BOOLEAN /\ z <= y + m
    BY <1>2, <2>2, <2>3
  <2>9a. count.Timeout = w.Timeout /\ w.InitCount = i /\ w.Timeout = Face(i + d)
    BY <1>5, <1>7, <2>2
  <2> HIDE DEF g, v, m, y, z, i
  <2>10. /\ i + d < Turn => ~g
         /\ i + d >= Turn /\ ~g => i + z >= Turn
         /\ ~g /\ ~(Face(i + d) > Face(i + z)) => z >= d
         /\ y < d /\ z <= y + m /\ Face(i + d) + m < Turn /\ (g \/ Face(i + d) > Face(i + z)) => z < d
    <3>1. /\ i + d < Turn => ~v
          /\ i + d >= Turn /\ ~v => i + y >= Turn
      BY <2>2 DEF v
    <3> QED
      BY <1>2, <2>3, <2>4, <2>6, <2>7, <2>9, <3>1, NextLook
  <2>11. Face(i + d) + m < Turn => y < d
    BY <2>2, <2>9a DEF m
  <2>12. /\ ~Waits(w) => z >= d
         /\ Face(i + d) + m < Turn => (Waits(w) => z < d) /\ z <= d + m
    <3>1. Face(i + d) + m < Turn => z <= d + m
      BY <1>2, <2>3, <2>9, <2>11
    <3> QED
      BY <2>8, <2>9, <2>10, <2>11, <3>1
  <2> QED
    BY <1>1, <1>3, <1>4, <1>5, <2>1, <2>9a, <2>10, <2>12 DEF d, w, g, m, z, i, LookIs
<1> QED
  BY <1>6, <1>7

LEMMA CounterSeen ==
    ASSUME DelayPaced, DelayInv, ReadHighAgain, CounterRead # Turn
    PROVE  DelayInv'
<1>0. TicksOf(micros) + 6 * Lag < Turn /\ wait = "hi2" /\ UNCHANGED <<micros, read>>
  BY DEF ReadHighAgain, DelayInv
<1>1. PICK s \in 0 .. Turn - 1, first, last, high, low \in Nat, again \in BOOLEAN :
          CounterIs(s) /\ RoundIs(s, last, high, low, again) /\ (Kept => CountIs(s, first, last))
  BY DEF DelayInv
<1>2. PICK c : c = CounterRead
  OBVIOUS
<1>3. PICK f : f = IF Kept THEN first ELSE low
  OBVIOUS
<1>4. count' = Look(c)
  BY <1>2 DEF ReadHighAgain
<1>5a. LookIs(c, s, f, low)
  BY <1>0, <1>1, <1>2, <1>3, LookTells
<1>5. /\ c \in 0 .. Turn - 1
      /\ f \in Nat /\ f <= 4 * Lag /\ f <= low /\ low <= elapsed /\ elapsed <= low + Lag
      /\ count' \in [Count : Nat, InitCount : Nat, Timeout : Nat, wrapping : BOOLEAN]
      /\ count'.Count = Face(s + low) /\ count'.InitCount = Face(s + f)
      /\ count'.Timeout = Face(Face(s + f) + TicksOf(micros))
      /\ Face(s + f) + TicksOf(micros) < Turn => ~count'.wrapping
      /\ Face(s + f) + TicksOf(micros) >= Turn /\ ~count'.wrapping => Face(s + f) + (low - f) >= Turn
      /\ ~Waits(count') => low - f >= TicksOf(micros)
      /\ count'.Timeout + 6 * Lag < Turn =>
            /\ Waits(count') => low - f < TicksOf(micros)
            /\ low - f <= TicksOf(micros) + 6 * Lag
  BY <1>4, <1>5a DEF LookIs
<1>6. /\ Lag \in Nat /\ Turn \in Nat /\ elapsed \in Nat /\ elapsed < Turn + 2 * Lag /\ ticks \in 0 .. Turn - 1
      /\ Low \in Nat /\ 5 * Lag < Low /\ Low <= Turn
  BY <1>0, <1>1, DelayAssumption, TurnType DEF CounterIs, DelayPaced
<1>7. Kept'
  <2>1. s + f \in Nat /\ s + f < 3 * Turn
    BY <1>5, <1>6
  <2>2. count'.InitCount \in 0 .. Turn - 1
    BY <1>5, <2>1, FaceType
  <2>3. count' # NotRead
    BY <1>6, <2>2 DEF NotRead
  <2> QED
    BY <2>3 DEF Kept, NotRead, Turn
<1>8. ASSUME elapsed' >= elapsed, elapsed' \in Nat, wait' # "returned" => Waits(count'),
             wait' = "returned" => ~Waits(count') /\ elapsed' = elapsed
      PROVE  CountIs(s, f, low)'
  <2>1. low <= elapsed' /\ low < Turn + 3 * Lag
    BY <1>5, <1>6, <1>8
  <2>2. wait' # "returned" /\ count'.Timeout + 6 * Lag < Turn => low - f < TicksOf(micros)
    BY <1>5, <1>8
  <2>3. wait' = "returned" =>
           /\ low - f >= TicksOf(micros)
           /\ count'.Timeout + 6 * Lag < Turn => low - f <= TicksOf(micros) + 6 * Lag /\ elapsed' <= low + Lag
    BY <1>5, <1>8
  <2> QED
    BY <1>0, <1>5, <2>1, <2>2, <2>3 DEF CountIs, Face, TicksOf, Turn
<1>9. /\ micros' \in Nat /\ (TicksOf(micros) + 6 * Lag < Turn)'
      /\ read' \in [hi : Nat, lo : Nat]
  BY <1>0 DEF DelayInv, TicksOf, Turn
<1>10. CASE Waits(count')
  <2>1. wait' = "hi1" /\ \E n \in 0 .. Lag : Passing(n)
    BY <1>2, <1>4, <1>10 DEF ReadHighAgain
  <2>2. PICK n \in 0 .. Lag : Passing(n)
    BY <2>1
  <2>3. /\ elapsed' = elapsed + n /\ ticks' \in 0 .. Turn - 1 /\ ticks' = Face(s + elapsed')
    BY <1>1, <1>6, <2>2, TimePasses
  <2>4. elapsed' \in Nat /\ elapsed' < Turn + 3 * Lag /\ elapsed' >= elapsed
    BY <1>6, <2>3
  <2>5. CounterIs(s)'
    BY <2>1, <2>3, <2>4 DEF CounterIs, Face, Turn
  <2>6. RoundIs(s, low, high, low, FALSE)'
    <3>1. Base(low)' = low + 2 * Lag
      BY <1>7 DEF Base
    <3>2. elapsed' <= low + 2 * Lag
      BY <1>5, <1>6, <2>3
    <3> QED
      BY <2>1, <3>1, <3>2 DEF RoundIs
  <2>7. CountIs(s, f, low)'
    BY <1>8, <1>10, <2>1, <2>4
  <2>8. \E q \in 0 .. Turn - 1, g, l, h, w \in Nat, a \in BOOLEAN :
          CounterIs(q)' /\ RoundIs(q, l, h, w, a)' /\ (Kept' => CountIs(q, g, l)')
    BY <1>5, <2>5, <2>6, <2>7
  <2> QED
    BY <1>5, <1>7, <1>9, <2>1, <2>8 DEF DelayInv, Turn
<1>11. CASE ~Waits(count')
  <2>1. wait' = "returned" /\ UNCHANGED <<ticks, elapsed>>
    BY <1>2, <1>4, <1>11 DEF ReadHighAgain
  <2>5. CounterIs(s)'
    BY <1>1, <1>6, <2>1 DEF CounterIs, Face, Turn
  <2>6. RoundIs(s, low, high, low, FALSE)'
    BY <2>1 DEF RoundIs
  <2>7. CountIs(s, f, low)'
    BY <1>6, <1>8, <1>11, <2>1
  <2>8. \E q \in 0 .. Turn - 1, g, l, h, w \in Nat, a \in BOOLEAN :
          CounterIs(q)' /\ RoundIs(q, l, h, w, a)' /\ (Kept' => CountIs(q, g, l)')
    BY <1>5, <2>5, <2>6, <2>7
  <2> QED
    BY <1>5, <1>7, <1>9, <2>1, <2>8 DEF DelayInv, Turn
<1> QED
  BY <1>10, <1>11

LEMMA DelayStands ==
    ASSUME DelayInv, UNCHANGED delayVars
    PROVE  DelayInv'
<1>1. UNCHANGED <<ticks, elapsed, wait, micros, read, count>>
  BY DEF delayVars
<1>2. PICK s \in 0 .. Turn - 1, first, last, high, low \in Nat, again \in BOOLEAN :
          CounterIs(s) /\ RoundIs(s, last, high, low, again) /\ (Kept => CountIs(s, first, last))
  BY DEF DelayInv
<1>3. CounterIs(s)'
  BY <1>1, <1>2 DEF CounterIs, Face, Turn
<1>4. RoundIs(s, last, high, low, again)'
  BY <1>1, <1>2 DEF RoundIs, Base, Kept, NotRead, Face, Turn
<1>5. Kept' => CountIs(s, first, last)'
  BY <1>1, <1>2 DEF CountIs, Kept, NotRead, Face, Turn, TicksOf
<1>6. \E q \in 0 .. Turn - 1, g, l, h, w \in Nat, a \in BOOLEAN :
        CounterIs(q)' /\ RoundIs(q, l, h, w, a)' /\ (Kept' => CountIs(q, g, l)')
  BY <1>2, <1>3, <1>4, <1>5
<1>7. /\ wait' \in {"none", "hi1", "lo", "hi2", "returned"}
      /\ wait' = "none" => ~Kept' /\ elapsed' = 0
      /\ wait' = "returned" => Kept'
      /\ micros' \in Nat /\ (wait' # "none" => (TicksOf(micros) + 6 * Lag < Turn)')
      /\ read' \in [hi : Nat, lo : Nat]
      /\ count' \in [Count : Nat, InitCount : Nat, Timeout : Nat, wrapping : BOOLEAN]
  BY <1>1 DEF DelayInv, Kept, NotRead, Turn, TicksOf
<1> QED
  BY <1>6, <1>7 DEF DelayInv, Turn

LEMMA DelayInvKept ==
    ASSUME DelayPaced
    PROVE  DelayInv /\ [DelayNext]_delayVars => DelayInv'
BY DelayStands, DelayCalled, HighRead, LowRead, ReadAgain, CounterSeen DEF DelayNext, ReadHighAgain

LEMMA DelayIsKept == DelayPaced /\ DelayInv => DelayKept
<1> SUFFICES ASSUME DelayPaced, DelayInv PROVE DelayKept
  OBVIOUS
<1>1. PICK s \in 0 .. Turn - 1, first, last, high, low \in Nat, again \in BOOLEAN :
          CounterIs(s) /\ RoundIs(s, last, high, low, again) /\ (Kept => CountIs(s, first, last))
  BY DEF DelayInv
<1>2. Lag \in Nat /\ Turn \in Nat /\ elapsed \in Nat
  BY <1>1, DelayAssumption, TurnType DEF CounterIs
<1>3. TicksOf(micros) \in Nat
  BY TicksType DEF DelayInv
<1>4. ASSUME wait = "returned" PROVE elapsed >= TicksOf(micros)
  <2>1. first <= last /\ last <= elapsed /\ last - first >= TicksOf(micros)
    BY <1>1, <1>4 DEF DelayInv, CountIs
  <2> QED
    BY <1>2, <1>3, <2>1
<1>5. ASSUME count # NotRead, count.Timeout + (6 * Lag) < Turn PROVE elapsed <= TicksOf(micros) + (16 * Lag)
  <2>1. /\ first <= 4 * Lag /\ first <= last /\ Base(last) = last + 2 * Lag
        /\ wait # "returned" => last - first < TicksOf(micros)
        /\ wait = "returned" => last - first <= TicksOf(micros) + 6 * Lag /\ elapsed <= last + Lag
    BY <1>1, <1>5 DEF Kept, CountIs, Base
  <2>2. CASE wait = "returned"
    BY <1>2, <1>3, <2>1, <2>2
  <2>3. CASE wait # "returned"
    <3>1. elapsed <= last + 8 * Lag
      <4>1. wait \in {"hi1", "lo", "hi2"}
        BY <1>5, <2>3 DEF DelayInv, Kept
      <4>2. CASE wait = "hi1"
        <5>1. elapsed <= IF again THEN Base(last) + 3 * Lag ELSE Base(last)
          BY <1>1, <4>2 DEF RoundIs
        <5> QED
          BY <1>2, <2>1, <5>1
      <4>3. CASE wait = "lo"
        <5>1. high <= (IF again THEN Base(last) + 3 * Lag ELSE Base(last)) /\ elapsed <= high + Lag
          BY <1>1, <4>3 DEF RoundIs
        <5> QED
          BY <1>2, <2>1, <5>1
      <4>4. CASE wait = "hi2"
        <5>1. /\ high <= (IF again THEN Base(last) + 3 * Lag ELSE Base(last))
              /\ low <= high + Lag /\ elapsed <= low + Lag
          BY <1>1, <4>4 DEF RoundIs
        <5> QED
          BY <1>2, <2>1, <5>1
      <4> QED
        BY <4>1, <4>2, <4>3, <4>4
    <3> QED
      BY <1>2, <1>3, <2>1, <2>3, <3>1
  <2> QED
    BY <2>2, <2>3
<1> QED
  BY <1>4, <1>5, TimeIsExact DEF DelayKept

LEMMA DelayStepOrRest == [PlatformNext]_platformVars => [DelayNext]_delayVars
BY DEF PlatformNext, platformVars, LibrariesRest

\* For a counter of any width and frequency whose low register outlasts a few
\* reads, and delays that stay clear of a whole turn of it: a delay returns no
\* earlier than its time, wherever the counter stands and wraps in between,
\* and unless its time-out is too near the end of the counter no more than a
\* few rounds of reads later; and the time of a count is exact
\* (MicroSecondDelay, qtimer_get_phy_timer_cnt, GetTimeInNanoSecond).
THEOREM DelayKeptHolds ==
    ASSUME DelayPaced
    PROVE  PlatformSpec => []DelayKept
<1>1. PlatformInit => DelayInv
  BY DelayInvBegins DEF PlatformInit
<1>2. DelayInv /\ [PlatformNext]_platformVars => DelayInv'
  BY DelayStepOrRest, DelayInvKept
<1>3. DelayInv => DelayKept
  BY DelayIsKept
<1> QED
  BY <1>1, <1>2, <1>3, PTL DEF PlatformSpec

-----------------------------------------------------------------------------
(* The pins.                                                                 *)

\* The bits of a number lie where it has room.
LEMMA BitsWithin ==
    ASSUME NEW n \in Nat, NEW low \in Nat
    PROVE  /\ BitsAt(n, low) \subseteq low .. low + 4
           /\ n < 2 => BitsAt(n, low) \subseteq {low}
           /\ n < 4 => BitsAt(n, low) \subseteq low .. low + 1
           /\ n < 8 => BitsAt(n, low) \subseteq low .. low + 2
           /\ n < 16 => BitsAt(n, low) \subseteq low .. low + 3
<1>1. 2^0 = 1 /\ 2^1 = 2 /\ 2^2 = 4 /\ 2^3 = 8 /\ 2^4 = 16
  BY SMT
<1>2. /\ n < 2 => (n \div 2) % 2 = 0
      /\ n < 4 => (n \div 4) % 2 = 0
      /\ n < 8 => (n \div 8) % 2 = 0
      /\ n < 16 => (n \div 16) % 2 = 0
  BY Z3
<1>3. ASSUME NEW b \in BitsAt(n, low)
      PROVE  \E i \in 0 .. 4 : b = i + low /\ (n \div 2^i) % 2 = 1
  BY DEF BitsAt
<1>4. ASSUME NEW b \in BitsAt(n, low)
      PROVE  /\ b \in low .. low + 4
             /\ n < 2 => b = low
             /\ n < 4 => b \in low .. low + 1
             /\ n < 8 => b \in low .. low + 2
             /\ n < 16 => b \in low .. low + 3
  <2>1. PICK i \in 0 .. 4 : b = i + low /\ (n \div 2^i) % 2 = 1
    BY <1>3
  <2>2. i = 0 \/ i = 1 \/ i = 2 \/ i = 3 \/ i = 4
    OBVIOUS
  <2>3. /\ i = 1 => (n \div 2) % 2 = 1
        /\ i = 2 => (n \div 4) % 2 = 1
        /\ i = 3 => (n \div 8) % 2 = 1
        /\ i = 4 => (n \div 16) % 2 = 1
    BY <1>1, <2>1
  <2>4. /\ n < 2 => i # 1
        /\ n < 4 => i # 2
        /\ n < 8 => i # 3
        /\ n < 16 => i # 4
    BY <1>2, <2>3
  <2> QED
    BY <2>1, <2>2, <2>4
<1> QED
  BY <1>4

LEMMA BitsOfFull ==
    ASSUME NEW low \in Nat
    PROVE  /\ BitsAt(0, low) = {}
           /\ BitsAt(1, low) = {low}
           /\ BitsAt(3, low) = {low, low + 1}
           /\ BitsAt(7, low) = {low, low + 1, low + 2}
<1>1. 2^0 = 1 /\ 2^1 = 2 /\ 2^2 = 4 /\ 2^3 = 8 /\ 2^4 = 16
  BY SMT
<1>2. /\ \A b \in BitsAt(1, low) : b = low
      /\ \A b \in BitsAt(3, low) : b = low \/ b = low + 1
      /\ \A b \in BitsAt(7, low) : b = low \/ b = low + 1 \/ b = low + 2
  <2>1. BitsAt(1, low) \subseteq {low}
    <3>1. 1 \in Nat /\ 1 < 2
      OBVIOUS
    <3> QED
      BY <3>1, BitsWithin
  <2>2. BitsAt(3, low) \subseteq low .. low + 1
    <3>1. 3 \in Nat /\ 3 < 4
      OBVIOUS
    <3> QED
      BY <3>1, BitsWithin
  <2>3. BitsAt(7, low) \subseteq low .. low + 2
    <3>1. 7 \in Nat /\ 7 < 8
      OBVIOUS
    <3> QED
      BY <3>1, BitsWithin
  <2> QED
    BY <2>1, <2>2, <2>3
<1>3. ASSUME NEW n \in Nat, NEW k \in 0 .. 4, (n \div 2^k) % 2 = 1
      PROVE  low + k \in BitsAt(n, low)
  <2>1. k + low \in BitsAt(n, low)
    BY <1>3 DEF BitsAt
  <2> QED
    BY <2>1
<1>4. BitsAt(0, low) = {}
  <2>1. \A b \in 0 .. 4 : ~((0 \div 2^b) % 2 = 1)
    <3>1. \A b \in 0 .. 4 : b = 0 \/ b = 1 \/ b = 2 \/ b = 3 \/ b = 4
      OBVIOUS
    <3>2. (0 \div 1) % 2 = 0 /\ (0 \div 2) % 2 = 0 /\ (0 \div 4) % 2 = 0 /\ (0 \div 8) % 2 = 0 /\ (0 \div 16) % 2 = 0
      BY SMT
    <3>3. /\ (0 \div 2^0) % 2 = 0 /\ (0 \div 2^1) % 2 = 0 /\ (0 \div 2^2) % 2 = 0
          /\ (0 \div 2^3) % 2 = 0 /\ (0 \div 2^4) % 2 = 0
      BY <1>1, <3>2
    <3>4. ASSUME NEW b \in 0 .. 4 PROVE (0 \div 2^b) % 2 = 0
      <4>1. CASE b = 0
        BY <3>3, <4>1
      <4>2. CASE b = 1
        BY <3>3, <4>2
      <4>3. CASE b = 2
        BY <3>3, <4>3
      <4>4. CASE b = 3
        BY <3>3, <4>4
      <4>5. CASE b = 4
        BY <3>3, <4>5
      <4> QED
        BY <3>1, <4>1, <4>2, <4>3, <4>4, <4>5
    <3>5. 0 # 1
      OBVIOUS
    <3> QED
      BY <3>4, <3>5, Zenon
  <2> QED
    BY <2>1 DEF BitsAt
<1>5. /\ (1 \div 1) % 2 = 1 /\ (3 \div 1) % 2 = 1 /\ (7 \div 1) % 2 = 1
      /\ (3 \div 2) % 2 = 1 /\ (7 \div 2) % 2 = 1 /\ (7 \div 4) % 2 = 1
  BY SMT
<1>6. /\ (1 \div 2^0) % 2 = 1 /\ (3 \div 2^0) % 2 = 1 /\ (7 \div 2^0) % 2 = 1
      /\ (3 \div 2^1) % 2 = 1 /\ (7 \div 2^1) % 2 = 1 /\ (7 \div 2^2) % 2 = 1
  BY <1>1, <1>5
<1>7. /\ low + 0 \in BitsAt(1, low) /\ low + 0 \in BitsAt(3, low) /\ low + 0 \in BitsAt(7, low)
      /\ low + 1 \in BitsAt(3, low) /\ low + 1 \in BitsAt(7, low) /\ low + 2 \in BitsAt(7, low)
  BY <1>3, <1>6
<1>8. low + 0 = low
  OBVIOUS
<1> QED
  BY <1>2, <1>4, <1>7, <1>8

LEMMA FunctionBits == OrderBase2(NumFunctions) = 4
<1> DEFINE pow(k) == 2^k
           P(b) == 12 <= pow(b) /\ (b = 0 \/ pow(b - 1) < 12)
<1>1. /\ pow(0) = 1 /\ pow(1) = 2 /\ pow(2) = 4 /\ pow(3) = 8 /\ pow(4) = 16 /\ pow(5) = 32
      /\ pow(6) = 64 /\ pow(7) = 128 /\ pow(8) = 256 /\ pow(9) = 512 /\ pow(10) = 1024 /\ pow(11) = 2048
      /\ pow(12) = 4096 /\ pow(13) = 8192 /\ pow(14) = 16384 /\ pow(15) = 32768 /\ pow(16) = 65536 /\ pow(17) = 131072
      /\ pow(18) = 262144 /\ pow(19) = 524288 /\ pow(20) = 1048576 /\ pow(21) = 2097152 /\ pow(22) = 4194304 /\ pow(23) = 8388608
      /\ pow(24) = 16777216 /\ pow(25) = 33554432 /\ pow(26) = 67108864 /\ pow(27) = 134217728 /\ pow(28) = 268435456 /\ pow(29) = 536870912
  BY SMT
<1>2. OrderBase2(NumFunctions) = CHOOSE b \in 0 .. 30 : P(b)
  BY DEF OrderBase2, NumFunctions
<1> HIDE DEF pow
<1>3. ASSUME NEW k \in 4 .. 29 PROVE ~(pow(k) < 12)
  <2>1. \/ k = 4 \/ k = 5 \/ k = 6 \/ k = 7 \/ k = 8 \/ k = 9 \/ k = 10
        \/ k = 11 \/ k = 12 \/ k = 13 \/ k = 14 \/ k = 15 \/ k = 16 \/ k = 17
        \/ k = 18 \/ k = 19 \/ k = 20 \/ k = 21 \/ k = 22 \/ k = 23 \/ k = 24
        \/ k = 25 \/ k = 26 \/ k = 27 \/ k = 28 \/ k = 29
    OBVIOUS
  <2> QED
    BY <1>1, <2>1
<1>4. ASSUME NEW b \in 0 .. 30, P(b) PROVE b = 4
  <2>1. b # 0 /\ b # 1 /\ b # 2 /\ b # 3
    BY <1>1, <1>4
  <2>2. ASSUME b \in 5 .. 30 PROVE FALSE
    <3>1. b - 1 \in 4 .. 29 /\ b # 0
      BY <2>2
    <3>2. pow(b - 1) < 12
      BY <1>4, <3>1
    <3> QED
      BY <1>3, <3>1, <3>2
  <2> QED
    BY <2>1, <2>2
<1>5. 4 - 1 = 3 /\ P(4)
  BY <1>1
<1> HIDE DEF P
<1> QED
  BY <1>2, <1>4, <1>5

LEMMA FieldsAre ==
    /\ FieldBits.pull = {0, 1} /\ FieldBits.mux = {2, 3, 4, 5}
    /\ FieldBits.drv = {6, 7, 8} /\ FieldBits.oe = {9}
<1>1. PullBit .. PullBit + 1 = {0, 1} /\ DrvBit .. DrvBit + 2 = {6, 7, 8} /\ OeBit = 9
  BY DEF PullBit, DrvBit, OeBit
<1>2. MuxBit .. MuxBit + 4 - 1 = {2, 3, 4, 5}
  BY DEF MuxBit
<1> QED
  BY <1>1, <1>2, FunctionBits DEF FieldBits

\* A field holds what was put in it, from its lowest bit on.
LEMMA FieldLow ==
    ASSUME NEW n
    PROVE  /\ FieldIs("pull", n) <=> ctl \cap {0, 1} = BitsAt(n, 0)
           /\ FieldIs("mux", n) <=> ctl \cap {2, 3, 4, 5} = BitsAt(n, 2)
           /\ FieldIs("drv", n) <=> ctl \cap {6, 7, 8} = BitsAt(n, 6)
           /\ FieldIs("oe", n) <=> ctl \cap {9} = BitsAt(n, 9)
<1> DEFINE lowest(S) == CHOOSE b \in S : \A k \in S : b <= k
<1>1. lowest({0, 1}) = 0 /\ lowest({2, 3, 4, 5}) = 2 /\ lowest({6, 7, 8}) = 6 /\ lowest({9}) = 9
  <2>1. \A b \in {0, 1} : (\A k \in {0, 1} : b <= k) <=> b = 0
    OBVIOUS
  <2>2. \A b \in {2, 3, 4, 5} : (\A k \in {2, 3, 4, 5} : b <= k) <=> b = 2
    OBVIOUS
  <2>3. \A b \in {6, 7, 8} : (\A k \in {6, 7, 8} : b <= k) <=> b = 6
    OBVIOUS
  <2>4. \A b \in {9} : (\A k \in {9} : b <= k) <=> b = 9
    OBVIOUS
  <2>5. lowest({0, 1}) = 0
    BY <2>1
  <2>6. lowest({2, 3, 4, 5}) = 2
    BY <2>2
  <2>7. lowest({6, 7, 8}) = 6
    BY <2>3
  <2>8. lowest({9}) = 9
    BY <2>4
  <2> QED
    BY <2>5, <2>6, <2>7, <2>8
<1>2. FieldBits["pull"] = {0, 1} /\ FieldBits["mux"] = {2, 3, 4, 5} /\ FieldBits["drv"] = {6, 7, 8} /\ FieldBits["oe"] = {9}
  BY FieldsAre
<1>3. \A name : FieldIs(name, n) <=> ctl \cap FieldBits[name] = BitsAt(n, lowest(FieldBits[name]))
  BY DEF FieldIs
<1> HIDE DEF lowest
<1>4. FieldIs("pull", n) <=> ctl \cap {0, 1} = BitsAt(n, 0)
  <2>1. FieldIs("pull", n) <=> ctl \cap FieldBits["pull"] = BitsAt(n, lowest(FieldBits["pull"]))
    BY <1>3
  <2> QED
    BY <1>1, <1>2, <2>1
<1>5. FieldIs("mux", n) <=> ctl \cap {2, 3, 4, 5} = BitsAt(n, 2)
  <2>1. FieldIs("mux", n) <=> ctl \cap FieldBits["mux"] = BitsAt(n, lowest(FieldBits["mux"]))
    BY <1>3
  <2> QED
    BY <1>1, <1>2, <2>1
<1>6. FieldIs("drv", n) <=> ctl \cap {6, 7, 8} = BitsAt(n, 6)
  <2>1. FieldIs("drv", n) <=> ctl \cap FieldBits["drv"] = BitsAt(n, lowest(FieldBits["drv"]))
    BY <1>3
  <2> QED
    BY <1>1, <1>2, <2>1
<1>7. FieldIs("oe", n) <=> ctl \cap {9} = BitsAt(n, 9)
  <2>1. FieldIs("oe", n) <=> ctl \cap FieldBits["oe"] = BitsAt(n, lowest(FieldBits["oe"]))
    BY <1>3
  <2> QED
    BY <1>1, <1>2, <2>1
<1> QED
  BY <1>4, <1>5, <1>6, <1>7

\* The bits of a pad's setting, of the register the pads share.
PadMask(p) == BitsAt(Pads[p].mask, Pads[p].off)

LEMMA PadMasks ==
    /\ DOMAIN Pads = {"sdc1_data", "sdc1_cmd", "sdc1_clk", "sdc1_data_pull", "sdc1_cmd_pull", "sdc1_clk_pull"}
    /\ PadMask("sdc1_data") = {0, 1, 2} /\ PadMask("sdc1_cmd") = {3, 4, 5} /\ PadMask("sdc1_clk") = {6, 7, 8}
    /\ PadMask("sdc1_data_pull") = {9, 10} /\ PadMask("sdc1_cmd_pull") = {11, 12}
    /\ PadMask("sdc1_clk_pull") = {13, 14}
<1>1. /\ PadMask("sdc1_data") = BitsAt(7, 0) /\ PadMask("sdc1_cmd") = BitsAt(7, 3) /\ PadMask("sdc1_clk") = BitsAt(7, 6)
      /\ PadMask("sdc1_data_pull") = BitsAt(3, 9) /\ PadMask("sdc1_cmd_pull") = BitsAt(3, 11)
      /\ PadMask("sdc1_clk_pull") = BitsAt(3, 13)
  BY DEF PadMask, Pads
<1>2. \A low \in Nat : BitsAt(3, low) = {low, low + 1} /\ BitsAt(7, low) = {low, low + 1, low + 2}
  BY BitsOfFull
<1>3. /\ BitsAt(7, 0) = {0, 0 + 1, 0 + 2} /\ BitsAt(7, 3) = {3, 3 + 1, 3 + 2} /\ BitsAt(7, 6) = {6, 6 + 1, 6 + 2}
      /\ BitsAt(3, 9) = {9, 9 + 1} /\ BitsAt(3, 11) = {11, 11 + 1} /\ BitsAt(3, 13) = {13, 13 + 1}
  <2>1. 0 \in Nat /\ 3 \in Nat /\ 6 \in Nat /\ 9 \in Nat /\ 11 \in Nat /\ 13 \in Nat
    OBVIOUS
  <2> HIDE DEF BitsAt
  <2> QED
    BY <1>2, <2>1
<1>4. DOMAIN Pads = {"sdc1_data", "sdc1_cmd", "sdc1_clk", "sdc1_data_pull", "sdc1_cmd_pull", "sdc1_clk_pull"}
  BY DEF Pads
<1> QED
  BY <1>1, <1>3, <1>4

\* The pads lie apart.
LEMMA PadsApart ==
    ASSUME NEW p \in DOMAIN Pads, NEW q \in DOMAIN Pads, p # q
    PROVE  PadMask(p) \cap PadMask(q) = {} /\ PadMask(p) \subseteq 0 .. 31
<1> DEFINE Region(r) == CASE r = "sdc1_data" -> 0 [] r = "sdc1_cmd" -> 1 [] r = "sdc1_clk" -> 2
                          [] r = "sdc1_data_pull" -> 3 [] r = "sdc1_cmd_pull" -> 4 [] OTHER -> 5
           Of(b) == IF b < 3 THEN 0 ELSE IF b < 6 THEN 1 ELSE IF b < 9 THEN 2
                    ELSE IF b < 11 THEN 3 ELSE IF b < 13 THEN 4 ELSE 5
<1>1. ASSUME NEW r \in DOMAIN Pads PROVE \A b \in PadMask(r) : b \in 0 .. 31 /\ Of(b) = Region(r)
  <2>1. CASE r = "sdc1_data"
    BY <2>1, PadMasks
  <2>2. CASE r = "sdc1_cmd"
    BY <2>2, PadMasks
  <2>3. CASE r = "sdc1_clk"
    BY <2>3, PadMasks
  <2>4. CASE r = "sdc1_data_pull"
    BY <2>4, PadMasks
  <2>5. CASE r = "sdc1_cmd_pull"
    BY <2>5, PadMasks
  <2>6. CASE r = "sdc1_clk_pull"
    BY <2>6, PadMasks
  <2> QED
    BY <2>1, <2>2, <2>3, <2>4, <2>5, <2>6, PadMasks
<1>2. Region(p) # Region(q)
  <2>1. /\ Region("sdc1_data") = 0 /\ Region("sdc1_cmd") = 1 /\ Region("sdc1_clk") = 2
        /\ Region("sdc1_data_pull") = 3 /\ Region("sdc1_cmd_pull") = 4 /\ Region("sdc1_clk_pull") = 5
    OBVIOUS
  <2> HIDE DEF Region
  <2> QED
    BY <2>1, PadMasks
<1> HIDE DEF Of, Region
<1> QED
  BY <1>1, <1>2

\* A call that sets pads names each pad once, and gives it a value that fits.
LEMMA PadCallsFit ==
    ASSUME NEW setting \in PadCalls
    PROVE  /\ Len(setting) \in {1, 3} /\ DOMAIN setting = 1 .. Len(setting)
           /\ \A i \in 1 .. Len(setting) :
                 /\ setting[i].pad \in DOMAIN Pads
                 /\ BitsAt(setting[i].val, Pads[setting[i].pad].off) \subseteq PadMask(setting[i].pad)
           /\ \A i, j \in 1 .. Len(setting) : i # j => setting[i].pad # setting[j].pad
<1> DEFINE fits(p, v) == p \in DOMAIN Pads /\ BitsAt(v, Pads[p].off) \subseteq PadMask(p)
<1>1. /\ Pads["sdc1_data"].off = 0 /\ Pads["sdc1_cmd"].off = 3 /\ Pads["sdc1_clk"].off = 6
      /\ Pads["sdc1_data_pull"].off = 9 /\ Pads["sdc1_cmd_pull"].off = 11 /\ Pads["sdc1_clk_pull"].off = 13
  BY DEF Pads
<1>2. /\ BitsAt(4, 0) \subseteq {0, 1, 2} /\ BitsAt(4, 3) \subseteq {3, 4, 5} /\ BitsAt(7, 6) \subseteq {6, 7, 8}
      /\ BitsAt(0, 0) = {} /\ BitsAt(0, 13) = {}
      /\ BitsAt(3, 9) \subseteq {9, 10} /\ BitsAt(3, 11) \subseteq {11, 12}
  <2>1. /\ \A n, low \in Nat : n < 4 => BitsAt(n, low) \subseteq low .. low + 1
        /\ \A n, low \in Nat : n < 8 => BitsAt(n, low) \subseteq low .. low + 2
    BY BitsWithin
  <2>2. \A low \in Nat : BitsAt(0, low) = {}
    BY BitsOfFull
  <2> HIDE DEF BitsAt
  <2>3. BitsAt(4, 0) \subseteq 0 .. 0 + 2 /\ BitsAt(4, 3) \subseteq 3 .. 3 + 2 /\ BitsAt(7, 6) \subseteq 6 .. 6 + 2
    BY <2>1
  <2>4. BitsAt(3, 9) \subseteq 9 .. 9 + 1 /\ BitsAt(3, 11) \subseteq 11 .. 11 + 1
    BY <2>1
  <2>5. BitsAt(0, 0) = {} /\ BitsAt(0, 13) = {}
    BY <2>2
  <2> QED
    BY <2>3, <2>4, <2>5
<1>3. /\ fits("sdc1_clk", 7) /\ fits("sdc1_cmd", 4) /\ fits("sdc1_data", 4) /\ fits("sdc1_data", 0)
      /\ fits("sdc1_clk_pull", 0) /\ fits("sdc1_cmd_pull", 3) /\ fits("sdc1_data_pull", 3)
  <2> HIDE DEF BitsAt, PadMask
  <2> QED
    BY <1>1, <1>2, PadMasks
<1> HIDE DEF fits
<1>4. CASE setting = << Cfg("sdc1_clk", 7), Cfg("sdc1_cmd", 4), Cfg("sdc1_data", 4) >>
  <2>1. /\ Len(setting) = 3 /\ DOMAIN setting = 1 .. 3
        /\ setting[1] = Cfg("sdc1_clk", 7) /\ setting[2] = Cfg("sdc1_cmd", 4) /\ setting[3] = Cfg("sdc1_data", 4)
    BY <1>4
  <2>2. /\ setting[1].pad = "sdc1_clk" /\ setting[1].val = 7 /\ setting[2].pad = "sdc1_cmd" /\ setting[2].val = 4
        /\ setting[3].pad = "sdc1_data" /\ setting[3].val = 4
    BY <2>1 DEF Cfg
  <2>3. \A i \in 1 .. 3 : fits(setting[i].pad, setting[i].val)
    BY <1>3, <2>2
  <2>4. \A i, j \in 1 .. 3 : i # j => setting[i].pad # setting[j].pad
    BY <2>2
  <2> QED
    BY <2>1, <2>3, <2>4 DEF fits
<1>5. CASE setting = << Cfg("sdc1_clk_pull", 0), Cfg("sdc1_cmd_pull", 3), Cfg("sdc1_data_pull", 3) >>
  <2>1. /\ Len(setting) = 3 /\ DOMAIN setting = 1 .. 3
        /\ setting[1] = Cfg("sdc1_clk_pull", 0) /\ setting[2] = Cfg("sdc1_cmd_pull", 3) /\ setting[3] = Cfg("sdc1_data_pull", 3)
    BY <1>5
  <2>2. /\ setting[1].pad = "sdc1_clk_pull" /\ setting[1].val = 0 /\ setting[2].pad = "sdc1_cmd_pull" /\ setting[2].val = 3
        /\ setting[3].pad = "sdc1_data_pull" /\ setting[3].val = 3
    BY <2>1 DEF Cfg
  <2>3. \A i \in 1 .. 3 : fits(setting[i].pad, setting[i].val)
    BY <1>3, <2>2
  <2>4. \A i, j \in 1 .. 3 : i # j => setting[i].pad # setting[j].pad
    BY <2>2
  <2> QED
    BY <2>1, <2>3, <2>4 DEF fits
<1>6. CASE setting = << Cfg("sdc1_data", 0) >>
  <2>1. Len(setting) = 1 /\ DOMAIN setting = 1 .. 1 /\ setting[1] = Cfg("sdc1_data", 0)
    BY <1>6
  <2>2. setting[1].pad = "sdc1_data" /\ setting[1].val = 0
    BY <2>1 DEF Cfg
  <2>3. \A i \in 1 .. 1 : i = 1
    OBVIOUS
  <2>4. \A i \in 1 .. 1 : fits(setting[i].pad, setting[i].val)
    BY <1>3, <2>2, <2>3
  <2> QED
    BY <2>1, <2>3, <2>4 DEF fits
<1> QED
  BY <1>4, <1>5, <1>6 DEF PadCalls

\* What a call can be asked for.
LEMMA AskFields ==
    ASSUME NEW c \in Asks
    PROVE  /\ c.f \in {"direction_input", "get_direction", "direction_output", "set", "set_function",
                       "set_drive_strength", "set_pull", "tlmm_config", "set_pads"}
           /\ c.f \in {"direction_output", "set"} => c.value \in {0, 1}
           /\ c.f = "set_function" => c.function \in {0, 1, 2, 8, 11}
           /\ c.f = "set_drive_strength" => c.ma \in {0, 2, 3, 10, 16, 18}
           /\ c.f = "set_pull" => c.pull \in {0, 1, 3, 4}
           /\ c.f = "tlmm_config" => c.func \in {0, 3} /\ c.pull \in {0, 3} /\ c.drvstr \in {0, 7} /\ c.enable \in {0, 1}
           /\ c.f = "set_pads" => c.cfg \in PadCalls
<1>1. CASE c \in [f : {"direction_input", "get_direction"}]
  BY <1>1
<1>2. CASE c \in [f : {"direction_output", "set"}, value : {0, 1}]
  BY <1>2
<1>3. CASE c \in [f : {"set_function"}, function : {0, 1, 2, 8, 11}]
  BY <1>3
<1>4. CASE c \in [f : {"set_drive_strength"}, ma : {0, 2, 3, 10, 16, 18}]
  BY <1>4
<1>5. CASE c \in [f : {"set_pull"}, pull : {0, 1, 3, 4}]
  BY <1>5
<1>6. CASE c \in [f : {"tlmm_config"}, func : {0, 3}, dir : {0, 1}, pull : {0, 3}, drvstr : {0, 7}, enable : {0, 1}]
  BY <1>6
<1>7. CASE c \in [f : {"set_pads"}, cfg : PadCalls]
  BY <1>7
<1> QED
  BY <1>1, <1>2, <1>3, <1>4, <1>5, <1>6, <1>7 DEF Asks

\* A call that writes nothing.
Unwritten(c) == Impossible(c) \/ c.f = "get_direction"

LEMMA WritesAre ==
    ASSUME NEW c \in Asks
    PROVE  /\ Unwritten(c) => Writes(c) = 0
           /\ c.f = "direction_output" => Writes(c) = 2 /\ ~Unwritten(c)
           /\ c.f = "set_pads" => Writes(c) = Len(c.cfg) /\ ~Unwritten(c)
           /\ ~Unwritten(c) /\ c.f \notin {"direction_output", "set_pads"} => Writes(c) = 1
           /\ Writes(c) \in 0 .. 3 /\ (Writes(c) = 0 => Unwritten(c))
<1>1. Unwritten(c) => Writes(c) = 0
  <2>1. Unwritten(c) => c.f \in {"set_drive_strength", "set_pull", "get_direction"}
    BY DEF Unwritten, Impossible
  <2>2. ASSUME Impossible(c) \/ c.f = "get_direction" PROVE Writes(c) = 0
    <3>1. c.f \notin {"direction_output", "set_pads"}
      BY <2>1, <2>2 DEF Unwritten
    <3> QED
      BY <2>2, <3>1 DEF Writes
  <2> QED
    BY <2>2 DEF Unwritten
<1>2. c.f \in {"direction_output", "set_pads"} => ~Unwritten(c)
  BY DEF Unwritten, Impossible
<1>3. /\ c.f = "direction_output" => Writes(c) = 2
      /\ c.f = "set_pads" => Writes(c) = Len(c.cfg)
      /\ ~Unwritten(c) /\ c.f \notin {"direction_output", "set_pads"} => Writes(c) = 1
  BY <1>2 DEF Writes, Unwritten
<1>4. c.f = "set_pads" => Len(c.cfg) \in {1, 3}
  BY AskFields, PadCallsFit
<1>5. /\ Unwritten(c) => Writes(c) \in 0 .. 3
      /\ ~Unwritten(c) => Writes(c) \in 1 .. 3
  <2>1. CASE c.f = "direction_output"
    BY <1>2, <1>3, <2>1
  <2>2. CASE c.f = "set_pads"
    <3>1. PICK n \in {1, 3} : n = Len(c.cfg)
      BY <1>4, <2>2
    <3>2. Writes(c) = n /\ ~Unwritten(c)
      BY <1>2, <1>3, <2>2, <3>1
    <3> HIDE DEF Writes, Unwritten
    <3> QED
      BY <3>2
  <2>3. CASE c.f \notin {"direction_output", "set_pads"}
    BY <1>1, <1>3, <2>3
  <2> QED
    BY <2>1, <2>2, <2>3
<1>6. Writes(c) \in 0 .. 3 /\ (Writes(c) = 0 => Unwritten(c))
  BY <1>5
<1> QED
  BY <1>1, <1>2, <1>3, <1>6

\* A register with some of its bits replaced.
LEMMA Replacing ==
    ASSUME NEW reg, NEW mask, NEW value, value \subseteq mask
    PROVE  /\ Replaced(reg, mask, value) \cap mask = value
           /\ Replaced(reg, mask, value) \ mask = reg \ mask
           /\ \A other : other \cap mask = {} => Replaced(reg, mask, value) \cap other = reg \cap other
           /\ \A all : reg \subseteq all /\ mask \subseteq all => Replaced(reg, mask, value) \subseteq all
BY DEF Replaced

\* The first n pads of the call in progress are set, the others as they were.
PadsSet(n) ==
    /\ \A i \in 1 .. n : sdc \cap PadMask(pinCall.cfg[i].pad) = BitsAt(pinCall.cfg[i].val, Pads[pinCall.cfg[i].pad].off)
    /\ \A p \in DOMAIN Pads : (\A i \in 1 .. n : pinCall.cfg[i].pad # p) =>
          sdc \cap PadMask(p) = pinWas.sdc \cap PadMask(p)

PinAsked == IF pinCall.f = "none" THEN pinStep = 0 ELSE pinCall \in Asks

\* Where a call stands between its writes.
PinMoving ==
    pinStep # 0 =>
       /\ ~Unwritten(pinCall) /\ pinStep \in 1 .. Writes(pinCall) /\ ctl = pinWas.ctl
       /\ pinCall.f = "set_pads" => PadsSet(pinStep - 1)
       /\ pinCall.f = "set_pads" \/ pinStep = 1 => out = pinWas.out
       /\ pinCall.f # "set_pads" => sdc = pinWas.sdc
       /\ pinCall.f = "direction_output" /\ pinStep = 2 => out = pinCall.value

\* What a call that is over has left, register by register.
PinDone ==
    pinStep = 0 =>
       /\ pinCall.f = "none" \/ Unwritten(pinCall) => ctl = pinWas.ctl /\ out = pinWas.out /\ sdc = pinWas.sdc
       /\ pinCall.f = "set_pads" => PadsSet(Len(pinCall.cfg))
       /\ pinCall.f = "tlmm_config" =>
             /\ ctl \cap {2, 3, 4, 5} = BitsAt(pinCall.func, 2) /\ ctl \cap {6, 7, 8} = BitsAt(pinCall.drvstr, 6)
             /\ ctl \cap {0, 1} = BitsAt(pinCall.pull, 0) /\ ctl \cap {9} = BitsAt(pinCall.enable, 9)
       /\ pinCall.f = "set" => out = pinCall.value /\ ctl = pinWas.ctl
       /\ pinCall.f = "set_function" =>
             ctl \ {2, 3, 4, 5} = pinWas.ctl \ {2, 3, 4, 5} /\ ctl \cap {2, 3, 4, 5} = BitsAt(pinCall.function, 2)
       /\ pinCall.f = "set_drive_strength" /\ ~Unwritten(pinCall) =>
             ctl \ {6, 7, 8} = pinWas.ctl \ {6, 7, 8} /\ ctl \cap {6, 7, 8} = BitsAt((pinCall.ma - 2) \div 2, 6)
       /\ pinCall.f = "set_pull" /\ ~Unwritten(pinCall) =>
             ctl \ {0, 1} = pinWas.ctl \ {0, 1} /\ ctl \cap {0, 1} = BitsAt(pinCall.pull, 0)
       /\ pinCall.f = "direction_input" => ctl \ {9} = pinWas.ctl \ {9} /\ ctl \cap {9} = BitsAt(0, 9)
       /\ pinCall.f = "direction_output" =>
             ctl \ {9} = pinWas.ctl \ {9} /\ ctl \cap {9} = BitsAt(1, 9) /\ out = pinCall.value

\* A pin's registers change only as the call that is under way says.
PinInv == PinOk /\ PinAsked /\ PinMoving /\ PinDone
LEMMA PinInvBegins == PinInit => PinInv
<1> SUFFICES ASSUME PinInit PROVE PinInv
  OBVIOUS
<1>1. /\ ctl \in PinResets /\ out \in {0, 1} /\ sdc = {0, 4, 8, 10, 14, 20}
      /\ pinCall = [f |-> "none"] /\ pinStep = 0
      /\ pinWas = [ctl |-> ctl, out |-> out, sdc |-> sdc]
  BY DEF PinInit
<1>2. PinOk
  <2>1. ctl \subseteq 0 .. 9
    BY <1>1, PinsAssumption
  <2>2. sdc \subseteq 0 .. 31
    BY <1>1
  <2> QED
    BY <1>1, <2>1, <2>2 DEF PinOk
<1>3. pinCall.f = "none" /\ pinWas.ctl = ctl /\ pinWas.out = out /\ pinWas.sdc = sdc
  BY <1>1
<1>4. PinAsked /\ PinMoving
  BY <1>1, <1>3 DEF PinAsked, PinMoving
<1>5. PinDone
  BY <1>3 DEF PinDone
<1> QED
  BY <1>2, <1>4, <1>5 DEF PinInv

LEMMA PinBeginsCall ==
    ASSUME PinInv, PinCall
    PROVE  PinInv'
<1>1. PICK c \in Asks : /\ pinCall' = c /\ pinStep' = IF Writes(c) = 0 THEN 0 ELSE 1
                        /\ pinWas' = [ctl |-> ctl, out |-> out, sdc |-> sdc]
                        /\ ctl' = ctl /\ out' = out /\ sdc' = sdc
  BY DEF PinCall
<1>2. pinWas'.ctl = ctl' /\ pinWas'.out = out' /\ pinWas'.sdc = sdc'
  BY <1>1
<1>3. /\ Writes(c) = 0 => Unwritten(c)
      /\ Unwritten(c) => Writes(c) = 0
      /\ Writes(c) \in 0 .. 3
      /\ c.f \in {"direction_output", "set_pads"} => ~Unwritten(c)
      /\ ~Unwritten(c) /\ c.f \notin {"direction_output", "set_pads"} => Writes(c) = 1
      /\ c.f # "none"
  BY WritesAre, AskFields
<1>4. PinOk'
  BY <1>1 DEF PinInv, PinOk
<1>5. PinAsked'
  BY <1>1, <1>3 DEF PinAsked
<1>6. PinMoving'
  <2> SUFFICES ASSUME pinStep' # 0 PROVE PinMoving'
    BY DEF PinMoving
  <2>1. pinStep' = 1 /\ Writes(c) # 0 /\ ~Unwritten(c)
    BY <1>1, <1>3
  <2>2. 1 \in 1 .. Writes(c) /\ 1 - 1 = 0
    BY <1>3, <2>1
  <2>3. PadsSet(0)'
    <3>1. \A i : i \notin 1 .. 0
      OBVIOUS
    <3> QED
      BY <1>2, <3>1 DEF PadsSet
  <2>4. (~Unwritten(pinCall))' /\ (Writes(pinCall) = Writes(c))'
    BY <1>1, <2>1
  <2>5. PadsSet(pinStep - 1)'
    BY <2>1, <2>2, <2>3
  <2> QED
    BY <1>1, <1>2, <2>1, <2>2, <2>4, <2>5 DEF PinMoving
<1>7. PinDone'
  <2> SUFFICES ASSUME pinStep' = 0 PROVE PinDone'
    BY DEF PinDone
  <2>1. Unwritten(c) /\ c.f \notin {"direction_output", "set_pads", "none"}
    BY <1>1, <1>3
  <2>2. c.f \in {"get_direction", "set_drive_strength", "set_pull"}
    BY <2>1 DEF Unwritten, Impossible
  <2>3. Unwritten(pinCall)' /\ (pinCall.f \in {"get_direction", "set_drive_strength", "set_pull"})'
    BY <1>1, <2>1, <2>2
  <2> HIDE DEF Unwritten
  <2> QED
    BY <1>2, <2>3 DEF PinDone
<1> QED
  BY <1>4, <1>5, <1>6, <1>7 DEF PinInv

\* A write that sets the level.
LEMMA PinLevels ==
    ASSUME PinInv, PinWrite, pinCall.f # "set_pads", Level(pinCall, pinStep)
    PROVE  PinInv'
<1>1. /\ pinStep # 0 /\ pinStep' = IF pinStep = Writes(pinCall) THEN 0 ELSE pinStep + 1
      /\ out' = pinCall.value /\ ctl' = ctl /\ sdc' = sdc /\ pinCall' = pinCall /\ pinWas' = pinWas
  BY DEF PinWrite
<1>2. /\ ~Unwritten(pinCall) /\ pinStep \in 1 .. Writes(pinCall)
      /\ ctl = pinWas.ctl /\ sdc = pinWas.sdc /\ PinOk /\ pinCall \in Asks
  BY <1>1 DEF PinInv, PinMoving, PinAsked
<1>3. \/ pinCall.f = "set"
      \/ pinCall.f = "direction_output" /\ pinStep = 1
  BY DEF Level
<1>4. pinCall.value \in {0, 1}
  BY <1>2, <1>3, AskFields
<1>5. /\ pinCall.f = "set" => Writes(pinCall) = 1
      /\ pinCall.f = "direction_output" => Writes(pinCall) = 2
  <2> HIDE DEF Unwritten, Writes
  <2> QED
    BY <1>2, WritesAre
<1>6. /\ pinCall.f = "set" => pinStep' = 0
      /\ pinCall.f = "direction_output" => pinStep' = 2
  BY <1>1, <1>2, <1>3, <1>5
<1>7. PinOk'
  BY <1>1, <1>2, <1>3, <1>4, <1>6 DEF PinOk
<1>8. PinAsked'
  BY <1>1, <1>2, AskFields DEF PinAsked
<1>9. PinMoving'
  <2>1. Unwritten(pinCall)' = Unwritten(pinCall) /\ Writes(pinCall)' = Writes(pinCall)
    BY <1>1
  <2> HIDE DEF Unwritten, Writes
  <2>2. pinStep' # 0 => pinCall'.f = "direction_output" /\ pinStep' = 2 /\ Writes(pinCall)' = 2
    BY <1>1, <1>3, <1>5, <1>6, <2>1
  <2> QED
    BY <1>1, <1>2, <2>1, <2>2 DEF PinMoving
<1>10. PinDone'
  <2>1. pinStep' = 0 => pinCall'.f = "set"
    BY <1>1, <1>3, <1>6
  <2>2. Unwritten(pinCall)' = Unwritten(pinCall)
    BY <1>1
  <2> HIDE DEF Unwritten
  <2> QED
    BY <1>1, <1>2, <2>1, <2>2 DEF PinDone
<1> QED
  BY <1>7, <1>8, <1>9, <1>10 DEF PinInv

\* A write that changes the control register is the last of its call.
LEMMA PinConfigures ==
    ASSUME PinInv, PinWrite, pinCall.f # "set_pads", ~Level(pinCall, pinStep)
    PROVE  PinInv'
<1>1. /\ pinStep # 0 /\ pinStep' = IF pinStep = Writes(pinCall) THEN 0 ELSE pinStep + 1
      /\ ctl' = NewCtl(pinCall) /\ out' = out /\ sdc' = sdc /\ pinCall' = pinCall /\ pinWas' = pinWas
  BY DEF PinWrite
<1>2. /\ ~Unwritten(pinCall) /\ pinStep \in 1 .. Writes(pinCall)
      /\ ctl = pinWas.ctl /\ sdc = pinWas.sdc /\ PinOk /\ pinCall \in Asks
      /\ pinCall.f = "direction_output" /\ pinStep = 2 => out = pinCall.value
  BY <1>1 DEF PinInv, PinMoving, PinAsked
<1>3. pinCall.f # "set" /\ (pinCall.f = "direction_output" => pinStep # 1)
  BY DEF Level
<1>4. /\ pinCall.f = "direction_output" => Writes(pinCall) = 2
      /\ pinCall.f # "direction_output" => Writes(pinCall) = 1
  <2> HIDE DEF Unwritten, Writes
  <2> QED
    BY <1>2, WritesAre
<1>5. pinStep' = 0 /\ (pinCall.f = "direction_output" => pinStep = 2)
  BY <1>1, <1>2, <1>3, <1>4
<1>6. pinCall.f \in {"direction_input", "direction_output", "set_function", "set_drive_strength", "set_pull", "tlmm_config"}
  BY <1>2, <1>3, AskFields DEF Unwritten
<1>7. ctl \subseteq 0 .. 9 /\ out \in {0, 1} /\ sdc \subseteq 0 .. 31
  BY <1>2 DEF PinOk
<1> DEFINE Left == /\ ctl' \subseteq 0 .. 9
                   /\ pinCall.f = "tlmm_config" =>
                         /\ ctl' \cap {2, 3, 4, 5} = BitsAt(pinCall.func, 2) /\ ctl' \cap {6, 7, 8} = BitsAt(pinCall.drvstr, 6)
                         /\ ctl' \cap {0, 1} = BitsAt(pinCall.pull, 0) /\ ctl' \cap {9} = BitsAt(pinCall.enable, 9)
                   /\ pinCall.f = "set_function" =>
                         /\ ctl' \ {2, 3, 4, 5} = ctl \ {2, 3, 4, 5}
                         /\ ctl' \cap {2, 3, 4, 5} = BitsAt(pinCall.function, 2)
                   /\ pinCall.f = "set_drive_strength" =>
                         /\ ctl' \ {6, 7, 8} = ctl \ {6, 7, 8}
                         /\ ctl' \cap {6, 7, 8} = BitsAt((pinCall.ma - 2) \div 2, 6)
                   /\ pinCall.f = "set_pull" =>
                         ctl' \ {0, 1} = ctl \ {0, 1} /\ ctl' \cap {0, 1} = BitsAt(pinCall.pull, 0)
                   /\ pinCall.f = "direction_input" => ctl' \ {9} = ctl \ {9} /\ ctl' \cap {9} = BitsAt(0, 9)
                   /\ pinCall.f = "direction_output" => ctl' \ {9} = ctl \ {9} /\ ctl' \cap {9} = BitsAt(1, 9)
<1>8. Left
  <2>1. ASSUME NEW mask, NEW value, value \subseteq mask, mask \subseteq 0 .. 9, ctl' = Replaced(ctl, mask, value)
        PROVE  ctl' \subseteq 0 .. 9 /\ ctl' \ mask = ctl \ mask /\ ctl' \cap mask = value
    <3>1. /\ Replaced(ctl, mask, value) \cap mask = value
          /\ Replaced(ctl, mask, value) \ mask = ctl \ mask
          /\ \A all : ctl \subseteq all /\ mask \subseteq all => Replaced(ctl, mask, value) \subseteq all
      BY ONLY <2>1 DEF Replaced
    <3> HIDE DEF Replaced
    <3> QED
      BY <1>7, <2>1, <3>1
  <2>2. {9} \subseteq 0 .. 9 /\ {0, 1} \subseteq 0 .. 9 /\ {2, 3, 4, 5} \subseteq 0 .. 9 /\ {6, 7, 8} \subseteq 0 .. 9
    OBVIOUS
  <2>3. /\ FieldBits.pull = {0, 1} /\ FieldBits.mux = {2, 3, 4, 5} /\ FieldBits.drv = {6, 7, 8} /\ FieldBits.oe = {9}
        /\ BitsAt(0, 9) = {} /\ BitsAt(1, 9) = {9}
    BY FieldsAre, BitsOfFull
  <2>4. /\ \A n, low \in Nat : n < 2 => BitsAt(n, low) \subseteq {low}
        /\ \A n, low \in Nat : n < 4 => BitsAt(n, low) \subseteq low .. low + 1
        /\ \A n, low \in Nat : n < 8 => BitsAt(n, low) \subseteq low .. low + 2
        /\ \A n, low \in Nat : n < 16 => BitsAt(n, low) \subseteq low .. low + 3
    BY BitsWithin
  <2>5. /\ \A n \in 0 .. 1 : BitsAt(n, 9) \subseteq {9}
        /\ \A n \in 0 .. 3 : BitsAt(n, 0) \subseteq {0, 1} /\ BitsAt(n, 2) \subseteq {2, 3, 4, 5}
        /\ \A n \in 0 .. 7 : BitsAt(n, 6) \subseteq {6, 7, 8}
        /\ \A n \in 0 .. 11 : BitsAt(n, 2) \subseteq {2, 3, 4, 5}
    <3> HIDE DEF BitsAt
    <3>1. \A n \in 0 .. 1 : BitsAt(n, 9) \subseteq {9}
      BY <2>4
    <3>2. \A n \in 0 .. 3 : BitsAt(n, 0) \subseteq 0 .. 0 + 1
      BY <2>4
    <3>3. \A n \in 0 .. 7 : BitsAt(n, 6) \subseteq 6 .. 6 + 2
      BY <2>4
    <3>4. \A n \in 0 .. 11 : BitsAt(n, 2) \subseteq 2 .. 2 + 3
      BY <2>4
    <3>5. 0 .. 0 + 1 = {0, 1} /\ 6 .. 6 + 2 = {6, 7, 8} /\ 2 .. 2 + 3 = {2, 3, 4, 5} /\ 0 .. 3 \subseteq 0 .. 11
      OBVIOUS
    <3> QED
      BY <3>1, <3>2, <3>3, <3>4, <3>5
  <2> HIDE DEF BitsAt, FieldBits, Replaced
  <2>6. CASE pinCall.f = "direction_input"
    <3>1. ctl' = Replaced(ctl, {9}, {}) /\ {} \subseteq {9}
      BY <1>1, <2>3, <2>6 DEF NewCtl
    <3> QED
      BY <2>1, <2>2, <2>3, <2>6, <3>1
  <2>7. CASE pinCall.f = "direction_output"
    <3>1. ctl' = Replaced(ctl, {9}, {9}) /\ {9} \subseteq {9}
      BY <1>1, <2>3, <2>7 DEF NewCtl
    <3> QED
      BY <2>1, <2>2, <2>3, <2>7, <3>1
  <2>8. CASE pinCall.f = "set_function"
    <3>1. pinCall.function \in 0 .. 11
      BY <1>2, <2>8, AskFields
    <3>2. BitsAt(pinCall.function, 2) \subseteq {2, 3, 4, 5}
      BY <2>5, <3>1
    <3>3. ctl' = Replaced(ctl, {2, 3, 4, 5}, BitsAt(pinCall.function, 2))
      BY <1>1, <2>3, <2>8 DEF NewCtl, MuxBit
    <3> QED
      BY <2>1, <2>2, <2>8, <3>2, <3>3
  <2>9. CASE pinCall.f = "set_drive_strength"
    <3>1. pinCall.ma \in {2, 10, 16}
      <4>1. pinCall.ma \in {0, 2, 3, 10, 16, 18}
        BY <1>2, <2>9, AskFields
      <4>2. ~(pinCall.ma > 16 \/ pinCall.ma < 2 \/ pinCall.ma % 2 # 0)
        BY <1>2, <2>9 DEF Unwritten, Impossible
      <4>3. 3 % 2 # 0
        BY SMT
      <4> QED
        BY <4>1, <4>2, <4>3
    <3> DEFINE half == (pinCall.ma - 2) \div 2
    <3>2. half \in 0 .. 7 /\ (pinCall.ma \div 2) - 1 = half
      BY <3>1, Z3
    <3> HIDE DEF half
    <3>3. BitsAt(half, 6) \subseteq {6, 7, 8}
      BY <2>5, <3>2
    <3>4. ctl' = Replaced(ctl, {6, 7, 8}, BitsAt((pinCall.ma \div 2) - 1, 6))
      BY <1>1, <2>3, <2>9 DEF NewCtl, DrvBit
    <3>5. ctl' = Replaced(ctl, {6, 7, 8}, BitsAt(half, 6))
      BY <3>2, <3>4
    <3>6. ctl' \subseteq 0 .. 9 /\ ctl' \ {6, 7, 8} = ctl \ {6, 7, 8} /\ ctl' \cap {6, 7, 8} = BitsAt(half, 6)
      BY <2>1, <2>2, <3>3, <3>5
    <3> QED
      BY <2>9, <3>6 DEF half
  <2>10. CASE pinCall.f = "set_pull"
    <3>1. pinCall.pull \in 0 .. 3
      BY <1>2, <2>10, AskFields DEF Unwritten, Impossible
    <3>2. BitsAt(pinCall.pull, 0) \subseteq {0, 1}
      BY <2>5, <3>1
    <3>3. ctl' = Replaced(ctl, {0, 1}, BitsAt(pinCall.pull, 0))
      BY <1>1, <2>3, <2>10 DEF NewCtl, PullBit
    <3> QED
      BY <2>1, <2>2, <2>10, <3>2, <3>3
  <2>11. CASE pinCall.f = "tlmm_config"
    <3>1. /\ pinCall.func \in 0 .. 3 /\ pinCall.pull \in 0 .. 3 /\ pinCall.drvstr \in 0 .. 7 /\ pinCall.enable \in 0 .. 1
      BY <1>2, <2>11, AskFields
    <3>2. PICK a, b, c, d : /\ a = BitsAt(pinCall.pull, 0) /\ b = BitsAt(pinCall.func, 2)
                            /\ c = BitsAt(pinCall.drvstr, 6) /\ d = BitsAt(pinCall.enable, 9)
      OBVIOUS
    <3>3. a \subseteq {0, 1} /\ b \subseteq {2, 3, 4, 5} /\ c \subseteq {6, 7, 8} /\ d \subseteq {9}
      BY <2>5, <3>1, <3>2
    <3>4. ctl' = a \cup b \cup c \cup d
      BY <1>1, <2>11, <3>2 DEF NewCtl
    <3>5. /\ ctl' \cap {0, 1} = a /\ ctl' \cap {2, 3, 4, 5} = b /\ ctl' \cap {6, 7, 8} = c /\ ctl' \cap {9} = d
          /\ ctl' \subseteq 0 .. 9
      <4>1. /\ \A x \in a : x = 0 \/ x = 1
            /\ \A x \in b : x = 2 \/ x = 3 \/ x = 4 \/ x = 5
            /\ \A x \in c : x = 6 \/ x = 7 \/ x = 8
            /\ \A x \in d : x = 9
        BY <3>3
      <4>2. \A x : x \in ctl' <=> x \in a \/ x \in b \/ x \in c \/ x \in d
        BY <3>4
      <4>3. ctl' \cap {0, 1} = a /\ ctl' \cap {2, 3, 4, 5} = b
        <5>1. \A x : x \in ctl' \cap {0, 1} <=> x \in a
          BY <4>1, <4>2
        <5>2. \A x : x \in ctl' \cap {2, 3, 4, 5} <=> x \in b
          BY <4>1, <4>2
        <5> QED
          BY <5>1, <5>2
      <4>4. ctl' \cap {6, 7, 8} = c /\ ctl' \cap {9} = d
        <5>1. \A x : x \in ctl' \cap {6, 7, 8} <=> x \in c
          BY <4>1, <4>2
        <5>2. \A x : x \in ctl' \cap {9} <=> x \in d
          BY <4>1, <4>2
        <5> QED
          BY <5>1, <5>2
      <4>5. ctl' \subseteq 0 .. 9
        BY <2>2, <3>3, <3>4
      <4> QED
        BY <4>3, <4>4, <4>5
    <3> QED
      BY <2>11, <3>2, <3>5
  <2> QED
    BY <1>6, <2>6, <2>7, <2>8, <2>9, <2>10, <2>11
<1>9. PinOk'
  BY <1>1, <1>5, <1>7, <1>8 DEF PinOk
<1>10. PinAsked'
  BY <1>1, <1>2, AskFields DEF PinAsked
<1>11. PinMoving'
  BY <1>5 DEF PinMoving
<1>12. PinDone'
  <2>1. ~Unwritten(pinCall)' /\ pinCall'.f \notin {"none", "set_pads", "set"}
    BY <1>1, <1>2, <1>6
  <2>2. pinCall.f = "direction_output" => out' = pinCall.value
    BY <1>1, <1>2, <1>5
  <2> HIDE DEF Unwritten
  <2> QED
    BY <1>1, <1>2, <1>8, <2>1, <2>2 DEF PinDone
<1> QED
  BY <1>9, <1>10, <1>11, <1>12 DEF PinInv

\* A write that sets a pad disturbs none set before and none left alone.
LEMMA PinPads ==
    ASSUME PinInv, PinWrite, pinCall.f = "set_pads"
    PROVE  PinInv'
<1>1. /\ pinStep # 0 /\ pinStep' = IF pinStep = Writes(pinCall) THEN 0 ELSE pinStep + 1
      /\ ctl' = ctl /\ out' = out /\ pinCall' = pinCall /\ pinWas' = pinWas
      /\ sdc' = Replaced(sdc, PadMask(pinCall.cfg[pinStep].pad),
                         BitsAt(pinCall.cfg[pinStep].val, Pads[pinCall.cfg[pinStep].pad].off))
  <2>1. /\ pinStep # 0 /\ pinStep' = IF pinStep = Writes(pinCall) THEN 0 ELSE pinStep + 1
        /\ pinCall' = pinCall /\ pinWas' = pinWas
    BY DEF PinWrite
  <2>2. LET c == pinCall.cfg[pinStep]
            pad == Pads[c.pad]
        IN /\ sdc' = Replaced(sdc, BitsAt(pad.mask, pad.off), BitsAt(c.val, pad.off))
           /\ ctl' = ctl /\ out' = out
    <3>1. ~Level(pinCall, pinStep)
      BY DEF Level
    <3> HIDE DEF Level, Pads, BitsAt, Replaced
    <3> QED
      BY <3>1 DEF PinWrite
  <2> QED
    BY <2>1, <2>2 DEF PadMask
<1>2. /\ ~Unwritten(pinCall) /\ pinStep \in 1 .. Writes(pinCall) /\ ctl = pinWas.ctl /\ out = pinWas.out
      /\ PinOk /\ pinCall \in Asks /\ PadsSet(pinStep - 1)
  BY <1>1 DEF PinInv, PinMoving, PinAsked
<1>3. PICK setting \in PadCalls : pinCall.cfg = setting
  BY <1>2, AskFields
<1>4. PICK n \in 1 .. Len(setting) : n = pinStep
  BY <1>2, <1>3, WritesAre
<1>5. /\ Len(setting) \in {1, 3} /\ Writes(pinCall) = Len(setting)
      /\ \A i \in 1 .. Len(setting) :
            /\ setting[i].pad \in DOMAIN Pads
            /\ BitsAt(setting[i].val, Pads[setting[i].pad].off) \subseteq PadMask(setting[i].pad)
      /\ \A i, j \in 1 .. Len(setting) : i # j => setting[i].pad # setting[j].pad
  BY <1>2, <1>3, PadCallsFit, WritesAre
<1> DEFINE pad(i) == setting[i].pad
           given(i) == BitsAt(setting[i].val, Pads[setting[i].pad].off)
           mask(p) == PadMask(p)
<1>6. sdc' = Replaced(sdc, mask(pad(n)), given(n)) /\ given(n) \subseteq mask(pad(n)) /\ pad(n) \in DOMAIN Pads
  BY <1>1, <1>3, <1>4, <1>5
<1>7. /\ \A i \in 1 .. n - 1 : sdc \cap mask(pad(i)) = given(i)
      /\ \A p \in DOMAIN Pads : (\A i \in 1 .. n - 1 : pad(i) # p) => sdc \cap mask(p) = pinWas.sdc \cap mask(p)
  BY <1>2, <1>3, <1>4 DEF PadsSet
<1>8. /\ \A i \in 1 .. Len(setting) : pad(i) \in DOMAIN Pads
      /\ \A i, j \in 1 .. Len(setting) : i # j => pad(i) # pad(j)
  BY <1>5
<1>9. \A p, q \in DOMAIN Pads : p # q => mask(p) \cap mask(q) = {}
  BY PadsApart
<1>10. mask(pad(n)) \subseteq 0 .. 31
  <2>1. "sdc1_data" \in DOMAIN Pads /\ "sdc1_cmd" \in DOMAIN Pads /\ "sdc1_data" # "sdc1_cmd"
    BY PadMasks
  <2>2. \A p, q \in DOMAIN Pads : p # q => mask(p) \subseteq 0 .. 31
    BY PadsApart
  <2> QED
    BY <1>6, <2>1, <2>2
<1> HIDE DEF pad, given, mask
<1>11. /\ sdc' \cap mask(pad(n)) = given(n)
       /\ \A other : other \cap mask(pad(n)) = {} => sdc' \cap other = sdc \cap other
       /\ sdc \subseteq 0 .. 31 => sdc' \subseteq 0 .. 31
  <2>1. PICK m, v : m = mask(pad(n)) /\ v = given(n)
    OBVIOUS
  <2>2. v \subseteq m /\ sdc' = Replaced(sdc, m, v) /\ m \subseteq 0 .. 31
    BY <1>6, <1>10, <2>1
  <2>3. /\ Replaced(sdc, m, v) \cap m = v
        /\ Replaced(sdc, m, v) \ m = sdc \ m
        /\ \A other : other \cap m = {} => Replaced(sdc, m, v) \cap other = sdc \cap other
        /\ \A all : sdc \subseteq all /\ m \subseteq all => Replaced(sdc, m, v) \subseteq all
    BY ONLY <2>2, Replacing
  <2>4. sdc \subseteq 0 .. 31 => sdc' \subseteq 0 .. 31
    BY <2>2, <2>3
  <2> QED
    BY <2>1, <2>2, <2>3, <2>4
<1>12. \A p \in DOMAIN Pads : p # pad(n) => sdc' \cap mask(p) = sdc \cap mask(p)
  BY <1>6, <1>9, <1>11
<1>13. ASSUME NEW i \in 1 .. n PROVE sdc' \cap mask(pad(i)) = given(i)
  <2>1. CASE i = n
    BY <1>11, <2>1
  <2>2. CASE i # n
    <3>1. i \in 1 .. n - 1 /\ i \in 1 .. Len(setting)
      BY <1>4, <2>2
    <3>2. pad(i) \in DOMAIN Pads /\ pad(i) # pad(n)
      BY <1>4, <1>8, <2>2, <3>1
    <3> QED
      BY <1>7, <1>12, <3>1, <3>2
  <2> QED
    BY <2>1, <2>2
<1>14. ASSUME NEW p \in DOMAIN Pads, \A i \in 1 .. n : pad(i) # p
       PROVE  sdc' \cap mask(p) = pinWas.sdc \cap mask(p)
  <2>1. pad(n) # p /\ \A i \in 1 .. n - 1 : pad(i) # p
    BY <1>14
  <2> QED
    BY <1>7, <1>12, <2>1
<1>15. PadsSet(n)'
  BY <1>1, <1>3, <1>13, <1>14 DEF PadsSet, pad, given, mask
<1>16. pinStep' = (IF n = Len(setting) THEN 0 ELSE n + 1) /\ n + 1 - 1 = n /\ n \in 1 .. 3
  BY <1>1, <1>4, <1>5
<1>17. PinOk'
  BY <1>1, <1>2, <1>5, <1>11, <1>16 DEF PinOk
<1>18. PinAsked'
  BY <1>1, <1>2 DEF PinAsked
<1>19. Unwritten(pinCall)' = Unwritten(pinCall) /\ Writes(pinCall)' = Len(setting)
  BY <1>1, <1>5
<1> HIDE DEF Unwritten, Writes, PadsSet
<1>20. PinMoving'
  <2> SUFFICES ASSUME pinStep' # 0 PROVE PinMoving'
    BY DEF PinMoving
  <2>1. pinStep' = n + 1 /\ n + 1 \in 1 .. Len(setting) /\ n + 1 # 1
    BY <1>4, <1>5, <1>16
  <2>2. PadsSet(pinStep - 1)'
    BY <1>15, <1>16, <2>1
  <2> QED
    BY <1>1, <1>2, <1>19, <2>1, <2>2 DEF PinMoving
<1>21. PinDone'
  <2> SUFFICES ASSUME pinStep' = 0 PROVE PinDone'
    BY DEF PinDone
  <2>1. n = Len(setting)
    BY <1>5, <1>16
  <2>2. PadsSet(Len(pinCall.cfg))'
    BY <1>1, <1>3, <1>15, <2>1
  <2>3. pinCall'.f = "set_pads" /\ ~Unwritten(pinCall)'
    BY <1>1, <1>2, <1>19
  <2> QED
    BY <2>2, <2>3 DEF PinDone
<1> QED
  BY <1>17, <1>18, <1>20, <1>21 DEF PinInv

LEMMA PinInvKept == PinInv /\ [PinNext]_pinVars => PinInv'
<1> SUFFICES ASSUME PinInv, [PinNext]_pinVars PROVE PinInv'
  OBVIOUS
<1>1. CASE PinCall
  BY <1>1, PinBeginsCall
<1>2. CASE PinWrite
  BY <1>2, PinLevels, PinConfigures, PinPads
<1>3. CASE UNCHANGED pinVars
  <2>1. /\ ctl' = ctl /\ out' = out /\ sdc' = sdc /\ pinCall' = pinCall
        /\ pinStep' = pinStep /\ pinWas' = pinWas
    BY <1>3 DEF pinVars
  <2>2. PinOk' /\ PinAsked'
    BY <2>1 DEF PinInv, PinOk, PinAsked
  <2>3. PadsSet(pinStep - 1)' <=> PadsSet(pinStep - 1)
    BY <2>1 DEF PadsSet
  <2>4. PadsSet(Len(pinCall.cfg))' <=> PadsSet(Len(pinCall.cfg))
    BY <2>1 DEF PadsSet
  <2>5. PinMoving'
    BY <2>1, <2>3 DEF PinInv, PinMoving
  <2>6. PinDone'
    BY <2>1, <2>4 DEF PinInv, PinDone
  <2> QED
    BY <2>2, <2>5, <2>6 DEF PinInv
<1> QED
  BY <1>1, <1>2, <1>3 DEF PinNext

LEMMA PinIsOk == PinInv => GpioPinsOk
<1> SUFFICES ASSUME PinInv PROVE GpioPinsOk
  OBVIOUS
<1>1. PinOk /\ PinAsked /\ PinMoving /\ PinDone
  BY DEF PinInv
<1>2. NeverWrongLevel
  <2> SUFFICES ASSUME pinCall.f = "direction_output", OeBit \in ctl, OeBit \notin pinWas.ctl
               PROVE  out = pinCall.value
    BY DEF NeverWrongLevel
  <2>1. pinStep = 0
    BY <1>1 DEF PinMoving
  <2> QED
    BY <1>1, <2>1 DEF PinDone
<1>3. PinKept
  <2> SUFFICES ASSUME pinStep = 0 PROVE PinKept
    BY DEF PinKept
  <2>1. CASE pinCall.f = "none" \/ Unwritten(pinCall)
    <3>1. ctl = pinWas.ctl /\ out = pinWas.out /\ sdc = pinWas.sdc
      BY <1>1, <2>1 DEF PinDone
    <3> DEFINE nothing == pinCall.f = "none" \/ Impossible(pinCall) \/ pinCall.f = "get_direction"
    <3>2. nothing
      BY <2>1 DEF Unwritten
    <3>3. pinCall.f \notin {"set_pads", "tlmm_config", "set"}
      BY <2>1 DEF Unwritten, Impossible
    <3> QED
      BY <3>1, <3>2, <3>3 DEF PinKept
  <2>2. CASE pinCall.f = "set_pads"
    <3>1. ~(pinCall.f = "none" \/ Impossible(pinCall) \/ pinCall.f = "get_direction")
      BY <2>2 DEF Impossible
    <3>2. /\ DOMAIN pinCall.cfg = 1 .. Len(pinCall.cfg)
          /\ PadsSet(Len(pinCall.cfg))
      BY <1>1, <2>2, AskFields, PadCallsFit DEF PinAsked, PinDone
    <3> QED
      BY <2>2, <3>1, <3>2 DEF PinKept, PadsSet, PadMask
  <2>3. CASE ~(pinCall.f = "none" \/ Unwritten(pinCall)) /\ pinCall.f # "set_pads"
    <3>1. /\ ~(pinCall.f = "none" \/ Impossible(pinCall) \/ pinCall.f = "get_direction")
          /\ pinCall.f \in {"direction_input", "direction_output", "set", "set_function",
                            "set_drive_strength", "set_pull", "tlmm_config"}
      BY <1>1, <2>3, AskFields DEF Unwritten, PinAsked
    <3>2. \A n : /\ FieldIs("pull", n) <=> ctl \cap {0, 1} = BitsAt(n, 0)
                 /\ FieldIs("mux", n) <=> ctl \cap {2, 3, 4, 5} = BitsAt(n, 2)
                 /\ FieldIs("drv", n) <=> ctl \cap {6, 7, 8} = BitsAt(n, 6)
                 /\ FieldIs("oe", n) <=> ctl \cap {9} = BitsAt(n, 9)
      BY FieldLow
    <3>3. FieldBits["pull"] = {0, 1} /\ FieldBits["mux"] = {2, 3, 4, 5} /\ FieldBits["drv"] = {6, 7, 8} /\ FieldBits["oe"] = {9}
      BY FieldsAre
    <3> HIDE DEF FieldIs, BitsAt, FieldBits
    <3>4. CASE pinCall.f = "tlmm_config"
      <4>1. /\ FieldIs("mux", pinCall.func) /\ FieldIs("drv", pinCall.drvstr)
            /\ FieldIs("pull", pinCall.pull) /\ FieldIs("oe", pinCall.enable)
        BY <1>1, <3>2, <3>4 DEF PinDone
      <4> QED
        BY <3>1, <3>4, <4>1 DEF PinKept
    <3>5. CASE pinCall.f = "set"
      BY <1>1, <3>1, <3>5 DEF PinKept, PinDone
    <3>6. CASE pinCall.f = "set_function"
      <4>1. FieldIs("mux", pinCall.function) /\ ctl \ {2, 3, 4, 5} = pinWas.ctl \ {2, 3, 4, 5}
        BY <1>1, <3>2, <3>6 DEF PinDone
      <4>2. FieldOf(pinCall) = "mux"
        BY <3>6 DEF FieldOf
      <4> QED
        BY <3>1, <3>3, <3>6, <4>1, <4>2 DEF PinKept
    <3>7. CASE pinCall.f = "set_drive_strength"
      <4>1. FieldIs("drv", (pinCall.ma - 2) \div 2) /\ ctl \ {6, 7, 8} = pinWas.ctl \ {6, 7, 8}
        BY <1>1, <2>3, <3>2, <3>7 DEF PinDone
      <4>2. FieldOf(pinCall) = "drv"
        BY <3>7 DEF FieldOf
      <4> QED
        BY <3>1, <3>3, <3>7, <4>1, <4>2 DEF PinKept
    <3>8. CASE pinCall.f = "set_pull"
      <4>1. FieldIs("pull", pinCall.pull) /\ ctl \ {0, 1} = pinWas.ctl \ {0, 1}
        BY <1>1, <2>3, <3>2, <3>8 DEF PinDone
      <4>2. FieldOf(pinCall) = "pull"
        BY <3>8 DEF FieldOf
      <4> QED
        BY <3>1, <3>3, <3>8, <4>1, <4>2 DEF PinKept
    <3>9. CASE pinCall.f = "direction_input"
      <4>1. FieldIs("oe", 0) /\ ctl \ {9} = pinWas.ctl \ {9}
        BY <1>1, <3>2, <3>9 DEF PinDone
      <4>2. FieldOf(pinCall) = "oe"
        BY <3>9 DEF FieldOf
      <4> QED
        BY <3>1, <3>3, <3>9, <4>1, <4>2 DEF PinKept
    <3>10. CASE pinCall.f = "direction_output"
      <4>1. FieldIs("oe", 1) /\ ctl \ {9} = pinWas.ctl \ {9} /\ out = pinCall.value
        BY <1>1, <3>2, <3>10 DEF PinDone
      <4>2. FieldOf(pinCall) = "oe"
        BY <3>10 DEF FieldOf
      <4> QED
        BY <3>1, <3>3, <3>10, <4>1, <4>2 DEF PinKept
    <3> QED
      BY <3>1, <3>4, <3>5, <3>6, <3>7, <3>8, <3>9, <3>10
  <2> QED
    BY <2>1, <2>2, <2>3
<1> QED
  BY <1>1, <1>2, <1>3 DEF GpioPinsOk

LEMMA PinStepOrRest == [PlatformNext]_platformVars => [PinNext]_pinVars
BY DEF PlatformNext, platformVars, PinsRest, BusesRest

\* Whatever a pin's registers hold at first: a call leaves its field as asked
\* and every other bit as it was, the pads of the card's slot do not disturb
\* each other, and a pin turned into an output drives no level but the one
\* asked for, between the writes of the call included (GpioTlmmDxe, tlmm.c).
THEOREM GpioPinsOkHolds == PlatformSpec => []GpioPinsOk
<1>1. PlatformInit => PinInv
  BY PinInvBegins DEF PlatformInit
<1>2. PinInv /\ [PlatformNext]_platformVars => PinInv'
  BY PinStepOrRest, PinInvKept
<1>3. PinInv => GpioPinsOk
  BY PinIsOk
<1> QED
  BY <1>1, <1>2, <1>3, PTL DEF PlatformSpec

-----------------------------------------------------------------------------
(* Shared memory: the invariant, and the least of some numbers.              *)

\* What another processor may change, and what is called: the tables stand while
\* they are read and served, and the names are cut once.
TablesStand == Rewritten \subseteq {"board"} /\ AddCalls <= 1

\* The units an item may be made of.
UnitsOf(i) == UNION {{w[k] : k \in 1 .. Len(w)} : w \in Storable(i)}
AnyUnits == Boards \cup FlashTables \cup RamTables \cup {<<>>}

ShmIs ==
    /\ shm \in [Items -> [allocated : BOOLEAN, units : AnyUnits]]
    /\ \A i \in Items : /\ shm[i].units \in Storable(i) \cup {<<>>}
                        /\ shm[i].allocated => shm[i].units # <<>>

\* The reading in progress: the buffer holds the first units of an item that
\* has not changed since its head was read.
Copied == /\ rd.head = shm[rd.item].units[1]
          /\ \A k \in 1 .. Len(rd.buf) : rd.buf[k] = shm[rd.item].units[k]
ReadingIs ==
    /\ rd = [item |-> rd.item, head |-> rd.head, need |-> rd.need, buf |-> rd.buf]
    /\ rd.item = "none" => rd = Reading
    /\ rd.item # "none" =>
          /\ rd.item \in toRead /\ shm[rd.item].units # <<>>
          /\ rd.need \in Nat /\ rd.buf \in Seq(UnitsOf(rd.item)) /\ Len(rd.buf) <= rd.need
          /\ rd.buf # <<>> => Fits(rd.item, rd.need)
          /\ (rd.item = "board" => Untouched) => Copied

\* The board: its description may change in mid-read, but not its length.
BoardReading ==
    rd.item = "board" =>
        /\ rd.head.minor \in Nat /\ rd.head.minor >= 6 /\ rd.need = BoardLen(rd.head.minor)
        /\ shm["board"].allocated /\ Len(shm["board"].units) = rd.need
        /\ Len(rd.buf) >= 4 => rd.buf[4] \in HwPlatforms

BoardTold ==
    /\ board.baseband = BasebandOf(board)
    /\ board.target # <<0, 0, 0, 0>> => board.target[1] = board.subtype /\ board.target[4] = board.hw
    /\ (Is8974 \/ Is8974Pro) /\ ~(Is8974 /\ Is8974Pro) /\ (Is8974ac => Is8974Pro)
BoardTrue ==
    LET d == shm["board"].units
    IN  /\ <<board.platform, board.version, board.hw, board.subtype>> = <<d[2], d[3], d[4], d[6]>>
        /\ d[1].minor >= 8 => /\ board.target[2] * 65536 + board.target[3] = d[5]
                              /\ \A i \in 1 .. 3 : board.pmic[i].version = d[6 + i].version
        /\ d[1].minor >= 9 => board.foundry = d[10]
BoardInv ==
    /\ "board" \in toRead => board = NoBoard
    /\ board.baseband \in {"MSM", "APQ"}
    /\ (halt = "no" /\ "board" \notin toRead /\ shm["board"].units # <<>>) =>
          BoardTold /\ (Untouched => BoardTrue)

\* The flash table, on its way and served.
FlashReading ==
    rd.item = "flash" =>
        rd.head.magic /\ rd.need = 1 + MaxParts(rd.head.version) /\ flash = <<rd.head>> /\ ~(rd.head.len > PartsV4)
FlashIs ==
    LET f == shm["flash"].units
        appsAt == {n \in 2 .. f[1].len + 1 : f[n].name = <<"0", "APPS">>}
    IN  /\ f # <<>> /\ flash[1] = f[1] /\ Len(flash) \in Nat /\ Len(flash) > 0 /\ Len(flash) <= Len(f)
        /\ added = <<>> => \A n \in 1 .. f[1].len : PartAt(flash, n) = f[n + 1]
        /\ appsAt # {} => \E n \in appsAt : apps = f[n].start
        /\ appsAt = {} => apps = NotFound
FlashInv ==
    /\ (halt = "no" /\ "flash" \in toRead /\ rd.item # "flash") => flash = NoTable
    /\ "flash" \in toRead => apps = NotFound
    /\ shm["flash"].units = <<>> => flash = NoTable
    /\ (halt = "no" /\ "flash" \notin toRead /\ flash[1].magic) => FlashIs
    /\ added # <<>> => toRead = {} /\ halt = "no" /\ flash[1].magic /\ 1 <= AddCalls /\ \E s : added = <<s>>
    /\ ModemPartitionsNamed

RamReading == rd.item = "ram" => rd.need = 1 + RamLen
RamInv ==
    /\ (halt = "no" /\ "ram" \in toRead) => ram = NoTable
    /\ shm["ram"].units = <<>> => ram = NoTable
    /\ (halt = "no" /\ "ram" \notin toRead /\ ram[1].magic) =>
          shm["ram"].units # <<>> /\ ram = shm["ram"].units

SmemInv ==
    /\ rewrites \in 0 .. Rewrites /\ toRead \subseteq Items
    /\ ShmIs /\ ReadingIs
    /\ BoardReading /\ BoardInv /\ FlashReading /\ FlashInv /\ RamReading /\ RamInv

\* Some numbers have a least one.
LEMMA LeastExists ==
    ASSUME NEW S \in SUBSET Nat, S # {}
    PROVE  \E x \in S : \A y \in S : x <= y
<1>1. PICK Below : Below = OpToRel(<, Nat)
  OBVIOUS
<1>2. IsWellFoundedOn(Below, Nat)
  BY <1>1, NatLessThanWellFounded
<1>3. \E x \in S : \A y \in S : ~ (<<y, x>> \in Below)
  BY ONLY <1>2, S \subseteq Nat, S # {}, WFMin
<1>4. \A x, y \in Nat : y < x => <<y, x>> \in Below
  BY <1>1 DEF OpToRel
<1>5. PICK x \in S : \A y \in S : ~ (<<y, x>> \in Below)
  BY <1>3
<1>6. \A y \in S : x <= y
  <2> SUFFICES ASSUME NEW y \in S
               PROVE  x <= y
    OBVIOUS
  <2>1. x \in Nat /\ y \in Nat
    OBVIOUS
  <2>2. ~ (y < x)
    BY <1>4, <1>5, <2>1
  <2> QED BY <2>1, <2>2
<1> QED BY <1>5, <1>6

-----------------------------------------------------------------------------
(* Shared memory: what its items are.                                        *)

\* A sequence of anything is one of the units it holds.
LEMMA OfUnits ==
    ASSUME NEW i \in Items, NEW w \in Storable(i), NEW T, w \in Seq(T)
    PROVE  w \in Seq(UnitsOf(i)) /\ Len(w) \in Nat /\ DOMAIN w = 1 .. Len(w)
<1>1. Len(w) \in Nat /\ w \in [1 .. Len(w) -> T] /\ DOMAIN w = 1 .. Len(w)
  BY ONLY w \in Seq(T), LenProperties
<1>2. \A k \in 1 .. Len(w) : w[k] \in UnitsOf(i)
  BY DEF UnitsOf
<1>3. w \in [1 .. Len(w) -> UnitsOf(i)]
  BY <1>1, <1>2
<1>4. w \in Seq(UnitsOf(i))
  BY ONLY <1>1, <1>3, SeqDef
<1> QED
  BY <1>1, <1>4

\* The copy of an item grows by one of its units.
LEMMA CopyGrows ==
    ASSUME NEW T, NEW s \in Seq(T), NEW e \in T
    PROVE  /\ Append(s, e) \in Seq(T) /\ Len(Append(s, e)) = Len(s) + 1
           /\ \A k \in 1 .. Len(s) : Append(s, e)[k] = s[k]
           /\ Append(s, e)[Len(s) + 1] = e /\ Append(s, e) # <<>>
OBVIOUS

\* The hardware version is the two bytes it is taken apart into.
LEMMA HwVersion ==
    ASSUME NEW t \in 0 .. 248
    PROVE  65537 * t + 7 = Byte((65537 * t + 7) \div 65536) * 65536 + Byte(65537 * t + 7)
<1>1. (65537 * t + 7) \div 65536 = t
  BY SMT
<1>2. (65537 * t + 7) % 256 = t + 7
  <2>1. 65537 * t + 7 = (256 * t) * 256 + (t + 7)
    BY SMT
  <2> QED
    BY <2>1, SMT
<1>3. t % 256 = t
  BY SMT
<1> QED
  BY <1>1, <1>2, <1>3, SMT DEF Byte

LEMMA BoardLens ==
    ASSUME NEW f \in Nat, f >= 6
    PROVE  /\ BoardLen(f) \in {6, 7, 9, 10, 11}
           /\ f = 6 => BoardLen(f) = 6
           /\ f = 7 => BoardLen(f) = 7
           /\ f >= 8 <=> BoardLen(f) >= 9
           /\ f >= 9 <=> BoardLen(f) >= 10
           /\ f >= 10 <=> BoardLen(f) >= 11
BY SMT DEF BoardLen

LEMMA BoardItems ==
    ASSUME NEW d \in Boards
    PROVE  /\ d \in Seq(UnitsOf("board")) /\ Len(d) \in Nat /\ Len(d) >= 4 /\ d # <<>>
           /\ DOMAIN d = 1 .. Len(d)
           /\ d[1].minor \in Nat
           /\ (d[1].major = 0 /\ d[1].minor >= 6) => Len(d) = BoardLen(d[1].minor)
           /\ d[4] \in HwPlatforms
           /\ Len(d) >= 9 => d[5] = Byte(d[5] \div 65536) * 65536 + Byte(d[5])
<1>1. PICK m \in Majors, f \in Formats, c \in ChipIds, s \in Subtypes, h \in HwPlatforms, t \in Tags :
         LET x == Description(m, f, c, s, h, t)
         IN  d = SubSeq(x, 1, IF x[1].major = 0 /\ x[1].minor >= 6 THEN BoardLen(x[1].minor) ELSE 4)
  BY DEF Boards
<1> DEFINE x == Description(m, f, c, s, h, t)
           n == IF m = 0 /\ f >= 6 THEN BoardLen(f) ELSE 4
<1>2. x[1] = [major |-> m, minor |-> f] /\ x[4] = h /\ x[5] = 65537 * t + 7
  BY DEF Description
<1>3. PICK T : \A k \in 1 .. 11 : x[k] \in T
  <2>1. \A k \in 1 .. 11 : x[k] \in {x[j] : j \in 1 .. 11}
    OBVIOUS
  <2> QED BY ONLY <2>1
<1>4. f \in Nat /\ t \in 0 .. 248
  BY SmemAssumption
<1>5. n \in {4, 6, 7, 9, 10, 11}
  BY <1>4, BoardLens
<1>6. d = SubSeq(x, 1, n)
  <2>1. x[1].major = m /\ x[1].minor = f
    BY <1>2
  <2>2. d = SubSeq(x, 1, IF x[1].major = 0 /\ x[1].minor >= 6 THEN BoardLen(x[1].minor) ELSE 4)
    BY <1>1
  <2> HIDE DEF x
  <2> QED
    BY <2>1, <2>2
<1> HIDE DEF x, n
<1>7. \A k \in 1 .. n : x[k] \in T
  BY <1>3, <1>5
<1>8. d \in Seq(T) /\ Len(d) = n /\ \A i \in 1 .. n : d[i] = x[i]
  <2>1. /\ SubSeq(x, 1, n) \in Seq(T)
        /\ Len(SubSeq(x, 1, n)) = IF 1 <= n THEN n - 1 + 1 ELSE 0
        /\ \A i \in 1 .. n - 1 + 1 : SubSeq(x, 1, n)[i] = x[1 + i - 1]
    <3>1. 1 \in Int /\ n \in Int
      BY <1>5
    <3> QED
      BY ONLY <1>7, <3>1, SubSeqProperties
  <2>2. 1 <= n /\ n - 1 + 1 = n /\ \A i \in 1 .. n : 1 + i - 1 = i
    BY <1>5
  <2> QED
    BY <1>6, <2>1, <2>2
<1>9. d[1] = x[1] /\ d[4] = x[4] /\ (n >= 9 => d[5] = x[5])
  BY <1>5, <1>8
<1>10. d \in Storable("board") /\ "board" \in Items
  BY DEF Storable, Items
<1>11. d \in Seq(UnitsOf("board")) /\ DOMAIN d = 1 .. Len(d)
  BY ONLY <1>8, <1>10, OfUnits
<1>12. n >= 9 => d[5] = Byte(d[5] \div 65536) * 65536 + Byte(d[5])
  <2>1. n >= 9 => d[5] = 65537 * t + 7
    BY <1>2, <1>9
  <2> QED
    BY <2>1, <1>4, HwVersion
<1>13. (d[1].major = 0 /\ d[1].minor >= 6) => n = BoardLen(d[1].minor)
  BY <1>2, <1>9 DEF n
<1>14. d # <<>>
  BY <1>5, <1>8
<1> QED
  BY <1>2, <1>4, <1>5, <1>8, <1>9, <1>11, <1>12, <1>13, <1>14

LEMMA FlashItems ==
    ASSUME NEW f \in FlashTables
    PROVE  /\ f \in Seq(UnitsOf("flash")) /\ Len(f) = 1 + PartsV4 /\ f # <<>>
           /\ DOMAIN f = 1 .. Len(f)
           /\ f[1].version \in Nat /\ f[1].len \in Nat
           /\ \A n \in 1 .. PartsV4 : n > MaxParts(f[1].version) => f[n + 1] = Part(<<>>, 0)
<1>1. PICK ok \in BOOLEAN, v \in FlashVersions, l \in 0 .. (PartsV4 + 1) : f = FlashTable(ok, v, l)
  BY DEF FlashTables
<1> DEFINE head == [magic |-> ok, version |-> v, len |-> l]
           P(n) == IF n <= MaxParts(v) /\ n <= Len(FlashParts) THEN FlashParts[n] ELSE Part(<<>>, 0)
           rest == [n \in 1 .. PartsV4 |-> P(n)]
           T == {head} \cup {P(n) : n \in 1 .. PartsV4}
<1>2. rest \in Seq(T) /\ Len(rest) = PartsV4
  <2>1. \A n \in 1 .. PartsV4 : P(n) \in T
    OBVIOUS
  <2> HIDE DEF P, T
  <2>2. rest \in [1 .. PartsV4 -> T] /\ PartsV4 \in Nat
    BY <2>1, SmemAssumption
  <2>3. rest \in Seq(T)
    BY ONLY <2>2, SeqDef
  <2>4. DOMAIN rest = 1 .. PartsV4 /\ DOMAIN rest = 1 .. Len(rest) /\ Len(rest) \in Nat
    BY ONLY <2>2, <2>3, LenProperties
  <2> QED
    BY ONLY <2>2, <2>3, <2>4, SMT
<1>3. <<head>> \in Seq(T) /\ Len(<<head>>) = 1 /\ <<head>>[1] = head
  <2>1. head \in T
    OBVIOUS
  <2> HIDE DEF head, T
  <2> QED
    BY <2>1
<1>4. f = <<head>> \o rest
  BY <1>1 DEF FlashTable
<1> HIDE DEF rest, T, P
<1>5. /\ <<head>> \o rest \in Seq(T)
      /\ Len(<<head>> \o rest) = Len(<<head>>) + Len(rest)
      /\ \A i \in 1 .. Len(<<head>>) + Len(rest) : (<<head>> \o rest)[i] =
             IF i <= Len(<<head>>) THEN <<head>>[i] ELSE rest[i - Len(<<head>>)]
  BY ONLY <1>2, <1>3, ConcatProperties
<1>6. PartsV4 \in Nat /\ v \in Nat
  BY SmemAssumption
<1>7. f \in Seq(T) /\ Len(f) = 1 + PartsV4
  BY <1>2, <1>3, <1>4, <1>5
<1>8. f[1] = head
  <2>1. 1 \in 1 .. Len(<<head>>) + Len(rest) /\ 1 <= Len(<<head>>)
    BY <1>2, <1>3, <1>6
  <2>2. (<<head>> \o rest)[1] = <<head>>[1]
    BY ONLY <1>5, <2>1
  <2> QED
    BY <1>3, <1>4, <2>2
<1>9. f \in Storable("flash") /\ "flash" \in Items
  BY DEF Storable, Items
<1>10. f \in Seq(UnitsOf("flash")) /\ DOMAIN f = 1 .. Len(f)
  BY ONLY <1>7, <1>9, OfUnits
<1>11. f[1].len \in Nat
  BY <1>6, <1>8 DEF head
<1>13. ASSUME NEW n \in 1 .. PartsV4, n > MaxParts(v) PROVE f[n + 1] = Part(<<>>, 0)
  <2>1. /\ n + 1 \in 1 .. Len(<<head>>) + Len(rest) /\ ~(n + 1 <= Len(<<head>>))
        /\ (n + 1) - Len(<<head>>) = n
    BY <1>2, <1>3, <1>6
  <2>2. (<<head>> \o rest)[n + 1] = rest[n]
    BY ONLY <1>5, <2>1
  <2>3. rest[n] = P(n)
    BY DEF rest
  <2>4. MaxParts(v) \in Nat
    BY SmemAssumption DEF MaxParts
  <2>5. P(n) = Part(<<>>, 0)
    BY <1>6, <1>13, <2>4 DEF P
  <2> QED
    BY <1>4, <2>2, <2>3, <2>5
<1>12. f # <<>>
  BY <1>6, <1>7
<1> QED
  BY <1>6, <1>7, <1>8, <1>10, <1>11, <1>12, <1>13

LEMMA RamItems ==
    ASSUME NEW r \in RamTables
    PROVE  /\ r \in Seq(UnitsOf("ram")) /\ Len(r) = 3 /\ r # <<>>
           /\ DOMAIN r = 1 .. Len(r)
           /\ r[1].version \in Nat /\ r[1].len = 2
           /\ \A n \in 2 .. 3 : r[n].type = "system" <=> r[n].category \in {"sdram", "imem"}
           /\ \A n \in 2 .. 3 : r[n].type \in {"system", "boot"}
<1>1. PICK ok \in BOOLEAN, v \in RamVersions, k1 \in RamKinds, k2 \in RamKinds, s2 \in {4, 5} :
         r = <<[magic |-> ok, version |-> v, len |-> RamLen], RamPart(k1, 2), RamPart(k2, s2)>>
  BY DEF RamTables
<1>2. /\ Len(r) = 3 /\ r # <<>> /\ r[1] = [magic |-> ok, version |-> v, len |-> RamLen]
      /\ r[2] = RamPart(k1, 2) /\ r[3] = RamPart(k2, s2)
  BY <1>1
<1>3. r \in Seq({r[1], r[2], r[3]})
  BY <1>1
<1>4. r \in Storable("ram") /\ "ram" \in Items
  BY DEF Storable, Items
<1>5. r \in Seq(UnitsOf("ram")) /\ DOMAIN r = 1 .. Len(r)
  BY ONLY <1>3, <1>4, OfUnits
<1>6. v \in Nat /\ k1 \in {"modem", "sdram", "imem"} /\ k2 \in {"modem", "sdram", "imem"}
  BY SmemAssumption
<1>7. \A k \in {"modem", "sdram", "imem"}, s \in {2, 4, 5} :
          /\ RamPart(k, s).type = "system" <=> RamPart(k, s).category \in {"sdram", "imem"}
          /\ RamPart(k, s).type \in {"system", "boot"}
  BY DEF RamPart
<1>8. \A n \in 2 .. 3 : n = 2 \/ n = 3
  OBVIOUS
<1> QED
  BY <1>2, <1>5, <1>6, <1>7, <1>8 DEF RamLen

\* What all items have in common.
LEMMA ItemUnits ==
    ASSUME NEW i \in Items, NEW w \in Storable(i)
    PROVE  w \in Seq(UnitsOf(i)) /\ w # <<>> /\ Len(w) \in Nat /\ w \in AnyUnits
<1>1. CASE i = "board"
  BY <1>1, BoardItems DEF Storable, AnyUnits
<1>2. CASE i = "flash"
  <2>1. w \in FlashTables
    BY <1>2 DEF Storable
  <2> QED
    BY <1>2, <2>1, FlashItems, SmemAssumption DEF AnyUnits
<1>3. CASE i = "ram"
  <2>1. w \in RamTables
    BY <1>3 DEF Storable
  <2> QED
    BY <1>3, <2>1, RamItems DEF AnyUnits
<1> QED
  BY <1>1, <1>2, <1>3 DEF Items

-----------------------------------------------------------------------------
(* Shared memory: where it starts, and what a step leaves alone.             *)

LEMMA SmemStarts ==
    ASSUME NEW i \in Items, NEW w \in Storable(i) \cup {<<>>}, NEW present \in BOOLEAN,
           present => w # <<>>, SmemStart(i, w, present)
    PROVE  SmemInv
<1> USE DEF SmemStart
<1>1. w \in AnyUnits /\ <<>> \in AnyUnits
  BY ItemUnits DEF AnyUnits
<1>2. \A x \in Items : /\ shm[x] = [allocated |-> present /\ x = i, units |-> IF x = i THEN w ELSE <<>>]
                       /\ shm[x].allocated = (present /\ x = i)
                       /\ shm[x].units = IF x = i THEN w ELSE <<>>
  OBVIOUS
<1>3. ShmIs
  <2>1. \A x \in Items : shm[x] \in [allocated : BOOLEAN, units : AnyUnits]
    <3>1. ASSUME NEW x \in Items PROVE shm[x] \in [allocated : BOOLEAN, units : AnyUnits]
      <4>1. (present /\ x = i) \in BOOLEAN /\ (IF x = i THEN w ELSE <<>>) \in AnyUnits
        BY <1>1
      <4> QED
        BY <1>2, <4>1
    <3> QED BY <3>1
  <2>2. shm \in [Items -> [allocated : BOOLEAN, units : AnyUnits]]
    BY <2>1
  <2>3. \A x \in Items : /\ shm[x].units \in Storable(x) \cup {<<>>}
                         /\ shm[x].allocated => shm[x].units # <<>>
    BY <1>2
  <2> QED
    BY ONLY <2>2, <2>3 DEF ShmIs
<1>4. rd.item = "none" /\ rd.buf = <<>> /\ rd = Reading
  BY DEF Reading
<1>5. ReadingIs
  BY <1>4 DEF ReadingIs, Reading
<1>6. BoardReading /\ FlashReading /\ RamReading
  BY <1>4 DEF BoardReading, FlashReading, RamReading
<1>7. "board" \in Items /\ "flash" \in Items /\ "ram" \in Items
  BY DEF Items
<1>8. BoardInv
  BY <1>2, <1>7 DEF BoardInv, NoBoard
<1>9. ~NoTable[1].magic
  BY DEF NoTable
<1>10. ModemPartitionsNamed
  BY DEF ModemPartitionsNamed
<1>11. FlashInv
  BY <1>9, <1>10 DEF FlashInv
<1>12. RamInv
  BY <1>9 DEF RamInv
<1>13. rewrites \in 0 .. Rewrites /\ toRead \subseteq Items
  BY SmemAssumption
<1> QED
  BY ONLY <1>3, <1>5, <1>6, <1>8, <1>11, <1>12, <1>13 DEF SmemInv

LEMMA ServedSame ==
    ASSUME UNCHANGED <<flash, apps, added>>, shm'["flash"] = shm["flash"]
    PROVE  (FlashIs <=> FlashIs') /\ (ModemPartitionsNamed <=> ModemPartitionsNamed')
<1>1. FlashIs <=> FlashIs'
  BY DEF FlashIs
<1>2. ModemPartitionsNamed <=> ModemPartitionsNamed'
  BY DEF ModemPartitionsNamed
<1> QED
  BY <1>1, <1>2

LEMMA ToldSame ==
    ASSUME board' = board
    PROVE  BoardTold <=> BoardTold'
BY DEF BoardTold, BasebandOf, Is8974, Is8974Pro, Is8974ac

LEMMA TrueSame ==
    ASSUME board' = board, shm'["board"] = shm["board"]
    PROVE  BoardTrue <=> BoardTrue'
BY DEF BoardTrue

\* What the three parts of the invariant are about changes only when the item
\* of the part is read, or the driver stops.
LEMMA BoardStays ==
    ASSUME BoardInv, UNCHANGED board, shm'["board"] = shm["board"], UNCHANGED rewrites,
           "board" \in toRead <=> "board" \in toRead', halt' = "no" => halt = "no"
    PROVE  BoardInv'
<1>1. (BoardTold <=> BoardTold') /\ (BoardTrue <=> BoardTrue') /\ (Untouched <=> Untouched')
  BY ToldSame, TrueSame DEF Untouched
<1> QED
  BY <1>1 DEF BoardInv

LEMMA FlashStays ==
    ASSUME FlashInv, UNCHANGED <<flash, apps, added>>, shm'["flash"] = shm["flash"],
           "flash" \in toRead <=> "flash" \in toRead', halt' = "no" => halt = "no",
           "flash" \in toRead => (rd.item = "flash" <=> rd'.item = "flash"),
           toRead' \subseteq toRead, toRead = {} => halt' = halt
    PROVE  FlashInv'
<1>1. (FlashIs <=> FlashIs') /\ (ModemPartitionsNamed <=> ModemPartitionsNamed')
  BY ServedSame
<1>2. (added # <<>> => \E s : added = <<s>>) => (added' # <<>> => \E s : added' = <<s>>)
  OBVIOUS
<1> QED
  BY <1>1, <1>2 DEF FlashInv

LEMMA RamStays ==
    ASSUME RamInv, UNCHANGED ram, shm'["ram"] = shm["ram"],
           "ram" \in toRead <=> "ram" \in toRead', halt' = "no" => halt = "no"
    PROVE  RamInv'
BY DEF RamInv

LEMMA SmemStutters == SmemInv /\ UNCHANGED smemVars => SmemInv'
<1> SUFFICES ASSUME SmemInv, UNCHANGED smemVars PROVE SmemInv'
  OBVIOUS
<1> USE DEF smemVars, SmemInv
<1>1. ShmIs' /\ BoardReading' /\ FlashReading' /\ RamReading'
  BY DEF ShmIs, BoardReading, FlashReading, RamReading
<1>2. ReadingIs'
  BY DEF ReadingIs, Fits, Copied, Untouched
<1>3. BoardInv' /\ FlashInv' /\ RamInv'
  BY BoardStays, FlashStays, RamStays
<1> QED
  BY <1>1, <1>2, <1>3

LEMMA SmemRewritten ==
    ASSUME SmemInv, TablesStand, NEW i \in Items, Rewrite(i)
    PROVE  SmemInv'
<1> USE DEF SmemInv
<1>1. /\ i = "board" /\ shm["board"].allocated /\ rewrites > 0 /\ rewrites' = rewrites - 1
      /\ UNCHANGED <<toRead, rd, board, flash, apps, ram, added, halt>>
  BY DEF Rewrite, TablesStand
<1>2. PICK w \in Boards : /\ Len(w) = Len(shm["board"].units)
                          /\ shm' = [shm EXCEPT !["board"].units = w]
  BY <1>1 DEF Rewrite, Storable
<1>3. /\ shm'["board"].units = w /\ shm'["board"].allocated = shm["board"].allocated
      /\ shm'["flash"] = shm["flash"] /\ shm'["ram"] = shm["ram"]
  BY <1>2 DEF ShmIs, Items
<1>4. w # <<>> /\ w \in AnyUnits
  BY BoardItems DEF AnyUnits
<1>5. ShmIs'
  <2>1. shm' \in [Items -> [allocated : BOOLEAN, units : AnyUnits]]
    BY <1>2, <1>4 DEF ShmIs
  <2>2. \A x \in Items : /\ shm'[x].units \in Storable(x) \cup {<<>>}
                         /\ shm'[x].allocated => shm'[x].units # <<>>
    <3>1. \A x \in Items : x = "board" \/ x = "flash" \/ x = "ram"
      BY DEF Items
    <3>2. w \in Storable("board")
      BY DEF Storable
    <3> QED
      BY <1>3, <1>4, <3>1, <3>2 DEF ShmIs
  <2> QED
    BY <2>1, <2>2 DEF ShmIs
<1>6. ~Untouched' /\ rewrites' \in 0 .. Rewrites
  BY <1>1, SmemAssumption DEF Untouched
<1>7. ReadingIs'
  <2>1. rd.item # "none" => (rd.item = "board" \/ rd.item = "flash" \/ rd.item = "ram")
    BY DEF ReadingIs, Items
  <2>2. CASE rd.item = "board"
    BY <1>1, <1>2, <1>3, <1>4, <1>6, <2>2 DEF ReadingIs, Fits
  <2>3. CASE rd.item = "flash"
    BY <1>1, <1>3, <2>3 DEF ReadingIs, Fits, Copied
  <2>4. CASE rd.item = "ram"
    BY <1>1, <1>3, <2>4 DEF ReadingIs, Fits, Copied
  <2>5. CASE rd.item = "none"
    BY <1>1, <2>5 DEF ReadingIs
  <2> QED
    BY <2>1, <2>2, <2>3, <2>4, <2>5
<1>8. BoardReading'
  BY <1>1, <1>2, <1>3 DEF BoardReading
<1>9. BoardInv'
  <2>1. BoardTold <=> BoardTold'
    BY <1>1, ToldSame
  <2>2. shm["board"].units # <<>>
    BY <1>1 DEF ShmIs, Items
  <2> QED
    BY <1>1, <1>6, <2>1, <2>2 DEF BoardInv
<1>10. FlashInv' /\ RamInv'
  BY <1>1, <1>3, FlashStays, RamStays
<1>11. FlashReading' /\ RamReading'
  BY <1>1 DEF FlashReading, RamReading
<1> QED
  BY <1>1, <1>5, <1>6, <1>7, <1>8, <1>9, <1>10, <1>11

-----------------------------------------------------------------------------
(* Shared memory: the board.                                                 *)

IsBoard(b) ==
    DOMAIN b = {"platform", "version", "hw", "subtype", "target", "baseband", "pmic", "foundry", "serial"}

\* What the description with head and units d leaves in the board.
Describes(minor, d, b) ==
    /\ b.platform = d[2] /\ b.version = d[3] /\ b.hw = d[4] /\ b.subtype = d[6]
    /\ b.target = IF minor >= 8 THEN Target(d) ELSE <<0, 0, 0, 0>>
    /\ minor >= 8 => \A i \in 1 .. 3 : b.pmic[i].version = d[6 + i].version
    /\ minor >= 9 => b.foundry = d[10]

FromMemory(minor, d) ==
    /\ d = shm["board"].units /\ minor = d[1].minor /\ d \in Boards
    /\ minor >= 8 => Len(d) >= 9

LEMMA NoBoardIs ==
    IsBoard(NoBoard) /\ NoBoard.baseband = "MSM" /\ NoBoard.platform = 0 /\ NoBoard.target = <<0, 0, 0, 0>>
BY DEF IsBoard, NoBoard

LEMMA NoBoardUnknown == BasebandOf(NoBoard) = "assert"
BY NoBoardIs DEF BasebandOf

\* The platforms that have a modem, and those that have none.
Msms == {126, 185, 186, 194} \cup (211 .. 218)
Apqs == {184} \cup (208 .. 210)

LEMMA ModemIs ==
    ASSUME NEW b, BasebandOf(b) # "assert"
    PROVE  /\ b.subtype \in {0, 1, 3}
           /\ \/ b.platform \in Msms /\ BasebandOf(b) = "MSM"
              \/ b.platform \in Apqs /\ BasebandOf(b) = "APQ"
<1>1. BasebandOf(b) =
          IF b.subtype \notin {0, 1, 3} THEN "assert"
          ELSE CASE b.platform \in Msms -> "MSM"
                 [] b.platform \in Apqs -> "APQ"
                 [] OTHER -> "assert"
  BY DEF BasebandOf, Msms, Apqs
<1>2. ~(b.platform \in Msms /\ b.platform \in Apqs)
  BY SMT DEF Msms, Apqs
<1>3. b.subtype \in {0, 1, 3}
  BY <1>1
<1>4. b.platform \in Msms => BasebandOf(b) = "MSM"
  BY <1>1, <1>2, <1>3
<1>5. b.platform \in Apqs => BasebandOf(b) = "APQ"
  BY <1>1, <1>2, <1>3
<1>6. b.platform \in Msms \/ b.platform \in Apqs
  BY <1>1, <1>3
<1> QED
  BY <1>3, <1>4, <1>5, <1>6

LEMMA IdentifiedIs ==
    ASSUME NEW minor \in Nat, minor >= 6, NEW d
    PROVE  LET b == Identified(NoBoard, minor, d)
           IN  IsBoard(b) /\ b.baseband = "MSM" /\ Describes(minor, d, b)
<1> DEFINE c == [NoBoard EXCEPT !.platform = d[2], !.version = d[3], !.hw = d[4], !.subtype = d[6]]
           b == Identified(NoBoard, minor, d)
<1>1. /\ IsBoard(c) /\ c.baseband = "MSM" /\ c.target = <<0, 0, 0, 0>>
      /\ c.platform = d[2] /\ c.version = d[3] /\ c.hw = d[4] /\ c.subtype = d[6]
  BY NoBoardIs DEF IsBoard
<1>2. b = IF minor = 6 THEN c
          ELSE IF minor = 7 THEN [c EXCEPT !.pmic[1] = [type |-> d[7].type, version |-> d[7].version, target |-> <<0, 0, 0>>]]
          ELSE [c EXCEPT !.target = Target(d),
                         !.pmic = [i \in 1 .. 3 |-> PmicOf(d[6 + i])],
                         !.foundry = IF minor >= 9 THEN d[10] ELSE @,
                         !.serial = IF minor >= 10 THEN d[11] ELSE @]
  BY DEF Identified
<1> HIDE DEF b, c
<1>3. minor = 6 => IsBoard(b) /\ b.baseband = "MSM" /\ Describes(minor, d, b)
  BY <1>1, <1>2 DEF Describes
<1>4. minor = 7 => IsBoard(b) /\ b.baseband = "MSM" /\ Describes(minor, d, b)
  <2> SUFFICES ASSUME minor = 7
               PROVE  IsBoard(b) /\ b.baseband = "MSM" /\ Describes(minor, d, b)
    OBVIOUS
  <2>1. b = [c EXCEPT !.pmic[1] = [type |-> d[7].type, version |-> d[7].version, target |-> <<0, 0, 0>>]]
    BY <1>2
  <2>2. /\ DOMAIN b = DOMAIN c /\ b.baseband = c.baseband /\ b.target = c.target
        /\ b.platform = c.platform /\ b.version = c.version /\ b.hw = c.hw /\ b.subtype = c.subtype
    BY <1>1, <2>1 DEF IsBoard
  <2> QED
    BY <1>1, <2>2 DEF Describes, IsBoard
<1>5. minor >= 8 => IsBoard(b) /\ b.baseband = "MSM" /\ Describes(minor, d, b)
  <2> SUFFICES ASSUME minor >= 8
               PROVE  IsBoard(b) /\ b.baseband = "MSM" /\ Describes(minor, d, b)
    OBVIOUS
  <2> DEFINE p == [i \in 1 .. 3 |-> PmicOf(d[6 + i])]
             t == Target(d)
             y == IF minor >= 9 THEN d[10] ELSE c.foundry
             z == IF minor >= 10 THEN d[11] ELSE c.serial
  <2>1. \A i \in 1 .. 3 : p[i].version = d[6 + i].version
    BY DEF PmicOf
  <2>2. b = [c EXCEPT !.target = t, !.pmic = p, !.foundry = y, !.serial = z]
    BY <1>1, <1>2 DEF IsBoard
  <2>3. t = Target(d) /\ (minor >= 9 => y = d[10])
    OBVIOUS
  <2> HIDE DEF p, t, y, z
  <2>4. /\ DOMAIN b = DOMAIN c /\ b.baseband = c.baseband /\ b.target = t /\ b.pmic = p /\ b.foundry = y
        /\ b.platform = c.platform /\ b.version = c.version /\ b.hw = c.hw /\ b.subtype = c.subtype
    BY <1>1, <2>2 DEF IsBoard
  <2> QED
    BY <1>1, <2>1, <2>3, <2>4 DEF Describes, IsBoard
<1>6. Identified(NoBoard, minor, d) = b
  BY DEF b
<1> QED
  BY <1>3, <1>4, <1>5, <1>6

\* The members agree with each other and with the modem, whatever mixture of two
\* descriptions they were read from.
LEMMA TellsTruth ==
    ASSUME NEW minor \in Nat, NEW d, NEW b, IsBoard(b), Describes(minor, d, b),
           d[4] \in HwPlatforms, BasebandOf(b) # "assert",
           board' = [b EXCEPT !.baseband = BasebandOf(b)]
    PROVE  BoardTold' /\ board'.baseband \in {"MSM", "APQ"} /\ Describes(minor, d, board')
<1>1. /\ board'.platform = b.platform /\ board'.version = b.version /\ board'.hw = b.hw
      /\ board'.subtype = b.subtype /\ board'.target = b.target /\ board'.pmic = b.pmic
      /\ board'.foundry = b.foundry /\ board'.baseband = BasebandOf(b)
  BY DEF IsBoard
<1>2. /\ b.subtype \in {0, 1, 3}
      /\ \/ b.platform \in Msms /\ BasebandOf(b) = "MSM"
         \/ b.platform \in Apqs /\ BasebandOf(b) = "APQ"
  BY ONLY BasebandOf(b) # "assert", ModemIs
<1>3. BasebandOf(board)' = BasebandOf(b)
  BY <1>1 DEF BasebandOf
<1>4. Describes(minor, d, board')
  BY <1>1 DEF Describes
<1>5. board'.target # <<0, 0, 0, 0>> => board'.target[1] = board'.subtype /\ board'.target[4] = board'.hw
  <2>1. ASSUME board'.target # <<0, 0, 0, 0>>
        PROVE  board'.target[1] = Byte(d[6]) /\ board'.target[4] = Byte(d[4])
    BY <1>4, <2>1 DEF Describes, Target
  <2>2. d[6] \in {0, 1, 3} /\ d[4] \in 0 .. 255
    BY <1>2, SmemAssumption DEF Describes
  <2>3. Byte(d[6]) = d[6] /\ Byte(d[4]) = d[4]
    BY <2>2 DEF Byte
  <2> QED
    BY <1>4, <2>1, <2>3 DEF Describes
<1>6. LET p == board'.platform
      IN  (p \in {184, 185, 186, 126} \/ p \in (208 .. 218) \cup {194}) /\
          ~(p \in {184, 185, 186, 126} /\ p \in (208 .. 218) \cup {194}) /\
          (p \in {194, 216, 213, 210} => p \in (208 .. 218) \cup {194})
  BY <1>1, <1>2, SMT DEF Msms, Apqs
<1>7. BoardTold'
  BY <1>1, <1>3, <1>5, <1>6 DEF BoardTold, Is8974, Is8974Pro, Is8974ac
<1> QED
  BY <1>1, <1>2, <1>4, <1>7

\* The end of platform_detect, whatever it has found.
LEMMA BoardEnds ==
    ASSUME SmemInv, halt = "no", "board" \in toRead, rd.item = "none" \/ rd.item = "board",
           NEW b, BoardDone(b), UNCHANGED <<shm, rewrites, flash, apps, ram, added>>,
           IsBoard(b), b.baseband = "MSM",
           BasebandOf(b) # "assert" =>
               \E minor \in Nat : \E d : /\ Describes(minor, d, b) /\ d[4] \in HwPlatforms
                                         /\ Untouched => FromMemory(minor, d)
    PROVE  SmemInv'
<1> USE DEF SmemInv
<1>1. /\ board' = IF BasebandOf(b) = "assert" THEN b ELSE [b EXCEPT !.baseband = BasebandOf(b)]
      /\ halt' = IF BasebandOf(b) = "assert" THEN "baseband" ELSE "no"
      /\ toRead' = toRead \ {"board"} /\ rd' = Reading
  BY DEF BoardDone
<1>2. ShmIs' /\ toRead' \subseteq Items /\ rewrites' \in 0 .. Rewrites
  BY <1>1 DEF ShmIs
<1>3. ReadingIs' /\ BoardReading' /\ FlashReading' /\ RamReading'
  BY <1>1 DEF ReadingIs, Reading, BoardReading, FlashReading, RamReading
<1>4. BoardInv'
  <2>1. CASE BasebandOf(b) = "assert"
    BY <1>1, <2>1 DEF BoardInv
  <2>2. CASE BasebandOf(b) # "assert"
    <3>1. PICK minor, d : /\ minor \in Nat /\ Describes(minor, d, b) /\ d[4] \in HwPlatforms
                          /\ Untouched => FromMemory(minor, d)
      BY <2>2
    <3>2. BoardTold' /\ board'.baseband \in {"MSM", "APQ"} /\ Describes(minor, d, board')
      BY <1>1, <2>2, <3>1, TellsTruth
    <3>3. Untouched' => BoardTrue'
      <4> SUFFICES ASSUME Untouched' PROVE BoardTrue'
        OBVIOUS
      <4>1. /\ d = shm["board"].units /\ minor = d[1].minor /\ d \in Boards
            /\ minor >= 8 => Len(d) >= 9
        BY <3>1 DEF Untouched, FromMemory
      <4>2. minor >= 8 => board'.target[2] * 65536 + board'.target[3] = d[5]
        <5>1. ASSUME minor >= 8
              PROVE  board'.target[2] = Byte(d[5] \div 65536) /\ board'.target[3] = Byte(d[5])
          BY <3>2, <5>1 DEF Describes, Target
        <5>2. minor >= 8 => d[5] = Byte(d[5] \div 65536) * 65536 + Byte(d[5])
          BY <4>1, BoardItems
        <5> QED
          BY <5>1, <5>2
      <4>3. shm' = shm
        OBVIOUS
      <4> QED
        BY <3>2, <4>1, <4>2, <4>3 DEF BoardTrue, Describes
    <3> QED
      BY <1>1, <3>2, <3>3 DEF BoardInv
  <2> QED
    BY <2>1, <2>2
<1>5. FlashInv'
  <2>1. rd'.item = "none" /\ "flash" # "board"
    BY <1>1 DEF Reading
  <2> QED
    BY <1>1, <2>1, FlashStays
<1>6. RamInv'
  BY <1>1, RamStays
<1> QED
  BY <1>2, <1>3, <1>4, <1>5, <1>6

-----------------------------------------------------------------------------
(* Shared memory: the heads of the items.                                    *)

\* A read that begins.
LEMMA ReadBegins ==
    ASSUME SmemInv, halt = "no", NEW i \in Items, i \in toRead, rd.item = "none",
           shm[i].units # <<>>, NEW n \in Nat, Read(i, shm[i].units[1], n),
           UNCHANGED <<shm, rewrites>>
    PROVE  /\ ShmIs' /\ toRead' \subseteq Items /\ rewrites' \in 0 .. Rewrites /\ ReadingIs'
           /\ rd' = [item |-> i, head |-> shm[i].units[1], need |-> n, buf |-> <<>>]
           /\ UNCHANGED <<board, halt, toRead>>
<1> USE DEF SmemInv
<1>1. /\ rd' = [item |-> i, head |-> shm[i].units[1], need |-> n, buf |-> <<>>]
      /\ UNCHANGED <<board, halt, toRead>>
  BY DEF Read
<1>2. ShmIs'
  BY DEF ShmIs
<1>3. i # "none"
  BY DEF Items
<1>4. rd'.item = i /\ rd'.head = shm[i].units[1] /\ rd'.need = n /\ rd'.buf = <<>>
  BY <1>1
<1>5. <<>> \in Seq(UnitsOf(i)') /\ Len(<<>>) = 0
  BY EmptySeq
<1>6. ReadingIs'
  BY <1>1, <1>3, <1>4, <1>5 DEF ReadingIs, Copied
<1> QED
  BY <1>1, <1>2, <1>6

\* The driver stops, or passes over an item.
LEMMA ReadEnds ==
    ASSUME SmemInv, UNCHANGED <<shm, rewrites>>, rd' = Reading \/ (rd.item = "none" /\ rd' = rd),
           toRead' \subseteq toRead
    PROVE  /\ ShmIs' /\ toRead' \subseteq Items /\ rewrites' \in 0 .. Rewrites /\ ReadingIs'
           /\ BoardReading' /\ FlashReading' /\ RamReading' /\ rd'.item = "none"
<1> USE DEF SmemInv
<1>1. rd' = Reading
  BY DEF ReadingIs
<1>2. ShmIs' /\ toRead' \subseteq Items /\ rewrites' \in 0 .. Rewrites
  BY DEF ShmIs
<1>3. ReadingIs' /\ BoardReading' /\ FlashReading' /\ RamReading' /\ rd'.item = "none"
  BY <1>1 DEF ReadingIs, Reading, BoardReading, FlashReading, RamReading
<1> QED
  BY <1>2, <1>3

LEMMA BoardHeadRead ==
    ASSUME SmemInv, BoardHead
    PROVE  SmemInv'
<1> USE DEF SmemInv
<1>1. /\ halt = "no" /\ "board" \in toRead /\ rd.item = "none"
      /\ UNCHANGED <<shm, rewrites, flash, apps, ram, added>>
  BY DEF BoardHead, Running
<1>2. board = NoBoard
  BY <1>1 DEF BoardInv
<1>3. CASE BoardDone(board)
  <2>1. IsBoard(board) /\ board.baseband = "MSM" /\ BasebandOf(board) = "assert"
    BY <1>2, NoBoardIs, NoBoardUnknown
  <2> QED
    BY <1>1, <1>3, <2>1, BoardEnds
<1>4. CASE Stop("boardFormat")
  <2>1. halt' # "no" /\ UNCHANGED <<board, toRead, rd>>
    BY <1>4 DEF Stop
  <2>2. ReadingIs' /\ BoardReading' /\ FlashReading' /\ RamReading' /\ ShmIs' /\ toRead' \subseteq Items
        /\ rewrites' \in 0 .. Rewrites /\ rd'.item = "none"
    BY <1>1, <2>1, ReadEnds
  <2>3. BoardInv' /\ FlashInv' /\ RamInv'
    BY <1>1, <2>1, BoardStays, FlashStays, RamStays
  <2> QED
    BY <2>2, <2>3
<1>5. CASE /\ shm["board"].allocated /\ shm["board"].units[1].major = 0
           /\ ~(shm["board"].units[1].minor < 6)
           /\ Read("board", shm["board"].units[1], BoardLen(shm["board"].units[1].minor))
  <2>1. shm["board"].units \in Boards /\ shm["board"].units # <<>> /\ "board" \in Items
    BY <1>5 DEF ShmIs, Items, Storable
  <2> DEFINE f == shm["board"].units[1]
  <2>2. f.minor \in Nat /\ f.minor >= 6 /\ Len(shm["board"].units) = BoardLen(f.minor)
        /\ BoardLen(f.minor) \in Nat
    BY <1>5, <2>1, BoardItems, BoardLens
  <2>3. /\ ShmIs' /\ toRead' \subseteq Items /\ rewrites' \in 0 .. Rewrites /\ ReadingIs'
        /\ rd' = [item |-> "board", head |-> f, need |-> BoardLen(f.minor), buf |-> <<>>]
        /\ UNCHANGED <<board, halt, toRead>>
    BY <1>1, <1>5, <2>1, <2>2, ReadBegins
  <2>4. BoardReading' /\ FlashReading' /\ RamReading'
    BY <1>1, <1>5, <2>2, <2>3 DEF BoardReading, FlashReading, RamReading
  <2>5. BoardInv' /\ FlashInv' /\ RamInv'
    <3>1. rd'.item # "flash" /\ rd.item # "flash"
      BY <1>1, <2>3
    <3> QED
      BY <1>1, <2>3, <3>1, BoardStays, FlashStays, RamStays
  <2> QED
    BY <2>3, <2>4, <2>5
<1> QED
  BY <1>3, <1>4, <1>5 DEF BoardHead

LEMMA FlashHeadRead ==
    ASSUME SmemInv, FlashHead
    PROVE  SmemInv'
<1> USE DEF SmemInv
<1>1. /\ halt = "no" /\ "flash" \in toRead /\ rd.item = "none"
      /\ UNCHANGED <<shm, rewrites, apps, ram, added>>
  BY DEF FlashHead, Running
<1>2. flash = NoTable /\ apps = NotFound /\ added = <<>>
  BY <1>1 DEF FlashInv
<1>3. ~NoTable[1].magic
  BY DEF NoTable
<1>4. ModemPartitionsNamed' /\ "flash" \in Items
  BY <1>1, <1>2 DEF ModemPartitionsNamed, Items
<1> DEFINE h == shm["flash"].units[1]
<1>5. CASE ~shm["flash"].allocated /\ TableDone("flash") /\ UNCHANGED flash
  <2>1. rd' = Reading /\ toRead' = toRead \ {"flash"} /\ UNCHANGED <<board, halt>>
    BY <1>5 DEF TableDone
  <2>2. ReadingIs' /\ BoardReading' /\ FlashReading' /\ RamReading' /\ ShmIs' /\ toRead' \subseteq Items
        /\ rewrites' \in 0 .. Rewrites /\ rd'.item = "none"
    BY <1>1, <2>1, ReadEnds
  <2>3. BoardInv' /\ RamInv'
    BY <1>1, <2>1, BoardStays, RamStays
  <2>4. FlashInv'
    BY <1>1, <1>2, <1>3, <1>4, <1>5, <2>1 DEF FlashInv
  <2> QED
    BY <2>2, <2>3, <2>4
<1>6. CASE /\ shm["flash"].allocated /\ flash' = <<h>>
           /\ ~h.magic /\ TableDone("flash")
  <2>1. rd' = Reading /\ toRead' = toRead \ {"flash"} /\ UNCHANGED <<board, halt>>
    BY <1>6 DEF TableDone
  <2>2. ReadingIs' /\ BoardReading' /\ FlashReading' /\ RamReading' /\ ShmIs' /\ toRead' \subseteq Items
        /\ rewrites' \in 0 .. Rewrites /\ rd'.item = "none"
    BY <1>1, <2>1, ReadEnds
  <2>3. BoardInv' /\ RamInv'
    BY <1>1, <2>1, BoardStays, RamStays
  <2>4. FlashInv'
    <3>1. ~flash'[1].magic /\ shm'["flash"].units # <<>>
      BY <1>1, <1>4, <1>6 DEF ShmIs
    <3> QED
      BY <1>1, <1>2, <1>4, <2>1, <3>1 DEF FlashInv
  <2> QED
    BY <2>2, <2>3, <2>4
<1>7. ASSUME shm["flash"].allocated, flash' = <<h>>, NEW why, why # "no", Stop(why)
      PROVE  SmemInv'
  <2>1. halt' # "no" /\ UNCHANGED <<board, toRead, rd>>
    BY <1>7 DEF Stop
  <2>2. ReadingIs' /\ BoardReading' /\ FlashReading' /\ RamReading' /\ ShmIs' /\ toRead' \subseteq Items
        /\ rewrites' \in 0 .. Rewrites /\ rd'.item = "none"
    BY <1>1, <2>1, ReadEnds
  <2>3. BoardInv' /\ RamInv'
    BY <1>1, <2>1, BoardStays, RamStays
  <2>4. FlashInv'
    <3>1. shm'["flash"].units # <<>>
      BY <1>1, <1>4, <1>7 DEF ShmIs
    <3> QED
      BY <1>1, <1>2, <1>4, <2>1, <3>1 DEF FlashInv
  <2> QED
    BY <2>2, <2>3, <2>4
<1>8. CASE /\ shm["flash"].allocated /\ flash' = <<h>> /\ h.magic /\ ~(h.len > PartsV4)
           /\ Read("flash", h, 1 + MaxParts(h.version))
  <2>1. shm["flash"].units \in FlashTables /\ shm["flash"].units # <<>>
    BY <1>4, <1>8 DEF ShmIs, Storable
  <2>2. 1 + MaxParts(h.version) \in Nat
    <3>1. MaxParts(h.version) \in Nat
      BY SmemAssumption DEF MaxParts
    <3> QED
      BY <3>1
  <2>3. /\ ShmIs' /\ toRead' \subseteq Items /\ rewrites' \in 0 .. Rewrites /\ ReadingIs'
        /\ rd' = [item |-> "flash", head |-> h, need |-> 1 + MaxParts(h.version), buf |-> <<>>]
        /\ UNCHANGED <<board, halt, toRead>>
    BY <1>1, <1>4, <1>8, <2>1, <2>2, ReadBegins
  <2>4. BoardReading' /\ FlashReading' /\ RamReading'
    BY <1>1, <1>8, <2>3 DEF BoardReading, FlashReading, RamReading
  <2>5. BoardInv' /\ RamInv'
    BY <1>1, <2>3, BoardStays, RamStays
  <2>6. FlashInv'
    <3>1. rd'.item = "flash"
      BY <2>3
    <3> QED
      BY <1>1, <1>2, <1>4, <2>1, <2>3, <3>1 DEF FlashInv
  <2> QED
    BY <2>3, <2>4, <2>5, <2>6
<1> QED
  BY <1>5, <1>6, <1>7, <1>8 DEF FlashHead

LEMMA RamHeadRead ==
    ASSUME SmemInv, RamHead
    PROVE  SmemInv'
<1> USE DEF SmemInv
<1>1. /\ halt = "no" /\ "ram" \in toRead /\ rd.item = "none"
      /\ UNCHANGED <<shm, rewrites, flash, apps, ram, added>>
  BY DEF RamHead, Running
<1>2. ram = NoTable /\ ~NoTable[1].magic
  BY <1>1 DEF RamInv, NoTable
<1> DEFINE h == shm["ram"].units[1]
<1>3. CASE TableDone("ram")
  <2>1. rd' = Reading /\ toRead' = toRead \ {"ram"} /\ UNCHANGED <<board, halt>>
    BY <1>3 DEF TableDone
  <2>2. ReadingIs' /\ BoardReading' /\ FlashReading' /\ RamReading' /\ ShmIs' /\ toRead' \subseteq Items
        /\ rewrites' \in 0 .. Rewrites /\ rd'.item = "none"
    BY <1>1, <2>1, ReadEnds
  <2>3. BoardInv' /\ FlashInv'
    BY <1>1, <2>1, <2>2, BoardStays, FlashStays
  <2>4. RamInv'
    BY <1>1, <1>2, <2>1 DEF RamInv
  <2> QED
    BY <2>2, <2>3, <2>4
<1>4. CASE Stop("ramVersion")
  <2>1. halt' # "no" /\ UNCHANGED <<board, toRead, rd>>
    BY <1>4 DEF Stop
  <2>2. ReadingIs' /\ BoardReading' /\ FlashReading' /\ RamReading' /\ ShmIs' /\ toRead' \subseteq Items
        /\ rewrites' \in 0 .. Rewrites /\ rd'.item = "none"
    BY <1>1, <2>1, ReadEnds
  <2>3. BoardInv' /\ FlashInv' /\ RamInv'
    BY <1>1, <2>1, BoardStays, FlashStays, RamStays
  <2> QED
    BY <2>2, <2>3
<1>5. CASE shm["ram"].allocated /\ Read("ram", h, 1 + RamLen)
  <2>1. shm["ram"].units # <<>> /\ "ram" \in Items /\ 1 + RamLen \in Nat
    BY <1>5 DEF ShmIs, Items, RamLen
  <2>2. /\ ShmIs' /\ toRead' \subseteq Items /\ rewrites' \in 0 .. Rewrites /\ ReadingIs'
        /\ rd' = [item |-> "ram", head |-> h, need |-> 1 + RamLen, buf |-> <<>>]
        /\ UNCHANGED <<board, halt, toRead>>
    BY <1>1, <1>5, <2>1, ReadBegins
  <2>3. BoardReading' /\ FlashReading' /\ RamReading'
    BY <1>1, <2>2 DEF BoardReading, FlashReading, RamReading
  <2>4. BoardInv' /\ FlashInv' /\ RamInv'
    <3>1. rd'.item # "flash" /\ rd.item # "flash"
      BY <1>1, <2>2
    <3> QED
      BY <1>1, <2>2, <3>1, BoardStays, FlashStays, RamStays
  <2> QED
    BY <2>2, <2>3, <2>4
<1> QED
  BY <1>3, <1>4, <1>5 DEF RamHead

-----------------------------------------------------------------------------
(* Shared memory: the second reads.                                          *)

LEMMA ReadIsRefused ==
    ASSUME SmemInv, ReadRefused
    PROVE  SmemInv'
<1> USE DEF SmemInv
<1>1. /\ halt = "no" /\ rd.item # "none" /\ rd.item \in toRead
      /\ UNCHANGED <<shm, rewrites, flash, apps, ram, added>>
  BY DEF ReadRefused, Running, ReadingIs
<1>2. rd.item = "board" \/ rd.item = "flash" \/ rd.item = "ram"
  BY <1>1 DEF Items
<1>3. CASE rd.item = "board"
  <2>1. BoardDone(board) /\ board = NoBoard
    BY <1>1, <1>3 DEF ReadRefused, BoardInv
  <2>2. IsBoard(board) /\ board.baseband = "MSM" /\ BasebandOf(board) = "assert"
    BY <2>1, NoBoardIs, NoBoardUnknown
  <2> QED
    BY <1>1, <1>3, <2>1, <2>2, BoardEnds
<1>4. CASE rd.item = "flash"
  <2>1. halt' # "no" /\ UNCHANGED <<board, toRead, rd>>
    BY <1>4 DEF ReadRefused, Stop
  <2>2. ShmIs' /\ ReadingIs' /\ BoardReading' /\ FlashReading' /\ RamReading'
    BY <1>1, <2>1 DEF ShmIs, ReadingIs, Fits, Copied, Untouched, BoardReading, FlashReading, RamReading
  <2>3. BoardInv' /\ FlashInv' /\ RamInv'
    BY <1>1, <2>1, BoardStays, FlashStays, RamStays
  <2> QED
    BY <1>1, <2>1, <2>2, <2>3
<1>5. CASE rd.item = "ram"
  <2>1. rd' = Reading /\ toRead' = toRead \ {"ram"} /\ UNCHANGED <<board, halt>>
    BY <1>5 DEF ReadRefused, TableDone
  <2>2. ReadingIs' /\ BoardReading' /\ FlashReading' /\ RamReading' /\ ShmIs' /\ toRead' \subseteq Items
        /\ rewrites' \in 0 .. Rewrites /\ rd'.item = "none"
    BY <1>1, <2>1, ReadEnds
  <2>3. BoardInv' /\ FlashInv'
    BY <1>1, <1>5, <2>1, <2>2, BoardStays, FlashStays
  <2>4. RamInv'
    <3>1. ram = NoTable /\ ~NoTable[1].magic
      BY <1>1, <1>5 DEF RamInv, NoTable
    <3> QED
      BY <1>1, <2>1, <3>1 DEF RamInv
  <2> QED
    BY <2>2, <2>3, <2>4
<1> QED
  BY <1>2, <1>3, <1>4, <1>5

LEMMA UnitIsRead ==
    ASSUME SmemInv, ReadUnit
    PROVE  SmemInv'
<1> USE DEF SmemInv
<1> DEFINE w == shm[rd.item].units
           k == Len(rd.buf) + 1
<1>1. /\ halt = "no" /\ rd.item # "none" /\ rd.item \in toRead /\ rd.item \in Items
      /\ Len(rd.buf) < rd.need /\ Fits(rd.item, rd.need)
      /\ UNCHANGED <<shm, rewrites, toRead, board, flash, apps, ram, added, halt>>
  BY DEF ReadUnit, Running, ReadingIs
<1>2. /\ rd.need \in Nat /\ rd.buf \in Seq(UnitsOf(rd.item)) /\ w # <<>>
      /\ (rd.item = "board" => Untouched) => Copied
  BY <1>1 DEF ReadingIs
<1>3. w \in Storable(rd.item) /\ Len(w) \in Nat /\ Len(w) >= rd.need /\ Len(rd.buf) \in Nat
  BY <1>1, <1>2, ItemUnits DEF ShmIs, Fits
<1>4. k \in 1 .. Len(w) /\ w[k] \in UnitsOf(rd.item)
  <2>1. k \in 1 .. Len(w)
    BY <1>1, <1>2, <1>3
  <2> HIDE DEF k, w
  <2> QED
    BY <1>3, <2>1 DEF UnitsOf
<1>5. /\ Append(rd.buf, w[k]) \in Seq(UnitsOf(rd.item)) /\ Len(Append(rd.buf, w[k])) = k
      /\ \A j \in 1 .. Len(rd.buf) : Append(rd.buf, w[k])[j] = rd.buf[j]
      /\ Append(rd.buf, w[k])[k] = w[k] /\ Append(rd.buf, w[k]) # <<>>
  BY <1>2, <1>4, CopyGrows
<1>6. rd' = [item |-> rd.item, head |-> rd.head, need |-> rd.need, buf |-> Append(rd.buf, w[k])]
  <2>1. rd' = [rd EXCEPT !.buf = Append(rd.buf, w[k])]
    BY DEF ReadUnit
  <2>2. rd = [item |-> rd.item, head |-> rd.head, need |-> rd.need, buf |-> rd.buf]
    BY DEF ReadingIs
  <2> HIDE DEF w, k
  <2> QED
    BY <2>1, <2>2
<1>7. /\ rd'.item = rd.item /\ rd'.head = rd.head /\ rd'.need = rd.need
      /\ rd'.buf = Append(rd.buf, w[k])
  BY <1>6
<1>8. \A j \in 1 .. k : j = k \/ j \in 1 .. Len(rd.buf)
  BY <1>3
<1>9. ((rd.item = "board" => Untouched) => Copied)'
  <2> SUFFICES ASSUME (rd.item = "board" => Untouched)' PROVE Copied'
    OBVIOUS
  <2>1. Copied
    BY <1>1, <1>2, <1>7 DEF Untouched
  <2>2. w' = w
    BY <1>1, <1>7
  <2>3. rd'.head = w[1]
    BY <1>7, <2>1 DEF Copied
  <2>4. \A j \in 1 .. Len(rd.buf) : rd.buf[j] = w[j]
    BY <2>1 DEF Copied
  <2>5. Len(rd'.buf) = k
    BY <1>5, <1>7
  <2> HIDE DEF w, k
  <2>6. \A j \in 1 .. k : rd'.buf[j] = w[j]
    BY <1>5, <1>7, <1>8, <2>4
  <2> QED
    BY <2>2, <2>3, <2>5, <2>6 DEF Copied, w
<1> HIDE DEF w, k
<1>10. k <= rd.need
  BY <1>1, <1>2, <1>3 DEF k
<1>11. ReadingIs'
  <2>1. rd' = [item |-> rd'.item, head |-> rd'.head, need |-> rd'.need, buf |-> rd'.buf]
    BY <1>6, <1>7
  <2>2. /\ rd'.item \in toRead' /\ shm'[rd'.item].units # <<>>
        /\ rd'.need \in Nat /\ rd'.buf \in Seq(UnitsOf(rd.item)') /\ Len(rd'.buf) <= rd'.need
    BY <1>1, <1>2, <1>5, <1>7, <1>10 DEF w, UnitsOf, Storable
  <2>3. Fits(rd.item, rd.need)'
    BY <1>1, <1>7 DEF Fits
  <2> QED
    BY <1>1, <1>7, <1>9, <2>1, <2>2, <2>3 DEF ReadingIs
<1>12. ShmIs' /\ FlashReading' /\ RamReading'
  BY <1>1, <1>7 DEF ShmIs, FlashReading, RamReading
<1>13. BoardReading'
  <2> SUFFICES ASSUME rd.item = "board" PROVE BoardReading'
    BY <1>7 DEF BoardReading
  <2>1. w \in Boards /\ w[4] \in HwPlatforms
    <3>1. w \in Boards
      BY <1>3 DEF Storable
    <3> QED
      BY <3>1, BoardItems
  <2>2. Len(rd'.buf) >= 4 => rd'.buf[4] \in HwPlatforms
    <3>1. CASE k = 4
      BY <1>5, <1>7, <2>1, <3>1
    <3>2. CASE k > 4
      <4>1. Len(rd.buf) >= 4 /\ 4 \in 1 .. Len(rd.buf)
        BY <1>3, <3>2 DEF k
      <4>2. rd.buf[4] \in HwPlatforms
        BY <4>1 DEF BoardReading
      <4> QED
        BY <1>5, <1>7, <4>1, <4>2
    <3>3. k \in Nat
      BY <1>3 DEF k
    <3> QED
      BY <1>5, <1>7, <3>1, <3>2, <3>3
  <2> QED
    BY <1>1, <1>7, <2>2 DEF BoardReading
<1>14. BoardInv' /\ RamInv'
  BY <1>1, BoardStays, RamStays
<1>15. FlashInv'
  BY <1>1, <1>7, FlashStays
<1> QED
  BY <1>1, <1>11, <1>12, <1>13, <1>14, <1>15

LEMMA PlatformIsDetected ==
    ASSUME SmemInv, PlatformDetected
    PROVE  SmemInv'
<1> USE DEF SmemInv
<1> DEFINE minor == rd.head.minor
           d == rd.buf
           b == Identified(board, minor, d)
<1>1. /\ halt = "no" /\ rd.item = "board" /\ "board" \in toRead /\ Len(d) = rd.need
      /\ BoardDone(b) /\ UNCHANGED <<shm, rewrites, flash, apps, ram, added>>
  BY DEF PlatformDetected, WholeRead, Running, ReadingIs
<1>2. /\ minor \in Nat /\ minor >= 6 /\ rd.need = BoardLen(minor)
      /\ Len(shm["board"].units) = rd.need
      /\ Len(rd.buf) >= 4 => rd.buf[4] \in HwPlatforms
  BY <1>1 DEF BoardReading
<1>3. board = NoBoard
  BY <1>1 DEF BoardInv
<1>4. IsBoard(b) /\ b.baseband = "MSM" /\ Describes(minor, d, b)
  BY <1>2, <1>3, IdentifiedIs
<1>5. Len(d) \in {6, 7, 9, 10, 11} /\ (minor >= 8 => Len(d) >= 9)
  BY <1>1, <1>2, BoardLens
<1>6. d[4] \in HwPlatforms
  BY <1>2, <1>5
<1>7. Untouched => FromMemory(minor, d)
  <2> SUFFICES ASSUME Untouched PROVE FromMemory(minor, d)
    OBVIOUS
  <2> DEFINE w == shm["board"].units
  <2>1. Copied /\ rd.buf \in Seq(UnitsOf("board")) /\ w # <<>>
    BY <1>1 DEF ReadingIs
  <2>2. w \in Boards
    BY <2>1 DEF ShmIs, Storable, Items
  <2>3. w \in Seq(UnitsOf("board"))
    BY <2>2, BoardItems
  <2>4. Len(d) = Len(w) /\ \A i \in 1 .. Len(d) : d[i] = w[i]
    BY <1>1, <1>2, <2>1 DEF Copied
  <2>5. d = w
    <3> HIDE DEF w, d
    <3> QED
      BY ONLY <2>1, <2>3, <2>4, SeqEqual DEF d
  <2>6. minor = w[1].minor
    BY <1>1, <2>1 DEF Copied
  <2> QED
    BY <1>5, <2>2, <2>5, <2>6 DEF FromMemory
<1> HIDE DEF minor, d, b
<1>8. \E mi \in Nat : \E e : /\ Describes(mi, e, b) /\ e[4] \in HwPlatforms
                             /\ Untouched => FromMemory(mi, e)
  BY <1>2, <1>4, <1>6, <1>7
<1> QED
  BY <1>1, <1>4, <1>8, BoardEnds

\* The least of some numbers is one of them.
LEMMA FirstIs ==
    ASSUME NEW S \in SUBSET Nat, S # {}
    PROVE  First(S) \in S
<1>1. \E n \in S : \A k \in S : n <= k
  BY LeastExists
<1> QED
  BY <1>1 DEF First

LEMMA FlashIsRead ==
    ASSUME SmemInv, FlashTableRead
    PROVE  SmemInv'
<1> USE DEF SmemInv
<1> DEFINE f == shm["flash"].units
           here == Placed(rd.buf, <<"0", "APPS">>)
<1>1. /\ halt = "no" /\ rd.item = "flash" /\ "flash" \in toRead /\ Len(rd.buf) = rd.need
      /\ flash' = rd.buf /\ TableDone("flash")
      /\ apps' = IF here = {} THEN apps ELSE PartAt(rd.buf, First(here)).start
      /\ UNCHANGED <<shm, rewrites, ram, added>>
  BY DEF FlashTableRead, WholeRead, Running, ReadingIs
<1>2. rd' = Reading /\ toRead' = toRead \ {"flash"} /\ UNCHANGED <<board, halt>>
  BY <1>1 DEF TableDone
<1>3. /\ Copied /\ f # <<>> /\ rd.need = 1 + MaxParts(rd.head.version) /\ rd.head.magic
      /\ ~(rd.head.len > PartsV4)
      /\ rd.buf # <<>> => Fits("flash", rd.need)
      /\ rd.need \in Nat
  BY <1>1 DEF ReadingIs, FlashReading
<1>4. f \in FlashTables
  BY <1>3 DEF ShmIs, Storable, Items
<1>5. f[1].version \in Nat /\ f[1].len \in Nat /\ Len(f) \in Nat /\ Len(f) = 1 + PartsV4
  BY <1>4, FlashItems, SmemAssumption
<1>6. rd.head = f[1] /\ \A k \in 1 .. Len(rd.buf) : rd.buf[k] = f[k]
  BY <1>1, <1>3 DEF Copied
<1>20. f[1].len <= PartsV4
  BY <1>3, <1>5, <1>6, SmemAssumption
<1>7. MaxParts(f[1].version) \in Nat
  BY SmemAssumption DEF MaxParts
<1>8. Len(rd.buf) = 1 + MaxParts(f[1].version) /\ Len(rd.buf) > 0
  BY <1>1, <1>3, <1>5, <1>6, <1>7
<1>9. Len(rd.buf) <= Len(f)
  <2>1. rd.buf # <<>>
    BY <1>7, <1>8
  <2> QED
    BY <1>1, <1>3, <2>1 DEF Fits
<1>10. rd.buf[1] = f[1] /\ f[1].magic
  BY <1>3, <1>6, <1>7, <1>8
<1>11. apps = NotFound /\ added = <<>>
  BY <1>1 DEF FlashInv
<1>19. \A n \in 1 .. PartsV4 : n > MaxParts(f[1].version) => f[n + 1] = Part(<<>>, 0)
  BY <1>4, FlashItems
<1> HIDE DEF f
<1>12. ASSUME NEW n \in 1 .. f[1].len PROVE PartAt(rd.buf, n) = f[n + 1]
  <2>1. CASE n + 1 <= Len(rd.buf)
    <3>1. n + 1 \in 1 .. Len(rd.buf)
      BY <1>7, <1>8, <2>1
    <3> QED
      BY <1>6, <2>1, <3>1 DEF PartAt
  <2>2. CASE ~(n + 1 <= Len(rd.buf))
    <3>1. n > MaxParts(f[1].version) /\ n \in 1 .. PartsV4
      BY <1>5, <1>7, <1>8, <1>20, <2>2, SmemAssumption
    <3> QED
      BY <1>19, <2>2, <3>1 DEF PartAt
  <2> QED
    BY <2>1, <2>2
<1>13. here = {n \in 1 .. f[1].len : f[n + 1].name = <<"0", "APPS">>}
  BY <1>10, <1>12 DEF Placed
<1>14. here # {} => apps' = f[First(here) + 1].start /\ First(here) \in here
  <2> SUFFICES ASSUME here # {} PROVE apps' = f[First(here) + 1].start /\ First(here) \in here
    OBVIOUS
  <2>1. here \subseteq Nat
    BY <1>13
  <2>2. First(here) \in here
    BY <2>1, FirstIs
  <2>3. First(here) \in 1 .. f[1].len
    BY <1>13, <2>2
  <2> HIDE DEF here
  <2> QED
    BY <1>1, <1>12, <2>2, <2>3
<1>15. FlashIs'
  <2> DEFINE appsAt == {n \in 2 .. f[1].len + 1 : f[n].name = <<"0", "APPS">>}
  <2>1. f' = f
    BY <1>1 DEF f
  <2>2. \A n \in 2 .. f[1].len + 1 : n - 1 \in 1 .. f[1].len /\ (n - 1) + 1 = n
    BY <1>5
  <2>3. \A n \in 1 .. f[1].len : PartAt(flash', n) = f[n + 1]
    BY <1>1, <1>12
  <2>4. appsAt # {} => \E n \in appsAt : apps' = f[n].start
    <3> SUFFICES ASSUME appsAt # {} PROVE \E n \in appsAt : apps' = f[n].start
      OBVIOUS
    <3>1. PICK n \in 2 .. f[1].len + 1 : f[n].name = <<"0", "APPS">>
      OBVIOUS
    <3>2. n - 1 \in here
      BY <1>13, <2>2, <3>1
    <3>3. PICK a : a = First(here)
      OBVIOUS
    <3>4. a \in here /\ apps' = f[a + 1].start
      BY <1>14, <3>2, <3>3
    <3>5. a \in 1 .. f[1].len /\ f[a + 1].name = <<"0", "APPS">>
      BY <1>13, <3>4
    <3>6. a + 1 \in appsAt
      BY <1>5, <3>5
    <3> QED
      BY <3>4, <3>6
  <2>5. appsAt = {} => apps' = NotFound
    <3> SUFFICES ASSUME appsAt = {} PROVE apps' = NotFound
      OBVIOUS
    <3>1. here = {}
      <4> SUFFICES ASSUME NEW a \in here PROVE FALSE
        OBVIOUS
      <4>1. a \in 1 .. f[1].len /\ f[a + 1].name = <<"0", "APPS">>
        BY <1>13
      <4>2. a + 1 \in appsAt
        BY <1>5, <4>1
      <4> QED
        BY <4>2
    <3> QED
      BY <1>1, <1>11, <3>1
  <2> HIDE DEF appsAt, here
  <2>6. Len(rd.buf) \in Nat
    BY <1>7, <1>8
  <2> QED
    BY <1>1, <1>3, <1>8, <1>9, <1>10, <2>1, <2>3, <2>4, <2>5, <2>6 DEF FlashIs, PartAt, f, appsAt
<1>16. ReadingIs' /\ BoardReading' /\ FlashReading' /\ RamReading' /\ ShmIs' /\ toRead' \subseteq Items
      /\ rewrites' \in 0 .. Rewrites /\ rd'.item = "none"
  BY <1>1, <1>2, ReadEnds
<1>17. BoardInv' /\ RamInv'
  BY <1>1, <1>2, BoardStays, RamStays
<1>18. FlashInv'
  <2>1. ModemPartitionsNamed'
    BY <1>1, <1>11 DEF ModemPartitionsNamed
  <2> QED
    BY <1>1, <1>2, <1>3, <1>11, <1>15, <2>1 DEF FlashInv, f
<1> QED
  BY <1>16, <1>17, <1>18

-----------------------------------------------------------------------------
(* Shared memory: the modem's partitions, and the RAM table.                 *)

\* A table whose entries are replaced one by one keeps its length.
LEMMA TableKept ==
    ASSUME NEW n \in Nat, NEW s, NEW e(_), s = [k \in 1 .. n |-> e(k)]
    PROVE  Len(s) = n /\ \A k \in 1 .. n : s[k] = e(k)
<1> DEFINE T == {e(k) : k \in 1 .. n}
<1>1. s \in [1 .. n -> T]
  OBVIOUS
<1>2. s \in Seq(T)
  BY ONLY <1>1, n \in Nat, SeqDef
<1>3. DOMAIN s = 1 .. Len(s) /\ Len(s) \in Nat
  BY ONLY <1>2, LenProperties
<1>4. DOMAIN s = 1 .. n
  BY ONLY <1>1
<1> QED
  BY <1>3, <1>4

LEMMA ModemPartitionsAdded ==
    ASSUME SmemInv, TablesStand, AddModemPartitions
    PROVE  SmemInv'
<1> USE DEF SmemInv
<1> DEFINE f == shm["flash"].units
           len == f[1].len
           Cut(n) == IF n \in 2 .. flash[1].len + 1 /\ flash[n].name # <<>>
                     THEN [flash[n] EXCEPT !.name = <<@[1]>>] ELSE flash[n]
           now == {Part(PartAt(flash, n).name[Len(PartAt(flash, n).name)], PartAt(flash, n).start) :
                     n \in {k \in 1 .. flash[1].len : PartAt(flash, k).name # <<>>}}
           there == {Part(p.name[Len(p.name)], p.start) :
                       p \in {f[n] : n \in {k \in 2 .. len + 1 : f[k].name # <<>>}}}
<1>1. /\ halt = "no" /\ toRead = {} /\ flash[1].magic /\ Len(added) < AddCalls
      /\ added' = Append(added, now) /\ flash' = [n \in 1 .. Len(flash) |-> Cut(n)]
      /\ UNCHANGED <<shm, rewrites, toRead, rd, board, apps, ram, halt>>
  BY DEF AddModemPartitions, Running
<1>2. AddCalls = 1 /\ added = <<>>
  <2>1. AddCalls \in Nat /\ AddCalls <= 1
    BY SmemAssumption DEF TablesStand
  <2>2. ASSUME added # <<>> PROVE FALSE
    <3>1. PICK s : added = <<s>>
      BY <2>2 DEF FlashInv
    <3>2. Len(added) = 1
      BY <3>1
    <3> QED
      BY <1>1, <2>1, <3>2
  <2>3. added = <<>> /\ Len(added) = 0
    BY <2>2
  <2> QED
    BY <1>1, <2>1, <2>3
<1>3. added' = <<now>>
  BY <1>1, <1>2
<1>4. FlashIs
  BY <1>1 DEF FlashInv
<1>5. /\ f # <<>> /\ flash[1] = f[1] /\ Len(flash) \in Nat /\ Len(flash) > 0 /\ Len(flash) <= Len(f)
      /\ \A n \in 1 .. len : PartAt(flash, n) = f[n + 1]
  BY <1>2, <1>4 DEF FlashIs
<1>6. len \in Nat
  <2>1. f \in FlashTables
    BY <1>5 DEF ShmIs, Storable, Items
  <2> QED
    BY <2>1, FlashItems
<1>7. Len(flash') = Len(flash) /\ flash'[1] = flash[1]
  <2> HIDE DEF Cut, f, len
  <2>1. Len(flash') = Len(flash) /\ \A k \in 1 .. Len(flash) : flash'[k] = Cut(k)
    BY <1>1, <1>5, TableKept
  <2>2. 1 \in 1 .. Len(flash) /\ 1 \notin 2 .. flash[1].len + 1
    BY <1>5, <1>6 DEF len
  <2> QED
    BY <2>1, <2>2 DEF Cut
<1>8. now = there
  <2> HIDE DEF f
  <2>1. \A n \in 1 .. len : n + 1 \in 2 .. len + 1 /\ PartAt(flash, n) = f[n + 1]
    BY <1>5, <1>6
  <2>2. \A n \in 2 .. len + 1 : n - 1 \in 1 .. len /\ PartAt(flash, n - 1) = f[n]
    <3>1. \A n \in 2 .. len + 1 : n - 1 \in 1 .. len /\ (n - 1) + 1 = n
      BY <1>6
    <3> QED
      BY <2>1, <3>1
  <2>3. flash[1].len = len
    BY <1>5
  <2> HIDE DEF len
  <2>4. ASSUME NEW x \in now PROVE x \in there
    <3>1. PICK n \in 1 .. len : /\ PartAt(flash, n).name # <<>>
                                /\ x = Part(PartAt(flash, n).name[Len(PartAt(flash, n).name)], PartAt(flash, n).start)
      BY <2>3, <2>4
    <3>2. PICK m \in 2 .. len + 1 : m = n + 1
      BY <2>1
    <3>3. PartAt(flash, n) = f[m]
      BY <2>1, <3>2
    <3> QED
      BY <3>1, <3>3
  <2>5. ASSUME NEW x \in there PROVE x \in now
    <3>1. PICK m \in 2 .. len + 1 : /\ f[m].name # <<>>
                                    /\ x = Part(f[m].name[Len(f[m].name)], f[m].start)
      BY <2>5
    <3>2. PICK n \in 1 .. len : n = m - 1
      BY <2>2
    <3>3. PartAt(flash, n) = f[m]
      BY <2>2, <3>2
    <3> QED
      BY <2>3, <3>1, <3>3
  <2> QED
    BY <2>4, <2>5
<1>9. FlashIs'
  <2>1. f' = f /\ apps' = apps /\ added' # <<>>
    BY <1>1, <1>3
  <2> QED
    BY <1>4, <1>5, <1>7, <2>1 DEF FlashIs
<1>10. ModemPartitionsNamed'
  <2>1. there = {Part(p.name[Len(p.name)], p.start) :
                   p \in {f[n] : n \in {k \in 2 .. flash'[1].len + 1 : f[k].name # <<>>}}}
    BY <1>5, <1>7
  <2>2. Len(added') = 1 /\ added'[1] = now
    BY <1>3
  <2>3. f' = f
    BY <1>1
  <2>4. \A c \in 1 .. Len(added') : c = 1
    BY <2>2
  <2>5. added'[1] = {Part(p.name[Len(p.name)], p.start) :
                       p \in {shm'["flash"].units[n] : n \in {k \in 2 .. flash'[1].len + 1 :
                                                                shm'["flash"].units[k].name # <<>>}}}
    BY <1>8, <2>1, <2>2, <2>3
  <2> QED
    BY ONLY <2>4, <2>5 DEF ModemPartitionsNamed
<1>11. FlashInv'
  <2>1. flash'[1].magic /\ shm'["flash"].units # <<>>
    BY <1>1, <1>5, <1>7
  <2>2. \E s : added' = <<s>>
    BY <1>3
  <2> HIDE DEF f, len, Cut, now, there
  <2> QED
    BY <1>1, <1>2, <1>9, <1>10, <2>1, <2>2 DEF FlashInv
<1>12. rd = Reading /\ rd.item = "none"
  BY <1>1 DEF ReadingIs, Reading
<1>13. ReadingIs' /\ BoardReading' /\ FlashReading' /\ RamReading' /\ ShmIs' /\ toRead' \subseteq Items
       /\ rewrites' \in 0 .. Rewrites
  BY <1>1, <1>12, ReadEnds
<1>14. BoardInv' /\ RamInv'
  BY <1>1, BoardStays, RamStays
<1> QED
  BY <1>11, <1>13, <1>14

LEMMA RamIsRead ==
    ASSUME SmemInv, RamTableRead
    PROVE  SmemInv'
<1> USE DEF SmemInv
<1> DEFINE r == shm["ram"].units
<1>1. /\ halt = "no" /\ rd.item = "ram" /\ "ram" \in toRead /\ Len(rd.buf) = rd.need
      /\ UNCHANGED <<shm, rewrites, flash, apps, added>>
  BY DEF RamTableRead, WholeRead, Running, ReadingIs
<1>2. /\ Copied /\ r # <<>> /\ rd.buf \in Seq(UnitsOf("ram")) /\ rd.need = 3
      /\ ram = NoTable
  BY <1>1 DEF ReadingIs, RamReading, RamInv, RamLen
<1>3. r \in RamTables
  BY <1>2 DEF ShmIs, Storable, Items
<1>4. Len(r) = 3 /\ r \in Seq(UnitsOf("ram"))
  BY <1>3, RamItems
<1>5. Len(rd.buf) = Len(r) /\ \A k \in 1 .. Len(rd.buf) : rd.buf[k] = r[k]
  BY <1>1, <1>2, <1>4 DEF Copied
<1>6. rd.buf = r
  <2> HIDE DEF r
  <2> QED
    BY ONLY <1>2, <1>4, <1>5, SeqEqual
<1>7. CASE TableDone("ram") /\ (ram' = ram \/ ram' = rd.buf)
  <2>1. rd' = Reading /\ toRead' = toRead \ {"ram"} /\ UNCHANGED <<board, halt>>
    BY <1>7 DEF TableDone
  <2>2. ReadingIs' /\ BoardReading' /\ FlashReading' /\ RamReading' /\ ShmIs' /\ toRead' \subseteq Items
        /\ rewrites' \in 0 .. Rewrites /\ rd'.item = "none"
    BY <1>1, <2>1, ReadEnds
  <2>3. BoardInv' /\ FlashInv'
    BY <1>1, <2>1, <2>2, BoardStays, FlashStays
  <2>4. RamInv'
    <3>1. ~NoTable[1].magic
      BY DEF NoTable
    <3> QED
      BY <1>1, <1>2, <1>6, <1>7, <2>1, <3>1 DEF RamInv
  <2> QED
    BY <2>2, <2>3, <2>4
<1>8. CASE Stop("ramCopyVersion")
  <2>1. halt' # "no" /\ UNCHANGED <<board, toRead, rd>>
    BY <1>8 DEF Stop
  <2>2. ShmIs' /\ ReadingIs' /\ BoardReading' /\ FlashReading' /\ RamReading'
    BY <1>1, <2>1 DEF ShmIs, ReadingIs, Fits, Copied, Untouched, BoardReading, FlashReading, RamReading
  <2>3. BoardInv' /\ FlashInv'
    BY <1>1, <2>1, BoardStays, FlashStays
  <2>4. RamInv'
    BY <1>1, <1>2, <2>1 DEF RamInv
  <2> QED
    BY <1>1, <2>1, <2>2, <2>3, <2>4
<1> QED
  BY <1>7, <1>8 DEF RamTableRead

LEMMA SmemInvKept ==
    SmemInv /\ TablesStand /\ [SmemNext]_smemVars => SmemInv'
<1> SUFFICES ASSUME SmemInv, TablesStand, [SmemNext]_smemVars PROVE SmemInv'
  OBVIOUS
<1>1. CASE UNCHANGED smemVars
  BY <1>1, SmemStutters
<1>2. CASE \E i \in Items : Rewrite(i)
  BY <1>2, SmemRewritten
<1>3. CASE BoardHead \/ FlashHead \/ RamHead
  BY <1>3, BoardHeadRead, FlashHeadRead, RamHeadRead
<1>4. CASE ReadRefused \/ ReadUnit
  BY <1>4, ReadIsRefused, UnitIsRead
<1>5. CASE PlatformDetected \/ FlashTableRead \/ RamTableRead
  BY <1>5, PlatformIsDetected, FlashIsRead, RamIsRead
<1>6. CASE AddModemPartitions
  BY <1>6, ModemPartitionsAdded
<1> QED
  BY <1>1, <1>2, <1>3, <1>4, <1>5, <1>6 DEF SmemNext

-----------------------------------------------------------------------------
(* Shared memory: what is served.                                            *)

\* The RAM reported starts where a partition of system memory does.
LEMMA RamServed == SmemInv => DdrIsSystem
<1> SUFFICES ASSUME SmemInv, ReadDone("ram"), ram[1].magic
             PROVE  LET system == {n \in 2 .. Len(ram) : shm["ram"].units[n].type = "system"}
                    IN  IF system = {} THEN DdrStart = 0 
                        ELSE \E n \in system : LET start == shm["ram"].units[n].start
                                              IN  DdrStart = IF start % 2 = 0 THEN start ELSE Misaligned
  BY DEF DdrIsSystem
<1> DEFINE r == shm["ram"].units
<1>1. r # <<>> /\ ram = r
  BY DEF SmemInv, RamInv, ReadDone
<1>2. r \in RamTables
  BY <1>1 DEF SmemInv, ShmIs, Storable, Items
<1>3. /\ Len(r) = 3 /\ r[1].len = 2
      /\ \A n \in 2 .. 3 : r[n].type = "system" <=> r[n].category \in {"sdram", "imem"}
  BY <1>2, RamItems
<1> HIDE DEF r
<1> DEFINE system == {n \in 2 .. 3 : r[n].type = "system"}
           found == {n \in 1 .. 2 : r[n + 1].type = "system" /\ r[n + 1].category \in {"sdram", "imem"}}
           Told(start) == IF start % 2 = 0 THEN start ELSE Misaligned
<1>4. DdrStart = IF found = {} THEN 0 ELSE Told(r[First(found) + 1].start)
  BY <1>1, <1>3 DEF DdrStart
<1>5. \A n \in found : n + 1 \in system
  OBVIOUS
<1>6. \A n \in system : n - 1 \in found
  <2>1. \A n \in 2 .. 3 : n - 1 \in 1 .. 2 /\ (n - 1) + 1 = n
    OBVIOUS
  <2> QED
    BY <1>3, <2>1
<1>7. system = {} => DdrStart = 0
  BY <1>4, <1>5
<1> HIDE DEF Told
<1>8. system # {} => \E n \in system : DdrStart = Told(r[n].start)
  <2> SUFFICES ASSUME system # {} PROVE \E n \in system : DdrStart = Told(r[n].start)
    OBVIOUS
  <2>1. found # {} /\ found \subseteq Nat
    <3>1. PICK n : n \in system
      OBVIOUS
    <3>2. n - 1 \in found
      BY ONLY <1>6, <3>1
    <3>3. found \subseteq Nat
      OBVIOUS
    <3> QED
      BY <3>2, <3>3
  <2>2. First(found) \in found
    BY <2>1, FirstIs
  <2> QED
    BY <1>4, <1>5, <2>1, <2>2
<1> QED
  BY <1>1, <1>3, <1>7, <1>8 DEF r, Told

LEMMA SmemInvServes == SmemInv => SmemServes
<1> SUFFICES ASSUME SmemInv PROVE SmemServes
  OBVIOUS
<1> USE DEF SmemInv
<1>1. SmemTypeOK
  <2>1. rd.item \in toRead \cup {"none"} /\ Len(rd.buf) <= rd.need
    <3>1. CASE rd.item = "none"
      BY <3>1 DEF ReadingIs, Reading
    <3>2. CASE rd.item # "none"
      BY <3>2 DEF ReadingIs
    <3> QED
      BY <3>1, <3>2
  <2>2. Len(added) <= AddCalls
    <3>1. CASE added = <<>>
      BY <3>1, SmemAssumption
    <3>2. CASE added # <<>>
      <4>1. PICK s : added = <<s>> /\ 1 <= AddCalls
        BY <3>2 DEF FlashInv
      <4> QED
        BY <4>1
    <3> QED
      BY <3>1, <3>2
  <2>3. board.baseband \in {"MSM", "APQ"}
    BY DEF BoardInv
  <2> QED
    BY <2>1, <2>2, <2>3 DEF SmemTypeOK
<1>2. BoardAgrees
  BY DEF BoardInv, BoardTold, BoardAgrees, ReadDone
<1>3. BoardAsDescribed
  BY DEF BoardInv, BoardTrue, BoardAsDescribed, ReadDone
<1>4. FlashServed
  <2> SUFFICES ASSUME ReadDone("flash"), flash[1].magic PROVE FlashServed
    BY DEF FlashServed
  <2>1. FlashIs
    BY DEF FlashInv, ReadDone
  <2> QED
    BY <2>1 DEF FlashIs, FlashServed
<1>5. ModemPartitionsNamed
  BY DEF FlashInv
<1>6. DdrIsSystem
  BY RamServed
<1> QED
  BY <1>1, <1>2, <1>3, <1>4, <1>5, <1>6 DEF SmemServes

LEMMA SmemBegins == PlatformInit => SmemInv
<1> SUFFICES ASSUME PlatformInit PROVE SmemInv
  OBVIOUS
<1>1. CASE Rests("smem")
  <2>1. SmemStart("board", <<>>, FALSE)
    BY <1>1 DEF PlatformInit
  <2>2. "board" \in Items /\ <<>> \in Storable("board") \cup {<<>>} /\ FALSE \in BOOLEAN
    BY DEF Items
  <2>3. PICK i, w, present : i = "board" /\ w = <<>> /\ present = FALSE
    OBVIOUS
  <2>4. i \in Items /\ w \in Storable(i) \cup {<<>>} /\ present \in BOOLEAN /\ (present => w # <<>>)
        /\ SmemStart(i, w, present)
    BY <2>1, <2>2, <2>3
  <2> QED
    BY ONLY <2>4, SmemStarts
<1>2. CASE ~Rests("smem")
  <2>1. SmemInit
    BY <1>2 DEF PlatformInit
  <2>2. PICK i \in Items : \E w \in Storable(i), present \in BOOLEAN : SmemStart(i, w, present)
    BY <2>1 DEF SmemInit
  <2>3. PICK w \in Storable(i), present \in BOOLEAN : SmemStart(i, w, present)
    BY <2>2
  <2>4. w # <<>> /\ w \in Storable(i) \cup {<<>>}
    BY ItemUnits
  <2> QED
    BY <2>3, <2>4, SmemStarts
<1> QED
  BY <1>1, <1>2

LEMMA SmemStepOrRest == [PlatformNext]_platformVars => [SmemNext]_smemVars
BY DEF PlatformNext, platformVars, SmemRests, BusesRest

\* What the description and the partition tables say is what the drivers serve
\* (board_init, smem_ptable_init, smem_add_modem_partitions, get_ddr_start), also
\* of a description another processor rewrites while it is copied.
THEOREM SmemServesHolds ==
    ASSUME TablesStand
    PROVE  PlatformSpec => []SmemServes
<1>1. PlatformInit => SmemInv
  BY SmemBegins
<1>2. SmemInv /\ [PlatformNext]_platformVars => SmemInv'
  BY SmemStepOrRest, SmemInvKept
<1>3. SmemInv => SmemServes
  BY SmemInvServes
<1> QED
  BY <1>1, <1>2, <1>3, PTL DEF PlatformSpec
=============================================================================
