----------------------------- MODULE HeapProofs -----------------------------
(***************************************************************************)
(* Proofs about Heap, for any heap, block sizes and layouts.               *)
(***************************************************************************)
EXTENDS Heap, FiniteSetTheorems, TLAPS

----------------------------------------------------------------------------
(***************************************************************************)
(* The smallest element of a set, and what list_index and the fallback     *)
(* allocator choose by it.                                                 *)
(***************************************************************************)

\* A set of naturals has a smallest element: the intervals 0 .. n are ordered
\* by inclusion, which is well-founded on finite sets.
LEMMA NatMin ==
  ASSUME NEW T \in SUBSET Nat, T # {}
  PROVE  Min(T) \in T /\ \A y \in T : Min(T) <= y
<1> DEFINE Below == {0 .. n : n \in T}
<1> DEFINE R == StrictSubsetOrdering(Nat)
<1>1. IsWellFoundedOn(R, FiniteSubsetsOf(Nat))
  BY FS_StrictSubsetOrderingWellFounded
<1>2. Below \subseteq FiniteSubsetsOf(Nat)
  <2>1. \A n \in T : IsFiniteSet(0 .. n) /\ 0 .. n \subseteq Nat
    BY FS_Interval
  <2> QED
    BY <2>1 DEF FiniteSubsetsOf
<1>3. Below # {}
  BY Zenon
<1>4. \E b \in Below : \A c \in Below : <<c, b>> \notin R
  <2> HIDE DEF R, Below
  <2> QED
    BY <1>1, <1>2, <1>3, WFMin
<1>5. PICK x \in T : \A c \in Below : <<c, 0 .. x>> \notin R
  BY <1>4
<1>6. ASSUME NEW y \in T, y < x PROVE FALSE
  <2>1. /\ 0 .. y \in SUBSET (0 .. x) /\ 0 .. x # 0 .. y
        /\ 0 .. y \in SUBSET Nat /\ 0 .. x \in SUBSET Nat
    BY <1>6
  <2>2. <<0 .. y, 0 .. x>> \in R
    BY <2>1 DEF StrictSubsetOrdering
  <2> QED
    BY Zenon, <2>2, <1>5
<1>7. \E m \in T : \A y \in T : m <= y
  BY <1>6
<1> QED
  BY <1>7, Zenon DEF Min

LEMMA MaxOfTwo ==
  ASSUME NEW a \in Nat, NEW b \in Nat
  PROVE  Max({a, b}) \in Nat /\ Max({a, b}) >= a /\ Max({a, b}) >= b
<1>1. \E m \in {a, b} : \A y \in {a, b} : m >= y
  OBVIOUS
<1>2. Max({a, b}) \in {a, b} /\ \A y \in {a, b} : Max({a, b}) >= y
  BY <1>1, Zenon DEF Max
<1> QED
  BY <1>2

\* A multiple of a multiple is a multiple.
LEMMA Divides ==
  ASSUME NEW p \in Nat, NEW b \in Nat \ {0}, NEW a \in Nat \ {0},
         p % b = 0, b % a = 0
  PROVE  p % a = 0
<1>1. p = b * (p \div b) /\ p \div b \in Nat
  OBVIOUS
<1>2. b = a * (b \div a) /\ b \div a \in Nat
  OBVIOUS
<1>3. p = a * ((b \div a) * (p \div b))
  <2> DEFINE q == b \div a  r == p \div b
  <2>1. p = b * r /\ b = a * q /\ q \in Nat /\ r \in Nat
    BY <1>1, <1>2
  <2> HIDE DEF q, r
  <2>2. p = (a * q) * r
    BY <2>1
  <2>3. (a * q) * r = a * (q * r)
    BY <2>1
  <2> QED
    BY <2>2, <2>3 DEF q, r
<1>4. \A k \in Nat : (a * k) % a = 0
  OBVIOUS
<1> DEFINE k == (b \div a) * (p \div b)
<1>5. k \in Nat
  BY <1>1, <1>2
<1>6. p = a * k
  BY <1>3
<1> HIDE DEF k
<1> QED
  BY <1>4, <1>5, <1>6

\* list_index gives a block that has room for the layout, if any has.
LEMMA ListIndex ==
  ASSUME NEW l \in Layout, list_index(l) # None
  PROVE  /\ list_index(l) \in DOMAIN BLOCK_SIZES
         /\ BLOCK_SIZES[list_index(l)] \in Nat \ {0}
         /\ BLOCK_SIZES[list_index(l)] >= l.size
         /\ BLOCK_SIZES[list_index(l)] % l.align = 0
<1> DEFINE m == Max({l.size, l.align})
           fits == {i \in DOMAIN BLOCK_SIZES : BLOCK_SIZES[i] >= m}
<1>1. l.size \in Nat /\ l.align \in Nat
  BY HeapAssumption
<1>2. m \in Nat /\ m >= l.size /\ m >= l.align
  BY <1>1, MaxOfTwo
<1>3. fits \in SUBSET Nat /\ \A i \in DOMAIN BLOCK_SIZES : BLOCK_SIZES[i] \in Nat \ {0}
  BY HeapAssumption
<1>4. fits # {} /\ list_index(l) = Min(fits)
  BY DEF list_index
<1>5. list_index(l) \in fits
  BY <1>3, <1>4, NatMin
<1> HIDE DEF m
<1>6. BLOCK_SIZES[list_index(l)] >= l.size /\ BLOCK_SIZES[list_index(l)] >= l.align
  BY <1>1, <1>2, <1>3, <1>5
<1> QED
  BY <1>3, <1>5, <1>6, HeapAssumption

\* What alloc asks the fallback allocator for has the size and alignment that
\* the caller asked for.
LEMMA Fallback ==
  ASSUME NEW l \in Layout
  PROVE  /\ FallbackLayout(l).size \in Nat \ {0}
         /\ FallbackLayout(l).align \in Nat \ {0}
         /\ l.size \in Nat \ {0} /\ l.align \in Nat \ {0}
         /\ FallbackLayout(l).size >= l.size
         /\ FallbackLayout(l).align % l.align = 0
         /\ list_index(l) # None =>
              /\ FallbackLayout(l).size = BLOCK_SIZES[list_index(l)]
              /\ FallbackLayout(l).align = BLOCK_SIZES[list_index(l)]
         /\ list_index(l) = None => FallbackLayout(l) = l
<1>1. l.size \in Nat \ {0} /\ l.align \in Nat \ {0}
  BY HeapAssumption
<1>2. CASE list_index(l) = None
  <2>1. FallbackLayout(l) = l
    BY <1>2 DEF FallbackLayout
  <2>2. l.align % l.align = 0
    BY <1>1
  <2> QED
    BY <1>1, <1>2, <2>1, <2>2
<1>3. CASE list_index(l) # None
  BY <1>1, <1>3, ListIndex DEF FallbackLayout
<1> QED
  BY <1>2, <1>3

LEMMA FallbackType ==
  ASSUME NEW l \in Layout
  PROVE  FallbackLayout(l) \in [size : Nat \ {0}, align : Nat \ {0}]
<1>1. CASE list_index(l) = None
  BY <1>1, HeapAssumption DEF FallbackLayout
<1>2. CASE list_index(l) # None
  <2>1. BLOCK_SIZES[list_index(l)] \in Nat \ {0}
    BY <1>2, ListIndex
  <2> QED
    BY <1>2, <2>1 DEF FallbackLayout
<1> QED
  BY <1>1, <1>2

\* What is cut from a hole is never smaller than what was asked for.
LEMMA Aligned ==
  ASSUME NEW l \in [size : Nat \ {0}, align : Nat \ {0}]
  PROVE  /\ align_layout(l).size \in Nat \ {0}
         /\ align_layout(l).size >= l.size
         /\ align_layout(l).align = l.align
<1>1. MIN_SIZE \in Nat /\ l.size \in Nat \ {0}
  BY DEF MIN_SIZE
<1>2. Max({l.size, MIN_SIZE}) \in Nat /\ Max({l.size, MIN_SIZE}) >= l.size
  BY <1>1, MaxOfTwo
<1>3. /\ align_layout(l).size = Max({l.size, MIN_SIZE})
      /\ align_layout(l).align = l.align
  BY DEF align_layout
<1> QED
  BY <1>1, <1>2, <1>3

\* allocate_first_fit returns an aligned block of the holes.
LEMMA FirstFitFits ==
  ASSUME holes \subseteq Heap, NEW l, l.align \in Nat \ {0},
         FirstFit(l) # Null
  PROVE  /\ FirstFit(l) \in holes
         /\ FirstFit(l) % l.align = 0
         /\ Extent(FirstFit(l), l.size) \subseteq holes
<1> DEFINE fits == {p \in holes : Fits(p, l)}
<1>0. holes \subseteq Nat
  BY HeapAssumption DEF Heap
<1>1. fits \in SUBSET Nat
  BY <1>0, Zenon
<1>2. fits # {} /\ FirstFit(l) = Min(fits)
  BY DEF FirstFit
<1>3. FirstFit(l) \in fits
  BY <1>1, <1>2, NatMin
<1> QED
  BY <1>3 DEF Fits

----------------------------------------------------------------------------
(***************************************************************************)
(* The inductive invariant.  The pointers in the free blocks spell out     *)
(* one sequence of blocks for each size, and every unit of the heap        *)
(* belongs to one of the holes, these blocks and the blocks in use.        *)
(***************************************************************************)

Index == DOMAIN BLOCK_SIZES

Block == [ptr : Heap, layout : Layout]

HeapTypeOK ==
  /\ list_heads \in [Index -> Heap \cup {Null}]
  /\ memory \in [Heap -> Heap \cup {Null, Data}]
  /\ holes \subseteq Heap
  /\ live \subseteq Block

\* list_heads and the pointers in memory spell out lists
Spelt(lists) ==
  /\ \A i \in Index :
       list_heads[i] = IF Len(lists[i]) = 0 THEN Null ELSE lists[i][1]
  /\ \A i \in Index : \A k \in 1 .. Len(lists[i]) :
       memory[lists[i][k]] = IF k = Len(lists[i]) THEN Null ELSE lists[i][k + 1]
  /\ \A i \in Index : \A k, m \in 1 .. Len(lists[i]) :
       lists[i][k] = lists[i][m] => k = m

InList(list) == {list[k] : k \in 1 .. Len(list)}

\* who owns the units, when free[i] are the free blocks of list i, hs the holes
\* and bs the blocks in use
Owned(free, hs, bs) ==
  /\ \A u \in Heap :
       \/ u \in hs
       \/ \E b \in bs : u \in UsedUnits(b)
       \/ \E i \in Index : \E p \in free[i] : u \in FreeUnits(i, p)
  /\ \A b \in bs :
       /\ b.ptr % FallbackLayout(b.layout).align = 0
       /\ UsedUnits(b) \subseteq Heap
       /\ UsedUnits(b) \cap hs = {}
       /\ \A c \in bs \ {b} : UsedUnits(b) \cap UsedUnits(c) = {}
  /\ \A i \in Index : \A p \in free[i] :
       /\ p % BLOCK_SIZES[i] = 0
       /\ FreeUnits(i, p) \subseteq Heap
       /\ FreeUnits(i, p) \cap hs = {}
       /\ \A b \in bs : FreeUnits(i, p) \cap UsedUnits(b) = {}
       /\ \A j \in Index : \A q \in free[j] :
            i # j \/ p # q => FreeUnits(i, p) \cap FreeUnits(j, q) = {}

Free(lists) == [i \in Index |-> InList(lists[i])]

Without(free, i, p) == [free EXCEPT ![i] = @ \ {p}]
With(free, i, p) == [free EXCEPT ![i] = @ \cup {p}]

HeapInv ==
  /\ HeapTypeOK
  /\ \E lists \in [Index -> Seq(Heap)] : Spelt(lists) /\ Owned(Free(lists), holes, live)

\* A block contains its first unit, and the units that were asked for.
LEMMA BlockUnits ==
  /\ \A i \in Index, p \in Heap : p \in FreeUnits(i, p)
  /\ \A b \in Block : b.ptr \in UsedUnits(b)
  /\ \A b \in Block : Extent(b.ptr, b.layout.size) \subseteq UsedUnits(b)
<1>1. ASSUME NEW i \in Index, NEW p \in Heap PROVE p \in FreeUnits(i, p)
  <2> DEFINE l == [size |-> BLOCK_SIZES[i], align |-> BLOCK_SIZES[i]]
             n == align_layout(l).size
  <2>1. l \in [size : Nat \ {0}, align : Nat \ {0}] /\ p \in Nat
    BY <1>1, HeapAssumption DEF Heap, Index
  <2>2. n \in Nat \ {0}
    <3> HIDE DEF l
    <3> QED
      BY <2>1, Aligned
  <2>3. p \in p .. p + n - 1
    <3> HIDE DEF n
    <3> QED
      BY <2>1, <2>2
  <2> QED
    BY <2>3 DEF FreeUnits, BlockExtent, Extent
<1>2. ASSUME NEW b \in Block
      PROVE  b.ptr \in UsedUnits(b) /\ Extent(b.ptr, b.layout.size) \subseteq UsedUnits(b)
  <2>1. b.ptr \in Nat /\ b.layout \in Layout
    BY <1>2, HeapAssumption DEF Block, Heap
  <2> DEFINE f == FallbackLayout(b.layout)
             n == align_layout(f).size  m == b.layout.size  p == b.ptr
  <2>2. m \in Nat \ {0} /\ f.size >= m /\ p \in Nat
    BY <2>1, Fallback
  <2>3. f \in [size : Nat \ {0}, align : Nat \ {0}]
    BY <2>1, FallbackType
  <2>4. n \in Nat \ {0} /\ n >= f.size /\ f.size \in Nat
    <3> HIDE DEF f
    <3> QED
      BY <2>3, Aligned
  <2>5. p \in p .. p + n - 1 /\ p .. p + m - 1 \subseteq p .. p + n - 1
    <3> HIDE DEF f, n, m, p
    <3> QED
      BY <2>2, <2>4
  <2> QED
    BY <2>5 DEF UsedUnits, BlockExtent, Extent
<1> QED
  BY <1>1, <1>2

\* The head of a list is a block of the list.
LEMMA HeadIsFree ==
  ASSUME HeapTypeOK, NEW lists \in [Index -> Seq(Heap)], Spelt(lists),
         NEW i \in Index, list_heads[i] # Null
  PROVE  /\ Len(lists[i]) \in Nat \ {0}
         /\ list_heads[i] = lists[i][1]
         /\ list_heads[i] \in Heap
         /\ list_heads[i] \in Free(lists)[i]
<1>1. lists[i] \in Seq(Heap) /\ Len(lists[i]) \in Nat
  OBVIOUS
<1>2. Len(lists[i]) # 0 /\ list_heads[i] = lists[i][1]
  BY DEF Spelt
<1>3. 1 \in 1 .. Len(lists[i])
  BY <1>1, <1>2
<1>4. list_heads[i] \in InList(lists[i])
  BY <1>2, <1>3 DEF InList
<1> QED
  BY <1>1, <1>2, <1>3, <1>4 DEF Free

\* alloc: node.next.take() takes the first block off the list.
LEMMA PopBlock ==
  ASSUME HeapTypeOK, NEW lists \in [Index -> Seq(Heap)], Spelt(lists),
         NEW i \in Index, NEW h, h = list_heads[i], h # Null,
         \A j \in Index \ {i} : h \notin Free(lists)[j],
         list_heads' = [list_heads EXCEPT ![i] = memory[h]],
         memory' = [memory EXCEPT ![h] = Null]
  PROVE  \E new \in [Index -> Seq(Heap)] :
           /\ Spelt(new)'
           /\ Free(new) = Without(Free(lists), i, h)
<1> DEFINE s == lists[i]
           new == [lists EXCEPT ![i] = Tail(s)]
<1>1. s \in Seq(Heap) /\ Len(s) \in Nat \ {0} /\ s # <<>>
  BY HeadIsFree
<1>2. h = s[1] /\ h \in Heap
  BY HeadIsFree
<1>3. /\ Tail(s) \in Seq(Heap) /\ Len(Tail(s)) = Len(s) - 1
      /\ \A k \in 1 .. Len(s) - 1 : Tail(s)[k] = s[k + 1]
  BY <1>1
<1>4. new \in [Index -> Seq(Heap)] /\ new[i] = Tail(s)
      /\ \A j \in Index \ {i} : new[j] = lists[j]
  BY <1>3
<1>5. /\ \A u \in Heap \ {h} : memory'[u] = memory[u]
      /\ list_heads'[i] = memory[h]
      /\ \A j \in Index \ {i} : list_heads'[j] = list_heads[j]
  BY DEF HeapTypeOK
<1>6. \A k, m \in 1 .. Len(s) : s[k] = s[m] => k = m
  BY DEF Spelt
<1>7. \A k \in 1 .. Len(s) : memory[s[k]] = IF k = Len(s) THEN Null ELSE s[k + 1]
  BY DEF Spelt
<1> HIDE DEF s, new
<1>8. ASSUME NEW j \in Index
      PROVE  /\ list_heads'[j] = IF Len(new[j]) = 0 THEN Null ELSE new[j][1]
             /\ \A k \in 1 .. Len(new[j]) :
                  memory'[new[j][k]] = IF k = Len(new[j]) THEN Null ELSE new[j][k + 1]
             /\ \A k, m \in 1 .. Len(new[j]) : new[j][k] = new[j][m] => k = m
             /\ InList(new[j]) = IF j = i THEN InList(s) \ {h} ELSE InList(lists[j])
  <2>1. CASE j # i
    <3>1. new[j] = lists[j] /\ list_heads'[j] = list_heads[j]
      BY <1>4, <1>5, <2>1
    <3>2. \A k \in 1 .. Len(lists[j]) : lists[j][k] \in Heap /\ lists[j][k] # h
      <4>1. InList(lists[j]) = Free(lists)[j]
        BY DEF Free
      <4>2. \A k \in 1 .. Len(lists[j]) : lists[j][k] \in InList(lists[j])
        BY DEF InList
      <4>3. \A k \in 1 .. Len(lists[j]) : lists[j][k] \in Heap
        OBVIOUS
      <4> QED
        BY <2>1, <4>1, <4>2, <4>3
    <3>3. \A k \in 1 .. Len(lists[j]) : memory'[lists[j][k]] = memory[lists[j][k]]
      BY <1>5, <3>2
    <3> QED
      BY <2>1, <3>1, <3>3 DEF Spelt
  <2>2. CASE j = i
    <3>1. \A k \in 1 .. Len(s) - 1 :
            /\ k \in 1 .. Len(s) /\ k + 1 \in 1 .. Len(s) /\ k + 1 # 1
            /\ s[k + 1] \in Heap
      BY <1>1
    <3>2. \A k \in 1 .. Len(s) - 1 : s[k + 1] # h
      BY <1>1, <1>2, <1>6, <3>1
    <3>3. list_heads'[i] = IF Len(s) - 1 = 0 THEN Null ELSE Tail(s)[1]
      <4>0. 1 \in 1 .. Len(s)
        BY <1>1
      <4>1. memory[s[1]] = IF 1 = Len(s) THEN Null ELSE s[1 + 1]
        BY Zenon, <1>7, <4>0
      <4>2. Len(s) - 1 # 0 => 1 \in 1 .. Len(s) - 1 /\ Tail(s)[1] = s[1 + 1]
        BY <1>1, <1>3
      <4> QED
        BY <1>1, <1>2, <1>5, <4>1, <4>2
    <3>4. \A k \in 1 .. Len(s) - 1 :
            memory'[Tail(s)[k]] = IF k = Len(s) - 1 THEN Null ELSE Tail(s)[k + 1]
      <4> SUFFICES ASSUME NEW k \in 1 .. Len(s) - 1
                   PROVE  memory'[Tail(s)[k]] =
                            IF k = Len(s) - 1 THEN Null ELSE Tail(s)[k + 1]
        OBVIOUS
      <4>1. memory'[Tail(s)[k]] = memory[s[k + 1]]
        BY <1>3, <1>5, <3>1, <3>2
      <4>2. memory[s[k + 1]] = IF k + 1 = Len(s) THEN Null ELSE s[k + 1 + 1]
        BY <1>7, <3>1
      <4>3. k # Len(s) - 1 => k + 1 \in 1 .. Len(s) - 1
        BY <1>1
      <4>4. k # Len(s) - 1 => Tail(s)[k + 1] = s[k + 1 + 1]
        BY Zenon, <1>3, <4>3
      <4>5. k + 1 = Len(s) <=> k = Len(s) - 1
        BY <1>1
      <4> QED
        BY <4>1, <4>2, <4>4, <4>5
    <3>5. \A k, m \in 1 .. Len(s) - 1 : Tail(s)[k] = Tail(s)[m] => k = m
      <4> SUFFICES ASSUME NEW k \in 1 .. Len(s) - 1, NEW m \in 1 .. Len(s) - 1,
                          Tail(s)[k] = Tail(s)[m]
                   PROVE  k = m
        OBVIOUS
      <4>1. k + 1 = m + 1
        BY <1>3, <1>6, <3>1
      <4> QED
        BY <1>1, <4>1
    <3>6. InList(Tail(s)) = InList(s) \ {h}
      <4>1. ASSUME NEW u \in InList(Tail(s)) PROVE u \in InList(s) /\ u # h
        <5>1. PICK k \in 1 .. Len(s) - 1 : u = s[k + 1]
          BY <1>3, <4>1 DEF InList
        <5> QED
          BY <3>1, <3>2, <5>1 DEF InList
      <4>2. ASSUME NEW u \in InList(s), u # h PROVE u \in InList(Tail(s))
        <5>1. PICK k \in 1 .. Len(s) : u = s[k]
          BY <4>2 DEF InList
        <5>2. k - 1 \in 1 .. Len(s) - 1
          BY <1>1, <1>2, <4>2, <5>1
        <5>3. Tail(s)[k - 1] = s[k - 1 + 1] /\ k - 1 + 1 = k
          BY <1>1, <1>3, <5>2
        <5> QED
          BY Zenon, <1>3, <5>1, <5>2, <5>3 DEF InList
      <4> QED
        BY <4>1, <4>2
    <3>7. new[j] = Tail(s) /\ Len(new[j]) = Len(s) - 1
      BY Zenon, <1>3, <1>4, <2>2
    <3>8. list_heads'[j] = IF Len(new[j]) = 0 THEN Null ELSE new[j][1]
      BY Zenon, <2>2, <3>3, <3>7
    <3>9. \A k \in 1 .. Len(new[j]) :
            memory'[new[j][k]] = IF k = Len(new[j]) THEN Null ELSE new[j][k + 1]
      BY <3>4, <3>7
    <3>10. \A k, m \in 1 .. Len(new[j]) : new[j][k] = new[j][m] => k = m
      BY <3>5, <3>7
    <3>11. InList(new[j]) = InList(s) \ {h}
      BY <3>6, <3>7
    <3> QED
      BY <2>2, <3>8, <3>9, <3>10, <3>11
  <2> QED
    BY <2>1, <2>2
<1>9. Spelt(new)'
  BY <1>8 DEF Spelt
<1>10. Free(new) = Without(Free(lists), i, h)
  BY Zenon, <1>8 DEF Free, s, Without
<1> QED
  BY <1>4, <1>9, <1>10

\* dealloc: the block becomes the head of the list, and points to the old head.
LEMMA PushBlock ==
  ASSUME HeapTypeOK, NEW lists \in [Index -> Seq(Heap)], Spelt(lists),
         NEW i \in Index, NEW p \in Heap,
         \A j \in Index : p \notin Free(lists)[j],
         list_heads' = [list_heads EXCEPT ![i] = p],
         memory' = [memory EXCEPT ![p] = list_heads[i]]
  PROVE  \E new \in [Index -> Seq(Heap)] :
           /\ Spelt(new)'
           /\ Free(new) = With(Free(lists), i, p)
<1> DEFINE s == lists[i]
           t == [k \in 1 .. Len(s) + 1 |-> IF k = 1 THEN p ELSE s[k - 1]]
           new == [lists EXCEPT ![i] = t]
<1>1. s \in Seq(Heap) /\ Len(s) \in Nat
  OBVIOUS
<1>2. \A k \in 1 .. Len(s) : s[k] \in Heap
  BY <1>1
<1>3. \A k \in 1 .. Len(s) + 1 : k # 1 => k - 1 \in 1 .. Len(s)
  BY <1>1
<1>4. t \in Seq(Heap) /\ Len(t) = Len(s) + 1
  <2>1. t \in [1 .. Len(s) + 1 -> Heap]
    BY <1>2, <1>3
  <2>2. Len(s) + 1 \in Nat
    BY <1>1
  <2> HIDE DEF t, s
  <2> QED
    BY <2>1, <2>2
<1>5. t[1] = p /\ \A k \in 1 .. Len(s) : t[k + 1] = s[k]
  <2>1. 1 \in 1 .. Len(s) + 1
    BY <1>1
  <2>2. \A k \in 1 .. Len(s) : k + 1 \in 1 .. Len(s) + 1 /\ k + 1 # 1 /\ k + 1 - 1 = k
    BY <1>1
  <2> QED
    BY <2>1, <2>2
<1>6. new \in [Index -> Seq(Heap)] /\ new[i] = t
      /\ \A j \in Index \ {i} : new[j] = lists[j]
  BY <1>4
<1>7. /\ \A u \in Heap \ {p} : memory'[u] = memory[u]
      /\ memory'[p] = list_heads[i]
      /\ list_heads'[i] = p
      /\ \A j \in Index \ {i} : list_heads'[j] = list_heads[j]
  BY DEF HeapTypeOK
<1>8. ASSUME NEW j \in Index
      PROVE  \A k \in 1 .. Len(lists[j]) : memory'[lists[j][k]] = memory[lists[j][k]]
  <2>1. InList(lists[j]) = Free(lists)[j]
    BY DEF Free
  <2>2. \A k \in 1 .. Len(lists[j]) : lists[j][k] \in InList(lists[j])
    BY DEF InList
  <2>3. \A k \in 1 .. Len(lists[j]) : lists[j][k] \in Heap
    OBVIOUS
  <2> QED
    BY <1>7, <2>1, <2>2, <2>3
<1>9. \A k \in 1 .. Len(s) : s[k] # p
  <2>1. \A k \in 1 .. Len(s) : s[k] \in InList(s)
    BY DEF InList
  <2>2. InList(s) = Free(lists)[i]
    BY DEF Free
  <2> QED
    BY <2>1, <2>2
<1>10. \A k, m \in 1 .. Len(s) : s[k] = s[m] => k = m
  BY DEF Spelt
<1>11. \A k \in 1 .. Len(s) : memory'[s[k]] = IF k = Len(s) THEN Null ELSE s[k + 1]
  BY <1>8 DEF Spelt
<1>12. list_heads[i] = IF Len(s) = 0 THEN Null ELSE s[1]
  BY DEF Spelt
<1> HIDE DEF s, t, new
<1>13. ASSUME NEW j \in Index
       PROVE  /\ list_heads'[j] = IF Len(new[j]) = 0 THEN Null ELSE new[j][1]
              /\ \A k \in 1 .. Len(new[j]) :
                   memory'[new[j][k]] = IF k = Len(new[j]) THEN Null ELSE new[j][k + 1]
              /\ \A k, m \in 1 .. Len(new[j]) : new[j][k] = new[j][m] => k = m
              /\ InList(new[j]) = IF j = i THEN InList(s) \cup {p} ELSE InList(lists[j])
  <2>1. CASE j # i
    <3>1. new[j] = lists[j] /\ list_heads'[j] = list_heads[j]
      BY <1>6, <1>7, <2>1
    <3> QED
      BY <1>8, <2>1, <3>1 DEF Spelt
  <2>2. CASE j = i
    <3>1. new[j] = t /\ Len(new[j]) = Len(s) + 1
      BY <1>4, <1>6, <2>2
    <3>2. list_heads'[j] = IF Len(new[j]) = 0 THEN Null ELSE new[j][1]
      <4>1. Len(s) + 1 # 0
        BY <1>1
      <4> QED
        BY <1>5, <1>7, <2>2, <3>1, <4>1
    <3>3. ASSUME NEW k \in 1 .. Len(s) + 1
          PROVE  memory'[t[k]] = IF k = Len(s) + 1 THEN Null ELSE t[k + 1]
      <4>1. CASE k = 1
        <5>1. memory'[t[k]] = IF Len(s) = 0 THEN Null ELSE s[1]
          BY <1>5, <1>7, <1>12, <4>1
        <5>2. Len(s) # 0 => 1 \in 1 .. Len(s)
          BY <1>1
        <5>3. Len(s) # 0 => t[k + 1] = s[1]
          BY <1>5, <4>1, <5>2
        <5>4. Len(s) = 0 <=> k = Len(s) + 1
          BY <1>1, <4>1
        <5> QED
          BY <5>1, <5>3, <5>4
      <4>2. CASE k # 1
        <5>1. k - 1 \in 1 .. Len(s) /\ k - 1 + 1 = k
          BY <1>1, <1>3, <4>2
        <5>2. t[k] = s[k - 1]
          BY <1>5, <5>1
        <5>3. memory'[s[k - 1]] = IF k - 1 = Len(s) THEN Null ELSE s[k - 1 + 1]
          BY <1>11, <5>1
        <5>4. k - 1 = Len(s) <=> k = Len(s) + 1
          BY <1>1
        <5>5. k # Len(s) + 1 => k \in 1 .. Len(s)
          BY <1>1
        <5>6. k # Len(s) + 1 => t[k + 1] = s[k]
          BY <1>5, <5>5
        <5> QED
          BY <5>1, <5>2, <5>3, <5>4, <5>6
      <4> QED
        BY <4>1, <4>2
    <3>4. ASSUME NEW k \in 1 .. Len(s) + 1, NEW m \in 1 .. Len(s) + 1, t[k] = t[m]
          PROVE  k = m
      <4>1. ASSUME NEW n \in 1 .. Len(s) + 1, n # 1
            PROVE  n - 1 \in 1 .. Len(s) /\ t[n] = s[n - 1]
        <5>1. n - 1 \in 1 .. Len(s) /\ n - 1 + 1 = n
          BY <1>1, <1>3, <4>1
        <5> QED
          BY <1>5, <5>1
      <4>2. CASE k # 1 /\ m # 1
        <5>1. s[k - 1] = s[m - 1] /\ k - 1 \in 1 .. Len(s) /\ m - 1 \in 1 .. Len(s)
          BY <3>4, <4>1, <4>2
        <5>2. k - 1 = m - 1
          BY <1>10, <5>1
        <5> QED
          BY <1>1, <5>2
      <4>3. CASE k = 1 /\ m # 1
        BY <1>5, <1>9, <3>4, <4>1, <4>3
      <4>4. CASE k # 1 /\ m = 1
        BY Zenon, <1>5, <1>9, <3>4, <4>1, <4>4
      <4> QED
        BY <4>2, <4>3, <4>4
    <3>5. InList(t) = InList(s) \cup {p}
      <4>1. ASSUME NEW u \in InList(t) PROVE u \in InList(s) \cup {p}
        <5>1. PICK k \in 1 .. Len(s) + 1 : u = t[k]
          BY <1>4, <4>1 DEF InList
        <5>2. CASE k = 1
          BY <1>5, <5>1, <5>2
        <5>3. CASE k # 1
          <6>1. k - 1 \in 1 .. Len(s) /\ k - 1 + 1 = k
            BY <1>1, <1>3, <5>3
          <6>2. u = s[k - 1]
            BY <1>5, <5>1, <6>1
          <6> QED
            BY <6>1, <6>2 DEF InList
        <5> QED
          BY <5>2, <5>3
      <4>2. ASSUME NEW u \in InList(s) PROVE u \in InList(t)
        <5>1. PICK k \in 1 .. Len(s) : u = s[k]
          BY <4>2 DEF InList
        <5>2. k + 1 \in 1 .. Len(t)
          BY <1>1, <1>4
        <5>3. u = t[k + 1]
          BY <1>5, <5>1
        <5> QED
          BY <5>2, <5>3 DEF InList
      <4>3. p \in InList(t)
        <5>1. 1 \in 1 .. Len(t)
          BY <1>1, <1>4
        <5> QED
          BY <1>5, <5>1 DEF InList
      <4> QED
        BY <4>1, <4>2, <4>3
    <3>6. \A k \in 1 .. Len(new[j]) :
            memory'[new[j][k]] = IF k = Len(new[j]) THEN Null ELSE new[j][k + 1]
      BY <3>1, <3>3
    <3>7. \A k, m \in 1 .. Len(new[j]) : new[j][k] = new[j][m] => k = m
      BY <3>1, <3>4
    <3>8. InList(new[j]) = InList(s) \cup {p}
      BY <3>1, <3>5
    <3> QED
      BY <2>2, <3>2, <3>6, <3>7, <3>8
  <2> QED
    BY <2>1, <2>2
<1>14. Spelt(new)'
  BY <1>13 DEF Spelt
<1>15. Free(new) = With(Free(lists), i, p)
  BY Zenon, <1>13 DEF Free, s, With
<1> QED
  BY <1>6, <1>14, <1>15

\* A step that leaves list_heads and the free blocks' first units alone.
LEMMA SameLists ==
  ASSUME HeapTypeOK, NEW lists \in [Index -> Seq(Heap)], Spelt(lists),
         list_heads' = list_heads,
         \A i \in Index : \A p \in Free(lists)[i] : memory'[p] = memory[p]
  PROVE  Spelt(lists)'
<1>1. \A i \in Index : \A k \in 1 .. Len(lists[i]) : lists[i][k] \in Free(lists)[i]
  BY DEF Free, InList
<1>2. \A i \in Index : \A k \in 1 .. Len(lists[i]) :
        memory'[lists[i][k]] = memory[lists[i][k]]
  BY <1>1
<1> QED
  BY <1>2 DEF Spelt

\* A block of a list, in use, keeps the list's size and alignment.
LEMMA ListedUnits ==
  ASSUME NEW b \in Block, NEW i, i = list_index(b.layout), i # None
  PROVE  /\ i \in Index
         /\ UsedUnits(b) = FreeUnits(i, b.ptr)
         /\ FallbackLayout(b.layout).align = BLOCK_SIZES[i]
<1>1. b.layout \in Layout
  BY DEF Block
<1> QED
  BY <1>1, ListIndex DEF UsedUnits, FreeUnits, BlockExtent, FallbackLayout, Index

\* A unit of a block in use belongs to no free block.
LEMMA UsedNotFree ==
  ASSUME NEW free \in [Index -> SUBSET Heap], NEW hs, NEW bs \in SUBSET Block,
         Owned(free, hs, bs), NEW b \in bs, NEW u \in UsedUnits(b), NEW j \in Index
  PROVE  u \notin free[j]
<1> SUFFICES ASSUME u \in free[j] PROVE FALSE
  OBVIOUS
<1>1. u \in FreeUnits(j, u)
  BY BlockUnits
<1>2. FreeUnits(j, u) \cap UsedUnits(b) = {}
  BY DEF Owned
<1> QED
  BY <1>1, <1>2

LEMMA TakeBlock ==
  ASSUME NEW free \in [Index -> SUBSET Heap], NEW hs, NEW bs \in SUBSET Block,
         Owned(free, hs, bs), NEW b \in Block, NEW i, i = list_index(b.layout),
         i # None, b.ptr \in free[i]
  PROVE  /\ Owned(Without(free, i, b.ptr), hs, bs \cup {b})
         /\ \A j \in Index \ {i} : b.ptr \notin free[j]
         /\ \A c \in bs : UsedUnits(b) \cap UsedUnits(c) = {}
<1> DEFINE h == b.ptr
           new == [free EXCEPT ![i] = @ \ {h}]
<1>1. i \in Index /\ UsedUnits(b) = FreeUnits(i, h)
      /\ FallbackLayout(b.layout).align = BLOCK_SIZES[i]
  BY ListedUnits
<1>2. \A j \in Index : \A q : q \in new[j] <=> q \in free[j] /\ (j # i \/ q # h)
  BY <1>1
<1>3. /\ h % BLOCK_SIZES[i] = 0
      /\ FreeUnits(i, h) \subseteq Heap
      /\ FreeUnits(i, h) \cap hs = {}
      /\ \A c \in bs : FreeUnits(i, h) \cap UsedUnits(c) = {}
      /\ \A j \in Index : \A q \in free[j] :
           i # j \/ h # q => FreeUnits(i, h) \cap FreeUnits(j, q) = {}
  BY <1>1 DEF Owned
<1> HIDE DEF new, h
<1>4. ASSUME NEW u \in Heap
      PROVE  \/ u \in hs
             \/ \E c \in bs \cup {b} : u \in UsedUnits(c)
             \/ \E j \in Index : \E q \in new[j] : u \in FreeUnits(j, q)
  <2>1. CASE u \in hs \/ \E c \in bs : u \in UsedUnits(c)
    BY <2>1
  <2>2. CASE \E j \in Index : \E q \in free[j] : u \in FreeUnits(j, q)
    <3>0. PICK j \in Index : \E q \in free[j] : u \in FreeUnits(j, q)
      BY <2>2
    <3>1. PICK q \in free[j] : u \in FreeUnits(j, q)
      BY <3>0
    <3>2. CASE j = i /\ q = h
      BY <1>1, <3>1, <3>2
    <3>3. CASE j # i \/ q # h
      BY <1>2, <3>1, <3>3
    <3> QED
      BY <3>2, <3>3
  <2> QED
    BY <2>1, <2>2 DEF Owned
<1>5. ASSUME NEW c \in bs \cup {b}
      PROVE  /\ c.ptr % FallbackLayout(c.layout).align = 0
             /\ UsedUnits(c) \subseteq Heap
             /\ UsedUnits(c) \cap hs = {}
  BY <1>1, <1>3, <1>5 DEF Owned, h
<1>6. ASSUME NEW c \in bs \cup {b}, NEW d \in (bs \cup {b}) \ {c}
      PROVE  UsedUnits(c) \cap UsedUnits(d) = {}
  <2>1. CASE c \in bs /\ d \in bs
    BY <1>6, <2>1 DEF Owned
  <2>2. CASE c = b /\ d \in bs
    BY <1>1, <1>3, <2>2
  <2>3. CASE c \in bs /\ d = b
    BY <1>1, <1>3, <2>3
  <2> QED
    BY <1>6, <2>1, <2>2, <2>3
<1>7. ASSUME NEW j \in Index, NEW q \in new[j]
      PROVE  /\ q % BLOCK_SIZES[j] = 0
             /\ FreeUnits(j, q) \subseteq Heap
             /\ FreeUnits(j, q) \cap hs = {}
             /\ \A c \in bs \cup {b} : FreeUnits(j, q) \cap UsedUnits(c) = {}
             /\ \A k \in Index : \A r \in new[k] :
                  j # k \/ q # r => FreeUnits(j, q) \cap FreeUnits(k, r) = {}
  <2>1. q \in free[j] /\ (j # i \/ q # h)
    BY <1>2, <1>7
  <2>2. FreeUnits(j, q) \cap UsedUnits(b) = {}
    BY <1>1, <1>3, <2>1
  <2>3. \A k \in Index : new[k] \subseteq free[k]
    BY <1>2
  <2>4. /\ q % BLOCK_SIZES[j] = 0
        /\ FreeUnits(j, q) \subseteq Heap
        /\ FreeUnits(j, q) \cap hs = {}
        /\ \A c \in bs : FreeUnits(j, q) \cap UsedUnits(c) = {}
    BY <2>1 DEF Owned
  <2>5. \A k \in Index : \A r \in new[k] :
          j # k \/ q # r => FreeUnits(j, q) \cap FreeUnits(k, r) = {}
    BY <2>1, <2>3 DEF Owned
  <2> QED
    BY <2>2, <2>4, <2>5
<1>8. Owned(new, hs, bs \cup {b})
  BY <1>4, <1>5, <1>6, <1>7, Zenon DEF Owned
<1>9. ASSUME NEW j \in Index \ {i} PROVE h \notin free[j]
  <2>1. h \in Heap
    BY DEF Block, h
  <2>2. h \in FreeUnits(i, h) /\ h \in FreeUnits(j, h)
    BY <1>1, <2>1, BlockUnits
  <2> QED
    BY <1>3, <2>2
<1> QED
  BY <1>1, <1>3, <1>8, <1>9 DEF h, new, Without

LEMMA CutBlock ==
  ASSUME NEW free \in [Index -> SUBSET Heap], NEW hs \in SUBSET Heap,
         NEW bs \in SUBSET Block,
         Owned(free, hs, bs), NEW b \in Block, UsedUnits(b) \subseteq hs,
         b.ptr % FallbackLayout(b.layout).align = 0
  PROVE  /\ Owned(free, hs \ UsedUnits(b), bs \cup {b})
         /\ \A c \in bs : UsedUnits(b) \cap UsedUnits(c) = {}
<1> DEFINE U == UsedUnits(b)
<1>1. \A c \in bs : U \cap UsedUnits(c) = {}
  BY DEF Owned
<1>2. \A j \in Index : \A q \in free[j] : FreeUnits(j, q) \cap U = {}
  BY DEF Owned
<1>3. ASSUME NEW u \in Heap
      PROVE  \/ u \in hs \ U
             \/ \E c \in bs \cup {b} : u \in UsedUnits(c)
             \/ \E j \in Index : \E q \in free[j] : u \in FreeUnits(j, q)
  BY Zenon DEF Owned
<1>4. ASSUME NEW c \in bs \cup {b}
      PROVE  /\ c.ptr % FallbackLayout(c.layout).align = 0
             /\ UsedUnits(c) \subseteq Heap
             /\ UsedUnits(c) \cap (hs \ U) = {}
  BY <1>4 DEF Owned
<1>5. ASSUME NEW c \in bs \cup {b}, NEW d \in (bs \cup {b}) \ {c}
      PROVE  UsedUnits(c) \cap UsedUnits(d) = {}
  <2>1. CASE c \in bs /\ d \in bs
    BY <1>5, <2>1 DEF Owned
  <2>2. CASE c = b /\ d \in bs
    BY <1>1, <2>2
  <2>3. CASE c \in bs /\ d = b
    BY <1>1, <2>3
  <2> QED
    BY <1>5, <2>1, <2>2, <2>3
<1>6. ASSUME NEW j \in Index, NEW q \in free[j]
      PROVE  /\ q % BLOCK_SIZES[j] = 0
             /\ FreeUnits(j, q) \subseteq Heap
             /\ FreeUnits(j, q) \cap (hs \ U) = {}
             /\ \A c \in bs \cup {b} : FreeUnits(j, q) \cap UsedUnits(c) = {}
             /\ \A k \in Index : \A r \in free[k] :
                  j # k \/ q # r => FreeUnits(j, q) \cap FreeUnits(k, r) = {}
  BY <1>2 DEF Owned
<1> HIDE DEF U
<1>7. Owned(free, hs \ U, bs \cup {b})
  BY <1>3, <1>4, <1>5, <1>6, Zenon DEF Owned
<1> QED
  BY <1>1, <1>7 DEF U

LEMMA GiveBlock ==
  ASSUME NEW free \in [Index -> SUBSET Heap], NEW hs, NEW bs \in SUBSET Block,
         Owned(free, hs, bs), NEW b \in bs, NEW i, i = list_index(b.layout),
         i # None
  PROVE  Owned(With(free, i, b.ptr), hs, bs \ {b})
<1> DEFINE h == b.ptr
           new == [free EXCEPT ![i] = @ \cup {h}]
<1>1. i \in Index /\ UsedUnits(b) = FreeUnits(i, h)
      /\ FallbackLayout(b.layout).align = BLOCK_SIZES[i]
  BY ListedUnits
<1>2. \A j \in Index : \A q : q \in new[j] <=> q \in free[j] \/ (j = i /\ q = h)
  BY <1>1
<1>3. /\ h % BLOCK_SIZES[i] = 0
      /\ FreeUnits(i, h) \subseteq Heap
      /\ FreeUnits(i, h) \cap hs = {}
      /\ \A c \in bs \ {b} : FreeUnits(i, h) \cap UsedUnits(c) = {}
      /\ \A j \in Index : \A q \in free[j] : FreeUnits(i, h) \cap FreeUnits(j, q) = {}
  BY <1>1 DEF Owned
<1> HIDE DEF new, h
<1>4. ASSUME NEW u \in Heap
      PROVE  \/ u \in hs
             \/ \E c \in bs \ {b} : u \in UsedUnits(c)
             \/ \E j \in Index : \E q \in new[j] : u \in FreeUnits(j, q)
  <2>1. CASE u \in hs \/ \E j \in Index : \E q \in free[j] : u \in FreeUnits(j, q)
    BY <1>2, <2>1
  <2>2. CASE \E c \in bs : u \in UsedUnits(c)
    <3>1. PICK c \in bs : u \in UsedUnits(c)
      BY <2>2
    <3>2. CASE c = b
      <4>1. h \in new[i] /\ u \in FreeUnits(i, h)
        BY <1>1, <1>2, <3>1, <3>2
      <4> QED
        BY <1>1, <4>1
    <3> QED
      BY <3>1, <3>2
  <2> QED
    BY <2>1, <2>2 DEF Owned
<1>5. ASSUME NEW c \in bs \ {b}
      PROVE  /\ c.ptr % FallbackLayout(c.layout).align = 0
             /\ UsedUnits(c) \subseteq Heap
             /\ UsedUnits(c) \cap hs = {}
             /\ \A d \in (bs \ {b}) \ {c} : UsedUnits(c) \cap UsedUnits(d) = {}
  BY <1>5 DEF Owned
<1>6. ASSUME NEW j \in Index, NEW q \in new[j]
      PROVE  /\ q % BLOCK_SIZES[j] = 0
             /\ FreeUnits(j, q) \subseteq Heap
             /\ FreeUnits(j, q) \cap hs = {}
             /\ \A c \in bs \ {b} : FreeUnits(j, q) \cap UsedUnits(c) = {}
             /\ \A k \in Index : \A r \in new[k] :
                  j # k \/ q # r => FreeUnits(j, q) \cap FreeUnits(k, r) = {}
  <2>1. CASE j = i /\ q = h
    BY <1>2, <1>3, <2>1
  <2>2. CASE q \in free[j]
    <3>1. /\ q % BLOCK_SIZES[j] = 0
          /\ FreeUnits(j, q) \subseteq Heap
          /\ FreeUnits(j, q) \cap hs = {}
          /\ \A c \in bs \ {b} : FreeUnits(j, q) \cap UsedUnits(c) = {}
      BY <2>2 DEF Owned
    <3>2. ASSUME NEW k \in Index, NEW r \in new[k], j # k \/ q # r
          PROVE  FreeUnits(j, q) \cap FreeUnits(k, r) = {}
      <4>1. CASE r \in free[k]
        BY <2>2, <3>2, <4>1 DEF Owned
      <4>2. CASE k = i /\ r = h
        BY <1>3, <2>2, <4>2
      <4> QED
        BY <1>2, <4>1, <4>2
    <3> QED
      BY <3>1, <3>2
  <2> QED
    BY <1>2, <2>1, <2>2
<1>7. Owned(new, hs, bs \ {b})
  BY <1>4, <1>5, <1>6, Zenon DEF Owned
<1> QED
  BY <1>7 DEF h, new, With

LEMMA ReturnBlock ==
  ASSUME NEW free \in [Index -> SUBSET Heap], NEW hs \in SUBSET Heap,
         NEW bs \in SUBSET Block, Owned(free, hs, bs), NEW b \in bs
  PROVE  Owned(free, hs \cup UsedUnits(b), bs \ {b})
<1> DEFINE U == UsedUnits(b)
<1>1. \A c \in bs \ {b} : UsedUnits(c) \cap U = {}
  BY DEF Owned
<1>2. \A j \in Index : \A q \in free[j] : FreeUnits(j, q) \cap U = {}
  BY DEF Owned
<1>3. ASSUME NEW u \in Heap
      PROVE  \/ u \in hs \cup U
             \/ \E c \in bs \ {b} : u \in UsedUnits(c)
             \/ \E j \in Index : \E q \in free[j] : u \in FreeUnits(j, q)
  BY Zenon DEF Owned
<1>4. ASSUME NEW c \in bs \ {b}
      PROVE  /\ c.ptr % FallbackLayout(c.layout).align = 0
             /\ UsedUnits(c) \subseteq Heap
             /\ UsedUnits(c) \cap (hs \cup U) = {}
             /\ \A d \in (bs \ {b}) \ {c} : UsedUnits(c) \cap UsedUnits(d) = {}
  BY <1>1, <1>4 DEF Owned
<1>5. ASSUME NEW j \in Index, NEW q \in free[j]
      PROVE  /\ q % BLOCK_SIZES[j] = 0
             /\ FreeUnits(j, q) \subseteq Heap
             /\ FreeUnits(j, q) \cap (hs \cup U) = {}
             /\ \A c \in bs \ {b} : FreeUnits(j, q) \cap UsedUnits(c) = {}
             /\ \A k \in Index : \A r \in free[k] :
                  j # k \/ q # r => FreeUnits(j, q) \cap FreeUnits(k, r) = {}
  BY <1>2 DEF Owned
<1> HIDE DEF U
<1>6. Owned(free, hs \cup U, bs \ {b})
  BY <1>3, <1>4, <1>5, Zenon DEF Owned
<1> QED
  BY <1>6 DEF U

----------------------------------------------------------------------------
(***************************************************************************)
(* HeapInv holds initially, and every step preserves it.                   *)
(***************************************************************************)

LEMMA FreeType ==
  ASSUME NEW lists \in [Index -> Seq(Heap)]
  PROVE  Free(lists) \in [Index -> SUBSET Heap]
<1>1. \A i \in Index : \A k \in 1 .. Len(lists[i]) : lists[i][k] \in Heap
  OBVIOUS
<1> QED
  BY <1>1 DEF Free, InList

LEMMA HeapInvInit == HeapInit => HeapInv
<1> SUFFICES ASSUME HeapInit PROVE HeapInv
  OBVIOUS
<1> DEFINE lists == [i \in Index |-> <<>>]
<1>1. HeapTypeOK
  BY DEF HeapInit, HeapTypeOK, Index
<1>2. lists \in [Index -> Seq(Heap)] /\ \A i \in Index : lists[i] = <<>>
  OBVIOUS
<1>3. \A i \in Index : Len(lists[i]) = 0 /\ 1 .. Len(lists[i]) = {}
  BY <1>2
<1> HIDE DEF lists
<1>4. \A i \in Index : Free(lists)[i] = {}
  BY <1>3 DEF Free, InList
<1>5. Spelt(lists)
  BY <1>3 DEF Spelt, HeapInit, Index
<1>6. Owned(Free(lists), holes, live)
  BY <1>4 DEF Owned, HeapInit
<1> QED
  BY <1>1, <1>2, <1>5, <1>6 DEF HeapInv

\* what the store of blocks sees
Asked(blocks) == UNION {Extent(b.ptr, b.layout.size) : b \in blocks}
Contents == [u \in Asked(live) |-> memory[u]]

LEMMA StoreKept ==
  ASSUME NEW bs, bs \subseteq live, bs \subseteq live', bs \subseteq Block,
         \A b \in bs : \A u \in UsedUnits(b) : memory'[u] = memory[u]
  PROVE  \A b \in bs : \A u \in Store!Units(b) : Contents'[u] = Contents[u]
<1> SUFFICES ASSUME NEW b \in bs, NEW u \in Extent(b.ptr, b.layout.size)
             PROVE  Contents'[u] = Contents[u]
  BY DEF Store!Units, Extent
<1>1. u \in Asked(live) /\ u \in Asked(live')
  BY DEF Asked
<1>2. memory'[u] = memory[u]
  BY BlockUnits
<1> QED
  BY <1>1, <1>2 DEF Contents

LEMMA StoreAlloc ==
  ASSUME HeapTypeOK, NEW b \in Block, live' = live \cup {b},
         b.ptr % FallbackLayout(b.layout).align = 0,
         UsedUnits(b) \subseteq Heap,
         \A c \in live : UsedUnits(b) \cap UsedUnits(c) = {},
         \A c \in live : \A u \in UsedUnits(c) : memory'[u] = memory[u]
  PROVE  Store!Alloc
<1>1. b \notin live
  <2>1. b.ptr \in UsedUnits(b)
    BY BlockUnits
  <2> QED
    BY <2>1
<1>2. b.layout \in Layout /\ b.ptr \in Nat
  BY HeapAssumption DEF Block, Heap
<1>3. b.ptr % b.layout.align = 0
  BY <1>2, Fallback, Divides
<1>4. live \subseteq Block
  BY DEF HeapTypeOK
<1>5. Store!Units(b) \subseteq UsedUnits(b) /\ \A c \in live : Store!Units(c) \subseteq UsedUnits(c)
  BY <1>4, BlockUnits DEF Store!Units, Extent
<1>6. Store!Units(b) \subseteq 0 .. HEAP_SIZE - 1
  BY <1>5 DEF Heap
<1>7. \A c \in live : Store!Units(b) \cap Store!Units(c) = {}
  BY <1>5
<1>8. Store!Kept(live)
  <2>1. live \subseteq live /\ live \subseteq live'
    OBVIOUS
  <2>2. \A c \in live : \A u \in Store!Units(c) : Contents'[u] = Contents[u]
    BY <1>4, <2>1, StoreKept
  <2> QED
    BY Zenon, <2>2 DEF Store!Kept, Contents, Asked
<1>9. b \in live' \ live
  BY <1>1
<1> QED
  BY <1>2, <1>3, <1>6, <1>7, <1>8, <1>9 DEF Store!Alloc

LEMMA StoreFree ==
  ASSUME HeapTypeOK, NEW b \in live, live' = live \ {b},
         \A c \in live \ {b} : \A u \in UsedUnits(c) : memory'[u] = memory[u]
  PROVE  Store!Free
<1>1. live' \subseteq live /\ live' \subseteq Block
  BY DEF HeapTypeOK
<1>2. Store!Kept(live')
  <2>1. live' \subseteq live' /\ \A c \in live' : \A u \in UsedUnits(c) : memory'[u] = memory[u]
    OBVIOUS
  <2>2. \A c \in live' : \A u \in Store!Units(c) : Contents'[u] = Contents[u]
    BY <1>1, <2>1, StoreKept
  <2> QED
    BY Zenon, <2>2 DEF Store!Kept, Contents, Asked
<1> QED
  BY <1>2 DEF Store!Free

\* The types after a step, once the lists are known to be spelt out.
LEMMA HeadsType ==
  ASSUME NEW lists \in [Index -> Seq(Heap)], Spelt(lists)',
         NEW f, list_heads' = [i \in Index |-> f[i]]
  PROVE  list_heads' \in [Index -> Heap \cup {Null}]
<1>1. ASSUME NEW i \in Index PROVE list_heads'[i] \in Heap \cup {Null}
  <2>1. list_heads'[i] = IF Len(lists[i]) = 0 THEN Null ELSE lists[i][1]
    BY DEF Spelt
  <2>2. Len(lists[i]) # 0 => lists[i][1] \in Heap
    OBVIOUS
  <2> QED
    BY <2>1, <2>2
<1> QED
  BY <1>1

LEMMA AllocFromListStep ==
  ASSUME HeapInv, NEW l \in Layout, AllocFromList(l)
  PROVE  HeapInv' /\ Store!Alloc
<1> DEFINE i == list_index(l)
           h == list_heads[i]
           b == [ptr |-> h, layout |-> l]
<1>1. HeapTypeOK
  BY DEF HeapInv
<1>2. PICK lists \in [Index -> Seq(Heap)] :
        Spelt(lists) /\ Owned(Free(lists), holes, live)
  BY DEF HeapInv
<1>3. /\ i # None /\ h # Null
      /\ list_heads' = [list_heads EXCEPT ![i] = memory[h]]
      /\ memory' = [memory EXCEPT ![h] = Null]
      /\ live' = live \cup {b} /\ holes' = holes
  BY DEF AllocFromList, Own
<1>4. i \in Index
  BY <1>3, ListIndex DEF Index
<1> HIDE DEF i
<1>5. h \in Heap /\ h \in Free(lists)[i]
  BY <1>1, <1>2, <1>3, <1>4, HeadIsFree
<1>6. b \in Block /\ b.ptr = h /\ b.layout = l
  BY <1>5 DEF Block
<1> HIDE DEF h, b
<1>7. Free(lists) \in [Index -> SUBSET Heap] /\ live \in SUBSET Block
  BY <1>1, FreeType DEF HeapTypeOK
<1>8. /\ Owned(Without(Free(lists), i, h), holes, live \cup {b})
      /\ \A j \in Index \ {i} : h \notin Free(lists)[j]
      /\ \A c \in live : UsedUnits(b) \cap UsedUnits(c) = {}
      /\ b.ptr % FallbackLayout(b.layout).align = 0
      /\ UsedUnits(b) \subseteq Heap
  <2>1. i = list_index(b.layout) /\ b.ptr \in Free(lists)[i] /\ i # None
    BY <1>3, <1>5, <1>6 DEF i
  <2>2. b \in Block /\ Owned(Free(lists), holes, live)
    BY <1>2, <1>6
  <2>3. Owned(Without(Free(lists), i, b.ptr), holes, live \cup {b})
    BY <1>7, <2>1, <2>2, TakeBlock, Zenon
  <2>4. \A j \in Index \ {i} : b.ptr \notin Free(lists)[j]
    BY <1>7, <2>1, <2>2, TakeBlock, Zenon
  <2>5. \A c \in live : UsedUnits(b) \cap UsedUnits(c) = {}
    BY <1>7, <2>1, <2>2, TakeBlock, Zenon
  <2>6. b.ptr % FallbackLayout(b.layout).align = 0 /\ UsedUnits(b) \subseteq Heap
    BY <2>3 DEF Owned
  <2> QED
    BY <1>6, <2>3, <2>4, <2>5, <2>6
<1>9. PICK new \in [Index -> Seq(Heap)] :
        Spelt(new)' /\ Free(new) = Without(Free(lists), i, h)
  <2>1. h = list_heads[i]
    BY DEF h
  <2> QED
    BY Zenon, <1>1, <1>2, <1>3, <1>4, <1>8, <2>1, PopBlock
<1>10. Owned(Free(new), holes', live')
  BY <1>3, <1>8, <1>9
<1>11. HeapTypeOK'
  <2>1. list_heads' \in [Index -> Heap \cup {Null}]
    <3>1. list_heads' = [j \in Index |-> list_heads'[j]]
      BY Zenon, <1>1, <1>3 DEF HeapTypeOK
    <3> QED
      BY Zenon, <1>9, <3>1, HeadsType
  <2>2. memory' \in [Heap -> Heap \cup {Null, Data}]
    BY Zenon, <1>1, <1>3 DEF HeapTypeOK
  <2>3. holes' \subseteq Heap /\ live' \subseteq Block
    BY <1>1, <1>3, <1>6 DEF HeapTypeOK
  <2> QED
    BY <2>1, <2>2, <2>3 DEF HeapTypeOK
<1>12. HeapInv'
  BY <1>9, <1>10, <1>11 DEF HeapInv
<1>13. ASSUME NEW c \in live, NEW u \in UsedUnits(c) PROVE memory'[u] = memory[u]
  <2>1. u \notin Free(lists)[i]
    BY Zenon, <1>2, <1>4, <1>7, UsedNotFree
  <2>2. u \in Heap
    BY <1>2 DEF Owned
  <2> QED
    BY <1>1, <1>3, <1>5, <2>1, <2>2 DEF HeapTypeOK
<1>14. Store!Alloc
  BY <1>1, <1>3, <1>6, <1>8, <1>13, StoreAlloc
<1> QED
  BY <1>12, <1>14

LEMMA AllocFromFallbackStep ==
  ASSUME HeapInv, NEW l \in Layout, AllocFromFallback(l)
  PROVE  HeapInv' /\ Store!Alloc
<1> DEFINE f == align_layout(FallbackLayout(l))
           p == FirstFit(f)
           b == [ptr |-> p, layout |-> l]
<1>1. HeapTypeOK
  BY DEF HeapInv
<1>2. PICK lists \in [Index -> Seq(Heap)] :
        Spelt(lists) /\ Owned(Free(lists), holes, live)
  BY DEF HeapInv
<1>3. /\ p # Null
      /\ holes' = holes \ Extent(p, f.size)
      /\ live' = live \cup {b}
      /\ list_heads' = list_heads /\ memory' = memory
  BY DEF AllocFromFallback, Own
<1>4. f.align \in Nat \ {0} /\ f.align = FallbackLayout(l).align
  BY FallbackType, Aligned
<1>5. p \in holes /\ p % f.align = 0 /\ Extent(p, f.size) \subseteq holes
  BY <1>1, <1>3, <1>4, FirstFitFits DEF HeapTypeOK
<1> HIDE DEF p
<1>6. holes \in SUBSET Heap /\ live \in SUBSET Block
  BY <1>1 DEF HeapTypeOK
<1>7. b \in Block /\ b.ptr = p /\ b.layout = l
  BY <1>5, <1>6 DEF Block
<1>8. UsedUnits(b) = Extent(p, f.size) /\ b.ptr % FallbackLayout(b.layout).align = 0
  BY <1>4, <1>5 DEF UsedUnits, BlockExtent
<1> HIDE DEF f, b
<1>9. Free(lists) \in [Index -> SUBSET Heap]
  BY FreeType
<1>10. UsedUnits(b) \subseteq holes
  BY <1>5, <1>8
<1>11. /\ Owned(Free(lists), holes \ UsedUnits(b), live \cup {b})
       /\ \A c \in live : UsedUnits(b) \cap UsedUnits(c) = {}
  BY <1>2, <1>6, <1>7, <1>8, <1>9, <1>10, CutBlock, Zenon
<1>12. Owned(Free(lists), holes', live')
  BY <1>3, <1>8, <1>11
<1>13. Spelt(lists)'
  BY <1>1, <1>2, <1>3, SameLists
<1>14. HeapTypeOK'
  BY <1>1, <1>3, <1>7 DEF HeapTypeOK
<1>15. HeapInv'
  BY <1>12, <1>13, <1>14 DEF HeapInv
<1>16. UsedUnits(b) \subseteq Heap
  BY <1>6, <1>10
<1>17. Store!Alloc
  BY <1>1, <1>3, <1>7, <1>8, <1>11, <1>16, StoreAlloc
<1> QED
  BY <1>15, <1>17

LEMMA DeallocToListStep ==
  ASSUME HeapInv, NEW b \in live, DeallocToList(b)
  PROVE  HeapInv' /\ Store!Free
<1> DEFINE i == list_index(b.layout)
           p == b.ptr
<1>1. HeapTypeOK
  BY DEF HeapInv
<1>2. PICK lists \in [Index -> Seq(Heap)] :
        Spelt(lists) /\ Owned(Free(lists), holes, live)
  BY DEF HeapInv
<1>3. /\ i # None
      /\ memory' = [memory EXCEPT ![p] = list_heads[i]]
      /\ list_heads' = [list_heads EXCEPT ![i] = p]
      /\ live' = live \ {b} /\ holes' = holes
  BY DEF DeallocToList
<1>4. live \in SUBSET Block /\ b \in Block /\ p \in Heap
  BY <1>1 DEF HeapTypeOK, Block
<1>5. i \in Index /\ i = list_index(b.layout) /\ i # None
  BY <1>3, <1>4, ListedUnits
<1>6. Free(lists) \in [Index -> SUBSET Heap]
  BY FreeType
<1>7. p \in UsedUnits(b)
  BY <1>4, BlockUnits
<1> HIDE DEF i
<1>8. \A j \in Index : p \notin Free(lists)[j]
  BY <1>2, <1>4, <1>6, <1>7, UsedNotFree, Zenon
<1>9. Owned(With(Free(lists), i, p), holes, live \ {b})
  BY <1>2, <1>4, <1>5, <1>6, GiveBlock, Zenon
<1> HIDE DEF p
<1>10. PICK new \in [Index -> Seq(Heap)] :
         Spelt(new)' /\ Free(new) = With(Free(lists), i, p)
  BY Zenon, <1>1, <1>2, <1>3, <1>4, <1>5, <1>8, PushBlock
<1>11. Owned(Free(new), holes', live')
  BY <1>3, <1>9, <1>10
<1>12. HeapTypeOK'
  <2>1. list_heads' \in [Index -> Heap \cup {Null}]
    BY Zenon, <1>1, <1>3, <1>4 DEF HeapTypeOK
  <2>2. memory' \in [Heap -> Heap \cup {Null, Data}]
    BY Zenon, <1>1, <1>3, <1>5 DEF HeapTypeOK
  <2>3. holes' \subseteq Heap /\ live' \subseteq Block
    BY <1>1, <1>3 DEF HeapTypeOK
  <2> QED
    BY <2>1, <2>2, <2>3 DEF HeapTypeOK
<1>13. HeapInv'
  BY <1>10, <1>11, <1>12 DEF HeapInv
<1>14. ASSUME NEW c \in live \ {b}, NEW u \in UsedUnits(c) PROVE memory'[u] = memory[u]
  <2>1. UsedUnits(c) \subseteq Heap /\ UsedUnits(c) \cap UsedUnits(b) = {}
    BY <1>2 DEF Owned
  <2> QED
    BY <1>1, <1>3, <1>7, <2>1 DEF HeapTypeOK
<1>15. Store!Free
  BY <1>1, <1>3, <1>14, StoreFree
<1> QED
  BY <1>13, <1>15

LEMMA DeallocToFallbackStep ==
  ASSUME HeapInv, NEW b \in live, DeallocToFallback(b)
  PROVE  HeapInv' /\ Store!Free
<1>1. HeapTypeOK
  BY DEF HeapInv
<1>2. PICK lists \in [Index -> Seq(Heap)] :
        Spelt(lists) /\ Owned(Free(lists), holes, live)
  BY DEF HeapInv
<1>3. /\ list_index(b.layout) = None
      /\ holes' = holes \cup Extent(b.ptr, align_layout(b.layout).size)
      /\ live' = live \ {b}
      /\ list_heads' = list_heads /\ memory' = memory
  BY DEF DeallocToFallback
<1>4. holes \in SUBSET Heap /\ live \in SUBSET Block /\ b.layout \in Layout
  BY <1>1 DEF HeapTypeOK, Block
<1>5. UsedUnits(b) = Extent(b.ptr, align_layout(b.layout).size)
  BY <1>3, <1>4, Fallback DEF UsedUnits, BlockExtent
<1>6. Free(lists) \in [Index -> SUBSET Heap]
  BY FreeType
<1>7. Owned(Free(lists), holes \cup UsedUnits(b), live \ {b})
  BY <1>2, <1>4, <1>6, ReturnBlock, Zenon
<1>8. Owned(Free(lists), holes', live')
  BY <1>3, <1>5, <1>7
<1>9. Spelt(lists)'
  BY <1>1, <1>2, <1>3, SameLists
<1>10. HeapTypeOK'
  <2>1. UsedUnits(b) \subseteq Heap
    BY <1>2 DEF Owned
  <2> QED
    BY <1>1, <1>3, <1>5, <2>1 DEF HeapTypeOK
<1>11. HeapInv'
  BY <1>8, <1>9, <1>10 DEF HeapInv
<1>12. Store!Free
  BY <1>1, <1>3, StoreFree
<1> QED
  BY <1>11, <1>12

LEMMA WriteBlockStep ==
  ASSUME HeapInv, NEW b \in live, WriteBlock(b)
  PROVE  HeapInv' /\ Store!Write
<1>1. HeapTypeOK
  BY DEF HeapInv
<1>2. PICK lists \in [Index -> Seq(Heap)] :
        Spelt(lists) /\ Owned(Free(lists), holes, live)
  BY DEF HeapInv
<1>3. /\ memory' = [u \in Heap |->
                      IF u \in Extent(b.ptr, b.layout.size) THEN Data ELSE memory[u]]
      /\ list_heads' = list_heads /\ holes' = holes /\ live' = live
  BY DEF WriteBlock
<1>4. live \in SUBSET Block
  BY <1>1 DEF HeapTypeOK
<1>5. \A u \in Heap \ UsedUnits(b) : memory'[u] = memory[u]
  BY <1>3, <1>4, BlockUnits
<1>6. Free(lists) \in [Index -> SUBSET Heap]
  BY FreeType
<1>7. \A j \in Index : \A p \in Free(lists)[j] : p \in Heap /\ p \notin UsedUnits(b)
  BY <1>2, <1>4, <1>6, UsedNotFree, Zenon
<1>8. Spelt(lists)'
  <2>1. \A j \in Index : \A p \in Free(lists)[j] : memory'[p] = memory[p]
    BY <1>5, <1>7
  <2> QED
    BY <1>1, <1>2, <1>3, <2>1, SameLists
<1>9. HeapTypeOK'
  BY <1>1, <1>3 DEF HeapTypeOK
<1>10. Owned(Free(lists), holes', live')
  BY <1>2, <1>3
<1>11. HeapInv'
  BY <1>8, <1>9, <1>10 DEF HeapInv
<1>12. Store!Write
  <2> DEFINE bs == live \ {b}
  <2>1. ASSUME NEW c \in bs, NEW u \in UsedUnits(c) PROVE memory'[u] = memory[u]
    <3>1. UsedUnits(c) \subseteq Heap /\ UsedUnits(c) \cap UsedUnits(b) = {}
      BY <1>2 DEF Owned
    <3> QED
      BY <1>5, <3>1
  <2>2. bs \subseteq live /\ bs \subseteq live' /\ bs \subseteq Block
    BY <1>3, <1>4
  <2>3. \A c \in bs : \A u \in Store!Units(c) : Contents'[u] = Contents[u]
    <3> HIDE DEF bs
    <3> QED
      BY <2>1, <2>2, StoreKept
  <2>4. Store!Kept(live \ {b})
    BY Zenon, <2>3 DEF Store!Kept, Contents, Asked
  <2> QED
    BY Zenon, <1>3, <2>4 DEF Store!Write
<1> QED
  BY <1>11, <1>12

LEMMA HeapStep ==
  ASSUME HeapInv, [HeapNext]_heapVars
  PROVE  HeapInv' /\ [Store!StoreNext]_<<live, Contents>>
<1>1. CASE UNCHANGED heapVars
  <2>1. UNCHANGED <<list_heads, memory, holes, live>>
    BY <1>1 DEF heapVars
  <2>2. HeapInv'
    <3>1. HeapTypeOK'
      BY <2>1 DEF HeapInv, HeapTypeOK
    <3>2. PICK lists \in [Index -> Seq(Heap)] :
            Spelt(lists) /\ Owned(Free(lists), holes, live)
      BY DEF HeapInv
    <3>3. Spelt(lists)' /\ Owned(Free(lists), holes', live')
      BY <2>1, <3>2 DEF Spelt
    <3> QED
      BY <3>1, <3>3 DEF HeapInv
  <2>3. UNCHANGED <<live, Contents>>
    BY <2>1 DEF Contents, Asked
  <2> QED
    BY <2>2, <2>3
<1>2. ASSUME NEW l \in Layout, AllocFromList(l) \/ AllocFromFallback(l)
      PROVE  HeapInv' /\ Store!StoreNext
  BY <1>2, AllocFromListStep, AllocFromFallbackStep DEF Store!StoreNext
<1>3. ASSUME NEW b \in live, DeallocToList(b) \/ DeallocToFallback(b) \/ WriteBlock(b)
      PROVE  HeapInv' /\ Store!StoreNext
  BY <1>3, DeallocToListStep, DeallocToFallbackStep, WriteBlockStep DEF Store!StoreNext
<1> QED
  BY <1>1, <1>2, <1>3 DEF HeapNext

----------------------------------------------------------------------------
\* Different units make a list no longer than the heap.
LEMMA ListLength ==
  ASSUME NEW list \in Seq(Heap),
         \A k, m \in 1 .. Len(list) : list[k] = list[m] => k = m
  PROVE  Len(list) \in 0 .. HEAP_SIZE
<1> DEFINE n == Len(list)
<1>1. n \in Nat /\ HEAP_SIZE \in Nat
  BY HeapAssumption
<1>2. list \in [1 .. n -> Heap]
  OBVIOUS
<1>3. IsInjective(list)
  BY <1>2 DEF IsInjective
<1> HIDE DEF n
<1>4. IsFiniteSet(1 .. n) /\ Cardinality(1 .. n) = n
  <2>1. 1 <= n \/ 1 > n
    BY <1>1
  <2> QED
    BY <1>1, FS_Interval
<1>5. IsFiniteSet(Heap) /\ Cardinality(Heap) = HEAP_SIZE
  BY <1>1, FS_Interval DEF Heap
<1>6. n <= HEAP_SIZE
  <2>1. list \in Injection(1 .. n, Heap)
    BY <1>2, <1>3 DEF Injection
  <2>2. Cardinality(1 .. n) <= Cardinality(Heap)
    BY <1>5, <2>1, FS_Injection
  <2> QED
    BY <1>4, <1>5, <2>2
<1> QED
  BY <1>1, <1>6 DEF n

\* the equation of Chain(i)
Follows(i, at) ==
  at = [k \in 0 .. HEAP_SIZE |->
          IF k = 0 THEN list_heads[i]
          ELSE IF at[k - 1] \in Heap THEN memory[at[k - 1]] ELSE Null]

\* Following the pointers leads through the list and ends in Null.
LEMMA ChainIsList ==
  ASSUME HeapTypeOK, NEW lists \in [Index -> Seq(Heap)], Spelt(lists), NEW i \in Index
  PROVE  Chain(i)[HEAP_SIZE] = Null /\ FreeBlocks(i) = Free(lists)[i]
<1> DEFINE s == lists[i]
           n == Len(s)
           g == [k \in 0 .. HEAP_SIZE |-> IF k < n THEN s[k + 1] ELSE Null]
<1>1. s \in Seq(Heap) /\ HEAP_SIZE \in Nat
  BY HeapAssumption
<1>2. n \in 0 .. HEAP_SIZE /\ n \in Nat
  <2>1. \A k, m \in 1 .. Len(s) : s[k] = s[m] => k = m
    BY DEF Spelt
  <2> QED
    BY <1>1, <2>1, ListLength
<1>3. list_heads[i] = IF n = 0 THEN Null ELSE s[1]
  BY DEF Spelt
<1>4. \A k \in 1 .. n : memory[s[k]] = IF k = n THEN Null ELSE s[k + 1]
  BY DEF Spelt
<1>5. \A k \in 1 .. n : s[k] \in Heap
  BY <1>1
<1>6. Null \notin Heap
  BY <1>1 DEF Null, Heap
<1>7. InList(s) = Free(lists)[i]
  BY DEF Free
<1>8. InList(s) = {s[k] : k \in 1 .. n}
  BY DEF InList
<1> HIDE DEF s, n
<1>9. ASSUME NEW k \in 0 .. HEAP_SIZE
      PROVE  g[k] = IF k = 0 THEN list_heads[i]
                    ELSE IF g[k - 1] \in Heap THEN memory[g[k - 1]] ELSE Null
  <2>1. CASE k = 0
    BY <1>1, <1>2, <1>3, <2>1
  <2>2. CASE k # 0 /\ k - 1 < n
    <3>1. k \in 1 .. n /\ k - 1 \in 0 .. HEAP_SIZE /\ k - 1 + 1 = k
      BY <1>1, <1>2, <2>2
    <3>2. g[k - 1] = s[k]
      BY <2>2, <3>1
    <3>3. g[k] = IF k = n THEN Null ELSE s[k + 1]
      BY <1>2, <3>1
    <3> QED
      BY <1>4, <1>5, <2>2, <3>1, <3>2, <3>3
  <2>3. CASE k # 0 /\ ~(k - 1 < n)
    <3>1. k - 1 \in 0 .. HEAP_SIZE /\ ~(k < n)
      BY <1>1, <1>2, <2>3
    <3>2. g[k - 1] = Null /\ g[k] = Null
      BY <2>3, <3>1
    <3> QED
      BY <1>6, <2>3, <3>2
  <2> QED
    BY <2>1, <2>2, <2>3
<1>10. Follows(i, g)
  <2> DEFINE r == [k \in 0 .. HEAP_SIZE |->
                    IF k = 0 THEN list_heads[i]
                    ELSE IF g[k - 1] \in Heap THEN memory[g[k - 1]] ELSE Null]
  <2>1. \A k \in 0 .. HEAP_SIZE : r[k] = g[k]
    BY <1>9
  <2>2. r = [k \in 0 .. HEAP_SIZE |-> r[k]] /\ g = [k \in 0 .. HEAP_SIZE |-> g[k]]
    OBVIOUS
  <2>3. r = g
    <3> HIDE DEF r, g
    <3> QED
      BY <2>1, <2>2
  <2> QED
    BY Zenon, <2>3 DEF Follows
<1>11. ASSUME NEW at, Follows(i, at) PROVE at = g
  <2>0. /\ at = [k \in 0 .. HEAP_SIZE |-> at[k]]
        /\ \A k \in 0 .. HEAP_SIZE :
             at[k] = IF k = 0 THEN list_heads[i]
                     ELSE IF at[k - 1] \in Heap THEN memory[at[k - 1]] ELSE Null
    BY Zenon, <1>11 DEF Follows
  <2> DEFINE T == {k \in 0 .. HEAP_SIZE : at[k] # g[k]}
             m == Min(T)
  <2>1. T \in SUBSET Nat
    BY <1>1
  <2> HIDE DEF g
  <2>2. ASSUME T # {} PROVE FALSE
    <3>1. m \in T /\ \A y \in T : m <= y
      BY Zenon, <2>1, <2>2, NatMin
    <3> HIDE DEF m
    <3>2. m \in 0 .. HEAP_SIZE /\ at[m] # g[m]
      BY <3>1
    <3>3. CASE m = 0
      BY <1>9, <2>0, <3>2, <3>3
    <3>4. CASE m # 0
      <4>1. m - 1 \in 0 .. HEAP_SIZE /\ ~(m <= m - 1)
        BY <1>1, <3>2, <3>4
      <4>2. m - 1 \notin T
        BY <3>1, <4>1
      <4>3. at[m - 1] = g[m - 1]
        BY <4>1, <4>2
      <4> QED
        BY Zenon, <1>9, <2>0, <3>2, <3>4, <4>3
    <3> QED
      BY <3>3, <3>4
  <2>3. \A k \in 0 .. HEAP_SIZE : at[k] = g[k]
    BY <2>2
  <2>4. g = [k \in 0 .. HEAP_SIZE |-> g[k]]
    BY DEF g
  <2> QED
    BY <2>0, <2>3, <2>4
<1>12. Chain(i) = CHOOSE at : Follows(i, at)
  BY DEF Chain, Follows
<1>13. Chain(i) = g
  <2> HIDE DEF g
  <2> QED
    BY <1>10, <1>11, <1>12
<1>14. Chain(i)[HEAP_SIZE] = Null
  BY <1>1, <1>2, <1>13
<1>15. FreeBlocks(i) = {g[k] : k \in 0 .. HEAP_SIZE} \ {Null}
  BY <1>13 DEF FreeBlocks
<1>16. {g[k] : k \in 0 .. HEAP_SIZE} \ {Null} = InList(s)
  <2>1. ASSUME NEW k \in 0 .. HEAP_SIZE, g[k] # Null PROVE g[k] \in InList(s)
    <3>1. k < n /\ g[k] = s[k + 1]
      BY <2>1
    <3>2. k + 1 \in 1 .. n
      BY <1>2, <3>1
    <3> QED
      BY <1>8, <3>1, <3>2
  <2>2. ASSUME NEW k \in 1 .. n
        PROVE  s[k] # Null /\ \E m \in 0 .. HEAP_SIZE : s[k] = g[m]
    <3>1. k - 1 \in 0 .. HEAP_SIZE /\ k - 1 < n /\ k - 1 + 1 = k
      BY <1>1, <1>2
    <3>2. g[k - 1] = s[k]
      BY <3>1
    <3>3. s[k] # Null
      BY <1>5, <1>6
    <3> QED
      BY <3>1, <3>2, <3>3
  <2> HIDE DEF g
  <2> QED
    BY <1>8, <2>1, <2>2
<1> QED
  BY <1>7, <1>14, <1>15, <1>16

LEMMA HeapInvPartitions == HeapInv => MemoryIsPartitioned
<1> SUFFICES ASSUME HeapInv PROVE MemoryIsPartitioned
  OBVIOUS
<1>1. PICK lists \in [Index -> Seq(Heap)] :
        Spelt(lists) /\ Owned(Free(lists), holes, live)
  BY DEF HeapInv
<1>2. \A i \in Index : Chain(i)[HEAP_SIZE] = Null /\ FreeBlocks(i) = Free(lists)[i]
  BY <1>1, ChainIsList DEF HeapInv
<1> DEFINE free == Free(lists)
<1>3. \A u \in Heap :
        \/ u \in holes
        \/ \E b \in live : u \in UsedUnits(b)
        \/ \E i \in Index : \E p \in FreeBlocks(i) : u \in FreeUnits(i, p)
  <2>1. \A u \in Heap :
          \/ u \in holes
          \/ \E b \in live : u \in UsedUnits(b)
          \/ \E i \in Index : \E p \in free[i] : u \in FreeUnits(i, p)
    BY <1>1 DEF Owned
  <2> HIDE DEF free
  <2>2. \A i \in Index : FreeBlocks(i) = free[i]
    BY <1>2 DEF free
  <2> QED
    BY <2>1, <2>2
<1>4. \A b \in live :
        /\ UsedUnits(b) \cap holes = {}
        /\ \A c \in live \ {b} : UsedUnits(b) \cap UsedUnits(c) = {}
  BY <1>1 DEF Owned
<1>5. ASSUME NEW i \in Index, NEW p \in FreeBlocks(i)
      PROVE  /\ FreeUnits(i, p) \cap holes = {}
             /\ \A b \in live : FreeUnits(i, p) \cap UsedUnits(b) = {}
             /\ \A j \in Index : \A q \in FreeBlocks(j) :
                  i # j \/ p # q => FreeUnits(i, p) \cap FreeUnits(j, q) = {}
  <2>1. \A j \in Index : FreeBlocks(j) = free[j]
    BY <1>2
  <2>2. p \in free[i]
    BY <1>5, <2>1
  <2>3. /\ FreeUnits(i, p) \cap holes = {}
        /\ \A b \in live : FreeUnits(i, p) \cap UsedUnits(b) = {}
        /\ \A j \in Index : \A q \in free[j] :
             i # j \/ p # q => FreeUnits(i, p) \cap FreeUnits(j, q) = {}
    BY <1>1, <2>2 DEF Owned
  <2> HIDE DEF free
  <2> QED
    BY <2>1, <2>3
<1> QED
  BY <1>2, <1>3, <1>4, <1>5 DEF MemoryIsPartitioned, Index

----------------------------------------------------------------------------
(***************************************************************************)
(* The theorems.                                                           *)
(***************************************************************************)

\* No memory is lost or has two owners, and every free list ends, whatever the
\* sizes of the heap and of the blocks: alloc and dealloc of the fixed-size
\* block allocator keep the lists, the holes and the blocks in use apart.
THEOREM MemoryStaysPartitioned == HeapSpec => []MemoryIsPartitioned
<1>1. HeapInit => HeapInv
  BY HeapInvInit
<1>2. HeapInv /\ [HeapNext]_heapVars => HeapInv'
  BY HeapStep
<1>3. HeapInv => MemoryIsPartitioned
  BY HeapInvPartitions
<1> QED
  BY <1>1, <1>2, <1>3, PTL DEF HeapSpec

\* alloc and dealloc implement a store of blocks: alloc returns an aligned block
\* of the heap that overlaps no block in use, and no step but its owner's write
\* changes a block in use, although the lists are kept in the same memory.
THEOREM HeapImplementsBlockStore == HeapSpec => HeapIsBlockStore
<1>1. HeapInit => HeapInv
  BY HeapInvInit
<1>2. HeapInit => Store!StoreInit
  <2> SUFFICES ASSUME HeapInit PROVE Store!StoreInit
    OBVIOUS
  <2>1. live = {}
    BY DEF HeapInit
  <2>2. Asked(live) = {}
    BY <2>1 DEF Asked
  <2>3. Contents = [u \in {} |-> 0]
    BY <2>2 DEF Contents
  <2> QED
    BY <2>1, <2>3 DEF Store!StoreInit, Contents, Asked
<1>3. HeapInv /\ [HeapNext]_heapVars => HeapInv'
  BY HeapStep
<1>4. HeapInv /\ [HeapNext]_heapVars => [Store!StoreNext]_<<live, Contents>>
  BY HeapStep
<1>5. HeapInv /\ [HeapNext]_heapVars
        => [Store!StoreNext]_<<live, [u \in UNION {Extent(b.ptr, b.layout.size) :
                                                     b \in live} |-> memory[u]]>>
  BY <1>4 DEF Contents, Asked
<1> QED
  BY <1>1, <1>2, <1>3, <1>5, PTL DEF HeapSpec, HeapIsBlockStore, Store!StoreSpec
============================================================================
