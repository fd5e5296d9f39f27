---------------------------- MODULE MemoryProofs ----------------------------
(***************************************************************************)
(* Proofs about Memory: for any memory map, any size of the tables and any *)
(* pages that the loader and the kernel map.                               *)
(***************************************************************************)
EXTENDS Memory, TLAPS

----------------------------------------------------------------------------
(***************************************************************************)
(* A page and the four indices into the tables determine each other.       *)
(***************************************************************************)

LEMMA DivMod ==
  ASSUME NEW a \in Nat, NEW b \in Nat \ {0}
  PROVE  /\ a \div b \in Nat /\ a % b \in Nat /\ a % b < b
         /\ a = b * (a \div b) + (a % b)
OBVIOUS

LEMMA MulDiv ==
  ASSUME NEW i \in Nat, NEW p \in Nat \ {0}, NEW k \in Nat \ {0}
  PROVE  (i * p) \div (p * k) = i \div k
OBVIOUS

LEMMA DivDiv ==
  ASSUME NEW a \in Nat, NEW b \in Nat \ {0}, NEW c \in Nat \ {0}
  PROVE  (a \div b) \div c = a \div (b * c)
OBVIOUS

LEMMA DivOne ==
  ASSUME NEW a \in Nat
  PROVE  a \div 1 = a
OBVIOUS

LEMMA DivLess ==
  ASSUME NEW a \in Nat, NEW b \in Nat \ {0}, NEW c \in Nat \ {0}, a < b * c
  PROVE  a \div b < c
<1> DEFINE q == a \div b
<1>1. q \in Nat /\ b * q <= a
  OBVIOUS
<1>2. b * q < b * c
  <2> HIDE DEF q
  <2> QED
    BY <1>1
<1> HIDE DEF q
<1>3. q >= c => b * q >= b * c
  BY <1>1
<1> QED
  BY <1>1, <1>2, <1>3 DEF q

\* Two numbers with the same quotient and remainder are the same.
LEMMA SameDigits ==
  ASSUME NEW a \in Nat, NEW b \in Nat, NEW e \in Nat \ {0},
         a \div e = b \div e, a % e = b % e
  PROVE  a = b
BY DivMod

E == ENTRY_COUNT
Slot == 0 .. E - 1

LEMMA PageNumber ==
  ASSUME NEW i \in Nat
  PROVE  /\ Index(i * PAGE_SIZE, 1) = i % E
         /\ Index(i * PAGE_SIZE, 2) = (i \div E) % E
         /\ Index(i * PAGE_SIZE, 3) = ((i \div E) \div E) % E
         /\ Index(i * PAGE_SIZE, 4) = (((i \div E) \div E) \div E) % E
<1>1. E \in Nat \ {0} /\ PAGE_SIZE \in Nat \ {0}
  BY PageTablesAssumption DEF E
<1>2. EntryPages[1] = 1 /\ EntryPages[2] = E /\ EntryPages[3] = E * E
      /\ EntryPages[4] = (E * E) * E
  BY DEF EntryPages, E
<1>3. (i * PAGE_SIZE) \div (PAGE_SIZE * 1) = i
  BY <1>1, MulDiv, DivOne
<1>4. (i * PAGE_SIZE) \div (PAGE_SIZE * E) = i \div E
  BY <1>1, MulDiv
<1>5. E * E \in Nat \ {0}
  BY <1>1
<1>6. (i * PAGE_SIZE) \div (PAGE_SIZE * (E * E)) = (i \div E) \div E
  <2>1. (i * PAGE_SIZE) \div (PAGE_SIZE * (E * E)) = i \div (E * E)
    BY <1>1, <1>5, MulDiv
  <2>2. (i \div E) \div E = i \div (E * E)
    BY <1>1, DivDiv
  <2> QED
    BY <2>1, <2>2
<1>7. (i * PAGE_SIZE) \div (PAGE_SIZE * ((E * E) * E)) = ((i \div E) \div E) \div E
  <2> DEFINE e2 == E * E
  <2>1. e2 * E \in Nat \ {0} /\ e2 \in Nat \ {0}
    BY <1>1, <1>5
  <2>2. (i * PAGE_SIZE) \div (PAGE_SIZE * (e2 * E)) = i \div (e2 * E)
    <3> HIDE DEF e2
    <3> QED
      BY <1>1, <2>1, MulDiv
  <2>3. (i \div e2) \div E = i \div (e2 * E)
    <3> HIDE DEF e2
    <3> QED
      BY Zenon, <1>1, <2>1, DivDiv
  <2>4. (i \div E) \div E = i \div e2
    BY <1>1, DivDiv
  <2> QED
    BY <2>2, <2>3, <2>4
<1> HIDE DEF E
<1> QED
  BY <1>2, <1>3, <1>4, <1>6, <1>7 DEF Index, E

LEMMA IndexInjective ==
  ASSUME NEW p \in Page, NEW q \in Page,
         Index(p, 1) = Index(q, 1), Index(p, 2) = Index(q, 2),
         Index(p, 3) = Index(q, 3), Index(p, 4) = Index(q, 4)
  PROVE  p = q
<1> DEFINE N == E * EntryPages[4]
<1>1. E \in Nat \ {0} /\ PAGE_SIZE \in Nat \ {0}
  BY PageTablesAssumption DEF E
<1>2. EntryPages[4] = (E * E) * E
  BY DEF EntryPages, E
<1>3. PICK i \in 0 .. N - 1 : p = i * PAGE_SIZE
  BY DEF Page, E
<1>4. PICK j \in 0 .. N - 1 : q = j * PAGE_SIZE
  BY DEF Page, E
<1> HIDE DEF N
<1>5. N \in Nat
  BY <1>1, <1>2 DEF N
<1>6. i \in Nat /\ j \in Nat /\ i < N /\ j < N
  BY <1>3, <1>4, <1>5
<1> DEFINE i1 == i \div E  i2 == i1 \div E  i3 == i2 \div E
           j1 == j \div E  j2 == j1 \div E  j3 == j2 \div E
<1>7. i1 \in Nat /\ i2 \in Nat /\ i3 \in Nat /\ j1 \in Nat /\ j2 \in Nat /\ j3 \in Nat
  BY <1>1, <1>6, DivMod
<1>8. i % E = j % E /\ i1 % E = j1 % E /\ i2 % E = j2 % E /\ i3 % E = j3 % E
  BY <1>3, <1>4, <1>6, PageNumber
<1>9. ASSUME NEW k \in Nat, k < N PROVE ((k \div E) \div E) \div E < E
  <2> DEFINE e2 == E * E
  <2>1. e2 \in Nat \ {0} /\ e2 * E \in Nat \ {0}
    BY <1>1
  <2>2. k < (e2 * E) * E
    BY <1>1, <1>2, <1>9 DEF N
  <2>3. k \div (e2 * E) < E
    <3> HIDE DEF e2
    <3> QED
      BY <1>1, <2>1, <2>2, DivLess
  <2>4. (k \div E) \div E = k \div e2
    BY <1>1, DivDiv
  <2>5. (k \div e2) \div E = k \div (e2 * E)
    <3> HIDE DEF e2
    <3> QED
      BY Zenon, <1>1, <2>1, DivDiv
  <2> QED
    BY <2>3, <2>4, <2>5
<1>10. i3 = j3
  <2>1. i3 < E /\ j3 < E
    BY <1>6, <1>9
  <2>2. \A k \in Nat : k < E => k % E = k
    BY <1>1
  <2> HIDE DEF i3, j3
  <2> QED
    BY <1>7, <1>8, <2>1, <2>2
<1>11. i2 = j2
  BY Zenon, <1>1, <1>7, <1>8, <1>10, SameDigits
<1>12. i1 = j1
  BY Zenon, <1>1, <1>7, <1>8, <1>11, SameDigits
<1>13. i = j
  BY Zenon, <1>1, <1>6, <1>8, <1>12, SameDigits
<1> QED
  BY <1>3, <1>4, <1>13

LEMMA IndexType ==
  ASSUME NEW v \in Nat, NEW level \in 1 .. 4
  PROVE  Index(v, level) \in Slot
<1>1. E \in Nat \ {0} /\ PAGE_SIZE \in Nat \ {0}
  BY PageTablesAssumption DEF E
<1>2. EntryPages[level] \in Nat \ {0}
  <2>1. E * E \in Nat \ {0} /\ (E * E) * E \in Nat \ {0}
    BY <1>1
  <2>2. EntryPages[1] = 1 /\ EntryPages[2] = E /\ EntryPages[3] = E * E
        /\ EntryPages[4] = (E * E) * E
    BY DEF EntryPages, E
  <2>3. level = 1 \/ level = 2 \/ level = 3 \/ level = 4
    OBVIOUS
  <2> QED
    BY <1>1, <2>1, <2>2, <2>3
<1>3. PAGE_SIZE * EntryPages[level] \in Nat \ {0}
  BY <1>1, <1>2
<1>4. v \div (PAGE_SIZE * EntryPages[level]) \in Nat
  BY <1>3, DivMod
<1>5. Index(v, level) = (v \div (PAGE_SIZE * EntryPages[level])) % E
  BY DEF Index, E
<1> QED
  BY <1>1, <1>4, <1>5, DivMod DEF Slot

\* An aligned address is a page.
Address == 0 .. PAGE_SIZE * (ENTRY_COUNT * EntryPages[4]) - 1

LEMMA AlignedIsPage ==
  ASSUME NEW v \in Address, v % PAGE_SIZE = 0
  PROVE  v \in Page
<1> DEFINE N == ENTRY_COUNT * EntryPages[4]
           i == v \div PAGE_SIZE
<1>1. PAGE_SIZE \in Nat \ {0} /\ N \in Nat \ {0}
  <2>1. E \in Nat \ {0} /\ E * E \in Nat \ {0}
    BY PageTablesAssumption DEF E
  <2>2. (E * E) * E \in Nat \ {0}
    BY <2>1
  <2>3. E * ((E * E) * E) \in Nat \ {0}
    BY <2>1, <2>2
  <2> QED
    BY <2>3, PageTablesAssumption DEF EntryPages, E
<1> HIDE DEF N
<1>2. v \in Nat /\ v < PAGE_SIZE * N
  BY <1>1 DEF Address, N
<1>3. i \in Nat /\ v = PAGE_SIZE * i
  BY <1>1, <1>2, DivMod
<1>4. i < N
  BY <1>1, <1>2, DivLess
<1> HIDE DEF i
<1>5. i \in 0 .. N - 1 /\ v = i * PAGE_SIZE
  BY <1>1, <1>3, <1>4
<1> QED
  BY <1>5 DEF Page, N

----------------------------------------------------------------------------
(***************************************************************************)
(* The page tables as a tree.  lev says which frames are tables, and of    *)
(* which level (0: no table); T is what the frames hold.                   *)
(***************************************************************************)

Tables == [Memory -> [Slot -> Frame \cup {NotPresent}]]
MemoryRecord == [tables : Tables, next : Nat, panic : BOOLEAN]

\* f is one of the first n frames of the allocator
Given(f, n) == \E k \in DOMAIN usable_frames : k <= n /\ f = usable_frames[k]

Tree(T, n, lev) ==
  /\ T \in Tables
  /\ lev \in [Memory -> 0 .. 4] /\ lev[l4] = 4
  /\ \A f \in Memory : lev[f] # 0 => Given(f, n)
  /\ \A t \in Memory, j \in Slot : lev[t] >= 2 /\ T[t][j] # NotPresent =>
       T[t][j] \in Memory /\ lev[T[t][j]] = lev[t] - 1
  /\ \A t, u \in Memory, i, j \in Slot :
       lev[t] >= 2 /\ lev[u] >= 2 /\ T[t][i] # NotPresent /\ T[t][i] = T[u][j] =>
         t = u /\ i = j

\* translation, level by level
Entry(T, t, j) == IF t = NotPresent THEN NotPresent ELSE T[t][j]
At3(T, v) == Entry(T, l4, Index(v, 4))
At2(T, v) == Entry(T, At3(T, v), Index(v, 3))
At1(T, v) == Entry(T, At2(T, v), Index(v, 2))
Trans(T, v) == Entry(T, At1(T, v), Index(v, 1))

\* entry i of table x now refers to the empty table f
Linked(T, T2, x, i, f) ==
  /\ T2 \in Tables
  /\ \A t \in Memory \ {f}, j \in Slot :
       T2[t][j] = IF t = x /\ j = i THEN f ELSE T[t][j]
  /\ \A j \in Slot : T2[f][j] = NotPresent

\* entry i of table x now holds frame f
Changed(T, T2, x, i, f) ==
  /\ T2 \in Tables
  /\ \A t \in Memory, j \in Slot :
       T2[t][j] = IF t = x /\ j = i THEN f ELSE T[t][j]

LEMMA FramesAreNat ==
  /\ Memory \subseteq Nat /\ Frame \subseteq Nat
  /\ NotPresent \notin Frame /\ NotPresent \notin Memory
  /\ l4 \in Memory
  /\ DOMAIN usable_frames = 1 .. Len(usable_frames)
  /\ Len(usable_frames) \in Nat \ {0}
  /\ \A k \in DOMAIN usable_frames : usable_frames[k] \in Memory
<1>1. ASSUME NEW i \in DOMAIN memory_map, NEW f \in Range(Frames(memory_map[i]))
      PROVE  f \in Nat
  <2> DEFINE r == memory_map[i]
  <2>1. r.page_count \in Nat /\ r.addr \in Nat /\ PAGE_SIZE \in Nat
    BY PageTablesAssumption
  <2>2. PICK k \in 1 .. r.page_count : f = r.addr + PAGE_SIZE * (k - 1)
    BY Zenon DEF Range, Frames
  <2> HIDE DEF r
  <2>3. k - 1 \in Nat
    BY <2>1
  <2>4. PAGE_SIZE * (k - 1) \in Nat
    BY <2>1, <2>3
  <2> QED
    BY <2>1, <2>2, <2>4
<1>2. Memory \subseteq Nat
  BY <1>1 DEF Memory
<1>3. Frame \subseteq Nat
  BY <1>2, MemoryAssumption DEF Frame
<1>4. NotPresent \notin Nat /\ Memory \subseteq Frame
  BY DEF NotPresent, Frame
<1>5. /\ DOMAIN usable_frames = 1 .. Len(usable_frames)
      /\ Len(usable_frames) \in Nat \ {0}
      /\ \A k \in DOMAIN usable_frames : usable_frames[k] \in Memory
  BY UsableFramesAssumption
<1>6. l4 \in Memory
  BY <1>5 DEF l4
<1> QED
  BY Zenon, <1>2, <1>3, <1>4, <1>5, <1>6

LEMMA TransIsGet ==
  ASSUME NEW mem, NEW v
  PROVE  GetPhysicalAddress(mem, l4, v) = Trans(mem.tables, v)
<1>1. l4 # NotPresent
  BY FramesAreNat
<1> QED
  BY <1>1 DEF GetPhysicalAddress, Trans, At1, At2, At3, Entry

\* A table that is reached on the way has its level.
LEMMA LevelOfEntry ==
  ASSUME NEW T, NEW n, NEW lev, Tree(T, n, lev),
         NEW t, NEW d \in 2 .. 4, NEW j \in Slot,
         t # NotPresent => t \in Memory /\ lev[t] = d
  PROVE  LET e == Entry(T, t, j)
         IN  e # NotPresent => e \in Memory /\ lev[e] = d - 1
BY DEF Entry, Tree

LEMMA Levels ==
  ASSUME NEW T, NEW n, NEW lev, Tree(T, n, lev), NEW v \in Nat
  PROVE  /\ At3(T, v) # NotPresent => At3(T, v) \in Memory /\ lev[At3(T, v)] = 3
         /\ At2(T, v) # NotPresent => At2(T, v) \in Memory /\ lev[At2(T, v)] = 2
         /\ At1(T, v) # NotPresent => At1(T, v) \in Memory /\ lev[At1(T, v)] = 1
<1>0. Index(v, 4) \in Slot /\ Index(v, 3) \in Slot /\ Index(v, 2) \in Slot
  BY IndexType
<1>1. l4 \in Memory /\ lev[l4] = 4
  BY FramesAreNat DEF Tree
<1>2. At3(T, v) # NotPresent => At3(T, v) \in Memory /\ lev[At3(T, v)] = 3
  BY <1>0, <1>1, LevelOfEntry DEF At3
<1>3. At2(T, v) # NotPresent => At2(T, v) \in Memory /\ lev[At2(T, v)] = 2
  BY <1>0, <1>2, LevelOfEntry DEF At2
<1>4. At1(T, v) # NotPresent => At1(T, v) \in Memory /\ lev[At1(T, v)] = 1
  BY <1>0, <1>3, LevelOfEntry DEF At1
<1> QED
  BY <1>2, <1>3, <1>4

\* What the new link changes on the way: nothing, or f where nothing was.
LEMMA LinkedEntry ==
  ASSUME NEW T, NEW T2, NEW lev, NEW n, Tree(T, n, lev),
         NEW x \in Memory, NEW i \in Slot, NEW f \in Memory,
         T[x][i] = NotPresent, lev[f] = 0, Linked(T, T2, x, i, f),
         NEW t, NEW t2, NEW j \in Slot,
         t # NotPresent => t \in Memory /\ lev[t] # 0,
         t2 = t \/ (t = NotPresent /\ t2 = f)
  PROVE  LET e == Entry(T, t, j)
             e2 == Entry(T2, t2, j)
         IN  e2 = e \/ (t = x /\ e = NotPresent /\ e2 = f)
<1>1. NotPresent \notin Memory
  BY FramesAreNat
<1>2. CASE t # NotPresent
  <2>1. t2 = t /\ t # f
    BY <1>2
  <2>2. T2[t][j] = IF t = x /\ j = i THEN f ELSE T[t][j]
    BY <1>2, <2>1 DEF Linked
  <2> QED
    BY <1>2, <2>1, <2>2 DEF Entry
<1>3. CASE t = NotPresent
  BY <1>1, <1>3 DEF Entry, Linked
<1> QED
  BY <1>2, <1>3

\* A new, empty table changes no translation, and none of the tables above it.
LEMMA LinkedTrans ==
  ASSUME NEW T, NEW T2, NEW lev, NEW n, Tree(T, n, lev),
         NEW x \in Memory, NEW i \in Slot, NEW f \in Memory,
         T[x][i] = NotPresent, lev[f] = 0, lev[x] >= 2, Linked(T, T2, x, i, f),
         NEW v \in Nat
  PROVE  /\ Trans(T2, v) = Trans(T, v)
         /\ At3(T, v) # NotPresent => At3(T2, v) = At3(T, v)
         /\ At2(T, v) # NotPresent => At2(T2, v) = At2(T, v)
<1>0. /\ Index(v, 4) \in Slot /\ Index(v, 3) \in Slot
      /\ Index(v, 2) \in Slot /\ Index(v, 1) \in Slot
  BY IndexType
<1>1. l4 \in Memory /\ lev[l4] # 0
  BY FramesAreNat DEF Tree
<1> DEFINE Same(e, e2) == e2 = e \/ (e = NotPresent /\ e2 = f)
<1>2. Same(At3(T, v), At3(T2, v))
  BY <1>0, <1>1, LinkedEntry DEF At3
<1>3. Same(At2(T, v), At2(T2, v))
  <2>1. At3(T, v) # NotPresent => At3(T, v) \in Memory /\ lev[At3(T, v)] # 0
    BY Levels
  <2> QED
    BY <1>0, <1>2, <2>1, LinkedEntry DEF At2
<1>4. Same(At1(T, v), At1(T2, v))
  <2>1. At2(T, v) # NotPresent => At2(T, v) \in Memory /\ lev[At2(T, v)] # 0
    BY Levels
  <2> QED
    BY <1>0, <1>3, <2>1, LinkedEntry DEF At1
<1>5. Trans(T2, v) = Trans(T, v)
  <2>1. At1(T, v) # NotPresent =>
          At1(T, v) \in Memory /\ lev[At1(T, v)] # 0 /\ At1(T, v) # x
    BY Levels
  <2>2. x # NotPresent
    BY FramesAreNat
  <2> QED
    BY <1>0, <1>4, <2>1, <2>2, LinkedEntry DEF Trans
<1> QED
  BY <1>2, <1>3, <1>5

\* The next frame of the allocator is not one that it has given out.
LEMMA NextIsFresh ==
  ASSUME NEW n \in Nat, n + 1 \in DOMAIN usable_frames
  PROVE  ~Given(usable_frames[n + 1], n)
<1> SUFFICES ASSUME NEW k \in DOMAIN usable_frames, k <= n,
                    usable_frames[n + 1] = usable_frames[k]
             PROVE  FALSE
  BY DEF Given
<1>1. k = n + 1
  BY UsableFramesAssumption
<1>2. k \in Nat
  BY FramesAreNat
<1> QED
  BY <1>1, <1>2

LEMMA GivenGrows ==
  ASSUME NEW n \in Nat, NEW k \in Nat, n <= k, NEW f, Given(f, n)
  PROVE  Given(f, k)
<1>1. PICK i \in DOMAIN usable_frames : i <= n /\ f = usable_frames[i]
  BY DEF Given
<1>2. i \in Nat
  BY FramesAreNat
<1>3. i <= k
  BY <1>1, <1>2
<1> QED
  BY <1>1, <1>3 DEF Given

\* A new table leaves a tree of tables, with one more.
LEMMA LinkedTree ==
  ASSUME NEW T, NEW T2, NEW lev, NEW n \in Nat, Tree(T, n, lev),
         NEW x \in Memory, NEW i \in Slot, NEW f \in Memory,
         T[x][i] = NotPresent, lev[f] = 0, lev[x] >= 2, Linked(T, T2, x, i, f),
         Given(f, n + 1)
  PROVE  Tree(T2, n + 1, [lev EXCEPT ![f] = lev[x] - 1])
<1> DEFINE lev2 == [lev EXCEPT ![f] = lev[x] - 1]
<1>1. lev \in [Memory -> 0 .. 4] /\ lev[l4] = 4 /\ l4 \in Memory
  BY FramesAreNat DEF Tree
<1>2. /\ lev2 \in [Memory -> 0 .. 4] /\ lev2[f] = lev[x] - 1
      /\ \A t \in Memory \ {f} : lev2[t] = lev[t]
  BY <1>1
<1>3. f # x /\ f # l4
  BY <1>1
<1> HIDE DEF lev2
<1>4. ASSUME NEW t \in Memory, lev2[t] # 0 PROVE Given(t, n + 1)
  <2>1. CASE t = f
    BY <2>1
  <2>2. CASE t # f
    <3>1. Given(t, n)
      BY <1>2, <1>4, <2>2 DEF Tree
    <3>2. n + 1 \in Nat /\ n <= n + 1
      OBVIOUS
    <3> QED
      BY <3>1, <3>2, GivenGrows
  <2> QED
    BY <2>1, <2>2
<1>5. /\ \A t \in Memory \ {f}, j \in Slot :
           T2[t][j] = IF t = x /\ j = i THEN f ELSE T[t][j]
      /\ \A j \in Slot : T2[f][j] = NotPresent
  BY DEF Linked
<1>6. \A t \in Memory, j \in Slot : lev[t] >= 2 /\ T[t][j] # NotPresent =>
        T[t][j] \in Memory /\ lev[T[t][j]] = lev[t] - 1
  BY DEF Tree
<1>7. \A t \in Memory, j \in Slot : lev[t] >= 2 => T[t][j] # f
  <2>1. \A t \in Memory : lev[t] \in 0 .. 4
    BY <1>1
  <2>2. NotPresent # f
    BY FramesAreNat
  <2> QED
    BY <1>6, <2>1, <2>2
<1>8. ASSUME NEW t \in Memory, NEW j \in Slot, lev2[t] >= 2, T2[t][j] # NotPresent
      PROVE  T2[t][j] \in Memory /\ lev2[T2[t][j]] = lev2[t] - 1
  <2>1. t # f
    BY <1>5, <1>8
  <2>2. lev2[t] = lev[t]
    BY <1>2, <2>1
  <2>3. CASE t = x /\ j = i
    BY <1>2, <1>5, <2>1, <2>2, <2>3
  <2>4. CASE ~(t = x /\ j = i)
    <3>1. T2[t][j] = T[t][j]
      BY <1>5, <2>1, <2>4
    <3>2. T[t][j] \in Memory \ {f} /\ lev[T[t][j]] = lev[t] - 1
      BY <1>6, <1>7, <1>8, <2>2, <3>1
    <3> QED
      BY <1>2, <2>2, <3>1, <3>2
  <2> QED
    BY <2>3, <2>4
<1>9. ASSUME NEW t \in Memory, NEW u \in Memory, NEW j \in Slot, NEW k \in Slot,
             lev2[t] >= 2, lev2[u] >= 2, T2[t][j] # NotPresent, T2[t][j] = T2[u][k]
      PROVE  t = u /\ j = k
  <2>1. t # f /\ u # f
    BY <1>5, <1>9
  <2>2. lev[t] >= 2 /\ lev[u] >= 2
    BY <1>2, <1>9, <2>1
  <2>3. /\ T2[t][j] = IF t = x /\ j = i THEN f ELSE T[t][j]
        /\ T2[u][k] = IF u = x /\ k = i THEN f ELSE T[u][k]
    BY <1>5, <2>1
  <2>4. T[t][j] # f /\ T[u][k] # f
    BY <1>7, <2>2
  <2>5. CASE (t = x /\ j = i) \/ (u = x /\ k = i)
    BY Zenon, <1>9, <2>3, <2>4, <2>5
  <2>6. CASE ~(t = x /\ j = i) /\ ~(u = x /\ k = i)
    <3>1. T[t][j] # NotPresent /\ T[t][j] = T[u][k]
      BY Zenon, <1>9, <2>3, <2>6
    <3> QED
      BY <2>2, <3>1 DEF Tree
  <2> QED
    BY <2>5, <2>6
<1>10. T2 \in Tables /\ lev2[l4] = 4
  BY <1>1, <1>2, <1>3 DEF Linked
<1>11. Tree(T2, n + 1, lev2)
  BY <1>2, <1>4, <1>8, <1>9, <1>10 DEF Tree
<1> QED
  BY <1>11 DEF lev2

\* Setting an entry of a last-level table leaves the tree as it is.
LEMMA ChangedTree ==
  ASSUME NEW T, NEW T2, NEW lev, NEW n, Tree(T, n, lev),
         NEW x \in Memory, NEW i \in Slot, NEW f, lev[x] = 1,
         Changed(T, T2, x, i, f)
  PROVE  Tree(T2, n, lev)
<1>1. \A t \in Memory, j \in Slot : lev[t] >= 2 => T2[t][j] = T[t][j]
  BY DEF Changed
<1>2. T2 \in Tables
  BY DEF Changed
<1>3. \A t \in Memory, j \in Slot : lev[t] >= 2 /\ T2[t][j] # NotPresent =>
        T2[t][j] \in Memory /\ lev[T2[t][j]] = lev[t] - 1
  BY <1>1 DEF Tree
<1>4. \A t, u \in Memory, j, k \in Slot :
        lev[t] >= 2 /\ lev[u] >= 2 /\ T2[t][j] # NotPresent /\ T2[t][j] = T2[u][k] =>
          t = u /\ j = k
  BY <1>1 DEF Tree
<1> QED
  BY <1>2, <1>3, <1>4 DEF Tree

\* The tables above the last level are those of before.
LEMMA ChangedEntry ==
  ASSUME NEW T, NEW T2, NEW lev, NEW x \in Memory, NEW i \in Slot, NEW f, lev[x] = 1,
         Changed(T, T2, x, i, f),
         NEW t, NEW j \in Slot, t # NotPresent => t \in Memory /\ lev[t] # 1
  PROVE  Entry(T2, t, j) = Entry(T, t, j)
BY DEF Entry, Changed

LEMMA OneParent ==
  ASSUME NEW T, NEW lev, NEW n, Tree(T, n, lev),
         NEW t \in Memory, NEW u \in Memory, NEW i \in Slot, NEW j \in Slot,
         lev[t] >= 2, lev[u] >= 2, T[t][i] # NotPresent, T[t][i] = T[u][j]
  PROVE  t = u /\ i = j
<1>1. \A a, b \in Memory, k, h \in Slot :
        lev[a] >= 2 /\ lev[b] >= 2 /\ T[a][k] # NotPresent /\ T[a][k] = T[b][h] =>
          a = b /\ k = h
  BY DEF Tree
<1> QED
  BY <1>1

\* Pages whose translation goes through the same last-level table, and the
\* same entry of it, are the same page.
LEMMA SamePath ==
  ASSUME NEW T, NEW lev, NEW n, Tree(T, n, lev), NEW p \in Page, NEW q \in Page,
         p \in Nat, q \in Nat,
         At1(T, p) # NotPresent, At1(T, p) = At1(T, q), Index(p, 1) = Index(q, 1)
  PROVE  p = q
<1>0. /\ Index(p, 4) \in Slot /\ Index(p, 3) \in Slot /\ Index(p, 2) \in Slot
      /\ Index(q, 4) \in Slot /\ Index(q, 3) \in Slot /\ Index(q, 2) \in Slot
  BY IndexType
<1>1. l4 \in Memory /\ lev[l4] = 4 /\ l4 # NotPresent
  BY FramesAreNat DEF Tree
<1>3. /\ At2(T, p) # NotPresent /\ At2(T, q) # NotPresent
      /\ At1(T, p) = T[At2(T, p)][Index(p, 2)]
      /\ At1(T, q) = T[At2(T, q)][Index(q, 2)]
  BY DEF At1, Entry
<1>4. /\ At2(T, p) \in Memory /\ lev[At2(T, p)] = 2
      /\ At2(T, q) \in Memory /\ lev[At2(T, q)] = 2
  BY <1>3, Levels
<1>5. At2(T, p) = At2(T, q) /\ Index(p, 2) = Index(q, 2)
  <2>1. /\ T[At2(T, p)][Index(p, 2)] # NotPresent
        /\ T[At2(T, p)][Index(p, 2)] = T[At2(T, q)][Index(q, 2)]
    BY <1>3, Zenon
  <2>2. lev[At2(T, p)] >= 2 /\ lev[At2(T, q)] >= 2
    BY <1>4
  <2>3. At2(T, p) \in Memory /\ At2(T, q) \in Memory
    BY <1>4
  <2> DEFINE a == At2(T, p)  b == At2(T, q)  x == Index(p, 2)  y == Index(q, 2)
  <2>4. /\ a \in Memory /\ b \in Memory /\ x \in Slot /\ y \in Slot
        /\ lev[a] >= 2 /\ lev[b] >= 2 /\ T[a][x] # NotPresent /\ T[a][x] = T[b][y]
    BY <1>0, <2>1, <2>2, <2>3, Zenon
  <2> HIDE DEF a, b, x, y
  <2>5. a = b /\ x = y
    BY <2>4, OneParent
  <2> QED
    BY <2>5 DEF a, b, x, y
<1>6. /\ At3(T, p) # NotPresent /\ At3(T, q) # NotPresent
      /\ At2(T, p) = T[At3(T, p)][Index(p, 3)]
      /\ At2(T, q) = T[At3(T, q)][Index(q, 3)]
  BY <1>3 DEF At2, Entry
<1>7. /\ At3(T, p) \in Memory /\ lev[At3(T, p)] = 3
      /\ At3(T, q) \in Memory /\ lev[At3(T, q)] = 3
  BY <1>6, Levels
<1>8. At3(T, p) = At3(T, q) /\ Index(p, 3) = Index(q, 3)
  <2>1. /\ T[At3(T, p)][Index(p, 3)] # NotPresent
        /\ T[At3(T, p)][Index(p, 3)] = T[At3(T, q)][Index(q, 3)]
    BY <1>3, <1>5, <1>6, Zenon
  <2>2. lev[At3(T, p)] >= 2 /\ lev[At3(T, q)] >= 2
    BY <1>7
  <2>3. At3(T, p) \in Memory /\ At3(T, q) \in Memory
    BY <1>7
  <2> DEFINE a == At3(T, p)  b == At3(T, q)  x == Index(p, 3)  y == Index(q, 3)
  <2>4. /\ a \in Memory /\ b \in Memory /\ x \in Slot /\ y \in Slot
        /\ lev[a] >= 2 /\ lev[b] >= 2 /\ T[a][x] # NotPresent /\ T[a][x] = T[b][y]
    BY <1>0, <2>1, <2>2, <2>3, Zenon
  <2> HIDE DEF a, b, x, y
  <2>5. a = b /\ x = y
    BY <2>4, OneParent
  <2> QED
    BY <2>5 DEF a, b, x, y
<1>9. /\ At3(T, p) = T[l4][Index(p, 4)]
      /\ At3(T, q) = T[l4][Index(q, 4)]
  BY <1>1 DEF At3, Entry
<1>10. Index(p, 4) = Index(q, 4)
  <2>1. /\ T[l4][Index(p, 4)] # NotPresent
        /\ T[l4][Index(p, 4)] = T[l4][Index(q, 4)]
    BY <1>6, <1>8, <1>9, Zenon
  <2>2. lev[l4] >= 2 /\ l4 \in Memory
    BY <1>1
  <2> DEFINE a == l4  b == l4  x == Index(p, 4)  y == Index(q, 4)
  <2>4. /\ a \in Memory /\ b \in Memory /\ x \in Slot /\ y \in Slot
        /\ lev[a] >= 2 /\ lev[b] >= 2 /\ T[a][x] # NotPresent /\ T[a][x] = T[b][y]
    BY <1>0, <2>1, <2>2, Zenon
  <2> HIDE DEF a, b, x, y
  <2>5. a = b /\ x = y
    BY <2>4, OneParent
  <2> QED
    BY <2>5 DEF a, b, x, y
<1> QED
  BY <1>5, <1>8, <1>10, IndexInjective

\* Setting the last-level entry of page v translates v to f, and changes no
\* other page.
LEMMA ChangedTrans ==
  ASSUME NEW T, NEW T2, NEW lev, NEW n, Tree(T, n, lev),
         NEW v \in Page, NEW f, NEW x, x = At1(T, v), x # NotPresent,
         NEW i, i = Index(v, 1), Changed(T, T2, x, i, f), Page \subseteq Nat
  PROVE  /\ Trans(T2, v) = f
         /\ \A p \in Page \ {v} : Trans(T2, p) = Trans(T, p)
<1>1. x \in Memory /\ lev[x] = 1 /\ i \in Slot
  BY Levels, IndexType
<1>2. ASSUME NEW p \in Page PROVE At1(T2, p) = At1(T, p)
  <2>0. Index(p, 4) \in Slot /\ Index(p, 3) \in Slot /\ Index(p, 2) \in Slot
    BY IndexType
  <2>1. l4 \in Memory /\ lev[l4] # 1
    BY FramesAreNat DEF Tree
  <2>2. Changed(T, T2, x, i, f)
    OBVIOUS
  <2>3. At3(T2, p) = At3(T, p)
    BY <1>1, <2>0, <2>1, <2>2, ChangedEntry DEF At3
  <2>4. At2(T2, p) = At2(T, p)
    <3>1. At3(T, p) # NotPresent => At3(T, p) \in Memory /\ lev[At3(T, p)] # 1
      BY Levels
    <3> QED
      BY <1>1, <2>0, <2>2, <2>3, <3>1, ChangedEntry DEF At2
  <2>5. At2(T, p) # NotPresent => At2(T, p) \in Memory /\ lev[At2(T, p)] # 1
    BY Levels
  <2> QED
    BY <1>1, <2>0, <2>2, <2>4, <2>5, ChangedEntry DEF At1
<1>3. Trans(T2, v) = f
  <2>1. Trans(T2, v) = T2[x][i]
    BY <1>2 DEF Trans, Entry
  <2> QED
    BY <1>1, <2>1 DEF Changed
<1>4. ASSUME NEW p \in Page \ {v} PROVE Trans(T2, p) = Trans(T, p)
  <2> DEFINE t == At1(T, p)
  <2>1. At1(T2, p) = t
    BY <1>2
  <2>2. CASE t = NotPresent
    BY <2>1, <2>2 DEF Trans, Entry
  <2>3. CASE t # NotPresent
    <3>1. t \in Memory /\ Index(p, 1) \in Slot
      BY <2>3, Levels, IndexType
    <3>2. ~(t = x /\ Index(p, 1) = i)
      BY <2>3, SamePath
    <3>3. T2[t][Index(p, 1)] = T[t][Index(p, 1)]
      BY <3>1, <3>2 DEF Changed
    <3> QED
      BY <2>1, <3>3 DEF Trans, Entry
  <2> QED
    BY <2>2, <2>3
<1> QED
  BY <1>3, <1>4

----------------------------------------------------------------------------
(***************************************************************************)
(* The operations of the frame allocator and of the page tables.           *)
(***************************************************************************)

LEMMA AllocateFrameGives ==
  ASSUME NEW mem \in MemoryRecord
  PROVE  LET a == AllocateFrame(mem)
         IN  /\ a.m \in MemoryRecord
             /\ a.m.tables = mem.tables /\ a.m.panic = mem.panic
             /\ a.m.next = mem.next + 1
             /\ a.frame # NotPresent =>
                  /\ mem.next + 1 \in DOMAIN usable_frames
                  /\ a.frame = usable_frames[mem.next + 1]
                  /\ a.frame \in Memory
<1> DEFINE a == AllocateFrame(mem)
<1>1. mem.tables \in Tables /\ mem.next \in Nat /\ mem.panic \in BOOLEAN
  BY DEF MemoryRecord
<1>2. a.m = [mem EXCEPT !.next = mem.next + 1]
  BY DEF AllocateFrame
<1>3. /\ a.m \in MemoryRecord
      /\ a.m.tables = mem.tables /\ a.m.panic = mem.panic
      /\ a.m.next = mem.next + 1
  BY <1>1, <1>2 DEF MemoryRecord
<1>4. a.frame = IF mem.next < Len(usable_frames) THEN usable_frames[mem.next + 1]
                                                 ELSE NotPresent
  BY DEF AllocateFrame
<1>5. mem.next < Len(usable_frames) => mem.next + 1 \in DOMAIN usable_frames
  BY <1>1, FramesAreNat
<1>6. a.frame # NotPresent =>
        /\ mem.next + 1 \in DOMAIN usable_frames
        /\ a.frame = usable_frames[mem.next + 1]
        /\ a.frame \in Memory
  BY <1>4, <1>5, FramesAreNat
<1> QED
  BY <1>3, <1>6

LEMMA EmptyTableType ==
  /\ EmptyTable \in [Slot -> Frame \cup {NotPresent}]
  /\ \A j \in Slot : EmptyTable[j] = NotPresent
BY DEF EmptyTable, Slot, E

LEMMA AllocatePageTableGives ==
  ASSUME NEW mem \in MemoryRecord, ~mem.panic
  PROVE  LET new == AllocatePageTable(mem)
         IN  /\ new.m.next = mem.next + 1
             /\ new.m \in MemoryRecord
             /\ \/ /\ new.m.panic /\ new.m.tables = mem.tables
                   /\ new.table = NotPresent
                \/ /\ ~new.m.panic
                   /\ mem.next + 1 \in DOMAIN usable_frames
                   /\ new.table = usable_frames[mem.next + 1] /\ new.table \in Memory
                   /\ new.m.tables = [mem.tables EXCEPT ![new.table] = EmptyTable]
<1> DEFINE a == AllocateFrame(mem)
           new == AllocatePageTable(mem)
<1>1. /\ a.m \in MemoryRecord
      /\ a.m.tables = mem.tables /\ a.m.panic = mem.panic
      /\ a.m.next = mem.next + 1
      /\ a.frame # NotPresent =>
           /\ mem.next + 1 \in DOMAIN usable_frames
           /\ a.frame = usable_frames[mem.next + 1]
           /\ a.frame \in Memory
  BY AllocateFrameGives
<1>2. new = [table |-> a.frame,
             m |-> IF a.frame = NotPresent THEN [a.m EXCEPT !.panic = TRUE]
                   ELSE [a.m EXCEPT !.tables[a.frame] = EmptyTable]]
  BY DEF AllocatePageTable
<1> HIDE DEF a, new
<1>3. new.table = a.frame
  BY <1>2
<1>4. CASE a.frame = NotPresent
  <2>1. new.m = [a.m EXCEPT !.panic = TRUE]
    BY <1>2, <1>4
  <2> QED
    BY Zenon, <1>1, <1>3, <1>4, <2>1 DEF MemoryRecord, new
<1>5. CASE a.frame # NotPresent
  <2>1. new.m = [a.m EXCEPT !.tables[a.frame] = EmptyTable]
    BY <1>2, <1>5
  <2>2. new.m = [a.m EXCEPT !.tables = [a.m.tables EXCEPT ![a.frame] = EmptyTable]]
    BY <2>1
  <2> DEFINE T2 == [a.m.tables EXCEPT ![a.frame] = EmptyTable]
  <2>3. T2 \in Tables
    BY <1>1, <1>5, EmptyTableType DEF MemoryRecord, Tables
  <2>4. /\ new.m.tables = T2 /\ new.m.next = a.m.next
        /\ new.m.panic = a.m.panic /\ new.m \in MemoryRecord
    <3> HIDE DEF T2
    <3> QED
      BY <1>1, <2>2, <2>3 DEF MemoryRecord, T2
  <2> QED
    BY <1>1, <1>3, <1>5, <2>4 DEF new
<1> QED
  BY <1>4, <1>5

\* The three ways of create_next_table.
Created(mem, x, i, r) ==
  \/ /\ r.m = mem /\ ~r.m.panic
     /\ mem.tables[x][i] # NotPresent /\ r.table = mem.tables[x][i]
  \/ /\ r.m.panic /\ r.m.tables = mem.tables /\ r.m.next = mem.next + 1
  \/ /\ ~r.m.panic /\ r.m.next = mem.next + 1
     /\ mem.tables[x][i] = NotPresent
     /\ mem.next + 1 \in DOMAIN usable_frames
     /\ r.table = usable_frames[mem.next + 1] /\ r.table \in Memory
     /\ Linked(mem.tables, r.m.tables, x, i, r.table)

LEMMA CreateNextTableGives ==
  ASSUME NEW w, NEW mem \in MemoryRecord, NEW x \in Memory, NEW i \in Slot,
         w = [table |-> x, m |-> mem], ~mem.panic,
         ~(mem.next + 1 \in DOMAIN usable_frames /\ x = usable_frames[mem.next + 1])
  PROVE  LET r == CreateNextTable(w, i)
         IN  /\ r = [table |-> r.table, m |-> r.m]
             /\ r.m \in MemoryRecord
             /\ Created(mem, x, i, r)
<1> DEFINE r == CreateNextTable(w, i)
           new == AllocatePageTable(mem)
<1>0. mem.tables \in Tables /\ mem.next \in Nat
  BY DEF MemoryRecord
<1>1. w.table = x /\ w.m = mem
  OBVIOUS
<1>2. CASE mem.tables[x][i] # NotPresent
  <2>1. r = [w EXCEPT !.table = mem.tables[x][i]]
    BY <1>1, <1>2 DEF CreateNextTable
  <2>2. r = [table |-> mem.tables[x][i], m |-> mem]
    BY <2>1
  <2> QED
    BY <1>2, <2>2 DEF Created
<1>3. CASE mem.tables[x][i] = NotPresent
  <2>1. r = IF new.m.panic THEN new ELSE [new EXCEPT !.m.tables[x][i] = new.table]
    BY <1>1, <1>3 DEF CreateNextTable
  <2>2. new = [table |-> new.table, m |-> new.m]
    BY DEF AllocatePageTable
  <2>3. /\ new.m.next = mem.next + 1
        /\ new.m \in MemoryRecord
        /\ \/ /\ new.m.panic /\ new.m.tables = mem.tables
              /\ new.table = NotPresent
           \/ /\ ~new.m.panic
              /\ mem.next + 1 \in DOMAIN usable_frames
              /\ new.table = usable_frames[mem.next + 1] /\ new.table \in Memory
              /\ new.m.tables = [mem.tables EXCEPT ![new.table] = EmptyTable]
    BY AllocatePageTableGives
  <2> HIDE DEF r, new
  <2>4. CASE new.m.panic
    <3>1. r = new
      BY <2>1, <2>4
    <3> QED
      BY <2>2, <2>3, <2>4, <3>1 DEF Created, r
  <2>5. CASE ~new.m.panic
    <3> DEFINE T == mem.tables
               f == new.table
               T1 == [T EXCEPT ![f] = EmptyTable]
               T2 == [T1 EXCEPT ![x] = [T1[x] EXCEPT ![i] = f]]
    <3>1. /\ f \in Memory /\ new.m.tables = T1 /\ f # x
          /\ mem.next + 1 \in DOMAIN usable_frames /\ f = usable_frames[mem.next + 1]
      BY <2>3, <2>5
    <3>2. r = [new EXCEPT !.m.tables[x][i] = new.table]
      BY <2>1, <2>5
    <3>3. r.table = f /\ r.m = [new.m EXCEPT !.tables = T2] /\ r = [table |-> r.table, m |-> r.m]
      BY <2>2, <3>1, <3>2
    <3>4. T1 \in Tables /\ T1[x] = T[x]
      BY <1>0, <3>1, EmptyTableType DEF Tables
    <3>5. f \in Frame
      BY <3>1 DEF Frame
    <3> HIDE DEF f
    <3>6. T2 \in Tables
      <4>1. [T1[x] EXCEPT ![i] = f] \in [Slot -> Frame \cup {NotPresent}]
        <5>1. T1[x] \in [Slot -> Frame \cup {NotPresent}]
          BY <3>4 DEF Tables
        <5> HIDE DEF T1
        <5> QED
          BY <3>5, <5>1
      <4> HIDE DEF T1
      <4> QED
        BY <3>4, <4>1 DEF Tables
    <3>7. Linked(T, T2, x, i, f)
      <4>1. T2[f] = EmptyTable
        BY <1>0, <3>1 DEF Tables
      <4>2. \A t \in Memory \ {f, x} : T2[t] = T[t]
        BY <1>0 DEF Tables
      <4>3. \A j \in Slot : T2[x][j] = IF j = i THEN f ELSE T[x][j]
        BY <1>0, <3>4 DEF Tables
      <4> HIDE DEF T2
      <4> QED
        BY <3>6, <4>1, <4>2, <4>3, EmptyTableType DEF Linked
    <3> HIDE DEF T2
    <3>8. /\ r.m.tables = T2 /\ r.m.next = new.m.next /\ r.m.panic = new.m.panic
          /\ r.m \in MemoryRecord
      BY <2>3, <3>3, <3>6 DEF MemoryRecord
    <3>9. Created(mem, x, i, r)
      BY <1>3, <2>3, <2>5, <3>1, <3>3, <3>7, <3>8 DEF Created, f
    <3> QED
      BY <3>3, <3>8, <3>9 DEF r
  <2> QED
    BY <2>4, <2>5
<1> QED
  BY <1>2, <1>3

\* The memory has more tables than before, and translates every address as
\* before.
Grown(mem, lev, mem2, lev2) ==
  /\ mem2 \in MemoryRecord
  /\ mem2.next >= mem.next
  /\ Tree(mem2.tables, mem2.next, lev2)
  /\ \A f \in Memory : \/ lev2[f] = lev[f]
                       \/ lev[f] = 0 /\ ~Given(f, mem.next) /\ Given(f, mem2.next)
  /\ \A v \in Nat : Trans(mem2.tables, v) = Trans(mem.tables, v)

LEMMA GrownTwice ==
  ASSUME NEW m1 \in MemoryRecord, NEW m2, NEW m3, NEW lev1, NEW lev2, NEW lev3,
         Grown(m1, lev1, m2, lev2), Grown(m2, lev2, m3, lev3)
  PROVE  Grown(m1, lev1, m3, lev3)
<1>1. m1.next \in Nat /\ m2.next \in Nat /\ m3.next \in Nat
  BY DEF Grown, MemoryRecord
<1>2. m3 \in MemoryRecord /\ Tree(m3.tables, m3.next, lev3)
  BY DEF Grown
<1>3. m3.next >= m1.next /\ m1.next <= m2.next /\ m2.next <= m3.next
  BY <1>1 DEF Grown
<1>4. \A v \in Nat : Trans(m3.tables, v) = Trans(m1.tables, v)
  BY DEF Grown
<1>5. ASSUME NEW f \in Memory
      PROVE  \/ lev3[f] = lev1[f]
             \/ lev1[f] = 0 /\ ~Given(f, m1.next) /\ Given(f, m3.next)
  <2>1. \/ lev2[f] = lev1[f]
        \/ lev1[f] = 0 /\ ~Given(f, m1.next) /\ Given(f, m2.next)
    BY DEF Grown
  <2>2. \/ lev3[f] = lev2[f]
        \/ lev2[f] = 0 /\ ~Given(f, m2.next) /\ Given(f, m3.next)
    BY DEF Grown
  <2>3. Given(f, m1.next) => Given(f, m2.next)
    BY <1>1, <1>3, GivenGrows
  <2>4. Given(f, m2.next) => Given(f, m3.next)
    BY <1>1, <1>3, GivenGrows
  <2> QED
    BY <2>1, <2>2, <2>3, <2>4
<1> QED
  BY <1>2, <1>3, <1>4, <1>5 DEF Grown

\* create_next_table on the way to the last level: table x has level d.
LEMMA GrownRefl ==
  ASSUME NEW mem \in MemoryRecord, NEW lev, Tree(mem.tables, mem.next, lev)
  PROVE  Grown(mem, lev, mem, lev)
<1>1. mem.next \in Nat
  BY DEF MemoryRecord
<1> QED
  BY <1>1 DEF Grown

\* What create_next_table does for entry i of table x: it ends in a table of
\* level e.
Descended(mem, lev, x, i, e, r, lev2) ==
  /\ r = [table |-> r.table, m |-> r.m]
  /\ Grown(mem, lev, r.m, lev2)
  /\ ~r.m.panic => /\ r.table \in Memory /\ lev2[r.table] = e
                   /\ r.m.tables[x][i] = r.table
  /\ r.m.tables # mem.tables => mem.tables[x][i] = NotPresent
  /\ \A v \in Nat :
       /\ At3(mem.tables, v) # NotPresent => At3(r.m.tables, v) = At3(mem.tables, v)
       /\ At2(mem.tables, v) # NotPresent => At2(r.m.tables, v) = At2(mem.tables, v)

LEMMA CreateStep ==
  ASSUME NEW w, NEW mem \in MemoryRecord, NEW x \in Memory, NEW i \in Slot,
         w = [table |-> x, m |-> mem], ~mem.panic,
         NEW lev, Tree(mem.tables, mem.next, lev),
         NEW d \in 2 .. 4, NEW e, e = d - 1, lev[x] = d,
         NEW r, r = CreateNextTable(w, i)
  PROVE  \E lev2 : Descended(mem, lev, x, i, e, r, lev2)
<1>0. mem.next \in Nat /\ mem.tables \in Tables
  BY DEF MemoryRecord
<1>1. ASSUME NEW f \in Memory, mem.next + 1 \in DOMAIN usable_frames,
             f = usable_frames[mem.next + 1]
      PROVE  lev[f] = 0 /\ ~Given(f, mem.next) /\ Given(f, mem.next + 1)
  <2>1. ~Given(f, mem.next)
    BY <1>0, <1>1, NextIsFresh
  <2>2. lev[f] = 0
    BY <2>1 DEF Tree
  <2>3. Given(f, mem.next + 1)
    BY <1>0, <1>1 DEF Given
  <2> QED
    BY <2>1, <2>2, <2>3
<1>2. ~(mem.next + 1 \in DOMAIN usable_frames /\ x = usable_frames[mem.next + 1])
  BY <1>1
<1>3. /\ r = [table |-> r.table, m |-> r.m]
      /\ r.m \in MemoryRecord
      /\ Created(mem, x, i, r)
  BY <1>2, CreateNextTableGives
<1>4. CASE r.m = mem /\ mem.tables[x][i] # NotPresent /\ r.table = mem.tables[x][i]
  <2>1. Grown(mem, lev, r.m, lev)
    BY <1>4, GrownRefl
  <2>2. r.table \in Memory /\ lev[r.table] = e
    BY <1>4 DEF Tree
  <2>3. Descended(mem, lev, x, i, e, r, lev)
    BY <1>3, <1>4, <2>1, <2>2 DEF Descended
  <2> QED
    BY <2>3
<1>5. CASE r.m.panic /\ r.m.tables = mem.tables /\ r.m.next = mem.next + 1
  <2>1. r.m.next >= mem.next /\ mem.next + 1 \in Nat /\ mem.next <= mem.next + 1
    <3>1. \A n \in Nat : n + 1 >= n /\ n + 1 \in Nat /\ n <= n + 1
      OBVIOUS
    <3> QED
      BY <1>0, <1>5, <3>1
  <2>2. Tree(r.m.tables, r.m.next, lev)
    <3>1. \A f \in Memory : lev[f] # 0 => Given(f, mem.next + 1)
      BY <1>0, <2>1, GivenGrows DEF Tree
    <3> QED
      BY <1>5, <3>1 DEF Tree
  <2>3. Grown(mem, lev, r.m, lev)
    BY <1>3, <1>5, <2>1, <2>2 DEF Grown
  <2>4. Descended(mem, lev, x, i, e, r, lev)
    BY <1>3, <1>5, <2>3 DEF Descended
  <2> QED
    BY <2>4
<1>6. CASE /\ ~r.m.panic /\ r.m.next = mem.next + 1
           /\ mem.tables[x][i] = NotPresent
           /\ mem.next + 1 \in DOMAIN usable_frames
           /\ r.table = usable_frames[mem.next + 1] /\ r.table \in Memory
           /\ Linked(mem.tables, r.m.tables, x, i, r.table)
  <2> DEFINE f == r.table
             lev2 == [lev EXCEPT ![f] = lev[x] - 1]
  <2>1. f \in Memory /\ lev[f] = 0 /\ ~Given(f, mem.next) /\ Given(f, mem.next + 1)
    BY <1>1, <1>6
  <2>2. lev[x] >= 2
    OBVIOUS
  <2> HIDE DEF f
  <2>3. Linked(mem.tables, r.m.tables, x, i, f) /\ mem.tables[x][i] = NotPresent
    BY <1>6 DEF f
  <2>4. Tree(r.m.tables, mem.next + 1, lev2)
    BY <1>0, <2>1, <2>2, <2>3, LinkedTree
  <2>5. lev2[f] = e /\ \A t \in Memory \ {f} : lev2[t] = lev[t]
    BY <2>1 DEF Tree
  <2>6. \A v \in Nat : /\ Trans(r.m.tables, v) = Trans(mem.tables, v)
                       /\ At3(mem.tables, v) # NotPresent =>
                            At3(r.m.tables, v) = At3(mem.tables, v)
                       /\ At2(mem.tables, v) # NotPresent =>
                            At2(r.m.tables, v) = At2(mem.tables, v)
    BY <2>1, <2>2, <2>3, LinkedTrans
  <2> HIDE DEF lev2
  <2>7. r.m.next = mem.next + 1 /\ r.m.next >= mem.next
    BY <1>0, <1>6
  <2>8. Grown(mem, lev, r.m, lev2)
    BY <1>3, <2>1, <2>4, <2>5, <2>6, <2>7 DEF Grown
  <2>9. x # f
    BY <2>1
  <2>10. r.m.tables[x][i] = f
    BY <2>3, <2>9 DEF Linked
  <2>11. Descended(mem, lev, x, i, e, r, lev2)
    BY <1>3, <1>6, <2>1, <2>5, <2>6, <2>8, <2>10 DEF Descended, f
  <2> QED
    BY <2>11
<1> QED
  BY <1>3, <1>4, <1>5, <1>6 DEF Created

\* Nothing is translated below a missing entry.
LEMMA MissingEntry ==
  ASSUME NEW T, NEW v
  PROVE  /\ At3(T, v) = NotPresent => Trans(T, v) = NotPresent
         /\ At2(T, v) = NotPresent => Trans(T, v) = NotPresent
         /\ At1(T, v) = NotPresent => Trans(T, v) = NotPresent
BY DEF Trans, At1, At2, Entry

\* What a walk has done after some of its steps: so far it has reached table at.
Reached(mem, lev, v, w, lev2, at) ==
  /\ w = [table |-> w.table, m |-> w.m]
  /\ Grown(mem, lev, w.m, lev2)
  /\ ~w.m.panic => w.table = at /\ at # NotPresent
  /\ w.m.tables # mem.tables => Trans(mem.tables, v) = NotPresent

LEMMA WalkFirst ==
  ASSUME NEW mem \in MemoryRecord, ~mem.panic, NEW lev,
         Tree(mem.tables, mem.next, lev), NEW v \in Nat
  PROVE  LET w == CreateNextTable([table |-> l4, m |-> mem], Index(v, 4))
         IN  \E lev2 : Reached(mem, lev, v, w, lev2, At3(w.m.tables, v))
<1> DEFINE w0 == [table |-> l4, m |-> mem]
           w == CreateNextTable(w0, Index(v, 4))
<1>1. l4 \in Memory /\ lev[l4] = 4 /\ Index(v, 4) \in Slot /\ l4 # NotPresent
  BY FramesAreNat, IndexType DEF Tree
<1> HIDE DEF w, w0
<1>2. PICK lev2 : Descended(mem, lev, l4, Index(v, 4), 3, w, lev2)
  <2> DEFINE i == Index(v, 4)
  <2>1. w0 = [table |-> l4, m |-> mem] /\ w = CreateNextTable(w0, i) /\ i \in Slot
    BY <1>1 DEF w0, w
  <2>2. 4 \in 2 .. 4 /\ 3 = 4 - 1
    OBVIOUS
  <2> HIDE DEF i
  <2>3. \E lev2 : Descended(mem, lev, l4, i, 3, w, lev2)
    BY <1>1, <2>1, <2>2, CreateStep
  <2> QED
    BY <2>3 DEF i
<1>3. ~w.m.panic => w.table = At3(w.m.tables, v) /\ w.table # NotPresent
  BY <1>1, <1>2, FramesAreNat DEF At3, Entry, Descended
<1>4. w.m.tables # mem.tables => Trans(mem.tables, v) = NotPresent
  BY <1>1, <1>2, MissingEntry DEF At3, Entry, Descended
<1>5. Reached(mem, lev, v, w, lev2, At3(w.m.tables, v))
  BY <1>2, <1>3, <1>4 DEF Reached, Descended
<1> QED
  BY <1>5 DEF w, w0

\* What one further step does, through entry i of table at: it ends in a table
\* of level e.
WentOn(mem, lev, v, w, at, i, e, r, lev2) ==
  /\ Reached(mem, lev, v, r, lev2, r.table)
  /\ ~r.m.panic => /\ ~w.m.panic /\ r.m.tables[at][i] = r.table
                   /\ r.table \in Memory /\ lev2[r.table] = e
  /\ \A u \in Nat :
       /\ At3(w.m.tables, u) # NotPresent => At3(r.m.tables, u) = At3(w.m.tables, u)
       /\ At2(w.m.tables, u) # NotPresent => At2(r.m.tables, u) = At2(w.m.tables, u)

LEMMA WalkOn ==
  ASSUME NEW mem \in MemoryRecord, NEW lev, NEW v \in Nat, NEW w, NEW lev1, NEW at,
         Reached(mem, lev, v, w, lev1, at),
         NEW d \in 2 .. 3, NEW e, e = d - 1, NEW i \in Slot,
         ~w.m.panic => at \in Memory /\ lev1[at] = d,
         w.m.tables[at][i] = NotPresent /\ at # NotPresent =>
           (w.m.panic \/ Trans(w.m.tables, v) = NotPresent),
         NEW r, r = CreateNextTable(w, i)
  PROVE  \E lev2 : WentOn(mem, lev, v, w, at, i, e, r, lev2)
<1>0. /\ w = [table |-> w.table, m |-> w.m]
      /\ Grown(mem, lev, w.m, lev1)
      /\ ~w.m.panic => w.table = at /\ at # NotPresent
      /\ w.m.tables # mem.tables => Trans(mem.tables, v) = NotPresent
      /\ w.m \in MemoryRecord
      /\ Tree(w.m.tables, w.m.next, lev1)
      /\ Trans(w.m.tables, v) = Trans(mem.tables, v)
  BY DEF Reached, Grown
<1>1. CASE w.m.panic
  <2>1. r = w
    BY <1>1 DEF CreateNextTable
  <2>2. Reached(mem, lev, v, r, lev1, r.table)
    BY <1>0, <1>1, <2>1 DEF Reached
  <2>3. WentOn(mem, lev, v, w, at, i, e, r, lev1)
    BY <1>1, <2>1, <2>2 DEF WentOn
  <2> QED
    BY <2>3
<1>2. CASE ~w.m.panic
  <2>1. w = [table |-> at, m |-> w.m] /\ at \in Memory /\ lev1[at] = d /\ d \in 2 .. 4
    BY <1>0, <1>2
  <2>2. PICK lev2 : Descended(w.m, lev1, at, i, e, r, lev2)
    <3> DEFINE mw == w.m
    <3>1. /\ mw \in MemoryRecord /\ w = [table |-> at, m |-> mw] /\ ~mw.panic
          /\ Tree(mw.tables, mw.next, lev1)
      BY <1>0, <1>2, <2>1
    <3> HIDE DEF mw
    <3>2. \E lev2 : Descended(mw, lev1, at, i, e, r, lev2)
      BY <2>1, <3>1, CreateStep
    <3> QED
      BY <3>2 DEF mw
  <2>3. Grown(mem, lev, r.m, lev2)
    BY <1>0, <2>2, GrownTwice DEF Descended
  <2>4. r.m.tables # mem.tables => Trans(mem.tables, v) = NotPresent
    BY <1>0, <1>2, <2>2 DEF Descended
  <2>5. ~r.m.panic => r.table # NotPresent
    BY <2>2, FramesAreNat DEF Descended
  <2>6. Reached(mem, lev, v, r, lev2, r.table)
    BY <2>2, <2>3, <2>4, <2>5 DEF Reached, Descended
  <2>7. WentOn(mem, lev, v, w, at, i, e, r, lev2)
    BY <1>2, <2>2, <2>6 DEF WentOn, Descended
  <2> QED
    BY <2>7
<1> QED
  BY <1>1, <1>2

LEMMA WalkReaches ==
  ASSUME NEW mem \in MemoryRecord, ~mem.panic, NEW lev,
         Tree(mem.tables, mem.next, lev), NEW v \in Nat
  PROVE  LET w == Walk(mem, l4, v)
         IN  \E lev2 : Reached(mem, lev, v, w, lev2, At1(w.m.tables, v))
<1> DEFINE w1 == CreateNextTable([table |-> l4, m |-> mem], Index(v, 4))
           w2 == CreateNextTable(w1, Index(v, 3))
           w3 == CreateNextTable(w2, Index(v, 2))
<1>0. Index(v, 3) \in Slot /\ Index(v, 2) \in Slot
  BY IndexType
<1>1. PICK lev1 : Reached(mem, lev, v, w1, lev1, At3(w1.m.tables, v))
  BY WalkFirst
<1> HIDE DEF w1
<1>2. PICK lev2 :
        /\ Reached(mem, lev, v, w2, lev2, w2.table)
        /\ ~w2.m.panic =>
             /\ ~w1.m.panic
             /\ w2.m.tables[At3(w1.m.tables, v)][Index(v, 3)] = w2.table
             /\ w2.table \in Memory /\ lev2[w2.table] = 2
        /\ \A u \in Nat : At3(w1.m.tables, u) # NotPresent =>
                            At3(w2.m.tables, u) = At3(w1.m.tables, u)
  <2> DEFINE at == At3(w1.m.tables, v)
             i == Index(v, 3)
  <2>1. ~w1.m.panic => at \in Memory /\ lev1[at] = 3
    <3>1. Tree(w1.m.tables, w1.m.next, lev1)
      BY <1>1 DEF Reached, Grown
    <3> QED
      BY <1>1, <3>1, Levels DEF Reached
  <2>2. w1.m.tables[at][i] = NotPresent /\ at # NotPresent =>
          (w1.m.panic \/ Trans(w1.m.tables, v) = NotPresent)
    BY MissingEntry DEF At2, Entry
  <2>3. 3 \in 2 .. 3 /\ 2 = 3 - 1
    OBVIOUS
  <2>0. i \in Slot
    BY <1>0
  <2> HIDE DEF at, i
  <2>4. Reached(mem, lev, v, w1, lev1, at)
    BY <1>1 DEF at
  <2>5. w2 = CreateNextTable(w1, i)
    BY DEF i
  <2> HIDE DEF w2
  <2>6. \E lev2 : WentOn(mem, lev, v, w1, at, i, 2, w2, lev2)
    BY <2>0, <2>1, <2>2, <2>3, <2>4, <2>5, WalkOn
  <2>7. PICK lev2 : WentOn(mem, lev, v, w1, at, i, 2, w2, lev2)
    BY <2>6
  <2> QED
    BY <2>7 DEF WentOn, at, i
<1> HIDE DEF w2
<1>3. ~w2.m.panic => w2.table = At2(w2.m.tables, v) /\ w2.table # NotPresent
  <2> SUFFICES ASSUME ~w2.m.panic
               PROVE  w2.table = At2(w2.m.tables, v) /\ w2.table # NotPresent
    OBVIOUS
  <2>1. At3(w1.m.tables, v) # NotPresent
    BY <1>1, <1>2 DEF Reached
  <2>2. At3(w2.m.tables, v) = At3(w1.m.tables, v)
    BY <1>2, <2>1
  <2>3. w2.table # NotPresent
    BY <1>2, FramesAreNat
  <2> QED
    BY <1>2, <2>1, <2>2, <2>3 DEF At2, Entry
<1>4. PICK lev3 :
        /\ Reached(mem, lev, v, w3, lev3, w3.table)
        /\ ~w3.m.panic =>
             /\ ~w2.m.panic
             /\ w3.m.tables[w2.table][Index(v, 2)] = w3.table
        /\ \A u \in Nat : At2(w2.m.tables, u) # NotPresent =>
                            At2(w3.m.tables, u) = At2(w2.m.tables, u)
  <2> DEFINE at == w2.table
             i == Index(v, 2)
  <2>1. ~w2.m.panic => at \in Memory /\ lev2[at] = 2
    BY <1>2
  <2>2. w2.m.tables[at][i] = NotPresent /\ at # NotPresent =>
          (w2.m.panic \/ Trans(w2.m.tables, v) = NotPresent)
    BY <1>3, MissingEntry DEF At1, Entry
  <2>3. 2 \in 2 .. 3 /\ 1 = 2 - 1
    OBVIOUS
  <2>0. i \in Slot
    BY <1>0
  <2> HIDE DEF at, i
  <2>4. Reached(mem, lev, v, w2, lev2, at)
    BY <1>2 DEF at
  <2>5. w3 = CreateNextTable(w2, i)
    BY DEF i
  <2> HIDE DEF w3
  <2>6. \E lev3 : WentOn(mem, lev, v, w2, at, i, 1, w3, lev3)
    BY <2>0, <2>1, <2>2, <2>3, <2>4, <2>5, WalkOn
  <2>7. PICK lev3 : WentOn(mem, lev, v, w2, at, i, 1, w3, lev3)
    BY <2>6
  <2> QED
    BY <2>7 DEF WentOn, at, i
<1> HIDE DEF w3
<1>5. ~w3.m.panic => w3.table = At1(w3.m.tables, v)
  <2> SUFFICES ASSUME ~w3.m.panic PROVE w3.table = At1(w3.m.tables, v)
    OBVIOUS
  <2>1. w2.table = At2(w2.m.tables, v) /\ At2(w2.m.tables, v) # NotPresent
    BY <1>3, <1>4
  <2>2. At2(w3.m.tables, v) = w2.table /\ w2.table # NotPresent
    BY <1>4, <2>1
  <2> QED
    BY <1>4, <2>2 DEF At1, Entry
<1>6. Reached(mem, lev, v, w3, lev3, At1(w3.m.tables, v))
  BY <1>4, <1>5 DEF Reached
<1>7. Walk(mem, l4, v) = w3
  BY DEF Walk, w1, w2, w3
<1> QED
  BY <1>6, <1>7

LEMMA PagesAreNat == Page \subseteq Nat /\ Address \subseteq Nat
<1>1. PAGE_SIZE \in Nat \ {0}
  BY PageTablesAssumption
<1>2. \A i \in Nat, p \in Nat \ {0} : i * p \in Nat
  OBVIOUS
<1>3. \A n : 0 .. n \subseteq Nat
  OBVIOUS
<1>4. Page \subseteq Nat
  BY <1>1, <1>2, <1>3 DEF Page
<1> QED
  BY <1>3, <1>4 DEF Address

\* What one call of map_address_impl does to the memory.
Step(mem, lev, v, phys, mode, r, lev2) ==
  /\ r.m \in MemoryRecord
  /\ r.m.next >= mem.next
  /\ Tree(r.m.tables, r.m.next, lev2)
  /\ \A f \in Memory : \/ lev2[f] = lev[f]
                       \/ lev[f] = 0 /\ ~Given(f, mem.next) /\ Given(f, r.m.next)
  /\ r.res \in {"ok", "err", "panic"} /\ r.set \in BOOLEAN
  /\ r.res = "ok" => ~r.m.panic /\ v \in Page /\ Trans(r.m.tables, v) = phys
  /\ r.res = "err" => r.m.tables = mem.tables
  /\ ~r.set => \A p \in Page : Trans(r.m.tables, p) = Trans(mem.tables, p)
  /\ r.set => /\ v \in Page /\ phys \in Frame /\ Trans(r.m.tables, v) = phys
              /\ \A p \in Page \ {v} : Trans(r.m.tables, p) = Trans(mem.tables, p)
  /\ r.set /\ mode = "CheckFrameIsFree" => Trans(mem.tables, v) = NotPresent

\* Setting the last-level entry, after a walk to its table x.
WithEntry(mem, x, i, f) == [mem EXCEPT !.tables[x][i] = f]

LEMMA SetEntryGives ==
  ASSUME NEW mem \in MemoryRecord, NEW x \in Memory, NEW i \in Slot, NEW f \in Frame,
         NEW mem2, mem2 = WithEntry(mem, x, i, f)
  PROVE  /\ mem2 \in MemoryRecord
         /\ mem2.next = mem.next /\ mem2.panic = mem.panic
         /\ Changed(mem.tables, mem2.tables, x, i, f)
<1>1. mem = [tables |-> mem.tables, next |-> mem.next, panic |-> mem.panic]
      /\ mem.tables \in Tables /\ mem.next \in Nat /\ mem.panic \in BOOLEAN
  BY DEF MemoryRecord
<1> DEFINE T2 == [mem.tables EXCEPT ![x][i] = f]
<1>2. mem2.tables = T2 /\ mem2.next = mem.next /\ mem2.panic = mem.panic
      /\ mem2 = [tables |-> T2, next |-> mem.next, panic |-> mem.panic]
  BY <1>1 DEF MemoryRecord, WithEntry
<1>3. T2 \in Tables
  BY <1>1 DEF Tables
<1>4. \A t \in Memory, j \in Slot :
        T2[t][j] = IF t = x /\ j = i THEN f ELSE mem.tables[t][j]
  BY <1>1 DEF Tables
<1> HIDE DEF T2
<1>5. Changed(mem.tables, mem2.tables, x, i, f)
  BY <1>2, <1>3, <1>4 DEF Changed
<1>6. mem2 \in MemoryRecord
  BY <1>1, <1>2, <1>3 DEF MemoryRecord
<1> QED
  BY <1>2, <1>5, <1>6

\* A memory mem2 that a walk for page v has left: its tables have the same
\* translations as before.
Walked(mem, lev, v, mem2, lev2) ==
  /\ mem2 \in MemoryRecord
  /\ mem2.next >= mem.next
  /\ Tree(mem2.tables, mem2.next, lev2)
  /\ \A f \in Memory : \/ lev2[f] = lev[f]
                       \/ lev[f] = 0 /\ ~Given(f, mem.next) /\ Given(f, mem2.next)
  /\ \A p \in Page : Trans(mem2.tables, p) = Trans(mem.tables, p)

\* map_address_impl when it does not set the entry.
LEMMA KeepStep ==
  ASSUME NEW mem, NEW lev, NEW v, NEW phys, NEW mode, NEW mem2, NEW lev2,
         Walked(mem, lev, v, mem2, lev2),
         NEW res \in {"ok", "err", "panic"},
         res = "ok" => ~mem2.panic /\ v \in Page /\ Trans(mem2.tables, v) = phys,
         res = "err" => mem2.tables = mem.tables,
         NEW r, r = Result(res, mem2, FALSE)
  PROVE  Step(mem, lev, v, phys, mode, r, lev2)
<1>1. r.m = mem2 /\ r.res = res /\ r.set = FALSE
  BY DEF Result
<1> QED
  BY <1>1, Zenon DEF Step, Walked

\* mem2 is mem with page v mapped to frame f
Remapped(mem, lev, v, f, mem2) ==
  /\ mem2 \in MemoryRecord /\ mem2.next = mem.next /\ mem2.panic = mem.panic
  /\ Tree(mem2.tables, mem2.next, lev)
  /\ Trans(mem2.tables, v) = f
  /\ \A p \in Page \ {v} : Trans(mem2.tables, p) = Trans(mem.tables, p)

LEMMA SetEntryMaps ==
  ASSUME NEW mem \in MemoryRecord, NEW lev, Tree(mem.tables, mem.next, lev),
         NEW v \in Page, NEW f \in Frame,
         NEW x, x = At1(mem.tables, v), x # NotPresent,
         NEW i, i = Index(v, 1),
         NEW mem2, mem2 = WithEntry(mem, x, i, f)
  PROVE  Remapped(mem, lev, v, f, mem2)
<1>0. v \in Nat /\ i \in Slot
  <2>1. v \in Nat
    BY PagesAreNat, Zenon
  <2> QED
    BY <2>1, IndexType
<1>1. x \in Memory /\ lev[x] = 1
  BY <1>0, Levels, Zenon
<1>2. /\ mem2 \in MemoryRecord /\ mem2.next = mem.next /\ mem2.panic = mem.panic
      /\ Changed(mem.tables, mem2.tables, x, i, f)
  BY <1>0, <1>1, SetEntryGives
<1>3. Tree(mem2.tables, mem2.next, lev)
  BY <1>0, <1>1, <1>2, ChangedTree
<1>4. /\ Trans(mem2.tables, v) = f
      /\ \A p \in Page \ {v} : Trans(mem2.tables, p) = Trans(mem.tables, p)
  BY <1>2, PagesAreNat, ChangedTrans
<1> QED
  BY <1>2, <1>3, <1>4 DEF Remapped

\* map_address_impl when it sets entry i of table x.
LEMMA SetStep ==
  ASSUME NEW mem, NEW lev, NEW v \in Page, NEW phys \in Frame, NEW mode,
         NEW mem2, NEW lev2, Walked(mem, lev, v, mem2, lev2), ~mem2.panic,
         NEW x, x = At1(mem2.tables, v), x # NotPresent,
         NEW i, i = Index(v, 1),
         ~(mem2.tables[x][i] # NotPresent /\ mode = "CheckFrameIsFree"),
         NEW mem3, mem3 = WithEntry(mem2, x, i, phys),
         NEW r, r = Result("ok", mem3, TRUE)
  PROVE  Step(mem, lev, v, phys, mode, r, lev2)
<1>1. r.m = mem3 /\ r.res = "ok" /\ r.set = TRUE
  BY DEF Result
<1>2. /\ mem2 \in MemoryRecord /\ mem2.next >= mem.next
      /\ Tree(mem2.tables, mem2.next, lev2)
      /\ \A p \in Page : Trans(mem2.tables, p) = Trans(mem.tables, p)
  BY DEF Walked
<1>3. /\ mem3 \in MemoryRecord /\ mem3.next = mem2.next /\ mem3.panic = mem2.panic
      /\ Tree(mem3.tables, mem3.next, lev2)
      /\ Trans(mem3.tables, v) = phys
      /\ \A p \in Page \ {v} : Trans(mem3.tables, p) = Trans(mem2.tables, p)
  <2>1. Remapped(mem2, lev2, v, phys, mem3)
    BY <1>2, SetEntryMaps
  <2> QED
    BY <2>1 DEF Remapped
<1>4. \A p \in Page \ {v} : Trans(mem3.tables, p) = Trans(mem.tables, p)
  BY <1>2, <1>3
<1>5. mode = "CheckFrameIsFree" => Trans(mem.tables, v) = NotPresent
  <2>1. Trans(mem2.tables, v) = mem2.tables[x][i]
    BY DEF Trans, Entry
  <2> QED
    BY <1>2, <2>1
<1>6. ~mem3.panic /\ mem3.next >= mem.next
  BY <1>2, <1>3
<1>7. \A f \in Memory :
         \/ lev2[f] = lev[f]
         \/ lev[f] = 0 /\ ~Given(f, mem.next) /\ Given(f, mem3.next)
  BY <1>3 DEF Walked
<1> QED
  BY <1>1, <1>3, <1>4, <1>5, <1>6, <1>7, Zenon DEF Step

LEMMA MapGives ==
  ASSUME NEW mem \in MemoryRecord, ~mem.panic, NEW lev,
         Tree(mem.tables, mem.next, lev), NEW v \in Address,
         NEW phys \in Nat, phys % PAGE_SIZE = 0 => phys \in Frame,
         NEW mode, NEW r, r = MapAddressImpl(mem, l4, v, phys, mode)
  PROVE  \E lev2 : Step(mem, lev, v, phys, mode, r, lev2)
<1>0. v \in Nat
  BY PagesAreNat
<1>1. CASE v % PAGE_SIZE # 0 \/ phys % PAGE_SIZE # 0
  <2>1. r = Result("err", mem, FALSE)
    BY Zenon, <1>1 DEF MapAddressImpl
  <2>2. Walked(mem, lev, v, mem, lev)
    BY DEF Walked, MemoryRecord
  <2>3. Step(mem, lev, v, phys, mode, r, lev)
    BY Zenon, <2>1, <2>2, KeepStep
  <2> QED
    BY <2>3
<1>2. CASE v % PAGE_SIZE = 0 /\ phys % PAGE_SIZE = 0
  <2> DEFINE w == Walk(mem, l4, v)
             i == Index(v, 1)
             mem2 == w.m
             x == w.table
  <2>0. v \in Page /\ phys \in Frame
    BY <1>0, <1>2, AlignedIsPage
  <2>1. PICK lev2 : Reached(mem, lev, v, w, lev2, At1(w.m.tables, v))
    BY <1>0, WalkReaches
  <2>2. r = IF mem2.panic THEN Result("panic", mem2, FALSE)
            ELSE IF mem2.tables[x][i] = phys THEN Result("ok", mem2, FALSE)
            ELSE IF mem2.tables[x][i] # NotPresent /\ mode = "CheckFrameIsFree"
            THEN Result("err", mem2, FALSE)
            ELSE Result("ok", WithEntry(mem2, x, i, phys), TRUE)
    BY Zenon, <1>2 DEF MapAddressImpl, WithEntry
  <2> HIDE DEF w
  <2>3. /\ \A p \in Nat : Trans(mem2.tables, p) = Trans(mem.tables, p)
        /\ ~mem2.panic => x = At1(mem2.tables, v) /\ x # NotPresent
        /\ mem2.tables # mem.tables => Trans(mem.tables, v) = NotPresent
    BY <2>1 DEF Reached, Grown
  <2>4. Walked(mem, lev, v, mem2, lev2)
    BY <2>1, PagesAreNat DEF Reached, Grown, Walked
  <2>5. i = Index(v, 1)
    OBVIOUS
  <2> HIDE DEF mem2, x, i
  <2>6. ~mem2.panic => Trans(mem2.tables, v) = mem2.tables[x][i]
    BY <2>3, <2>5 DEF Trans, Entry
  <2>7. Trans(mem2.tables, v) = Trans(mem.tables, v)
    BY <1>0, <2>3
  <2>8. CASE mem2.panic
    <3>1. r = Result("panic", mem2, FALSE)
      BY <2>2, <2>8
    <3> QED
      BY Zenon, <2>4, <3>1, KeepStep
  <2>9. CASE ~mem2.panic /\ mem2.tables[x][i] = phys
    <3>1. r = Result("ok", mem2, FALSE)
      BY <2>2, <2>9
    <3>2. Trans(mem2.tables, v) = phys
      BY <2>6, <2>9
    <3> QED
      BY Zenon, <2>0, <2>4, <2>9, <3>1, <3>2, KeepStep
  <2>10. CASE /\ ~mem2.panic /\ mem2.tables[x][i] # phys
              /\ mem2.tables[x][i] # NotPresent /\ mode = "CheckFrameIsFree"
    <3>1. r = Result("err", mem2, FALSE)
      BY <2>2, <2>10
    <3>2. mem2.tables = mem.tables
      BY <2>3, <2>6, <2>7, <2>10
    <3> QED
      BY Zenon, <2>4, <3>1, <3>2, KeepStep
  <2>11. CASE /\ ~mem2.panic /\ mem2.tables[x][i] # phys
              /\ ~(mem2.tables[x][i] # NotPresent /\ mode = "CheckFrameIsFree")
    <3> DEFINE mem3 == WithEntry(mem2, x, i, phys)
    <3>1. r = Result("ok", mem3, TRUE)
      BY ZenonT(30), <2>2, <2>11
    <3>2. mem3 = WithEntry(mem2, x, i, phys)
      OBVIOUS
    <3> HIDE DEF mem3
    <3> QED
      BY Zenon, <2>0, <2>3, <2>4, <2>5, <2>11, <3>1, <3>2, SetStep
  <2> QED
    BY <2>8, <2>9, <2>10, <2>11
<1> QED
  BY <1>1, <1>2

----------------------------------------------------------------------------
(***************************************************************************)
(* The inductive invariant.  lev tells the level of each frame that is a   *)
(* page table.                                                             *)
(***************************************************************************)

\* the frames hs of the heap are given, and none is a page table
Uses(T, n, lev, hs) ==
  /\ Tree(T, n, lev)
  /\ \A f \in hs : f \in Memory /\ lev[f] = 0 /\ Given(f, n)

\* the first k pages of the heap have a frame of hs each
HeapMapped(T, hs, k) ==
  /\ \A i \in 1 .. k : HeapPage[i] \in Page /\ Trans(T, HeapPage[i]) \in hs
  /\ \A i, j \in 1 .. k : i # j => Trans(T, HeapPage[i]) # Trans(T, HeapPage[j])

\* a cached translation is the one of the tables
Coherent(tl, T) ==
  /\ tl \in [Page -> Frame \cup {NotPresent}]
  /\ \A v \in Page : tl[v] # NotPresent => tl[v] = Trans(T, v)

MemoryInv ==
  /\ m \in MemoryRecord
  /\ cr3 \in {NotPresent, l4}
  /\ next_heap \in 0 .. Len(HeapPage)
  /\ next_device \in 0 .. Len(DevicePage)
  /\ result = "ok" => ~m.panic
  /\ cr3 = NotPresent => /\ tlb = [p \in Page |-> NotPresent]
                         /\ heap = {} /\ next_heap = 0
  /\ \E lev : Uses(m.tables, m.next, lev, heap)
  /\ result = "ok" => HeapMapped(m.tables, heap, next_heap)
  /\ Coherent(tlb, m.tables)

LEMMA StepUses ==
  ASSUME NEW mem \in MemoryRecord, NEW lev, NEW hs, Uses(mem.tables, mem.next, lev, hs),
         NEW v, NEW phys, NEW mode, NEW r, NEW lev2,
         Step(mem, lev, v, phys, mode, r, lev2)
  PROVE  Uses(r.m.tables, r.m.next, lev2, hs)
<1>1. Tree(r.m.tables, r.m.next, lev2)
  BY DEF Step
<1>2. ASSUME NEW f \in hs
      PROVE  f \in Memory /\ lev2[f] = 0 /\ Given(f, r.m.next)
  <2>1. f \in Memory /\ lev[f] = 0 /\ Given(f, mem.next)
    BY DEF Uses
  <2>2. lev2[f] = 0
    BY <2>1 DEF Step
  <2>3. mem.next \in Nat /\ r.m.next \in Nat /\ mem.next <= r.m.next
    BY DEF Step, MemoryRecord
  <2>4. Given(f, r.m.next)
    BY <2>1, <2>3, GivenGrows
  <2> QED
    BY <2>1, <2>2, <2>4
<1> QED
  BY <1>1, <1>2 DEF Uses

LEMMA UsesGrows ==
  ASSUME NEW n \in Nat, NEW k \in Nat, n <= k, NEW T, NEW lev, NEW hs, Uses(T, n, lev, hs)
  PROVE  Uses(T, k, lev, hs)
<1>1. \A f : Given(f, n) => Given(f, k)
  BY GivenGrows
<1>2. Tree(T, k, lev)
  BY <1>1 DEF Uses, Tree
<1> QED
  BY <1>1, <1>2 DEF Uses

\* A frame that allocate_frame has just given is no table and not in the heap.
LEMMA FreshUses ==
  ASSUME NEW n \in Nat, NEW T, NEW lev, NEW hs, Uses(T, n, lev, hs),
         n + 1 \in DOMAIN usable_frames, NEW f \in Memory, f = usable_frames[n + 1]
  PROVE  Uses(T, n + 1, lev, hs \cup {f}) /\ f \notin hs
<1>1. ~Given(f, n)
  BY NextIsFresh
<1>2. lev[f] = 0 /\ f \notin hs
  BY <1>1 DEF Uses, Tree
<1>3. Given(f, n + 1)
  BY DEF Given
<1>4. Uses(T, n + 1, lev, hs)
  BY UsesGrows
<1> QED
  BY <1>2, <1>3, <1>4 DEF Uses

LEMMA StepCoherent ==
  ASSUME NEW mem, NEW lev, NEW v, NEW phys, NEW r, NEW lev2,
         Step(mem, lev, v, phys, "CheckFrameIsFree", r, lev2),
         NEW tl, Coherent(tl, mem.tables), NEW tl2,
         tl2 = IF r.set /\ phys \in Page THEN [tl EXCEPT ![phys] = NotPresent] ELSE tl
  PROVE  Coherent(tl2, r.m.tables)
<1>1. tl \in [Page -> Frame \cup {NotPresent}]
  BY DEF Coherent
<1>2. tl2 \in [Page -> Frame \cup {NotPresent}]
  BY <1>1
<1>3. ASSUME NEW p \in Page, tl2[p] # NotPresent
      PROVE  tl2[p] = Trans(r.m.tables, p)
  <2>1. tl2[p] = tl[p]
    BY <1>1, <1>3
  <2>2. tl[p] = Trans(mem.tables, p) /\ Trans(mem.tables, p) # NotPresent
    BY <1>3, <2>1 DEF Coherent
  <2>3. Trans(r.m.tables, p) = Trans(mem.tables, p)
    BY <2>2 DEF Step
  <2> QED
    BY <2>1, <2>2, <2>3
<1> QED
  BY <1>2, <1>3 DEF Coherent

LEMMA StepHeap ==
  ASSUME NEW mem, NEW lev, NEW v, NEW phys, NEW r, NEW lev2,
         Step(mem, lev, v, phys, "CheckFrameIsFree", r, lev2),
         NEW hs, NotPresent \notin hs, NEW k \in Nat, HeapMapped(mem.tables, hs, k)
  PROVE  /\ HeapMapped(r.m.tables, hs, k)
         /\ r.res = "ok" /\ v = HeapPage[k + 1] /\ phys \notin hs =>
              HeapMapped(r.m.tables, hs \cup {phys}, k + 1)
<1>1. ASSUME NEW i \in 1 .. k
      PROVE  /\ HeapPage[i] \in Page /\ Trans(r.m.tables, HeapPage[i]) \in hs
             /\ Trans(r.m.tables, HeapPage[i]) = Trans(mem.tables, HeapPage[i])
  BY DEF Step, HeapMapped
<1>2. HeapMapped(r.m.tables, hs, k)
  BY <1>1 DEF HeapMapped
<1>3. ASSUME r.res = "ok", v = HeapPage[k + 1], phys \notin hs
      PROVE  HeapMapped(r.m.tables, hs \cup {phys}, k + 1)
  <2>1. v \in Page /\ Trans(r.m.tables, v) = phys
    BY <1>3 DEF Step
  <2>2. ASSUME NEW i \in 1 .. k + 1
        PROVE  HeapPage[i] \in Page /\ Trans(r.m.tables, HeapPage[i]) \in hs \cup {phys}
    <3>1. CASE i = k + 1
      BY <1>3, <2>1, <3>1
    <3>2. CASE i # k + 1
      <4>1. i \in 1 .. k
        BY <3>2
      <4> QED
        BY <1>1, <4>1
    <3> QED
      BY <3>1, <3>2
  <2>3. ASSUME NEW i \in 1 .. k + 1, NEW j \in 1 .. k + 1, i # j
        PROVE  Trans(r.m.tables, HeapPage[i]) # Trans(r.m.tables, HeapPage[j])
    <3>1. CASE i \in 1 .. k /\ j \in 1 .. k
      BY <1>2, <2>3, <3>1 DEF HeapMapped
    <3>2. CASE i = k + 1 /\ j \in 1 .. k
      BY <1>1, <1>3, <2>1, <3>2
    <3>3. CASE j = k + 1 /\ i \in 1 .. k
      BY <1>1, <1>3, <2>1, <3>3
    <3>4. (i = k + 1 \/ i \in 1 .. k) /\ (j = k + 1 \/ j \in 1 .. k)
      OBVIOUS
    <3> QED
      BY <2>3, <3>1, <3>2, <3>3, <3>4
  <2> QED
    BY <2>2, <2>3 DEF HeapMapped
<1> QED
  BY <1>2, <1>3

LEMMA FirstTable ==
  LET first == AllocatePageTable([tables |-> Garbage, next |-> 0, panic |-> FALSE]).m
      lev == [f \in Memory |-> IF f = l4 THEN 4 ELSE 0]
  IN  /\ first \in MemoryRecord /\ ~first.panic
      /\ Uses(first.tables, first.next, lev, {})
      /\ \A v : Trans(first.tables, v) = NotPresent \/ v \notin Nat
<1> DEFINE mem == [tables |-> Garbage, next |-> 0, panic |-> FALSE]
           T == [Garbage EXCEPT ![l4] = EmptyTable]
           first == AllocatePageTable(mem).m
           lev == [f \in Memory |-> IF f = l4 THEN 4 ELSE 0]
<1>1. /\ usable_frames \in Seq(Memory) /\ Len(usable_frames) > 0
      /\ 1 \in DOMAIN usable_frames /\ l4 = usable_frames[1] /\ l4 \in Memory
      /\ l4 # NotPresent
  BY UsableFramesAssumption, FramesAreNat DEF l4
<1>2. Garbage \in Tables
  BY DEF Garbage, Tables, Slot, E, Frame
<1>3. mem \in MemoryRecord /\ ~mem.panic /\ mem.next = 0 /\ mem.tables = Garbage
  BY <1>2 DEF MemoryRecord
<1> HIDE DEF mem
<1>4. AllocatePageTable(mem).table = l4
  <2>1. AllocateFrame(mem).frame = l4
    BY <1>1, <1>3 DEF AllocateFrame
  <2> QED
    BY <2>1 DEF AllocatePageTable
<1>5. /\ T \in Tables
      /\ \A j \in Slot : T[l4][j] = NotPresent
  BY <1>1, <1>2, EmptyTableType DEF Tables
<1>6. first \in MemoryRecord /\ ~first.panic /\ first.tables = T /\ first.next = 1
  <2>1. first.next = mem.next + 1
    BY Zenon, <1>3, AllocatePageTableGives
  <2>2. first \in MemoryRecord /\ ~first.panic
        /\ first.tables = [mem.tables EXCEPT ![l4] = EmptyTable]
    BY Zenon, <1>1, <1>3, <1>4, AllocatePageTableGives
  <2> QED
    BY <1>3, <2>1, <2>2
<1> HIDE DEF T, first
<1>7. Given(l4, 1)
  BY <1>1 DEF Given
<1>8. Tree(T, 1, lev)
  BY <1>1, <1>5, <1>7 DEF Tree
<1>9. ASSUME NEW v \in Nat PROVE Trans(T, v) = NotPresent
  <2>1. Index(v, 4) \in Slot
    BY IndexType
  <2>2. At3(T, v) = NotPresent
    BY <1>1, <1>5, <2>1 DEF At3, Entry
  <2> QED
    BY <2>2, MissingEntry
<1>10. Uses(T, 1, lev, {})
  BY <1>8 DEF Uses
<1> QED
  BY Zenon, <1>6, <1>9, <1>10 DEF first, mem

LEMMA MemoryInvInit == ASSUME MemoryInit PROVE MemoryInv
<1>1. /\ m \in MemoryRecord /\ ~m.panic
      /\ \E lev : Uses(m.tables, m.next, lev, heap)
  BY Zenon, FirstTable DEF MemoryInit
<1>2. /\ cr3 = NotPresent /\ next_heap = 0 /\ next_device = 0 /\ heap = {}
      /\ tlb = [p \in Page |-> NotPresent]
  BY DEF MemoryInit
<1>3. next_heap \in 0 .. Len(HeapPage) /\ next_device \in 0 .. Len(DevicePage)
  BY <1>2, MemoryAssumption
<1>4. HeapMapped(m.tables, heap, next_heap)
  BY <1>2 DEF HeapMapped
<1>5. Coherent(tlb, m.tables)
  BY <1>2 DEF Coherent
<1> QED
  BY <1>1, <1>2, <1>3, <1>4, <1>5 DEF MemoryInv

\* What the pages and frames of the three callers are.
LEMMA Arguments ==
  /\ LoaderPage \subseteq Address
  /\ \A i \in 1 .. Len(HeapPage) : HeapPage[i] \in Address
  /\ \A i \in 1 .. Len(DevicePage) : DevicePage[i] \in Address
  /\ Len(HeapPage) \in Nat /\ Len(DevicePage) \in Nat
  /\ \A f \in LoaderFrame \cup Frame : f \in Nat
  /\ \A f \in LoaderFrame : f % PAGE_SIZE = 0 => f \in Frame
<1>1. /\ LoaderPage \subseteq Address
      /\ HeapPage \in Seq(Address) /\ DevicePage \in Seq(Address)
      /\ LoaderFrame \subseteq Nat /\ DeviceFrame \in Nat
      /\ \A f \in LoaderFrame : f % PAGE_SIZE = 0 => f \in Frame
  BY MemoryAssumption DEF Address
<1>2. /\ \A i \in 1 .. Len(HeapPage) : HeapPage[i] \in Address
      /\ \A i \in 1 .. Len(DevicePage) : DevicePage[i] \in Address
      /\ Len(HeapPage) \in Nat /\ Len(DevicePage) \in Nat
  BY <1>1
<1>3. \A f \in LoaderFrame \cup Frame : f \in Nat
  BY <1>1, FramesAreNat DEF Frame
<1> QED
  BY <1>1, <1>2, <1>3

\* the step calls map_address_impl once
Maps(mode) ==
  \E mem, lev, v, phys, r, lev2 :
    /\ mem.tables = m.tables
    /\ Step(mem, lev, v, phys, mode, r, lev2)
    /\ m' = r.m /\ result' = r.res

LEMMA LoaderMapInv ==
  ASSUME MemoryInv, LoaderMap
  PROVE  MemoryInv' /\ \E mode : Maps(mode)
<1>1. PICK v, phys, r, mode :
        /\ v \in LoaderPage /\ phys \in LoaderFrame
        /\ Mapped(r, phys)
        /\ r = MapAddressImpl(m, l4, v, phys, mode)
  <2>1. PICK v \in LoaderPage, phys \in LoaderFrame :
          \/ Mapped(MapAddress(m, l4, v, phys), phys)
          \/ Mapped(RemapAddress(m, l4, v, phys), phys)
    BY DEF LoaderMap
  <2>2. CASE Mapped(MapAddress(m, l4, v, phys), phys)
    BY <2>2 DEF MapAddress
  <2>3. CASE Mapped(RemapAddress(m, l4, v, phys), phys)
    BY <2>3 DEF RemapAddress
  <2> QED
    BY <2>1, <2>2, <2>3
<1>2. /\ m \in MemoryRecord /\ ~m.panic /\ cr3 = NotPresent /\ heap = {}
      /\ next_heap = 0 /\ tlb = [p \in Page |-> NotPresent]
  BY DEF MemoryInv, LoaderMap, Running
<1>3. PICK lev : Uses(m.tables, m.next, lev, heap)
  BY DEF MemoryInv
<1>4. v \in Address /\ phys \in Nat /\ (phys % PAGE_SIZE = 0 => phys \in Frame)
  <2>1. v \in LoaderPage /\ phys \in LoaderFrame
    BY <1>1
  <2> QED
    BY <2>1, Arguments
<1>5. PICK lev2 : Step(m, lev, v, phys, mode, r, lev2)
  <2>1. Tree(m.tables, m.next, lev)
    BY <1>3 DEF Uses
  <2> QED
    BY <1>1, <1>2, <1>4, <2>1, MapGives
<1>6. /\ m' = r.m /\ result' = r.res
      /\ UNCHANGED <<cr3, next_heap, next_device, heap>>
  BY <1>1 DEF LoaderMap, Mapped
<1>7. tlb' = tlb
  <2>1. tlb' = IF r.set /\ phys \in Page THEN [tlb EXCEPT ![phys] = NotPresent] ELSE tlb
    BY <1>1 DEF Mapped
  <2> QED
    BY <1>2, <2>1
<1>8. Uses(r.m.tables, r.m.next, lev2, heap)
  BY <1>2, <1>3, <1>5, StepUses
<1>9. r.m \in MemoryRecord /\ (r.res = "ok" => ~r.m.panic)
  BY <1>5 DEF Step
<1>10. HeapMapped(r.m.tables, heap, next_heap) /\ Coherent(tlb, r.m.tables)
  BY <1>2 DEF HeapMapped, Coherent
<1>11. MemoryInv'
  BY <1>2, <1>6, <1>7, <1>8, <1>9, <1>10 DEF MemoryInv
<1>12. Maps(mode)
  BY <1>5, <1>6 DEF Maps
<1> QED
  BY <1>11, <1>12

\* A step of the kernel, which uses map_address: hs is the heap after it.
LEMMA KernelMapInv ==
  ASSUME MemoryInv, Running, cr3 # NotPresent,
         NEW mem \in MemoryRecord, mem.tables = m.tables, ~mem.panic,
         NEW lev, NEW hs, Uses(mem.tables, mem.next, lev, hs), heap \subseteq hs,
         NEW v \in Address, NEW phys \in Frame,
         NEW r, r = MapAddress(mem, l4, v, phys), Mapped(r, phys), UNCHANGED cr3,
         heap' = hs,
         next_heap' \in 0 .. Len(HeapPage), next_device' \in 0 .. Len(DevicePage),
         \/ hs = heap /\ next_heap' = next_heap
         \/ /\ hs = heap \cup {phys} /\ phys \notin heap
            /\ v = HeapPage[next_heap + 1] /\ next_heap' = next_heap + 1
  PROVE  MemoryInv' /\ Maps("CheckFrameIsFree")
<1>1. PICK lev2 : Step(mem, lev, v, phys, "CheckFrameIsFree", r, lev2)
  <2>1. Tree(mem.tables, mem.next, lev)
    BY DEF Uses
  <2>2. phys \in Nat
    BY Arguments
  <2> QED
    BY Zenon, <2>1, <2>2, MapGives DEF MapAddress
<1>2. /\ m' = r.m /\ result' = r.res
      /\ tlb' = IF r.set /\ phys \in Page THEN [tlb EXCEPT ![phys] = NotPresent] ELSE tlb
  BY DEF Mapped
<1>3. /\ cr3 \in {NotPresent, l4} /\ Coherent(tlb, m.tables)
      /\ HeapMapped(m.tables, heap, next_heap)
      /\ next_heap \in Nat
  BY DEF MemoryInv, Running
<1>4. Uses(r.m.tables, r.m.next, lev2, hs)
  BY <1>1, StepUses
<1>5. Coherent(tlb', r.m.tables)
  BY Zenon, <1>1, <1>2, <1>3, StepCoherent
<1>6. NotPresent \notin heap
  BY FramesAreNat DEF Uses
<1>7. HeapMapped(mem.tables, heap, next_heap)
  BY <1>3
<1>8. /\ HeapMapped(r.m.tables, heap, next_heap)
      /\ r.res = "ok" /\ v = HeapPage[next_heap + 1] /\ phys \notin heap =>
           HeapMapped(r.m.tables, heap \cup {phys}, next_heap + 1)
  BY ZenonT(30), <1>1, <1>3, <1>6, <1>7, StepHeap
<1>9. r.res = "ok" => HeapMapped(r.m.tables, hs, next_heap')
  BY Zenon, <1>8
<1>10. r.m \in MemoryRecord /\ (r.res = "ok" => ~r.m.panic)
  BY Zenon, <1>1 DEF Step
<1>11. MemoryInv'
  BY <1>2, <1>3, <1>4, <1>5, <1>9, <1>10 DEF MemoryInv
<1>12. Maps("CheckFrameIsFree")
  BY Zenon, <1>1, <1>2 DEF Maps
<1> QED
  BY <1>11, <1>12

LEMMA MapHeapPageInv ==
  ASSUME MemoryInv, MapHeapPage
  PROVE  MemoryInv' /\ (Maps("CheckFrameIsFree") \/ (m'.tables = m.tables /\ result' = "panic"))
<1> DEFINE a == AllocateFrame(m)
<1>1. /\ m \in MemoryRecord /\ ~m.panic /\ cr3 = l4 /\ Running /\ cr3 # NotPresent
      /\ m.next \in Nat /\ next_heap \in Nat /\ next_heap < Len(HeapPage)
      /\ next_heap' = next_heap + 1 /\ UNCHANGED <<cr3, next_device>>
  BY DEF MemoryInv, MapHeapPage, Running, MemoryRecord
<1>2. PICK lev : Uses(m.tables, m.next, lev, heap)
  BY DEF MemoryInv
<1>3. /\ a.m \in MemoryRecord
      /\ a.m.tables = m.tables /\ a.m.panic = m.panic
      /\ a.m.next = m.next + 1
      /\ a.frame # NotPresent => /\ m.next + 1 \in DOMAIN usable_frames
                                 /\ a.frame = usable_frames[m.next + 1]
                                 /\ a.frame \in Memory
  BY <1>1, AllocateFrameGives
<1>4. \/ /\ a.frame # NotPresent
         /\ Mapped(MapAddress(a.m, cr3, HeapPage[next_heap + 1], a.frame), a.frame)
         /\ heap' = heap \cup {a.frame}
      \/ /\ a.frame = NotPresent
         /\ m' = a.m /\ result' = "panic" /\ UNCHANGED <<tlb, heap>>
  BY DEF MapHeapPage
<1> HIDE DEF a
<1>5. /\ next_heap' \in 0 .. Len(HeapPage) /\ next_device' \in 0 .. Len(DevicePage)
      /\ next_heap + 1 \in 1 .. Len(HeapPage)
  <2>1. /\ Len(HeapPage) \in Nat /\ next_device \in 0 .. Len(DevicePage)
    BY Arguments DEF MemoryInv
  <2>2. \A k, n \in Nat : k < n => k + 1 \in 0 .. n /\ k + 1 \in 1 .. n
    OBVIOUS
  <2> QED
    BY <1>1, <2>1, <2>2
<1>6. CASE a.frame # NotPresent
  <2> DEFINE hs == heap \cup {a.frame}
             r == MapAddress(a.m, l4, HeapPage[next_heap + 1], a.frame)
  <2>1. Uses(a.m.tables, a.m.next, lev, hs) /\ a.frame \notin heap
    <3>1. Uses(m.tables, m.next + 1, lev, heap \cup {a.frame}) /\ a.frame \notin heap
      BY <1>1, <1>2, <1>3, <1>6, FreshUses
    <3> QED
      BY <1>3, <3>1
  <2>2. HeapPage[next_heap + 1] \in Address /\ a.frame \in Frame /\ heap \subseteq hs
    BY <1>3, <1>5, <1>6, Arguments DEF Frame
  <2>3. Mapped(r, a.frame) /\ heap' = hs
    BY <1>1, <1>4, <1>6
  <2>4. r = MapAddress(a.m, l4, HeapPage[next_heap + 1], a.frame)
        /\ hs = heap \cup {a.frame}
    OBVIOUS
  <2> HIDE DEF r, hs
  <2> QED
    BY Zenon, <1>1, <1>3, <1>5, <2>1, <2>2, <2>3, <2>4, KernelMapInv
<1>7. CASE a.frame = NotPresent
  <2>1. m' = a.m /\ result' = "panic" /\ UNCHANGED <<tlb, heap>>
    BY <1>4, <1>7
  <2>2. Uses(a.m.tables, a.m.next, lev, heap)
    <3>1. m.next + 1 \in Nat /\ m.next <= m.next + 1
      BY <1>1
    <3>2. Uses(m.tables, m.next + 1, lev, heap)
      BY <1>1, <1>2, <3>1, UsesGrows
    <3> QED
      BY <1>3, <3>2
  <2>3. Coherent(tlb, a.m.tables)
    BY <1>3 DEF MemoryInv
  <2>4. MemoryInv'
    BY <1>1, <1>3, <1>5, <2>1, <2>2, <2>3 DEF MemoryInv
  <2> QED
    BY <1>3, <2>1, <2>4
<1> QED
  BY <1>6, <1>7

LEMMA MapDevicePageInv ==
  ASSUME MemoryInv, MapDevicePage
  PROVE  MemoryInv' /\ Maps("CheckFrameIsFree")
<1>1. /\ m \in MemoryRecord /\ ~m.panic /\ cr3 = l4 /\ Running /\ cr3 # NotPresent
      /\ next_heap \in 0 .. Len(HeapPage) /\ next_device \in 0 .. Len(DevicePage)
      /\ next_device < Len(DevicePage) /\ next_device' = next_device + 1
      /\ UNCHANGED <<cr3, next_heap, heap>>
  BY DEF MemoryInv, MapDevicePage, Running
<1>2. PICK lev : Uses(m.tables, m.next, lev, heap)
  BY DEF MemoryInv
<1> DEFINE r == MapAddress(m, l4, DevicePage[next_device + 1], DeviceFrame)
<1>3. Mapped(r, DeviceFrame)
  BY <1>1 DEF MapDevicePage
<1>4. /\ next_device' \in 0 .. Len(DevicePage) /\ next_heap' \in 0 .. Len(HeapPage)
      /\ DevicePage[next_device + 1] \in Address /\ DeviceFrame \in Frame
  BY <1>1, Arguments DEF Frame
<1>5. r = MapAddress(m, l4, DevicePage[next_device + 1], DeviceFrame)
  OBVIOUS
<1> HIDE DEF r
<1> QED
  BY Zenon, <1>1, <1>2, <1>3, <1>4, <1>5, KernelMapInv

LEMMA OtherInv ==
  ASSUME MemoryInv,
         \/ ContextSwitch
         \/ \E v \in Page : Access(v)
         \/ UNCHANGED memoryVars
  PROVE  MemoryInv'
<1>1. CASE ContextSwitch
  <2>1. /\ cr3' = l4 /\ UNCHANGED <<m, next_heap, next_device, heap, result>>
        /\ tlb' = [p \in Page |-> NotPresent]
    BY <1>1 DEF ContextSwitch
  <2>2. Coherent(tlb', m.tables)
    BY <2>1 DEF Coherent
  <2>3. l4 # NotPresent
    BY FramesAreNat
  <2> QED
    BY <2>1, <2>2, <2>3 DEF MemoryInv
<1>2. ASSUME NEW v \in Page, Access(v) PROVE MemoryInv'
  <2>1. /\ UNCHANGED <<m, cr3, next_heap, next_device, heap, result>>
        /\ cr3 = l4 /\ cr3 # NotPresent
        /\ tlb' = [tlb EXCEPT ![v] = Trans(m.tables, v)]
    BY Zenon, <1>2, TransIsGet DEF Access, MemoryInv
  <2>2. Trans(m.tables, v) \in Frame \cup {NotPresent}
    <3>1. PICK lev : Tree(m.tables, m.next, lev)
      BY DEF MemoryInv, Uses
    <3>2. v \in Nat /\ Index(v, 1) \in Slot
      BY PagesAreNat, IndexType
    <3>3. At1(m.tables, v) # NotPresent => At1(m.tables, v) \in Memory
      BY <3>1, <3>2, Levels
    <3> QED
      BY <3>1, <3>2, <3>3 DEF Trans, Entry, Tree, Tables
  <2>3. Coherent(tlb', m.tables)
    <3>1. Coherent(tlb, m.tables)
      BY DEF MemoryInv
    <3> QED
      BY <2>1, <2>2, <3>1 DEF Coherent
  <2> QED
    BY <2>1, <2>3 DEF MemoryInv
<1>3. CASE UNCHANGED memoryVars
  BY <1>3 DEF memoryVars, MemoryInv
<1> QED
  BY <1>1, <1>2, <1>3

LEMMA MemoryInvNext ==
  ASSUME MemoryInv, [MemoryNext]_memoryVars
  PROVE  MemoryInv'
<1>1. CASE LoaderMap
  BY <1>1, LoaderMapInv
<1>2. CASE MapHeapPage
  BY <1>2, MapHeapPageInv
<1>3. CASE MapDevicePage
  BY <1>3, MapDevicePageInv
<1>4. CASE \/ ContextSwitch
           \/ \E v \in Page : Access(v)
           \/ UNCHANGED memoryVars
  BY <1>4, OtherInv
<1> QED
  BY <1>1, <1>2, <1>3, <1>4 DEF MemoryNext

\* What the page tables, the heap and the TLB keep to, in every execution.
LEMMA MemoryInvariant == MemorySpec => []MemoryInv
<1>1. MemoryInit => MemoryInv
  BY MemoryInvInit
<1>2. MemoryInv /\ [MemoryNext]_memoryVars => MemoryInv'
  BY MemoryInvNext
<1> QED
  BY <1>1, <1>2, PTL DEF MemorySpec

\* The tables that a walk can reach have a level.
LEMMA ReachedTables ==
  ASSUME NEW mem, NEW lev, Tree(mem.tables, mem.next, lev), NEW f \in TablesOf(mem, l4)
  PROVE  f \in Memory /\ lev[f] # 0
<1> DEFINE Below(ts) == TablesBelow(mem, ts)
           At(d) == {t \in Memory : lev[t] = d}
<1>1. ASSUME NEW d \in 2 .. 4, NEW ts, ts \subseteq At(d)
      PROVE  Below(ts) \subseteq At(d - 1)
  <2> SUFFICES ASSUME NEW t \in ts, NEW i \in Slot, mem.tables[t][i] # NotPresent
               PROVE  mem.tables[t][i] \in At(d - 1)
    BY DEF Slot, E, TablesBelow
  <2>1. t \in Memory /\ lev[t] = d
    BY <1>1
  <2> QED
    BY <2>1 DEF Tree
<1>2. {l4} \subseteq At(4)
  BY FramesAreNat DEF Tree
<1> DEFINE l3 == Below({l4})
           l2 == Below(l3)
           l1 == Below(l2)
<1>3. l3 \subseteq At(3)
  <2>1. 4 \in 2 .. 4 /\ 4 - 1 = 3
    OBVIOUS
  <2> HIDE DEF Below, At
  <2> QED
    BY <1>1, <1>2, <2>1
<1>4. l2 \subseteq At(2)
  <2>1. 3 \in 2 .. 4 /\ 3 - 1 = 2
    OBVIOUS
  <2> HIDE DEF Below, At, l3
  <2> QED
    BY <1>1, <1>3, <2>1
<1>5. l1 \subseteq At(1)
  <2>1. 2 \in 2 .. 4 /\ 2 - 1 = 1
    OBVIOUS
  <2> HIDE DEF Below, At, l2
  <2> QED
    BY <1>1, <1>4, <2>1
<1>6. TablesOf(mem, l4) = {l4} \cup l3 \cup l2 \cup l1
  BY DEF TablesOf
<1> HIDE DEF l1, l2, l3
<1> QED
  BY <1>2, <1>3, <1>4, <1>5, <1>6

\* allocate_frame gives a frame once: a page table (allocate_page_table) is not
\* in the heap (init_heap), both are Free memory, and no two pages of the heap
\* have the same frame; for any memory map and whatever the loader has mapped.
THEOREM FramesAreUsedOnce == MemorySpec => []FramesUsedOnce
<1>1. ASSUME MemoryInv PROVE FramesUsedOnce
  <2>1. PICK lev : Uses(m.tables, m.next, lev, heap)
    BY <1>1 DEF MemoryInv
  <2>2. \A f \in TablesOf(m, l4) : f \in Memory /\ lev[f] # 0
    BY <2>1, ReachedTables DEF Uses
  <2>3. \A f \in heap : f \in Memory /\ lev[f] = 0 /\ Given(f, m.next)
    BY <2>1 DEF Uses
  <2>4. \A f \in Memory : lev[f] # 0 => Given(f, m.next)
    BY <2>1 DEF Uses, Tree
  <2>5. \A f : Given(f, m.next) => f \in Range(usable_frames)
    BY DEF Given, Range
  <2>6. TablesOf(m, l4) \cap heap = {}
    BY <2>2, <2>3
  <2>7. TablesOf(m, l4) \cup heap \subseteq Range(usable_frames)
    BY <2>2, <2>3, <2>4, <2>5
  <2>8. ASSUME NEW i \in 1 .. next_heap, NEW j \in 1 .. next_heap, result = "ok", i # j
        PROVE  GetPhysicalAddress(m, l4, HeapPage[i]) # GetPhysicalAddress(m, l4, HeapPage[j])
    BY <1>1, <2>8, TransIsGet DEF MemoryInv, HeapMapped
  <2> QED
    BY <2>6, <2>7, <2>8 DEF FramesUsedOnce
<1> QED
  BY <1>1, MemoryInvariant, PTL

\* The TLB never holds a translation that the page tables do not, although
\* map_address_impl gives invlpg the physical address: what the kernel maps was
\* not mapped before.
THEOREM TlbStaysCoherent == MemorySpec => []TlbCoherent
<1>1. ASSUME MemoryInv PROVE TlbCoherent
  <2> SUFFICES ASSUME NEW v \in Page, tlb[v] # NotPresent
               PROVE  tlb[v] = GetPhysicalAddress(m, cr3, v)
    BY DEF TlbCoherent
  <2>1. cr3 = l4
    BY <1>1 DEF MemoryInv
  <2>2. tlb[v] = Trans(m.tables, v)
    BY <1>1 DEF MemoryInv, Coherent
  <2> QED
    BY <2>1, <2>2, TransIsGet
<1> QED
  BY <1>1, MemoryInvariant, PTL

\* When map_address_impl refuses, no page table has been changed or created.
THEOREM RefusedMapKeepsTables == MemorySpec => RefusedMapChangesNothing
<1>1. ASSUME MemoryInv, [MemoryNext]_memoryVars, result' = "err"
      PROVE  m'.tables = m.tables \/ UNCHANGED memoryVars
  <2>1. ASSUME NEW mode, Maps(mode) PROVE m'.tables = m.tables
    <3>1. PICK mem, lev, v, phys, r, lev2 :
            /\ mem.tables = m.tables
            /\ Step(mem, lev, v, phys, mode, r, lev2)
            /\ m' = r.m /\ result' = r.res
      BY <2>1 DEF Maps
    <3>2. r.res = "err" => r.m.tables = mem.tables
      BY <3>1 DEF Step
    <3> QED
      BY <1>1, <3>1, <3>2
  <2>2. CASE LoaderMap
    BY <1>1, <2>1, <2>2, LoaderMapInv
  <2>3. CASE MapHeapPage
    BY <1>1, <2>1, <2>3, MapHeapPageInv
  <2>4. CASE MapDevicePage
    BY <1>1, <2>1, <2>4, MapDevicePageInv
  <2>5. CASE ContextSwitch \/ \E v \in Page : Access(v)
    BY <2>5 DEF ContextSwitch, Access
  <2> QED
    BY <1>1, <2>2, <2>3, <2>4, <2>5 DEF MemoryNext
<1>2. MemoryInv /\ [MemoryNext]_memoryVars
        => [result' = "err" => m'.tables = m.tables]_memoryVars
  BY <1>1
<1> QED
  BY <1>2, MemoryInvariant, PTL DEF MemorySpec, RefusedMapChangesNothing

----------------------------------------------------------------------------
\* the map from pages to frames that tables T stand for
FrameOf(T) == [p \in Page |-> Trans(T, p)]

LEMMA SpaceFrames ==
  ASSUME NEW mem
  PROVE  [p \in Page |-> GetPhysicalAddress(mem, l4, p)] = FrameOf(mem.tables)
BY TransIsGet DEF FrameOf

\* F and F2 differ in the frame of page v at most, and only as mode allows.
OnePage(F, F2, v, mode) ==
  \/ F2 = F
  \/ /\ v \in Page /\ F2[v] \in Frame
     /\ F2 = [F EXCEPT ![v] = F2[v]]
     /\ mode = "CheckFrameIsFree" => F[v] = NotPresent

\* One call of map_address_impl changes the frame of one page at most.
LEMMA StepMaps ==
  ASSUME NEW mem, NEW lev, NEW v, NEW phys, NEW mode, NEW r, NEW lev2,
         Step(mem, lev, v, phys, mode, r, lev2)
  PROVE  OnePage(FrameOf(mem.tables), FrameOf(r.m.tables), v, mode)
<1>0. r.set \in BOOLEAN
  BY DEF Step
<1>1. CASE ~r.set
  <2>1. FrameOf(r.m.tables) = FrameOf(mem.tables)
    BY ZenonT(30), <1>1 DEF Step, FrameOf
  <2> QED
    BY <2>1 DEF OnePage
<1>2. CASE r.set
  <2>1. /\ v \in Page /\ phys \in Frame /\ Trans(r.m.tables, v) = phys
        /\ \A p \in Page \ {v} : Trans(r.m.tables, p) = Trans(mem.tables, p)
        /\ mode = "CheckFrameIsFree" => Trans(mem.tables, v) = NotPresent
    BY Zenon, <1>2 DEF Step
  <2> QED
    BY ZenonT(30), <2>1 DEF FrameOf, OnePage
<1> QED
  BY <1>0, <1>1, <1>2

LEMMA MapsIsMap ==
  ASSUME NEW mode, Maps(mode), UNCHANGED cr3,
         cr3 # NotPresent => mode = "CheckFrameIsFree"
  PROVE  [Space!SpaceNext]_<<[p \in Page |-> GetPhysicalAddress(m, l4, p)],
                             cr3 # NotPresent>>
<1> DEFINE fo == [p \in Page |-> GetPhysicalAddress(m, l4, p)]
<1>1. fo = FrameOf(m.tables)
  BY SpaceFrames
<1>2. fo' = FrameOf(m'.tables)
  BY SpaceFrames
<1>3. PICK mem, lev, v, phys, r, lev2 :
        /\ mem.tables = m.tables
        /\ Step(mem, lev, v, phys, mode, r, lev2)
        /\ m' = r.m
  BY DEF Maps
<1>4. OnePage(fo, fo', v, mode)
  <2> HIDE DEF fo
  <2>1. fo = FrameOf(mem.tables) /\ fo' = FrameOf(r.m.tables)
    BY <1>1, <1>2, <1>3
  <2>2. OnePage(FrameOf(mem.tables), FrameOf(r.m.tables), v, mode)
    BY <1>3, StepMaps
  <2> QED
    BY <2>1, <2>2
<1>5. CASE fo' = fo
  BY <1>5
<1>6. CASE /\ v \in Page /\ fo'[v] \in Frame
           /\ fo' = [fo EXCEPT ![v] = fo'[v]]
           /\ mode = "CheckFrameIsFree" => fo[v] = NotPresent
  <2>1. Space!Map(v)
    BY <1>6 DEF Space!Map
  <2> QED
    BY <1>6, <2>1 DEF Space!SpaceNext
<1> QED
  BY <1>4, <1>5, <1>6 DEF OnePage

\* The four levels of tables implement a map from pages to frames: map_address
\* and remap_address change the page they are given and no other, however many
\* tables they create, and nothing that is mapped changes once context_switch
\* has loaded the table.
THEOREM TablesImplementAddressSpace == MemorySpec => TablesAreAddressSpace
<1>1. MemoryInit => Space!SpaceInit
  <2> SUFFICES ASSUME MemoryInit PROVE Space!SpaceInit
    OBVIOUS
  <2>1. \A p \in Page : Trans(m.tables, p) = NotPresent
    BY Zenon, FirstTable, PagesAreNat DEF MemoryInit
  <2>2. FrameOf(m.tables) = [p \in Page |-> NotPresent]
    BY <2>1 DEF FrameOf
  <2> QED
    BY Zenon, <2>2, SpaceFrames DEF Space!SpaceInit, MemoryInit
<1>2. MemoryInv /\ [MemoryNext]_memoryVars
        => [Space!SpaceNext]_<<[p \in Page |-> GetPhysicalAddress(m, l4, p)],
                               cr3 # NotPresent>>
  <2> SUFFICES ASSUME MemoryInv, [MemoryNext]_memoryVars
               PROVE  [Space!SpaceNext]_<<[p \in Page |-> GetPhysicalAddress(m, l4, p)],
                                          cr3 # NotPresent>>
    OBVIOUS
  <2>1. CASE LoaderMap
    <3>1. cr3 = NotPresent /\ UNCHANGED cr3
      BY <2>1 DEF LoaderMap
    <3>2. PICK mode : Maps(mode)
      BY <2>1, LoaderMapInv
    <3> QED
      BY <3>1, <3>2, MapsIsMap
  <2>2. CASE MapHeapPage
    <3>1. UNCHANGED cr3
      BY <2>2 DEF MapHeapPage
    <3>2. CASE Maps("CheckFrameIsFree")
      BY <3>1, <3>2, MapsIsMap
    <3>3. CASE m'.tables = m.tables
      <4> DEFINE fo == [p \in Page |-> GetPhysicalAddress(m, l4, p)]
      <4>1. fo = FrameOf(m.tables) /\ fo' = FrameOf(m'.tables)
        BY SpaceFrames
      <4>2. UNCHANGED fo
        BY <3>3, <4>1
      <4> QED
        BY <3>1, <4>2
    <3> QED
      BY <2>2, <3>2, <3>3, MapHeapPageInv
  <2>3. CASE MapDevicePage
    <3>1. UNCHANGED cr3
      BY <2>3 DEF MapDevicePage
    <3> QED
      BY <2>3, <3>1, MapDevicePageInv, MapsIsMap
  <2>4. CASE ContextSwitch
    <3>1. cr3 = NotPresent /\ cr3' # NotPresent /\ m' = m
      BY <2>4, FramesAreNat DEF ContextSwitch
    <3>2. Space!Load
      BY <3>1 DEF Space!Load
    <3> QED
      BY <3>2 DEF Space!SpaceNext
  <2>5. CASE (\E v \in Page : Access(v)) \/ UNCHANGED memoryVars
    <3>1. UNCHANGED <<m, cr3>>
      BY <2>5 DEF Access, memoryVars
    <3> QED
      BY <3>1
  <2> QED
    BY <2>1, <2>2, <2>3, <2>4, <2>5 DEF MemoryNext
<1> QED
  BY <1>1, <1>2, MemoryInvariant, PTL
  DEF MemorySpec, TablesAreAddressSpace, Space!SpaceSpec

=============================================================================
