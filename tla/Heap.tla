-------------------------------- MODULE Heap --------------------------------
(***************************************************************************)
(* The kernel's heap, src/shared_lib/src/allocator/fixed_size_block.rs: a  *)
(* list of free blocks for each block size, over the first-fit allocator   *)
(* of the crate linked_list_allocator.  Memory is counted in units of a    *)
(* ListNode (8 bytes); the first unit of a free block holds the pointer to *)
(* the next one, and a caller may write to the block it owns.              *)
(***************************************************************************)
EXTENDS Integers, Sequences, FiniteSets, FiniteSetsExt

CONSTANTS HEAP_SIZE,
          BLOCK_SIZES,   \* sequence, always powers of 2
          Layout         \* the layouts the callers ask for: records [size, align]

\* Block sizes and alignments are powers of 2, so the larger of two is a multiple
\* of the smaller.
ASSUME HeapAssumption ==
  /\ HEAP_SIZE \in Nat
  /\ BLOCK_SIZES \in Seq(Nat \ {0})
  /\ Layout \subseteq [size : Nat \ {0}, align : Nat \ {0}]
  /\ \A i \in DOMAIN BLOCK_SIZES, l \in Layout :
       BLOCK_SIZES[i] >= l.align => BLOCK_SIZES[i] % l.align = 0

VARIABLES list_heads,  \* for each index, the first free block or Null
          memory,      \* what each unit holds
          holes,       \* the units the fallback allocator has
          live         \* blocks in use, with the layout they were asked for

heapVars == <<list_heads, memory, holes, live>>

Null == -1
Data == -2     \* anything but a pointer
Heap == 0 .. HEAP_SIZE - 1
Extent(ptr, size) == ptr .. ptr + size - 1

None == 0
list_index_SizeOnly(layout) ==
  LET fits == {i \in DOMAIN BLOCK_SIZES : BLOCK_SIZES[i] >= layout.size}
  IN  IF fits = {} THEN None ELSE Min(fits)

\* list_index: the smallest block that has both the size and the alignment
list_index(layout) ==
  LET fits == {i \in DOMAIN BLOCK_SIZES : BLOCK_SIZES[i] >= Max({layout.size, layout.align})}
  IN  IF fits = {} THEN None ELSE Min(fits)

\* the layout that alloc passes on to the fallback allocator
FallbackLayout(layout) ==
  LET i == list_index(layout)
  IN  IF i = None THEN layout ELSE [size |-> BLOCK_SIZES[i], align |-> BLOCK_SIZES[i]]

\* align_layout: what is cut must be able to become a hole again, two words
MIN_SIZE == 2
align_layout(layout) == [layout EXCEPT !.size = Max({layout.size, MIN_SIZE})]

\* split_hole: what is left of a hole before and behind the block is nothing, or
\* large enough to be a hole
Fits(p, layout) ==
  /\ p % layout.align = 0
  /\ Extent(p, layout.size) \subseteq holes
  /\ p - 1 \in holes => Extent(p - MIN_SIZE, MIN_SIZE) \subseteq holes
  /\ p + layout.size \in holes => Extent(p + layout.size, MIN_SIZE) \subseteq holes

\* allocate_first_fit, for a layout that is aligned
FirstFit(layout) ==
  LET fits == {p \in holes : Fits(p, layout)}
  IN  IF fits = {} THEN Null ELSE Min(fits)

\* FixedSizeBlockAllocator::new, and init
HeapInit ==
  /\ list_heads = [i \in DOMAIN BLOCK_SIZES |-> Null]
  /\ memory = [u \in Heap |-> Data]
  /\ holes = Heap
  /\ live = {}

Own(ptr, layout) == live' = live \cup {[ptr |-> ptr, layout |-> layout]}

\* alloc, when the list of the size has a block; next.take() leaves None in it
AllocFromList(layout) ==
  LET i == list_index(layout) IN
  /\ i # None /\ list_heads[i] # Null
  /\ list_heads' = [list_heads EXCEPT ![i] = memory[list_heads[i]]]
  /\ memory' = [memory EXCEPT ![list_heads[i]] = Null]
  /\ Own(list_heads[i], layout)
  /\ UNCHANGED holes

\* alloc, otherwise: a block that the fallback allocator cuts, if it has one (a
\* null pointer changes nothing)
AllocFromFallback(layout) ==
  LET i == list_index(layout)
      aligned == align_layout(FallbackLayout(layout))
      p == FirstFit(aligned)
  IN
  /\ i # None => list_heads[i] = Null
  /\ p # Null
  /\ holes' = holes \ Extent(p, aligned.size)
  /\ Own(p, layout)
  /\ UNCHANGED <<list_heads, memory>>

DeallocToList_NextSize(b) ==
  LET i == list_index(b.layout) + 1 IN
  /\ i - 1 # None /\ i \in DOMAIN BLOCK_SIZES
  /\ memory' = [memory EXCEPT ![b.ptr] = list_heads[i]]
  /\ list_heads' = [list_heads EXCEPT ![i] = b.ptr]
  /\ live' = live \ {b}
  /\ UNCHANGED holes

\* dealloc, to the list of the size
DeallocToList(b) ==
  LET i == list_index(b.layout) IN
  /\ i # None
  /\ memory' = [memory EXCEPT ![b.ptr] = list_heads[i]]
  /\ list_heads' = [list_heads EXCEPT ![i] = b.ptr]
  /\ live' = live \ {b}
  /\ UNCHANGED holes

\* dealloc of a block that is larger than every size
DeallocToFallback(b) ==
  /\ list_index(b.layout) = None
  /\ holes' = holes \cup Extent(b.ptr, align_layout(b.layout).size)
  /\ live' = live \ {b}
  /\ UNCHANGED <<list_heads, memory>>

\* the owner of a block writes to it
WriteBlock(b) ==
  /\ memory' = [u \in Heap |-> IF u \in Extent(b.ptr, b.layout.size) THEN Data ELSE memory[u]]
  /\ UNCHANGED <<list_heads, holes, live>>

HeapNext ==
  \/ \E l \in Layout : AllocFromList(l) \/ AllocFromFallback(l)
  \/ \E b \in live : DeallocToList(b) \/ DeallocToFallback(b) \/ WriteBlock(b)

HeapSpec == HeapInit /\ [][HeapNext]_heapVars

----------------------------------------------------------------------------
Store == INSTANCE BlockStore WITH
  contents <- [u \in UNION {Extent(b.ptr, b.layout.size) : b \in live} |-> memory[u]]

\* The heap is a store of blocks: it never hands out memory that is in use, and
\* keeping its lists inside free blocks never changes a block in use.
HeapIsBlockStore == Store!StoreSpec

\* the blocks of list i, in order, as far as the pointers lead
Chain(i) ==
  LET at[k \in 0 .. HEAP_SIZE] ==
        IF k = 0 THEN list_heads[i]
        ELSE IF at[k - 1] \in Heap THEN memory[at[k - 1]] ELSE Null
  IN  at

FreeBlocks(i) == {Chain(i)[k] : k \in 0 .. HEAP_SIZE} \ {Null}

\* the units that a free block and a block in use take: the block of a list has
\* the list's size, whatever was asked for, or what the fallback allocator has
\* made of it
BlockExtent(p, layout) == Extent(p, align_layout(layout).size)
FreeUnits(i, p) == BlockExtent(p, [size |-> BLOCK_SIZES[i], align |-> BLOCK_SIZES[i]])
UsedUnits(b) == BlockExtent(b.ptr, FallbackLayout(b.layout))

\* Every free list ends, and no memory is lost or has two owners: each unit is
\* in one of the holes, the free blocks and the blocks in use, and in no two of
\* them.  (A block smaller than a hole keeps the rest of the hole that was cut
\* for it, in use and on its list; nobody can use that rest.)
MemoryIsPartitioned ==
  /\ \A i \in DOMAIN BLOCK_SIZES : Chain(i)[HEAP_SIZE] = Null
  /\ \A u \in Heap :
       \/ u \in holes
       \/ \E b \in live : u \in UsedUnits(b)
       \/ \E i \in DOMAIN BLOCK_SIZES : \E p \in FreeBlocks(i) : u \in FreeUnits(i, p)
  /\ \A b \in live :
       /\ UsedUnits(b) \cap holes = {}
       /\ \A c \in live \ {b} : UsedUnits(b) \cap UsedUnits(c) = {}
  /\ \A i \in DOMAIN BLOCK_SIZES : \A p \in FreeBlocks(i) :
       /\ FreeUnits(i, p) \cap holes = {}
       /\ \A b \in live : FreeUnits(i, p) \cap UsedUnits(b) = {}
       /\ \A j \in DOMAIN BLOCK_SIZES : \A q \in FreeBlocks(j) :
            i # j \/ p # q => FreeUnits(i, p) \cap FreeUnits(j, q) = {}
============================================================================
