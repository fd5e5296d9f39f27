----------------------------- MODULE BlockStore -----------------------------
(***************************************************************************)
(* What a heap promises its callers: a block is aligned, lies in the heap, *)
(* overlaps no other live block, and nobody but its owner changes what it  *)
(* holds.                                                                  *)
(***************************************************************************)
EXTENDS Integers

CONSTANTS HEAP_SIZE, Layout     \* Layout: some records [size, align]

VARIABLES live,     \* live blocks: records [ptr, layout]
          contents  \* what the bytes of the live blocks hold

Units(b) == b.ptr .. b.ptr + b.layout.size - 1

StoreInit == live = {} /\ contents = [u \in {} |-> 0]

Kept(blocks) == \A b \in blocks : \A u \in Units(b) : contents'[u] = contents[u]

Alloc ==
  \E b \in live' \ live :
    /\ live' = live \cup {b}
    /\ b.layout \in Layout
    /\ b.ptr % b.layout.align = 0
    /\ Units(b) \subseteq 0 .. HEAP_SIZE - 1
    /\ \A c \in live : Units(b) \cap Units(c) = {}
    /\ Kept(live)

Free ==
  \E b \in live : live' = live \ {b} /\ Kept(live')

Write ==
  \E b \in live : live' = live /\ Kept(live \ {b})

StoreNext == Alloc \/ Free \/ Write
StoreSpec == StoreInit /\ [][StoreNext]_<<live, contents>>
============================================================================
