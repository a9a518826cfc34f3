----------------------------- MODULE KernelHeap -----------------------------
(***************************************************************************)
(* The kernel heap, kernel/mm/kmalloc.c, on top of the page allocator that *)
(* it shares with the rest of the kernel.  A mem_node is the block that it *)
(* describes, [ptr, size]; used_nodes and free_nodes are sequences, the    *)
(* head of the list first.  km_alloc_page and km_alloc_range map what      *)
(* mm_alloc_page and mm_alloc_range give them at kernel addresses that     *)
(* were never used before, in increasing order, and panic when they are    *)
(* given nothing; the heap keeps its pages for good.  mem is the memory at *)
(* those addresses.                                                        *)
(***************************************************************************)
EXTENDS PhysicalMemory, Sequences

CONSTANTS Size,   \* sizes asked for
          Byte    \* values of a byte, 0 among them

ASSUME HeapAssumption == Size \subseteq Nat /\ 0 \in Byte

VARIABLES hp,    \* used_nodes, free_nodes; top, the next address to map at;
                 \* ranges, the physical pages; lost and panicked, see below
          mem

heapVars == <<mmap, held, hp, mem>>

(* All that a call changes but mem, which is handed from one function of   *)
(* kmalloc.c to the next.                                                  *)
State == [mmap |-> mmap, held |-> held, hp |-> hp]

Block(ptr, size) == [ptr |-> ptr, size |-> size]

Extent(b) == b.ptr .. b.ptr + b.size - 1

(* vm_alloc_page and vm_alloc_range for the kernel's directory.            *)
MapRange(s, start, num) ==
  IF start = NO_PAGE THEN [s EXCEPT !.hp.panicked = TRUE]
  ELSE [s EXCEPT !.mmap = @ \ Pages(start, num),
                 !.held = @ \cup {[start |-> start, num |-> num]},
                 !.hp.ranges = @ \cup {[start |-> start, num |-> num]},
                 !.hp.top = @ + num * PAGE_SIZE]

km_alloc_range(s, num) == MapRange(s, find(s.mmap, num, dma_end, mem_end), num)

(* History: bytes of free blocks whose node was taken for another block,   *)
(* and of the pages that hold nodes.                                       *)
Lose(s, b) == [s EXCEPT !.hp.lost = @ \cup Extent(b)]

append_node(s, is_free, b) ==
  IF s.hp.panicked THEN s
  ELSE IF is_free THEN [s EXCEPT !.hp.free_nodes = <<b>> \o @]
  ELSE [s EXCEPT !.hp.used_nodes = <<b>> \o @]

(* The node comes off free_nodes, whatever block it described there; only  *)
(* when there is none a page of nodes is fetched, of which the first one   *)
(* is taken.                                                               *)
create_node(s, size, ptr, is_free) ==
  append_node(IF s.hp.free_nodes = << >>
              THEN Lose(km_alloc_range(s, 1), Block(s.hp.top, PAGE_SIZE))
              ELSE Lose([s EXCEPT !.hp.free_nodes = Tail(@)], Head(s.hp.free_nodes)),
              is_free, Block(ptr, size))

(* No free block is large enough: whole pages are fetched, and what is     *)
(* left of them becomes a free block.  A panic ends the call.              *)
num_pages(size) == (size + PAGE_SIZE - 1) \div PAGE_SIZE

UsedNode(s, size, ptr) == IF s.hp.panicked THEN s ELSE create_node(s, size, ptr, FALSE)

RestNode(s, size, ptr) == IF s.hp.panicked \/ size = 0 THEN s ELSE create_node(s, size, ptr, TRUE)

MoreMemory(s, size) ==
  RestNode(UsedNode(km_alloc_range(s, num_pages(size)), size, s.hp.top),
           num_pages(size) * PAGE_SIZE - size, s.hp.top + size)

(* The list without its i-th node.                                        *)
Unlink(list, i) == SubSeq(list, 1, i - 1) \o SubSeq(list, i + 1, Len(list))

(* Mutant of FromFree: the rest of the block gets no node.                 *)
FromFree_no_rest(s, i, b, size) ==
  [s EXCEPT !.hp.free_nodes = Unlink(@, i), !.hp.used_nodes = <<Block(b.ptr, size)>> \o @]

(* The i-th free block b moves to used_nodes, and is cut if it is larger.  *)
FromFree(s, i, b, size) ==
  RestNode([s EXCEPT !.hp.free_nodes = Unlink(@, i),
                     !.hp.used_nodes = <<Block(b.ptr, size)>> \o @],
           b.size - size, b.ptr + size)

First(S) == CHOOSE i \in S : \A j \in S : i <= j

AllocAt(s, fitting, size) ==
  IF fitting = {} THEN MoreMemory(s, size)
  ELSE FromFree(s, First(fitting), s.hp.free_nodes[First(fitting)], size)

(* kmallocu and kmalloc for size > 0, by first fit; the pointer returned   *)
(* is that of the block at the head of used_nodes.                         *)
kmalloc(s, size) ==
  AllocAt(s, {i \in DOMAIN s.hp.free_nodes : s.hp.free_nodes[i].size >= size}, size)

FreeAt(s, with) ==
  IF with = {} THEN s
  ELSE [s EXCEPT !.hp.used_nodes = Unlink(@, First(with)),
                 !.hp.free_nodes = <<s.hp.used_nodes[First(with)]>> \o @]

(* A pointer that no used node has is ignored.                             *)
kfree(s, ptr) == FreeAt(s, {i \in DOMAIN s.hp.used_nodes : s.hp.used_nodes[i].ptr = ptr})

Becomes(s) == mmap' = s.mmap /\ held' = s.held /\ hp' = s.hp

memset(b, v) == [a \in DOMAIN mem |-> IF a \in Extent(b) THEN v ELSE mem[a]]

memcpy(dst, src, n) ==
  [a \in DOMAIN mem |-> IF a \in dst .. dst + n - 1 THEN mem[src + (a - dst)] ELSE mem[a]]

(* The rest of kcalloc, once kmalloc has returned.                         *)
Cleared(s) == Becomes(s) /\ mem' = IF s.hp.panicked THEN mem ELSE memset(Head(s.hp.used_nodes), 0)

(* Mutant of Moved: all of the old block is copied, even to a smaller one. *)
Moved_all(s, b, size) ==
  IF s.hp.panicked THEN Becomes(s) /\ UNCHANGED mem
  ELSE Becomes(kfree(s, b.ptr)) /\ mem' = memcpy(Head(s.hp.used_nodes).ptr, b.ptr, b.size)

(* And of krealloc.                                                        *)
Moved(s, b, size) ==
  IF s.hp.panicked THEN Becomes(s) /\ UNCHANGED mem
  ELSE /\ Becomes(kfree(s, b.ptr))
       /\ mem' = memcpy(Head(s.hp.used_nodes).ptr, b.ptr, IF size > b.size THEN b.size ELSE size)

kcalloc(size) == Cleared(kmalloc(State, size))

(* krealloc of a block in use to a size other than 0.                      *)
krealloc(b, size) == Moved(kmalloc(State, size), b, size)

HeapInit ==
  /\ init_mm
  /\ hp = [used_nodes |-> << >>, free_nodes |-> << >>, top |-> 1, ranges |-> {},
           lost |-> {}, panicked |-> FALSE]
  /\ mem = [a \in 1 .. PAGE_SIZE * Cardinality(Available) |-> 0]

(* Callers hand in what they were given, or a null pointer.                *)
InUse == {hp.used_nodes[i] : i \in DOMAIN hp.used_nodes}

Malloc     == ~hp.panicked /\ \E size \in Size \ {0} : Becomes(kmalloc(State, size)) /\ UNCHANGED mem
Calloc     == ~hp.panicked /\ \E size \in Size \ {0} : kcalloc(size)
Realloc    == ~hp.panicked /\ \E b \in InUse, size \in Size \ {0} : krealloc(b, size)
FreeBlock  == /\ ~hp.panicked
              /\ \E ptr \in {0} \cup {b.ptr : b \in InUse} : Becomes(kfree(State, ptr))
              /\ UNCHANGED mem
Fill       == ~hp.panicked /\ \E b \in InUse, v \in Byte : mem' = memset(b, v) /\ UNCHANGED <<mmap, held, hp>>

(* The rest of the kernel takes pages and gives back its own.              *)
PageStep ==
  /\ ~hp.panicked
  /\ AllocPage \/ AllocRange \/ AllocPhys \/ AllocDma \/ \E a \in held \ hp.ranges : mm_free(a)
  /\ UNCHANGED <<hp, mem>>

HeapHalted == hp.panicked /\ UNCHANGED heapVars

HeapNext == Malloc \/ Calloc \/ Realloc \/ FreeBlock \/ Fill \/ PageStep \/ HeapHalted

HeapSpec == HeapInit /\ [][HeapNext]_heapVars
-----------------------------------------------------------------------------
Contents == [p \in {b.ptr : b \in InUse} |->
              LET b == CHOOSE c \in InUse : c.ptr = p IN [a \in Extent(b) |-> mem[a]]]

Promise == INSTANCE Allocator WITH block <- Contents

(* Every call is a step of Allocator: no byte of a block in use is handed  *)
(* out again or written by a call about another block, and krealloc        *)
(* carries the contents over.                                              *)
IsAllocator == Promise!Spec

Blocks == hp.used_nodes \o hp.free_nodes

(* A byte the heap has fetched is in one block, used or free, or it is     *)
(* lost: nodes are taken from blocks that are free, blocks are cut and     *)
(* never joined, and what create_node forgets is all that is forgotten.    *)
MemoryAccounted ==
  /\ \A i, j \in DOMAIN Blocks : i # j => Extent(Blocks[i]) \cap Extent(Blocks[j]) = {}
  /\ ~hp.panicked => 1 .. hp.top - 1 = hp.lost \cup UNION {Extent(Blocks[i]) : i \in DOMAIN Blocks}
=============================================================================
