--------------------------- MODULE PhysicalMemory ---------------------------
(***************************************************************************)
(* The physical page allocator, kernel/mm/mm.c.  mmap[] is a bitmap of     *)
(* words of MMAP_BITS bits, a set bit being a free page; here it is the    *)
(* set of free pages, a page is its number, and the words matter only to   *)
(* find().  held is a history variable: what callers were given and have   *)
(* not given back.  The callers are the kernel's own, and give back what   *)
(* they were given, once.                                                  *)
(***************************************************************************)
EXTENDS Integers, FiniteSets

CONSTANTS MMAP_BITS,         \* pages per word of the bitmap
          Available,         \* pages in the usable blocks of the boot loader's memory map
          Reserved,          \* the kernel's, its modules' and their sections' pages
          dma_start,         \* first page of the DMA ranges
          NUM_DMA,           \* how many DMA ranges there are
          DMA_RANGE_LENGTH,  \* bytes of a DMA range
          PAGE_SIZE,         \* bytes of a page
          MaxNum             \* bound: pages asked for at once

DMA_PAGES == DMA_RANGE_LENGTH \div PAGE_SIZE
dma_end   == dma_start + NUM_DMA * DMA_PAGES
dma_addrs == {dma_start + i * DMA_PAGES : i \in 0 .. NUM_DMA - 1}

ASSUME MemoryAssumption ==
  /\ {MMAP_BITS, PAGE_SIZE, MaxNum} \subseteq Nat \ {0}
  /\ {dma_start, NUM_DMA, DMA_RANGE_LENGTH} \subseteq Nat
  /\ Available \subseteq Nat
  /\ \E p \in Available : p >= dma_end /\ \A q \in Available : q <= p

VARIABLES mmap, held

vars == <<mmap, held>>

NO_PAGE == -1

Pages(start, num) == start .. start + num - 1

(* init_mm: the end of the highest usable block.                           *)
mem_end == 1 + CHOOSE p \in Available : \A q \in Available : q <= p

(* The pages find() looks at, in increasing order: the rest of the first   *)
(* word when start is inside it, whole words, and the first end_pos pages  *)
(* of the word end is in.                                                  *)
addr_to_idx(p) == p \div MMAP_BITS
page_to_pos(p) == p % MMAP_BITS

(* Mutant of Visited: the word start is in is passed over.           *)
Visited_not_first_word(start, end) ==
  (addr_to_idx(start) + 1) * MMAP_BITS .. addr_to_idx(end) * MMAP_BITS - 1

Visited(start, end) ==
  LET first == IF page_to_pos(start) # 0 THEN addr_to_idx(start) + 1 ELSE addr_to_idx(start)
      last  == IF page_to_pos(end) # 0 THEN addr_to_idx(end) - 1 ELSE addr_to_idx(end)
  IN  (IF page_to_pos(start) # 0 THEN start .. first * MMAP_BITS - 1 ELSE {})
        \cup first * MMAP_BITS .. last * MMAP_BITS - 1
        \cup addr_to_idx(end) * MMAP_BITS .. end - 1

(* The first num pages that are free and follow each other among those     *)
(* looked at: count is reset by a used page, and by nothing else.          *)
find(map, num, start, end) ==
  LET looked   == Visited(start, end)
      run(f, l) == {p \in looked : f <= p /\ p <= l}
      firsts   == {f \in looked : \E l \in looked : /\ run(f, l) \subseteq map
                                                    /\ Cardinality(run(f, l)) = num}
  IN  IF firsts = {} THEN NO_PAGE ELSE CHOOSE f \in firsts : \A g \in firsts : f <= g

Give(start, num) ==
  /\ mmap' = mmap \ Pages(start, num)
  /\ held' = held \cup {[start |-> start, num |-> num]}

Refuse == UNCHANGED vars   \* seterr(E_NO_MEM), NO_PAGE or false is returned

mm_alloc_page ==
  LET page == find(mmap, 1, dma_end, mem_end)
  IN  IF page = NO_PAGE THEN Refuse ELSE Give(page, 1)

mm_alloc_range(num) ==
  LET start == find(mmap, num, dma_end, mem_end)
  IN  IF start = NO_PAGE THEN Refuse ELSE Give(start, num)

(* Mutant of mm_alloc_phys_range: the last page is not looked at.          *)
mm_alloc_phys_range_but_last(start, num) ==
  IF Pages(start, num - 1) \subseteq mmap THEN Give(start, num) ELSE Refuse

mm_alloc_phys_range(start, num) ==
  IF Pages(start, num) \subseteq mmap THEN Give(start, num) ELSE Refuse

(* is_range_free and mark_range_used count pages, and are given the bytes  *)
(* of a range.                                                             *)
free_dma_addrs == {a \in dma_addrs : Pages(a, DMA_RANGE_LENGTH) \subseteq mmap}

mm_alloc_dma ==
  IF free_dma_addrs = {} THEN Refuse
  ELSE Give(CHOOSE a \in free_dma_addrs : \A b \in free_dma_addrs : a <= b, DMA_RANGE_LENGTH)

(* Mutant of mm_free: a range is given back as if it were a page.          *)
mm_free_first_page(a) ==
  /\ mmap' = mmap \cup {a.start}
  /\ held' = held \ {a}

(* mm_free_page, mm_free_range, mm_free_phys_range and mm_free_dma, each   *)
(* called with what its counterpart returned.                              *)
mm_free(a) ==
  /\ mmap' = mmap \cup Pages(a.start, a.num)
  /\ held' = held \ {a}

init_mm ==
  /\ mmap = Available \ (Reserved \cup {0})
  /\ held = {}

AllocPage  == mm_alloc_page
AllocRange == \E num \in 1 .. MaxNum : mm_alloc_range(num)
AllocPhys  == \E start \in Available, num \in 1 .. MaxNum : mm_alloc_phys_range(start, num)
AllocDma   == mm_alloc_dma
Free       == \E a \in held : mm_free(a)

Next == AllocPage \/ AllocRange \/ AllocPhys \/ AllocDma \/ Free

Spec == init_mm /\ [][Next]_vars
-----------------------------------------------------------------------------
Held(a) == Pages(a.start, a.num)

(* No page has two owners: what the allocator gave out is not free, not    *)
(* given out again, and not the kernel's own memory.                       *)
Exclusive ==
  /\ \A a \in held : Held(a) \cap (mmap \cup Reserved) = {}
  /\ \A a, b \in held : a # b => Held(a) \cap Held(b) = {}

(* find: "Finds num contigious pages between start and end."  What it      *)
(* returns is free, and it returns something when there is something.      *)
FindsContiguous ==
  \A num \in 1 .. MaxNum :
    LET start == find(mmap, num, dma_end, mem_end)
    IN  IF start # NO_PAGE THEN Pages(start, num) \subseteq mmap
        ELSE \A s \in dma_end .. mem_end - num : ~(Pages(s, num) \subseteq mmap)

(* No page is lost: every usable page is free, given out, or the kernel's. *)
NothingLost ==
  Available = mmap \cup (UNION {Held(a) : a \in held}) \cup ((Reserved \cup {0}) \cap Available)
=============================================================================
