--------------------------- MODULE Memory_proofs ---------------------------
(***************************************************************************)
(* The page allocator of kernel/mm/mm.c is right for every memory whose    *)
(* end is on a word of the bitmap: find() looks at every page then.  The   *)
(* heap of kernel/mm/kmalloc.c accounts for every byte that it fetches,    *)
(* and on such a memory keeps what Allocator promises.                     *)
(***************************************************************************)
EXTENDS KernelHeap, Counting, TLAPS

EndsOnWord == page_to_pos(mem_end) = 0

(* mem_end is behind the highest page, which is above the DMA ranges.      *)
LEMMA MemEnd == mem_end \in Nat /\ dma_end \in Nat /\ dma_end < mem_end
<1> DEFINE high == CHOOSE p \in Available : \A q \in Available : q <= p
<1>1. dma_end \in Nat
  <2>1. DMA_RANGE_LENGTH \in Nat /\ PAGE_SIZE \in Nat \ {0} /\ NUM_DMA \in Nat /\ dma_start \in Nat
    BY MemoryAssumption
  <2>2. DMA_PAGES \in Nat
    BY <2>1 DEF DMA_PAGES
  <2> HIDE DEF DMA_PAGES
  <2>3. NUM_DMA * DMA_PAGES \in Nat
    BY <2>1, <2>2
  <2> QED
    BY <2>1, <2>3 DEF dma_end
<1>2. PICK p \in Available : p >= dma_end /\ \A q \in Available : q <= p
  BY MemoryAssumption
<1>3. high \in Available /\ \A q \in Available : q <= high
  BY <1>2
<1>4. high \in Nat /\ p \in Nat /\ p <= high
  BY <1>2, <1>3, MemoryAssumption, Zenon
<1> QED
  BY <1>1, <1>2, <1>4 DEF mem_end

(* A number is its word's first page and its place in the word.            *)
LEMMA WordAndPlace ==
  ASSUME NEW p \in Nat
  PROVE  /\ addr_to_idx(p) \in Nat /\ page_to_pos(p) \in 0 .. MMAP_BITS - 1
         /\ p = addr_to_idx(p) * MMAP_BITS + page_to_pos(p)
<1>1. MMAP_BITS \in Nat \ {0}
  BY MemoryAssumption
<1> QED
  BY <1>1, Z3 DEF addr_to_idx, page_to_pos

LEMMA Intervals ==
  ASSUME NEW a \in Nat, NEW b \in Nat, NEW c \in Nat, a <= b, b <= c
  PROVE  a .. b - 1 \cup b .. c - 1 = a .. c - 1
OBVIOUS

(* find() passes over no page up to an end that is on a word.              *)
LEMMA VisitedAll ==
  ASSUME NEW start \in Nat, NEW end \in Nat, start <= end, page_to_pos(end) = 0
  PROVE  Visited(start, end) = start .. end - 1
<1> DEFINE B == MMAP_BITS
           i == addr_to_idx(start)
           j == addr_to_idx(end)
           x == page_to_pos(start)
<1>1. B \in Nat \ {0}
  BY MemoryAssumption
<1>2. i \in Nat /\ j \in Nat /\ x \in 0 .. B - 1 /\ start = i * B + x /\ end = j * B
  <2>1. i \in Nat /\ x \in 0 .. B - 1 /\ start = i * B + x
    BY WordAndPlace
  <2>2. j \in Nat /\ end = j * B + page_to_pos(end)
    BY WordAndPlace
  <2>3. j * B \in Nat
    BY <1>1, <2>2
  <2> QED
    BY <2>1, <2>2, <2>3
<1>3. (i + 1) * B = i * B + B
  BY <1>1, <1>2, Z3
<1>4. (j - 1) * B = j * B - B
  BY <1>1, <1>2, Z3
<1>5. x # 0 => i < j
  <2> SUFFICES ASSUME x # 0, j <= i PROVE FALSE
    BY <1>2
  <2>1. j * B <= i * B
    BY <1>1, <1>2, Z3
  <2> QED
    BY <1>1, <1>2, <2>1
<1>6. CASE x = 0
  <2>1. Visited(start, end) = i * B .. j * B - 1 \cup j * B .. end - 1
    BY <1>6 DEF Visited
  <2>2. i * B \in Nat /\ j * B \in Nat
    BY <1>1, <1>2
  <2> HIDE DEF B, i, j, x
  <2>3. start = i * B /\ end = j * B
    BY <1>2, <1>6, <2>2
  <2> QED
    BY <2>1, <2>2, <2>3, Intervals
<1>7. CASE x # 0
  <2>1. Visited(start, end) =
          start .. (i + 1) * B - 1 \cup (i + 1) * B .. j * B - 1 \cup j * B .. end - 1
    BY <1>7 DEF Visited
  <2>2. (i + 1) * B <= j * B
    <3>1. i + 1 <= j
      BY <1>2, <1>5, <1>7
    <3> QED
      BY <1>1, <1>2, <3>1, Z3
  <2>3. i * B \in Nat /\ j * B \in Nat /\ (i + 1) * B \in Nat
    BY <1>1, <1>2, <1>3
  <2> HIDE DEF B, i, j, x
  <2>4. start <= (i + 1) * B
    BY <1>1, <1>2, <1>3, <2>3
  <2>5. /\ start .. (i + 1) * B - 1 \cup (i + 1) * B .. j * B - 1 = start .. j * B - 1
        /\ start .. j * B - 1 \cup j * B .. end - 1 = start .. end - 1
    BY <1>2, <2>2, <2>3, <2>4, Intervals
  <2> QED
    BY <2>1, <2>5, Zenon
<1> QED
  BY <1>6, <1>7

(* What find() returns, where it looks at every page: num free pages, or   *)
(* that there are none.                                                    *)
LEMMA FindExact ==
  ASSUME Counting, NEW map, NEW num \in Nat \ {0}, NEW start \in Nat, NEW end \in Nat,
         start <= end, page_to_pos(end) = 0
  PROVE  \/ /\ find(map, num, start, end) = NO_PAGE
            /\ \A s \in start .. end - num : ~(Pages(s, num) \subseteq map)
         \/ /\ find(map, num, start, end) \in start .. end - num
            /\ Pages(find(map, num, start, end), num) \subseteq map
<1> DEFINE looked == Visited(start, end)
           run(f, l) == {p \in looked : f <= p /\ p <= l}
           firsts == {f \in looked : \E l \in looked : /\ run(f, l) \subseteq map
                                                       /\ Cardinality(run(f, l)) = num}
<1>1. looked = start .. end - 1
  BY VisitedAll
<1>2. ASSUME NEW f \in looked, NEW l \in looked
      PROVE  run(f, l) = f .. l /\ Cardinality(run(f, l)) = IF f > l THEN 0 ELSE l - f + 1
  <2>1. run(f, l) = f .. l
    BY <1>1, <1>2
  <2>2. f \in Int /\ l \in Int
    BY <1>1, <1>2
  <2>3. Cardinality(f .. l) = IF f > l THEN 0 ELSE l - f + 1
    BY <2>2 DEF Counting, CountInterval
  <2> QED
    BY <2>1, <2>3, Zenon
<1>3. ASSUME NEW f \in firsts
      PROVE  f \in start .. end - num /\ Pages(f, num) \subseteq map
  <2>1. PICK l \in looked : run(f, l) \subseteq map /\ Cardinality(run(f, l)) = num
    BY <1>3, Zenon
  <2>2. f \in looked
    BY <1>3
  <2> HIDE DEF looked, run, firsts
  <2>3. f <= l /\ l - f + 1 = num /\ f .. l \subseteq map
    BY <1>1, <1>2, <2>1, <2>2, SMTT(30), ZenonT(20)
  <2>4. Pages(f, num) = f .. l
    BY <1>1, <2>2, <2>3 DEF Pages
  <2> QED
    BY <1>1, <2>1, <2>2, <2>3, <2>4
<1>4. ASSUME NEW s \in start .. end - num, Pages(s, num) \subseteq map
      PROVE  s \in firsts
  <2>1. s \in looked /\ s + num - 1 \in looked
    BY <1>1, <1>4
  <2>2. run(s, s + num - 1) = Pages(s, num) /\ Cardinality(run(s, s + num - 1)) = num
    <3> HIDE DEF looked, run, firsts
    <3> QED
      BY <1>1, <1>2, <1>4, <2>1 DEF Pages
  <2> QED
    BY <1>4, <2>1, <2>2, Zenon
<1>5. find(map, num, start, end) =
        IF firsts = {} THEN NO_PAGE ELSE CHOOSE f \in firsts : \A g \in firsts : f <= g
  BY DEF find
<1>6. firsts \subseteq Nat
  BY <1>1
<1> HIDE DEF looked, run, firsts
<1>7. CASE firsts = {}
  BY <1>4, <1>5, <1>7
<1>8. CASE firsts # {}
  <2>1. \E f \in firsts : \A g \in firsts : f <= g
    BY <1>6, <1>8 DEF Counting, LeastNumber
  <2>2. find(map, num, start, end) \in firsts
    BY <1>5, <1>8, <2>1, Zenon
  <2> QED
    BY <1>3, <2>2
<1> QED
  BY <1>7, <1>8
-----------------------------------------------------------------------------
(* The inductive invariant: free pages, what callers hold and the kernel's *)
(* own pages share nothing and are all there is.                           *)
PagesInv ==
  /\ mmap \subseteq Available \ (Reserved \cup {0})
  /\ \A a \in held : Held(a) \subseteq Available \ (Reserved \cup {0}) /\ Held(a) \cap mmap = {}
  /\ \A a, b \in held : a # b => Held(a) \cap Held(b) = {}
  /\ NothingLost

(* Giving out pages that are free.                                         *)
LEMMA GiveFree ==
  ASSUME PagesInv, NEW start, NEW num, Pages(start, num) \subseteq mmap, Give(start, num)
  PROVE  PagesInv'
<1> DEFINE new == [start |-> start, num |-> num]
<1>1. Held(new) = Pages(start, num)
  BY DEF Held
<1>2. mmap' = mmap \ Held(new) /\ held' = held \cup {new} /\ Held(new) \subseteq mmap
  BY <1>1 DEF Give
<1> HIDE DEF new
<1>3. /\ mmap' \subseteq Available \ (Reserved \cup {0})
      /\ \A a \in held' : Held(a) \subseteq Available \ (Reserved \cup {0}) /\ Held(a) \cap mmap' = {}
      /\ \A a, b \in held' : a # b => Held(a) \cap Held(b) = {}
  BY <1>2, Zenon DEF PagesInv
<1>4. UNION {Held(a) : a \in held'} = Held(new) \cup UNION {Held(a) : a \in held}
  BY <1>2, Zenon
<1>5. NothingLost'
  BY <1>2, <1>4, SMT DEF PagesInv, NothingLost, Held
<1> QED
  BY <1>3, <1>5 DEF PagesInv, Held

(* Taking back what a caller holds.                                        *)
LEMMA FreeHeld ==
  ASSUME PagesInv, NEW a \in held, mm_free(a)
  PROVE  PagesInv'
<1>1. mmap' = mmap \cup Held(a) /\ held' = held \ {a}
  BY DEF mm_free, Held
<1>2. /\ mmap' \subseteq Available \ (Reserved \cup {0})
      /\ \A b \in held' : Held(b) \subseteq Available \ (Reserved \cup {0}) /\ Held(b) \cap mmap' = {}
      /\ \A b, c \in held' : b # c => Held(b) \cap Held(c) = {}
  BY <1>1, Zenon DEF PagesInv
<1>3. UNION {Held(b) : b \in held} = Held(a) \cup UNION {Held(b) : b \in held'}
  BY <1>1, Zenon
<1>4. NothingLost'
  BY <1>1, <1>3, SMT DEF PagesInv, NothingLost, Held
<1> QED
  BY <1>2, <1>4 DEF PagesInv, Held

LEMMA PagesInit == init_mm => PagesInv
<1> SUFFICES ASSUME init_mm PROVE PagesInv
  OBVIOUS
<1>1. UNION {Held(a) : a \in held} = {}
  BY Zenon DEF init_mm
<1> QED
  BY <1>1, SMT DEF PagesInv, init_mm, NothingLost, Held

LEMMA Unchanged == PagesInv /\ UNCHANGED vars => PagesInv'
BY DEF PagesInv, vars, NothingLost, Held

(* Whoever asks for pages is refused, or given some that are free.         *)
LEMMA FreeGiven ==
  ASSUME Counting, EndsOnWord, AllocPage \/ AllocRange \/ AllocPhys \/ AllocDma
  PROVE  Refuse \/ \E start, num : Pages(start, num) \subseteq mmap /\ Give(start, num)
<1>1. ASSUME NEW num \in Nat \ {0}, mm_alloc_range(num)
      PROVE  Refuse \/ \E start : Pages(start, num) \subseteq mmap /\ Give(start, num)
  <2> DEFINE f == find(mmap, num, dma_end, mem_end)
  <2>1. f = NO_PAGE \/ Pages(f, num) \subseteq mmap
    <3>1. dma_end \in Nat /\ mem_end \in Nat /\ dma_end <= mem_end
      BY MemEnd
    <3> QED
      BY <3>1, FindExact, Zenon DEF EndsOnWord
  <2>2. IF f = NO_PAGE THEN Refuse ELSE Give(f, num)
    BY <1>1 DEF mm_alloc_range
  <2> HIDE DEF f
  <2> QED
    BY <2>1, <2>2
<1>2. CASE AllocPage
  BY <1>1, <1>2 DEF AllocPage, mm_alloc_page, mm_alloc_range
<1>3. CASE AllocRange
  BY <1>1, <1>3, MemoryAssumption DEF AllocRange
<1>4. CASE AllocPhys
  BY <1>4 DEF AllocPhys, mm_alloc_phys_range
<1>5. CASE AllocDma
  <2>1. CASE free_dma_addrs = {}
    BY <1>5, <2>1 DEF AllocDma, mm_alloc_dma
  <2>2. CASE free_dma_addrs # {}
    <3>1. DMA_PAGES \in Nat /\ NUM_DMA \in Nat /\ dma_start \in Nat
      BY MemoryAssumption DEF DMA_PAGES
    <3>2. free_dma_addrs \subseteq Nat
      BY <3>1 DEF free_dma_addrs, dma_addrs
    <3>3. \E a \in free_dma_addrs : \A b \in free_dma_addrs : a <= b
      BY <2>2, <3>2 DEF Counting, LeastNumber
    <3>4. PICK a \in free_dma_addrs : Give(a, DMA_RANGE_LENGTH)
      BY <1>5, <2>2, <3>3 DEF AllocDma, mm_alloc_dma
    <3> QED
      BY <3>4 DEF free_dma_addrs
  <2> QED
    BY <2>1, <2>2
<1> QED
  BY <1>2, <1>3, <1>4, <1>5

LEMMA PagesStep ==
  ASSUME Counting, EndsOnWord, PagesInv, [Next]_vars
  PROVE  PagesInv'
<1>1. CASE AllocPage \/ AllocRange \/ AllocPhys \/ AllocDma
  BY <1>1, FreeGiven, GiveFree, Unchanged DEF Refuse
<1>2. CASE Free
  BY <1>2, FreeHeld DEF Free
<1> QED
  BY <1>1, <1>2, Unchanged DEF Next
-----------------------------------------------------------------------------
-----------------------------------------------------------------------------

(* The kernel heap                                                         *)

NodeT == [ptr : Nat \ {0}, size : Nat \ {0}]

(* The bytes of a list's blocks.                                           *)
Cover(q) == UNION {Extent(q[i]) : i \in DOMAIN q}

Apart(q) == \A i, j \in DOMAIN q : i # j => Extent(q[i]) \cap Extent(q[j]) = {}

LEMMA NodeExtent ==
  ASSUME NEW b \in NodeT
  PROVE  /\ b.ptr \in Extent(b) /\ Extent(b) \subseteq Nat \ {0}
         /\ b.ptr \in Nat \ {0} /\ b.size \in Nat \ {0} /\ b = Block(b.ptr, b.size)
BY DEF NodeT, Extent, Block

(* A node is put at the head of a list.                                    *)
LEMMA ConsIs ==
  ASSUME NEW q \in Seq(NodeT), NEW b \in NodeT
  PROVE  /\ <<b>> \o q \in Seq(NodeT) /\ Len(<<b>> \o q) = Len(q) + 1
         /\ (<<b>> \o q)[1] = b /\ \A i \in DOMAIN q : (<<b>> \o q)[i + 1] = q[i]
         /\ DOMAIN (<<b>> \o q) = 1 .. Len(q) + 1 /\ DOMAIN q = 1 .. Len(q) /\ Len(q) \in Nat
         /\ Head(<<b>> \o q) = b
OBVIOUS

LEMMA ConsApart ==
  ASSUME NEW q \in Seq(NodeT), NEW b \in NodeT
  PROVE  /\ <<b>> \o q \in Seq(NodeT)
         /\ Cover(<<b>> \o q) = Extent(b) \cup Cover(q)
         /\ Apart(q) /\ Extent(b) \cap Cover(q) = {} => Apart(<<b>> \o q)
<1> DEFINE r == <<b>> \o q
<1>1. /\ r \in Seq(NodeT) /\ r[1] = b /\ \A i \in DOMAIN q : r[i + 1] = q[i]
      /\ DOMAIN r = 1 .. Len(q) + 1 /\ DOMAIN q = 1 .. Len(q) /\ Len(q) \in Nat
  BY ConsIs
<1> HIDE DEF r
<1>2. \A k \in DOMAIN r : k = 1 \/ (k - 1 \in DOMAIN q /\ r[k] = q[k - 1])
  <2> SUFFICES ASSUME NEW k \in DOMAIN r, k # 1 PROVE k - 1 \in DOMAIN q /\ r[k] = q[k - 1]
    OBVIOUS
  <2>1. k - 1 \in DOMAIN q /\ (k - 1) + 1 = k
    BY <1>1
  <2> QED
    BY <1>1, <2>1
<1>3. \A i \in DOMAIN q : i + 1 \in DOMAIN r /\ 1 \in DOMAIN r
  BY <1>1
<1>4. Cover(r) = Extent(b) \cup Cover(q)
  <2>1. ASSUME NEW a, a \in Cover(r) PROVE a \in Extent(b) \cup Cover(q)
    <3>1. PICK k \in DOMAIN r : a \in Extent(r[k])
      BY <2>1 DEF Cover
    <3> QED
      BY <1>1, <1>2, <3>1 DEF Cover
  <2>2. ASSUME NEW a, a \in Extent(b) PROVE a \in Cover(r)
    <3>1. 1 \in DOMAIN r
      BY <1>1
    <3> QED
      BY <1>1, <2>2, <3>1 DEF Cover
  <2>3. ASSUME NEW a, a \in Cover(q) PROVE a \in Cover(r)
    <3>1. PICK i \in DOMAIN q : a \in Extent(q[i])
      BY <2>3 DEF Cover
    <3>2. i + 1 \in DOMAIN r /\ r[i + 1] = q[i]
      BY <1>1, <1>3
    <3> QED
      BY <3>1, <3>2 DEF Cover
  <2> QED
    BY <2>1, <2>2, <2>3
<1>5. ASSUME Apart(q), Extent(b) \cap Cover(q) = {} PROVE Apart(r)
  <2>1. \A i \in DOMAIN q : Extent(q[i]) \subseteq Cover(q)
    BY DEF Cover
  <2> SUFFICES ASSUME NEW i \in DOMAIN r, NEW j \in DOMAIN r, i # j
               PROVE  Extent(r[i]) \cap Extent(r[j]) = {}
    BY Zenon DEF Apart
  <2>2. CASE i = 1
    BY <1>1, <1>2, <1>5, <2>1, <2>2
  <2>3. CASE j = 1
    BY <1>1, <1>2, <1>5, <2>1, <2>3
  <2>4. CASE i # 1 /\ j # 1
    <3>1. i - 1 \in DOMAIN q /\ j - 1 \in DOMAIN q /\ i - 1 # j - 1
      BY <1>1, <1>2, <2>4
    <3> QED
      BY <1>2, <1>5, <2>4, <3>1 DEF Apart
  <2> QED
    BY <2>2, <2>3, <2>4
<1> QED
  BY <1>1, <1>4, <1>5 DEF r

(* r is q without its i-th node.                                           *)
Dropped(q, i, r) ==
  /\ r \in Seq(NodeT) /\ DOMAIN r = 1 .. Len(q) - 1
  /\ \A j \in DOMAIN r : r[j] = IF j < i THEN q[j] ELSE q[j + 1]

LEMMA ConcatAt ==
  ASSUME NEW S, NEW q \in Seq(S), NEW r \in Seq(S), NEW j \in 1 .. Len(q) + Len(r)
  PROVE  (q \o r)[j] = IF j <= Len(q) THEN q[j] ELSE r[j - Len(q)]
  OBVIOUS

LEMMA RemoveIs ==
  ASSUME NEW q \in Seq(NodeT), NEW i \in DOMAIN q
  PROVE  Dropped(q, i, Unlink(q, i))
<1>1. i \in 1 .. Len(q) /\ Len(q) \in Nat
  OBVIOUS
<1> DEFINE x == SubSeq(q, 1, i - 1)
           y == SubSeq(q, i + 1, Len(q))
<1>2. x \in Seq(NodeT) /\ Len(x) = i - 1 /\ \A j \in 1 .. i - 1 : x[j] = q[j]
  BY <1>1
<1>3. y \in Seq(NodeT) /\ Len(y) = Len(q) - i /\ \A j \in 1 .. Len(q) - i : y[j] = q[j + i]
  BY <1>1
<1> HIDE DEF x, y
<1>4. x \o y \in Seq(NodeT) /\ Len(x \o y) = Len(q) - 1
  BY <1>1, <1>2, <1>3, SMTT(30), ZenonT(20)
<1>6. DOMAIN (x \o y) = 1 .. Len(q) - 1
  BY <1>4
<1>5. ASSUME NEW j \in 1 .. Len(q) - 1 PROVE (x \o y)[j] = IF j < i THEN q[j] ELSE q[j + 1]
  <2>1. ASSUME j < i PROVE (x \o y)[j] = q[j]
    BY <1>1, <1>2, <1>3, <1>5, <2>1, SMTT(30), ZenonT(20)
  <2>2. ASSUME j >= i PROVE (x \o y)[j] = q[j + 1]
    <3>0. j \in 1 .. Len(x) + Len(y) /\ ~(j <= Len(x)) /\ Len(x) = i - 1
      BY <1>1, <1>2, <1>3, <1>5, <2>2, SMTT(30), ZenonT(20)
    <3>1. (x \o y)[j] = IF j <= Len(x) THEN x[j] ELSE y[j - Len(x)]
      BY <1>2, <1>3, <3>0, ConcatAt, Zenon
    <3>2. j - (i - 1) \in 1 .. Len(q) - i /\ (j - (i - 1)) + i = j + 1
      BY <1>1, <1>5, <2>2
    <3> QED
      BY <1>3, <3>0, <3>1, <3>2, ZenonT(40)
  <2>4. j < i \/ (~(j < i) /\ j >= i)
    BY <1>1, <1>5
  <2> QED
    BY <2>1, <2>2, <2>4, Zenon
<1>7. Unlink(q, i) = x \o y
  BY DEF Unlink, x, y
<1> QED
  BY <1>4, <1>5, <1>6, <1>7, Zenon DEF Dropped

LEMMA TailIs ==
  ASSUME NEW q \in Seq(NodeT), q # << >>
  PROVE  /\ Dropped(q, 1, Tail(q)) /\ 1 \in DOMAIN q /\ Head(q) = q[1] /\ q[1] \in NodeT
<1>1. /\ Tail(q) \in Seq(NodeT) /\ Len(Tail(q)) = Len(q) - 1 /\ Len(q) \in Nat /\ Len(q) # 0
      /\ Head(q) = q[1]
  OBVIOUS
<1>2. DOMAIN Tail(q) = 1 .. Len(q) - 1 /\ DOMAIN q = 1 .. Len(q)
  BY <1>1
<1>3. \A j \in 1 .. Len(q) - 1 : Tail(q)[j] = q[j + 1]
  BY <1>1
<1>4. \A j \in 1 .. Len(q) - 1 : ~(j < 1)
  BY <1>1
<1>5. Dropped(q, 1, Tail(q))
  BY <1>1, <1>2, <1>3, <1>4 DEF Dropped
<1> QED
  BY <1>1, <1>2, <1>5

(* What a node that is taken off a list leaves.                            *)
LEMMA DropApart ==
  ASSUME NEW q \in Seq(NodeT), NEW i \in DOMAIN q, NEW r, Dropped(q, i, r), Apart(q)
  PROVE  /\ r \in Seq(NodeT) /\ Apart(r)
         /\ Cover(r) = Cover(q) \ Extent(q[i])
         /\ q[i] \in NodeT /\ Extent(q[i]) \subseteq Cover(q)
<1> DEFINE at(j) == IF j < i THEN j ELSE j + 1
<1>1. i \in 1 .. Len(q) /\ Len(q) \in Nat /\ DOMAIN q = 1 .. Len(q) /\ q[i] \in NodeT
  OBVIOUS
<1>2. \A j \in DOMAIN r : r[j] = q[at(j)] /\ at(j) \in DOMAIN q /\ at(j) # i
  BY <1>1 DEF Dropped
<1>3. \A j, k \in DOMAIN r : j # k => at(j) # at(k)
  BY <1>1 DEF Dropped
<1>4. \A k \in DOMAIN q : k # i => \E j \in DOMAIN r : at(j) = k
  <2> SUFFICES ASSUME NEW k \in DOMAIN q, k # i PROVE \E j \in DOMAIN r : at(j) = k
    OBVIOUS
  <2>1. CASE k < i
    BY <1>1, <2>1 DEF Dropped
  <2>2. CASE k > i
    <3>1. k - 1 \in DOMAIN r /\ ~(k - 1 < i) /\ (k - 1) + 1 = k
      BY <1>1, <2>2 DEF Dropped
    <3> QED
      BY <3>1
  <2> QED
    BY <1>1, <2>1, <2>2
<1> HIDE DEF at
<1>5. Apart(r)
  BY <1>2, <1>3 DEF Apart
<1>6. ASSUME NEW a, a \in Cover(r) PROVE a \in Cover(q) \ Extent(q[i])
  <2>1. PICK j \in DOMAIN r : a \in Extent(r[j])
    BY <1>6 DEF Cover
  <2>2. a \in Extent(q[at(j)]) /\ at(j) \in DOMAIN q /\ at(j) # i
    BY <1>2, <2>1
  <2> QED
    BY <2>2 DEF Cover, Apart
<1>7. ASSUME NEW a, a \in Cover(q), a \notin Extent(q[i]) PROVE a \in Cover(r)
  <2>1. PICK k \in DOMAIN q : a \in Extent(q[k])
    BY <1>7 DEF Cover
  <2>2. PICK j \in DOMAIN r : at(j) = k
    BY <1>4, <1>7, <2>1
  <2> QED
    BY <1>2, <2>1, <2>2 DEF Cover
<1>8. Extent(q[i]) \subseteq Cover(q)
  BY Zenon DEF Cover
<1> QED
  BY <1>1, <1>5, <1>6, <1>7, <1>8 DEF Dropped
-----------------------------------------------------------------------------
(* The states between the functions of kmalloc.c.                          *)

Shaped(s) ==
  /\ s = [mmap |-> s.mmap, held |-> s.held, hp |-> s.hp]
  /\ s.hp = [used_nodes |-> s.hp.used_nodes, free_nodes |-> s.hp.free_nodes, top |-> s.hp.top,
             ranges |-> s.hp.ranges, lost |-> s.hp.lost, panicked |-> s.hp.panicked]
  /\ s.hp.panicked \in BOOLEAN

Covered(s) == Cover(s.hp.used_nodes) \cup Cover(s.hp.free_nodes)

(* The blocks share no byte, and are in memory that has been fetched.      *)
NodesOk(s) ==
  /\ Shaped(s)
  /\ s.hp.used_nodes \in Seq(NodeT) /\ s.hp.free_nodes \in Seq(NodeT) /\ s.hp.top \in Nat \ {0}
  /\ Apart(s.hp.used_nodes) /\ Apart(s.hp.free_nodes)
  /\ Cover(s.hp.used_nodes) \cap Cover(s.hp.free_nodes) = {}
  /\ Covered(s) \subseteq 1 .. s.hp.top - 1

(* All that has been fetched is lost, in a block, or still to be put into  *)
(* one.                                                                    *)
Accounts(s, rest) ==
  ~s.hp.panicked => 1 .. s.hp.top - 1 = s.hp.lost \cup Covered(s) \cup rest

(* r has the lists u and f, and is s otherwise.                            *)
Lists(s, r, u, f) ==
  /\ Shaped(r) /\ r.mmap = s.mmap /\ r.held = s.held /\ r.hp.ranges = s.hp.ranges
  /\ r.hp.top = s.hp.top /\ r.hp.panicked = s.hp.panicked
  /\ r.hp.used_nodes = u /\ r.hp.free_nodes = f

LEMMA MapRangeIs ==
  ASSUME NEW s, Shaped(s), NEW start, NEW num
  PROVE  /\ Shaped(MapRange(s, start, num))
         /\ MapRange(s, start, num).hp.used_nodes = s.hp.used_nodes
         /\ MapRange(s, start, num).hp.free_nodes = s.hp.free_nodes
         /\ MapRange(s, start, num).hp.lost = s.hp.lost
         /\ start = NO_PAGE =>
              /\ MapRange(s, start, num).hp.panicked
              /\ MapRange(s, start, num).hp.top = s.hp.top
              /\ MapRange(s, start, num).hp.ranges = s.hp.ranges
              /\ MapRange(s, start, num).mmap = s.mmap /\ MapRange(s, start, num).held = s.held
         /\ start # NO_PAGE =>
              /\ MapRange(s, start, num).hp.panicked = s.hp.panicked
              /\ MapRange(s, start, num).hp.top = s.hp.top + num * PAGE_SIZE
              /\ MapRange(s, start, num).hp.ranges = s.hp.ranges \cup {[start |-> start, num |-> num]}
              /\ MapRange(s, start, num).mmap = s.mmap \ Pages(start, num)
              /\ MapRange(s, start, num).held = s.held \cup {[start |-> start, num |-> num]}
<1>1. CASE start = NO_PAGE
  BY <1>1, Zenon DEF MapRange, Shaped
<1>2. CASE start # NO_PAGE
  BY <1>2, ZenonT(40) DEF MapRange, Shaped
<1> QED
  BY <1>1, <1>2, Zenon

(* A page or more is fetched: what is new in memory.                       *)
LEMMA Fetched ==
  ASSUME NEW s, NodesOk(s), ~s.hp.panicked, NEW num \in Nat, NEW r, r = km_alloc_range(s, num),
         NEW rest, Accounts(s, rest)
  PROVE  /\ NodesOk(r) /\ r.hp.top \in Nat /\ s.hp.top <= r.hp.top
         /\ r.hp.used_nodes = s.hp.used_nodes /\ r.hp.free_nodes = s.hp.free_nodes
         /\ r.hp.lost = s.hp.lost
         /\ ~r.hp.panicked => r.hp.top = s.hp.top + num * PAGE_SIZE
         /\ Accounts(r, rest \cup (s.hp.top .. s.hp.top + num * PAGE_SIZE - 1))
<1> DEFINE start == find(s.mmap, num, dma_end, mem_end)
           size  == num * PAGE_SIZE
<1>1. size \in Nat
  BY MemoryAssumption
<1>2. r = MapRange(s, start, num) /\ Shaped(s) /\ s.hp.top \in Nat \ {0}
  BY ZenonT(40) DEF km_alloc_range, NodesOk
<1> HIDE DEF start
<1>3. /\ Shaped(r) /\ r.hp.used_nodes = s.hp.used_nodes /\ r.hp.free_nodes = s.hp.free_nodes
      /\ r.hp.lost = s.hp.lost
      /\ start = NO_PAGE => r.hp.panicked /\ r.hp.top = s.hp.top
      /\ start # NO_PAGE => r.hp.panicked = s.hp.panicked /\ r.hp.top = s.hp.top + size
  BY <1>2, MapRangeIs, SMTT(30), ZenonT(20)
<1> HIDE DEF size
<1>4. r.hp.top \in Nat \ {0} /\ s.hp.top <= r.hp.top
  BY <1>1, <1>2, <1>3
<1>5. Covered(r) = Covered(s)
  BY <1>3, ZenonT(40) DEF Covered
<1>6. 1 .. s.hp.top - 1 \subseteq 1 .. r.hp.top - 1
  BY <1>2, <1>4
<1>7. NodesOk(r)
  BY <1>3, <1>4, <1>5, <1>6, Zenon DEF NodesOk
<1>8. ~r.hp.panicked => r.hp.top = s.hp.top + size
  BY <1>3
<1>9. Accounts(r, rest \cup (s.hp.top .. s.hp.top + size - 1))
  <2> SUFFICES ASSUME ~r.hp.panicked
               PROVE  1 .. r.hp.top - 1 =
                        r.hp.lost \cup Covered(r) \cup (rest \cup (s.hp.top .. s.hp.top + size - 1))
    BY Zenon DEF Accounts
  <2>1. 1 .. r.hp.top - 1 = (1 .. s.hp.top - 1) \cup (s.hp.top .. s.hp.top + size - 1)
    BY <1>1, <1>2, <1>8
  <2>2. 1 .. s.hp.top - 1 = s.hp.lost \cup Covered(s) \cup rest
    BY DEF Accounts
  <2> QED
    BY <1>3, <1>5, <2>1, <2>2, Zenon
<1> QED
  BY <1>3, <1>4, <1>7, <1>8, <1>9 DEF size

(* The records that the steps of create_node make.                         *)
LEMMA LoseIs ==
  ASSUME NEW s, Shaped(s), NEW b
  PROVE  /\ Lists(s, Lose(s, b), s.hp.used_nodes, s.hp.free_nodes)
         /\ Lose(s, b).hp.lost = s.hp.lost \cup Extent(b)
BY SMTT(30), ZenonT(20) DEF Lists, Shaped, Lose

WithFree(s, f) == [s EXCEPT !.hp.free_nodes = f]
WithUsed(s, u) == [s EXCEPT !.hp.used_nodes = u]

LEMMA FreeListIs ==
  ASSUME NEW s, Shaped(s), NEW f
  PROVE  /\ Lists(s, WithFree(s, f), s.hp.used_nodes, f)
         /\ WithFree(s, f).hp.lost = s.hp.lost
BY DEF Lists, Shaped, WithFree

LEMMA UsedListIs ==
  ASSUME NEW s, Shaped(s), NEW u
  PROVE  /\ Lists(s, WithUsed(s, u), u, s.hp.free_nodes)
         /\ WithUsed(s, u).hp.lost = s.hp.lost
BY DEF Lists, Shaped, WithUsed

LEMMA BothListsAre ==
  ASSUME NEW s, Shaped(s), NEW f, NEW u
  PROVE  /\ Lists(s, WithUsed(WithFree(s, f), u), u, f)
         /\ WithUsed(WithFree(s, f), u).hp.lost = s.hp.lost
<1> DEFINE t == WithFree(s, f)
<1>1. Lists(s, t, s.hp.used_nodes, f) /\ t.hp.lost = s.hp.lost
  BY FreeListIs
<1> HIDE DEF t
<1>2. Shaped(t)
  BY <1>1 DEF Lists
<1>3. Lists(t, WithUsed(t, u), u, t.hp.free_nodes) /\ WithUsed(t, u).hp.lost = t.hp.lost
  BY <1>2, UsedListIs, Zenon
<1> QED
  BY <1>1, <1>3, Zenon DEF Lists, t

(* append_node, for a block that has its bytes for itself.                 *)
Appended(s, r, b, is_free, rest) ==
  /\ NodesOk(r) /\ Accounts(r, rest) /\ r.hp.panicked = s.hp.panicked /\ r.hp.top = s.hp.top
  /\ Covered(r) \subseteq Covered(s) \cup Extent(b)
  /\ r.hp.used_nodes = IF s.hp.panicked \/ is_free THEN s.hp.used_nodes ELSE <<b>> \o s.hp.used_nodes

LEMMA AppendNode ==
  ASSUME NEW s, NodesOk(s), NEW is_free \in BOOLEAN, NEW b \in NodeT,
         ~s.hp.panicked => Extent(b) \subseteq 1 .. s.hp.top - 1 /\ Extent(b) \cap Covered(s) = {},
         NEW rest, Accounts(s, rest \cup Extent(b))
  PROVE  Appended(s, append_node(s, is_free, b), b, is_free, rest)
<1> SUFFICES ASSUME NEW r, r = append_node(s, is_free, b)
             PROVE  /\ NodesOk(r) /\ Accounts(r, rest) /\ r.hp.panicked = s.hp.panicked
                    /\ r.hp.top = s.hp.top /\ Covered(r) \subseteq Covered(s) \cup Extent(b)
                    /\ r.hp.used_nodes = IF s.hp.panicked \/ is_free THEN s.hp.used_nodes
                                         ELSE <<b>> \o s.hp.used_nodes
  BY Zenon DEF Appended
<1> DEFINE u == s.hp.used_nodes
           f == s.hp.free_nodes
<1>1. /\ Shaped(s) /\ u \in Seq(NodeT) /\ f \in Seq(NodeT) /\ Apart(u) /\ Apart(f)
      /\ Cover(u) \cap Cover(f) = {} /\ Covered(s) = Cover(u) \cup Cover(f) /\ s.hp.top \in Nat \ {0}
      /\ Covered(s) \subseteq 1 .. s.hp.top - 1
  BY DEF NodesOk, Covered
<1>2. CASE s.hp.panicked
  <2>1. r = s
    BY <1>2 DEF append_node
  <2> QED
    BY <1>2, <2>1, Zenon DEF Accounts
<1>3. CASE ~s.hp.panicked /\ is_free
  <2>1. r = WithFree(s, <<b>> \o f)
    BY <1>3, Zenon DEF append_node, WithFree
  <2>2. Lists(s, r, u, <<b>> \o f) /\ r.hp.lost = s.hp.lost
    BY <1>1, <2>1, FreeListIs
  <2>3. <<b>> \o f \in Seq(NodeT) /\ Cover(<<b>> \o f) = Extent(b) \cup Cover(f) /\ Apart(<<b>> \o f)
    BY <1>1, <1>3, ConsApart, Zenon
  <2>4. Covered(r) = Covered(s) \cup Extent(b)
    BY <1>1, <2>2, <2>3 DEF Covered, Lists
  <2> HIDE DEF u, f
  <2>5. NodesOk(r)
    <3>1. Covered(r) \subseteq 1 .. r.hp.top - 1 /\ r.hp.top \in Nat \ {0}
      BY <1>1, <1>3, <2>2, <2>4, Zenon DEF Lists
    <3>2. Cover(r.hp.used_nodes) \cap Cover(r.hp.free_nodes) = {}
      BY <1>1, <1>3, <2>2, <2>3, Zenon DEF Lists
    <3> QED
      BY <1>1, <2>2, <2>3, <3>1, <3>2, Zenon DEF NodesOk, Lists
  <2>6. Accounts(r, rest)
    BY <1>3, <2>2, <2>4, ZenonT(40) DEF Accounts, Lists
  <2> QED
    BY <1>3, <2>2, <2>4, <2>5, <2>6, Zenon DEF Lists, u
<1>4. CASE ~s.hp.panicked /\ ~is_free
  <2>1. r = WithUsed(s, <<b>> \o u)
    BY <1>4, ZenonT(40) DEF append_node, WithUsed
  <2>2. Lists(s, r, <<b>> \o u, f) /\ r.hp.lost = s.hp.lost
    BY <1>1, <2>1, UsedListIs
  <2>3. <<b>> \o u \in Seq(NodeT) /\ Cover(<<b>> \o u) = Extent(b) \cup Cover(u) /\ Apart(<<b>> \o u)
    BY <1>1, <1>4, ConsApart, Zenon
  <2>4. Covered(r) = Covered(s) \cup Extent(b)
    BY <1>1, <2>2, <2>3, Zenon DEF Covered, Lists
  <2> HIDE DEF u, f
  <2>5. NodesOk(r)
    <3>1. Covered(r) \subseteq 1 .. r.hp.top - 1 /\ r.hp.top \in Nat \ {0}
      BY <1>1, <1>4, <2>2, <2>4, Zenon DEF Lists
    <3>2. Cover(r.hp.used_nodes) \cap Cover(r.hp.free_nodes) = {}
      BY <1>1, <1>4, <2>2, <2>3, ZenonT(40) DEF Lists
    <3> QED
      BY <1>1, <2>2, <2>3, <3>1, <3>2, Zenon DEF NodesOk, Lists
  <2>6. Accounts(r, rest)
    BY <1>4, <2>2, <2>4, ZenonT(40) DEF Accounts, Lists
  <2> QED
    BY <1>4, <2>2, <2>4, <2>5, <2>6 DEF Lists, u
<1> QED
  BY <1>2, <1>3, <1>4, Zenon

(* A block that nobody has yet, and what create_node makes of it.          *)
Fresh(s, b) == Extent(b) \subseteq 1 .. s.hp.top - 1 /\ Extent(b) \cap Covered(s) = {}

Created(s, r, b, is_free, rest) ==
  /\ NodesOk(r) /\ Accounts(r, rest) /\ s.hp.top <= r.hp.top
  /\ Covered(r) \subseteq Covered(s) \cup Extent(b)
  /\ r.hp.used_nodes = IF r.hp.panicked \/ is_free THEN s.hp.used_nodes ELSE <<b>> \o s.hp.used_nodes

(* What the node described on free_nodes is lost.                          *)
LEMMA CreateNode ==
  ASSUME NEW s, NodesOk(s), ~s.hp.panicked, NEW is_free \in BOOLEAN,
         NEW ptr \in Nat \ {0}, NEW size \in Nat \ {0}, Fresh(s, Block(ptr, size)),
         NEW rest, Accounts(s, rest \cup Extent(Block(ptr, size)))
  PROVE  Created(s, create_node(s, size, ptr, is_free), Block(ptr, size), is_free, rest)
<1> DEFINE b == Block(ptr, size)
           f == s.hp.free_nodes
           t == IF f = << >> THEN Lose(km_alloc_range(s, 1), Block(s.hp.top, PAGE_SIZE))
                ELSE Lose(WithFree(s, Tail(f)), Head(f))
           r == create_node(s, size, ptr, is_free)
<1>1. b \in NodeT /\ r = append_node(t, is_free, b)
  BY ZenonT(40) DEF NodeT, Block, create_node, WithFree
<1>2. /\ Shaped(s) /\ s.hp.used_nodes \in Seq(NodeT) /\ f \in Seq(NodeT)
      /\ Apart(s.hp.used_nodes) /\ Apart(f)
      /\ Cover(s.hp.used_nodes) \cap Cover(f) = {} /\ s.hp.top \in Nat \ {0}
      /\ Covered(s) = Cover(s.hp.used_nodes) \cup Cover(f) /\ Covered(s) \subseteq 1 .. s.hp.top - 1
  BY DEF NodesOk, Covered
<1>3. /\ NodesOk(t) /\ s.hp.top <= t.hp.top /\ t.hp.used_nodes = s.hp.used_nodes
      /\ Covered(t) \subseteq Covered(s) /\ 1 .. s.hp.top - 1 \subseteq 1 .. t.hp.top - 1
      /\ Accounts(t, rest \cup Extent(b))
  <2>1. CASE f = << >>
    <3> DEFINE k == km_alloc_range(s, 1)
               page == Block(s.hp.top, PAGE_SIZE)
    <3>1. t = Lose(k, page)
      BY <2>1
    <3>2. PAGE_SIZE \in Nat \ {0} /\ 1 * PAGE_SIZE = PAGE_SIZE /\ 1 \in Nat
      BY MemoryAssumption
    <3>3. Extent(page) = s.hp.top .. s.hp.top + PAGE_SIZE - 1
      BY DEF Extent, Block
    <3>4. /\ NodesOk(k) /\ k.hp.top \in Nat /\ s.hp.top <= k.hp.top
          /\ k.hp.used_nodes = s.hp.used_nodes /\ k.hp.free_nodes = f
          /\ Accounts(k, (rest \cup Extent(b)) \cup (s.hp.top .. s.hp.top + 1 * PAGE_SIZE - 1))
      BY <3>2, Fetched, ZenonT(40)
    <3> HIDE DEF k, page, t, f, b
    <3>5. Lists(k, t, k.hp.used_nodes, k.hp.free_nodes) /\ t.hp.lost = k.hp.lost \cup Extent(page)
      BY <3>1, <3>4, LoseIs, Zenon DEF NodesOk
    <3>6. Covered(t) = Covered(k) /\ Covered(k) = Covered(s) /\ t.hp.top = k.hp.top
      BY <3>4, <3>5, Zenon DEF Covered, Lists, f
    <3>7. NodesOk(t)
      BY <3>4, <3>5, <3>6, Zenon DEF NodesOk, Lists
    <3>8. Accounts(t, rest \cup Extent(b))
      BY <3>2, <3>3, <3>4, <3>5, <3>6, Zenon DEF Accounts, Lists
    <3>9. 1 .. s.hp.top - 1 \subseteq 1 .. t.hp.top - 1
      BY <1>2, <3>4, <3>6, SMTT(30), ZenonT(20)
    <3> QED
      BY <3>4, <3>5, <3>6, <3>7, <3>8, <3>9, ZenonT(40) DEF Lists
  <2>2. CASE f # << >>
    <3> DEFINE k == WithFree(s, Tail(f))
    <3>1. t = Lose(k, Head(f))
      BY <2>2, Zenon
    <3>2. Dropped(f, 1, Tail(f)) /\ 1 \in DOMAIN f /\ Head(f) = f[1]
      BY <1>2, <2>2, TailIs, Zenon
    <3>3. /\ Tail(f) \in Seq(NodeT) /\ Apart(Tail(f)) /\ Cover(Tail(f)) = Cover(f) \ Extent(Head(f))
          /\ Extent(Head(f)) \subseteq Cover(f)
      BY <1>2, <3>2, DropApart
    <3>4. Lists(s, k, s.hp.used_nodes, Tail(f)) /\ k.hp.lost = s.hp.lost
      BY <1>2, FreeListIs, ZenonT(40)
    <3> HIDE DEF k, t, f, b
    <3>5. Lists(k, t, k.hp.used_nodes, k.hp.free_nodes) /\ t.hp.lost = k.hp.lost \cup Extent(Head(f))
      BY <3>1, <3>4, LoseIs, SMTT(30), ZenonT(20) DEF Lists
    <3>6. /\ t.hp.used_nodes = s.hp.used_nodes /\ t.hp.free_nodes = Tail(f) /\ t.hp.top = s.hp.top
          /\ t.hp.lost = s.hp.lost \cup Extent(Head(f)) /\ t.hp.panicked = s.hp.panicked /\ Shaped(t)
      BY <3>4, <3>5, Zenon DEF Lists
    <3>7. Covered(t) = Cover(s.hp.used_nodes) \cup (Cover(f) \ Extent(Head(f)))
      BY <3>3, <3>6, Zenon DEF Covered
    <3>8. Covered(t) \subseteq Covered(s) /\ Covered(t) \cup Extent(Head(f)) = Covered(s)
      BY <1>2, <3>3, <3>7, Zenon
    <3>9. Cover(t.hp.used_nodes) \cap Cover(t.hp.free_nodes) = {}
      BY <1>2, <3>3, <3>6, Zenon
    <3>10. NodesOk(t)
      BY <1>2, <3>3, <3>6, <3>8, <3>9, Zenon DEF NodesOk
    <3>11. Accounts(t, rest \cup Extent(b))
      <4>1. 1 .. s.hp.top - 1 = s.hp.lost \cup Covered(s) \cup (rest \cup Extent(b))
        BY Zenon DEF Accounts, b
      <4>2. t.hp.lost \cup Covered(t) = s.hp.lost \cup Covered(s)
        BY <3>6, <3>8, ZenonT(40)
      <4> QED
        BY <3>6, <4>1, <4>2, Zenon DEF Accounts
    <3>12. s.hp.top <= t.hp.top /\ 1 .. s.hp.top - 1 \subseteq 1 .. t.hp.top - 1
      BY <1>2, <3>6
    <3> QED
      BY <3>6, <3>8, <3>10, <3>11, <3>12, Zenon
  <2> QED
    BY <2>1, <2>2, Zenon
<1>4. Extent(b) \subseteq 1 .. t.hp.top - 1 /\ Extent(b) \cap Covered(t) = {}
  <2> HIDE DEF t, b, f
  <2> QED
    BY <1>3, Zenon DEF b, Fresh
<1> HIDE DEF t, b, f, r
<1>7. Appended(t, r, b, is_free, rest)
  BY <1>1, <1>3, <1>4, AppendNode, Zenon
<1>5. /\ NodesOk(r) /\ Accounts(r, rest) /\ r.hp.panicked = t.hp.panicked /\ r.hp.top = t.hp.top
      /\ Covered(r) \subseteq Covered(t) \cup Extent(b)
      /\ r.hp.used_nodes = IF t.hp.panicked \/ is_free THEN t.hp.used_nodes
                           ELSE <<b>> \o t.hp.used_nodes
  BY <1>7, Zenon DEF Appended
<1>6. Covered(r) \subseteq Covered(s) \cup Extent(b)
  BY <1>3, <1>5, Zenon
<1> QED
  BY <1>3, <1>5, <1>6 DEF b, r, Created

(* What is left of a block becomes a free block, if it is not empty.       *)
LEMMA Rest ==
  ASSUME NEW s, NodesOk(s), NEW ptr \in Nat \ {0}, NEW size \in Nat,
         ~s.hp.panicked =>
           /\ Extent(Block(ptr, size)) \subseteq 1 .. s.hp.top - 1
           /\ Extent(Block(ptr, size)) \cap Covered(s) = {},
         Accounts(s, Extent(Block(ptr, size))),
         NEW r, r = RestNode(s, size, ptr)
  PROVE  NodesOk(r) /\ Accounts(r, {}) /\ r.hp.used_nodes = s.hp.used_nodes
<1>1. CASE s.hp.panicked
  <2>1. r = s
    BY <1>1, Zenon DEF RestNode
  <2> QED
    BY <1>1, <2>1, Zenon DEF Accounts
<1>2. CASE size = 0
  <2>1. r = s /\ Extent(Block(ptr, size)) = {}
    BY <1>2 DEF RestNode, Extent, Block
  <2> QED
    BY <2>1, Zenon
<1>3. CASE ~s.hp.panicked /\ size # 0
  <2>1. r = create_node(s, size, ptr, TRUE) /\ size \in Nat \ {0} /\ Fresh(s, Block(ptr, size))
    BY <1>3, Zenon DEF RestNode, Fresh
  <2>2. Accounts(s, {} \cup Extent(Block(ptr, size)))
    OBVIOUS
  <2>3. Created(s, r, Block(ptr, size), TRUE, {})
    BY <1>3, <2>1, <2>2, CreateNode, Zenon
  <2> QED
    BY <2>3 DEF Created
<1> QED
  BY <1>1, <1>2, <1>3, Zenon

(* A block is cut into two.                                                *)
LEMMA Cut ==
  ASSUME NEW a \in Nat, NEW n \in Nat, NEW m \in Nat, m <= n
  PROVE  /\ Extent(Block(a, m)) = a .. a + m - 1 /\ Extent(Block(a + m, n - m)) = a + m .. a + n - 1
         /\ Extent(Block(a, m)) \cap Extent(Block(a + m, n - m)) = {}
         /\ Extent(Block(a, m)) \cup Extent(Block(a + m, n - m)) = a .. a + n - 1
<1>1. Extent(Block(a, m)) = a .. a + m - 1
  BY DEF Extent, Block
<1>2. Extent(Block(a + m, n - m)) = a + m .. (a + m) + (n - m) - 1
  BY DEF Extent, Block
<1>3. (a + m) + (n - m) - 1 = a + n - 1
  OBVIOUS
<1>4. Extent(Block(a + m, n - m)) = a + m .. a + n - 1
  BY <1>2, <1>3
<1>5. (a .. a + m - 1) \cap (a + m .. a + n - 1) = {}
  OBVIOUS
<1>6. (a .. a + m - 1) \cup (a + m .. a + n - 1) = a .. a + n - 1
  OBVIOUS
<1> QED
  BY <1>1, <1>4, <1>5, <1>6

(* Whole pages are enough for a block.                                     *)
LEMMA PagesFor ==
  ASSUME NEW size \in Nat \ {0}
  PROVE  num_pages(size) \in Nat \ {0} /\ num_pages(size) * PAGE_SIZE \in Nat /\ size <= num_pages(size) * PAGE_SIZE
<1> DEFINE P == PAGE_SIZE
           n == (size + P - 1) \div P
<1>1. P \in Nat \ {0}
  BY MemoryAssumption
<1> HIDE DEF P
<1>2. n \in Nat /\ (size + P - 1) = P * n + ((size + P - 1) % P) /\ (size + P - 1) % P \in 0 .. P - 1
  BY <1>1, Z3
<1> HIDE DEF n
<1>3. P * n \in Nat /\ P * n = n * P
  BY <1>1, <1>2
<1>4. size <= n * P
  BY <1>1, <1>2, <1>3
<1>5. n # 0
  BY <1>1, <1>2
<1> QED
  BY <1>2, <1>3, <1>4, <1>5 DEF num_pages, n, P

LEMMA LeastIndex ==
  ASSUME Counting, NEW S, S \subseteq Nat, S # {}
  PROVE  First(S) \in S
<1>1. \E x \in S : \A y \in S : x <= y
  BY Zenon DEF Counting, LeastNumber
<1> QED
  BY <1>1, Zenon DEF First

(* What kmalloc returns with: a block, or a panic.                         *)
Got(s, r, size) ==
  /\ NodesOk(r) /\ Accounts(r, {})
  /\ \/ r.hp.panicked /\ r.hp.used_nodes = s.hp.used_nodes
     \/ \E ptr \in Nat \ {0} : r.hp.used_nodes = <<Block(ptr, size)>> \o s.hp.used_nodes

LEMMA GotMemory ==
  ASSUME NEW s, NodesOk(s), ~s.hp.panicked, Accounts(s, {}), NEW size \in Nat \ {0}
  PROVE  Got(s, MoreMemory(s, size), size)
<1> DEFINE n   == num_pages(size)
           all == n * PAGE_SIZE
           top == s.hp.top
           k   == km_alloc_range(s, n)
           u   == UsedNode(k, size, top)
           r   == RestNode(u, all - size, top + size)
           b   == Block(top, size)
           c   == Block(top + size, all - size)
<1>1. n \in Nat /\ all \in Nat /\ size <= all /\ top \in Nat \ {0} /\ MoreMemory(s, size) = r
  BY PagesFor, Zenon DEF NodesOk, MoreMemory
<1>2. /\ NodesOk(k) /\ k.hp.top \in Nat /\ top <= k.hp.top
      /\ k.hp.used_nodes = s.hp.used_nodes /\ k.hp.free_nodes = s.hp.free_nodes
      /\ ~k.hp.panicked => k.hp.top = top + all
      /\ Accounts(k, {} \cup (top .. top + all - 1))
  <2> DEFINE rest == {}
  <2>1. n \in Nat /\ Accounts(s, rest)
    BY <1>1
  <2>2. \E x : x = k
    OBVIOUS
  <2>3. PICK x : x = k
    BY <2>2, Zenon
  <2> HIDE DEF rest
  <2>4. /\ NodesOk(x) /\ x.hp.top \in Nat /\ s.hp.top <= x.hp.top
        /\ x.hp.used_nodes = s.hp.used_nodes /\ x.hp.free_nodes = s.hp.free_nodes
        /\ ~x.hp.panicked => x.hp.top = s.hp.top + n * PAGE_SIZE
        /\ Accounts(x, rest \cup (s.hp.top .. s.hp.top + n * PAGE_SIZE - 1))
    BY <2>1, <2>3, Fetched
  <2> QED
    BY <2>3, <2>4, Zenon DEF rest
<1> HIDE DEF n, all, k
<1>3. /\ Extent(b) = top .. top + size - 1 /\ Extent(c) = top + size .. top + all - 1
      /\ Extent(b) \cap Extent(c) = {} /\ Extent(c) \cup Extent(b) = top .. top + all - 1
  <2>1. top \in Nat /\ size \in Nat
    BY <1>1
  <2> HIDE DEF top
  <2>2. /\ Extent(b) = top .. top + size - 1 /\ Extent(c) = top + size .. top + all - 1
        /\ Extent(b) \cap Extent(c) = {} /\ Extent(b) \cup Extent(c) = top .. top + all - 1
    BY <1>1, <2>1, Cut, Zenon
  <2> QED
    BY <2>2, Zenon
<1>4. Covered(k) = Covered(s) /\ Covered(s) \subseteq 1 .. top - 1
  BY <1>2, Zenon DEF NodesOk, Covered
<1> HIDE DEF b, c, top
<1>5. CASE k.hp.panicked
  <2>1. u = k
    BY <1>5, Zenon DEF UsedNode
  <2>2. r = k
    BY <1>5, <2>1, Zenon DEF RestNode
  <2> QED
    BY <1>1, <1>2, <1>5, <2>2, Zenon DEF Got, Accounts
<1>6. CASE ~k.hp.panicked
  <2>1. u = create_node(k, size, top, FALSE)
    BY <1>6, Zenon DEF UsedNode
  <2>2. Fresh(k, b)
    <3>1. Extent(b) \subseteq 1 .. k.hp.top - 1
      BY <1>1, <1>2, <1>3, <1>6
    <3>2. Extent(b) \cap (1 .. top - 1) = {}
      BY <1>1, <1>3
    <3> QED
      BY <1>4, <3>1, <3>2, Zenon DEF Fresh
  <2>3. Accounts(k, Extent(c) \cup Extent(b))
    BY <1>2, <1>3, Zenon
  <2>4. Created(k, u, b, FALSE, Extent(c))
    BY <1>1, <1>2, <1>6, <2>1, <2>2, <2>3, CreateNode, Zenon DEF b
  <2>5. /\ NodesOk(u) /\ Accounts(u, Extent(c)) /\ k.hp.top <= u.hp.top
        /\ Covered(u) \subseteq Covered(k) \cup Extent(b) /\ u.hp.top \in Nat
        /\ u.hp.used_nodes = IF u.hp.panicked THEN k.hp.used_nodes ELSE <<b>> \o k.hp.used_nodes
    BY <2>4, Zenon DEF Created, NodesOk
  <2> HIDE DEF u
  <2>6. Extent(c) \subseteq 1 .. u.hp.top - 1 /\ Extent(c) \cap Covered(u) = {}
    <3>1. Extent(c) \subseteq 1 .. u.hp.top - 1
      BY <1>1, <1>2, <1>3, <1>6, <2>5, SMTT(30), ZenonT(20)
    <3>2. Extent(c) \cap (1 .. top - 1) = {}
      BY <1>1, <1>3
    <3> QED
      BY <1>3, <1>4, <2>5, <3>1, <3>2, Zenon
  <2>7. NodesOk(r) /\ Accounts(r, {}) /\ r.hp.used_nodes = u.hp.used_nodes
    BY <1>1, <2>5, <2>6, Rest DEF c
  <2>8. CASE u.hp.panicked
    <3>1. r = u
      BY <2>8, Zenon DEF RestNode
    <3> QED
      BY <1>1, <1>2, <2>5, <2>7, <2>8, <3>1, Zenon DEF Got
  <2>9. CASE ~u.hp.panicked
    <3>1. r.hp.used_nodes = <<Block(top, size)>> \o s.hp.used_nodes
      BY <1>2, <2>5, <2>7, <2>9 DEF b
    <3> QED
      BY <1>1, <2>7, <3>1, ZenonT(40) DEF Got
  <2> QED
    BY <2>8, <2>9
<1> QED
  BY <1>5, <1>6, Zenon

(* A free block that is large enough is cut.                               *)
LEMMA GotFree ==
  ASSUME NEW s, NodesOk(s), ~s.hp.panicked, Accounts(s, {}), NEW size \in Nat \ {0},
         NEW i \in DOMAIN s.hp.free_nodes, s.hp.free_nodes[i].size >= size
  PROVE  Got(s, FromFree(s, i, s.hp.free_nodes[i], size), size)
<1> DEFINE f == s.hp.free_nodes
           u == s.hp.used_nodes
           b == f[i]
           c == Block(b.ptr, size)
           e == Block(b.ptr + size, b.size - size)
           g == Unlink(f, i)
           v == <<c>> \o u
           t == WithUsed(WithFree(s, g), v)
           r == RestNode(t, b.size - size, b.ptr + size)
<1>1. FromFree(s, i, b, size) = r
  BY Zenon DEF FromFree, WithUsed, WithFree
<1>2. /\ Shaped(s) /\ u \in Seq(NodeT) /\ f \in Seq(NodeT) /\ Apart(u) /\ Apart(f)
      /\ Cover(u) \cap Cover(f) = {} /\ s.hp.top \in Nat \ {0}
      /\ Covered(s) = Cover(u) \cup Cover(f) /\ Covered(s) \subseteq 1 .. s.hp.top - 1
  BY Zenon DEF NodesOk, Covered
<1>3. Dropped(f, i, g)
  BY <1>2, RemoveIs, ZenonT(40)
<1>4. /\ g \in Seq(NodeT) /\ Apart(g) /\ Cover(g) = Cover(f) \ Extent(b)
      /\ b \in NodeT /\ Extent(b) \subseteq Cover(f)
  BY <1>2, <1>3, DropApart
<1> HIDE DEF g, f, b
<1>5. b.ptr \in Nat \ {0} /\ b.size \in Nat \ {0} /\ b.size >= size
  BY <1>4, Zenon DEF NodeT, b, f
<1>6. /\ c \in NodeT /\ Extent(c) \cap Extent(e) = {} /\ Extent(c) \cup Extent(e) = Extent(b)
  <2>1. c \in NodeT
    BY <1>5, ZenonT(40) DEF NodeT, Block
  <2>2. Extent(b) = b.ptr .. b.ptr + b.size - 1
    BY DEF Extent
  <2>3. /\ Extent(c) \cap Extent(e) = {}
        /\ Extent(c) \cup Extent(e) = b.ptr .. b.ptr + b.size - 1
    BY <1>5, Cut, Zenon
  <2> QED
    BY <2>1, <2>2, <2>3, Zenon
<1> HIDE DEF u, c
<1>7. Extent(c) \cap Cover(u) = {}
  BY <1>2, <1>4, <1>6, Zenon
<1>8. v \in Seq(NodeT) /\ Cover(v) = Extent(c) \cup Cover(u) /\ Apart(v)
  BY <1>2, <1>6, <1>7, ConsApart, ZenonT(40)
<1>9. Lists(s, t, v, g) /\ t.hp.lost = s.hp.lost
  BY <1>2, BothListsAre
<1> HIDE DEF v, t
<1>10. /\ Shaped(t) /\ t.hp.used_nodes = v /\ t.hp.free_nodes = g /\ t.hp.top = s.hp.top
       /\ t.hp.panicked = s.hp.panicked /\ Covered(t) = (Extent(c) \cup Cover(u)) \cup (Cover(f) \ Extent(b))
  BY <1>4, <1>8, <1>9, Zenon DEF Lists, Covered
<1> HIDE DEF e
<1>11. Cover(v) \cap Cover(g) = {} /\ Covered(t) \subseteq Covered(s)
  BY <1>2, <1>4, <1>6, <1>8, <1>10, Zenon
<1>12. NodesOk(t)
  BY <1>2, <1>4, <1>8, <1>10, <1>11, Zenon DEF NodesOk
<1>13. Extent(e) \subseteq 1 .. t.hp.top - 1 /\ Extent(e) \cap Covered(t) = {}
  BY <1>2, <1>4, <1>6, <1>10, Zenon
<1>14. Covered(t) \cup Extent(e) = Covered(s)
  BY <1>2, <1>4, <1>6, <1>10, Zenon
<1>15. Accounts(t, Extent(e))
  BY <1>9, <1>10, <1>14, Zenon DEF Accounts
<1>16. b.ptr + size \in Nat \ {0} /\ b.size - size \in Nat
  BY <1>5, SMTT(30), ZenonT(20)
<1>17. NodesOk(r) /\ Accounts(r, {}) /\ r.hp.used_nodes = v
  BY <1>10, <1>12, <1>13, <1>15, <1>16, Rest DEF e
<1> QED
  BY <1>1, <1>5, <1>17, Zenon DEF Got, v, c, u, f, b

(* kmalloc gives a block of bytes that no block in use has, or panics.     *)
LEMMA KmallocGets ==
  ASSUME Counting, NEW s, NodesOk(s), ~s.hp.panicked, Accounts(s, {}), NEW size \in Nat \ {0}
  PROVE  Got(s, kmalloc(s, size), size)
<1> DEFINE fitting == {i \in DOMAIN s.hp.free_nodes : s.hp.free_nodes[i].size >= size}
<1>1. s.hp.free_nodes \in Seq(NodeT)
  BY Zenon DEF NodesOk
<1>2. fitting \subseteq Nat /\ kmalloc(s, size) = AllocAt(s, fitting, size)
  BY <1>1 DEF kmalloc
<1>3. CASE fitting = {}
  BY <1>2, <1>3, GotMemory, Zenon DEF AllocAt
<1>4. CASE fitting # {}
  <2> DEFINE i == First(fitting)
  <2>1. i \in fitting
    BY <1>2, <1>4, LeastIndex, Zenon
  <2>2. kmalloc(s, size) = FromFree(s, i, s.hp.free_nodes[i], size)
    BY <1>2, <1>4, Zenon DEF AllocAt
  <2> HIDE DEF i
  <2> QED
    BY <2>1, <2>2, GotFree
<1> QED
  BY <1>3, <1>4, Zenon

(* kfree takes one block out of the list of the used ones, if it was in.   *)
Freed(s, r, ptr) ==
  /\ NodesOk(r) /\ Accounts(r, {}) /\ r.hp.top = s.hp.top /\ r.hp.panicked = s.hp.panicked
  /\ \/ r = s /\ \A i \in DOMAIN s.hp.used_nodes : s.hp.used_nodes[i].ptr # ptr
     \/ \E i \in DOMAIN s.hp.used_nodes :
          /\ s.hp.used_nodes[i].ptr = ptr
          /\ Dropped(s.hp.used_nodes, i, r.hp.used_nodes)

LEMMA KfreeFrees ==
  ASSUME Counting, NEW s, NodesOk(s), Accounts(s, {}), NEW ptr
  PROVE  Freed(s, kfree(s, ptr), ptr)
<1> DEFINE u == s.hp.used_nodes
           f == s.hp.free_nodes
           with == {i \in DOMAIN u : u[i].ptr = ptr}
<1>1. /\ Shaped(s) /\ u \in Seq(NodeT) /\ f \in Seq(NodeT) /\ Apart(u) /\ Apart(f)
      /\ Cover(u) \cap Cover(f) = {} /\ s.hp.top \in Nat \ {0}
      /\ Covered(s) = Cover(u) \cup Cover(f) /\ Covered(s) \subseteq 1 .. s.hp.top - 1
  BY Zenon DEF NodesOk, Covered
<1>2. with \subseteq Nat /\ kfree(s, ptr) = FreeAt(s, with)
  BY <1>1 DEF kfree
<1>3. CASE with = {}
  <2>1. kfree(s, ptr) = s /\ \A i \in DOMAIN s.hp.used_nodes : s.hp.used_nodes[i].ptr # ptr
    BY <1>2, <1>3, Zenon DEF FreeAt
  <2> QED
    BY <2>1 DEF Freed
<1>4. CASE with # {}
  <2> DEFINE i == First(with)
             v == Unlink(u, i)
             g == <<u[i]>> \o f
             t == WithUsed(WithFree(s, g), v)
  <2>1. i \in DOMAIN u /\ u[i].ptr = ptr
    BY <1>2, <1>4, LeastIndex, Zenon
  <2>2. kfree(s, ptr) = t
    BY <1>1, <1>2, <1>4, ZenonT(40) DEF FreeAt, WithUsed, WithFree, Shaped
  <2> HIDE DEF i, with
  <2>3. Dropped(u, i, v)
    BY <1>1, <2>1, RemoveIs, Zenon
  <2>4. /\ v \in Seq(NodeT) /\ Apart(v) /\ Cover(v) = Cover(u) \ Extent(u[i])
        /\ u[i] \in NodeT /\ Extent(u[i]) \subseteq Cover(u)
    BY <1>1, <2>1, <2>3, DropApart
  <2>5. Extent(u[i]) \cap Cover(f) = {}
    BY <1>1, <2>4, Zenon
  <2>6. g \in Seq(NodeT) /\ Cover(g) = Extent(u[i]) \cup Cover(f) /\ Apart(g)
    BY <1>1, <2>4, <2>5, ConsApart, ZenonT(40)
  <2>7. Lists(s, t, v, g) /\ t.hp.lost = s.hp.lost
    BY <1>1, BothListsAre
  <2> HIDE DEF v, g, t
  <2>8. /\ Shaped(t) /\ t.hp.used_nodes = v /\ t.hp.free_nodes = g /\ t.hp.top = s.hp.top
        /\ t.hp.panicked = s.hp.panicked /\ Covered(t) = Cover(v) \cup Cover(g)
    BY <2>7, Zenon DEF Lists, Covered
  <2>9. Covered(t) = Covered(s) /\ Cover(v) \cap Cover(g) = {}
    BY <1>1, <2>4, <2>5, <2>6, <2>8, Zenon
  <2>10. NodesOk(t)
    BY <1>1, <2>4, <2>6, <2>8, <2>9, Zenon DEF NodesOk
  <2>11. Accounts(t, {})
    BY <2>7, <2>8, <2>9, Zenon DEF Accounts
  <2> QED
    BY <2>1, <2>2, <2>3, <2>8, <2>10, <2>11, Zenon DEF Freed
<1> QED
  BY <1>3, <1>4, Zenon

(* At any time the blocks are apart and account for all that the heap has  *)
(* fetched, so long as the kernel has not panicked.                        *)
HeapInv == NodesOk(State) /\ Accounts(State, {})

LEMMA Becoming ==
  ASSUME NEW r, Becomes(r), NodesOk(r)
  PROVE  State' = r
BY Zenon DEF Becomes, NodesOk, Shaped, State

LEMMA StateIs ==
  State.hp = hp /\ State.mmap = mmap /\ State.held = held
BY DEF State

LEMMA HeapInitially == HeapInit => HeapInv
<1> SUFFICES ASSUME HeapInit
             PROVE  HeapInv
  OBVIOUS
<1>1. /\ hp = [used_nodes |-> << >>, free_nodes |-> << >>, top |-> 1, ranges |-> {},
               lost |-> {}, panicked |-> FALSE]
      /\ State = [mmap |-> mmap, held |-> held, hp |-> hp]
  BY DEF HeapInit, State
<1>2. /\ State.hp.used_nodes = << >> /\ State.hp.free_nodes = << >> /\ State.hp.top = 1
      /\ State.hp.lost = {} /\ State.hp.panicked = FALSE /\ Shaped(State)
  BY <1>1, Zenon DEF Shaped
<1>3. Cover(<< >>) = {} /\ Apart(<< >>) /\ << >> \in Seq(NodeT)
  BY DEF Cover, Apart
<1>4. Covered(State) = {}
  BY <1>2, <1>3 DEF Covered
<1>5. 1 .. 1 - 1 = {}
  OBVIOUS
<1>6. NodesOk(State)
  BY <1>2, <1>3, <1>4 DEF NodesOk
<1>7. Accounts(State, {})
  BY <1>2, <1>4, <1>5, Zenon DEF Accounts
<1> QED
  BY <1>6, <1>7, Zenon DEF HeapInv

LEMMA HeapStep ==
  ASSUME Counting
  PROVE  HeapInv /\ [HeapNext]_heapVars => HeapInv'
<1> SUFFICES ASSUME HeapInv, [HeapNext]_heapVars
             PROVE  HeapInv'
  OBVIOUS
<1>1. NodesOk(State) /\ Accounts(State, {}) /\ State.hp = hp
  BY StateIs, Zenon DEF HeapInv
<1>2. ASSUME NEW r, Becomes(r), NodesOk(r), Accounts(r, {})
      PROVE  HeapInv'
  BY <1>2, Becoming, Zenon DEF HeapInv
<1>3. ASSUME ~hp.panicked, NEW size \in Size \ {0}
      PROVE  /\ NodesOk(kmalloc(State, size)) /\ Accounts(kmalloc(State, size), {})
             /\ \A ptr : /\ NodesOk(kfree(kmalloc(State, size), ptr))
                         /\ Accounts(kfree(kmalloc(State, size), ptr), {})
  <2>1. Got(State, kmalloc(State, size), size)
    BY <1>1, <1>3, HeapAssumption, KmallocGets, Zenon
  <2>2. NodesOk(kmalloc(State, size)) /\ Accounts(kmalloc(State, size), {})
    BY <2>1, Zenon DEF Got
  <2>3. \A ptr : Freed(kmalloc(State, size), kfree(kmalloc(State, size), ptr), ptr)
    BY <2>2, KfreeFrees, Zenon
  <2> QED
    BY <2>2, <2>3, Zenon DEF Freed
<1>4. ASSUME hp' = hp
      PROVE  HeapInv'
  <2>1. /\ State'.hp = hp /\ State'.mmap = mmap' /\ State'.held = held'
        /\ State' = [mmap |-> State'.mmap, held |-> State'.held, hp |-> State'.hp]
    BY <1>4 DEF State
  <2>2. PICK t : t = State'
    BY Zenon
  <2>3. t.hp = State.hp /\ t = [mmap |-> t.mmap, held |-> t.held, hp |-> t.hp]
    BY <1>1, <2>1, <2>2, Zenon
  <2>4. NodesOk(t)
    BY <1>1, <2>3, Zenon DEF NodesOk, Shaped, Covered
  <2>5. Accounts(t, {})
    BY <1>1, <2>3, Zenon DEF Accounts, Covered
  <2> QED
    BY <2>2, <2>4, <2>5, Zenon DEF HeapInv
<1>5. CASE Malloc
  BY <1>2, <1>3, <1>5, Zenon DEF Malloc
<1>6. CASE Calloc
  <2>1. PICK size \in Size \ {0} : Cleared(kmalloc(State, size)) /\ ~hp.panicked
    BY <1>6, Zenon DEF Calloc, kcalloc
  <2> QED
    BY <1>2, <1>3, <2>1, Zenon DEF Cleared
<1>7. CASE Realloc
  <2>1. PICK b \in InUse, size \in Size \ {0} : Moved(kmalloc(State, size), b, size) /\ ~hp.panicked
    BY <1>7, Zenon DEF Realloc, krealloc
  <2> QED
    BY <1>2, <1>3, <2>1, Zenon DEF Moved
<1>8. CASE FreeBlock
  <2>1. PICK ptr : Becomes(kfree(State, ptr))
    BY <1>8, Zenon DEF FreeBlock
  <2>2. Freed(State, kfree(State, ptr), ptr)
    BY <1>1, KfreeFrees, Zenon
  <2> QED
    BY <1>2, <2>1, <2>2, Zenon DEF Freed
<1>9. CASE Fill
  BY <1>4, <1>9, Zenon DEF Fill
<1>10. CASE PageStep
  BY <1>4, <1>10 DEF PageStep
<1>11. CASE HeapHalted
  BY <1>4, <1>11 DEF HeapHalted, heapVars
<1>12. CASE UNCHANGED heapVars
  BY <1>4, <1>12, Zenon DEF heapVars
<1> QED
  BY <1>5, <1>6, <1>7, <1>8, <1>9, <1>10, <1>11, <1>12 DEF HeapNext

LEMMA HeapImplies == HeapInv => MemoryAccounted
<1> SUFFICES ASSUME HeapInv
             PROVE  MemoryAccounted
  BY Zenon
<1> DEFINE u == hp.used_nodes
           f == hp.free_nodes
<1>1. /\ u \in Seq(NodeT) /\ f \in Seq(NodeT) /\ Apart(u) /\ Apart(f) /\ Cover(u) \cap Cover(f) = {}
      /\ ~hp.panicked => 1 .. hp.top - 1 = hp.lost \cup (Cover(u) \cup Cover(f)) \cup {}
  BY StateIs, Zenon DEF HeapInv, NodesOk, Accounts, Covered
<1> HIDE DEF u, f
<1>2. Len(u) \in Nat /\ Len(f) \in Nat /\ DOMAIN u = 1 .. Len(u) /\ DOMAIN f = 1 .. Len(f)
  BY <1>1
<1>3. Blocks = u \o f
  BY Zenon DEF Blocks, u, f
<1>4. DOMAIN Blocks = 1 .. Len(u) + Len(f)
  BY <1>1, <1>3
<1>5. \A i \in DOMAIN Blocks : Blocks[i] = IF i <= Len(u) THEN u[i] ELSE f[i - Len(u)]
  BY <1>1, <1>3, <1>4
<1>6. \A i \in DOMAIN u : Extent(u[i]) \subseteq Cover(u)
  BY DEF Cover
<1>7. \A i \in DOMAIN f : Extent(f[i]) \subseteq Cover(f)
  BY DEF Cover
<1>8. \A i \in DOMAIN Blocks : \/ i \in DOMAIN u /\ Blocks[i] = u[i]
                               \/ i - Len(u) \in DOMAIN f /\ Blocks[i] = f[i - Len(u)] /\ i \notin DOMAIN u
  BY <1>2, <1>4, <1>5
<1>9. ASSUME NEW i \in DOMAIN Blocks, NEW j \in DOMAIN Blocks, i # j
      PROVE  Extent(Blocks[i]) \cap Extent(Blocks[j]) = {}
  <2>1. CASE i \in DOMAIN u /\ j \in DOMAIN u
    BY <1>1, <1>8, <1>9, <2>1, Zenon DEF Apart
  <2>2. CASE i \notin DOMAIN u /\ j \notin DOMAIN u
    <3>1. i - Len(u) # j - Len(u)
      BY <1>2, <1>4, <1>9
    <3> QED
      BY <1>1, <1>8, <2>2, <3>1 DEF Apart
  <2>3. CASE i \in DOMAIN u /\ j \notin DOMAIN u
    BY <1>1, <1>6, <1>7, <1>8, <2>3, Zenon
  <2>4. CASE i \notin DOMAIN u /\ j \in DOMAIN u
    BY <1>1, <1>6, <1>7, <1>8, <2>4, Zenon
  <2> QED
    BY <2>1, <2>2, <2>3, <2>4, Zenon
<1>10. UNION {Extent(Blocks[i]) : i \in DOMAIN Blocks} = Cover(u) \cup Cover(f)
  <2>1. ASSUME NEW i \in DOMAIN Blocks
        PROVE  Extent(Blocks[i]) \subseteq Cover(u) \cup Cover(f)
    BY <1>6, <1>7, <1>8, Zenon
  <2>2. ASSUME NEW x \in Cover(u)
        PROVE  \E i \in DOMAIN Blocks : x \in Extent(Blocks[i])
    <3>1. PICK i \in DOMAIN u : x \in Extent(u[i])
      BY Zenon DEF Cover
    <3> QED
      BY <1>2, <1>4, <1>5, <3>1
  <2>3. ASSUME NEW x \in Cover(f)
        PROVE  \E i \in DOMAIN Blocks : x \in Extent(Blocks[i])
    <3>1. PICK i \in DOMAIN f : x \in Extent(f[i])
      BY DEF Cover
    <3>2. i + Len(u) \in DOMAIN Blocks /\ ~(i + Len(u) <= Len(u)) /\ (i + Len(u)) - Len(u) = i
      BY <1>2, <1>4
    <3>3. Blocks[i + Len(u)] = f[i]
      BY <1>5, <3>2
    <3> QED
      BY <3>1, <3>2, <3>3
  <2> QED
    BY <2>1, <2>2, <2>3, Zenon
<1> QED
  BY <1>1, <1>9, <1>10 DEF MemoryAccounted
-----------------------------------------------------------------------------
(* The heap's pages are its own, and its addresses are as many as they     *)
(* have bytes.                                                             *)
Own(ranges) == UNION {Held(a) : a \in ranges}

PagesOk(m, h, ranges, top) ==
  /\ m \subseteq Available /\ ranges \subseteq h
  /\ \A a \in h : Held(a) \subseteq Available /\ Held(a) \cap m = {}
  /\ \A a, b \in h : a # b => Held(a) \cap Held(b) = {}
  /\ top = 1 + PAGE_SIZE * Cardinality(Own(ranges))

Paged(s) == Shaped(s) /\ PagesOk(s.mmap, s.held, s.hp.ranges, s.hp.top)

Memory == 1 .. PAGE_SIZE * Cardinality(Available)

(* With HeapInv, the addresses in use are all in the memory there is.      *)
AllocInv == HeapInv /\ Paged(State) /\ mem = [a \in Memory |-> mem[a]]

LEMMA AvailableFinite ==
  ASSUME Counting
  PROVE  IsFiniteSet(Available) /\ Cardinality(Available) \in Nat
<1>1. PICK p \in Available : \A q \in Available : q <= p
  BY MemoryAssumption, Zenon
<1>2. Available \subseteq 0 .. p /\ p \in Nat
  BY <1>1, MemoryAssumption
<1>3. IsFiniteSet(0 .. p)
  BY <1>2 DEF Counting, CountInterval
<1>4. IsFiniteSet(Available)
  BY <1>2, <1>3, Zenon DEF Counting, CountPart
<1> QED
  BY <1>4 DEF Counting, CountType

(* Pages that were free become the heap's.                                 *)
LEMMA PagesTaken ==
  ASSUME Counting, NEW m, NEW h, NEW ranges, NEW top, PagesOk(m, h, ranges, top), NEW start \in Nat, NEW num \in Nat \ {0},
         Pages(start, num) \subseteq m
  PROVE  PagesOk(m \ Pages(start, num), h \cup {[start |-> start, num |-> num]},
                 ranges \cup {[start |-> start, num |-> num]}, top + num * PAGE_SIZE)
<1> DEFINE new == [start |-> start, num |-> num]
           P == Pages(start, num)
           O == Own(ranges)
           size == num * PAGE_SIZE
<1>1. Held(new) = P
  BY DEF Held
<1>2. P = start .. start + num - 1
  BY Zenon DEF Pages
<1> HIDE DEF new, P
<1>3. /\ m \subseteq Available /\ ranges \subseteq h
      /\ \A a \in h : Held(a) \subseteq Available /\ Held(a) \cap m = {}
      /\ \A a, b \in h : a # b => Held(a) \cap Held(b) = {}
      /\ top = 1 + PAGE_SIZE * Cardinality(O)
  BY DEF PagesOk
<1>4. P \subseteq m
  BY DEF P
<1>5. /\ m \ P \subseteq Available /\ ranges \cup {new} \subseteq h \cup {new}
      /\ \A a \in h \cup {new} : Held(a) \subseteq Available /\ Held(a) \cap (m \ P) = {}
      /\ \A a, b \in h \cup {new} : a # b => Held(a) \cap Held(b) = {}
  BY <1>1, <1>3, <1>4, Zenon
<1>6. Own(ranges \cup {new}) = O \cup P
  BY <1>1, Zenon DEF Own
<1>7. O \subseteq Available /\ O \cap P = {}
  BY <1>3, <1>4, SMTT(30), ZenonT(20) DEF Own
<1>8. IsFiniteSet(O) /\ Cardinality(O) \in Nat
  BY <1>7, AvailableFinite DEF Counting, CountPart, CountType
<1>9. IsFiniteSet(P) /\ Cardinality(P) = num
  <2>1. start \in Int /\ start + num - 1 \in Int /\ ~(start > start + num - 1)
    OBVIOUS
  <2>2. IsFiniteSet(P) /\ Cardinality(P) = (start + num - 1) - start + 1
    BY <1>2, <2>1 DEF Counting, CountInterval
  <2>3. (start + num - 1) - start + 1 = num
    OBVIOUS
  <2> QED
    BY <2>2, <2>3
<1>10. Cardinality(O \cup P) = Cardinality(O) + num
  <2>1. Cardinality(O \cup P) = Cardinality(O) + Cardinality(P) - Cardinality(O \cap P)
    BY <1>8, <1>9, Zenon DEF Counting, CountUnion
  <2>2. Cardinality(O \cap P) = 0
    BY <1>7, Zenon DEF Counting, CountEmpty
  <2> QED
    BY <1>8, <1>9, <2>1, <2>2
<1> HIDE DEF O
<1>11. top + size = 1 + PAGE_SIZE * (Cardinality(O) + num)
  <2>1. PAGE_SIZE \in Nat /\ Cardinality(O) \in Nat /\ num \in Nat
    BY <1>8, MemoryAssumption
  <2>2. \A x, y, z \in Nat : z * (x + y) = z * x + y * z /\ z * x \in Nat /\ y * z \in Nat
    BY Z3
  <2>3. PAGE_SIZE * (Cardinality(O) + num) = PAGE_SIZE * Cardinality(O) + size
        /\ PAGE_SIZE * Cardinality(O) \in Nat /\ size \in Nat
    BY <2>1, <2>2, Zenon
  <2> QED
    BY <1>3, <2>3
<1>12. top + size = 1 + PAGE_SIZE * Cardinality(Own(ranges \cup {new}))
  BY <1>6, <1>10, <1>11, Zenon
<1>13. PagesOk(m \ P, h \cup {new}, ranges \cup {new}, top + size)
  BY <1>5, <1>12 DEF PagesOk
<1> QED
  BY <1>13, Zenon DEF new, P

LEMMA MapRangePages ==
  ASSUME NEW s, Shaped(s), NEW start, NEW num
  PROVE  /\ start # NO_PAGE =>
              /\ MapRange(s, start, num).mmap = s.mmap \ Pages(start, num)
              /\ MapRange(s, start, num).held = s.held \cup {[start |-> start, num |-> num]}
              /\ MapRange(s, start, num).hp.ranges = s.hp.ranges \cup {[start |-> start, num |-> num]}
              /\ MapRange(s, start, num).hp.top = s.hp.top + num * PAGE_SIZE
         /\ start = NO_PAGE =>
              /\ MapRange(s, start, num).mmap = s.mmap /\ MapRange(s, start, num).held = s.held
              /\ MapRange(s, start, num).hp.ranges = s.hp.ranges
              /\ MapRange(s, start, num).hp.top = s.hp.top
BY DEF MapRange, Shaped

LEMMA FetchedPages ==
  ASSUME Counting, EndsOnWord, NEW s, Paged(s), NEW num \in Nat \ {0}
  PROVE  Paged(km_alloc_range(s, num))
<1> DEFINE f == find(s.mmap, num, dma_end, mem_end)
           r == MapRange(s, f, num)
<1>1. km_alloc_range(s, num) = r /\ Shaped(s) /\ PagesOk(s.mmap, s.held, s.hp.ranges, s.hp.top)
  BY DEF km_alloc_range, Paged
<1>2. f = NO_PAGE \/ (f \in dma_end .. mem_end - num /\ Pages(f, num) \subseteq s.mmap)
  <2>1. dma_end \in Nat /\ mem_end \in Nat /\ dma_end <= mem_end
    BY MemEnd
  <2> QED
    BY <2>1, FindExact, Zenon DEF EndsOnWord
<1>3. f \in dma_end .. mem_end - num => f \in Nat
  BY MemEnd
<1> HIDE DEF f
<1>4. Shaped(r)
  BY <1>1, MapRangeIs, ZenonT(40)
<1>5. CASE f = NO_PAGE
  BY <1>1, <1>4, <1>5, MapRangePages DEF Paged
<1>6. CASE f # NO_PAGE
  <2>1. PagesOk(s.mmap \ Pages(f, num), s.held \cup {[start |-> f, num |-> num]},
                s.hp.ranges \cup {[start |-> f, num |-> num]}, s.hp.top + num * PAGE_SIZE)
    BY <1>1, <1>2, <1>3, <1>6, PagesTaken, Zenon
  <2> QED
    <3>1. /\ r.mmap = s.mmap \ Pages(f, num) /\ r.held = s.held \cup {[start |-> f, num |-> num]}
          /\ r.hp.ranges = s.hp.ranges \cup {[start |-> f, num |-> num]}
          /\ r.hp.top = s.hp.top + num * PAGE_SIZE
      BY ONLY <1>1, <1>6, MapRangePages
    <3> HIDE DEF r
    <3> QED
      BY <1>1, <1>4, <2>1, <3>1, ZenonT(40) DEF Paged
<1> QED
  BY <1>5, <1>6, Zenon

(* Nothing else in kmalloc.c takes pages.                                  *)
LEMMA LosePages ==
  ASSUME NEW s, Paged(s), NEW b
  PROVE  Paged(Lose(s, b))
<1>1. /\ Shaped(Lose(s, b)) /\ Lose(s, b).mmap = s.mmap /\ Lose(s, b).held = s.held
      /\ Lose(s, b).hp.ranges = s.hp.ranges /\ Lose(s, b).hp.top = s.hp.top
  BY LoseIs DEF Paged, Lists
<1> QED
  BY <1>1, ZenonT(40) DEF Paged

LEMMA ListPages ==
  ASSUME NEW s, Paged(s), NEW u, NEW f
  PROVE  Paged(WithFree(s, f)) /\ Paged(WithUsed(s, u)) /\ Paged(WithUsed(WithFree(s, f), u))
<1>1. ASSUME NEW t, Paged(t) PROVE Paged(WithFree(t, f)) /\ Paged(WithUsed(t, u))
  <2>1. /\ Shaped(WithFree(t, f)) /\ WithFree(t, f).mmap = t.mmap /\ WithFree(t, f).held = t.held
        /\ WithFree(t, f).hp.ranges = t.hp.ranges /\ WithFree(t, f).hp.top = t.hp.top
    BY <1>1 DEF Paged, Shaped, WithFree
  <2>2. /\ Shaped(WithUsed(t, u)) /\ WithUsed(t, u).mmap = t.mmap /\ WithUsed(t, u).held = t.held
        /\ WithUsed(t, u).hp.ranges = t.hp.ranges /\ WithUsed(t, u).hp.top = t.hp.top
    BY <1>1 DEF Paged, Shaped, WithUsed
  <2> QED
    BY <1>1, <2>1, <2>2 DEF Paged
<1> QED
  BY <1>1, Zenon

LEMMA AppendPages ==
  ASSUME NEW s, Paged(s), NEW is_free \in BOOLEAN, NEW b
  PROVE  Paged(append_node(s, is_free, b))
<1> DEFINE f == <<b>> \o s.hp.free_nodes
           u == <<b>> \o s.hp.used_nodes
<1>1. \/ append_node(s, is_free, b) = s
      \/ append_node(s, is_free, b) = WithFree(s, f)
      \/ append_node(s, is_free, b) = WithUsed(s, u)
  BY Zenon DEF append_node, WithFree, WithUsed, Paged, Shaped
<1> QED
  BY <1>1, ListPages, Zenon

LEMMA CreatePages ==
  ASSUME Counting, EndsOnWord, NEW s, Paged(s), NEW size, NEW ptr, NEW is_free \in BOOLEAN
  PROVE  Paged(create_node(s, size, ptr, is_free))
<1> DEFINE f == s.hp.free_nodes
           b == Block(ptr, size)
           t == IF f = << >> THEN Lose(km_alloc_range(s, 1), Block(s.hp.top, PAGE_SIZE))
                ELSE Lose(WithFree(s, Tail(f)), Head(f))
<1>1. create_node(s, size, ptr, is_free) = append_node(t, is_free, b)
  BY Zenon DEF create_node, WithFree
<1>2. Paged(km_alloc_range(s, 1)) /\ Paged(WithFree(s, Tail(f)))
  BY FetchedPages, ListPages
<1>3. Paged(t)
  BY <1>2, LosePages
<1> HIDE DEF t, b
<1> QED
  BY <1>1, <1>3, AppendPages

LEMMA NodePages ==
  ASSUME Counting, EndsOnWord, NEW s, Paged(s), NEW size, NEW ptr
  PROVE  Paged(RestNode(s, size, ptr)) /\ Paged(UsedNode(s, size, ptr))
BY CreatePages, Zenon DEF RestNode, UsedNode

LEMMA KmallocPages ==
  ASSUME Counting, EndsOnWord, NEW s, Paged(s), NEW size \in Nat \ {0}
  PROVE  Paged(kmalloc(s, size))
<1>1. Paged(MoreMemory(s, size))
  <2>1. num_pages(size) \in Nat \ {0}
    BY PagesFor, Zenon
  <2>2. Paged(km_alloc_range(s, num_pages(size)))
    BY <2>1, FetchedPages, Zenon
  <2>3. Paged(UsedNode(km_alloc_range(s, num_pages(size)), size, s.hp.top))
    BY <2>2, NodePages, Zenon
  <2> QED
    BY <2>3, NodePages, Zenon DEF MoreMemory
<1>2. ASSUME NEW i, NEW b PROVE Paged(FromFree(s, i, b, size))
  <2> DEFINE f == Unlink(s.hp.free_nodes, i)
             u == <<Block(b.ptr, size)>> \o s.hp.used_nodes
  <2>1. Paged(WithUsed(WithFree(s, f), u))
    BY ListPages
  <2>2. FromFree(s, i, b, size) = RestNode(WithUsed(WithFree(s, f), u), b.size - size, b.ptr + size)
    BY Zenon DEF FromFree, WithUsed, WithFree
  <2> HIDE DEF f, u
  <2> QED
    BY <2>1, <2>2, NodePages, Zenon
<1> QED
  BY <1>1, <1>2, Zenon DEF kmalloc, AllocAt

LEMMA KfreePages ==
  ASSUME NEW s, Paged(s), NEW ptr
  PROVE  Paged(kfree(s, ptr))
<1> DEFINE with == {i \in DOMAIN s.hp.used_nodes : s.hp.used_nodes[i].ptr = ptr}
           f == <<s.hp.used_nodes[First(with)]>> \o s.hp.free_nodes
           u == Unlink(s.hp.used_nodes, First(with))
<1>1. kfree(s, ptr) = IF with = {} THEN s ELSE WithUsed(WithFree(s, f), u)
  BY Zenon DEF kfree, FreeAt, WithUsed, WithFree, Paged, Shaped
<1> HIDE DEF with, f, u
<1> QED
  BY <1>1, ListPages

LEMMA AllocInitially ==
  ASSUME Counting
  PROVE  HeapInit => AllocInv
<1> SUFFICES ASSUME HeapInit
             PROVE  AllocInv
  OBVIOUS
<1>1. HeapInv
  BY HeapInitially
<1>2. mem = [a \in Memory |-> mem[a]]
  <2>1. mem = [a \in Memory |-> 0]
    BY Zenon DEF HeapInit, Memory
  <2> HIDE DEF Memory
  <2> QED
    BY <2>1, Zenon
<1>3. hp.ranges = {} /\ hp.top = 1 /\ held = {} /\ mmap \subseteq Available
  BY Zenon DEF HeapInit, init_mm
<1>4. Cardinality(Own({})) = 0
  <2>1. Own({}) = {}
    BY Zenon DEF Own
  <2> QED
    BY <2>1 DEF Counting, CountEmpty
<1>5. 1 = 1 + PAGE_SIZE * Cardinality(Own({}))
  BY <1>4, MemoryAssumption
<1>6. PagesOk(mmap, held, hp.ranges, hp.top)
  BY <1>3, <1>5, Zenon DEF PagesOk
<1>7. Shaped(State)
  BY <1>1, Zenon DEF HeapInv, NodesOk
<1> QED
  BY <1>1, <1>2, <1>6, <1>7, StateIs, Zenon DEF AllocInv, Paged

(* The rest of the kernel does not touch the heap's pages.                 *)
LEMMA OtherPages ==
  ASSUME Counting, EndsOnWord, PagesOk(mmap, held, hp.ranges, hp.top), PageStep
  PROVE  PagesOk(mmap', held', hp.ranges, hp.top)
<1>1. /\ mmap \subseteq Available /\ hp.ranges \subseteq held
      /\ \A a \in held : Held(a) \subseteq Available /\ Held(a) \cap mmap = {}
      /\ \A a, b \in held : a # b => Held(a) \cap Held(b) = {}
      /\ hp.top = 1 + PAGE_SIZE * Cardinality(Own(hp.ranges))
  BY Zenon DEF PagesOk
<1>2. CASE AllocPage \/ AllocRange \/ AllocPhys \/ AllocDma
  <2>1. CASE Refuse
    BY <1>1, <2>1, Zenon DEF Refuse, vars, PagesOk
  <2>2. ASSUME NEW start, NEW num, Pages(start, num) \subseteq mmap, Give(start, num)
        PROVE  PagesOk(mmap', held', hp.ranges, hp.top)
    <3> DEFINE new == [start |-> start, num |-> num]
    <3>1. Held(new) = Pages(start, num)
      BY Zenon DEF Held
    <3>2. mmap' = mmap \ Held(new) /\ held' = held \cup {new} /\ Held(new) \subseteq mmap
      BY <2>2, <3>1 DEF Give
    <3> HIDE DEF new
    <3>3. /\ mmap' \subseteq Available /\ hp.ranges \subseteq held'
          /\ \A a \in held' : Held(a) \subseteq Available /\ Held(a) \cap mmap' = {}
          /\ \A a, b \in held' : a # b => Held(a) \cap Held(b) = {}
      BY <1>1, <3>2, Zenon
    <3> QED
      BY <1>1, <3>3, Zenon DEF PagesOk
  <2> QED
    BY <1>2, <2>1, <2>2, FreeGiven, Zenon
<1>3. ASSUME NEW a \in held \ hp.ranges, mm_free(a)
      PROVE  PagesOk(mmap', held', hp.ranges, hp.top)
  <2>1. mmap' = mmap \cup Held(a) /\ held' = held \ {a}
    BY <1>3 DEF mm_free, Held
  <2>2. /\ mmap' \subseteq Available /\ hp.ranges \subseteq held'
        /\ \A b \in held' : Held(b) \subseteq Available /\ Held(b) \cap mmap' = {}
        /\ \A b, c \in held' : b # c => Held(b) \cap Held(c) = {}
    BY <1>1, <1>3, <2>1, Zenon
  <2> QED
    BY <1>1, <2>2, Zenon DEF PagesOk
<1> QED
  BY <1>2, <1>3, Zenon DEF PageStep

LEMMA AllocStep == ASSUME Counting, EndsOnWord, AllocInv, [HeapNext]_heapVars PROVE AllocInv'
<1>1. HeapInv'
  BY HeapStep, Zenon DEF AllocInv
<1>2. Paged(State) /\ NodesOk(State) /\ Accounts(State, {}) /\ State.hp = hp
  BY StateIs DEF AllocInv, HeapInv
<1>3. DOMAIN mem = Memory /\ mem = [a \in Memory |-> mem[a]]
  BY Zenon DEF AllocInv
<1>4. ASSUME NEW b, NEW v PROVE memset(b, v) = [a \in Memory |-> memset(b, v)[a]]
  BY <1>3, Zenon DEF memset
<1>5. ASSUME NEW b, NEW c, NEW n PROVE memcpy(b, c, n) = [a \in Memory |-> memcpy(b, c, n)[a]]
  BY <1>3, Zenon DEF memcpy
<1>6. mem' = [a \in Memory |-> mem'[a]]
  <2>1. CASE UNCHANGED mem
    <3>1. PICK x : x = mem
      BY Zenon
    <3>2. mem' = x /\ x = [a \in Memory |-> x[a]]
      BY <1>3, <2>1, <3>1, Zenon
    <3> QED
      BY <3>2
  <2>2. ASSUME NEW b, NEW v, mem' = memset(b, v) PROVE mem' = [a \in Memory |-> mem'[a]]
    BY <1>4, <2>2, Zenon
  <2>3. ASSUME NEW b, NEW c, NEW n, mem' = memcpy(b, c, n) PROVE mem' = [a \in Memory |-> mem'[a]]
    BY <1>5, <2>3
  <2>4. \/ UNCHANGED mem
        \/ \E b, v : mem' = memset(b, v)
        \/ \E b, c, n : mem' = memcpy(b, c, n)
    <3>1. CASE Malloc \/ FreeBlock \/ PageStep \/ HeapHalted \/ UNCHANGED heapVars
      BY <3>1, Zenon DEF Malloc, FreeBlock, PageStep, HeapHalted, heapVars
    <3>2. CASE Calloc
      BY <3>2, Zenon DEF Calloc, kcalloc, Cleared
    <3>3. CASE Realloc
      <4>1. PICK b, size : Moved(kmalloc(State, size), b, size)
        BY <3>3, Zenon DEF Realloc, krealloc
      <4> QED
        BY <4>1, Zenon DEF Moved
    <3>4. CASE Fill
      BY <3>4, Zenon DEF Fill
    <3> QED
      BY <3>1, <3>2, <3>3, <3>4, Zenon DEF HeapNext
  <2> QED
    BY <2>1, <2>2, <2>3, <2>4
<1>7. Paged(State)'
  <2>1. ASSUME NEW r, Becomes(r), Paged(r) PROVE Paged(State)'
    <3>1. State' = r
      BY <2>1, Zenon DEF Becomes, Paged, Shaped, State
    <3> QED
      BY <2>1, <3>1, Zenon
  <2>2. ASSUME NEW size \in Size \ {0}
        PROVE  Paged(kmalloc(State, size)) /\ \A ptr : Paged(kfree(kmalloc(State, size), ptr))
    BY <1>2, <2>2, HeapAssumption, KmallocPages, KfreePages, Zenon
  <2>3. ASSUME hp' = hp, PagesOk(mmap', held', hp.ranges, hp.top) PROVE Paged(State)'
    <3>1. State'.mmap = mmap' /\ State'.held = held' /\ State'.hp = hp
      BY <2>3, Zenon DEF State
    <3>2. Shaped(State)'
      BY <1>1, Zenon DEF HeapInv, NodesOk
    <3> QED
      BY <2>3, <3>1, <3>2, Zenon DEF Paged
  <2>4. PagesOk(mmap, held, hp.ranges, hp.top)
    BY <1>2, StateIs, Zenon DEF Paged
  <2>5. CASE Malloc
    BY <2>1, <2>2, <2>5, Zenon DEF Malloc
  <2>6. CASE Calloc
    BY <2>1, <2>2, <2>6, Zenon DEF Calloc, kcalloc, Cleared
  <2>7. CASE Realloc
    <3>1. PICK b \in InUse, size \in Size \ {0} : Moved(kmalloc(State, size), b, size)
      BY <2>7, Zenon DEF Realloc, krealloc
    <3> QED
      BY <2>1, <2>2, <3>1, Zenon DEF Moved
  <2>8. CASE FreeBlock
    BY <1>2, <2>1, <2>8, KfreePages, Zenon DEF FreeBlock
  <2>9. CASE Fill \/ HeapHalted \/ UNCHANGED heapVars
    BY <2>3, <2>4, <2>9, Zenon DEF Fill, HeapHalted, heapVars
  <2>10. CASE PageStep
    BY <2>3, <2>4, <2>10, OtherPages, Zenon DEF PageStep
  <2> QED
    BY <2>5, <2>6, <2>7, <2>8, <2>9, <2>10 DEF HeapNext
<1> QED
  BY <1>1, <1>6, <1>7 DEF AllocInv
-----------------------------------------------------------------------------
(* The refinement is about the blocks in use as a set.                     *)
Uses(q) == {q[i] : i \in DOMAIN q}

Separate(S) == S \subseteq NodeT /\ \A b, c \in S : b # c => Extent(b) \cap Extent(c) = {}

Addresses(S) == {b.ptr : b \in S}

(* What is in a block.                                                     *)
Image(b, m) == [a \in Extent(b) |-> m[a]]

ContentsOf(S, m) ==
  [p \in {b.ptr : b \in S} |-> LET b == CHOOSE c \in S : c.ptr = p IN [a \in Extent(b) |-> m[a]]]

LEMMA UsesSeparate ==
  ASSUME NEW q \in Seq(NodeT), Apart(q)
  PROVE  Separate(Uses(q))
<1>1. Uses(q) \subseteq NodeT
  BY DEF Uses
<1>2. ASSUME NEW b \in Uses(q), NEW c \in Uses(q), b # c PROVE Extent(b) \cap Extent(c) = {}
  <2>1. PICK i \in DOMAIN q : b = q[i]
    BY Zenon DEF Uses
  <2>2. PICK j \in DOMAIN q : c = q[j]
    BY Zenon DEF Uses
  <2> QED
    BY <1>2, <2>1, <2>2, Zenon DEF Apart
<1> QED
  BY <1>1, <1>2, Zenon DEF Separate

LEMMA UsesCons ==
  ASSUME NEW q \in Seq(NodeT), NEW b \in NodeT
  PROVE  Uses(<<b>> \o q) = Uses(q) \cup {b} /\ Head(<<b>> \o q) = b
<1> DEFINE r == <<b>> \o q
<1>1. /\ r[1] = b /\ \A i \in DOMAIN q : r[i + 1] = q[i] /\ Head(r) = b
      /\ DOMAIN r = 1 .. Len(q) + 1 /\ DOMAIN q = 1 .. Len(q) /\ Len(q) \in Nat /\ Head(r) = b
  BY ConsIs
<1> HIDE DEF r
<1>2. \A i \in DOMAIN q : i + 1 \in DOMAIN r /\ q[i] = r[i + 1]
  BY <1>1
<1>3. \A k \in DOMAIN r : k = 1 \/ (k - 1 \in DOMAIN q /\ r[k] = q[k - 1])
  <2> SUFFICES ASSUME NEW k \in DOMAIN r, k # 1 PROVE k - 1 \in DOMAIN q /\ r[k] = q[k - 1]
    OBVIOUS
  <2>1. k - 1 \in DOMAIN q /\ (k - 1) + 1 = k
    BY <1>1
  <2> QED
    BY <1>1, <2>1, Zenon
<1>4. 1 \in DOMAIN r
  BY <1>1
<1>5. Uses(r) = Uses(q) \cup {b}
  BY <1>1, <1>2, <1>3, <1>4 DEF Uses
<1> QED
  BY <1>1, <1>5, Zenon DEF r

LEMMA UsesDrop ==
  ASSUME NEW q \in Seq(NodeT), Apart(q), NEW i \in DOMAIN q, NEW r, Dropped(q, i, r)
  PROVE  Uses(r) = Uses(q) \ {q[i]}
<1>1. /\ DOMAIN q = 1 .. Len(q) /\ Len(q) \in Nat /\ i \in 1 .. Len(q)
      /\ DOMAIN r = 1 .. Len(q) - 1 /\ \A j \in DOMAIN r : r[j] = IF j < i THEN q[j] ELSE q[j + 1]
  BY DEF Dropped
<1>2. \A j \in DOMAIN q : j # i => q[j] # q[i]
  <2> SUFFICES ASSUME NEW j \in DOMAIN q, j # i PROVE q[j] # q[i]
    BY Zenon
  <2>1. Extent(q[j]) \cap Extent(q[i]) = {}
    BY Zenon DEF Apart
  <2>2. q[i] \in NodeT
    BY <1>1
  <2>3. q[i].ptr \in Extent(q[i])
    BY <2>2, NodeExtent, Zenon
  <2> QED
    BY <2>1, <2>3, Zenon
<1>3. \A j \in DOMAIN r : \E k \in DOMAIN q : k # i /\ r[j] = q[k]
  <2> SUFFICES ASSUME NEW j \in DOMAIN r PROVE \E k \in DOMAIN q : k # i /\ r[j] = q[k]
    BY Zenon
  <2>1. CASE j < i
    <3>1. j \in DOMAIN q /\ j # i
      BY <1>1, <2>1
    <3> QED
      BY <1>1, <2>1, <3>1, Zenon
  <2>2. CASE ~(j < i)
    <3>1. j + 1 \in DOMAIN q /\ j + 1 # i
      BY <1>1, <2>2
    <3> QED
      BY <1>1, <2>2, <3>1, Zenon
  <2> QED
    BY <2>1, <2>2, Zenon
<1>4. \A k \in DOMAIN q : k # i => \E j \in DOMAIN r : r[j] = q[k]
  <2> SUFFICES ASSUME NEW k \in DOMAIN q, k # i PROVE \E j \in DOMAIN r : r[j] = q[k]
    BY Zenon
  <2>1. CASE k < i
    <3>1. k \in DOMAIN r
      BY <1>1, <2>1
    <3> QED
      BY <1>1, <2>1, <3>1, Zenon
  <2>2. CASE ~(k < i)
    <3>1. k - 1 \in DOMAIN r /\ ~(k - 1 < i) /\ (k - 1) + 1 = k
      BY <1>1, <2>2
    <3> QED
      BY <1>1, <3>1, Zenon
  <2> QED
    BY <2>1, <2>2, Zenon
<1> QED
  BY <1>2, <1>3, <1>4 DEF Uses

(* A block in use is known by its address.                                 *)
LEMMA ContentsAt ==
  ASSUME NEW S, Separate(S), NEW m
  PROVE  /\ DOMAIN ContentsOf(S, m) = Addresses(S)
         /\ \A b, c \in S : b.ptr = c.ptr => b = c
         /\ \A b \in S : ContentsOf(S, m)[b.ptr] = Image(b, m)
         /\ \A b \in S : DOMAIN ContentsOf(S, m)[b.ptr] = Extent(b)
<1>1. ASSUME NEW b \in S, NEW c \in S, b.ptr = c.ptr PROVE b = c
  <2>1. b.ptr \in Extent(b) /\ c.ptr \in Extent(c)
    BY NodeExtent DEF Separate
  <2> QED
    BY <1>1, <2>1, Zenon DEF Separate
<1>2. ASSUME NEW b \in S PROVE ContentsOf(S, m)[b.ptr] = Image(b, m)
  <2> DEFINE x == CHOOSE c \in S : c.ptr = b.ptr
  <2>1. x \in S /\ x.ptr = b.ptr
    BY Zenon
  <2>2. x = b
    BY <1>1, <2>1
  <2>3. ContentsOf(S, m)[b.ptr] = Image(x, m)
    BY Zenon DEF ContentsOf, Image
  <2> QED
    BY <2>2, <2>3, Zenon
<1>3. DOMAIN ContentsOf(S, m) = Addresses(S)
  BY DEF ContentsOf, Addresses
<1>4. \A b \in S : DOMAIN ContentsOf(S, m)[b.ptr] = Extent(b)
  BY <1>2, Zenon DEF Image
<1> QED
  BY <1>1, <1>2, <1>3, <1>4, Zenon

LEMMA BlockContents ==
  ASSUME NEW S, Separate(S), NEW m, NEW b \in S
  PROVE  ContentsOf(S, m)[b.ptr] = Image(b, m)
BY ContentsAt, Zenon

LEMMA ContentsWith ==
  ASSUME NEW S, NEW b, Separate(S \cup {b}), NEW m, NEW n,
         \A c \in S : c # b => \A a \in Extent(c) : n[a] = m[a]
  PROVE  ContentsOf(S \cup {b}, n) =
           Promise!With(ContentsOf(S, m), b.ptr, ContentsOf(S \cup {b}, n)[b.ptr])
<1> DEFINE T == S \cup {b}
           x == ContentsOf(T, n)
           y == ContentsOf(S, m)
           w == Promise!With(y, b.ptr, x[b.ptr])
<1>1. Separate(S) /\ Separate(T)
  BY Zenon DEF Separate
<1>2. DOMAIN x = Addresses(T) /\ DOMAIN y = Addresses(S)
  BY <1>1, ContentsAt, Zenon
<1>3. w = [q \in DOMAIN y \cup {b.ptr} |-> IF q = b.ptr THEN x[b.ptr] ELSE y[q]]
  BY DEF Promise!With
<1>4. DOMAIN x = DOMAIN y \cup {b.ptr}
  BY <1>2, Zenon DEF Addresses
<1>5. ASSUME NEW c \in T, c.ptr # b.ptr PROVE x[c.ptr] = y[c.ptr]
  <2>1. c \in S /\ c # b
    BY <1>5
  <2>2. x[c.ptr] = Image(c, n) /\ y[c.ptr] = Image(c, m)
    <3>1. x[c.ptr] = Image(c, n)
      BY <1>1, <1>5, BlockContents, Zenon
    <3>2. y[c.ptr] = Image(c, m)
      BY <1>1, <2>1, BlockContents, Zenon
    <3> QED
      BY <3>1, <3>2, Zenon
  <2>3. Image(c, n) = Image(c, m)
    BY <2>1, Zenon DEF Image
  <2> QED
    BY <2>2, <2>3, Zenon
<1>6. x = [q \in DOMAIN x |-> x[q]]
  BY Zenon DEF ContentsOf
<1> HIDE DEF x, y, w
<1>7. \A q \in DOMAIN x : x[q] = IF q = b.ptr THEN x[b.ptr] ELSE y[q]
  BY <1>2, <1>5 DEF Addresses
<1>8. x = w
  BY <1>3, <1>4, <1>6, <1>7
<1> QED
  BY <1>8, Zenon DEF x, y, w

LEMMA ContentsWithout ==
  ASSUME NEW S, Separate(S), NEW b \in S, NEW m
  PROVE  ContentsOf(S \ {b}, m) = Promise!Without(ContentsOf(S, m), b.ptr)
<1> DEFINE T == S \ {b}
           x == ContentsOf(T, m)
           y == ContentsOf(S, m)
           w == Promise!Without(y, b.ptr)
<1>1. Separate(T)
  BY Zenon DEF Separate
<1>2. DOMAIN x = Addresses(T) /\ DOMAIN y = Addresses(S) /\ \A c \in S : c.ptr = b.ptr => c = b
  BY <1>1, ContentsAt, Zenon
<1>3. w = [q \in DOMAIN y \ {b.ptr} |-> y[q]]
  BY Zenon DEF Promise!Without
<1>4. DOMAIN x = DOMAIN y \ {b.ptr}
  BY <1>2, Zenon DEF Addresses
<1>5. ASSUME NEW c \in T PROVE x[c.ptr] = y[c.ptr]
  <2>1. x[c.ptr] = Image(c, m)
    BY <1>1, BlockContents, Zenon
  <2>2. y[c.ptr] = Image(c, m)
    BY BlockContents, Zenon
  <2> QED
    BY <2>1, <2>2, Zenon
<1>6. x = [q \in DOMAIN x |-> x[q]]
  BY Zenon DEF ContentsOf
<1> HIDE DEF x, y, w
<1>7. \A q \in DOMAIN x : x[q] = y[q]
  BY <1>2, <1>5, Zenon DEF Addresses
<1>8. x = w
  BY <1>3, <1>4, <1>6, <1>7, Zenon
<1> QED
  BY <1>8, Zenon DEF x, y, w

LEMMA OwnFits ==
  ASSUME Counting, NEW m, NEW h, NEW ranges, NEW top, PagesOk(m, h, ranges, top)
  PROVE  top \in Nat /\ top - 1 <= PAGE_SIZE * Cardinality(Available)
<1> DEFINE o == Cardinality(Own(ranges))
           n == Cardinality(Available)
<1>1. Own(ranges) \subseteq Available /\ top = 1 + PAGE_SIZE * o
  BY Zenon DEF PagesOk, Own
<1>2. o \in Nat /\ n \in Nat /\ o <= n
  BY <1>1, AvailableFinite, Zenon DEF Counting, CountPart, CountType
<1>3. PAGE_SIZE \in Nat
  BY MemoryAssumption, Zenon
<1> HIDE DEF o, n
<1>4. \A x, y, z \in Nat : y <= z => x * y <= x * z /\ x * y \in Nat /\ x * z \in Nat
  BY Z3
<1>5. PAGE_SIZE * o <= PAGE_SIZE * n /\ PAGE_SIZE * o \in Nat /\ PAGE_SIZE * n \in Nat
  BY <1>2, <1>3, <1>4, Zenon
<1> QED
  BY <1>1, <1>5 DEF n

LEMMA UsedFits ==
  ASSUME Counting, NEW s, NodesOk(s), Paged(s)
  PROVE  \A b \in Uses(s.hp.used_nodes) : Extent(b) \subseteq Memory
<1>1. s.hp.top \in Nat /\ s.hp.top - 1 <= PAGE_SIZE * Cardinality(Available)
  BY OwnFits, Zenon DEF Paged
<1>2. PAGE_SIZE * Cardinality(Available) \in Nat
  BY AvailableFinite, MemoryAssumption
<1>3. 1 .. s.hp.top - 1 \subseteq Memory
  BY <1>1, <1>2 DEF Memory
<1>4. Cover(s.hp.used_nodes) \subseteq 1 .. s.hp.top - 1
  BY Zenon DEF NodesOk, Covered
<1>5. ASSUME NEW b \in Uses(s.hp.used_nodes) PROVE Extent(b) \subseteq Cover(s.hp.used_nodes)
  BY Zenon DEF Uses, Cover
<1> QED
  BY <1>3, <1>4, <1>5, Zenon

LEMMA InUseOk ==
  ASSUME Counting, AllocInv
  PROVE  /\ InUse = Uses(hp.used_nodes) /\ Separate(InUse) /\ \A b \in InUse : Extent(b) \subseteq Memory
         /\ Contents = ContentsOf(InUse, mem)
<1>1. NodesOk(State) /\ State.hp = hp /\ State.mmap = mmap /\ State.held = held /\ Paged(State)
  BY StateIs, Zenon DEF AllocInv, HeapInv
<1>2. InUse = Uses(hp.used_nodes)
  BY Zenon DEF InUse, Uses
<1>3. Separate(InUse)
  BY <1>1, <1>2, UsesSeparate, Zenon DEF NodesOk
<1>8. \A b \in InUse : Extent(b) \subseteq Memory
  BY <1>1, <1>2, UsedFits, ZenonT(40)
<1>9. Contents = ContentsOf(InUse, mem)
  BY DEF Contents, ContentsOf
<1> QED
  BY <1>2, <1>3, <1>8, <1>9, Zenon

LEMMA GotUses ==
  ASSUME NEW s, NodesOk(s), NEW r, NEW size \in Nat \ {0}, Got(s, r, size)
  PROVE  \/ r.hp.panicked /\ Uses(r.hp.used_nodes) = Uses(s.hp.used_nodes)
         \/ \E b \in NodeT :
              /\ b = Block(b.ptr, size) /\ Head(r.hp.used_nodes) = b
              /\ Uses(r.hp.used_nodes) = Uses(s.hp.used_nodes) \cup {b}
              /\ \A c \in Uses(s.hp.used_nodes) : Extent(c) \cap Extent(b) = {}
<1> DEFINE u == s.hp.used_nodes
           v == r.hp.used_nodes
<1>1. CASE r.hp.panicked /\ v = u
  BY <1>1, Zenon
<1>2. ASSUME NEW ptr \in Nat \ {0}, v = <<Block(ptr, size)>> \o u
      PROVE  \E b \in NodeT : /\ b = Block(b.ptr, size) /\ Head(v) = b /\ Uses(v) = Uses(u) \cup {b}
                              /\ \A c \in Uses(u) : Extent(c) \cap Extent(b) = {}
  <2> DEFINE b == Block(ptr, size)
  <2>1. b \in NodeT /\ b = Block(b.ptr, size)
    BY Zenon DEF NodeT, Block
  <2>2. u \in Seq(NodeT) /\ Apart(v)
    BY Zenon DEF NodesOk, Got
  <2> HIDE DEF b
  <2>3. v = <<b>> \o u
    BY <1>2, Zenon DEF b
  <2> HIDE DEF v, u
  <2>4. Uses(v) = Uses(u) \cup {b} /\ Head(v) = b
    BY <2>1, <2>2, <2>3, UsesCons, ZenonT(40)
  <2>5. /\ v[1] = b /\ \A i \in DOMAIN u : v[i + 1] = u[i]
        /\ DOMAIN v = 1 .. Len(u) + 1 /\ DOMAIN u = 1 .. Len(u) /\ Len(u) \in Nat
    BY <2>1, <2>2, <2>3, ConsIs
  <2>6. ASSUME NEW c \in Uses(u) PROVE Extent(c) \cap Extent(b) = {}
    <3>1. PICK i \in DOMAIN u : c = u[i]
      BY Zenon DEF Uses
    <3>2. i + 1 \in DOMAIN v /\ 1 \in DOMAIN v /\ i + 1 # 1 /\ v[i + 1] = c
      BY <2>5, <3>1
    <3> QED
      BY <2>2, <2>5, <3>2, Zenon DEF Apart
  <2> QED
    BY <2>1, <2>4, <2>6, Zenon
<1> QED
  BY <1>1, <1>2, Zenon DEF Got

LEMMA FreedUses ==
  ASSUME NEW s, NodesOk(s), NEW r, NEW ptr, Freed(s, r, ptr)
  PROVE  \/ r = s /\ \A b \in Uses(s.hp.used_nodes) : b.ptr # ptr
         \/ \E b \in Uses(s.hp.used_nodes) :
              b.ptr = ptr /\ Uses(r.hp.used_nodes) = Uses(s.hp.used_nodes) \ {b}
<1> DEFINE u == s.hp.used_nodes
<1>1. CASE r = s /\ \A i \in DOMAIN u : u[i].ptr # ptr
  BY <1>1, Zenon DEF Uses
<1>2. ASSUME NEW i \in DOMAIN u, u[i].ptr = ptr, Dropped(u, i, r.hp.used_nodes)
      PROVE  \E b \in Uses(u) : b.ptr = ptr /\ Uses(r.hp.used_nodes) = Uses(u) \ {b}
  <2>1. Uses(r.hp.used_nodes) = Uses(u) \ {u[i]}
    BY <1>2, UsesDrop, Zenon DEF NodesOk
  <2>2. u[i] \in Uses(u)
    BY Zenon DEF Uses
  <2> QED
    BY <1>2, <2>1, <2>2, Zenon
<1> QED
  BY <1>1, <1>2, Zenon DEF Freed

(* What happens to the contents is what Allocator allows.                  *)
Adds(x, y, b) ==
  /\ b.ptr \in DOMAIN y \ DOMAIN x /\ DOMAIN y[b.ptr] = Extent(b)
  /\ (UNION {DOMAIN x[p] : p \in DOMAIN x}) \cap Extent(b) = {}

LEMMA ContentsAdd ==
  ASSUME NEW S, Separate(S), NEW b \in NodeT, \A c \in S : Extent(c) \cap Extent(b) = {}, NEW m, NEW n
  PROVE  Adds(ContentsOf(S, m), ContentsOf(S \cup {b}, n), b) /\ Separate(S \cup {b}) /\ b \notin S
<1> DEFINE T == S \cup {b}
           x == ContentsOf(S, m)
           y == ContentsOf(T, n)
<1>1. b.ptr \in Extent(b) /\ Separate(T)
  BY NodeExtent, Zenon DEF Separate
<1>2. b \notin S
  BY <1>1, Zenon
<1>3. DOMAIN x = Addresses(S) /\ \A c \in S : DOMAIN x[c.ptr] = Extent(c)
  BY ContentsAt
<1>4. /\ DOMAIN y = Addresses(T) /\ \A c, d \in T : c.ptr = d.ptr => c = d
      /\ \A c \in T : DOMAIN y[c.ptr] = Extent(c)
  <2> HIDE DEF T
  <2> QED
    BY ONLY <1>1, ContentsAt, Zenon
<1> HIDE DEF x, y
<1>5. b.ptr \in DOMAIN y \ DOMAIN x
  BY <1>2, <1>3, <1>4, Zenon DEF Addresses
<1>6. DOMAIN y[b.ptr] = Extent(b)
  BY <1>4, Zenon
<1>7. (UNION {DOMAIN x[p] : p \in DOMAIN x}) \cap Extent(b) = {}
  BY <1>3 DEF Addresses
<1> QED
  BY <1>1, <1>2, <1>5, <1>6, <1>7, Zenon DEF Adds, x, y

(* The bytes of the blocks of S but b are the same in m and in n.          *)
Keep(S, b, m, n) == \A c \in S : c # b => \A a \in Extent(c) : n[a] = m[a]

(* As many of the bytes of b as fit are in the size bytes at c.            *)
Carried(b, c, size, m, n) == \A i \in 0 .. size - 1 : b.ptr + i \in Extent(b) => n[c.ptr + i] = m[b.ptr + i]

LEMMA AllocRefines ==
  ASSUME NEW S, Separate(S), NEW b \in NodeT, NEW size \in Size, b = Block(b.ptr, size), NEW m, NEW n,
         Contents = ContentsOf(S, m), Contents' = ContentsOf(S \cup {b}, n),
         \A c \in S : Extent(c) \cap Extent(b) = {}, Keep(S, b, m, n)
  PROVE  Promise!Alloc
<1> DEFINE x == ContentsOf(S, m)
           y == ContentsOf(S \cup {b}, n)
<1>1. Extent(b) = Promise!Bytes(b.ptr, size)
  BY DEF Promise!Bytes, Extent, Block
<1>2. Adds(x, y, b) /\ Separate(S \cup {b})
  BY ContentsAdd, Zenon
<1>3. y = Promise!With(x, b.ptr, y[b.ptr])
  <2>1. \A c \in S : c # b => \A a \in Extent(c) : n[a] = m[a]
    BY Zenon DEF Keep
  <2>2. Separate(S \cup {b})
    BY <1>2, Zenon
  <2> QED
    BY ONLY <2>1, <2>2, ContentsWith
<1>4. Contents = x /\ Contents' = y
  BY Zenon
<1> HIDE DEF x, y
<1>5. Promise!New(b.ptr, size)
  BY <1>1, <1>2, <1>4, Zenon DEF Promise!New, Promise!Taken, Adds
<1>6. Contents' = Promise!With(Contents, b.ptr, Contents'[b.ptr])
  BY <1>3, <1>4, Zenon
<1>7. b.ptr \in DOMAIN Contents' \ DOMAIN Contents
  BY <1>2, <1>4, Zenon DEF Adds
<1> QED
  BY <1>5, <1>6, <1>7, Zenon DEF Promise!Alloc

LEMMA FreeRefines ==
  ASSUME NEW S, Separate(S), NEW b \in S, NEW m,
         Contents = ContentsOf(S, m), Contents' = ContentsOf(S \ {b}, m)
  PROVE  Promise!Free
<1>1. DOMAIN Contents = Addresses(S)
  BY ContentsAt, Zenon
<1>2. Contents' = Promise!Without(Contents, b.ptr)
  BY ContentsWithout, Zenon
<1> QED
  BY <1>1, <1>2, Zenon DEF Promise!Free, Addresses

LEMMA StoreRefines ==
  ASSUME NEW S, Separate(S), NEW b \in S, NEW m, NEW n,
         Contents = ContentsOf(S, m), Contents' = ContentsOf(S, n), Keep(S, b, m, n)
  PROVE  Promise!Store
<1>1. /\ DOMAIN ContentsOf(S, m) = Addresses(S) /\ DOMAIN ContentsOf(S, m)[b.ptr] = Extent(b)
      /\ DOMAIN ContentsOf(S, n) = Addresses(S) /\ DOMAIN ContentsOf(S, n)[b.ptr] = Extent(b)
  BY ContentsAt
<1>2. S \cup {b} = S
  BY Zenon
<1>3. ContentsOf(S, n) = Promise!With(ContentsOf(S, m), b.ptr, ContentsOf(S, n)[b.ptr])
  <2>1. ContentsOf(S \cup {b}, n) = Promise!With(ContentsOf(S, m), b.ptr, ContentsOf(S \cup {b}, n)[b.ptr])
    BY <1>2, ContentsWith DEF Keep
  <2> QED
    BY <1>2, <2>1, ZenonT(40)
<1> QED
  BY <1>1, <1>3, ZenonT(40) DEF Promise!Store, Addresses

LEMMA ReallocRefines ==
  ASSUME NEW S, Separate(S), NEW b \in S, NEW c \in NodeT, NEW size \in Size, c = Block(c.ptr, size),
         NEW m, NEW n, \A d \in S : Extent(d) \cap Extent(c) = {}, size \in Nat,
         Contents = ContentsOf(S, m), Contents' = ContentsOf((S \ {b}) \cup {c}, n),
         Keep(S, b, m, n), Carried(b, c, size, m, n)
  PROVE  Promise!Realloc
<1> DEFINE T == S \ {b}
           x == ContentsOf(S, m)
           w == ContentsOf(T, m)
           y == ContentsOf(T \cup {c}, n)
<1>1. Extent(c) = Promise!Bytes(c.ptr, size) /\ Extent(c) = c.ptr .. c.ptr + size - 1
  BY DEF Promise!Bytes, Extent, Block
<1>2. Separate(T) /\ \A d \in T : Extent(d) \cap Extent(c) = {}
  BY DEF Separate
<1>3. Separate(T \cup {c})
  BY ONLY <1>2, c \in NodeT, ContentsAdd, Zenon
<1>4. /\ c.ptr \notin DOMAIN x
      /\ (UNION {DOMAIN x[p] : p \in DOMAIN x}) \cap Extent(c) = {}
  <2>1. Adds(x, ContentsOf(S \cup {c}, n), c)
    BY ContentsAdd, Zenon
  <2> HIDE DEF x
  <2> QED
    BY <2>1, Zenon DEF Adds
<1>5. /\ DOMAIN y = Addresses(T \cup {c}) /\ DOMAIN y[c.ptr] = Extent(c) /\ y[c.ptr] = Image(c, n)
  <2>1. c \in T \cup {c}
    BY Zenon
  <2> QED
    <3>1. DOMAIN y = Addresses(T \cup {c}) /\ DOMAIN y[c.ptr] = Extent(c)
      BY ONLY <1>3, <2>1, ContentsAt
    <3>2. y[c.ptr] = Image(c, n)
      BY ONLY <1>3, <2>1, BlockContents, Zenon
    <3> QED
      BY <3>1, <3>2, Zenon
<1>6. DOMAIN x = Addresses(S) /\ DOMAIN x[b.ptr] = Extent(b) /\ x[b.ptr] = Image(b, m)
  <2>1. DOMAIN x = Addresses(S) /\ DOMAIN x[b.ptr] = Extent(b)
    BY ONLY Separate(S), b \in S, ContentsAt
  <2>2. x[b.ptr] = Image(b, m)
    BY ONLY Separate(S), b \in S, BlockContents, Zenon
  <2> QED
    BY <2>1, <2>2, Zenon
<1>7. w = Promise!Without(x, b.ptr)
  BY ContentsWithout, Zenon
<1>8. y = Promise!With(w, c.ptr, y[c.ptr])
  <2>1. \A d \in T : d # c => \A a \in Extent(d) : n[a] = m[a]
    BY Zenon DEF Keep
  <2> QED
    BY ONLY <1>3, <2>1, ContentsWith
<1>9. Contents = x /\ Contents' = y
  BY Zenon
<1> HIDE DEF x, w, y, T
<1>10. \A i \in 0 .. size - 1 : b.ptr + i \in DOMAIN x[b.ptr] => y[c.ptr][c.ptr + i] = x[b.ptr][b.ptr + i]
  <2> SUFFICES ASSUME NEW i \in 0 .. size - 1, b.ptr + i \in Extent(b)
               PROVE  Image(c, n)[c.ptr + i] = Image(b, m)[b.ptr + i]
    BY <1>5, <1>6, Zenon
  <2>1. c.ptr \in Nat
    BY NodeExtent, Zenon
  <2>2. c.ptr + i \in Extent(c)
    BY <1>1, <2>1
  <2> QED
    BY <2>2 DEF Image, Carried
<1>11. Promise!New(c.ptr, size)
  BY <1>1, <1>4, <1>5, <1>9, ZenonT(40) DEF Promise!New, Promise!Taken
<1>12. Contents' = Promise!With(Promise!Without(Contents, b.ptr), c.ptr, Contents'[c.ptr])
  BY <1>7, <1>8, <1>9, Zenon
<1>13. b.ptr \in DOMAIN Contents /\ c.ptr \in DOMAIN Contents' \ DOMAIN Contents
  BY <1>4, <1>5, <1>6, <1>9, Zenon DEF Addresses
<1> QED
  BY <1>9, <1>10, <1>11, <1>12, <1>13, ZenonT(40) DEF Promise!Realloc

AllocatorStep == Promise!Alloc \/ Promise!Free \/ Promise!Store \/ Promise!Realloc \/ UNCHANGED Contents

LEMMA MemIs ==
  ASSUME AllocInv
  PROVE  /\ \A b, v : \A a \in Memory : memset(b, v)[a] = IF a \in Extent(b) THEN v ELSE mem[a]
         /\ \A d, s, n : \A a \in Memory :
              memcpy(d, s, n)[a] = IF a \in d .. d + n - 1 THEN mem[s + (a - d)] ELSE mem[a]
<1>1. DOMAIN mem = Memory
  BY Zenon DEF AllocInv
<1> QED
  BY <1>1, Zenon DEF memset, memcpy

LEMMA MemcpyIs ==
  ASSUME AllocInv, NEW d, NEW s, NEW k, NEW n, n = memcpy(d, s, k)
  PROVE  \A a \in Memory : n[a] = IF a \in d .. d + k - 1 THEN mem[s + (a - d)] ELSE mem[a]
BY MemIs

LEMMA Within ==
  ASSUME NEW p \in Nat, NEW q \in Nat, NEW size \in Nat, NEW len \in Nat, NEW k \in Nat, NEW i \in 0 .. size - 1,
         k = size \/ k = len, p + i \in p .. p + len - 1
  PROVE  q + i \in q .. q + k - 1 /\ p + ((q + i) - q) = p + i
OBVIOUS

LEMMA RefinesStep ==
  ASSUME Counting, EndsOnWord, AllocInv, HeapNext
  PROVE  AllocatorStep
<1>1. PICK S, m, n : S = InUse /\ m = mem /\ n = mem'
  BY Zenon
<1>2. /\ S = Uses(hp.used_nodes) /\ Separate(S) /\ Contents = ContentsOf(S, m)
      /\ \A b \in S : Extent(b) \subseteq Memory
  BY <1>1, InUseOk
<1>3. Contents' = ContentsOf(Uses(hp'.used_nodes), n)
  BY <1>1, Zenon DEF Contents, ContentsOf, InUse, Uses
<1>4. ASSUME Uses(hp'.used_nodes) = S, n = m PROVE AllocatorStep
  BY <1>2, <1>3, <1>4, Zenon DEF AllocatorStep
<1>5. NodesOk(State) /\ Accounts(State, {}) /\ State.hp = hp
  BY StateIs, ZenonT(40) DEF AllocInv, HeapInv
<1>6. ASSUME NEW size \in Size \ {0}, ~hp.panicked
      PROVE  LET r == kmalloc(State, size)
             IN  /\ NodesOk(r) /\ Accounts(r, {}) /\ size \in Nat \ {0}
                 /\ \/ r.hp.panicked /\ Uses(r.hp.used_nodes) = S
                    \/ \E b \in NodeT : /\ b = Block(b.ptr, size) /\ Head(r.hp.used_nodes) = b
                                        /\ Uses(r.hp.used_nodes) = S \cup {b}
                                        /\ \A c \in S : Extent(c) \cap Extent(b) = {}
  <2>1. size \in Nat \ {0}
    BY HeapAssumption, Zenon
  <2>2. Got(State, kmalloc(State, size), size)
    BY <1>5, <1>6, <2>1, KmallocGets, Zenon
  <2>3. NodesOk(kmalloc(State, size)) /\ Accounts(kmalloc(State, size), {})
    BY <2>2, Zenon DEF Got
  <2> QED
    BY <1>2, <1>5, <2>1, <2>2, <2>3, GotUses
<1>7. ASSUME NEW size \in Size \ {0}, NEW r, r = kmalloc(State, size), ~hp.panicked, Becomes(r),
             n = m \/ (~r.hp.panicked /\ n = memset(Head(r.hp.used_nodes), 0))
      PROVE  AllocatorStep
  <2>1. hp' = r.hp
    BY <1>7, Zenon DEF Becomes
  <2>2. CASE r.hp.panicked /\ Uses(r.hp.used_nodes) = S
    BY <1>4, <1>7, <2>1, <2>2, Zenon
  <2>3. ASSUME NEW b \in NodeT, b = Block(b.ptr, size), Head(r.hp.used_nodes) = b,
               Uses(r.hp.used_nodes) = S \cup {b}, \A c \in S : Extent(c) \cap Extent(b) = {}
        PROVE  AllocatorStep
    <3>3. ASSUME NEW c \in S, NEW a \in Extent(c) PROVE n[a] = m[a]
      <4>1. a \in Memory /\ a \notin Extent(b)
        BY <1>2, <2>3, Zenon
      <4>2. CASE n = memset(b, 0)
        BY <1>1, <4>1, <4>2, MemIs
      <4> QED
        BY <1>7, <2>3, <4>2, Zenon
    <3>1. Keep(S, b, m, n)
      BY <3>3, Zenon DEF Keep
    <3>2. size \in Size /\ Contents' = ContentsOf(S \cup {b}, n)
      BY <1>3, <1>7, <2>1, <2>3, Zenon
    <3>4. Separate(S) /\ Contents = ContentsOf(S, m)
      BY <1>2, Zenon
    <3>5. Promise!Alloc
      BY ONLY b \in NodeT, <2>3, <3>1, <3>2, <3>4, AllocRefines, Zenon
    <3> QED
      BY <3>5, Zenon DEF AllocatorStep
  <2> QED
    BY <1>6, <1>7, <2>2, <2>3, Zenon
<1>8. CASE Malloc
  <2>1. PICK size \in Size \ {0} : Becomes(kmalloc(State, size)) /\ ~hp.panicked /\ mem' = mem
    BY <1>8, Zenon DEF Malloc
  <2> QED
    BY <1>1, <1>7, <2>1, Zenon
<1>9. CASE Calloc
  <2>1. PICK size \in Size \ {0} : Cleared(kmalloc(State, size)) /\ ~hp.panicked
    BY <1>9, Zenon DEF Calloc, kcalloc
  <2>2. PICK r : r = kmalloc(State, size)
    BY Zenon
  <2>3. Becomes(r) /\ n = IF r.hp.panicked THEN m ELSE memset(Head(r.hp.used_nodes), 0)
    BY <1>1, <2>1, <2>2, Zenon DEF Cleared
  <2> QED
    BY <1>7, <2>1, <2>2, <2>3, ZenonT(40)
<1>10. CASE Realloc
  <2>1. PICK b \in InUse, size \in Size \ {0} : Moved(kmalloc(State, size), b, size) /\ ~hp.panicked
    BY <1>10, Zenon DEF Realloc, krealloc
  <2>2. PICK r : r = kmalloc(State, size)
    BY Zenon
  <2>3. CASE r.hp.panicked
    <3>1. Becomes(r) /\ n = m
      BY <1>1, <2>1, <2>2, <2>3, ZenonT(40) DEF Moved
    <3> QED
      BY <1>7, <2>1, <2>2, <3>1, Zenon
  <2>4. CASE ~r.hp.panicked
    <3> DEFINE t == kfree(r, b.ptr)
               k == IF size > b.size THEN b.size ELSE size
    <3>1. Becomes(t) /\ n = memcpy(Head(r.hp.used_nodes).ptr, b.ptr, k)
      BY <1>1, <2>1, <2>2, <2>4, Zenon DEF Moved
    <3>2. PICK c \in NodeT : /\ c = Block(c.ptr, size) /\ Head(r.hp.used_nodes) = c
                             /\ Uses(r.hp.used_nodes) = S \cup {c}
                             /\ \A d \in S : Extent(d) \cap Extent(c) = {}
      BY <1>6, <2>1, <2>2, <2>4, Zenon
    <3>3. NodesOk(r) /\ Accounts(r, {}) /\ size \in Nat \ {0}
      BY <1>6, <2>1, <2>2, Zenon
    <3>4. Freed(r, t, b.ptr)
      BY <3>3, KfreeFrees, Zenon
    <3> HIDE DEF t
    <3>5. b \in S /\ b \in NodeT
      BY <1>1, <1>2 DEF Separate
    <3>6. Separate(S \cup {c})
      BY <1>2, <3>2, ContentsAdd, ZenonT(40)
    <3>7. Uses(t.hp.used_nodes) = (S \ {b}) \cup {c}
      <4>1. PICK d \in S \cup {c} : d.ptr = b.ptr /\ Uses(t.hp.used_nodes) = (S \cup {c}) \ {d}
        BY <3>2, <3>3, <3>4, <3>5, FreedUses, SMTT(30), ZenonT(20)
      <4>2. d = b
        BY <3>5, <3>6, <4>1, ContentsAt
      <4>3. c # b
        BY <3>2, <3>5, NodeExtent, Zenon
      <4> QED
        BY <4>1, <4>2, <4>3, Zenon
    <3>8. Contents' = ContentsOf((S \ {b}) \cup {c}, n)
      BY <1>3, <3>1, <3>7, ZenonT(40) DEF Becomes
    <3>9. /\ b.ptr \in Nat \ {0} /\ b.size \in Nat \ {0} /\ c.ptr \in Nat \ {0} /\ k \in Nat
          /\ k <= size /\ k <= b.size /\ (k = size \/ k = b.size)
      BY <3>2, <3>3, <3>5, NodeExtent, SMTT(30), ZenonT(20)
    <3>10. Extent(c) = c.ptr .. c.ptr + size - 1 /\ Extent(b) = b.ptr .. b.ptr + b.size - 1
      BY <3>2, SMTT(30), ZenonT(20) DEF Extent, Block
    <3>11. \A a \in Memory : n[a] = IF a \in c.ptr .. c.ptr + k - 1 THEN m[b.ptr + (a - c.ptr)] ELSE m[a]
      <4>1. n = memcpy(c.ptr, b.ptr, k) /\ m = mem
        BY <1>1, <3>1, <3>2, ZenonT(40)
      <4> HIDE DEF k
      <4> QED
        BY ONLY <4>1, AllocInv, MemcpyIs
    <3> HIDE DEF k
    <3>12. c.ptr .. c.ptr + k - 1 \subseteq Extent(c)
      BY <3>3, <3>9, <3>10
    <3>13. Keep(S, b, m, n)
      BY <1>2, <3>2, <3>11, <3>12, Zenon DEF Keep
    <3>14. Extent(c) \subseteq Memory
      <4>1. Paged(r)
        BY <2>2, <3>3, KmallocPages, Zenon DEF AllocInv
      <4> QED
        BY <3>2, <3>3, <4>1, UsedFits, ZenonT(40)
    <3>15. ASSUME NEW i \in 0 .. size - 1, b.ptr + i \in Extent(b)
           PROVE  n[c.ptr + i] = m[b.ptr + i]
      <4>1. c.ptr + i \in c.ptr .. c.ptr + k - 1 /\ b.ptr + ((c.ptr + i) - c.ptr) = b.ptr + i
        <5>1. /\ b.ptr \in Nat /\ c.ptr \in Nat /\ size \in Nat /\ b.size \in Nat /\ k \in Nat
              /\ i \in 0 .. size - 1 /\ (k = size \/ k = b.size)
              /\ b.ptr + i \in b.ptr .. b.ptr + b.size - 1
          BY <3>3, <3>9, <3>10, <3>15, ZenonT(40)
        <5> QED
          BY ONLY <5>1, Within
      <4>2. c.ptr + i \in Memory
        BY <3>12, <3>14, <4>1, Zenon
      <4> QED
        BY <3>11, <4>1, <4>2, ZenonT(40)
    <3>16. Promise!Realloc
      <4>1. Carried(b, c, size, m, n)
        BY <3>15, Zenon DEF Carried
      <4>2. Separate(S) /\ Contents = ContentsOf(S, m) /\ size \in Size
        BY <1>2, Zenon
      <4> QED
        BY ONLY c \in NodeT, <3>2, <3>3, <3>5, <3>8, <3>13, <4>1, <4>2, ReallocRefines, ZenonT(40)
    <3> QED
      BY <3>16, Zenon DEF AllocatorStep
  <2> QED
    BY <2>3, <2>4, Zenon
<1>11. CASE FreeBlock
  <2>1. PICK ptr : Becomes(kfree(State, ptr)) /\ mem' = mem
    BY <1>11, Zenon DEF FreeBlock
  <2>2. PICK r : r = kfree(State, ptr)
    BY Zenon
  <2>3. hp' = r.hp /\ n = m
    BY <1>1, <2>1, <2>2, Zenon DEF Becomes
  <2>4. Freed(State, r, ptr)
    BY <1>5, <2>2, KfreeFrees, ZenonT(40)
  <2>5. CASE r = State
    BY <1>2, <1>4, <1>5, <2>3, <2>5
  <2>6. ASSUME NEW b \in S, Uses(r.hp.used_nodes) = S \ {b}
        PROVE  AllocatorStep
    <3>1. Contents' = ContentsOf(S \ {b}, m)
      BY <1>3, <2>3, <2>6, Zenon
    <3>2. Promise!Free
      BY <1>2, <3>1, FreeRefines
    <3> QED
      BY <3>2, Zenon DEF AllocatorStep
  <2> QED
    BY <1>2, <1>5, <2>4, <2>5, <2>6, FreedUses
<1>12. CASE Fill
  <2>1. PICK b \in S, v \in Byte : n = memset(b, v) /\ hp' = hp
    BY <1>1, <1>12, ZenonT(40) DEF Fill
  <2>2. ASSUME NEW c \in S, c # b, NEW a \in Extent(c) PROVE n[a] = m[a]
    <3>1. a \in Memory /\ a \notin Extent(b)
      BY <1>2, <2>2, Zenon DEF Separate
    <3> QED
      BY <1>1, <2>1, <3>1, MemIs
  <2>3. Contents' = ContentsOf(S, n) /\ Keep(S, b, m, n)
    BY <1>2, <1>3, <2>1, <2>2, Zenon DEF Keep
  <2>4. Promise!Store
    BY <1>2, <2>3, StoreRefines, Zenon
  <2> QED
    BY <2>4, Zenon DEF AllocatorStep
<1>13. CASE PageStep \/ HeapHalted
  <2>1. hp' = hp /\ n = m
    BY <1>1, <1>13, Zenon DEF PageStep, HeapHalted, heapVars
  <2> QED
    BY <1>2, <1>4, <2>1, Zenon
<1> QED
  BY <1>8, <1>9, <1>10, <1>11, <1>12, <1>13 DEF HeapNext
-----------------------------------------------------------------------------
(* The theorems, from the proof of Counting.                               *)
INSTANCE Counting_proofs

LEMMA PagesAlways == EndsOnWord => (Spec => []PagesInv)
<1> SUFFICES ASSUME EndsOnWord PROVE Spec => []PagesInv
  BY Zenon
<1>1. PagesInv /\ [Next]_vars => PagesInv'
  BY PagesStep, CountingHolds, Zenon
<1> QED
  BY <1>1, PagesInit, PTL DEF Spec

(* No page has two owners, whatever is allocated and given back, in any    *)
(* order: mm_alloc_*, mm_free_* (mm.c).                                    *)
THEOREM PagesExclusive == EndsOnWord => (Spec => []Exclusive)
<1>1. PagesInv => Exclusive
  BY ZenonT(40) DEF PagesInv, Exclusive
<1> QED
  BY <1>1, PagesAlways, PTL

(* And none is lost.                                                       *)
THEOREM PagesKept == EndsOnWord => (Spec => []NothingLost)
<1>1. PagesInv => NothingLost
  BY Zenon DEF PagesInv
<1> QED
  BY <1>1, PagesAlways, PTL

(* find() returns contiguous free pages if there are any, for every        *)
(* bitmap and every size of its words.                                     *)
THEOREM FindsAlways == EndsOnWord => (Spec => []FindsContiguous)
<1> SUFFICES ASSUME EndsOnWord PROVE Spec => []FindsContiguous
  BY Zenon
<1>1. FindsContiguous
  <2> SUFFICES ASSUME NEW num \in 1 .. MaxNum
               PROVE  LET start == find(mmap, num, dma_end, mem_end)
                      IN  IF start # NO_PAGE THEN Pages(start, num) \subseteq mmap
                          ELSE \A s \in dma_end .. mem_end - num : ~(Pages(s, num) \subseteq mmap)
    BY Zenon DEF FindsContiguous
  <2>1. num \in Nat \ {0} /\ page_to_pos(mem_end) = 0
    BY MemoryAssumption DEF EndsOnWord
  <2> DEFINE f == find(mmap, num, dma_end, mem_end)
  <2>2. \/ f = NO_PAGE /\ \A s \in dma_end .. mem_end - num : ~(Pages(s, num) \subseteq mmap)
        \/ f \in dma_end .. mem_end - num /\ Pages(f, num) \subseteq mmap
    <3>1. dma_end \in Nat /\ mem_end \in Nat /\ dma_end <= mem_end
      BY MemEnd
    <3> QED
      BY <2>1, <3>1, FindExact, CountingHolds, ZenonT(40)
  <2>3. f \in dma_end .. mem_end - num => f # NO_PAGE
    BY MemEnd DEF NO_PAGE
  <2> HIDE DEF f
  <2> QED
    BY <2>2, <2>3, Zenon DEF f
<1> QED
  BY <1>1, PTL

LEMMA HeapAlways == HeapSpec => []HeapInv
<1>1. HeapInv /\ [HeapNext]_heapVars => HeapInv'
  BY HeapStep, CountingHolds, Zenon
<1> QED
  BY <1>1, HeapInitially, PTL DEF HeapSpec

(* Whatever is called in whatever order: no two blocks of the heap, used   *)
(* or free, share a byte, and until a panic each byte that was fetched is  *)
(* in a block or among those that create_node is known to forget.          *)
THEOREM HeapAccounted == HeapSpec => []MemoryAccounted
BY HeapAlways, HeapImplies, PTL

LEMMA AllocAlways == EndsOnWord => (HeapSpec => []AllocInv)
<1> SUFFICES ASSUME EndsOnWord PROVE HeapSpec => []AllocInv
  OBVIOUS
<1>1. AllocInv /\ [HeapNext]_heapVars => AllocInv'
  BY AllocStep, CountingHolds
<1>2. HeapInit => AllocInv
  BY AllocInitially, CountingHolds, Zenon
<1> QED
  BY <1>1, <1>2, PTL DEF HeapSpec

(* kmalloc, kcalloc, krealloc and kfree keep what Allocator promises: a    *)
(* new block has no byte of another caller's, nobody's contents change but *)
(* by their own writes, and krealloc carries over what fits.  EndsOnWord   *)
(* is there because what find() returns is behind the heap's addresses.    *)
THEOREM HeapKeepsPromise == EndsOnWord => (HeapSpec => IsAllocator)
<1> SUFFICES ASSUME EndsOnWord PROVE HeapSpec => IsAllocator
  BY Zenon
<1>1. HeapInit => Promise!Init
  <2> SUFFICES ASSUME HeapInit PROVE Contents = << >>
    BY Zenon DEF Promise!Init
  <2>1. hp.used_nodes = << >>
    BY Zenon DEF HeapInit
  <2>2. InUse = {}
    BY <2>1 DEF InUse
  <2>3. PICK f : f = Contents
    BY Zenon
  <2>4. f \in [{} -> {}]
    BY <2>2, <2>3, ZenonT(40) DEF Contents
  <2>5. 1 .. 0 = {} /\ 0 \in Nat
    OBVIOUS
  <2>6. f \in Seq({}) /\ DOMAIN f = 1 .. 0
    BY <2>4, <2>5, SMTT(30), ZenonT(20)
  <2>7. Len(f) = 0
    BY <2>6
  <2> QED
    BY <2>3, <2>6, <2>7
<1>2. AllocInv /\ [HeapNext]_heapVars =>
        [Promise!Alloc \/ Promise!Free \/ Promise!Store \/ Promise!Realloc]_Contents
  <2>1. CASE HeapNext
    BY <2>1, RefinesStep, CountingHolds, ZenonT(40) DEF AllocatorStep
  <2>2. CASE UNCHANGED heapVars
    BY <2>2 DEF heapVars, Contents, InUse
  <2> QED
    BY <2>1, <2>2, Zenon
<1>3. HeapSpec => []AllocInv
  BY AllocAlways
<1> QED
  BY <1>1, <1>2, <1>3, PTL DEF HeapSpec, IsAllocator, Promise!Spec
=============================================================================
