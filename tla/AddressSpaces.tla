--------------------------- MODULE AddressSpaces ---------------------------
(***************************************************************************)
(* Paging and the memory of processes: kernel/mm/virt.c, kernel/mm/util.c, *)
(* the memory side of kernel/loader.c and of process creation, fork and    *)
(* destruction in kernel/pm.c.                                             *)
(*                                                                         *)
(* A virtual address is a byte address, an address's page v lies in entry  *)
(* v % PTAB_LEN of the table at entry v \div PTAB_LEN of a directory.      *)
(* Directories and tables are functions on the entries that are present;   *)
(* flags are left out.  mm_alloc_page returns the lowest free frame, as    *)
(* find() of PhysicalMemory does.  Each of these operations is a whole     *)
(* system call or kernel routine: nothing else allocates meanwhile.        *)
(***************************************************************************)
EXTENDS Integers, FiniteSets, SequencesExt

CONSTANTS PDIR_LEN, PTAB_LEN, PAGE_SIZE,
          InfoTable,    \* directory entry of INFO_SPACE_START; the kernel's are below it
          WorkTable,    \* directory entry of MAP_TABLE_VADDR, the last before user space
          StackTable,   \* directory entry of the user stack
          Frames,       \* 1 .. Frames are the pages find() may return
          Slot,         \* process slots
          Image,        \* programs: sequences of PT_LOAD segments [vaddr, memsz]
          Incr,         \* increments a program asks sys_sbrk for
          RangeSize,    \* pages kmalloc asks km_alloc_range for
          MaxCreated,   \* bound: processes ever created
          MaxRanges,    \* bound: ranges ever allocated
          MaxBrk,       \* bound: bytes up to which a program moves its break
          SizeMod       \* 2^32: size_t is unsigned

ASSUME SpaceAssumption ==
  /\ {PDIR_LEN, PTAB_LEN, PAGE_SIZE} \subseteq Nat \ {0}
  /\ 0 < InfoTable /\ InfoTable < WorkTable /\ WorkTable < StackTable /\ StackTable < PDIR_LEN

VARIABLE s

NULL   == 0
Kernel == -1   \* kernel_pdir; the others are numbered by their slots

INFO_SPACE_START == InfoTable * PTAB_LEN
MAP_TABLE_VADDR  == WorkTable * PTAB_LEN + PTAB_LEN - 1
USER_SPACE_START == (WorkTable + 1) * PTAB_LEN             \* and CONF_PROG_BASE_MIN
USTACK_PAGE      == StackTable * PTAB_LEN + PTAB_LEN - 1   \* USER_STACK_ADDR - PAGE_SIZE

NUM_PAGES(n) == (n + PAGE_SIZE - 1) \div PAGE_SIZE

pdir_index(v) == v \div PTAB_LEN
ptab_index(v) == v % PTAB_LEN

panic(st) == [st EXCEPT !.panicked = TRUE]

(* Operations that return a value as well.                                 *)
With(st, value) == [st |-> st, ret |-> value]

(* r is the result of an operation, and k what is done with it next.       *)
Then(r, k(_, _)) == k(r.st, r.ret)

mm_alloc_page(st) ==
  LET usable == st.free \ {NULL}
  IN  IF st.panicked \/ usable = {} THEN With(st, NULL)
      ELSE LET f == CHOOSE x \in usable : \A y \in usable : x <= y
           IN  With([st EXCEPT !.free = @ \ {f}], f)

mm_free_page(st, f) == [st EXCEPT !.free = @ \cup {f}]

get_ptab_entry(st, pd, v) ==
  IF pdir_index(v) \notin DOMAIN st.pdir[pd] THEN NULL
  ELSE LET tab == st.tab[st.pdir[pd][pdir_index(v)]]
       IN  IF ptab_index(v) \in DOMAIN tab THEN tab[ptab_index(v)] ELSE NULL

vm_resolve_virt(st, pd, v) == get_ptab_entry(st, pd, v)

(* The part of do_map that creates a page table.                           *)
MakeTable(st, pd, v) ==
  IF pdir_index(v) \in DOMAIN st.pdir[pd] THEN st
  ELSE Then(mm_alloc_page(st), LAMBDA t, f :
         IF f = NULL THEN panic(st)
         ELSE [t EXCEPT !.pdir[pd] = (pdir_index(v) :> f) @@ @, !.tab = (f :> << >>) @@ @])

SetEntry(st, pd, f, v, force) ==
  IF st.panicked THEN st
  ELSE IF force \/ get_ptab_entry(st, pd, v) = NULL
  THEN [st EXCEPT !.tab[st.pdir[pd][pdir_index(v)]] = (ptab_index(v) :> f) @@ @]
  ELSE IF get_ptab_entry(st, pd, v) = f THEN st ELSE panic(st)   \* "Double mapping!"

do_map(st, pd, f, v, force) ==
  IF st.panicked THEN st ELSE SetEntry(MakeTable(st, pd, v), pd, f, v, force)

vm_map_page(st, pd, f, v)  == do_map(st, pd, f, v, FALSE)
vm_force_map(st, pd, f, v) == do_map(st, pd, f, v, TRUE)

vm_map_range(st, pd, f, v, num) ==
  FoldLeft(LAMBDA acc, i : vm_map_page(acc, pd, f + i - 1, v + i - 1), st, [i \in 1 .. num |-> i])

(* vm_map_range with NULL and no flags, for pages that are mapped.         *)
vm_unmap_range(st, pd, v, num) ==
  LET one(acc, w) == [acc EXCEPT !.tab[acc.pdir[pd][pdir_index(w)]] =
                        [e \in DOMAIN @ \ {ptab_index(w)} |-> @[e]]]
  IN  FoldLeft(LAMBDA acc, i : one(acc, v + i - 1), st, [i \in 1 .. num |-> i])

safe_pti(pdi) == IF pdi = 0 THEN 1 ELSE 0

(* vm_find_range: the loop over the entries of one table, then the loop    *)
(* over the directory.  c.pd and c.pt are pdstart and ptstart.             *)
ScanTable(c, tab, num, pdi) ==
  FoldLeft(LAMBDA acc, i :
             LET pti == i - 1
             IN  IF pti < safe_pti(pdi) \/ acc.count >= num THEN acc
                 ELSE IF pti \in DOMAIN tab THEN [acc EXCEPT !.count = 0]
                 ELSE [acc EXCEPT !.count = @ + 1, !.pt = IF acc.count = 0 THEN pti ELSE @],
           c, [i \in 1 .. PTAB_LEN |-> i])

vm_find_range(st, pd, num) ==
  LET entry(c, pdi) ==
        LET b == [c EXCEPT !.pd = IF c.count = 0 THEN pdi ELSE @]
        IN  IF c.count >= num THEN c
            ELSE IF pdi \in DOMAIN st.pdir[pd] THEN ScanTable(b, st.tab[st.pdir[pd][pdi]], num, pdi)
            ELSE [b EXCEPT !.pt = IF c.count = 0 THEN safe_pti(pdi) ELSE @,
                           !.count = @ + PTAB_LEN - safe_pti(pdi)]
      end == FoldLeft(LAMBDA c, i : entry(c, i - 1), [count |-> 0, pd |-> 0, pt |-> 0],
                      [i \in 1 .. PDIR_LEN |-> i])
  IN  IF end.count >= num THEN end.pd * PTAB_LEN + end.pt ELSE NULL

MapAt(st, pd, f, v, num) ==
  IF v = NULL THEN With(panic(st), NULL) ELSE With(vm_map_range(st, pd, f, v, num), v)

vm_alloc_addr(st, pd, f, num) ==
  IF st.panicked THEN With(st, NULL) ELSE MapAt(st, pd, f, vm_find_range(st, pd, num), num)

km_alloc_addr(st, f) == vm_alloc_addr(st, Kernel, f, 1)

(* km_free_addr.                                                           *)
km_free_addr(st, v) == IF st.panicked THEN st ELSE vm_unmap_range(st, Kernel, v, 1)

(* vm_alloc_page(kernel_pdir, 0)                                           *)
km_alloc_page(st) ==
  Then(mm_alloc_page(st), LAMBDA t, f :
    IF f = NULL THEN With(panic(st), NULL) ELSE km_alloc_addr(t, f))

(* vm_cpy_pv, vm_cpy_vp and vm_set_p map one frame and vm_cpy_pp two, for  *)
(* as long as they copy.                                                   *)
Touch(st, f) == Then(km_alloc_addr(st, f), LAMBDA t, v : km_free_addr(t, v))

(* Mutant of vm_cpy_pp: only one of the two mappings is undone.            *)
vm_cpy_pp_unmap_one(st, dst, src) ==
  Then(km_alloc_addr(st, dst), LAMBDA t, v :
    Then(km_alloc_addr(t, src), LAMBDA u, w : km_free_addr(u, w)))

vm_cpy_pp(st, dst, src) ==
  Then(km_alloc_addr(st, dst), LAMBDA t, v :
    Then(km_alloc_addr(t, src), LAMBDA u, w : km_free_addr(km_free_addr(u, v), w)))
-----------------------------------------------------------------------------
(* What a slot holds: the kernel address and the frame of its directory,   *)
(* the frame of its user stack, the heap's bounds (mem_brk in bytes,       *)
(* brk_page in pages), and what elf32_cleanup will free, if it is set.     *)
NoProc == [live |-> FALSE]

(* vm_create_addrspace; NULL is returned when no page is free.             *)
vm_create_addrspace(st, i) ==
  LET space(t, f) ==
        Then(km_alloc_addr(t, f), LAMBDA u, v :
          [u EXCEPT !.pdir[i] = u.pdir[Kernel],
                    !.proc[i] = [live |-> TRUE, kaddr |-> v, phys |-> f, ustack |-> NULL,
                                 mem_brk |-> 0, brk_page |-> 0, ldata |-> << >>,
                                 cleanup |-> FALSE, cmdline_mapped |-> FALSE]])
  IN  Then(mm_alloc_page(st), LAMBDA t, f :
        IF f = NULL THEN With(st, FALSE) ELSE With(space(t, f), TRUE))

(* The kernel stack is kept for ever: nothing frees it.                    *)
MakeKstack(st) == Then(km_alloc_page(st), LAMBDA t, v : [t EXCEPT !.kheld = @ \cup {v}])

(* init_proc.  Without an address space it goes on with a null pointer.    *)
init_proc(st, i) ==
  LET ustack(t, f) == vm_map_page([t EXCEPT !.proc[i].ustack = f], i, f, USTACK_PAGE)
  IN  Then(vm_create_addrspace(st, i), LAMBDA t, made :
        IF ~made THEN panic(st)
        ELSE Then(mm_alloc_page(t), LAMBDA u, f :
               IF f = NULL THEN panic(st) ELSE MakeKstack(ustack(u, f))))

elf32_alloc_mem(st, i, base, pages) ==
  LET one(t, v) ==
        Then(mm_alloc_page(t), LAMBDA u, f :
          IF f = NULL THEN With(t, FALSE) ELSE With(vm_map_page(u, i, f, v), TRUE))
  IN  FoldLeft(LAMBDA acc, n : IF acc.ret THEN one(acc.st, base + n - 1) ELSE acc,
               With(st, TRUE), [n \in 1 .. pages |-> n])

(* elf32_map_segment.  What it copies and fills with zeros are the pages   *)
(* of the segment, each through a mapping of its own.                      *)
elf32_map_segment(st, i, seg) ==
  LET base    == seg.vaddr \div PAGE_SIZE
      pages   == NUM_PAGES(seg.memsz)
      note(t) == [t EXCEPT !.proc[i].ldata = <<[base |-> base, pages |-> pages]>> \o @]
      fill(t) == FoldLeft(LAMBDA acc, n : Touch(acc, vm_resolve_virt(acc, i, base + n - 1)),
                          t, [n \in 1 .. pages |-> n])
  IN  IF seg.memsz = 0 THEN With(st, TRUE)
      ELSE IF base < USER_SPACE_START THEN With(st, FALSE)
      ELSE Then(elf32_alloc_mem(st, i, base, pages), LAMBDA t, done :
             IF done THEN With(fill(note(t)), TRUE) ELSE With(t, FALSE))

elf32_getbrk(st, i, seg) ==
  [st EXCEPT !.proc[i].brk_page = seg.vaddr \div PAGE_SIZE + NUM_PAGES(seg.memsz),
             !.proc[i].mem_brk = seg.vaddr + seg.memsz]

elf32_cleanup(st, i) ==
  LET pages == FlattenSeq([d \in DOMAIN st.proc[i].ldata |->
                 [v \in 1 .. st.proc[i].ldata[d].pages |-> st.proc[i].ldata[d].base + v - 1]])
  IN  FoldLeft(LAMBDA acc, v : mm_free_page(acc, vm_resolve_virt(acc, i, v)), st, pages)

vm_destroy_addrspace(st, i) ==
  mm_free_page(km_free_addr(st, st.proc[i].kaddr), st.proc[i].phys)

(* pm_destroy: page tables, heap and command line are not freed.           *)
pm_destroy(st, i) ==
  LET c == IF st.proc[i].cleanup THEN elf32_cleanup(st, i) ELSE st
      d == vm_destroy_addrspace(mm_free_page(c, st.proc[i].ustack), i)
  IN  [d EXCEPT !.proc[i] = NoProc, !.pdir[i] = << >>]

elf32_exec(st, i, image) ==
  LET load(t, seg) ==
        Then(elf32_map_segment(t, i, seg), LAMBDA u, done :
          IF done THEN With(elf32_getbrk(u, i, seg), TRUE) ELSE With(pm_destroy(u, i), FALSE))
      loadAll(t) == FoldLeft(LAMBDA acc, seg : IF acc.ret THEN load(acc.st, seg) ELSE acc,
                             With([t EXCEPT !.proc[i].cleanup = TRUE], TRUE), image).st
      start(t)   == IF t.panicked THEN t ELSE loadAll(t)
  IN  start(init_proc(st, i))

(* Mutant of clone_entry: the parent's page is mapped instead of a copy.   *)
clone_entry_shared(st, i, v, f) ==
  Then(mm_alloc_page(st), LAMBDA t, g :
    IF g = NULL THEN With(st, FALSE)
    ELSE With(vm_cpy_pp(IF v = MAP_TABLE_VADDR THEN t ELSE vm_force_map(t, i, f, v), g, f), TRUE))

(* clone_entry.  The entry of MAP_TABLE_VADDR, through which tables are    *)
(* edited, is overwritten by the next edit, and the page made for it lost. *)
clone_entry(st, i, v, f) ==
  Then(mm_alloc_page(st), LAMBDA t, g :
    IF g = NULL THEN With(st, FALSE)
    ELSE With(vm_cpy_pp(IF v = MAP_TABLE_VADDR THEN t ELSE vm_force_map(t, i, g, v), g, f), TRUE))

(* Mutant of ClonedPages: nothing but user space.                          *)
ClonedPages_user(st, par) ==
  SelectSeq([v \in 1 .. st.proc[par].brk_page |-> v - 1],
            LAMBDA v : v >= USER_SPACE_START /\ get_ptab_entry(st, par, v) # NULL)

(* What vm_clone_addrspace loops over: the pages from INFO_SPACE_START up  *)
(* to brk_page.                                                            *)
ClonedPages(st, par) ==
  SelectSeq([v \in 1 .. st.proc[par].brk_page |-> v - 1],
            LAMBDA v : v >= INFO_SPACE_START /\ get_ptab_entry(st, par, v) # NULL)

vm_clone_addrspace(st, i, par) ==
  LET entry(t, v) == clone_entry(t, i, v, get_ptab_entry(st, par, v))
      heap(t)     == FoldLeft(LAMBDA acc, v : IF acc.ret THEN entry(acc.st, v) ELSE acc,
                              With(t, TRUE), ClonedPages(st, par))
  IN  Then(vm_create_addrspace(st, i), LAMBDA t, made :
        IF ~made THEN With(st, FALSE)
        ELSE Then(heap(t), LAMBDA u, done :
               IF done THEN With(entry(u, USTACK_PAGE).st, TRUE) ELSE With(st, FALSE)))

(* pm_fork: without an address space it goes on with a null pointer.       *)
pm_fork(st, i, par) ==
  LET child(t) == [t EXCEPT !.proc[i].mem_brk = st.proc[par].mem_brk,
                            !.proc[i].brk_page = st.proc[par].brk_page,
                            !.proc[i].cmdline_mapped = TRUE,
                            !.proc[i].ustack = vm_resolve_virt(t, i, USTACK_PAGE)]
  IN  Then(vm_clone_addrspace(st, i, par), LAMBDA t, done :
        IF ~done \/ t.panicked THEN panic(st) ELSE MakeKstack(child(t)))

(* Mutant of increase_heap: brk_page is advanced too early.                *)
increase_heap_early(st, i, pages) ==
  LET one(t) ==
        Then(mm_alloc_page(t), LAMBDA u, f :
          IF f = NULL THEN With(t, FALSE)
          ELSE With([vm_map_page(u, i, f, t.proc[i].brk_page + 1) EXCEPT !.proc[i].brk_page = @ + 1], TRUE))
  IN  FoldLeft(LAMBDA acc, n : IF acc.ret THEN one(acc.st) ELSE acc,
               With(st, TRUE), [n \in 1 .. pages |-> n])

(* increase_heap: a failure leaves the pages it got so far.                *)
increase_heap(st, i, pages) ==
  LET one(t) ==
        Then(mm_alloc_page(t), LAMBDA u, f :
          IF f = NULL THEN With(t, FALSE)
          ELSE With([vm_map_page(u, i, f, t.proc[i].brk_page) EXCEPT !.proc[i].brk_page = @ + 1], TRUE))
  IN  FoldLeft(LAMBDA acc, n : IF acc.ret THEN one(acc.st) ELSE acc,
               With(st, TRUE), [n \in 1 .. pages |-> n])

sys_sbrk(st, i, incr) ==
  LET rest  == (st.proc[i].brk_page * PAGE_SIZE - st.proc[i].mem_brk) % SizeMod
      grown == IF rest < incr THEN increase_heap(st, i, NUM_PAGES(incr)) ELSE With(st, TRUE)
  IN  IF ~grown.ret THEN grown.st ELSE [grown.st EXCEPT !.proc[i].mem_brk = @ + incr]

(* Mutant of sys_getcmdline: the page is freed like the mapping.           *)
sys_getcmdline_free(st, i) ==
  LET a == mm_alloc_page(st)
      m == vm_map_page(a.st, i, a.ret, INFO_SPACE_START)
  IN  IF st.proc[i].cmdline_mapped THEN Touch(st, NULL)
      ELSE IF a.ret = NULL THEN st
      ELSE mm_free_page(Touch([m EXCEPT !.proc[i].cmdline_mapped = TRUE], a.ret), a.ret)

(* sys_getcmdline: page is NULL when the command line is mapped already.   *)
sys_getcmdline(st, i) ==
  LET a == mm_alloc_page(st)
      m == vm_map_page(a.st, i, a.ret, INFO_SPACE_START)
  IN  IF st.proc[i].cmdline_mapped THEN Touch(st, NULL)
      ELSE IF a.ret = NULL THEN st
      ELSE Touch([m EXCEPT !.proc[i].cmdline_mapped = TRUE], a.ret)
-----------------------------------------------------------------------------
(* init_paging: the kernel's directory is frame 1, working_table_map frame *)
(* 2, and the kernel image is mapped by the table in frame 3.              *)
init_paging ==
  s = [free     |-> 4 .. Frames,
       pdir     |-> [i \in Slot \cup {Kernel} |->
                       IF i = Kernel THEN (0 :> 3) @@ (WorkTable :> 2) ELSE << >>],
       tab      |-> (2 :> (PTAB_LEN - 1 :> 2)) @@ (3 :> << >>),
       proc     |-> [i \in Slot |-> NoProc],
       kheld    |-> {},       \* kernel pages mapped for good
       created  |-> 0,
       ranges   |-> 0,
       panicked |-> FALSE]

Live(i) == s.proc[i].live

Dead == {i \in Slot : ~Live(i)}

(* get_empty_proc                                                          *)
FreeSlot == CHOOSE i \in Dead : \A j \in Dead : i <= j

Starting == ~s.panicked /\ Dead # {} /\ s.created < MaxCreated

Counted(st) == [st EXCEPT !.created = @ + 1]

Execute == Starting /\ \E image \in Image : s' = Counted(elf32_exec(s, FreeSlot, image))

Fork == Starting /\ \E i \in Slot : Live(i) /\ s' = Counted(pm_fork(s, FreeSlot, i))

Exit == ~s.panicked /\ \E i \in Slot : Live(i) /\ s' = pm_destroy(s, i)

Sbrk ==
  /\ ~s.panicked
  /\ \E i \in Slot, incr \in Incr :
       /\ Live(i) /\ s.proc[i].mem_brk + incr <= MaxBrk
       /\ s' = sys_sbrk(s, i, incr)

Getcmdline == ~s.panicked /\ \E i \in Slot : Live(i) /\ s' = sys_getcmdline(s, i)

(* kmalloc's km_alloc_range: frames in a row, and never given back.        *)
mm_alloc_range(st, num) ==
  LET starts == {f \in st.free \ {NULL} : f .. f + num - 1 \subseteq st.free}
  IN  IF starts = {} THEN With(st, NULL)
      ELSE LET f == CHOOSE x \in starts : \A y \in starts : x <= y
           IN  With([st EXCEPT !.free = @ \ (f .. f + num - 1)], f)

km_alloc_range(st, num) ==
  Then(mm_alloc_range(st, num), LAMBDA t, f :
    IF f = NULL THEN panic(st)
    ELSE Then(vm_alloc_addr(t, Kernel, f, num), LAMBDA u, v :
           [u EXCEPT !.kheld = @ \cup (v .. v + num - 1)]))

GrowKernelHeap ==
  /\ ~s.panicked /\ s.ranges < MaxRanges
  /\ \E num \in RangeSize : s' = [km_alloc_range(s, num) EXCEPT !.ranges = @ + 1]

Stopped == (s.panicked \/ s.created = MaxCreated) /\ UNCHANGED s

SpaceNext == Execute \/ Fork \/ Exit \/ Sbrk \/ Getcmdline \/ GrowKernelHeap \/ Stopped

SpaceSpec == init_paging /\ [][SpaceNext]_s
-----------------------------------------------------------------------------
LiveProcs == {i \in Slot : Live(i)}

(* The tables a process has for itself: those that are not the kernel's.   *)
OwnTables(i) == {s.pdir[i][e] : e \in {x \in DOMAIN s.pdir[i] : x > WorkTable \/ x = InfoTable}}

(* The frames a process's own addresses lead to.                           *)
UserFrames(i) == UNION {{s.tab[t][e] : e \in DOMAIN s.tab[t]} : t \in OwnTables(i)}

UserPages(st, i) ==
  {v \in INFO_SPACE_START .. PDIR_LEN * PTAB_LEN - 1 :
     v # MAP_TABLE_VADDR /\ get_ptab_entry(st, i, v) # NULL}

(* Processes share no memory of their own: neither a page nor a page table *)
(* reached from one directory is reached from another, after any sequence  *)
(* of execute, fork, exit and growing heaps.                               *)
Isolation ==
  \A i, j \in LiveProcs : i # j =>
    (UserFrames(i) \cup OwnTables(i) \cup {s.proc[i].phys})
      \cap (UserFrames(j) \cup OwnTables(j) \cup {s.proc[j].phys}) = {}

(* Nothing that a live process or the kernel can reach is free, so it is   *)
(* not given to somebody else.                                             *)
NoFreeInUse ==
  ~s.panicked =>
    /\ \A i \in LiveProcs :
         s.free \cap (UserFrames(i) \cup OwnTables(i) \cup {s.proc[i].phys}) = {}
    /\ \A e \in DOMAIN s.pdir[Kernel] :
         s.free \cap ({s.pdir[Kernel][e]} \cup {s.tab[s.pdir[Kernel][e]][x] : x \in DOMAIN s.tab[s.pdir[Kernel][e]]}) = {}

(* The kernel's temporary mappings are undone on every path: what is       *)
(* mapped are the directories of the live processes and what is kept for   *)
(* good.                                                                   *)
KernelMappingsExact ==
  ~s.panicked =>
    {v \in 1 .. INFO_SPACE_START - 1 : get_ptab_entry(s, Kernel, v) # NULL}
      = {s.proc[i].kaddr : i \in LiveProcs} \cup s.kheld

(* brk_page is where the heap ends, however sbrk calls that failed half    *)
(* way, forks and loaded programs followed each other: the page before it  *)
(* is mapped and nothing is from there to the stack, so that the next      *)
(* increase_heap leaves no hole and maps no page twice.                    *)
HeapEndsAtBrkPage ==
  ~s.panicked => \A i \in LiveProcs : s.proc[i].brk_page > 0 =>
    /\ get_ptab_entry(s, i, s.proc[i].brk_page - 1) # NULL
    /\ \A v \in s.proc[i].brk_page .. StackTable * PTAB_LEN - 1 : get_ptab_entry(s, i, v) = NULL

(* "the data may begin anywhere on the first page..." (elf32_map_segment), *)
(* and a program, here one whose segments lie in adjacent pages, may use   *)
(* its memory up to mem_brk: every byte below the break that the loader    *)
(* and sbrk have set is backed by a page.                                  *)
HeapBacked ==
  ~s.panicked => \A i \in LiveProcs :
    \A v \in USER_SPACE_START .. NUM_PAGES(s.proc[i].mem_brk) - 1 : get_ptab_entry(s, i, v) # NULL

(* A forked process has a page wherever its parent has one.                *)
ForkIsComplete ==
  [][\A i \in Slot : Fork /\ i \in Dead /\ s'.proc[i].live /\ ~s'.panicked
        => \E j \in LiveProcs : UserPages(s', i) = UserPages(s, j)]_s
=============================================================================
