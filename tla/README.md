# kOS: TLA+ models, model checking and proofs

kOS is a small kernel for the i386: one address space per process, a round
robin scheduler, messages between processes, terminals, files in a ram disk and
in /dev, a disk driver, page and heap allocators and an ELF loader, entered through interrupts and `int 0x30` system
calls. This directory holds TLA+ modules that are translated from the kernel's
C and assembly code (`src/kernel`), TLC configurations that check them on small
instances, and TLAPS proofs about the process manager, messages, sleeping, the
switch between processes, the page and heap allocators, lists, the ring buffer, block
devices, the disk driver, files and terminals, for every number of processes and
every size of tables, buffers and memory. `PROJECT.json` has the same information in machine readable
form: the components, the runs, a mutant for every property, the source lines
of every definition, the hazards and the theorems.

## 1. The system and its parts

| part | source (under `src/kernel`) | module | state of the model |
|---|---|---|---|
| process table, run list, scheduler, create, fork, destroy, wait | `pm.c` | `ProcessManager` | modelled |
| system call dispatch | `syscall.c` | `ProcessManager`, `KernelEntry`, `Vfs` | partly (some file calls missing) |
| messages | `ipc.c` | `Ipc`, `IpcHistory` | modelled |
| timer and sleeping | `timer.c` | `Timer` | modelled |
| ring buffer | `util/ringbuffer.c` | `RingBuffer`, `BoundedFifo` | modelled |
| physical pages | `mm/mm.c` | `PhysicalMemory` | modelled |
| paging, address spaces, user heap | `mm/virt.c`, `mm/util.c` | `AddressSpaces` | partly |
| program loader | `loader.c` | `AddressSpaces` (memory), `ProcessManager` (process) | partly |
| interrupt entry, stacks, context switch | `idt.c`, `int.s`, `context.c`, `tss.c` | `KernelEntry` | partly |
| terminals | `tty.c` | `Tty` | partly |
| file requests | `fs/request.c` | `Tty` | modelled |
| start-up, panic | `kmain.c`, `module.c`, `params.c`, `kstart.s`, `gdt.c` | `ProcessManager`, `KernelEntry` | partly |
| descriptors, path lookup, mounts | `fs/fs.c`, `fs/inode.c`, `fs/path.c`, `fs/super.c` | `Vfs` | partly |
| device file system | `fs/devfs.c` | `Vfs`, `ListUsers` | modelled |
| initial ram disk | `fs/initrd.c` | `Vfs`, `RamDisk` | partly (no asynchronous reads) |
| ram disk tools | `src/share/src/mkinitrd`, `src/share/src/chkid` | `RamDisk` | partly (no command lines, messages, nor files and directories that the host does not open) |
| kernel heap | `mm/kmalloc.c` | `KernelHeap`, `Allocator` | modelled |
| lists | `util/list.c` | `LinkedList`, `ListUsers` | modelled, but for three functions nobody calls |
| block devices | `cdi/storage.c` | `Storage`, `ByteDevice` | partly (reads and writes) |
| ATA driver, waiting for interrupts | `cdi/ata/*.c`, `idt.c` | `AtaDisk` | partly (reads and writes) |
| arrays, kernel shell, debugging, keyboard controller, keymaps, serial port, PCI, ACPI, SCSI, other CDI | | - | not modelled, see 5 |
| C library | `src/lib` (PDCLib) | `KernelHeap` | partly (`memset` and `memcpy`, as the heap uses them) |
| user libraries, programs | `src/lib`, `src/programs` | - | not modelled: sequential user code |

How they interact. Everything enters through `idt_handle_int`: the CPU pushes a
register frame on the kernel stack `tss.esp0` names, `pm_restore` stores the
stack pointer in `cur_proc->esp`, a handler runs, and `pm_pick` returns the
frame of whatever process is `cur_proc` then. Handlers never switch by
themselves; they change `cur_proc` through `pm_schedule`. `pm_block` and
`pm_unblock` are the only way other parts (messages, timer, terminal requests)
act on processes, so those modules either extend `ProcessManager` (`Ipc`,
`Timer`) or keep the part of a process they need (`Tty`, `KernelEntry`).
`AddressSpaces` has the memory of processes, page by page, and takes its frames
the way `PhysicalMemory` hands them out. `Ipc` uses a sequence for each message
buffer, which is what `RingBuffer` shows a ring to be. `KernelHeap` extends
`PhysicalMemory`, from which it takes its pages while others do the same.
`Vfs` keeps the descriptor tables that `pm.c` creates, copies and forgets with
processes; what a read of a terminal does is in `Tty`, what one of a disk does in
`Storage`, whose transfers of blocks are the requests of `AtaDisk`.

## 2. The modules

**ProcessManager** (`pm.c`). One record `k` whose fields are the variables of
`pm.c`; a field of `struct proc` is a function on the slots. Every function of
`pm.c` is an operator from states to states (`pm_activate`, `pm_deactivate`,
`pm_schedule`, `pm_update`, `pm_block`, `pm_unblock`, `pm_create`,
`pm_destroy`, `sys_*`), and an action is one whole handler: `Tick`, `Yield`,
`Exit`, `Waitpid`, `Fork`, `Execute` (of a program that can be mapped or not),
`NotExecuted` (no such file, or not a program), `Abort` (an exception in user
mode or a bad system call), `Halted`. Pointers are slot numbers. Reading
through a null pointer does not trap in kOS, since the kernel maps page 0: it
finds the firmware's interrupt vectors. So `NULL` is an index of the fields that
are read that way, with contents `WILD` that equal no process, pid or status,
and following `WILD` panics. `exit_status` and `eax` carry only what waitpid
hands over; other results are 0.

**Ipc**, **IpcHistory** (`ipc.c`) extend it with the message buffers, the
sleeping receive and the kernel addresses of mapped messages; `IpcHistory`
numbers the messages and records which were accepted and which arrived.

**Timer** (`timer.c`) extends it with `timer_ticks`, `next_wakeup` and each
process's `wakeup`, a dword (`DwordMod`) with 0 for "not sleeping". The conversion
of milliseconds to ticks (`Ticks`) is the code's: a dword product that may
overflow, divided and rounded down. Beside it stands `due`, the time that was asked
for, in units of which a tick and a millisecond are both multiples.
`sys_sleep`'s registration is commented out in the source (`timer.c:88`), so that
no process of the kernel as it is built can sleep; the model lets them call it.

**RingBuffer** (`util/ringbuffer.c`) has the indices, the count and the data of
a ring; **BoundedFifo** is the queue it promises to be. `RingBuffer` instantiates
it with the queue read out of the ring, and `IsFifo` is that specification.

**PhysicalMemory** (`mm/mm.c`): the bitmap as the set of free pages, with
`find()` looking at words of `MMAP_BITS` pages in its three loops, the
allocation of pages, ranges, DMA ranges and fixed ranges, the releases, and
`init_mm`'s marking. `held` is a history of what callers own.

**AddressSpaces** (`mm/virt.c`, `mm/util.c`, `loader.c`, `pm.c`): frames,
directories and tables as functions, the temporary kernel mappings every copy
makes, creating, cloning and destroying address spaces, loading a program
segment by segment (with its failure path), `sbrk`, `getcmdline`, ranges for the
kernel heap. Programs are lists of segments with an address and a size in bytes: one
with aligned segments, one whose data begins inside a page, as `kos.ld` lays it
out, and one that is refused at its second segment. `sbrk` computes in bytes modulo
`SizeMod`, since the rest of the last page is an unsigned difference. When memory runs out the code's own reaction is modelled
(`panic`). Page contents and flags are left out.

**KernelEntry** (`int.s`, `idt.c`, `pm.c`, `context.c`): which register frame
lies on which kernel stack, `tss.esp0`, `last_proc`, the interrupt flag and the
context that decides whether `enable_intr` has an effect. Here a handler is
several steps and a timer interrupt may come between them wherever interrupts
are enabled. The scheduler's choice is any ready process.

**Tty** (`tty.c`, `fs/request.c`): the input buffer with its line counter and
editing, reads that wait with a request, answers from the key handler, the
screen buffer, video memory, carriage returns, scrolling and switching of several
terminals. The cursor is hidden by setting it to the cell behind the last one of an
unscrolled screen (`HIDDEN`).

**KernelHeap** (`mm/kmalloc.c`): `used_nodes` and `free_nodes` as sequences of
blocks, the pages fetched from `PhysicalMemory`, and the bytes themselves.
`kcalloc` clears and `krealloc` copies as `memset` and `memcpy` do.
`create_node` takes the node of a free block (`kmalloc.c:45`), and so does the
model; `lost` records what is forgotten that way. **Allocator** is what callers
rely on, and `IsAllocator` the refinement.

**LinkedList**, **ListUsers** (`util/list.c`): entries with `prev` and `next` in
memory that is reused, and the four ways in which the kernel uses lists.
`content` is the sequence a list stands for.

**Vfs** (`fs/*.c`): descriptor tables, file objects on the heap, `open`,
`open_std`, `close`, `read` and `readdir` with path lookup through the two mounts
that `kinit_fs` makes, creation, fork and end of processes, and devices that come
and go.

**RamDisk** (`share/src/mkinitrd`, `fs/initrd.c`, `share/src/chkid`): the entries
`mkinitrd` links while it scans a directory tree, the image it writes from them,
with every offset and count, the inodes the kernel makes of that image and the
walk of `chkid`. A file whose size `mkinitrd` cannot find counts as empty. A cell of the image is a byte; of an entry and of a name only the
first cell has contents.

**Storage** (`cdi/storage.c`): `dev_read` and `dev_write` at any byte of a partition,
made of transfers of blocks, each of which may fail after some of its blocks, with
the two buffers that are kept between requests and the addresses the heap gives
them. A transfer behind the end of the disk fails; one behind the end of the
partition does not, since nothing on the way looks at its length.
**ByteDevice** is an array of bytes; `IsByteDevice` is the refinement. A request is
answered with its size or with the driver's 1, which a caller cannot tell from
a transfer of one byte.

**AtaDisk** (`cdi/ata/request.c`, `ata.c`, `idt.c`): one request at a time split
into chunks, by PIO (polling) or DMA (waiting for an interrupt). The driver, the
drive, the bus master, the interrupt and the timer are separate actors; sectors
may fail, waits may time out and the drive goes on with a command that the driver
has given up. `Context` says whether a process asks, with interrupts enabled (the
kernel thread `kinit`, which reads partition tables), or a system call, with
interrupts disabled. Sector numbers are cut off at `LBA_SIZE` (28 bits), as the
registers do. `OnDisk` is an assumption about the callers: requests are for sectors
the disk has, and the disk has no more than can be addressed. `kmain` gives the driver the argument `nodma`; `dma_use` lets
a run check the DMA path as well.

`MC...` modules and `.cfg` files give the constants their values.

## 3. The runs

| run | result | what it asks |
|---|---|---|
| `process_manager` | passes | is the run list exactly the runnable processes, `cur_proc` its head; does a pid lookup find the living process among stale slots; do waiters and the processes they wait for name each other; what can panic; is waitpid's result the exit status; does each tick bring a ready process nearer to its turn, and when may one fall back |
| `services` | passes | can a message lie beside a process that sleeps in receive; is every accepted message delivered once and in order; is a sleep forgotten or a reused slot woken for its predecessor; do typed lines reach readers complete and in order; is a reader left waiting beside a line; is the screen the selected terminal's |
| `objects` | passes | can two descriptors name one file object, after any forks and exits; does lookup find exactly what is registered; is a byte read twice; does the kernel find in a ram disk's image what was put in; is a block device an array of bytes whatever fails; does a page have one owner, is `find` exact, is no page lost; does the heap implement `Allocator` and account for all it fetched; does the ring implement `BoundedFifo`; does a list visit exactly what it holds |
| `machine` | passes | can a process reach another's frames, a freed frame or a frame of the kernel; are temporary mappings given back; does the heap of a process end where `brk_page` says; does fork copy everything; does each switch resume the process it chose, with every other one's frame on its own stack, as long as system calls do not block; does every disk request end, is what it reports true, is an interrupt ever missed and a sector ever written by a command given up |
| `ipc_starvation` | violated | does round robin let every ready process run when others send and receive |
| `sleep_early` | violated | does a sleep last as long as it was asked for |
| `physical_find` | violated | is `find` exact when memory ends inside a word of the bitmap |
| `heap_unaligned` | violated | is all memory of a process below its break backed by pages |
| `kernel_entry_nested` | violated | does each switch resume the process it chose when system calls block |
| `tty_wakeup` | violated | is a process that sleeps for a request always one that a request will wake |
| `buffer_freed` | violated | is the buffer that `dev_write` keeps its own |
| `disk_in_syscall` | violated | does a disk request made in a system call end |

`services`, `objects` and `machine` hold several modules that share no state (but for
the process manager below messages and sleeping): one of them moves in a behaviour,
the others rest.

The eight violations are disagreements between the code and what it says of
itself, each with a finding in `PROJECT.json`:

* *Starvation.* `pm_deactivate` of the running process moves the list on and then
  calls `pm_schedule`, which moves it on once more, so the process behind one
  that blocks loses its turn. Processes that block and wake each other by
  messages can make one lose every turn. `NearerToItsTurn` is what is true: no other
  step makes a ready process fall back.
* *Short sleeps.* The conversion to ticks rounds down, and its product wraps after
  about twelve hours of milliseconds.
* *find().* For an `end` inside a word the index of the last full word is
  decremented although the loop's bound is exclusive; that word is never looked at.
* *Segments inside a page.* The loader counts the pages of a segment from its size
  alone. For one that begins inside a page and reaches into one more, the last page
  is missing, the break lies above `brk_page`, and the difference that `sbrk` takes
  for the rest of the page is negative: it grows the heap without taking pages.
  `HeapEndsAtBrkPage` holds even then.
* *Nested interrupts.* In a system call `enable_intr` has an effect, so the
  `pm_deactivate` of a blocking call enables interrupts when `cur_proc` is
  another process already. A timer interrupt there stores the wrong stack.
* *Lost wake-up.* `rq_block` marks the request as blocked only after `pm_block`
  has enabled interrupts.
* *A buffer freed twice.* `dev_read` frees a buffer too large to keep and does not
  forget its address. When `dev_write` has got that address from the heap, the next
  read that needs a buffer frees it again. Within the requests themselves the
  bytes are right (`IsByteDevice`): what is lost is the memory's owner.
* *Disk access in a system call.* The context table allows delays there, but the
  gate has disabled interrupts, so the tick `ksleep` waits for never comes. A
  write of two chunks is enough: the drive is still busy with the last sector of
  the first when the second one begins.

**Bounds, and why they are enough.** Four slots are idle, kinit and two user
processes: enough for a process that waits for one that waits, for a slot to be
reused, for a full table, and for the middle of the run list to exist; pids up
to 5 let slots be reused with stale pids in others. Ring size 3 with batches of up to 4 reaches every combination of wrapped
indices and refused items. Queues of two messages and three sends let a queue have an
order, be full and be refilled behind a receive. `Timer` runs 6 ticks of two
milliseconds with sleeps that last nothing, three ticks, and one tick because the
product overflows a dword of 16 values, so that several sleepers overlap and
`next_wakeup` is recomputed for some of them; the tick count itself does not wrap in
that time. `sleep_early` has a sleep of a tick and a half instead. Nine pages in words
of two bits contain a start inside a word, whole words and reserved pages
between free ones. `AddressSpaces` has 22 frames, of which a directory, its
tables, stacks and segments of three creations use up all: memory does run out.
Programs begin at byte 60 and have five bytes; `MaxBrk` (69) lets `sbrk` use up the rest
of the last page and take two more. Without it the break of a program whose data
begins inside a page grows for ever.
The heap asks for one and four bytes with pages of three, so that
requests take one page or two, leave rests of one and two bytes, and find free
blocks that fit exactly, that are cut and that are too small; nine pages let it
run out. Three list entries have a middle, and memory is reused. `Vfs` has two
processes and two file objects, tables that grow, a path to a file, to a directory,
to a device that comes and goes, through both mounts, and to nothing. Trees of four
files and directories for `RamDisk` have empty, nested and last directories, and
names and contents of two lengths. Four blocks of two bytes, of which the first is
outside the partition, and requests for 0, 1 and 4 bytes at bytes 0, 1 and 4 give
`Storage` reads that fit to blocks, that do not and that leave the disk, every split
of a write into head, middle and tail, and buffers that are kept and too large.
`AtaDisk` reads and writes one sector or three in chunks of at most two, with
`MAX_COUNT` and `DMA_MAX` reached exactly (the register value 0), each wait having
one tick. In `Tty` four keys fill the input buffer of four, a text is as long as a
line of the screen or goes back to its beginning, and there are lines to scroll;
readers are interchangeable (`MCSymmetry`). `KernelEntry` needs no bound: the frames on a stack are limited by the
interrupt flag.

**Fairness.** Two properties are about what must happen, `RequestEnds` and
`EveryReadyProcessRuns`. `AtaDisk` has weak fairness of the driver (it spins, and
nothing else runs or it is scheduled again), of the drive (a drive that stops for
good makes the loops of `CHECK_STATUS` spin for ever, which have no timeout), of the
interrupt and of the timer. The last two are enabled only where interrupts are: that
is why `RequestEnds` holds for a process and fails for a system call. `ChatSpec` of
the starvation run has weak fairness of `Tick` and nothing else: the programmable
timer interrupts whatever runs in user mode, whose `eflags` have interrupts enabled
from `prepare_stack` on, and idle halts with interrupts enabled. Every tick
schedules: the running process is `PS_RUNNING`, and `pm_update` looks at koop mode and
counts ticks down only for a current process that is `PS_READY`, so koop mode makes no
difference. Of the process manager alone no liveness is asked: that every ready
process runs would hold only because the pids of a run are bounded, since whoever
blocks takes the turn of the one behind. `NearerToItsTurn` says of each step what it
does to a ready process's place.

**Deadlock** is checked in every run: a panicked kernel stutters explicitly
(`Halted`), and everything else can always take a step.

## 4. The proofs

The proof modules have one layout: first what is needed of sequences, records and
arithmetic, then one lemma per function of the code and one per action, and the
theorems at the end. What most of them need of numbers, loops and finite sets is one
formula, `Counting`: that a set of numbers has a least member, that a loop (a
recursive function of the number of its turns) has a value after every turn and
keeps what each turn keeps (`LoopExists`, `LoopKeeps`), and how the elements of
finite sets are counted. `Counting_proofs` proves it once, from the library's
theorems on well-founded relations and finite sets (`CountingHolds`). The lemmas
assume `Counting`, and the theorems, which come after an `INSTANCE` of
`Counting_proofs`, do not: tlapm carries every theorem in scope through every step
of every proof, and a library of a hundred makes the steps of a large module take
seconds each. For the same reason the modules do without the community's
`SequencesExt` and state the few facts about sequences that they use, and a leaf that
Zenon proves quickly says so.

`ProcessManager_proofs` and `Processes_proofs` prove, for any number of slots, any
ticks and any bound on pids (`ConstantsAssumption`: at least two slots, positive start
ticks, not above the maximum), that `Spec` implies always

| theorem | property |
|---|---|
| `TypeCorrect` | `TypeOK` |
| `RunListCorrect` | `RunListExact` |
| `CurrentCorrect` | `CurrentIsHead` |
| `PidLookupCorrect` | `PidLookup` |
| `WaitersCorrect` | `WaitersMatch` |
| `PanicCorrect` | `PanicExplained` |
| `WaitReturnsCorrect` | `WaitReturnsStatus` (an action property) |

all from `Invariance`, the inductive invariant `IInv`:

* `State`: the types. `ticks_left` stays within its bounds because `pm_schedule`
  caps it and `pm_update` never finds the current process `PS_READY` (`CurInv`),
  so it never counts down below zero.
* `ListOn(s, Runnable(s))`: there is a sequence without repetition of exactly the
  runnable processes and idle, linked by `next` from `plist_head` to `plist_tail`.
  The last one's `next` is null, or wild after a load that failed.
* `CurInv`: the current process is the head and alone `PS_RUNNING`.
* `TableInv`: `NullInv` (what lies at address 0 does not change), `PidInv`
  (a living process's pid is below `newpid` and no slot before it, free or not,
  carries the same), `IdleInv` (idle is never destroyed) and `WaitInv` (the
  waiting relation in both directions).
* `PanicInv`: a panic has one of its two causes.

`PidInv` is what makes `PidLookup` inductive: `pm_get_proc` takes the first slot
with a pid and does not look at its status, so free slots matter, and
`get_empty_proc`'s choice of the first free slot is what makes every slot in
front of a new process a living one, with a smaller pid. `WaitInv` is needed for `PanicExplained`, since `pm_destroy` follows
`pm_get_proc(wait_proc)` unchecked.

The argument goes bottom up: lemmas about `next` alone (linking behind the last,
rotating, unlinking the first), about the functions of `pm.c` (each preserves
`ListOn` for a set that gains or loses the process it is about), about the
table, and then `StepInv` with one case per action. `SearchEnd` deals with the
loop of `pm_deactivate` when its process is not on the list, which the failing
load of `elf32_exec` reaches: the loop is a recursive function, and the lemma
shows it equal to an explicit one by a least counterexample. `ListLength` (an
injection into the slots) bounds the list by the table.

The lemmas up to `StepInv` are in the first module, the theorems in the second,
which also proves, on top of `IInv`, for any number of slots:

| theorem | property | assumption |
|---|---|---|
| `ReceiverWaitsCorrect` | `ReceiverWaits` | |
| `DeliveryCorrect` | `DeliveredInOrder` | |
| `NotLateCorrect` | `NotLate` | `NoWrap` |
| `WakeupCorrect` | `WakeupMeansSleeping` | `NoWrap` |
| `NotEarlyCorrect` | `NotEarly` (an action property) | `NoWrap`, `WholeTicks` |

`StepInv` says of every step of the process manager that no process begins or ends
a wait for messages or for time in it (`SameParked`); what is left are the handlers
of `ipc.c` and `timer.c`. `HistoryInv` adds that the histories of free slots are empty, which is
what makes a slot that is used again start from nothing. A send may end in a panic
that the process manager does not have, so the invariant holds of the processes
unless the kernel has panicked. `TimerInv` adds that `next_wakeup` is not after any
sleeper's time, and that only idle runs before the first tick, since a `wakeup` of 0
means "not sleeping". `NoWrap` keeps the wake-up times below `DwordMod`: 2^32 ticks.
`WholeTicks` restricts the sleeps to those the conversion keeps, whole ticks whose
product fits a dword; `sleep_early` shows that others end before their time.

`Interrupts_proofs` proves, for any number of processes, that `CalmSpec` (no
system call blocks) implies always `RunningIsCurrent` (`EntryResumesCurrent`) and
`SavedOnOwnStack` (`EntrySavesOwnStack`). The inductive invariant `EntryInv` has
four parts: the types; `CpuAt`, where the running process's frames and stack
pointer are at each point of the entry code; that `cur_proc` lives; and that every
living process that does not run is `Parked`, with one frame, its own, on its own
stack, `esp` pointing to it. The last one is what `pm_pick` relies on, and what a
nested interrupt destroys. `EntryStep` has one lemma per action (`EntryEnter`,
`EntryHandler`, `EntryPick`, `EntryIret`).

The same module proves, for every disk that 28 bits can address (`LBA_SIZE`), chunks,
DMA buffers and timeouts of every size and requests for any sectors the disk has, that `AtaSpec` implies always `InterruptNotMissed`
(`InterruptCounted`) and `WritesAsAsked` (`SectorsSafe`). Neither is inductive, since
the drive may be at a command the driver has given up. `AtaInv` adds what is true
of the request (`RequestInv`), that the DMA buffer holds the chunk and the bus master
rests until it is started (`FilledInv`), that the command the drive is at, given
up or not, is for sectors that were asked for, with their data or with data still
to be handed over (`CommandInv`), and where driver and drive agree (`SyncInv`): that
the interrupt counter was reset before the command is what makes the interrupt
that is counted or pending count. `AtaStep` has one lemma per action. `SuccessCorrect`, that
`SuccessExact` always holds, needs `ExactInv` beside it: how much of the chunk the
drive has moved (`ShapeInv`), that a sector still in the drive's cache is one of the
request (`CacheInv`), and that every chunk before this one, and what was moved of
this one, is in the buffer (`ReadInv`) or on the disk (`WriteInv`). It assumes that
a DMA chunk is no longer than a command (`DMA_MAX <= MAX_COUNT`; in `ata.c` they are
128 and 256 sectors).

`Memory_proofs` proves `PagesExclusive`, `PagesKept` and `FindsAlways`, that
`Exclusive`, `NothingLost` and `FindsContiguous` always hold, for every memory map,
word length and set of reserved pages, if memory ends on a word of the bitmap
(`EndsOnWord`; the run `physical_find` shows that it has to). `VisitedAll` is the
heart of it: the three loops of `find` together look at every page between their
bounds then. From it follows that what `find` returns is free and that nothing
free is missed, and the rest is `PagesInv`: what is free or held are available
pages, those held are not free and held once, and the two together are all there
are.

About the heap it proves `HeapAccounted`, that `MemoryAccounted` always holds, and
`HeapKeepsPromise`, that `HeapSpec` implements `Allocator`; the second one again if
memory ends on a word, because the heap's addresses are only as good as the pages
`find` returns for them. `HeapInv` says that the blocks of the two lists are apart
and below the highest address, and that they and what is known to be lost are
everything fetched; it is stated for the state that one function of `kmalloc.c`
hands to the next (`NodesOk`, `Accounts`), with a set of bytes that are in no list
yet, so that `create_node`, which takes a node off the list of free blocks in the
middle of a `kmalloc`, has a lemma of its own (`CreateNode`), and so have the two ways
to find a block (`GotMemory`, `GotFree`) and `kfree`. `AllocInv` adds that the heap's
pages are held by it alone and that its highest address is the number of their
bytes (`PagesOk`), so that no block lies behind the memory there is. The refinement
then is about the set of blocks in use: `Separate` blocks have different addresses,
and one lemma for each step of `Allocator` says which change of the set and of the
bytes is such a step. A `krealloc` that runs out of memory after it has taken its
block is an `Alloc` there.

`Devices_proofs` proves that a ring buffer without `override` implements `BoundedFifo`
(`RingCorrect`); nobody creates a ring with `override`, which miscounts. `PutInv` and
`GetInv` are the invariants of its two loops. `ListsCorrect` is `VisitsContent` for lists of any
length. `ListInv` says that there is a sequence of different entries which the list
links (`Linked`): `next` leads through it from `front` to `back`, `prev` leads back as
far as the second entry, and the entries in use are the ones in it. What is before
the first one matters only to `list_del_entry`, so `NoneBefore` is stated for the lists
that use it, whose users never call `list_del_front`. One lemma says what each function of
`list.c` does to that sequence (`AddsBack`, `AddsFront`, `DeletesFront`, `DeletesEntry`,
`Destroys`, `Iterates`).

`Files_proofs` proves that `Storage` implements `ByteDevice` (`DeviceCorrect`), for blocks,
requests, partitions and disks of any size: a read delivers the bytes asked for, or a
prefix of them and an error, and a write changes bytes asked for and no others, all of
them if it says so. `ReadImplements` and `WriteImplements` have the two steps; the second
follows the write through its three parts, of which each has written a prefix of
what was left when it fails. `BlockbufferCorrect` is `BlockbufferKept` for
every placement by the heap, if no read needs a buffer larger than the code keeps
(`SmallReads`; `buffer_freed` shows what happens otherwise).

It also proves `FilesPrivateCorrect`, `DataOnceCorrect` and `LookupCorrect` for any
number of processes, devices, files and descriptors. `VfsInv` has the tables' files
distinct and in use (`Distinct`, `AllOk`), and of each file that what was read from it
ends in the file: a read behind the end moves the position back by one, and that
must not go back before what was read. A fork makes a file for every descriptor at
once; `FilesAllocated` shows that they are different as long as there is room.

`Terminals_proofs` proves `NoKeyLostCorrect`, `NobodyWaitsCorrect` and `ScreenCorrect`
for any number of terminals and processes, any size of the input buffer, the output
buffer and the screen, and any text. `TtyInv` relates the buffer to what was typed and read
(`InputOk`), counts the lines in it, and relates video memory to the selected
terminal (`ShowsLines`, `ShowsCursor`; a read that has queued its request shows the
cursor only after it has let interrupts in, so `NobodyBetween` looks at who is
there). `AnswerT` and
`Turn` are the loop that answers requests; `Ends` counts lines through appending,
erasing and reading.

Only model checked, and why:

* liveness, `RequestEnds`: fairness is out of the prover's reach;
* `NearerToItsTurn`: the place on the run list is counted along `next`, and relating it
  to the list of `ListOn` is not done yet;
* the properties of `AddressSpaces`: its copies, mappings and releases are folds over
  page numbers and frames nested in each other, which have no recursive function to
  reason about;
* `ImageReadBack` of `RamDisk`: trees are walked by recursive operators, and what these
  compute is an induction over the tree;
* what the eight violated runs ask, which does not hold without the assumptions that
  `NotEarlyCorrect`, `FindsAlways`, `EntryResumesCurrent` and `BlockbufferCorrect` make.

## 5. What is not modelled, and abstractions to know

* `ProcessManager`, `Ipc` and `Timer` treat a handler as one step. `KernelEntry`
  and `Tty` show what happens when an interrupt comes where the code lets it; the
  properties of the first three hold for executions without such interrupts.
* A load that fails calls `pm_destroy` for a process that is not on the run list.
  `pm_deactivate` then stores the contents of a null pointer's `next` behind the
  last process. It is overwritten by the next schedule or activation; a second
  failing load before that follows it. `PanicExplained` says exactly this.
* `sys_send` to a pid nobody has follows a null pointer; the model panics.
* The contents of segments are not modelled, so neither is the padding of the last
  page (`loader.c:227`).
* `vm_user_to_kernel`, `vm_map_string`, `vm_is_mapped`, `vm_identity_map`, page
  flags and the revision of the kernel directory are not modelled.
* `Tty` stops (`wild`) where the code writes outside its buffers; its properties
  speak of the behaviour up to there. Keys are their meaning: no scan codes. Keys that a
  full input buffer ignores do not count as typed, so `NoKeyLost` says nothing of them.
  `tty_read` ignores the size it is asked for and copies a whole line
  (`tty.c:299`, `tty.c:308`); readers in the model have room for it. The hidden cursor is
  at an absolute cell (`tty.c:188`), which is on the screen again once `outstart` is
  between 1 and 25; `ScreenShowsCurrent` compares the position that is set.
* `list_size` "Returns the size of the list" (`list.c:24`), but `list_del_entry` does not
  count down. For the list of devices, which uses it, `VisitsContent` asks only that the
  size is not too small, which is what `readdir` needs; for the others it asks for
  equality. No list of the kernel mixes `list_del_front` and `list_del_entry`.
* `DataOnce` says that no byte is handed out twice, not that none is left out: the
  position of a ram disk file advances twice per read, so sequential reads as in
  `ksh.c:84` skip.
* `RamDisk` has no host that fails to open a directory or a file (`FindFirstFile`,
  `fopen`); the tools do not check for that.
* Interrupt handlers of devices other than the timer, the keyboard and the disk are
  not modelled; nor is masking (`mask_irq` is given an interrupt number, so nothing
  is ever masked, `idt.c:320`).
* `Vfs` leaves out positions and contents of devices, `mkdir`, `unlink`, `stat`,
  `getcwd` and `isatty`, the registration of file systems, and `opencount`, which
  only the unused `vfs_unlink` reads. No file system of the kernel defines `dup`, so
  the error path of `vfs_dup`, which frees the wrong file (`fs/inode.c:100`), is not
  reached.
* `AtaDisk` leaves out the detection of controllers and drives, packet devices,
  partition tables, and registers other than status, count, address and device
  control. Requests behind the end of the disk are not considered: the driver compares
  them with no size. `DriveStep` is fair: there is no drive that hangs with BSY set.
* `Storage` leaves out errors of the drive that the driver does not report (the status
  of DMA, the last sector of a PIO write), and a heap that has no memory.
* The DMA path runs only if `nodma` is taken out of `kmain`.
* SCSI has no driver below it, arrays (`util/array.c`) have no user but the shell's
  history; the shell is sequential and runs before processes do. PCI, ACPI, the
  serial port, the keyboard controller and `gdt.c` are port and table accesses that
  run once or without state. Most of the CDI library forwards one call.
* Of the files under `src`, most lines are not the kernel's: a third-party C library
  with its headers, disassemblies, ram disk contents and user programs, all of them
  sequential. The kernel's own C and assembly code is about eleven thousand lines,
  of which the modules stand for about four in ten.
* The hazards of these places are listed in `PROJECT.json` with a note. Smaller
  ones met on the way and not followed further: a receive that finds nothing leaves
  its message mapped (`ipc.c:85`); `init_mm` takes `mmap_length`, in
  bytes, for a number of entries (`mm/mm.c:300`); `open` of an inode without an `open`
  function leaves its file object allocated (`fs/inode.c:57`), and the end of a
  process frees neither its files nor its table; `initrd`'s `do_read` and `vfs_read`
  both advance the position, so that sequential reads skip (`fs/inode.c:113`; the
  property `DataOnce` is what remains true); `finddir` of `devfs` leaves an old
  `fs_error` (`fs/devfs.c:69`); `ata_read_blocks` returns 1 for a failure where
  `cdi/storage.h` asks for -1, so a failed read looks like one byte
  (`cdi/ata/device.c:383`); the status check of DMA looks at BSY and DRQ only, and
  that of a PIO write not at the last sector, so such a fault is reported as success
  (`cdi/ata/request.c:505`; `SuccessExact` speaks of requests without one); each generation of forks has less kernel
  stack (`pm.c:222`); a full input buffer ignores line ends and erasures
  (`tty.c:610`); a read that waits keeps its kernel mapping (`fs/fs.c:245`); a ring
  with `override`, which nobody creates, miscounts (`util/ringbuffer.c:81`).

## 6. Plan

1. The missing operations of `AddressSpaces`: user to kernel translation across
   pages, kernel ranges that span two tables.
2. `Tty` and `Storage` below `Vfs` instead of beside it, and `AtaDisk` below
   `KernelEntry`, so that a blocking read is one behaviour from call to answer.
3. Proofs: `Isolation` and `NoFreeInUse` of `AddressSpaces`, once its folds are
   recursive functions.

## 7. Running it

    tlc -workers 2 -config MCProcessManager.cfg MCProcessManager
    tlapm ProcessManager_proofs.tla

Each run takes at most a few minutes, the proofs of the terminals about half an hour,
those of the process manager about fifteen minutes and the others five to ten each.
