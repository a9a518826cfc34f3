-------------------------- MODULE Interrupts_proofs -------------------------
(***************************************************************************)
(* Proofs about the two parts that live with interrupts.  KernelEntry, for *)
(* any set of processes: as long as no handler enables interrupts, each    *)
(* switch resumes the process it chose and every process's frame waits on  *)
(* its own kernel stack.  AtaDisk, for every disk that a command can       *)
(* address, and chunks, DMA buffers and timeouts of every size: the driver *)
(* of kernel/cdi/ata never misses the interrupt of its command, and no     *)
(* command, given up or not, writes a sector that was not asked for or     *)
(* another sector's data.                                                  *)
(***************************************************************************)
EXTENDS KernelEntry, AtaDisk, TLAPS

-----------------------------------------------------------------------------
(* Interrupts, and the switch between processes                            *)

States == {"PS_READY", "PS_BLOCKED", "PS_SLOT_FREE"}
Frames == [on : Procs, at : Nat]
Codes  == {Running(p) : p \in Procs}

(* Process p is ready to be resumed: its frame is the only thing on its    *)
(* kernel stack.                                                           *)
Parked(p) == esp[p] = Frame(p, 1) /\ stack[p] = <<Running(p)>>

Lives(p) == status[p] # "PS_SLOT_FREE"

EntryTypes ==
  /\ status \in [Procs -> States]
  /\ cur_proc \in Procs /\ last_proc \in Procs /\ esp0 = last_proc
  /\ esp \in [Procs -> Frames]
  /\ stack \in [Procs -> Seq(Codes)]

(* Where the processor is: in the code of cur_proc, in a handler on the    *)
(* stack of cur_proc, before pm_pick on that of the process that was       *)
(* interrupted, or after it, about to resume cur_proc.                     *)
CpuAt ==
  \/ cpu = Running(cur_proc) /\ last_proc = cur_proc
  \/ cpu = Handling("handler", cpu.prog, Frame(cur_proc, 1), FALSE) /\ last_proc = cur_proc
  \/ cpu = Handling("pick", cpu.prog, Frame(last_proc, 1), FALSE)
  \/ /\ cpu = [pc |-> "iret", prog |-> cpu.prog, on |-> cpu.on, esp |-> Frame(cur_proc, 1), iflag |-> FALSE]
     /\ last_proc = cur_proc

(* The inductive invariant.                                                *)
EntryInv ==
  /\ EntryTypes
  /\ CpuAt
  /\ Lives(cur_proc)
  /\ \A p \in Procs : Lives(p) /\ (cpu.pc = "proc" => p # cur_proc) => Parked(p)

(* At the end of init_pm the idle process runs and the others are parked.  *)
LEMMA EntryInit == Init => EntryInv
<1> SUFFICES ASSUME Init PROVE EntryInv
  OBVIOUS
<1>1. \A p \in Procs : Running(p) \in Codes /\ <<Running(p)>> \in Seq(Codes) /\ << >> \in Seq(Codes)
  BY DEF Codes
<1>2. \A p \in Procs : Frame(p, 1) \in Frames
  BY DEF Frames, Frame
<1>3. idle \in Procs
  BY DEF Procs
<1>4. EntryTypes
  BY <1>1, <1>2, <1>3 DEF Init, EntryTypes, States
<1>5. CpuAt
  BY DEF Init, CpuAt
<1>6. Lives(cur_proc)
  BY <1>3 DEF Init, Lives
<1>7. \A p \in Procs : p # cur_proc => Parked(p)
  BY DEF Init, Parked
<1>8. cpu.pc = "proc"
  BY DEF Init, Running
<1> QED
  BY <1>4, <1>5, <1>6, <1>7, <1>8 DEF EntryInv

(* What CpuAt says at each place.                                          *)
LEMMA Places ==
  ASSUME CpuAt
  PROVE  /\ cpu.pc \in {"proc", "handler", "pick", "iret"}
         /\ cpu.iflag => cpu.pc = "proc"
         /\ cpu.pc = "proc" => cpu = Running(cur_proc) /\ last_proc = cur_proc
         /\ cpu.pc = "handler" => /\ last_proc = cur_proc
                                  /\ cpu = Handling("handler", cpu.prog, Frame(cur_proc, 1), FALSE)
         /\ cpu.pc = "pick" => cpu = Handling("pick", cpu.prog, Frame(last_proc, 1), FALSE)
         /\ cpu.pc = "iret" => /\ last_proc = cur_proc
                               /\ cpu.esp = Frame(cur_proc, 1)
  BY DEF CpuAt, Running, Handling, Frame

(* An interrupt, exception or system call of the running process puts its  *)
(* frame where the others have theirs.                                     *)
LEMMA EntryEnter ==
  ASSUME EntryInv, cpu.pc = "proc", NEW intr, idt_handle_int(intr)
  PROVE  EntryInv'
<1>1. cpu = Running(cur_proc) /\ last_proc = cur_proc /\ esp0 = cur_proc /\ cur_proc \in Procs
  BY Places DEF EntryInv, EntryTypes
<1>2. cpu.on = cur_proc /\ cpu.prog = cur_proc /\ Append(<< >>, cpu) = <<Running(cur_proc)>>
  BY <1>1 DEF Running
<1>3. /\ stack' = [stack EXCEPT ![cur_proc] = <<Running(cur_proc)>>]
      /\ esp' = [esp EXCEPT ![cur_proc] = Frame(cur_proc, 1)]
      /\ cpu' = Handling("handler", intr, Frame(cur_proc, 1), FALSE)
      /\ UNCHANGED <<status, cur_proc, last_proc, esp0>>
  BY <1>1, <1>2 DEF idt_handle_int
<1>4. Frame(cur_proc, 1) \in Frames /\ <<Running(cur_proc)>> \in Seq(Codes)
  BY <1>1 DEF Frames, Frame, Codes
<1>5. EntryTypes'
  BY <1>3, <1>4 DEF EntryInv, EntryTypes
<1>6. CpuAt'
  BY <1>1, <1>3 DEF CpuAt, Handling
<1>7. \A p \in Procs : Lives(p)' => Parked(p)'
  BY <1>1, <1>3 DEF EntryInv, EntryTypes, Parked, Lives
<1>8. Lives(cur_proc)'
  BY <1>3 DEF EntryInv, Lives
<1> QED
  BY <1>5, <1>6, <1>7, <1>8 DEF EntryInv

(* A handler chooses among the processes that live and touches no frame.   *)
LEMMA EntryHandler ==
  ASSUME EntryInv, cpu.pc = "handler", Kept, AfterHandler(FALSE),
         status' \in [Procs -> States], cur_proc' \in Procs, Lives(cur_proc)',
         \A p \in Procs : Lives(p)' => Lives(p)
  PROVE  EntryInv'
<1>1. cpu = Handling("handler", cpu.prog, Frame(cur_proc, 1), FALSE) /\ last_proc = cur_proc
  BY Places, Zenon DEF EntryInv
<1>2. cpu' = Handling("pick", cpu'.prog, Frame(last_proc', 1), FALSE)
  <2> DEFINE intr == cpu.prog
             f == Frame(cur_proc, 1)
  <2>1. cpu = Handling("handler", intr, f, FALSE) /\ f = Frame(last_proc', 1)
    BY <1>1, Zenon DEF Kept
  <2> HIDE DEF intr, f
  <2>2. cpu' = Handling("pick", intr, f, FALSE)
    BY <2>1, Zenon DEF AfterHandler, Handling
  <2>3. cpu'.prog = intr
    BY <2>2 DEF Handling
  <2> QED
    BY <2>1, <2>2, <2>3, Zenon
<1>3. CpuAt'
  BY <1>2, Zenon DEF CpuAt
<1>4. EntryTypes'
  BY DEF EntryInv, EntryTypes, Kept
<1>5. \A p \in Procs : Lives(p)' => Parked(p)'
  BY DEF EntryInv, Parked, Kept
<1> QED
  BY <1>3, <1>4, <1>5 DEF EntryInv

(* pm_pick: the frame of the process that was chosen is there.             *)
LEMMA EntryPick ==
  ASSUME EntryInv, Pick
  PROVE  EntryInv'
<1>1. cpu = Handling("pick", cpu.prog, Frame(last_proc, 1), FALSE) /\ Parked(cur_proc)
  BY Places, Zenon DEF EntryInv, EntryTypes, Pick
<1>2. /\ cpu' = [pc |-> "iret", prog |-> cpu'.prog, on |-> cpu'.on, esp |-> Frame(cur_proc, 1), iflag |-> FALSE]
      /\ last_proc' = cur_proc /\ esp0' = cur_proc
  <2>1. CASE cur_proc = last_proc
    <3> DEFINE intr == cpu.prog
               f == Frame(cur_proc, 1)
    <3>1. cpu = Handling("pick", intr, f, FALSE)
      BY <1>1, <2>1, Zenon
    <3> HIDE DEF intr, f
    <3>2. cpu' = [Handling("pick", intr, f, FALSE) EXCEPT !.pc = "iret"]
      BY <2>1, <3>1, Zenon DEF Pick, pm_pick
    <3>3. cpu' = [pc |-> "iret", prog |-> cpu'.prog, on |-> cpu'.on, esp |-> f, iflag |-> FALSE]
      BY <3>2, Zenon DEF Handling
    <3>4. last_proc' = cur_proc /\ esp0' = cur_proc
      BY <2>1 DEF Pick, pm_pick, EntryInv, EntryTypes
    <3> QED
      BY <3>3, <3>4 DEF f
  <2>2. CASE cur_proc # last_proc
    <3> DEFINE intr == cpu.prog
               f == Frame(last_proc, 1)
               g == Frame(cur_proc, 1)
    <3>1. cpu = Handling("pick", intr, f, FALSE) /\ esp[cur_proc] = g
      BY <1>1, Zenon DEF Parked
    <3> HIDE DEF intr, f, g
    <3>2. /\ cpu' = [Handling("pick", intr, f, FALSE) EXCEPT !.pc = "iret", !.esp = g]
          /\ last_proc' = cur_proc /\ esp0' = cur_proc
      BY <2>2, <3>1 DEF Pick, pm_pick
    <3>3. cpu' = [pc |-> "iret", prog |-> cpu'.prog, on |-> cpu'.on, esp |-> g, iflag |-> FALSE]
      BY <3>2, Zenon DEF Handling
    <3> QED
      BY <3>2, <3>3 DEF g
  <2> QED
    BY <2>1, <2>2
<1>3. UNCHANGED <<status, cur_proc, esp, stack>>
  BY DEF Pick
<1>4. CpuAt'
  BY <1>2, <1>3, Zenon DEF CpuAt
<1>5. EntryTypes'
  BY <1>2, <1>3 DEF EntryInv, EntryTypes
<1>6. \A p \in Procs : Lives(p)' => Parked(p)'
  BY <1>1, <1>3 DEF EntryInv, Parked, Lives, Pick
<1> QED
  BY <1>3, <1>4, <1>5, <1>6 DEF EntryInv, Lives

(* iret: the process resumed is cur_proc, and only its frame is taken.     *)
LEMMA EntryIret ==
  ASSUME EntryInv, Iret
  PROVE  EntryInv'
<1>1. cpu.esp = Frame(cur_proc, 1) /\ last_proc = cur_proc /\ Parked(cur_proc) /\ cur_proc \in Procs
  BY Places DEF EntryInv, EntryTypes, Iret
<1>2. cpu.esp.on = cur_proc /\ cpu.esp.at = 1
  BY <1>1 DEF Frame
<1>3. stack[cur_proc] = <<Running(cur_proc)>> /\ Len(stack[cur_proc]) = 1
  BY <1>1 DEF Parked
<1>4. SubSeq(<<Running(cur_proc)>>, 1, 0) = << >>
  OBVIOUS
<1>5. /\ cpu' = [Running(cur_proc) EXCEPT !.on = cur_proc]
      /\ stack' = [stack EXCEPT ![cur_proc] = << >>]
      /\ UNCHANGED <<status, cur_proc, last_proc, esp0, esp>>
  BY <1>2, <1>3, <1>4 DEF Iret
<1>6. cpu' = Running(cur_proc)
  BY <1>5, Zenon DEF Running
<1>7. CpuAt'
  BY <1>1, <1>5, <1>6, Zenon DEF CpuAt
<1>8. EntryTypes'
  BY <1>5, SMTT(30), ZenonT(20) DEF EntryInv, EntryTypes
<1>9. \A p \in Procs : Lives(p)' /\ p # cur_proc' => Parked(p)'
  BY <1>5 DEF EntryInv, EntryTypes, Parked, Lives, Iret
<1>10. cpu'.pc = "proc"
  BY <1>6 DEF Running
<1> QED
  BY <1>5, <1>7, <1>8, <1>9, <1>10, Zenon DEF EntryInv, Lives

(* Every step of a system whose handlers keep interrupts disabled          *)
(* preserves the invariant.                                                *)
LEMMA EntryStep == EntryInv /\ [CalmNext]_vars => EntryInv'
<1> SUFFICES ASSUME EntryInv, [CalmNext]_vars PROVE EntryInv'
  OBVIOUS
<1>ty. EntryTypes /\ CpuAt /\ Lives(cur_proc)
  BY DEF EntryInv
<1>1. CASE Irq
  <2>1. cpu.pc = "proc"
    BY <1>1, <1>ty, Places DEF Irq, CanBeInterrupted
  <2> QED
    BY <1>1, <2>1, EntryEnter DEF Irq
<1>2. CASE Except
  BY <1>2, EntryEnter DEF Except
<1>3. CASE Syscall({"getpid", "yield"})
  <2>1. PICK c \in {"getpid", "yield"} : cpu.pc = "proc" /\ idt_handle_int(c)
    BY <1>3 DEF Syscall
  <2> QED
    BY <2>1, EntryEnter
<1>4. CASE Timer
  <2>1. cur_proc' \in Procs /\ Lives(cur_proc)' /\ UNCHANGED status
    BY <1>4, <1>ty DEF Timer, pm_schedule, Ready, Lives, EntryTypes
  <2>2. cpu.pc = "handler" /\ Kept /\ AfterHandler(FALSE)
    BY <1>4, Zenon DEF Timer, At
  <2>3. status' \in [Procs -> States] /\ \A p \in Procs : Lives(p)' => Lives(p)
    BY <2>1, <1>ty DEF EntryTypes, Lives
  <2> QED
    BY <2>1, <2>2, <2>3, EntryHandler
<1>5. CASE Fault
  <2>1. /\ status' = [status EXCEPT ![cur_proc] = "PS_SLOT_FREE"]
        /\ cur_proc' \in Ready(status')
        /\ cpu.pc = "handler" /\ Kept /\ AfterHandler(FALSE)
    BY <1>5, Zenon DEF Fault, At, pm_schedule
  <2>2. status' \in [Procs -> States] /\ \A p \in Procs : Lives(p)' => Lives(p)
    BY <2>1, <1>ty DEF EntryTypes, Lives, States
  <2>3. cur_proc' \in Procs /\ Lives(cur_proc)'
    BY <2>1 DEF Ready, Lives
  <2> QED
    BY <2>1, <2>2, <2>3, EntryHandler
<1>6. CASE Getpid
  <2>1. UNCHANGED <<status, cur_proc>> /\ cpu.pc = "handler" /\ Kept /\ AfterHandler(FALSE)
    BY <1>6, Zenon DEF Getpid, At
  <2>2. /\ status' \in [Procs -> States] /\ cur_proc' \in Procs
        /\ Lives(cur_proc)' /\ \A p \in Procs : Lives(p)' => Lives(p)
    BY <2>1, <1>ty DEF EntryTypes, Lives
  <2> QED
    BY <2>1, <2>2, EntryHandler
<1>7. CASE Yield
  <2>1. UNCHANGED status /\ cur_proc' \in Ready(status) /\ cpu.pc = "handler" /\ Kept /\ AfterHandler(FALSE)
    BY <1>7, Zenon DEF Yield, At, pm_schedule
  <2>2. /\ status' \in [Procs -> States] /\ cur_proc' \in Procs
        /\ Lives(cur_proc)' /\ \A p \in Procs : Lives(p)' => Lives(p)
    BY <2>1, <1>ty DEF EntryTypes, Lives, Ready
  <2> QED
    BY <2>1, <2>2, EntryHandler
<1>8. CASE Pick
  BY <1>8, EntryPick
<1>9. CASE Iret
  BY <1>9, EntryIret
<1>10. CASE UNCHANGED vars
  BY <1>10, Zenon DEF vars, EntryInv, EntryTypes, CpuAt, Lives, Parked
<1> QED
  BY <1>1, <1>2, <1>3, <1>4, <1>5, <1>6, <1>7, <1>8, <1>9, <1>10 DEF CalmNext, HandlerStep

(* The invariant gives both properties.                                    *)
LEMMA EntryImplies == EntryInv => RunningIsCurrent /\ SavedOnOwnStack
<1> SUFFICES ASSUME EntryInv, cpu.pc = "proc"
             PROVE  /\ cpu.prog = cur_proc
                    /\ \A p \in Procs \ {cur_proc} : Lives(p) =>
                         /\ esp[p] = Frame(p, 1)
                         /\ Len(stack[p]) = 1 /\ stack[p][1].prog = p
  BY DEF RunningIsCurrent, SavedOnOwnStack, Lives
<1>1. cpu = Running(cur_proc)
  BY Places DEF EntryInv
<1>2. \A p \in Procs \ {cur_proc} : Lives(p) => Parked(p)
  BY DEF EntryInv
<1>3. \A p \in Procs : Parked(p) => esp[p] = Frame(p, 1) /\ Len(stack[p]) = 1 /\ stack[p][1].prog = p
  BY DEF Parked, Running
<1> QED
  BY <1>1, <1>2, <1>3 DEF Running

(* As long as no handler enables interrupts, pm_pick and the return from   *)
(* an interrupt resume the code of the process the scheduler chose,        *)
(* whatever the processes and however they are interrupted.                *)
THEOREM EntryResumesCurrent == CalmSpec => []RunningIsCurrent
  BY EntryInit, EntryStep, EntryImplies, PTL DEF CalmSpec

(* And every process that is not running has its own frame, alone on its   *)
(* own kernel stack, as what will be resumed: no two processes' frames are *)
(* ever on one stack.                                                      *)
THEOREM EntrySavesOwnStack == CalmSpec => []SavedOnOwnStack
  BY EntryInit, EntryStep, EntryImplies, PTL DEF CalmSpec

-----------------------------------------------------------------------------
(* The ATA driver                                                          *)

InFlight == {"ready", "sleep", "busmaster", "irq_wait", "check", "transfer"}

Buffers == UNION {[0 .. n - 1 -> Int] : n \in Nat}

DriverState ==
  [pc : {"idle", "next"} \cup InFlight, dma : BOOLEAN, direction : {"READ", "WRITE"},
   start : Nat, count : Nat, count_left : Nat, current_count : Nat, blocks_done : Nat,
   time : Nat, wait : Nat, buffer : Buffers, result : {0, 1}, fault : BOOLEAN]

DriveState ==
  [status : {"ready", "BSY", "DRQ"}, direction : {"READ", "WRITE"}, dma : BOOLEAN,
   nien : BOOLEAN, lba : Nat, moved : Nat, count : Nat, cache : Int, bmr : BOOLEAN, prdt : Nat]

AtaTypes ==
  /\ drv \in DriverState /\ dev \in DriveState
  /\ media \in [Lba -> Int] /\ dmabuf \in [0 .. DMA_MAX - 1 -> Int]
  /\ irq \in [counter : {0, 1}, pending : BOOLEAN]
  /\ asked \subseteq Lba

(* The request, and the chunk of it that is being made.                    *)
RequestInv ==
  drv.pc # "idle" =>
    /\ drv.start + drv.count <= Sectors /\ drv.count_left <= drv.count
    /\ drv.buffer \in [0 .. drv.count - 1 -> Int]
    /\ drv.direction = "WRITE" =>
         \A i \in 0 .. drv.count - 1 : drv.buffer[i] = New(drv.start + i) /\ drv.start + i \in asked
    /\ drv.pc \in InFlight =>
         drv.current_count \in 1 .. drv.count_left /\ (drv.dma => drv.current_count <= DMA_MAX)

(* Between ata_request_dma_init and the start of the bus master the buffer *)
(* holds the chunk, and nothing is being moved.                            *)
FilledInv ==
  drv.dma /\ drv.pc \in {"ready", "sleep", "busmaster"} =>
    /\ ~dev.bmr
    /\ drv.direction = "WRITE" =>
         \A i \in 0 .. drv.current_count - 1 : dmabuf[i] = New(drv.start + Base + i)

(* The drive's command is for sectors that were asked for, and what it has *)
(* or will get is theirs, whether the driver still waits for it or not.    *)
CommandInv ==
  dev.status # "ready" =>
    /\ dev.moved < CommandSize /\ dev.lba + CommandSize <= Sectors
    /\ dev.direction = "WRITE" =>
         /\ \A i \in 0 .. CommandSize - 1 : dev.lba + i \in asked
         /\ ~dev.dma => /\ dev.cache \in {None, New(dev.lba + dev.moved)}
                        /\ dev.status = "DRQ" => dev.cache = None
         /\ dev.dma /\ dev.bmr => \A i \in 0 .. CommandSize - 1 : dmabuf[i] = New(dev.lba + i)

(* The drive is at the driver's command.                                   *)
SameCommand ==
  dev.status # "ready" =>
    dev.direction = drv.direction /\ dev.lba = drv.start + Base /\ CommandSize <= drv.current_count

SyncInv ==
  /\ ~drv.dma => ~dev.dma
  /\ drv.pc \in {"ready", "sleep"} => drv.blocks_done = 0
  /\ drv.pc \in {"busmaster", "irq_wait"} =>
       /\ drv.dma /\ dev.dma /\ ~dev.nien /\ SameCommand
       /\ dev.status = "ready" => irq.counter > 0 \/ irq.pending
  /\ drv.pc = "transfer" => ~drv.dma /\ dev.status = "DRQ"
  /\ drv.pc \in {"check", "transfer"} /\ ~drv.dma =>
       /\ SameCommand
       /\ dev.status # "ready" /\ drv.direction = "WRITE" =>
            drv.blocks_done = dev.moved + (IF dev.cache = None THEN 0 ELSE 1)

AtaInv == AtaTypes /\ RequestInv /\ FilledInv /\ CommandInv /\ SyncInv /\ WritesAsAsked

LEMMA Sizes ==
  /\ Sectors \in Nat \ {0} /\ MAX_COUNT \in Nat \ {0} /\ DMA_MAX \in Nat \ {0}
  /\ ATA_READY_TIMEOUT \in Nat /\ ATA_IRQ_TIMEOUT \in Nat
  /\ Starts \subseteq Nat /\ Counts \subseteq Nat
BY AtaAssumption

(* The count register: 0 stands for the largest count.                     *)
LEMMA Register ==
  ASSUME NEW n \in Nat \ {0}, NEW m \in Nat \ {0}
  PROVE  n % m \in Nat /\ n % m < m /\ n % m <= n /\ (n % m = 0 => m <= n)
<1>1. n % m \in 0 .. m - 1
  OBVIOUS
<1>2. CASE n < m
  <2>1. n % m = n
    BY <1>2
  <2> QED
    BY <1>2, <2>1
<1> QED
  BY <1>1, <1>2

LEMMA BufferType ==
  ASSUME NEW n \in Nat, NEW f \in [0 .. n - 1 -> Int]
  PROVE  f \in Buffers
BY Zenon DEF Buffers

LEMMA AtaInitial == AtaInit => AtaInv
<1> SUFFICES ASSUME AtaInit PROVE AtaInv
  OBVIOUS
<1>1. PICK d \in BOOLEAN : drv = Idle(d)
  BY AtaAssumption DEF AtaInit
<1>2. [i \in {} |-> None] \in Buffers
  <2>1. [i \in {} |-> None] \in [0 .. 0 - 1 -> Int]
    BY SMTT(30), ZenonT(20) DEF None
  <2> QED
    BY <2>1, BufferType, Zenon
<1>3. AtaTypes
  BY <1>1, <1>2, Sizes DEF AtaInit, AtaTypes, DriverState, DriveState, Idle, None, Old, Lba, InFlight
<1> QED
  BY <1>1, <1>3, Zenon DEF AtaInv, AtaInit, Idle, RequestInv, FilledInv, CommandInv, SyncInv, WritesAsAsked, InFlight
-----------------------------------------------------------------------------
(* The driver's steps                                                      *)

LEMMA RequestStep == AtaInv /\ Request => AtaInv'
<1> SUFFICES ASSUME AtaInv, Request PROVE AtaInv'
  OBVIOUS
<1>1. PICK direction \in {"READ", "WRITE"}, start \in Starts, count \in Counts :
        /\ start + count <= Sectors
        /\ drv' = [drv EXCEPT
             !.pc = "next", !.direction = direction, !.start = start, !.count = count,
             !.count_left = count, !.fault = FALSE,
             !.buffer = [i \in 0 .. count - 1 |->
                           IF direction = "WRITE" THEN New(start + i) ELSE None]]
        /\ asked' = IF direction = "WRITE" THEN asked \cup (start .. start + count - 1) ELSE asked
  BY Zenon DEF Request, OnDisk
<1>2. UNCHANGED <<dev, media, dmabuf, irq>> /\ drv.pc = "idle"
  BY DEF Request, DriverAt
<1>3. start \in Nat /\ count \in Nat
  BY Sizes
<1> DEFINE b == [i \in 0 .. count - 1 |-> IF direction = "WRITE" THEN New(start + i) ELSE None]
<1>4. b \in [0 .. count - 1 -> Int] /\ b \in Buffers
  <2>1. b \in [0 .. count - 1 -> Int]
    BY <1>3, Sizes DEF New, None
  <2> QED
    BY <1>3, <2>1, BufferType, Zenon
<1>5. direction = "WRITE" => \A i \in 0 .. count - 1 : b[i] = New(start + i)
  OBVIOUS
<1> HIDE DEF b
<1>6. drv' = [drv EXCEPT !.pc = "next", !.direction = direction, !.start = start, !.count = count,
                         !.count_left = count, !.fault = FALSE, !.buffer = b]
  BY <1>1 DEF b
<1>7. asked \subseteq asked' /\ asked' \subseteq Lba
  <2>1. start .. start + count - 1 \subseteq Lba
    BY <1>1, <1>3, Sizes DEF Lba
  <2>2. asked \subseteq Lba
    BY DEF AtaInv, AtaTypes
  <2> QED
    BY <1>1, <2>1, <2>2, Zenon
<1>8. AtaTypes'
  BY <1>2, <1>3, <1>4, <1>6, <1>7, ZenonT(40) DEF AtaInv, AtaTypes, DriverState, InFlight
<1>9. RequestInv'
  <2>1. /\ drv'.pc = "next" /\ drv'.start = start /\ drv'.count = count /\ drv'.count_left = count
        /\ drv'.buffer = b /\ drv'.direction = direction
    BY <1>6 DEF AtaInv, AtaTypes, DriverState
  <2>2. direction = "WRITE" => \A i \in 0 .. count - 1 : start + i \in asked'
    BY <1>1, <1>3
  <2> QED
    BY <1>1, <1>3, <1>4, <1>5, <2>1, <2>2 DEF RequestInv, InFlight, New
<1>10. FilledInv' /\ SyncInv'
  BY <1>2, <1>6 DEF AtaInv, AtaTypes, DriverState, FilledInv, SyncInv, InFlight
<1>11. CommandInv'
  BY <1>2, <1>7 DEF AtaInv, CommandInv, CommandSize, New
<1>12. WritesAsAsked'
  BY <1>2, <1>7 DEF AtaInv, WritesAsAsked, New, Old
<1> QED
  BY <1>8, <1>9, <1>10, <1>11, <1>12 DEF AtaInv

(* ata_drv_rw_sectors returns: the drive may go on with its command.       *)
LEMMA ReturnStep ==
  ASSUME AtaInv, NEW r \in {0, 1}, Return(r), UNCHANGED <<dev, media, dmabuf, irq, asked>>
  PROVE  AtaInv'
<1>1. [i \in {} |-> None] \in Buffers
  <2>1. [i \in {} |-> None] \in [0 .. 0 - 1 -> Int]
    BY DEF None
  <2> QED
    BY <2>1, BufferType, Zenon
<1>2. AtaTypes'
  <2> DEFINE d == Idle(drv.dma)
  <2>1. d \in DriverState
    BY <1>1 DEF AtaInv, AtaTypes, DriverState, Idle
  <2>2. drv' = IF r = 0 THEN d ELSE [d EXCEPT
                 !.direction = drv.direction, !.start = drv.start, !.count = drv.count,
                 !.buffer = drv.buffer, !.result = r, !.fault = drv.fault]
    BY DEF Return
  <2> HIDE DEF d
  <2>3. drv' \in DriverState
    BY <2>1, <2>2, ZenonT(40) DEF AtaInv, AtaTypes, DriverState
  <2> QED
    BY <2>3, Zenon DEF AtaInv, AtaTypes
<1>3. drv'.pc = "idle" /\ drv'.dma = drv.dma
  BY DEF Return, Idle
<1>4. RequestInv' /\ FilledInv' /\ SyncInv'
  BY <1>3, Zenon DEF AtaInv, RequestInv, FilledInv, SyncInv, InFlight
<1>5. CommandInv' /\ WritesAsAsked'
  BY Zenon DEF AtaInv, CommandInv, CommandSize, WritesAsAsked, New, Old
<1> QED
  BY <1>2, <1>4, <1>5 DEF AtaInv

(* Steps that leave the drive, its buffer and the sectors alone.           *)
LEMMA DriveKept ==
  ASSUME AtaInv, UNCHANGED <<dev, media, dmabuf, asked>>
  PROVE  CommandInv' /\ WritesAsAsked'
BY DEF AtaInv, CommandInv, CommandSize, WritesAsAsked, New, Old

LEMMA NextRequestStep == AtaInv /\ NextRequest => AtaInv'
<1> SUFFICES ASSUME AtaInv, NextRequest PROVE AtaInv'
  OBVIOUS
<1>1. drv.pc = "next" /\ UNCHANGED <<media, asked>>
  BY DEF NextRequest, DriverAt
<1>2. CASE drv.count_left = 0
  BY <1>1, <1>2, ReturnStep, Zenon DEF NextRequest
<1>3. CASE drv.count_left # 0
  <2> DEFINE n == Lower(drv.count_left, IF drv.dma THEN DMA_MAX ELSE MAX_COUNT)
  <2>1. /\ drv.count \in Nat /\ drv.count_left \in Nat /\ drv.start \in Nat /\ drv.count_left <= drv.count
        /\ drv.buffer \in [0 .. drv.count - 1 -> Int]
    BY <1>1, Zenon DEF AtaInv, AtaTypes, DriverState, RequestInv
  <2>2. n \in 1 .. drv.count_left /\ (drv.dma => n <= DMA_MAX)
    BY <1>3, <2>1, Sizes DEF Lower
  <2>3. /\ drv' = [drv EXCEPT !.pc = "ready", !.current_count = n, !.blocks_done = 0, !.time = 0]
        /\ IF drv.dma THEN ata_request_dma_init(n) ELSE UNCHANGED <<dev, dmabuf>>
        /\ irq' = [irq EXCEPT !.counter = 0]
    BY <1>3 DEF NextRequest
  <2> HIDE DEF n
  <2>4. drv' \in DriverState /\ irq' \in [counter : {0, 1}, pending : BOOLEAN]
    <3>1. n \in Nat
      BY <2>1, <2>2
    <3> QED
      BY <2>3, <3>1, ZenonT(40) DEF AtaInv, AtaTypes, DriverState, InFlight
  <2>5. /\ drv'.pc = "ready" /\ drv'.current_count = n /\ drv'.dma = drv.dma
        /\ drv'.direction = drv.direction /\ drv'.start = drv.start /\ drv'.count = drv.count
        /\ drv'.count_left = drv.count_left /\ drv'.buffer = drv.buffer /\ drv'.blocks_done = 0
    BY <2>3 DEF AtaInv, AtaTypes, DriverState
  <2>6. RequestInv'
    BY <1>1, <2>2, <2>5 DEF AtaInv, RequestInv, InFlight, New
  <2>7. CASE ~drv.dma
    <3>1. UNCHANGED <<dev, dmabuf>>
      BY <2>3, <2>7, Zenon
    <3>2. FilledInv' /\ SyncInv'
      BY <2>5, <2>7, <3>1, Zenon DEF AtaInv, FilledInv, SyncInv
    <3> QED
      BY <1>1, <2>4, <2>6, <3>1, <3>2, DriveKept DEF AtaInv, AtaTypes
  <2>8. CASE drv.dma
    <3>1. dev' = [dev EXCEPT !.bmr = FALSE, !.prdt = n % DMA_MAX] /\ dmabuf' = FillDmaBuffer(n)
      BY <2>3, <2>8 DEF ata_request_dma_init
    <3>2. n % DMA_MAX \in Nat
      BY <2>1, <2>2, Sizes, Register
    <3>3. /\ dev' \in DriveState
          /\ ~dev'.bmr /\ dev'.status = dev.status /\ dev'.direction = dev.direction
          /\ dev'.dma = dev.dma /\ dev'.lba = dev.lba /\ dev'.moved = dev.moved
          /\ dev'.count = dev.count /\ dev'.cache = dev.cache
      BY <3>1, <3>2, Zenon DEF AtaInv, AtaTypes, DriveState
    <3>4. Base \in Nat /\ Base + n <= drv.count /\ Base' = Base
      BY <2>1, <2>2, <2>5 DEF Base
    <3>5. \A i \in 0 .. DMA_MAX - 1 :
            /\ dmabuf'[i] = IF drv.direction = "WRITE" /\ i < n THEN drv.buffer[Base + i] ELSE dmabuf[i]
            /\ dmabuf'[i] \in Int
      <4> SUFFICES ASSUME NEW i \in 0 .. DMA_MAX - 1
                   PROVE  /\ dmabuf'[i] = IF drv.direction = "WRITE" /\ i < n THEN drv.buffer[Base + i] ELSE dmabuf[i]
                          /\ dmabuf'[i] \in Int
        OBVIOUS
      <4>1. dmabuf \in [0 .. DMA_MAX - 1 -> Int]
        BY DEF AtaInv, AtaTypes
      <4>2. dmabuf'[i] = IF drv.direction = "WRITE" /\ i < n THEN drv.buffer[Base + i] ELSE dmabuf[i]
        BY <3>1, <4>1 DEF FillDmaBuffer
      <4>3. i < n => Base + i \in 0 .. drv.count - 1
        BY <2>1, <2>2, <3>4, Sizes
      <4> QED
        BY <2>1, <4>1, <4>2, <4>3
    <3>6. dmabuf' \in [0 .. DMA_MAX - 1 -> Int]
      BY <3>1, <3>5, Zenon DEF AtaInv, AtaTypes, FillDmaBuffer
    <3>7. drv.direction = "WRITE" => \A i \in 0 .. n - 1 : dmabuf'[i] = New(drv.start + (Base + i))
      <4> SUFFICES ASSUME drv.direction = "WRITE", NEW i \in 0 .. n - 1
                   PROVE  dmabuf'[i] = New(drv.start + (Base + i))
        BY Zenon
      <4>1. i \in 0 .. DMA_MAX - 1 /\ Base + i \in 0 .. drv.count - 1
        BY <2>1, <2>2, <2>8, <3>4, Sizes
      <4>2. drv.buffer[Base + i] = New(drv.start + (Base + i))
        BY <1>1, <4>1, Zenon DEF AtaInv, RequestInv
      <4> QED
        BY <2>2, <3>5, <4>1, <4>2
    <3>8. FilledInv'
      BY <2>1, <2>2, <2>5, <3>3, <3>4, <3>7, SMTT(30), ZenonT(20) DEF FilledInv, New
    <3>9. CommandInv'
      BY <1>1, <3>3, Zenon DEF AtaInv, CommandInv, CommandSize, New
    <3>10. SyncInv' /\ WritesAsAsked'
      BY <1>1, <2>5, <2>8, <3>3 DEF AtaInv, SyncInv, WritesAsAsked, New, Old
    <3> QED
      BY <1>1, <2>4, <2>6, <3>3, <3>6, <3>8, <3>9, <3>10 DEF AtaInv, AtaTypes
  <2> QED
    BY <2>7, <2>8, Zenon DEF AtaInv, AtaTypes, DriverState
<1> QED
  BY <1>2, <1>3

LEMMA WaitStep == AtaInv /\ (WaitReady \/ ksleep \/ NotReady) => AtaInv'
<1> SUFFICES ASSUME AtaInv, WaitReady \/ ksleep \/ NotReady PROVE AtaInv'
  OBVIOUS
<1>1. UNCHANGED <<dev, media, dmabuf, irq, asked>>
  BY DEF WaitReady, ksleep, NotReady
<1>2. CASE NotReady
  BY <1>1, <1>2, ReturnStep, Zenon DEF NotReady
<1>3. CASE WaitReady \/ ksleep
  <2>1. /\ drv' \in DriverState
        /\ drv'.pc \in {"ready", "sleep"} /\ drv.pc \in {"ready", "sleep"} /\ drv'.dma = drv.dma
        /\ drv'.direction = drv.direction /\ drv'.start = drv.start /\ drv'.count = drv.count
        /\ drv'.count_left = drv.count_left /\ drv'.buffer = drv.buffer
        /\ drv'.current_count = drv.current_count /\ drv'.blocks_done = drv.blocks_done
    <3>1. CASE WaitReady
      <4> DEFINE t == drv.time + 1
      <4>1. drv \in DriverState /\ t \in Nat
        BY DEF AtaInv, AtaTypes, DriverState
      <4>2. drv.pc = "ready" /\ drv' = [drv EXCEPT !.pc = "sleep", !.time = t, !.wait = 1]
        BY <3>1, Zenon DEF WaitReady, DriverAt
      <4> HIDE DEF t
      <4> QED
        BY <4>1, <4>2, Zenon DEF DriverState, InFlight
    <3>2. CASE ksleep /\ drv' = drv
      BY <3>2 DEF AtaInv, AtaTypes, DriverState, ksleep, DriverAt, InFlight
    <3>3. CASE ksleep /\ Go("ready")
      BY <3>3, SMTT(30), ZenonT(20) DEF AtaInv, AtaTypes, DriverState, ksleep, DriverAt, Go, InFlight
    <3> QED
      BY <1>3, <3>1, <3>2, <3>3 DEF ksleep
  <2>2. RequestInv' /\ FilledInv' /\ SyncInv'
    BY <1>1, <2>1 DEF AtaInv, RequestInv, FilledInv, SyncInv, InFlight, Base, New
  <2> QED
    BY <1>1, <2>1, <2>2, DriveKept, Zenon DEF AtaInv, AtaTypes
<1> QED
  BY <1>2, <1>3

(* The registers hold the whole address of a sector of the disk.           *)
LEMMA Address ==
  ASSUME AtaInv, Command
  PROVE  dev' = [dev EXCEPT !.status = "BSY", !.direction = drv.direction, !.dma = drv.dma,
                            !.nien = ~drv.dma, !.lba = drv.start + Base, !.moved = 0,
                            !.count = drv.current_count % MAX_COUNT, !.cache = None]
<1>1. /\ drv.start \in Nat /\ drv.count \in Nat /\ drv.count_left \in Nat /\ drv.count_left <= drv.count
      /\ drv.start + drv.count <= Sectors /\ drv.current_count \in 1 .. drv.count_left
  BY DEF AtaInv, AtaTypes, Command, DriverAt, DriverState, RequestInv, InFlight
<1>2. drv.start + Base \in 0 .. Sectors - 1
  BY <1>1, Sizes DEF Base
<1>3. LBA_SIZE \in Nat /\ Sectors <= LBA_SIZE
  BY AtaAssumption
<1>4. (drv.start + Base) % LBA_SIZE = drv.start + Base
  BY <1>2, <1>3, Sizes
<1> QED
  BY <1>4, Zenon DEF Command

LEMMA CommandStep == AtaInv /\ Command => AtaInv'
<1> SUFFICES ASSUME AtaInv, Command PROVE AtaInv'
  OBVIOUS
<1> DEFINE c == drv.current_count % MAX_COUNT
           l == drv.start + Base
           off == ~drv.dma
<1>1. /\ drv.pc = "ready" /\ UNCHANGED <<media, dmabuf, irq, asked>>
      /\ drv' = [drv EXCEPT !.pc = IF drv.dma THEN "busmaster" ELSE "check"]
      /\ dev' = [dev EXCEPT !.status = "BSY", !.direction = drv.direction, !.dma = drv.dma,
                            !.nien = off, !.lba = l, !.moved = 0, !.count = c, !.cache = None]
  BY Address DEF Command, DriverAt, Go
<1>2. /\ drv \in DriverState /\ dev \in DriveState /\ RequestInv /\ FilledInv /\ CommandInv /\ SyncInv
  BY DEF AtaInv, AtaTypes
<1>3. /\ drv.start \in Nat /\ drv.count \in Nat /\ drv.count_left \in Nat /\ drv.count_left <= drv.count
      /\ drv.start + drv.count <= Sectors /\ drv.current_count \in 1 .. drv.count_left
  BY <1>1, <1>2 DEF DriverState, RequestInv, InFlight
<1>4. Base \in Nat /\ l \in Nat /\ Base + drv.current_count <= drv.count
  BY <1>3 DEF Base
<1>5. c \in Nat /\ c <= drv.current_count /\ (c = 0 => MAX_COUNT <= drv.current_count)
  BY <1>3, Sizes, Register
<1>0. drv.direction \in {"READ", "WRITE"} /\ drv.dma \in BOOLEAN /\ off \in BOOLEAN /\ None \in Int
  BY <1>2 DEF DriverState, None
<1> HIDE DEF c, l, off
<1>6. /\ drv' \in DriverState /\ drv'.dma = drv.dma
      /\ drv'.pc = (IF drv.dma THEN "busmaster" ELSE "check")
      /\ drv'.direction = drv.direction /\ drv'.start = drv.start /\ drv'.count = drv.count
      /\ drv'.count_left = drv.count_left /\ drv'.buffer = drv.buffer
      /\ drv'.current_count = drv.current_count /\ drv'.blocks_done = drv.blocks_done
  BY <1>1, <1>2 DEF DriverState, InFlight
<1>7. /\ dev' \in DriveState /\ dev'.status = "BSY" /\ dev'.direction = drv.direction
      /\ dev'.dma = drv.dma /\ dev'.nien = off /\ dev'.lba = l /\ dev'.moved = 0
      /\ dev'.count = c /\ dev'.cache = None /\ dev'.bmr = dev.bmr
  BY <1>0, <1>1, <1>2, <1>4, <1>5, ZenonT(40) DEF DriveState
<1>8. PICK z \in 1 .. drv.current_count : CommandSize' = z
  BY <1>3, <1>5, <1>7, Sizes DEF CommandSize
<1>9. AtaTypes'
  BY <1>1, <1>6, <1>7 DEF AtaInv, AtaTypes
<1>10. RequestInv'
  BY <1>1, <1>2, <1>6 DEF RequestInv, InFlight, New
<1>11. FilledInv'
  BY <1>1, <1>2, <1>6, <1>7 DEF FilledInv, Base, New
<1>12. CommandInv'
  <2>1. dev'.moved < z /\ dev'.lba + z <= Sectors
    BY <1>3, <1>4, <1>7, <1>8, Sizes DEF l
  <2>2. ASSUME drv.direction = "WRITE", NEW i \in 0 .. z - 1
        PROVE  dev'.lba + i \in asked'
    <3>1. Base + i \in 0 .. drv.count - 1
      BY <1>3, <1>4, <1>8, <2>2
    <3>2. drv.start + (Base + i) \in asked
      BY <1>1, <1>2, <2>2, <3>1 DEF RequestInv
    <3> QED
      BY <1>1, <1>3, <1>4, <1>7, <1>8, <2>2, <3>2 DEF l
  <2>3. dev'.dma => ~dev'.bmr
    BY <1>1, <1>2, <1>7 DEF FilledInv
  <2> QED
    BY <1>7, <1>8, <2>1, <2>2, <2>3, Zenon DEF CommandInv
<1>13. SyncInv'
  <2>1. SameCommand'
    BY <1>3, <1>6, <1>7, <1>8 DEF SameCommand, Base, l
  <2>2. drv.blocks_done = 0
    BY <1>1, <1>2 DEF SyncInv
  <2>3. CASE drv.dma
    BY <1>6, <1>7, <2>1, <2>3, ZenonT(40) DEF SyncInv, off
  <2>4. CASE ~drv.dma
    BY <1>6, <1>7, <2>1, <2>2, <2>4 DEF SyncInv
  <2> QED
    BY <2>3, <2>4, Zenon
<1>14. WritesAsAsked'
  BY <1>1 DEF AtaInv, WritesAsAsked, New, Old
<1> QED
  BY <1>9, <1>10, <1>11, <1>12, <1>13, <1>14 DEF AtaInv

(* Steps of a driver that goes on with its chunk and leaves drv's fields   *)
(* but pc, time and wait alone.                                            *)
LEMMA SameChunk ==
  ASSUME AtaInv, NEW pc \in {"irq_wait", "check", "transfer"}, NEW time \in Nat, NEW wait \in Nat,
         drv.pc \in InFlight, drv' = [drv EXCEPT !.pc = pc, !.time = time, !.wait = wait],
         UNCHANGED asked
  PROVE  /\ drv' \in DriverState /\ RequestInv' /\ FilledInv'
         /\ drv'.pc = pc /\ drv'.dma = drv.dma /\ drv'.direction = drv.direction
         /\ drv'.start = drv.start /\ Base' = Base
         /\ drv'.current_count = drv.current_count /\ drv'.blocks_done = drv.blocks_done
<1>1. drv \in DriverState /\ RequestInv
  BY DEF AtaInv, AtaTypes
<1>2. /\ drv' \in DriverState
      /\ drv'.pc = pc /\ drv'.dma = drv.dma /\ drv'.direction = drv.direction
      /\ drv'.start = drv.start /\ drv'.count = drv.count /\ drv'.count_left = drv.count_left
      /\ drv'.buffer = drv.buffer
      /\ drv'.current_count = drv.current_count /\ drv'.blocks_done = drv.blocks_done
  BY <1>1, Zenon DEF DriverState, InFlight
<1>3. RequestInv'
  BY <1>1, <1>2 DEF RequestInv, InFlight, New
<1> QED
  BY <1>2, <1>3 DEF FilledInv, Base

LEMMA BusmasterStep == AtaInv /\ BusmasterStart => AtaInv'
<1> SUFFICES ASSUME AtaInv, BusmasterStart PROVE AtaInv'
  OBVIOUS
<1>1. /\ drv.pc = "busmaster" /\ dev' = [dev EXCEPT !.bmr = TRUE]
      /\ drv' = [drv EXCEPT !.pc = "irq_wait", !.time = 0, !.wait = ATA_IRQ_TIMEOUT]
      /\ UNCHANGED <<media, dmabuf, irq, asked>>
  BY DEF BusmasterStart, DriverAt
<1>2. /\ drv' \in DriverState /\ RequestInv' /\ FilledInv'
      /\ drv'.pc = "irq_wait" /\ drv'.dma = drv.dma /\ drv'.direction = drv.direction
      /\ drv'.start = drv.start /\ Base' = Base
      /\ drv'.current_count = drv.current_count /\ drv'.blocks_done = drv.blocks_done
  BY <1>1, Sizes, SameChunk, Zenon DEF InFlight
<1>3. /\ dev' \in DriveState /\ dev'.bmr
      /\ dev'.status = dev.status /\ dev'.direction = dev.direction /\ dev'.nien = dev.nien
      /\ dev'.dma = dev.dma /\ dev'.lba = dev.lba /\ dev'.moved = dev.moved
      /\ dev'.count = dev.count /\ dev'.cache = dev.cache
  BY <1>1, Zenon DEF AtaInv, AtaTypes, DriveState
<1>4. CommandSize' = CommandSize /\ CommandInv /\ FilledInv /\ SyncInv
  BY <1>3 DEF CommandSize, AtaInv
<1>5. SyncInv'
  BY <1>1, <1>2, <1>3, <1>4 DEF SyncInv, SameCommand
<1>6. CommandInv'
  <2>1. dev.status # "ready" /\ dev.direction = "WRITE" =>
          \A i \in 0 .. CommandSize - 1 : dmabuf[i] = New(dev.lba + i)
    <3> SUFFICES ASSUME dev.status # "ready", dev.direction = "WRITE", NEW i \in 0 .. CommandSize - 1
                 PROVE  dmabuf[i] = New(dev.lba + i)
      OBVIOUS
    <3>1. /\ drv.dma /\ drv.direction = "WRITE" /\ dev.lba = drv.start + Base
          /\ CommandSize <= drv.current_count
      BY <1>1, <1>4, Zenon DEF SyncInv, SameCommand
    <3>2. CommandSize \in Nat /\ drv.current_count \in Nat
      BY Sizes DEF CommandSize, AtaInv, AtaTypes, DriveState, DriverState
    <3>3. i \in 0 .. drv.current_count - 1
      BY <3>1, <3>2
    <3> QED
      BY <1>1, <1>4, <3>1, <3>3 DEF FilledInv
  <2> QED
    BY <1>1, <1>3, <1>4, <2>1 DEF CommandInv, New
<1>7. WritesAsAsked'
  BY <1>1 DEF AtaInv, WritesAsAsked, New, Old
<1> QED
  BY <1>1, <1>2, <1>3, <1>5, <1>6, <1>7 DEF AtaInv, AtaTypes

LEMMA IrqWaitStep == AtaInv /\ idt_wait_irq => AtaInv'
<1> SUFFICES ASSUME AtaInv, idt_wait_irq PROVE AtaInv'
  OBVIOUS
<1>1. drv.pc = "irq_wait" /\ UNCHANGED <<dev, media, dmabuf, irq, asked>>
  BY DEF idt_wait_irq, DriverAt
<1>2. CASE Return(0)
  BY <1>1, <1>2, ReturnStep, ZenonT(40)
<1>3. CASE UNCHANGED drv
  BY <1>1, <1>3, DriveKept, ZenonT(40)
     DEF AtaInv, AtaTypes, RequestInv, FilledInv, SyncInv, SameCommand, CommandSize, Base, New
<1>4. CASE drv' = [drv EXCEPT !.pc = "check", !.wait = 0]
  <2>1. drv \in DriverState /\ drv.time \in Nat /\ drv.dma
    BY <1>1 DEF AtaInv, AtaTypes, DriverState, SyncInv
  <2>2. drv' = [drv EXCEPT !.pc = "check", !.time = drv.time, !.wait = 0]
    BY <1>4, <2>1, Zenon DEF DriverState
  <2>3. drv' \in DriverState /\ RequestInv' /\ FilledInv' /\ drv'.pc = "check" /\ drv'.dma
    BY <1>1, <2>1, <2>2, SameChunk, Zenon DEF InFlight
  <2>4. SyncInv'
    BY <1>1, <2>3, Zenon DEF AtaInv, SyncInv
  <2> QED
    BY <1>1, <2>3, <2>4, DriveKept, Zenon DEF AtaInv, AtaTypes
<1> QED
  BY <1>2, <1>3, <1>4 DEF idt_wait_irq

(* A chunk is done.                                                        *)
LEMMA ChunkDone ==
  ASSUME AtaInv, NEW b \in [0 .. drv.count - 1 -> Int], drv.direction = "WRITE" => b = drv.buffer,
         drv.pc \in InFlight, Chunk(b), UNCHANGED asked
  PROVE  drv' \in DriverState /\ RequestInv' /\ FilledInv' /\ drv'.pc = "next" /\ drv'.dma = drv.dma
<1> DEFINE left == drv.count_left - drv.current_count
<1>1. drv \in DriverState /\ RequestInv /\ drv.pc # "idle"
  BY Zenon DEF AtaInv, AtaTypes, InFlight
<1>2. /\ drv.count \in Nat /\ drv.count_left \in Nat /\ drv.current_count \in Nat
      /\ drv.count_left <= drv.count /\ drv.current_count \in 1 .. drv.count_left
  BY <1>1, Zenon DEF DriverState, RequestInv
<1>3. left \in Nat /\ left <= drv.count /\ b \in Buffers
  BY <1>2, BufferType
<1>4. drv' = [drv EXCEPT !.pc = "next", !.count_left = left, !.buffer = b]
  BY DEF Chunk
<1> HIDE DEF left
<1>5. /\ drv' \in DriverState
      /\ drv'.pc = "next" /\ drv'.dma = drv.dma /\ drv'.direction = drv.direction
      /\ drv'.start = drv.start /\ drv'.count = drv.count /\ drv'.count_left = left
      /\ drv'.buffer = b
  BY <1>1, <1>3, <1>4, Zenon DEF DriverState
<1>6. RequestInv'
  BY <1>1, <1>3, <1>5, Zenon DEF RequestInv, InFlight, New
<1> QED
  BY <1>5, <1>6, Zenon DEF FilledInv

LEMMA CheckDmaStep == AtaInv /\ CheckDma => AtaInv'
<1> SUFFICES ASSUME AtaInv, CheckDma PROVE AtaInv'
  OBVIOUS
<1>1. drv.pc = "check" /\ drv.dma /\ UNCHANGED <<media, dmabuf, irq, asked>>
  BY DEF CheckDma, DriverAt
<1>2. CASE dev.status # "ready"
  <2>1. UNCHANGED <<drv, dev>>
    BY <1>2 DEF CheckDma
  <2> QED
    BY <1>1, <2>1, DriveKept, Zenon
       DEF AtaInv, AtaTypes, RequestInv, FilledInv, SyncInv, SameCommand, CommandSize, Base, New
<1>3. CASE dev.status = "ready"
  <2> DEFINE b == [i \in DOMAIN drv.buffer |->
                     IF drv.direction = "READ" /\ i - Base \in 0 .. drv.current_count - 1
                     THEN dmabuf[i - Base] ELSE drv.buffer[i]]
  <2>1. dev' = [dev EXCEPT !.bmr = FALSE] /\ Chunk(b)
    BY <1>3, Zenon DEF CheckDma
  <2>2. /\ drv \in DriverState /\ drv.buffer \in [0 .. drv.count - 1 -> Int]
        /\ drv.current_count \in Nat /\ drv.current_count <= DMA_MAX
        /\ dmabuf \in [0 .. DMA_MAX - 1 -> Int]
    BY <1>1 DEF AtaInv, AtaTypes, RequestInv, DriverState, InFlight
  <2>3. b \in [0 .. drv.count - 1 -> Int]
    <3>1. DOMAIN drv.buffer = 0 .. drv.count - 1
      BY <2>2, Zenon
    <3>2. ASSUME NEW i \in 0 .. drv.count - 1 PROVE b[i] \in Int
      <4>1. Base \in Int
        BY <2>2 DEF DriverState, Base
      <4>2. i - Base \in 0 .. drv.current_count - 1 => dmabuf[i - Base] \in Int
        BY <2>2, <4>1, Sizes
      <4> QED
        BY <2>2, <3>1, <3>2, <4>2, Zenon
    <3> QED
      BY <3>1, <3>2, Zenon
  <2>4. drv.direction = "WRITE" => b = drv.buffer
    BY <2>2, Zenon
  <2> HIDE DEF b
  <2>5. drv' \in DriverState /\ RequestInv' /\ FilledInv' /\ drv'.pc = "next" /\ drv'.dma = drv.dma
    BY <1>1, <2>1, <2>3, <2>4, ChunkDone, Zenon DEF InFlight
  <2>6. dev' \in DriveState /\ dev'.status = "ready"
    BY <1>3, <2>1, ZenonT(40) DEF AtaInv, AtaTypes, DriveState
  <2>7. SyncInv' /\ CommandInv'
    BY <1>1, <2>5, <2>6 DEF SyncInv, CommandInv
  <2>8. WritesAsAsked'
    BY <1>1, Zenon DEF AtaInv, WritesAsAsked, New, Old
  <2> QED
    BY <1>1, <2>5, <2>6, <2>7, <2>8 DEF AtaInv, AtaTypes
<1> QED
  BY <1>2, <1>3

LEMMA CheckPioStep == AtaInv /\ CheckPio => AtaInv'
<1> SUFFICES ASSUME AtaInv, CheckPio PROVE AtaInv'
  OBVIOUS
<1>1. drv.pc = "check" /\ ~drv.dma /\ UNCHANGED <<dev, media, dmabuf, irq, asked>>
  BY Zenon DEF CheckPio, DriverAt
<1>2. CASE Chunk(drv.buffer)
  <2>1. drv.buffer \in [0 .. drv.count - 1 -> Int]
    BY <1>1, Zenon DEF AtaInv, RequestInv
  <2>2. drv' \in DriverState /\ RequestInv' /\ FilledInv' /\ drv'.pc = "next" /\ drv'.dma = drv.dma
    BY <1>1, <1>2, <2>1, ChunkDone, Zenon DEF InFlight
  <2>3. SyncInv'
    BY <1>1, <2>2 DEF AtaInv, SyncInv
  <2> QED
    BY <1>1, <2>2, <2>3, DriveKept, Zenon DEF AtaInv, AtaTypes
<1>3. CASE Return(0)
  BY <1>1, <1>3, ReturnStep
<1>4. CASE UNCHANGED drv
  BY <1>1, <1>4, DriveKept, ZenonT(40)
     DEF AtaInv, AtaTypes, RequestInv, FilledInv, SyncInv, SameCommand, CommandSize, Base, New
<1>5. CASE dev.status = "DRQ" /\ Go("transfer")
  <2>1. drv \in DriverState /\ drv.time \in Nat /\ drv.wait \in Nat
    BY DEF AtaInv, AtaTypes, DriverState
  <2>2. drv' = [drv EXCEPT !.pc = "transfer", !.time = drv.time, !.wait = drv.wait]
    BY <1>5, <2>1, Zenon DEF DriverState, Go
  <2>3. /\ drv' \in DriverState /\ RequestInv' /\ FilledInv'
        /\ drv'.pc = "transfer" /\ drv'.dma = drv.dma /\ drv'.direction = drv.direction
        /\ drv'.start = drv.start /\ Base' = Base
        /\ drv'.current_count = drv.current_count /\ drv'.blocks_done = drv.blocks_done
    BY <1>1, <2>1, <2>2, SameChunk, Zenon DEF InFlight
  <2>4. SyncInv'
    BY <1>1, <1>5, <2>3, ZenonT(40) DEF AtaInv, SyncInv, SameCommand, CommandSize
  <2> QED
    BY <1>1, <2>3, <2>4, DriveKept DEF AtaInv, AtaTypes
<1> QED
  BY <1>2, <1>3, <1>4, <1>5, Zenon DEF CheckPio

(* The drive has no command any more: what it keeps.                       *)
LEMMA CommandEnds ==
  ASSUME AtaInv, dev' = CommandDone
  PROVE  /\ dev' \in DriveState /\ dev'.status = "ready" /\ dev'.dma = dev.dma
         /\ dev'.nien = dev.nien /\ dev'.bmr = dev.bmr
         /\ CommandInv' /\ SameCommand'
<1>1. dev \in DriveState /\ None \in Int
  BY DEF AtaInv, AtaTypes, None
<1>2. /\ dev' \in DriveState /\ dev'.status = "ready" /\ dev'.dma = dev.dma
      /\ dev'.nien = dev.nien /\ dev'.bmr = dev.bmr
  BY <1>1, Zenon DEF CommandDone, DriveState
<1> QED
  BY <1>2 DEF CommandInv, SameCommand

(* The drive goes on to the next sector of its command.                    *)
LEMMA NextSector ==
  ASSUME AtaInv, NEW s \in {"BSY", "DRQ"}, dev.status # "ready", dev.moved + 1 # CommandSize,
         dev' = [dev EXCEPT !.moved = @ + 1, !.cache = None, !.status = s]
  PROVE  /\ dev' \in DriveState /\ dev'.status = s /\ dev'.dma = dev.dma
         /\ dev'.nien = dev.nien /\ dev'.bmr = dev.bmr
         /\ dev'.direction = dev.direction /\ dev'.lba = dev.lba
         /\ dev'.moved = dev.moved + 1 /\ dev'.cache = None
         /\ CommandSize' = CommandSize /\ dev'.moved < CommandSize
<1> DEFINE moved == dev.moved + 1
<1>1. dev \in DriveState /\ None \in Int /\ moved \in Nat /\ CommandSize \in Nat /\ dev.moved < CommandSize
  BY Sizes, SMTT(30), ZenonT(20) DEF AtaInv, AtaTypes, None, DriveState, CommandSize, CommandInv
<1>2. dev' = [dev EXCEPT !.moved = moved, !.cache = None, !.status = s]
  BY <1>1 DEF DriveState
<1>3. moved < CommandSize
  BY <1>1 DEF DriveState
<1> HIDE DEF moved
<1>4. /\ dev' \in DriveState /\ dev'.status = s /\ dev'.dma = dev.dma
      /\ dev'.nien = dev.nien /\ dev'.bmr = dev.bmr
      /\ dev'.direction = dev.direction /\ dev'.lba = dev.lba
      /\ dev'.moved = moved /\ dev'.cache = None /\ dev'.count = dev.count
  BY <1>1, <1>2, ZenonT(40) DEF DriveState
<1> QED
  BY <1>3, <1>4 DEF moved, CommandSize

LEMMA TransferInStep == AtaInv /\ TransferIn => AtaInv'
<1> SUFFICES ASSUME AtaInv, TransferIn PROVE AtaInv'
  OBVIOUS
<1> DEFINE i == Base + drv.blocks_done
           b == [drv.buffer EXCEPT ![i] = dev.cache]
           done == drv.blocks_done + 1
<1>1. /\ drv.pc = "transfer" /\ drv.direction = "READ" /\ UNCHANGED <<media, dmabuf, irq, asked>>
      /\ dev' = IF dev.moved + 1 = CommandSize THEN CommandDone
                ELSE [dev EXCEPT !.moved = @ + 1, !.cache = None, !.status = "BSY"]
      /\ \/ Chunk(b)
         \/ drv' = [drv EXCEPT !.pc = "check", !.blocks_done = done, !.buffer = b]
  BY DEF TransferIn, DriverAt, AtaInv, AtaTypes, DriverState
<1>2. /\ drv \in DriverState /\ RequestInv /\ CommandInv /\ SyncInv /\ dev \in DriveState
      /\ drv.buffer \in [0 .. drv.count - 1 -> Int] /\ dev.cache \in Int
  BY <1>1 DEF AtaInv, AtaTypes, RequestInv, DriveState
<1>3. ~drv.dma /\ ~dev.dma /\ dev.status = "DRQ" /\ SameCommand
  BY <1>1, <1>2 DEF SyncInv
<1>4. b \in [0 .. drv.count - 1 -> Int] /\ b \in Buffers /\ done \in Nat
  <2>1. b \in [0 .. drv.count - 1 -> Int]
    BY <1>2, Zenon
  <2>2. drv.count \in Nat /\ done \in Nat
    BY <1>2 DEF DriverState
  <2> HIDE DEF b
  <2> QED
    BY <2>1, <2>2, BufferType
<1> HIDE DEF b, i, done
<1>5. /\ dev' \in DriveState /\ ~dev'.dma /\ CommandInv'
      /\ dev'.status # "ready" =>
           dev'.direction = dev.direction /\ dev'.lba = dev.lba /\ CommandSize' = CommandSize
  <2>1. CASE dev.moved + 1 = CommandSize
    BY <1>1, <1>3, <2>1, CommandEnds, Zenon
  <2>2. CASE dev.moved + 1 # CommandSize
    <3>1. /\ dev' \in DriveState /\ dev'.dma = dev.dma
          /\ dev'.direction = dev.direction /\ dev'.lba = dev.lba
          /\ CommandSize' = CommandSize /\ dev'.moved < CommandSize
      BY <1>1, <1>3, <2>2, NextSector
    <3>2. dev.direction = "READ" /\ dev.lba + CommandSize <= Sectors
      BY <1>1, <1>2, <1>3 DEF CommandInv, SameCommand
    <3> QED
      BY <1>3, <3>1, <3>2 DEF CommandInv
  <2> QED
    BY <2>1, <2>2
<1>6. WritesAsAsked'
  BY <1>1 DEF AtaInv, WritesAsAsked, New, Old
<1>7. CASE Chunk(b)
  <2>1. drv' \in DriverState /\ RequestInv' /\ FilledInv' /\ drv'.pc = "next" /\ drv'.dma = drv.dma
    BY <1>1, <1>4, <1>7, ChunkDone, Zenon DEF InFlight
  <2>2. SyncInv'
    BY <1>5, <2>1 DEF SyncInv
  <2> QED
    BY <1>1, <1>5, <1>6, <2>1, <2>2 DEF AtaInv, AtaTypes
<1>8. CASE drv' = [drv EXCEPT !.pc = "check", !.blocks_done = done, !.buffer = b]
  <2>1. /\ drv' \in DriverState /\ drv'.pc = "check" /\ drv'.dma = drv.dma
        /\ drv'.direction = drv.direction /\ drv'.start = drv.start /\ drv'.count = drv.count
        /\ drv'.count_left = drv.count_left /\ drv'.buffer = b
        /\ drv'.current_count = drv.current_count
    BY <1>2, <1>4, <1>8, Zenon DEF DriverState, InFlight
  <2>2. RequestInv' /\ FilledInv'
    BY <1>1, <1>2, <1>3, <1>4, <2>1 DEF RequestInv, FilledInv, InFlight
  <2>3. SyncInv'
    <3>1. SameCommand'
      BY <1>3, <1>5, <2>1 DEF SameCommand, Base
    <3> QED
      BY <1>1, <1>5, <2>1, <3>1, Zenon DEF SyncInv
  <2> QED
    BY <1>1, <1>5, <1>6, <2>1, <2>2, <2>3 DEF AtaInv, AtaTypes
<1> QED
  BY <1>1, <1>7, <1>8

LEMMA TransferOutStep == AtaInv /\ TransferOut => AtaInv'
<1> SUFFICES ASSUME AtaInv, TransferOut PROVE AtaInv'
  OBVIOUS
<1> DEFINE x == drv.buffer[Base + drv.blocks_done]
           done == drv.blocks_done + 1
<1>1. /\ drv.pc = "transfer" /\ drv.direction = "WRITE" /\ UNCHANGED <<media, dmabuf, irq, asked>>
      /\ dev' = [dev EXCEPT !.status = "BSY", !.cache = x]
      /\ drv' = [drv EXCEPT !.pc = "check", !.blocks_done = done]
  BY DEF TransferOut, DriverAt, AtaInv, AtaTypes, DriverState
<1>2. drv \in DriverState /\ RequestInv /\ CommandInv /\ SyncInv /\ dev \in DriveState
  BY DEF AtaInv, AtaTypes
<1>3. ~drv.dma /\ ~dev.dma /\ dev.status = "DRQ" /\ SameCommand
  BY <1>1, <1>2 DEF SyncInv
<1>4. /\ dev.direction = "WRITE" /\ dev.lba = drv.start + Base /\ CommandSize <= drv.current_count
      /\ dev.moved < CommandSize /\ dev.cache = None
  BY <1>1, <1>2, <1>3 DEF SameCommand, CommandInv
<1>5. drv.blocks_done = dev.moved
  BY <1>1, <1>2, <1>3, <1>4, SMTT(30), ZenonT(20) DEF SyncInv, DriveState
<1>6. x = New(dev.lba + dev.moved) /\ x \in Int /\ x # None /\ done \in Nat
  <2>1. /\ drv.start \in Nat /\ drv.count \in Nat /\ drv.count_left \in Nat /\ dev.moved \in Nat
        /\ drv.current_count \in 1 .. drv.count_left /\ drv.count_left <= drv.count /\ CommandSize \in Nat
    BY <1>1, <1>2, Sizes, Zenon DEF DriverState, DriveState, RequestInv, InFlight, CommandSize
  <2>2. Base \in Nat /\ Base + dev.moved \in 0 .. drv.count - 1
    BY <1>4, <2>1 DEF Base
  <2>3. x = New(drv.start + (Base + dev.moved))
    BY <1>1, <1>2, <1>5, <2>2 DEF RequestInv
  <2> QED
    BY <1>4, <1>5, <2>1, <2>2, <2>3, Sizes DEF New, None
<1>7. done = dev.moved + 1
  BY <1>5
<1> HIDE DEF x, done
<1>8. /\ drv' \in DriverState /\ drv'.pc = "check" /\ drv'.dma = drv.dma
      /\ drv'.direction = drv.direction /\ drv'.start = drv.start /\ drv'.count = drv.count
      /\ drv'.count_left = drv.count_left /\ drv'.buffer = drv.buffer
      /\ drv'.current_count = drv.current_count /\ drv'.blocks_done = done
  BY <1>1, <1>2, <1>6, ZenonT(40) DEF DriverState, InFlight
<1>9. /\ dev' \in DriveState /\ dev'.status = "BSY" /\ dev'.dma = dev.dma
      /\ dev'.direction = dev.direction /\ dev'.lba = dev.lba /\ dev'.moved = dev.moved
      /\ dev'.cache = x /\ dev'.count = dev.count /\ CommandSize' = CommandSize
  BY <1>1, <1>2, <1>6, Zenon DEF DriveState, CommandSize
<1>10. RequestInv' /\ FilledInv'
  BY <1>1, <1>2, <1>3, <1>8 DEF RequestInv, FilledInv, InFlight, New
<1>11. CommandInv'
  BY <1>1, <1>2, <1>3, <1>4, <1>6, <1>9 DEF CommandInv, New
<1>12. SyncInv'
  <2>1. SameCommand'
    BY <1>3, <1>8, <1>9 DEF SameCommand, Base
  <2> QED
    BY <1>3, <1>6, <1>7, <1>8, <1>9, <2>1, ZenonT(40) DEF SyncInv
<1>13. WritesAsAsked'
  BY <1>1 DEF AtaInv, WritesAsAsked, New, Old
<1> QED
  BY <1>1, <1>8, <1>9, <1>10, <1>11, <1>12, <1>13 DEF AtaInv, AtaTypes
-----------------------------------------------------------------------------
(* The steps of the drive, the interrupt and the timer                     *)

(* They leave the driver's request alone.                                  *)
LEMMA DriverKept ==
  ASSUME AtaInv, NEW w \in Nat, NEW f \in BOOLEAN,
         drv' = [drv EXCEPT !.wait = w, !.fault = f], UNCHANGED asked
  PROVE  /\ drv' \in DriverState /\ RequestInv'
         /\ drv'.pc = drv.pc /\ drv'.dma = drv.dma /\ drv'.direction = drv.direction
         /\ drv'.start = drv.start /\ Base' = Base
         /\ drv'.current_count = drv.current_count /\ drv'.blocks_done = drv.blocks_done
<1>1. drv \in DriverState /\ RequestInv
  BY DEF AtaInv, AtaTypes
<1>2. /\ drv' \in DriverState
      /\ drv'.pc = drv.pc /\ drv'.dma = drv.dma /\ drv'.direction = drv.direction
      /\ drv'.start = drv.start /\ drv'.count = drv.count /\ drv'.count_left = drv.count_left
      /\ drv'.buffer = drv.buffer
      /\ drv'.current_count = drv.current_count /\ drv'.blocks_done = drv.blocks_done
  BY <1>1, Zenon DEF DriverState
<1>3. RequestInv'
  BY <1>1, <1>2 DEF RequestInv, InFlight, New
<1> QED
  BY <1>2, <1>3 DEF Base

(* The sector the drive is at is one of the disk.                          *)
LEMMA AtSector ==
  ASSUME AtaInv, dev.status # "ready"
  PROVE  /\ dev.lba + dev.moved \in Lba /\ dev.moved \in 0 .. CommandSize - 1
         /\ media[dev.lba + dev.moved] \in Int
<1>1. /\ dev.lba \in Nat /\ dev.moved \in Nat /\ CommandSize \in Nat
      /\ dev.moved < CommandSize /\ dev.lba + CommandSize <= Sectors /\ media \in [Lba -> Int]
  BY Sizes DEF AtaInv, AtaTypes, DriveState, CommandInv, CommandSize
<1>2. dev.lba + dev.moved \in Lba /\ dev.moved \in 0 .. CommandSize - 1
  BY <1>1, Sizes, SMTT(30), ZenonT(20) DEF Lba
<1> QED
  BY <1>1, <1>2, ZenonT(40)

LEMMA SeekStep == AtaInv /\ Seek => AtaInv'
<1> SUFFICES ASSUME AtaInv, Seek PROVE AtaInv'
  OBVIOUS
<1> DEFINE x == IF ~dev.dma /\ dev.direction = "READ" THEN media[dev.lba + dev.moved] ELSE None
<1>1. /\ dev.status = "BSY" /\ (dev.dma \/ dev.direction = "READ" \/ dev.cache = None)
      /\ dev' = [dev EXCEPT !.status = "DRQ", !.cache = x]
      /\ UNCHANGED <<drv, media, dmabuf, irq, asked>>
  BY DEF Seek
<1>2. x \in Int /\ (dev.direction = "WRITE" => x = None)
  BY <1>1, AtSector DEF None
<1> HIDE DEF x
<1>3. /\ dev' \in DriveState /\ dev'.status = "DRQ" /\ dev'.dma = dev.dma /\ dev'.nien = dev.nien
      /\ dev'.direction = dev.direction /\ dev'.lba = dev.lba /\ dev'.moved = dev.moved
      /\ dev'.cache = x /\ dev'.count = dev.count /\ dev'.bmr = dev.bmr /\ CommandSize' = CommandSize
  BY <1>1, <1>2, Zenon DEF DriveState, CommandSize, AtaInv, AtaTypes
<1>4. RequestInv' /\ FilledInv' /\ WritesAsAsked'
  BY <1>1, <1>3 DEF AtaInv, RequestInv, FilledInv, WritesAsAsked, Base, New, Old
<1>5. CommandInv'
  BY <1>1, <1>2, <1>3 DEF AtaInv, CommandInv, New
<1>6. SyncInv'
  <2>1. SyncInv /\ drv.pc # "transfer"
    BY <1>1 DEF AtaInv, SyncInv
  <2>2. SameCommand => SameCommand'
    BY <1>1, <1>3 DEF SameCommand, Base
  <2>3. ASSUME drv.pc = "check", ~drv.dma, drv.direction = "WRITE"
        PROVE  dev.cache = None /\ dev'.cache = None
    BY <1>1, <1>2, <1>3, <2>1, <2>3 DEF SyncInv, SameCommand
  <2> QED
    BY <1>1, <1>3, <2>1, <2>2, <2>3 DEF SyncInv
<1> QED
  BY <1>1, <1>3, <1>4, <1>5, <1>6 DEF AtaInv, AtaTypes

(* A sector that was asked for gets its own data.                          *)
LEMMA SectorWritten ==
  ASSUME AtaInv, dev.status # "ready", dev.direction = "WRITE", UNCHANGED asked,
         media' = [media EXCEPT ![dev.lba + dev.moved] = New(dev.lba + dev.moved)]
  PROVE  media' \in [Lba -> Int] /\ WritesAsAsked'
<1> DEFINE a == dev.lba + dev.moved
<1>1. media \in [Lba -> Int] /\ a \in Lba /\ dev.moved \in 0 .. CommandSize - 1
  BY AtSector, Zenon DEF AtaInv, AtaTypes
<1>2. a \in asked
  BY <1>1, Zenon DEF AtaInv, CommandInv
<1>3. New(a) \in Int
  BY <1>1, Sizes DEF New, Lba
<1> HIDE DEF a
<1>4. media' = [media EXCEPT ![a] = New(a)]
  BY DEF a
<1>5. media' \in [Lba -> Int]
  BY <1>1, <1>3, <1>4, Zenon
<1>6. ASSUME NEW l \in Lba PROVE media'[l] = Old(l) \/ (media'[l] = New(l) /\ l \in asked)
  <2>1. CASE l = a
    BY <1>1, <1>2, <1>4, <2>1, Zenon
  <2>2. CASE l # a
    BY <1>1, <1>4, <1>6, <2>2, Zenon DEF AtaInv, WritesAsAsked
  <2> QED
    BY <2>1, <2>2, Zenon
<1>7. WritesAsAsked'
  BY <1>6 DEF WritesAsAsked, New, Old
<1> QED
  BY <1>5, <1>7, Zenon

LEMMA StoreStep == AtaInv /\ StoreSector => AtaInv'
<1> SUFFICES ASSUME AtaInv, StoreSector PROVE AtaInv'
  OBVIOUS
<1>1. /\ dev.status = "BSY" /\ ~dev.dma /\ dev.direction = "WRITE" /\ dev.cache # None
      /\ media' = [media EXCEPT ![dev.lba + dev.moved] = dev.cache]
      /\ dev' = IF dev.moved + 1 = CommandSize THEN CommandDone
                ELSE [dev EXCEPT !.moved = @ + 1, !.cache = None, !.status = "DRQ"]
      /\ UNCHANGED <<drv, dmabuf, irq, asked>>
  BY DEF StoreSector
<1>2. dev.cache = New(dev.lba + dev.moved) /\ CommandInv /\ SyncInv /\ dev \in DriveState
  BY <1>1 DEF AtaInv, AtaTypes, CommandInv
<1>3. media' \in [Lba -> Int] /\ WritesAsAsked'
  BY <1>1, <1>2, SectorWritten
<1>4. RequestInv'
  BY <1>1 DEF AtaInv, RequestInv, New
<1>5. drv.pc \notin {"busmaster", "irq_wait", "transfer"}
  BY <1>1, <1>2 DEF SyncInv
<1>6. CASE dev.moved + 1 = CommandSize
  <2>1. /\ dev' \in DriveState /\ dev'.status = "ready" /\ dev'.dma = dev.dma /\ dev'.bmr = dev.bmr
        /\ CommandInv' /\ SameCommand'
    BY <1>1, <1>6, CommandEnds, Zenon
  <2>2. FilledInv' /\ SyncInv'
    BY <1>1, <1>2, <1>5, <2>1 DEF AtaInv, FilledInv, SyncInv, Base, New
  <2> QED
    BY <1>1, <1>3, <1>4, <2>1, <2>2 DEF AtaInv, AtaTypes
<1>7. CASE dev.moved + 1 # CommandSize
  <2>1. /\ dev' \in DriveState /\ dev'.status = "DRQ" /\ dev'.dma = dev.dma
        /\ dev'.nien = dev.nien /\ dev'.bmr = dev.bmr
        /\ dev'.direction = dev.direction /\ dev'.lba = dev.lba
        /\ dev'.moved = dev.moved + 1 /\ dev'.cache = None
        /\ CommandSize' = CommandSize /\ dev'.moved < CommandSize
    BY <1>1, <1>7, NextSector
  <2>2. FilledInv'
    BY <1>1, <2>1 DEF AtaInv, FilledInv, Base, New
  <2>3. CommandInv'
    BY <1>1, <1>2, <2>1 DEF CommandInv
  <2>4. SameCommand => SameCommand'
    BY <1>1, <2>1, Zenon DEF SameCommand, Base
  <2>5. dev.moved + 1 = dev'.moved + 0
    BY <1>2, <2>1 DEF DriveState
  <2>6. SyncInv'
    BY <1>1, <1>2, <1>5, <2>1, <2>4, <2>5 DEF SyncInv
  <2> QED
    BY <1>1, <1>3, <1>4, <2>1, <2>2, <2>3, <2>6 DEF AtaInv, AtaTypes
<1> QED
  BY <1>6, <1>7

(* The interrupt of a command that is over is not lost.                    *)
LEMMA Interrupt ==
  ASSUME AtaInv, irq' = Raised
  PROVE  irq' \in [counter : {0, 1}, pending : BOOLEAN] /\ (~dev.nien => irq'.pending)
<1> DEFINE p == irq.pending \/ ~dev.nien
<1>1. p \in BOOLEAN /\ (~dev.nien => p)
  OBVIOUS
<1>2. irq \in [counter : {0, 1}, pending : BOOLEAN] /\ irq' = [irq EXCEPT !.pending = p]
  BY DEF Raised, AtaInv, AtaTypes
<1> HIDE DEF p
<1> QED
  BY <1>1, <1>2

LEMMA DmaStep == AtaInv /\ DmaTransfer => AtaInv'
<1> SUFFICES ASSUME AtaInv, DmaTransfer PROVE AtaInv'
  OBVIOUS
<1>1. /\ dev.status = "DRQ" /\ dev.dma /\ dev.bmr /\ UNCHANGED <<drv, asked>>
      /\ IF dev.direction = "READ"
         THEN dmabuf' = [dmabuf EXCEPT ![dev.moved] = media[dev.lba + dev.moved]] /\ UNCHANGED media
         ELSE media' = [media EXCEPT ![dev.lba + dev.moved] = dmabuf[dev.moved]] /\ UNCHANGED dmabuf
      /\ IF dev.moved + 1 = CommandSize
         THEN dev' = CommandDone /\ irq' = Raised
         ELSE dev' = [dev EXCEPT !.moved = @ + 1] /\ UNCHANGED irq
  BY DEF DmaTransfer
<1>2. CommandInv /\ SyncInv /\ FilledInv /\ dev \in DriveState
  BY DEF AtaInv, AtaTypes
<1>3. drv.dma /\ drv.pc \notin {"ready", "sleep", "busmaster", "transfer"}
  BY <1>1, <1>2, Zenon DEF SyncInv, FilledInv
<1>4. /\ media' \in [Lba -> Int] /\ WritesAsAsked' /\ dmabuf' \in [0 .. DMA_MAX - 1 -> Int]
      /\ dev.direction = "WRITE" => UNCHANGED dmabuf
  <2>1. CASE dev.direction = "READ"
    <3>1. media[dev.lba + dev.moved] \in Int
      BY <1>1, AtSector
    <3>2. dmabuf' \in [0 .. DMA_MAX - 1 -> Int]
      BY <1>1, <2>1, <3>1 DEF AtaInv, AtaTypes
    <3> QED
      BY <1>1, <2>1, <3>2 DEF AtaInv, AtaTypes, WritesAsAsked, New, Old
  <2>2. CASE dev.direction = "WRITE"
    <3>1. dmabuf[dev.moved] = New(dev.lba + dev.moved)
      BY <1>1, <1>2, <2>2, AtSector DEF CommandInv
    <3>2. media' = [media EXCEPT ![dev.lba + dev.moved] = New(dev.lba + dev.moved)] /\ UNCHANGED dmabuf
      BY <1>1, <2>2, <3>1
    <3> QED
      BY <1>1, <2>2, <3>2, SectorWritten DEF AtaInv, AtaTypes
  <2> QED
    BY <1>2, <2>1, <2>2 DEF DriveState
<1>5. RequestInv' /\ FilledInv'
  BY <1>1, <1>3 DEF AtaInv, RequestInv, FilledInv, New
<1>6. CASE dev.moved + 1 = CommandSize
  <2>1. /\ dev' \in DriveState /\ dev'.status = "ready" /\ dev'.dma = dev.dma
        /\ dev'.nien = dev.nien /\ CommandInv' /\ SameCommand'
    BY <1>1, <1>6, CommandEnds, Zenon
  <2>2. irq' \in [counter : {0, 1}, pending : BOOLEAN] /\ (~dev.nien => irq'.pending)
    BY <1>1, <1>6, Interrupt
  <2>3. SyncInv'
    BY <1>1, <1>2, <1>3, <2>1, <2>2 DEF SyncInv
  <2> QED
    BY <1>1, <1>4, <1>5, <2>1, <2>2, <2>3 DEF AtaInv, AtaTypes
<1>7. CASE dev.moved + 1 # CommandSize
  <2> DEFINE moved == dev.moved + 1
  <2>1. moved \in Nat /\ moved < CommandSize
    BY <1>1, <1>2, <1>7, Sizes DEF CommandInv, DriveState, CommandSize
  <2>2. dev' = [dev EXCEPT !.moved = moved]
    BY <1>1, <1>2, <1>7 DEF DriveState
  <2> HIDE DEF moved
  <2>3. /\ dev' \in DriveState /\ dev'.status = "DRQ" /\ dev'.dma = dev.dma
        /\ dev'.nien = dev.nien /\ dev'.bmr = dev.bmr
        /\ dev'.direction = dev.direction /\ dev'.lba = dev.lba
        /\ dev'.moved = moved /\ dev'.cache = dev.cache
        /\ dev'.count = dev.count /\ CommandSize' = CommandSize
    BY <1>1, <1>2, <2>1, <2>2, Zenon DEF DriveState, CommandSize
  <2>4. CommandInv'
    BY <1>1, <1>2, <1>4, <2>1, <2>3, Zenon DEF CommandInv, New
  <2>5. SameCommand => SameCommand'
    BY <1>1, <2>3 DEF SameCommand, Base
  <2>6. SyncInv' /\ UNCHANGED irq
    BY <1>1, <1>2, <1>3, <1>7, <2>3, <2>5 DEF SyncInv
  <2> QED
    BY <1>1, <1>4, <1>5, <2>3, <2>4, <2>6 DEF AtaInv, AtaTypes
<1> QED
  BY <1>6, <1>7

LEMMA ErrorStep == AtaInv /\ SectorError => AtaInv'
<1> SUFFICES ASSUME AtaInv, SectorError PROVE AtaInv'
  OBVIOUS
<1> DEFINE f == ~DriverAt("idle") \/ drv.result = 1
<1>1. /\ dev.status = "BSY" /\ dev' = CommandDone /\ irq' = Raised
      /\ drv' = [drv EXCEPT !.fault = f] /\ UNCHANGED <<media, dmabuf, asked>>
  BY Zenon DEF SectorError
<1>2. /\ f \in BOOLEAN /\ drv \in DriverState /\ drv.wait \in Nat
      /\ CommandInv /\ SyncInv /\ FilledInv /\ dev \in DriveState
  BY DEF AtaInv, AtaTypes, DriverState
<1> HIDE DEF f
<1>3. drv' = [drv EXCEPT !.wait = drv.wait, !.fault = f]
  BY <1>1, <1>2, Zenon DEF DriverState
<1>4. /\ drv' \in DriverState /\ RequestInv'
      /\ drv'.pc = drv.pc /\ drv'.dma = drv.dma /\ drv'.direction = drv.direction
      /\ drv'.start = drv.start /\ Base' = Base
      /\ drv'.current_count = drv.current_count /\ drv'.blocks_done = drv.blocks_done
  BY <1>1, <1>2, <1>3, DriverKept, Zenon
<1>5. /\ dev' \in DriveState /\ dev'.status = "ready" /\ dev'.dma = dev.dma
      /\ dev'.nien = dev.nien /\ dev'.bmr = dev.bmr /\ CommandInv' /\ SameCommand'
  BY <1>1, CommandEnds
<1>6. irq' \in [counter : {0, 1}, pending : BOOLEAN] /\ (~dev.nien => irq'.pending)
  BY <1>1, Interrupt
<1>7. FilledInv' /\ WritesAsAsked'
  BY <1>1, <1>2, <1>4, <1>5 DEF AtaInv, FilledInv, WritesAsAsked, New, Old
<1>8. SyncInv'
  BY <1>1, <1>2, <1>4, <1>5, <1>6, SMTT(30), ZenonT(20) DEF SyncInv
<1> QED
  BY <1>1, <1>4, <1>5, <1>6, <1>7, <1>8 DEF AtaInv, AtaTypes

LEMMA IrqStep == AtaInv /\ idt_handle_irq => AtaInv'
<1> SUFFICES ASSUME AtaInv, idt_handle_irq PROVE AtaInv'
  OBVIOUS
<1>1. irq' = [counter |-> 1, pending |-> FALSE] /\ UNCHANGED <<drv, dev, media, dmabuf, asked>>
  BY Zenon DEF idt_handle_irq
<1>2. irq' \in [counter : {0, 1}, pending : BOOLEAN] /\ irq'.counter > 0
  BY <1>1
<1>3. RequestInv' /\ FilledInv' /\ SyncInv'
  BY <1>1, <1>2, ZenonT(40) DEF AtaInv, RequestInv, FilledInv, SyncInv, SameCommand, CommandSize, Base, New
<1> QED
  BY <1>1, <1>2, <1>3, DriveKept DEF AtaInv, AtaTypes

LEMMA TickStep == AtaInv /\ Tick => AtaInv'
<1> SUFFICES ASSUME AtaInv, Tick PROVE AtaInv'
  OBVIOUS
<1> DEFINE w == drv.wait - 1
<1>1. /\ UNCHANGED <<dev, media, dmabuf, irq, asked>>
      /\ drv \in DriverState /\ drv.wait > 0 /\ drv' = [drv EXCEPT !.wait = w]
  BY DEF Tick, AtaInv, AtaTypes, DriverState
<1>2. w \in Nat /\ drv.fault \in BOOLEAN
  BY <1>1 DEF DriverState
<1> HIDE DEF w
<1>3. drv' = [drv EXCEPT !.wait = w, !.fault = drv.fault]
  BY <1>1, ZenonT(40) DEF DriverState
<1>4. /\ drv' \in DriverState /\ RequestInv'
      /\ drv'.pc = drv.pc /\ drv'.dma = drv.dma /\ drv'.direction = drv.direction
      /\ drv'.start = drv.start /\ Base' = Base
      /\ drv'.current_count = drv.current_count /\ drv'.blocks_done = drv.blocks_done
  BY <1>1, <1>2, <1>3, DriverKept, Zenon
<1>5. FilledInv' /\ SyncInv'
  BY <1>1, <1>4 DEF AtaInv, FilledInv, SyncInv, SameCommand, CommandSize, New
<1> QED
  BY <1>1, <1>4, <1>5, DriveKept DEF AtaInv, AtaTypes
-----------------------------------------------------------------------------
LEMMA AtaStep == AtaInv /\ [AtaNext]_ataVars => AtaInv'
<1> SUFFICES ASSUME AtaInv, [AtaNext]_ataVars PROVE AtaInv'
  OBVIOUS
<1>1. CASE Request
  BY <1>1, RequestStep
<1>2. CASE NextRequest
  BY <1>2, NextRequestStep
<1>3. CASE WaitReady \/ ksleep \/ NotReady
  BY <1>3, WaitStep, SMTT(30), ZenonT(20)
<1>4. CASE Command
  BY <1>4, CommandStep
<1>5. CASE BusmasterStart
  BY <1>5, BusmasterStep
<1>6. CASE idt_wait_irq
  BY <1>6, IrqWaitStep
<1>7. CASE CheckDma
  BY <1>7, CheckDmaStep
<1>8. CASE CheckPio
  BY <1>8, CheckPioStep
<1>9. CASE TransferIn
  BY <1>9, TransferInStep
<1>10. CASE TransferOut
  BY <1>10, TransferOutStep
<1>11. CASE Seek
  BY <1>11, SeekStep
<1>12. CASE StoreSector
  BY <1>12, StoreStep
<1>13. CASE DmaTransfer
  BY <1>13, DmaStep
<1>14. CASE SectorError
  BY <1>14, ErrorStep
<1>15. CASE idt_handle_irq
  BY <1>15, IrqStep
<1>16. CASE Tick
  BY <1>16, TickStep
<1>17. CASE UNCHANGED ataVars
  <2>1. UNCHANGED <<drv, dev, media, dmabuf, irq, asked>>
    BY <1>17 DEF ataVars
  <2>2. CommandInv' /\ WritesAsAsked'
    BY <2>1, DriveKept, Zenon
  <2>3. AtaTypes'
    BY <2>1, Zenon DEF AtaInv, AtaTypes
  <2>4. RequestInv'
    BY <2>1, Zenon DEF AtaInv, RequestInv, New
  <2>5. FilledInv'
    BY <2>1, ZenonT(40) DEF AtaInv, FilledInv, Base, New
  <2>6. SyncInv'
    BY <2>1 DEF AtaInv, SyncInv, SameCommand, CommandSize, Base
  <2> QED
    BY <2>2, <2>3, <2>4, <2>5, <2>6 DEF AtaInv
<1> QED
  BY <1>1, <1>2, <1>3, <1>4, <1>5, <1>6, <1>7, <1>8, <1>9, <1>10, <1>11, <1>12, <1>13, <1>14,
     <1>15, <1>16, <1>17 DEF AtaNext, DriverStep, DriveStep

LEMMA AtaAlways == AtaSpec => []AtaInv
BY AtaInitial, AtaStep, PTL DEF AtaSpec

(* idt_clear_irq_count before the command, and a counter instead of a      *)
(* flag: whatever timed out before, a driver that waits in idt_wait_irq    *)
(* for a drive that is done has the interrupt counted or to come.          *)
THEOREM InterruptCounted == AtaSpec => []InterruptNotMissed
<1>1. AtaInv => InterruptNotMissed
  BY DEF AtaInv, SyncInv, InterruptNotMissed, DriverAt
<1> QED
  BY <1>1, AtaAlways, PTL

(* ata_request_dma_init stops the bus master before it fills the buffer,   *)
(* and PIO hands a sector over only when the drive asks for one: with      *)
(* commands given up at any point, no sector gets another one's data or is *)
(* written without being asked for.                                        *)
THEOREM SectorsSafe == AtaSpec => []WritesAsAsked
<1>1. AtaInv => WritesAsAsked
  BY ZenonT(40) DEF AtaInv
<1> QED
  BY <1>1, AtaAlways, PTL

-----------------------------------------------------------------------------
(* What a request that succeeds has done                                   *)

InCommand == drv.pc \in {"busmaster", "irq_wait", "check", "transfer"}

(* The driver has a request, or has just done one.                         *)
Served == drv.pc # "idle" \/ drv.result = 1

(* Sectors of the chunk that the drive has moved.                          *)
SectorsMoved == IF dev.status = "ready" THEN drv.current_count ELSE dev.moved

(* PIO does not wait until the last sector of a chunk is stored: the next  *)
(* command does.                                                           *)
Pending(l) ==
  /\ dev.status = "BSY" /\ ~dev.dma /\ dev.direction = "WRITE" /\ dev.cache # None
  /\ dev.moved + 1 = CommandSize /\ dev.lba + dev.moved = l
  /\ ~InCommand

(* A chunk fits into the count register, and the drive works on it.        *)
ShapeInv ==
  /\ drv.pc \in InFlight => drv.current_count <= MAX_COUNT
  /\ InCommand /\ dev.status # "ready" =>
       /\ dev.direction = drv.direction /\ dev.dma = drv.dma
       /\ dev.lba = drv.start + Base /\ CommandSize = drv.current_count
       /\ ~drv.dma /\ drv.direction = "READ" => dev.moved = drv.blocks_done
  /\ drv.pc = "idle" /\ drv.result = 1 =>
       /\ drv.count_left = 0 /\ drv.start + drv.count <= Sectors
       /\ drv.buffer \in [0 .. drv.count - 1 -> Int]

CacheInv ==
  dev.status = "DRQ" /\ ~dev.dma /\ dev.direction = "READ" => dev.cache = media[dev.lba + dev.moved]

(* The chunks before this one are in the buffer, with PIO the sectors of   *)
(* this one too, with DMA they are in the DMA buffer; and from the first   *)
(* chunk on no command writes.                                             *)
ReadInv ==
  drv.direction = "READ" =>
    /\ Served /\ ~drv.fault => \A i \in 0 .. Base - 1 : drv.buffer[i] = media[drv.start + i]
    /\ Served /\ Base > 0 => dev.status = "ready" \/ dev.direction = "READ"
    /\ InCommand /\ ~drv.dma =>
         \A j \in 0 .. drv.blocks_done - 1 : drv.buffer[Base + j] = media[drv.start + Base + j]
    /\ InCommand /\ drv.dma /\ ~drv.fault =>
         \A j \in 0 .. SectorsMoved - 1 : dmabuf[j] = media[drv.start + Base + j]

(* The chunks before this one are on the disk, but for a sector that is    *)
(* pending, and the sectors that the drive has moved.                      *)
WriteInv ==
  drv.direction = "WRITE" /\ ~drv.fault =>
    /\ Served => \A i \in 0 .. Base - 1 : media[drv.start + i] = New(drv.start + i) \/ Pending(drv.start + i)
    /\ InCommand => \A j \in 0 .. SectorsMoved - 1 : media[drv.start + Base + j] = New(drv.start + Base + j)

ExactInv == ShapeInv /\ CacheInv /\ ReadInv /\ WriteInv

LEMMA ExactInitial == AtaInit => ExactInv
<1> SUFFICES ASSUME AtaInit PROVE ExactInv
  OBVIOUS
<1>1. PICK d \in BOOLEAN : drv = Idle(d)
  BY AtaAssumption DEF AtaInit
<1>2. drv.pc = "idle" /\ drv.result = 0 /\ dev.status = "ready"
  BY <1>1, ZenonT(40) DEF AtaInit, Idle
<1> QED
  BY <1>2 DEF ExactInv, ShapeInv, CacheInv, ReadInv, WriteInv, InCommand, Served, InFlight

(* A request that fails leaves nothing to say.                             *)
LEMMA ExactFailed ==
  ASSUME ExactInv, drv.pc # "idle", Return(0), UNCHANGED <<dev, media>>
  PROVE  ExactInv'
<1>1. drv'.pc = "idle" /\ drv'.result = 0
  BY Zenon DEF Return, Idle
<1>2. CacheInv'
  BY Zenon DEF ExactInv, CacheInv
<1> QED
  BY <1>1, <1>2 DEF ExactInv, ShapeInv, ReadInv, WriteInv, InCommand, Served, InFlight

(* The driver goes on without touching the request or the drive's command. *)
SameRequest ==
  /\ drv'.direction = drv.direction /\ drv'.start = drv.start /\ drv'.count = drv.count
  /\ drv'.count_left = drv.count_left /\ drv'.current_count = drv.current_count
  /\ drv'.blocks_done = drv.blocks_done /\ drv'.buffer = drv.buffer
  /\ drv'.result = drv.result /\ drv'.fault = drv.fault /\ drv'.dma = drv.dma

SameDrive ==
  /\ dev'.status = dev.status /\ dev'.direction = dev.direction /\ dev'.dma = dev.dma
  /\ dev'.lba = dev.lba /\ dev'.moved = dev.moved /\ dev'.count = dev.count /\ dev'.cache = dev.cache

LEMMA ExactGoesOn ==
  ASSUME ExactInv, SameRequest, SameDrive, UNCHANGED <<media, dmabuf>>,
         drv'.pc = "idle" <=> drv.pc = "idle",
         drv'.pc \in InFlight => drv.pc \in InFlight,
         InCommand' <=> InCommand
  PROVE  ExactInv'
<1>1. /\ Base' = Base /\ CommandSize' = CommandSize /\ SectorsMoved' = SectorsMoved
      /\ Served' <=> Served
  BY Zenon DEF Base, CommandSize, SectorsMoved, Served, SameRequest, SameDrive
<1>2. \A l : Pending(l)' <=> Pending(l)
  BY <1>1 DEF Pending, SameDrive
<1>3. ShapeInv'
  BY <1>1, ZenonT(40) DEF ExactInv, ShapeInv, SameRequest, SameDrive
<1>4. CacheInv'
  BY Zenon DEF ExactInv, CacheInv, SameDrive
<1>5. ReadInv'
  BY <1>1 DEF ExactInv, ReadInv, SameRequest, SameDrive
<1>6. WriteInv'
  BY <1>1, <1>2, Zenon DEF ExactInv, WriteInv, SameRequest, SameDrive, New
<1> QED
  BY <1>3, <1>4, <1>5, <1>6 DEF ExactInv

LEMMA ExactWaits ==
  ASSUME AtaInv, ExactInv,
         WaitReady \/ ksleep \/ NotReady \/ BusmasterStart \/ idt_wait_irq \/ Tick \/ idt_handle_irq
           \/ UNCHANGED ataVars
  PROVE  ExactInv'
<1> USE DEF SameRequest, SameDrive, InCommand, InFlight
<1>1. drv \in DriverState /\ dev \in DriveState
  BY DEF AtaInv, AtaTypes
<1>2. CASE WaitReady
  BY <1>1, <1>2, ExactGoesOn DEF WaitReady, DriverState, DriverAt
<1>3. CASE ksleep
  BY <1>1, <1>3, ExactGoesOn DEF ksleep, Go, DriverState, DriverAt
<1>4. CASE NotReady
  BY <1>4, ExactFailed DEF NotReady, DriverAt
<1>5. CASE BusmasterStart
  BY <1>1, <1>5, ExactGoesOn DEF BusmasterStart, DriverState, DriveState, DriverAt
<1>6. CASE idt_wait_irq
  <2>1. CASE Return(0)
    BY <1>6, <2>1, ExactFailed DEF idt_wait_irq, DriverAt
  <2>2. CASE drv' = [drv EXCEPT !.pc = "check", !.wait = 0]
    BY <1>1, <1>6, <2>2, ExactGoesOn DEF idt_wait_irq, DriverState, DriverAt
  <2>3. CASE UNCHANGED drv
    BY <1>6, <2>3, ExactGoesOn DEF idt_wait_irq
  <2> QED
    BY <1>6, <2>1, <2>2, <2>3 DEF idt_wait_irq
<1>7. CASE Tick
  BY <1>1, <1>7, ExactGoesOn, Zenon DEF Tick, DriverState
<1>8. CASE idt_handle_irq
  BY <1>8, ExactGoesOn, Zenon DEF idt_handle_irq
<1>9. CASE UNCHANGED ataVars
  BY <1>9, ExactGoesOn, ZenonT(40) DEF ataVars
<1> QED
  BY <1>2, <1>3, <1>4, <1>5, <1>6, <1>7, <1>8, <1>9

LEMMA ExactRequest == ASSUME AtaInv, ExactInv, Request PROVE ExactInv'
<1>1. PICK direction \in {"READ", "WRITE"}, start \in Starts, count \in Counts :
        drv' = [drv EXCEPT
            !.pc = "next", !.direction = direction, !.start = start, !.count = count,
            !.count_left = count, !.fault = FALSE,
            !.buffer = [i \in 0 .. count - 1 |->
                          IF direction = "WRITE" THEN New(start + i) ELSE None]]
  BY ZenonT(40) DEF Request
<1>2. drv \in DriverState /\ count \in Nat
  BY Sizes, Zenon DEF AtaInv, AtaTypes
<1>3. drv'.pc = "next" /\ drv'.count = count /\ drv'.count_left = count
  BY <1>1, <1>2 DEF DriverState
<1>4. Base' = 0
  BY <1>2, <1>3 DEF Base
<1>5. UNCHANGED <<dev, media, dmabuf>>
  BY DEF Request
<1>6. CacheInv'
  BY <1>5, Zenon DEF ExactInv, CacheInv
<1> QED
  BY <1>3, <1>4, <1>6 DEF ExactInv, ShapeInv, ReadInv, WriteInv, InCommand, InFlight

(* A new chunk, or the end of the request.                                 *)
LEMMA ExactNext ==
  ASSUME DMA_MAX <= MAX_COUNT, AtaInv, ExactInv, NextRequest
  PROVE  ExactInv'
<1>1. drv \in DriverState /\ dev \in DriveState /\ drv.pc = "next"
  BY DEF AtaInv, AtaTypes, NextRequest, DriverAt
<1>2. CASE drv.count_left = 0
  <2>1. Return(1) /\ UNCHANGED <<dev, media>>
    BY <1>2 DEF NextRequest
  <2>2. /\ drv'.pc = "idle" /\ drv'.result = 1 /\ drv'.direction = drv.direction
        /\ drv'.start = drv.start /\ drv'.count = drv.count /\ drv'.count_left = 0
        /\ drv'.buffer = drv.buffer /\ drv'.fault = drv.fault
    BY <2>1 DEF Return, Idle
  <2>3. Base' = Base /\ CommandSize' = CommandSize
    BY <1>2, <2>1, <2>2, Zenon DEF Base, CommandSize
  <2>4. ~InCommand' /\ ~InCommand /\ Served /\ Served'
    BY <1>1, <2>2, Zenon DEF InCommand, Served
  <2>5. \A l : Pending(l)' <=> Pending(l)
    BY <2>1, <2>3, <2>4, Zenon DEF Pending
  <2>6. ShapeInv'
    BY <1>1, <2>2, <2>4, Zenon DEF AtaInv, RequestInv, ShapeInv, InFlight
  <2>7. CacheInv'
    BY <2>1, ZenonT(40) DEF ExactInv, CacheInv
  <2>8. ReadInv'
    BY <2>1, <2>2, <2>3, <2>4, SMTT(30), ZenonT(20) DEF ExactInv, ReadInv
  <2>9. WriteInv'
    BY <2>1, <2>2, <2>3, <2>4, <2>5 DEF ExactInv, WriteInv, New
  <2> QED
    BY <2>6, <2>7, <2>8, <2>9, Zenon DEF ExactInv
<1>3. CASE drv.count_left # 0
  <2> DEFINE n == Lower(drv.count_left, IF drv.dma THEN DMA_MAX ELSE MAX_COUNT)
  <2>1. drv' = [drv EXCEPT !.pc = "ready", !.current_count = n, !.blocks_done = 0, !.time = 0]
    BY <1>3, Zenon DEF NextRequest
  <2>2. n <= MAX_COUNT
    BY <1>1, Sizes DEF Lower, DriverState
  <2> HIDE DEF n
  <2>3. /\ drv'.pc = "ready" /\ drv'.current_count = n /\ drv'.direction = drv.direction
        /\ drv'.start = drv.start /\ drv'.count = drv.count /\ drv'.count_left = drv.count_left
        /\ drv'.buffer = drv.buffer /\ drv'.fault = drv.fault
    BY <1>1, <2>1 DEF DriverState
  <2>4. SameDrive /\ UNCHANGED media
    BY <1>1, <1>3, Zenon DEF NextRequest, ata_request_dma_init, SameDrive, DriveState
  <2>5. Base' = Base /\ CommandSize' = CommandSize
    BY <2>3, <2>4, Zenon DEF Base, CommandSize, SameDrive
  <2>6. ~InCommand' /\ ~InCommand /\ Served /\ Served'
    BY <1>1, <2>3, Zenon DEF InCommand, Served
  <2>7. \A l : Pending(l)' <=> Pending(l)
    BY <2>4, <2>5, <2>6, Zenon DEF Pending, SameDrive
  <2>8. ShapeInv'
    BY <2>2, <2>3, <2>6, Zenon DEF ShapeInv
  <2>9. CacheInv'
    BY <2>4 DEF ExactInv, CacheInv, SameDrive
  <2>10. ReadInv'
    BY <2>3, <2>4, <2>5, <2>6, ZenonT(40) DEF ExactInv, ReadInv, SameDrive
  <2>11. WriteInv'
    BY <2>3, <2>4, <2>5, <2>6, <2>7, Zenon DEF ExactInv, WriteInv, New
  <2> QED
    BY <2>8, <2>9, <2>10, <2>11 DEF ExactInv
<1> QED
  BY <1>2, <1>3, Zenon

(* The command starts with nothing pending and nothing moved.              *)
LEMMA ExactCommand == ASSUME AtaInv, ExactInv, Command PROVE ExactInv'
<1>1. drv \in DriverState /\ dev \in DriveState /\ drv.pc = "ready" /\ dev.status # "BSY"
  BY DEF AtaInv, AtaTypes, Command, DriverAt
<1>2. drv.current_count \in Nat \ {0} /\ drv.current_count <= MAX_COUNT
  BY <1>1 DEF AtaInv, RequestInv, ExactInv, ShapeInv, InFlight, DriverState
<1>3. /\ drv'.pc \in {"busmaster", "check"} /\ drv'.direction = drv.direction
      /\ drv'.start = drv.start /\ drv'.count = drv.count /\ drv'.count_left = drv.count_left
      /\ drv'.buffer = drv.buffer /\ drv'.fault = drv.fault /\ drv'.dma = drv.dma
      /\ drv'.current_count = drv.current_count /\ drv'.blocks_done = drv.blocks_done
  BY <1>1 DEF Command, Go, DriverState
<1>4. /\ dev'.status = "BSY" /\ dev'.direction = drv.direction /\ dev'.dma = drv.dma
      /\ dev'.lba = drv.start + Base /\ dev'.moved = 0 /\ dev'.count = drv.current_count % MAX_COUNT
  BY <1>1, Address DEF DriveState
<1>5. UNCHANGED <<media, dmabuf>>
  BY Zenon DEF Command
<1>6. drv.blocks_done = 0
  BY <1>1 DEF AtaInv, SyncInv
<1>7. CommandSize' = drv.current_count
  <2>1. MAX_COUNT \in Nat \ {0}
    BY Sizes, Zenon
  <2>2. CASE drv.current_count < MAX_COUNT
    <3>1. drv.current_count % MAX_COUNT = drv.current_count
      BY <1>2, <2>1, <2>2
    <3> QED
      BY <1>2, <1>4, <3>1 DEF CommandSize
  <2>3. CASE drv.current_count = MAX_COUNT
    <3>1. drv.current_count % MAX_COUNT = 0
      BY <2>1, <2>3
    <3> QED
      BY <1>4, <2>3, <3>1 DEF CommandSize
  <2> QED
    BY <1>2, <2>1, <2>2, <2>3
<1>8. Base' = Base /\ InCommand' /\ Served /\ Served' /\ SectorsMoved' = 0
  BY <1>1, <1>3, <1>4 DEF Base, InCommand, Served, SectorsMoved
<1>9. \A l : ~Pending(l)
  BY <1>1, Zenon DEF Pending
<1>10. ShapeInv'
  BY <1>2, <1>3, <1>4, <1>6, <1>7, <1>8, Zenon DEF ShapeInv
<1>11. CacheInv'
  BY <1>4, ZenonT(40) DEF CacheInv
<1>12. ReadInv'
  BY <1>3, <1>4, <1>5, <1>6, <1>8, SMTT(30), ZenonT(20) DEF ExactInv, ReadInv
<1>13. WriteInv'
  BY <1>3, <1>5, <1>8, <1>9 DEF ExactInv, WriteInv, New
<1> QED
  BY <1>10, <1>11, <1>12, <1>13 DEF ExactInv

(* What the sectors of a chunk are, in the request's buffer.               *)
LEMMA InBuffer ==
  ASSUME AtaInv, drv.pc \in InFlight
  PROVE  /\ Base \in Nat /\ drv.current_count \in Nat /\ drv.start \in Nat /\ drv.count \in Nat
         /\ drv.current_count > 0 /\ Base + drv.current_count <= drv.count
         /\ drv.buffer \in [0 .. drv.count - 1 -> Int]
<1>1. drv \in DriverState /\ drv.pc # "idle"
  BY Zenon DEF AtaInv, AtaTypes, InFlight
<1>2. /\ drv.count_left <= drv.count /\ drv.current_count \in 1 .. drv.count_left
      /\ drv.buffer \in [0 .. drv.count - 1 -> Int]
  BY <1>1, Zenon DEF AtaInv, RequestInv
<1> QED
  BY <1>1, <1>2 DEF DriverState, Base

LEMMA ChunkPlace ==
  ASSUME NEW s \in Nat, NEW base \in Nat, NEW c \in Nat, NEW i \in 0 .. base + c - 1
  PROVE  s + i \in s .. s + base + c - 1
OBVIOUS

LEMMA SectorPlace ==
  ASSUME NEW s \in Nat, NEW base \in Nat, NEW c \in Nat, NEW d \in Nat, c = d + 1,
         NEW i \in 0 .. base + c - 1, i >= base
  PROVE  i - base \in 0 .. d /\ base + (i - base) = i /\ s + base + (i - base) = s + i
OBVIOUS

(* A chunk is done: its sectors are in the buffer, or on the disk, but for *)
(* the one that is pending.                                                *)
LEMMA ExactChunk ==
  ASSUME AtaInv, drv.pc \in {"check", "transfer"}, CacheInv',
         NEW b \in [0 .. drv.count - 1 -> Int], Chunk(b),
         drv.direction = "READ" => dev'.status = "ready" \/ dev'.direction = "READ",
         drv.direction = "READ" /\ ~drv.fault =>
           \A i \in 0 .. Base + drv.current_count - 1 : b[i] = media'[drv.start + i],
         drv.direction = "WRITE" /\ ~drv.fault =>
           \A l \in drv.start .. drv.start + Base + drv.current_count - 1 :
             media'[l] = New(l) \/ Pending(l)'
  PROVE  ExactInv'
<1>1. drv \in DriverState
  BY DEF AtaInv, AtaTypes
<1>2. /\ drv'.pc = "next" /\ drv'.direction = drv.direction /\ drv'.start = drv.start
      /\ drv'.count = drv.count /\ drv'.count_left = drv.count_left - drv.current_count
      /\ drv'.buffer = b /\ drv'.fault = drv.fault
  BY <1>1, ZenonT(40) DEF Chunk, DriverState
<1>3. Base' = Base + drv.current_count
  BY <1>1, <1>2, SMTT(30), ZenonT(20) DEF Base, DriverState
<1>4. /\ Base \in Nat /\ drv.current_count \in Nat /\ drv.start \in Nat /\ drv.count \in Nat
      /\ drv.current_count > 0 /\ Base + drv.current_count <= drv.count
  BY InBuffer DEF InFlight
<1>5. ~InCommand' /\ ShapeInv'
  BY <1>2, Zenon DEF ShapeInv, InCommand, InFlight
<1>6. ReadInv'
  <2> SUFFICES ASSUME drv.direction = "READ"
               PROVE  /\ ~drv.fault => \A i \in 0 .. Base' - 1 : b[i] = media'[drv.start + i]
                      /\ dev'.status = "ready" \/ dev'.direction = "READ"
    BY <1>2, <1>5, Zenon DEF ReadInv
  <2>1. ASSUME ~drv.fault, NEW i \in 0 .. Base' - 1 PROVE b[i] = media'[drv.start + i]
    BY <1>3, <1>4, <2>1
  <2> QED
    BY <2>1
<1>7. WriteInv'
  <2>a. 0 .. Base' - 1 = 0 .. Base + drv.current_count - 1
    BY ONLY <1>3, <1>4
  <2>b. \A i : i \in 0 .. Base' - 1 => i \in 0 .. Base + drv.current_count - 1
    BY <2>a, Zenon
  <2> SUFFICES ASSUME drv.direction = "WRITE", ~drv.fault, NEW i \in 0 .. Base + drv.current_count - 1
               PROVE  (media[drv.start + i] = New(drv.start + i) \/ Pending(drv.start + i))'
    BY <1>2, <1>5, <2>b, Zenon DEF WriteInv
  <2>0. drv.start + i \in drv.start .. drv.start + Base + drv.current_count - 1
    BY <1>4, ChunkPlace, Zenon
  <2>1. PICK l \in drv.start .. drv.start + Base + drv.current_count - 1 : l = drv.start + i
    BY <2>0, Zenon
  <2>2. media'[l] = New(l) \/ Pending(l)'
    BY Zenon
  <2>3. (drv.start + i)' = l
    BY <1>2, <2>1, Zenon
  <2> QED
    BY <2>2, <2>3, Zenon DEF New, Pending
<1> QED
  BY <1>5, <1>6, <1>7, Zenon DEF ExactInv

(* The sectors of a write, those before the chunk and those the drive has  *)
(* moved.                                                                  *)
LEMMA ChunkStored ==
  ASSUME ExactInv, InCommand, drv.direction = "WRITE", ~drv.fault,
         Base \in Nat, drv.start \in Nat, SectorsMoved \in Nat,
         NEW l \in drv.start .. drv.start + Base + SectorsMoved - 1
  PROVE  media[l] = New(l)
<1>1. Served /\ ~Pending(l)
  BY Zenon DEF InCommand, Served, Pending
<1>2. CASE l < drv.start + Base
  <2>1. l - drv.start \in 0 .. Base - 1 /\ l = drv.start + (l - drv.start)
    BY <1>2
  <2> QED
    BY <1>1, <2>1 DEF ExactInv, WriteInv
<1>3. CASE l >= drv.start + Base
  <2>1. l - (drv.start + Base) \in 0 .. SectorsMoved - 1 /\ l = drv.start + Base + (l - (drv.start + Base))
    BY <1>3
  <2> QED
    BY <2>1, Zenon DEF ExactInv, WriteInv
<1> QED
  BY <1>2, <1>3

LEMMA ExactCheckDma == ASSUME AtaInv, ExactInv, CheckDma PROVE ExactInv'
<1>1. drv.pc = "check" /\ drv.dma /\ UNCHANGED <<media, dmabuf>>
  BY Zenon DEF CheckDma, DriverAt
<1>2. CASE dev.status # "ready"
  <2>1. UNCHANGED <<drv, dev>>
    BY <1>2 DEF CheckDma
  <2> QED
    BY <1>1, <2>1, ExactGoesOn, Zenon DEF SameRequest, SameDrive, InCommand
<1>3. CASE dev.status = "ready"
  <2> DEFINE b == [i \in DOMAIN drv.buffer |->
                      IF drv.direction = "READ" /\ i - Base \in 0 .. drv.current_count - 1
                      THEN dmabuf[i - Base] ELSE drv.buffer[i]]
  <2>1. Chunk(b) /\ dev' = [dev EXCEPT !.bmr = FALSE]
    BY <1>3, Zenon DEF CheckDma
  <2>2. /\ Base \in Nat /\ drv.current_count \in Nat /\ drv.start \in Nat /\ drv.count \in Nat
        /\ drv.current_count > 0 /\ Base + drv.current_count <= drv.count
        /\ drv.buffer \in [0 .. drv.count - 1 -> Int]
    BY <1>1, InBuffer, Zenon DEF InFlight
  <2>3. dmabuf \in [0 .. DMA_MAX - 1 -> Int] /\ drv.current_count <= DMA_MAX /\ dev \in DriveState
    BY <1>1, Zenon DEF AtaInv, AtaTypes, RequestInv, InFlight
  <2>4. b \in [0 .. drv.count - 1 -> Int]
    <3>1. ASSUME NEW i \in 0 .. drv.count - 1, i - Base \in 0 .. drv.current_count - 1
          PROVE  dmabuf[i - Base] \in Int
      <4>1. i - Base \in 0 .. DMA_MAX - 1
        BY <2>2, <2>3, <3>1, Sizes
      <4> QED
        BY <2>3, <4>1, Zenon
    <3> QED
      BY <2>2, <3>1, Zenon
  <2>5. dev'.status = "ready"
    BY <1>3, <2>1, <2>3, Zenon DEF DriveState
  <2>6. InCommand /\ Served /\ SectorsMoved = drv.current_count /\ (\A l : ~Pending(l))
    BY <1>1, <1>3, ZenonT(40) DEF InCommand, Served, SectorsMoved, Pending
  <2>7. ASSUME drv.direction = "READ", ~drv.fault, NEW i \in 0 .. Base + drv.current_count - 1
        PROVE  b[i] = media'[drv.start + i]
    <3>1. i \in 0 .. drv.count - 1 /\ i \in Int
      BY <2>2, <2>7, SMTT(30), ZenonT(20)
    <3>2. CASE i < Base
      <4>1. b[i] = drv.buffer[i]
        BY <2>2, <3>1, <3>2, SMTT(30), ZenonT(20)
      <4>2. i \in 0 .. Base - 1
        BY <2>2, <3>1, <3>2
      <4> QED
        BY <1>1, <2>6, <2>7, <4>1, <4>2, Zenon DEF ExactInv, ReadInv
    <3>3. CASE i >= Base
      <4> DEFINE j == i - Base
      <4>1. j \in 0 .. drv.current_count - 1 /\ drv.start + Base + j = drv.start + i
        BY <2>2, <2>7, <3>1, <3>3, SMTT(30), ZenonT(20)
      <4>2. b[i] = dmabuf[j]
        BY <2>2, <2>7, <3>1, <4>1, Zenon
      <4> HIDE DEF j
      <4>3. dmabuf[j] = media[drv.start + Base + j]
        BY <1>1, <2>6, <2>7, <4>1, Zenon DEF ExactInv, ReadInv
      <4> QED
        BY <1>1, <4>1, <4>2, <4>3, Zenon
    <3> QED
      BY <2>2, <3>1, <3>2, <3>3
  <2>8. ASSUME drv.direction = "WRITE", ~drv.fault,
               NEW l \in drv.start .. drv.start + Base + drv.current_count - 1
        PROVE  media'[l] = New(l)
    BY <1>1, <2>2, <2>6, <2>8, ChunkStored, Zenon
  <2>9. CacheInv'
    BY <2>5 DEF CacheInv
  <2> HIDE DEF b
  <2> QED
    BY <1>1, <2>1, <2>4, <2>5, <2>7, <2>8, <2>9, ExactChunk, Zenon
<1> QED
  BY <1>2, <1>3

LEMMA OneLess ==
  ASSUME NEW s \in Nat, NEW n \in Nat, NEW m \in Nat, NEW l \in s .. s + n + (m + 1) - 1, l # s + n + m
  PROVE  l \in s .. s + n + m - 1
OBVIOUS

LEMMA ExactCheckPio == ASSUME AtaInv, ExactInv, CheckPio PROVE ExactInv'
<1>1. drv.pc = "check" /\ ~drv.dma /\ UNCHANGED <<dev, media, dmabuf>>
  BY Zenon DEF CheckPio, DriverAt
<1>2. drv \in DriverState /\ dev \in DriveState
  BY Zenon DEF AtaInv, AtaTypes
<1>3. CASE Return(0)
  BY <1>1, <1>3, ExactFailed, Zenon
<1>4. CASE UNCHANGED drv
  BY <1>1, <1>4, ExactGoesOn DEF SameRequest, SameDrive, InCommand
<1>5. CASE Go("transfer")
  BY <1>1, <1>2, <1>5, ExactGoesOn, Zenon DEF SameRequest, SameDrive, InCommand, Go, DriverState, InFlight
<1>6. CASE drv.direction = "WRITE" /\ drv.blocks_done = drv.current_count /\ Chunk(drv.buffer)
  <2>1. /\ Base \in Nat /\ drv.current_count \in Nat /\ drv.start \in Nat /\ drv.count \in Nat
        /\ drv.current_count > 0 /\ Base + drv.current_count <= drv.count
        /\ drv.buffer \in [0 .. drv.count - 1 -> Int]
    BY <1>1, InBuffer DEF InFlight
  <2>2. InCommand /\ drv'.pc = "next"
    BY <1>1, <1>2, <1>6, Zenon DEF InCommand, Chunk, DriverState
  <2>3. ASSUME ~drv.fault, NEW l \in drv.start .. drv.start + Base + drv.current_count - 1
        PROVE  media'[l] = New(l) \/ Pending(l)'
    <3>1. CASE dev.status = "ready"
      <4>1. SectorsMoved = drv.current_count
        BY <3>1, Zenon DEF SectorsMoved
      <4>2. media[l] = New(l)
        BY <1>6, <2>1, <2>2, <2>3, <4>1, ChunkStored, Zenon
      <4> QED
        BY <1>1, <4>2, Zenon
    <3>2. CASE dev.status # "ready"
      <4>1. /\ dev.direction = "WRITE" /\ ~dev.dma /\ dev.lba = drv.start + Base
            /\ CommandSize = drv.current_count
        BY <1>1, <1>6, <2>2, <3>2 DEF ExactInv, ShapeInv
      <4>2. /\ dev.moved < CommandSize /\ (dev.status = "DRQ" => dev.cache = None)
            /\ drv.blocks_done = dev.moved + (IF dev.cache = None THEN 0 ELSE 1)
        BY <1>1, <1>6, <3>2, <4>1, Zenon DEF AtaInv, CommandInv, SyncInv
      <4>3. dev.moved \in Nat
        BY <1>2, ZenonT(40) DEF DriveState
      <4>4. dev.cache # None /\ dev.moved + 1 = CommandSize
        BY <1>6, <2>1, <4>1, <4>2, <4>3, SMTT(30), ZenonT(20)
      <4>5. dev.status = "BSY"
        BY <1>2, <3>2, <4>2, <4>4, Zenon DEF DriveState
      <4>6. CASE l = dev.lba + dev.moved
        <5>1. CommandSize' = CommandSize /\ ~InCommand'
          BY <1>1, <2>2 DEF CommandSize, InCommand
        <5> QED
          BY <1>1, <4>1, <4>4, <4>5, <4>6, <5>1, Zenon DEF Pending
      <4>7. CASE l # dev.lba + dev.moved
        <5>1. SectorsMoved = dev.moved
          BY <3>2, Zenon DEF SectorsMoved
        <5>2. l # drv.start + Base + dev.moved /\ drv.current_count = dev.moved + 1
          BY <4>1, <4>4, <4>7, Zenon
        <5>4. l \in drv.start .. drv.start + Base + (dev.moved + 1) - 1
          BY <2>3, <5>2, Zenon
        <5>5. l \in drv.start .. drv.start + Base + SectorsMoved - 1
          BY ONLY <2>1, <4>3, <5>1, <5>2, <5>4, OneLess, ZenonT(40)
        <5>3. media[l] = New(l)
          BY <1>6, <2>1, <2>2, <2>3, <4>3, <5>1, <5>5, ChunkStored, ZenonT(40)
        <5> QED
          BY <1>1, <5>3
      <4> QED
        BY <4>6, <4>7, ZenonT(40)
    <3> QED
      BY <3>1, <3>2, Zenon
  <2>4. CacheInv'
    BY <1>1 DEF ExactInv, CacheInv
  <2> QED
    BY <1>1, <1>6, <2>1, <2>3, <2>4, ExactChunk, ZenonT(40)
<1> QED
  BY <1>3, <1>4, <1>5, <1>6, Zenon DEF CheckPio

LEMMA ExactTransferIn == ASSUME AtaInv, ExactInv, TransferIn PROVE ExactInv'
<1> DEFINE at == Base + drv.blocks_done
           b  == [drv.buffer EXCEPT ![at] = dev.cache]
<1>1. /\ drv.pc = "transfer" /\ drv.direction = "READ" /\ UNCHANGED <<media, dmabuf>>
      /\ dev' = IF dev.moved + 1 = CommandSize THEN CommandDone
                ELSE [dev EXCEPT !.moved = @ + 1, !.cache = None, !.status = "BSY"]
      /\ IF drv.blocks_done + 1 >= drv.current_count
         THEN Chunk(b)
         ELSE drv' = [drv EXCEPT !.pc = "check", !.blocks_done = @ + 1, !.buffer[at] = dev.cache]
  BY DEF TransferIn, DriverAt
<1>2. drv \in DriverState /\ dev \in DriveState /\ ~drv.dma /\ dev.status = "DRQ"
  BY <1>1 DEF AtaInv, AtaTypes, SyncInv
<1>3. InCommand /\ Served
  BY <1>1 DEF InCommand, Served
<1>4. /\ Base \in Nat /\ drv.current_count \in Nat /\ drv.start \in Nat /\ drv.count \in Nat
      /\ drv.current_count > 0 /\ Base + drv.current_count <= drv.count
      /\ drv.buffer \in [0 .. drv.count - 1 -> Int]
  BY <1>1, InBuffer DEF InFlight
<1>5. /\ dev.direction = "READ" /\ ~dev.dma /\ dev.lba = drv.start + Base
      /\ CommandSize = drv.current_count /\ dev.moved = drv.blocks_done
  BY <1>1, <1>2, <1>3, ZenonT(40) DEF ExactInv, ShapeInv
<1>6. dev.moved < CommandSize /\ dev.moved \in Nat /\ dev.cache \in Int
  BY <1>2 DEF AtaInv, CommandInv, DriveState
<1>15. drv.blocks_done \in Nat /\ drv.blocks_done < drv.current_count
  BY <1>5, <1>6
<1>16. drv.pc = "transfer" /\ drv.direction = "READ" /\ UNCHANGED <<media, dmabuf>>
  BY <1>1, Zenon
<1>7. dev.lba + dev.moved = drv.start + at /\ at \in 0 .. drv.count - 1
  BY <1>4, <1>5, <1>6, SMTT(30), ZenonT(20)
<1>8. dev.cache = media[drv.start + at]
  BY <1>2, <1>5, <1>7, Zenon DEF ExactInv, CacheInv
<1>9. b \in [0 .. drv.count - 1 -> Int]
  BY <1>4, <1>6, Zenon
<1>10. ASSUME NEW i \in 0 .. drv.count - 1 PROVE b[i] = IF i = at THEN dev.cache ELSE drv.buffer[i]
  BY <1>4, <1>10, Zenon
<1>11. ASSUME NEW i \in 0 .. drv.blocks_done PROVE b[Base + i] = media[drv.start + Base + i]
  <2>1. Base + i \in 0 .. drv.count - 1 /\ (Base + i = at <=> i = drv.blocks_done)
    BY <1>4, <1>11, <1>15, SMTT(30), ZenonT(20)
  <2>2. CASE i = drv.blocks_done
    <3>1. drv.start + Base + i = drv.start + at /\ Base + i = at
      BY <1>4, <1>5, <1>6, <2>2
    <3> QED
      BY <1>8, <1>10, <2>1, <3>1, Zenon
  <2>3. CASE i # drv.blocks_done
    <3>1. i \in 0 .. drv.blocks_done - 1
      BY <1>5, <1>6, <1>11, <2>3
    <3>2. drv.buffer[Base + i] = media[drv.start + Base + i]
      BY <1>1, <1>2, <1>3, <3>1, Zenon DEF ExactInv, ReadInv
    <3> QED
      BY <1>10, <2>1, <2>3, <3>2
  <2> QED
    BY <2>2, <2>3, Zenon
<1>12. ASSUME ~drv.fault, NEW i \in 0 .. Base - 1 PROVE b[i] = media[drv.start + i]
  <2>1. i \in 0 .. drv.count - 1 /\ i # at
    BY <1>4, <1>5, <1>6, <1>12, SMTT(30), ZenonT(20)
  <2>2. drv.buffer[i] = media[drv.start + i]
    BY <1>1, <1>3, <1>12, Zenon DEF ExactInv, ReadInv
  <2> QED
    BY <1>10, <2>1, <2>2, ZenonT(40)
<1>13. CASE dev.moved + 1 = CommandSize
  <2>1. dev'.status = "ready"
    BY <1>1, <1>13, CommandEnds, Zenon
  <2>2. drv.blocks_done + 1 >= drv.current_count
    BY <1>4, <1>5, <1>6, <1>13
  <2>3. Chunk(b)
    BY <1>1, <2>2, ZenonT(40)
  <2>4. ASSUME ~drv.fault, NEW i \in 0 .. Base + drv.current_count - 1 PROVE b[i] = media'[drv.start + i]
    <3>1. CASE i < Base
      <4>1. i \in 0 .. Base - 1
        BY <1>4, <2>4, <3>1
      <4> QED
        BY <1>1, <1>12, <2>4, <4>1, Zenon
    <3>2. CASE i >= Base
      <4> DEFINE j == i - Base
      <4>1. j \in 0 .. drv.blocks_done /\ Base + j = i /\ drv.start + Base + j = drv.start + i
        <5>1. drv.blocks_done \in Nat /\ drv.current_count = drv.blocks_done + 1
          BY <1>5, <1>13, <1>15, Zenon
        <5>2. PICK s, base, c, d : /\ s = drv.start /\ base = Base
                                   /\ c = drv.current_count /\ d = drv.blocks_done
          BY Zenon
        <5>3. /\ s \in Nat /\ base \in Nat /\ c \in Nat /\ d \in Nat /\ c = d + 1
              /\ i \in 0 .. base + c - 1 /\ i >= base
          BY <1>4, <2>4, <3>2, <5>1, <5>2, ZenonT(40)
        <5>4. i - base \in 0 .. d /\ base + (i - base) = i /\ s + base + (i - base) = s + i
          BY ONLY <5>3, SectorPlace
        <5> QED
          BY <5>2, <5>4, Zenon
      <4> HIDE DEF j, b
      <4>2. b[Base + j] = media[drv.start + Base + j]
        BY <1>11, <4>1
      <4> QED
        BY <1>1, <4>1, <4>2, Zenon
    <3> QED
      BY <1>4, <2>4, <3>1, <3>2
  <2>5. CacheInv'
    BY <2>1 DEF CacheInv
  <2> HIDE DEF b
  <2> QED
    BY <1>1, <1>9, <2>1, <2>3, <2>4, <2>5, ExactChunk, Zenon
<1>14. CASE dev.moved + 1 # CommandSize
  <2>1. /\ dev'.status = "BSY" /\ dev'.dma = dev.dma /\ dev'.direction = dev.direction
        /\ dev'.lba = dev.lba /\ dev'.moved = dev.moved + 1 /\ CommandSize' = CommandSize
    BY <1>1, <1>2, <1>14, NextSector, ZenonT(40)
  <2>2. ~(drv.blocks_done + 1 >= drv.current_count)
    BY <1>4, <1>5, <1>6, <1>14
  <2>3. drv' = [drv EXCEPT !.pc = "check", !.blocks_done = drv.blocks_done + 1, !.buffer = b]
    BY <1>1, <1>2, <2>2, Zenon DEF DriverState
  <2> HIDE DEF b, at
  <2>4. /\ drv'.pc = "check" /\ drv'.direction = drv.direction /\ drv'.start = drv.start
        /\ drv'.count = drv.count /\ drv'.count_left = drv.count_left /\ drv'.dma = drv.dma
        /\ drv'.current_count = drv.current_count /\ drv'.blocks_done = drv.blocks_done + 1
        /\ drv'.buffer = b /\ drv'.fault = drv.fault
    BY <1>2, <2>3, Zenon DEF DriverState
  <2>5. Base' = Base /\ InCommand'
    BY <2>4, Zenon DEF Base, InCommand
  <2>6. ShapeInv'
    <3>1. drv'.current_count <= MAX_COUNT
      BY <1>16, <2>4, Zenon DEF ExactInv, ShapeInv, InFlight
    <3>2. dev'.moved = drv'.blocks_done /\ dev'.lba = drv'.start + Base'
      BY <1>5, <2>1, <2>4, <2>5, ZenonT(40)
    <3>3. dev'.dma = drv'.dma
      BY <1>2, <1>3, <2>1, <2>4 DEF ExactInv, ShapeInv
    <3> QED
      BY <1>5, <1>16, <2>1, <2>4, <3>1, <3>2, <3>3, Zenon DEF ShapeInv
  <2>7. CacheInv' /\ WriteInv'
    BY <1>1, <2>1, <2>4, ZenonT(40) DEF CacheInv, WriteInv
  <2>8. 0 .. drv'.blocks_done - 1 = 0 .. drv.blocks_done
    BY <1>5, <1>6, <2>4, SMTT(30), ZenonT(20)
  <2>9. ReadInv'
    <3>1. \A i \in 0 .. drv'.blocks_done - 1 : b[Base + i] = media[drv.start + Base + i]
      BY <1>11, <2>8, Zenon
    <3>2. ~drv.fault => \A i \in 0 .. Base - 1 : b[i] = media[drv.start + i]
      BY <1>12, Zenon
    <3> QED
      BY <1>2, <1>5, <1>16, <2>1, <2>4, <2>5, <3>1, <3>2 DEF ReadInv
  <2> QED
    BY <2>6, <2>7, <2>9, Zenon DEF ExactInv
<1> QED
  BY <1>13, <1>14

LEMMA ExactTransferOut == ASSUME AtaInv, ExactInv, TransferOut PROVE ExactInv'
<1>1. /\ drv.pc = "transfer" /\ drv.direction = "WRITE" /\ UNCHANGED <<media, dmabuf>>
      /\ dev' = [dev EXCEPT !.status = "BSY", !.cache = drv.buffer[Base + drv.blocks_done]]
      /\ drv' = [drv EXCEPT !.pc = "check", !.blocks_done = @ + 1]
  BY DEF TransferOut, DriverAt
<1>2. drv \in DriverState /\ dev \in DriveState /\ dev.status = "DRQ"
  BY <1>1 DEF AtaInv, AtaTypes, SyncInv
<1>3. /\ drv'.pc = "check" /\ drv'.direction = drv.direction /\ drv'.start = drv.start
      /\ drv'.count = drv.count /\ drv'.count_left = drv.count_left /\ drv'.dma = drv.dma
      /\ drv'.current_count = drv.current_count /\ drv'.fault = drv.fault
  BY <1>1, <1>2 DEF DriverState
<1>4. /\ dev'.status = "BSY" /\ dev'.dma = dev.dma /\ dev'.direction = dev.direction
      /\ dev'.lba = dev.lba /\ dev'.moved = dev.moved /\ dev'.count = dev.count
  BY <1>1, <1>2 DEF DriveState
<1>5. /\ Base' = Base /\ CommandSize' = CommandSize /\ InCommand /\ InCommand' /\ Served
      /\ SectorsMoved' = SectorsMoved
  BY <1>1, <1>2, <1>3, <1>4 DEF Base, CommandSize, InCommand, Served, SectorsMoved
<1>6. \A l : ~Pending(l)
  BY <1>5 DEF Pending
<1>7. ShapeInv'
  BY <1>1, <1>2, <1>3, <1>4, <1>5 DEF ExactInv, ShapeInv, InFlight
<1>8. CacheInv' /\ ReadInv'
  BY <1>1, <1>3, <1>4 DEF CacheInv, ReadInv
<1>9. WriteInv'
  BY <1>1, <1>3, <1>5, <1>6 DEF ExactInv, WriteInv, New
<1> QED
  BY <1>7, <1>8, <1>9 DEF ExactInv

LEMMA ExactSeek == ASSUME AtaInv, ExactInv, Seek PROVE ExactInv'
<1>1. /\ dev.status = "BSY" /\ (dev.dma \/ dev.direction = "READ" \/ dev.cache = None)
      /\ dev' = [dev EXCEPT !.status = "DRQ",
                            !.cache = IF ~dev.dma /\ dev.direction = "READ"
                                      THEN media[dev.lba + dev.moved] ELSE None]
      /\ UNCHANGED <<drv, media, dmabuf>>
  BY Zenon DEF Seek
<1>2. dev \in DriveState
  BY DEF AtaInv, AtaTypes
<1>3. /\ dev'.status = "DRQ" /\ dev'.dma = dev.dma /\ dev'.direction = dev.direction
      /\ dev'.lba = dev.lba /\ dev'.moved = dev.moved /\ dev'.count = dev.count
      /\ ~dev.dma /\ dev.direction = "READ" => dev'.cache = media[dev.lba + dev.moved]
  BY <1>1, <1>2 DEF DriveState
<1>4. /\ Base' = Base /\ CommandSize' = CommandSize /\ SectorsMoved' = SectorsMoved
      /\ (InCommand' <=> InCommand) /\ (Served' <=> Served)
  BY <1>1, <1>3 DEF Base, CommandSize, InCommand, Served, SectorsMoved
<1>5. \A l : ~Pending(l)
  BY <1>1 DEF Pending
<1>6. ShapeInv'
  BY <1>1, <1>3, <1>4 DEF ExactInv, ShapeInv
<1>7. CacheInv'
  BY <1>1, <1>3 DEF CacheInv
<1>8. ReadInv'
  BY <1>1, <1>3, <1>4 DEF ExactInv, ReadInv
<1>9. WriteInv'
  BY <1>1, <1>4, <1>5, Zenon DEF ExactInv, WriteInv, New
<1> QED
  BY <1>6, <1>7, <1>8, <1>9 DEF ExactInv

(* The drive has stored a sector, and is at the next one or done.          *)
LEMMA ExactStored ==
  ASSUME AtaInv, ExactInv, dev.status # "ready", dev.direction = "WRITE", UNCHANGED drv,
         media' = [media EXCEPT ![dev.lba + dev.moved] = New(dev.lba + dev.moved)],
         dev'.status # "BSY", dev.moved + 1 = CommandSize <=> dev'.status = "ready",
         dev'.status # "ready" =>
           /\ dev'.direction = dev.direction /\ dev'.dma = dev.dma /\ dev'.lba = dev.lba
           /\ dev'.moved = dev.moved + 1 /\ CommandSize' = CommandSize
  PROVE  ExactInv'
<1>1. /\ media \in [Lba -> Int] /\ drv \in DriverState /\ dev.moved \in Nat /\ dev.lba \in Nat
      /\ CommandSize \in Nat
  BY Sizes, Zenon DEF AtaInv, AtaTypes, DriveState, CommandSize
<1>2. Base' = Base /\ (InCommand' <=> InCommand) /\ (Served' <=> Served)
  BY ZenonT(40) DEF Base, InCommand, Served
<1>3. ASSUME NEW l \in Int, media[l] = New(l) PROVE media'[l] = New(l)
  BY <1>1, <1>3
<1>4. media'[dev.lba + dev.moved] = New(dev.lba + dev.moved)
  BY <1>1, AtSector, ZenonT(40)
<1>5. InCommand => /\ dev.direction = drv.direction /\ dev.lba = drv.start + Base
                   /\ CommandSize = drv.current_count
                   /\ SectorsMoved = dev.moved /\ SectorsMoved' = dev.moved + 1
  BY DEF ExactInv, ShapeInv, SectorsMoved
<1>6. ShapeInv'
  BY <1>2, <1>5, Zenon DEF ExactInv, ShapeInv
<1>7. CacheInv'
  BY ZenonT(40) DEF CacheInv
<1>8. ReadInv'
  <2>1. drv.direction = "READ" /\ Served => ~(Base > 0) /\ ~InCommand
    BY <1>5, ZenonT(40) DEF ExactInv, ReadInv
  <2>2. Base \in Int
    BY <1>1 DEF Base, DriverState
  <2>3. drv.direction = "READ" /\ Served => \A i \in 0 .. Base - 1 : FALSE
    BY <2>1, <2>2
  <2> QED
    BY <1>2, <2>1, <2>3 DEF ReadInv, InCommand, Served
<1>9. WriteInv'
  <2> SUFFICES ASSUME drv.direction = "WRITE", ~drv.fault PROVE WriteInv'
    BY Zenon DEF WriteInv
  <2>1. drv.start \in Nat /\ Base \in Int
    BY <1>1 DEF Base, DriverState
  <2>2. ASSUME Served, NEW i \in 0 .. Base - 1 PROVE media'[drv.start + i] = New(drv.start + i)
    <3>1. media[drv.start + i] = New(drv.start + i) \/ Pending(drv.start + i)
      BY <2>2, Zenon DEF ExactInv, WriteInv
    <3>2. Pending(drv.start + i) => drv.start + i = dev.lba + dev.moved
      BY Zenon DEF Pending
    <3>3. drv.start + i \in Int
      BY <2>1, SMTT(30), ZenonT(20)
    <3> QED
      BY <1>3, <1>4, <3>1, <3>2, <3>3, Zenon
  <2>3. ASSUME InCommand, NEW j \in 0 .. SectorsMoved' - 1
        PROVE  media'[drv.start + Base + j] = New(drv.start + Base + j)
    <3>1. j \in 0 .. dev.moved
      BY <1>1, <1>5, <2>3
    <3>2. CASE j = dev.moved
      BY <1>4, <1>5, <2>3, <3>2, Zenon
    <3>3. CASE j # dev.moved
      <4>1. j \in 0 .. SectorsMoved - 1 /\ drv.start + Base + j \in Int
        BY <1>1, <1>5, <2>1, <2>3, <3>1, <3>3, SMTT(30), ZenonT(20)
      <4>2. media[drv.start + Base + j] = New(drv.start + Base + j)
        BY <2>3, <4>1 DEF ExactInv, WriteInv
      <4> QED
        BY <1>3, <4>1, <4>2, ZenonT(40)
    <3> QED
      BY <3>2, <3>3
  <2> QED
    BY <1>2, <2>2, <2>3, Zenon DEF WriteInv, New
<1> QED
  BY <1>6, <1>7, <1>8, <1>9, Zenon DEF ExactInv

LEMMA ExactStore == ASSUME AtaInv, ExactInv, StoreSector PROVE ExactInv'
<1>1. /\ dev.status = "BSY" /\ ~dev.dma /\ dev.direction = "WRITE" /\ dev.cache # None
      /\ media' = [media EXCEPT ![dev.lba + dev.moved] = dev.cache]
      /\ dev' = IF dev.moved + 1 = CommandSize THEN CommandDone
                ELSE [dev EXCEPT !.moved = @ + 1, !.cache = None, !.status = "DRQ"]
      /\ UNCHANGED drv
  BY DEF StoreSector
<1>2. media' = [media EXCEPT ![dev.lba + dev.moved] = New(dev.lba + dev.moved)]
  BY <1>1, Zenon DEF AtaInv, CommandInv
<1>3. CASE dev.moved + 1 = CommandSize
  <2>1. dev'.status = "ready"
    BY <1>1, <1>3, CommandEnds
  <2> QED
    BY <1>1, <1>2, <1>3, <2>1, ExactStored, Zenon
<1>4. CASE dev.moved + 1 # CommandSize
  <2>1. /\ dev'.status = "DRQ" /\ dev'.direction = dev.direction /\ dev'.dma = dev.dma
        /\ dev'.lba = dev.lba /\ dev'.moved = dev.moved + 1 /\ CommandSize' = CommandSize
    BY <1>1, <1>4, NextSector, Zenon
  <2> QED
    BY <1>1, <1>2, <1>4, <2>1, ExactStored, Zenon
<1> QED
  BY <1>3, <1>4

LEMMA ExactDma == ASSUME AtaInv, ExactInv, DmaTransfer PROVE ExactInv'
<1>1. /\ dev.status = "DRQ" /\ dev.dma /\ dev.bmr /\ dev.moved < PrdSize /\ UNCHANGED drv
      /\ dev.direction = "READ" =>
           dmabuf' = [dmabuf EXCEPT ![dev.moved] = media[dev.lba + dev.moved]] /\ UNCHANGED media
      /\ dev.direction # "READ" =>
           media' = [media EXCEPT ![dev.lba + dev.moved] = dmabuf[dev.moved]] /\ UNCHANGED dmabuf
      /\ dev.moved + 1 = CommandSize => dev' = CommandDone
      /\ dev.moved + 1 # CommandSize => dev' = [dev EXCEPT !.moved = @ + 1]
  BY Zenon DEF DmaTransfer
<1>2. dev \in DriveState /\ dmabuf \in [0 .. DMA_MAX - 1 -> Int] /\ drv \in DriverState
  BY Zenon DEF AtaInv, AtaTypes
<1>3. /\ dev.moved + 1 = CommandSize <=> dev'.status = "ready"
      /\ dev'.status # "BSY"
      /\ dev'.status # "ready" =>
           /\ dev'.direction = dev.direction /\ dev'.dma = dev.dma /\ dev'.lba = dev.lba
           /\ dev'.moved = dev.moved + 1 /\ CommandSize' = CommandSize
  <2>1. CASE dev.moved + 1 = CommandSize
    BY <1>1, <2>1, CommandEnds, Zenon
  <2>2. CASE dev.moved + 1 # CommandSize
    <3>1. /\ dev'.status = "DRQ" /\ dev'.direction = dev.direction /\ dev'.dma = dev.dma
          /\ dev'.lba = dev.lba /\ dev'.moved = dev.moved + 1 /\ dev'.count = dev.count
      BY <1>1, <1>2, <2>2, Zenon DEF DriveState
    <3> QED
      BY <2>2, <3>1, Zenon DEF CommandSize
  <2> QED
    BY <2>1, <2>2
<1>4. CASE dev.direction = "WRITE"
  <2>1. dev.moved \in 0 .. CommandSize - 1
    BY <1>1, AtSector
  <2>2. dmabuf[dev.moved] = New(dev.lba + dev.moved)
    BY <1>1, <1>4, <2>1 DEF AtaInv, CommandInv
  <2> QED
    BY <1>1, <1>3, <1>4, <2>2, ExactStored, Zenon
<1>5. CASE dev.direction = "READ"
  <2>1. UNCHANGED <<drv, media>> /\ dmabuf' = [dmabuf EXCEPT ![dev.moved] = media[dev.lba + dev.moved]]
    BY <1>1, <1>5
  <2>2. Base' = Base /\ (InCommand' <=> InCommand) /\ (Served' <=> Served) /\ (\A l : ~Pending(l))
    BY <1>1, <2>1 DEF Base, InCommand, Served, Pending
  <2>3. InCommand => /\ dev.direction = drv.direction /\ dev.lba = drv.start + Base /\ dev.dma = drv.dma
                     /\ CommandSize = drv.current_count
                     /\ SectorsMoved = dev.moved /\ SectorsMoved' = dev.moved + 1
    BY <1>1, <1>3, <2>1, Zenon DEF ExactInv, ShapeInv, SectorsMoved
  <2>4. ShapeInv'
    BY <1>1, <1>3, <2>1, <2>2, <2>3, Zenon DEF ExactInv, ShapeInv
  <2>5. CacheInv'
    BY <1>1, <1>3, Zenon DEF CacheInv
  <2>6. ASSUME InCommand, drv.direction = "READ", ~drv.fault, NEW j \in 0 .. dev.moved
        PROVE  dmabuf'[j] = media[drv.start + Base + j]
    <3>1. dev.moved \in Nat /\ dev.moved \in 0 .. DMA_MAX - 1
      <4>1. drv.pc \in InFlight /\ drv.pc # "idle" /\ drv.dma
        BY <1>1, <2>6, Zenon DEF InCommand, InFlight, AtaInv, SyncInv
      <4>2. drv.current_count <= DMA_MAX
        BY <4>1 DEF AtaInv, RequestInv
      <4>3. dev.moved \in 0 .. drv.current_count - 1
        BY <1>1, <2>3, <2>6, AtSector, Zenon
      <4> QED
        BY <1>2, <4>2, <4>3, Sizes, SMTT(30), ZenonT(20) DEF DriverState
    <3>2. CASE j = dev.moved
      BY <1>2, <2>1, <2>3, <2>6, <3>1, <3>2, Zenon
    <3>3. CASE j # dev.moved
      <4>1. j \in 0 .. SectorsMoved - 1 /\ j \in 0 .. DMA_MAX - 1
        BY <2>3, <2>6, <3>1, <3>3, Sizes
      <4>2. dmabuf'[j] = dmabuf[j]
        BY <1>2, <2>1, <3>3, <4>1
      <4>3. dmabuf[j] = media[drv.start + Base + j]
        BY <1>1, <2>3, <2>6, <4>1, Zenon DEF ExactInv, ReadInv
      <4> QED
        BY <4>2, <4>3, ZenonT(40)
    <3> QED
      BY <3>2, <3>3, Zenon
  <2>7. InCommand => 0 .. SectorsMoved' - 1 = 0 .. dev.moved
    BY <1>2, <2>3 DEF DriveState
  <2>8. ReadInv'
    BY <1>3, <1>5, <2>1, <2>2, <2>6, <2>7, ZenonT(40) DEF ExactInv, ReadInv
  <2>9. WriteInv'
    BY <1>5, <2>1, <2>2, <2>3, Zenon DEF ExactInv, WriteInv, New
  <2> QED
    BY <2>4, <2>5, <2>8, <2>9 DEF ExactInv
<1> QED
  BY <1>2, <1>4, <1>5 DEF DriveState

(* A sector in error is the drive's fault, not the driver's.               *)
LEMMA ExactError == ASSUME AtaInv, ExactInv, SectorError PROVE ExactInv'
<1>1. dev' = CommandDone /\ drv' = [drv EXCEPT !.fault = ~DriverAt("idle") \/ drv.result = 1]
      /\ UNCHANGED <<media, dmabuf>>
  BY Zenon DEF SectorError
<1>2. drv \in DriverState
  BY DEF AtaInv, AtaTypes
<1>3. dev'.status = "ready"
  BY <1>1, CommandEnds
<1>4. /\ drv'.pc = drv.pc /\ drv'.direction = drv.direction /\ drv'.start = drv.start
      /\ drv'.count = drv.count /\ drv'.count_left = drv.count_left /\ drv'.dma = drv.dma
      /\ drv'.current_count = drv.current_count /\ drv'.blocks_done = drv.blocks_done
      /\ drv'.buffer = drv.buffer /\ drv'.result = drv.result
      /\ drv'.fault = (~DriverAt("idle") \/ drv.result = 1)
  BY <1>1, <1>2 DEF DriverState
<1>5. Base' = Base /\ (InCommand' <=> InCommand) /\ (Served' <=> Served)
  BY <1>4, ZenonT(40) DEF Base, InCommand, Served
<1>6. (Served => drv'.fault) /\ (InCommand => drv'.fault)
  BY <1>4, Zenon DEF Served, InCommand, DriverAt
<1>7. ShapeInv'
  BY <1>3, <1>4, Zenon DEF ExactInv, ShapeInv
<1>8. CacheInv'
  BY <1>3 DEF CacheInv
<1>9. ReadInv'
  BY <1>1, <1>3, <1>4, <1>5, <1>6 DEF ExactInv, ReadInv
<1>10. WriteInv'
  BY <1>5, <1>6, Zenon DEF WriteInv
<1> QED
  BY <1>7, <1>8, <1>9, <1>10 DEF ExactInv

LEMMA ExactStep ==
  ASSUME DMA_MAX <= MAX_COUNT, AtaInv, ExactInv, [AtaNext]_ataVars
  PROVE  ExactInv'
<1>1. \/ Request \/ NextRequest \/ Command \/ CheckDma \/ CheckPio \/ TransferIn \/ TransferOut
      \/ Seek \/ StoreSector \/ DmaTransfer \/ SectorError
      \/ WaitReady \/ ksleep \/ NotReady \/ BusmasterStart \/ idt_wait_irq \/ Tick \/ idt_handle_irq
      \/ UNCHANGED ataVars
  BY Zenon DEF AtaNext, DriverStep, DriveStep
<1> QED
  BY <1>1, ExactRequest, ExactNext, ExactCommand, ExactCheckDma, ExactCheckPio, ExactTransferIn,
     ExactTransferOut, ExactSeek, ExactStore, ExactDma, ExactError, ExactWaits

LEMMA ExactImplies == AtaInv /\ ExactInv => SuccessExact
<1> SUFFICES ASSUME AtaInv, ExactInv, Succeeded, ~drv.fault PROVE SuccessExact
  BY Zenon DEF SuccessExact
<1>1. drv.pc = "idle" /\ drv.result = 1 /\ Served /\ drv \in DriverState
  BY Zenon DEF Succeeded, DriverAt, Served, AtaInv, AtaTypes
<1>2. drv.count_left = 0 /\ drv.buffer \in [0 .. drv.count - 1 -> Int]
  BY <1>1, Zenon DEF ExactInv, ShapeInv
<1>3. Base = drv.count
  BY <1>1, <1>2 DEF Base, DriverState
<1>4. CASE drv.direction = "READ"
  BY <1>1, <1>2, <1>3, <1>4, Zenon DEF ExactInv, ReadInv, SuccessExact
<1>5. CASE drv.direction = "WRITE"
  <2>1. dev.status = "ready" => \A l : ~Pending(l)
    BY DEF Pending
  <2> QED
    BY <1>1, <1>3, <1>5, <2>1, Zenon DEF ExactInv, WriteInv, SuccessExact, Wanted
<1> QED
  BY <1>1, <1>4, <1>5, Zenon DEF DriverState

(* A request that ata_drv_rw_sectors reports as done, with no sector in    *)
(* error, has done what was asked: whatever the chunks, the interrupts of  *)
(* earlier commands and the timeouts, the buffer holds the sectors that    *)
(* were read, and once the drive is done the disk holds those that were    *)
(* written.  A chunk for DMA fits into the count register (ata.c has 64K   *)
(* of buffer, 128 sectors, against 256).                                   *)
THEOREM SuccessCorrect == ASSUME DMA_MAX <= MAX_COUNT PROVE AtaSpec => []SuccessExact
<1>1. AtaInit => AtaInv /\ ExactInv
  BY AtaInitial, ExactInitial
<1>2. AtaInv /\ ExactInv /\ [AtaNext]_ataVars => (AtaInv /\ ExactInv)'
  BY AtaStep, ExactStep
<1> QED
  BY <1>1, <1>2, ExactImplies, PTL DEF AtaSpec
=============================================================================
