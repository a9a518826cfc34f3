------------------------------ MODULE AtaDisk ------------------------------
(***************************************************************************)
(* Reading and writing sectors with the ATA driver, kernel/cdi/ata/, and   *)
(* the interrupt counter it waits on, idt_wait_irq in kernel/idt.c.  The   *)
(* driver, the disk and the timer take their steps independently.          *)
(*                                                                         *)
(* The content of a sector is Old(l) before and New(l) after it has been   *)
(* written.  Times are counted down from the moment a wait begins: only    *)
(* the difference to timer_ticks matters.                                  *)
(***************************************************************************)
EXTENDS Integers

CONSTANTS Sectors,            \* size of the disk
          LBA_SIZE,           \* sectors the address registers can name (2^28: no LBA48 yet)
          MAX_COUNT,          \* sectors the count register can ask for (256)
          DMA_MAX,            \* sectors of the DMA buffer (128)
          Starts, Counts,     \* the requests: first block and number of blocks
          ATA_READY_TIMEOUT,  \* bound on the wait for a busy drive, in sleeps
          ATA_IRQ_TIMEOUT,    \* bound on the wait for an interrupt, in ticks
          dma_use,            \* what controller->dma_use may be: FALSE if the argument nodma is given
          Context             \* CX_PROC or CX_SYSCALL: who makes the requests

ASSUME AtaAssumption ==
  /\ {Sectors, MAX_COUNT, DMA_MAX, ATA_READY_TIMEOUT, ATA_IRQ_TIMEOUT} \subseteq Nat \ {0}
  /\ LBA_SIZE \in Nat /\ Sectors <= LBA_SIZE
  /\ dma_use \subseteq BOOLEAN /\ dma_use # {}
  /\ Starts \subseteq Nat /\ Counts \subseteq Nat
  /\ Context \in {"CX_PROC", "CX_SYSCALL"}

VARIABLES drv,     \* the request being made: ata_drv_rw_sectors and what it calls
          dev,     \* registers and command of the disk
          media,   \* the sectors
          dmabuf,  \* ctrl->dma_buf_virt
          irq,     \* irq_counter[] and the interrupt controller's pending bit
          asked    \* history: the sectors write requests have named

ataVars == <<drv, dev, media, dmabuf, irq, asked>>

Lba == 0 .. Sectors - 1
Old(l) == l
New(l) == Sectors + l
None == -1

(* Whether interrupts come in while the driver runs.  The processor clears *)
(* its flag at the gate of a system call, and the entry code of int.s does *)
(* not set it again; processes run with interrupts enabled.                *)
iflag == Context = "CX_PROC"

Lower(x, y) == IF x < y THEN x ELSE y

(* Sectors the drive's command is for, and those the DMA descriptor has    *)
(* room for: 0 in either register stands for the most it can ask for.      *)
CommandSize == IF dev.count = 0 THEN MAX_COUNT ELSE dev.count
PrdSize == IF dev.prdt = 0 THEN DMA_MAX ELSE dev.prdt

(* The drive has no command any more.                                      *)
CommandDone == [dev EXCEPT !.status = "ready", !.cache = None, !.lba = 0, !.moved = 0, !.count = 0]
-----------------------------------------------------------------------------
(* The driver                                                              *)

DriverAt(pc) == drv.pc = pc

Go(pc) == drv' = [drv EXCEPT !.pc = pc]

(* The requests considered are for sectors that the disk has.  This is an  *)
(* assumption about the callers: the driver compares a request with no     *)
(* size, and an address that LBA_SIZE cuts off names another sector.       *)
OnDisk(start, count) == start + count <= Sectors

(* ata_read_blocks and ata_write_blocks, when the driver has no request to *)
(* do.                                                                     *)
Request ==
  /\ DriverAt("idle")
  /\ \E direction \in {"READ", "WRITE"}, start \in Starts, count \in Counts :
       /\ OnDisk(start, count)
       /\ drv' = [drv EXCEPT
            !.pc = "next", !.direction = direction, !.start = start, !.count = count,
            !.count_left = count, !.fault = FALSE,
            !.buffer = [i \in 0 .. count - 1 |->
                          IF direction = "WRITE" THEN New(start + i) ELSE None]]
       /\ asked' = IF direction = "WRITE" THEN asked \cup (start .. start + count - 1) ELSE asked
  /\ UNCHANGED <<dev, media, dmabuf, irq>>

(* The driver between two requests: what the last one was, if it was done. *)
Idle(dma) ==
  [pc |-> "idle", dma |-> dma, direction |-> "READ", start |-> 0, count |-> 0, count_left |-> 0,
   current_count |-> 0, blocks_done |-> 0, time |-> 0, wait |-> 0,
   buffer |-> [i \in {} |-> None], result |-> 0, fault |-> FALSE]

Return(result) ==
  drv' = IF result = 0 THEN Idle(drv.dma)
         ELSE [Idle(drv.dma) EXCEPT
                 !.direction = drv.direction, !.start = drv.start, !.count = drv.count,
                 !.buffer = drv.buffer, !.result = result, !.fault = drv.fault]

Base == drv.count - drv.count_left   \* current_buffer - buffer

FillDmaBuffer(n) ==
  [i \in DOMAIN dmabuf |-> IF drv.direction = "WRITE" /\ i < n THEN drv.buffer[Base + i] ELSE dmabuf[i]]

(* Mutant of ata_request_dma_init: a transfer that is going on is not      *)
(* stopped.                                                                *)
ata_request_dma_init_running(n) ==
  dev' = [dev EXCEPT !.prdt = n % DMA_MAX] /\ dmabuf' = FillDmaBuffer(n)

(* The transfer that may still be going on is stopped before the buffer is *)
(* touched.                                                                *)
ata_request_dma_init(n) ==
  dev' = [dev EXCEPT !.bmr = FALSE, !.prdt = n % DMA_MAX] /\ dmabuf' = FillDmaBuffer(n)

(* One turn of ata_drv_rw_sectors, up to ata_drv_wait_ready.               *)
NextRequest ==
  /\ DriverAt("next")
  /\ IF drv.count_left = 0 THEN Return(1) /\ UNCHANGED <<dev, dmabuf, irq>>
     ELSE LET n == Lower(drv.count_left, IF drv.dma THEN DMA_MAX ELSE MAX_COUNT)
          IN  /\ drv' = [drv EXCEPT !.pc = "ready", !.current_count = n,
                                    !.blocks_done = 0, !.time = 0]
              /\ IF drv.dma THEN ata_request_dma_init(n) ELSE UNCHANGED <<dev, dmabuf>>
              /\ irq' = [irq EXCEPT !.counter = 0]
  /\ UNCHANGED <<media, asked>>

(* ata_drv_wait_ready: cdi_sleep_ms(10) is one tick.                       *)
WaitReady ==
  /\ DriverAt("ready") /\ dev.status = "BSY" /\ drv.time < ATA_READY_TIMEOUT
  /\ drv' = [drv EXCEPT !.pc = "sleep", !.time = @ + 1, !.wait = 1]
  /\ UNCHANGED <<dev, media, dmabuf, irq, asked>>

ksleep ==
  /\ DriverAt("sleep")
  /\ IF drv.wait = 0 THEN Go("ready") ELSE UNCHANGED drv
  /\ UNCHANGED <<dev, media, dmabuf, irq, asked>>

NotReady ==
  /\ DriverAt("ready") /\ drv.time >= ATA_READY_TIMEOUT
  /\ Return(0)
  /\ UNCHANGED <<dev, media, dmabuf, irq, asked>>

(* The rest of ata_request_command, and the start of the protocol.  PIO    *)
(* is polled, with the drive's interrupts switched off.  Of the address    *)
(* only the low 28 bits are written.                                       *)
Command ==
  /\ DriverAt("ready") /\ dev.status # "BSY" /\ drv.time < ATA_READY_TIMEOUT
  /\ dev' = [dev EXCEPT !.status = "BSY", !.direction = drv.direction, !.dma = drv.dma,
                        !.nien = ~drv.dma, !.lba = (drv.start + Base) % LBA_SIZE, !.moved = 0,
                        !.count = drv.current_count % MAX_COUNT, !.cache = None]
  /\ Go(IF drv.dma THEN "busmaster" ELSE "check")
  /\ UNCHANGED <<media, dmabuf, irq, asked>>

(* Mutant of BusmasterStart: the counter is cleared when the command is    *)
(* already on its way.                                                     *)
BusmasterStart_reset ==
  /\ DriverAt("busmaster")
  /\ dev' = [dev EXCEPT !.bmr = TRUE]
  /\ drv' = [drv EXCEPT !.pc = "irq_wait", !.time = 0, !.wait = ATA_IRQ_TIMEOUT]
  /\ irq' = [irq EXCEPT !.counter = 0]
  /\ UNCHANGED <<media, dmabuf, asked>>

(* ata_protocol_dma up to its loop.                                        *)
BusmasterStart ==
  /\ DriverAt("busmaster")
  /\ dev' = [dev EXCEPT !.bmr = TRUE]
  /\ drv' = [drv EXCEPT !.pc = "irq_wait", !.time = 0, !.wait = ATA_IRQ_TIMEOUT]
  /\ UNCHANGED <<media, dmabuf, irq, asked>>

(* idt_wait_irq: one look at the counter and at the clock.                 *)
idt_wait_irq ==
  /\ DriverAt("irq_wait")
  /\ \/ irq.counter >= 1 /\ drv' = [drv EXCEPT !.pc = "check", !.wait = 0]
     \/ irq.counter < 1 /\ drv.wait = 0 /\ Return(0)
     \/ irq.counter < 1 /\ drv.wait > 0 /\ UNCHANGED drv
  /\ UNCHANGED <<dev, media, dmabuf, irq, asked>>

(* The requests for one chunk are done; ata_drv_rw_sectors goes on.        *)
Chunk(buffer) ==
  drv' = [drv EXCEPT !.pc = "next", !.count_left = @ - drv.current_count, !.buffer = buffer]

(* CHECK_STATUS of ata_protocol_dma: it waits until neither BSY nor DRQ    *)
(* is set, and looks at no other bit.                                      *)
CheckDma ==
  /\ DriverAt("check") /\ drv.dma
  /\ IF dev.status # "ready" THEN UNCHANGED <<drv, dev>>
     ELSE /\ dev' = [dev EXCEPT !.bmr = FALSE]
          /\ Chunk([i \in DOMAIN drv.buffer |->
                      IF drv.direction = "READ" /\ i - Base \in 0 .. drv.current_count - 1
                      THEN dmabuf[i - Base] ELSE drv.buffer[i]])
  /\ UNCHANGED <<media, dmabuf, irq, asked>>

(* Mutant of CheckPio: a drive that has nothing to transfer is waited for. *)
CheckPio_wait ==
  /\ DriverAt("check") /\ ~drv.dma
  /\ \/ /\ drv.direction = "WRITE" /\ drv.blocks_done = drv.current_count
        /\ Chunk(drv.buffer)
     \/ /\ drv.direction = "READ" \/ drv.blocks_done # drv.current_count
        /\ IF dev.status = "DRQ" THEN Go("transfer") ELSE UNCHANGED drv
  /\ UNCHANGED <<dev, media, dmabuf, irq, asked>>

(* CHECK_STATUS of ata_protocol_pio_in and ata_protocol_pio_out.  Writing  *)
(* looks at blocks_done first.                                             *)
CheckPio ==
  /\ DriverAt("check") /\ ~drv.dma
  /\ \/ /\ drv.direction = "WRITE" /\ drv.blocks_done = drv.current_count
        /\ Chunk(drv.buffer)
     \/ /\ drv.direction = "READ" \/ drv.blocks_done # drv.current_count
        /\ \/ dev.status = "ready" /\ Return(0)
           \/ dev.status = "BSY" /\ UNCHANGED drv
           \/ dev.status = "DRQ" /\ Go("transfer")
  /\ UNCHANGED <<dev, media, dmabuf, irq, asked>>

(* Mutant of TransferIn: every chunk is read to the front of the buffer.   *)
TransferIn_front ==
  LET i == drv.blocks_done
  IN  /\ DriverAt("transfer") /\ drv.direction = "READ"
      /\ dev' = IF dev.moved + 1 = CommandSize THEN CommandDone
                ELSE [dev EXCEPT !.moved = @ + 1, !.cache = None, !.status = "BSY"]
      /\ IF drv.blocks_done + 1 >= drv.current_count
         THEN Chunk([drv.buffer EXCEPT ![i] = dev.cache])
         ELSE drv' = [drv EXCEPT !.pc = "check", !.blocks_done = @ + 1, !.buffer[i] = dev.cache]
      /\ UNCHANGED <<media, dmabuf, irq, asked>>

(* TRANSFER_DATA of ata_protocol_pio_in.                                   *)
TransferIn ==
  LET i == Base + drv.blocks_done
  IN  /\ DriverAt("transfer") /\ drv.direction = "READ"
      /\ dev' = IF dev.moved + 1 = CommandSize THEN CommandDone
                ELSE [dev EXCEPT !.moved = @ + 1, !.cache = None, !.status = "BSY"]
      /\ IF drv.blocks_done + 1 >= drv.current_count
         THEN Chunk([drv.buffer EXCEPT ![i] = dev.cache])
         ELSE drv' = [drv EXCEPT !.pc = "check", !.blocks_done = @ + 1, !.buffer[i] = dev.cache]
      /\ UNCHANGED <<media, dmabuf, irq, asked>>

(* TRANSFER_DATA of ata_protocol_pio_out.                                  *)
TransferOut ==
  /\ DriverAt("transfer") /\ drv.direction = "WRITE"
  /\ dev' = [dev EXCEPT !.status = "BSY", !.cache = drv.buffer[Base + drv.blocks_done]]
  /\ drv' = [drv EXCEPT !.pc = "check", !.blocks_done = @ + 1]
  /\ UNCHANGED <<media, dmabuf, irq, asked>>
-----------------------------------------------------------------------------
(* The disk (external), the timer and the interrupt                        *)

Raised == [irq EXCEPT !.pending = @ \/ ~dev.nien]

(* The drive has looked for the next sector: it has data to fetch, or      *)
(* waits for data.                                                         *)
Seek ==
  /\ dev.status = "BSY" /\ (dev.dma \/ dev.direction = "READ" \/ dev.cache = None)
  /\ dev' = [dev EXCEPT !.status = "DRQ",
                        !.cache = IF ~dev.dma /\ dev.direction = "READ"
                                  THEN media[dev.lba + dev.moved] ELSE None]
  /\ UNCHANGED <<drv, media, dmabuf, irq, asked>>

(* A sector the driver has handed over is stored.                          *)
StoreSector ==
  /\ dev.status = "BSY" /\ ~dev.dma /\ dev.direction = "WRITE" /\ dev.cache # None
  /\ media' = [media EXCEPT ![dev.lba + dev.moved] = dev.cache]
  /\ dev' = IF dev.moved + 1 = CommandSize THEN CommandDone
            ELSE [dev EXCEPT !.moved = @ + 1, !.cache = None, !.status = "DRQ"]
  /\ UNCHANGED <<drv, dmabuf, irq, asked>>

(* The bus master moves a sector.                                          *)
DmaTransfer ==
  /\ dev.status = "DRQ" /\ dev.dma /\ dev.bmr /\ dev.moved < PrdSize
  /\ IF dev.direction = "READ"
     THEN dmabuf' = [dmabuf EXCEPT ![dev.moved] = media[dev.lba + dev.moved]] /\ UNCHANGED media
     ELSE media' = [media EXCEPT ![dev.lba + dev.moved] = dmabuf[dev.moved]] /\ UNCHANGED dmabuf
  /\ IF dev.moved + 1 = CommandSize
     THEN dev' = CommandDone /\ irq' = Raised
     ELSE dev' = [dev EXCEPT !.moved = @ + 1] /\ UNCHANGED irq
  /\ UNCHANGED <<drv, asked>>

(* The drive gives up with an error: BSY and DRQ are cleared, ERR is set.  *)
SectorError ==
  /\ dev.status = "BSY"
  /\ dev' = CommandDone
  /\ drv' = [drv EXCEPT !.fault = ~DriverAt("idle") \/ drv.result = 1]
  /\ irq' = Raised
  /\ UNCHANGED <<media, dmabuf, asked>>

(* idt_handle_irq; that the counter is not zero is all that is asked of it.*)
idt_handle_irq ==
  /\ iflag /\ irq.pending
  /\ irq' = [counter |-> 1, pending |-> FALSE]
  /\ UNCHANGED <<drv, dev, media, dmabuf, asked>>

(* timer_irq, while somebody looks at timer_ticks.                         *)
Tick ==
  /\ iflag /\ drv.wait > 0
  /\ drv' = [drv EXCEPT !.wait = @ - 1]
  /\ UNCHANGED <<dev, media, dmabuf, irq, asked>>

AtaInit ==
  /\ \E dma \in dma_use : drv = Idle(dma)
  /\ dev = [status |-> "ready", direction |-> "READ", dma |-> FALSE, nien |-> TRUE, lba |-> 0,
            moved |-> 0, count |-> 0, cache |-> None, bmr |-> FALSE, prdt |-> 0]
  /\ media = [l \in Lba |-> Old(l)]
  /\ dmabuf = [i \in 0 .. DMA_MAX - 1 |-> None]
  /\ irq = [counter |-> 0, pending |-> FALSE]
  /\ asked = {}

DriverStep ==
  \/ NextRequest \/ WaitReady \/ ksleep \/ NotReady \/ Command \/ BusmasterStart
  \/ idt_wait_irq \/ CheckDma \/ CheckPio \/ TransferIn \/ TransferOut

DriveStep == Seek \/ StoreSector \/ DmaTransfer

AtaNext == Request \/ DriverStep \/ DriveStep \/ SectorError \/ idt_handle_irq \/ Tick

(* The driver is a process that runs, or the kernel itself; the drive      *)
(* comes to an end with every sector; interrupts and ticks go on.          *)
AtaFairness ==
  /\ WF_ataVars(DriverStep) /\ WF_ataVars(DriveStep)
  /\ WF_ataVars(idt_handle_irq) /\ WF_ataVars(Tick)

AtaSpec == AtaInit /\ [][AtaNext]_ataVars /\ AtaFairness
-----------------------------------------------------------------------------
Succeeded == DriverAt("idle") /\ drv.result = 1

Wanted == {drv.start + i : i \in 0 .. drv.count - 1}

(* ata_drv_rw_sectors returns "1 wenn die Blocks erfolgreich               *)
(* gelesen/geschrieben wurden", if no sector was in error: split into      *)
(* chunks, after requests that timed out and with interrupts of earlier    *)
(* commands arriving late, the buffer holds the sectors asked for, and     *)
(* once the drive is done the disk holds the buffer.                       *)
SuccessExact ==
  Succeeded /\ ~drv.fault =>
    IF drv.direction = "READ" THEN \A i \in DOMAIN drv.buffer : drv.buffer[i] = media[drv.start + i]
    ELSE dev.status = "ready" => \A l \in Wanted : media[l] = New(l)

(* No sector gets another one's data or is written without being asked     *)
(* for, though the DMA buffer is filled while an abandoned command may     *)
(* still be going on.                                                      *)
WritesAsAsked == \A l \in Lba : media[l] = Old(l) \/ (media[l] = New(l) /\ l \in asked)

(* "damit auch die IRQs abgefangen werden koennen, die kurz vor dem        *)
(* Aufruf von dieser Funktion aufgerufen werden" (cdi_wait_irq): a driver  *)
(* that waits for a drive that is done has the interrupt counted or to     *)
(* come.                                                                   *)
InterruptNotMissed == DriverAt("irq_wait") /\ dev.status = "ready" => irq.counter > 0 \/ irq.pending

(* Every request comes to an end: the waits have their timeouts, and the   *)
(* loops that have none end when the drive does.                           *)
RequestEnds == ~DriverAt("idle") ~> DriverAt("idle")
=============================================================================
