------------------------------ MODULE Storage ------------------------------
(***************************************************************************)
(* kernel/cdi/storage.c: read and write of a block device, at any byte and *)
(* of any length, from transfers of whole blocks.  A transfer is one call  *)
(* of the driver (kernel/cdi/ata/device.c, see AtaDisk), which can fail    *)
(* with its first blocks transferred; errors of the drive that the driver  *)
(* does not report (drv.fault in AtaDisk) are left out.  The device is a   *)
(* partition; nothing on the way looks at its length, so that the blocks   *)
(* are those of the whole disk.                                            *)
(* System calls are not interrupted by others: a request is one step.      *)
(***************************************************************************)
EXTENDS Integers, Sequences

CONSTANTS block_size,       \* bytes in a block
          DiskBlocks,       \* blocks of the whole disk
          partition_start,  \* partition->start; 0 if the device is the disk
          MAX_ALIVE,        \* the largest buffer that is kept (0x4000)
          DriverError,      \* what ata_read_blocks returns if it fails (1)
          DiskByte,         \* values of a byte
          Addr, NULL,       \* where kmalloc can put a buffer, and nowhere
          Offsets,          \* bound: where requests begin
          Sizes,            \* bound: how many bytes are read
          Source            \* bound: what is written, a set of sequences of bytes

ASSUME StorageAssumption ==
  /\ block_size \in Nat \ {0} /\ DiskBlocks \in Nat /\ partition_start \in Nat
  /\ MAX_ALIVE \in Nat /\ DriverError \in Int \ {0} /\ NULL \notin Addr
  /\ Offsets \subseteq Nat /\ Sizes \subseteq Nat /\ Source \subseteq Seq(DiskByte)

VARIABLES disk,         \* the bytes of the disk
          tmpbuffer,    \* dev_read's buffer, [ptr, size]: tmpbuffer and bufsize
          blockbuffer,  \* dev_write's buffer, [ptr, size]: blockbuffer and bbufsize
          owners,       \* whom kmalloc gave an address to
          done          \* the last request and its answer

buffers == <<tmpbuffer, blockbuffer, owners>>
storageVars == <<disk, buffers, done>>

Bytes == DiskBlocks * block_size

(* What is returned, and what is in the caller's buffer after a read.      *)
Answer(op, offset, size, ret, dst) ==
  [op |-> op, offset |-> offset, size |-> size, ret |-> ret, dst |-> dst]
-----------------------------------------------------------------------------
(* kmalloc and kfree: a pointer that is not in use is not freed.           *)

Freed(ptr) == [a \in Addr |-> IF a = ptr THEN "free" ELSE owners[a]]

(* A buffer that is too small is given back and a larger one is taken.     *)
Grow(buffer, owner, needed) ==
  IF needed > buffer.size
  THEN {[buffer |-> [ptr |-> a, size |-> needed], owners |-> [Freed(buffer.ptr) EXCEPT ![a] = owner]] :
          a \in {x \in Addr : Freed(buffer.ptr)[x] = "free"}}
  ELSE {[buffer |-> buffer, owners |-> owners]}
-----------------------------------------------------------------------------
Took(lo, n) == [i \in 1 .. n |-> disk[lo + i - 1]]

(* The drive has these sectors.                                            *)
OnDisk(sector, count) == sector + count <= DiskBlocks

(* Where the driver looks for a block of the device.                       *)
Sector(block) == block + partition_start

(* A request that fits to blocks is read straight to its destination.      *)
ReadDirect(size, offset, startblock, numblocks) ==
  /\ UNCHANGED buffers
  /\ \/ /\ numblocks = 0 \/ OnDisk(Sector(startblock), numblocks)
        /\ done' = Answer("read", offset, size, size, Took(Sector(startblock) * block_size, size))
     \/ \E j \in 0 .. numblocks - 1 :
          /\ j = 0 \/ OnDisk(Sector(startblock), j)
          /\ done' = Answer("read", offset, size, DriverError,
                            Took(Sector(startblock) * block_size, j * block_size))

(* Any other goes through tmpbuffer, with one more block even if the end   *)
(* is aligned.  A buffer too large to keep is given back, but not          *)
(* forgotten: tmpbuffer goes on pointing to it.                            *)
ReadBuffered(size, offset, startblock, numblocks) ==
  LET needed == (numblocks + 1) * block_size
  IN  /\ UNCHANGED blockbuffer
      /\ \E g \in Grow(tmpbuffer, "tmpbuffer", needed) :
           \/ /\ OnDisk(Sector(startblock), numblocks + 1)
              /\ done' = Answer("read", offset, size, size,
                                SubSeq(Took(Sector(startblock) * block_size, needed),
                                       (offset % block_size) + 1, (offset % block_size) + size))
              /\ IF g.buffer.size > MAX_ALIVE
                 THEN /\ tmpbuffer' = [g.buffer EXCEPT !.size = 0]
                      /\ owners' = [g.owners EXCEPT ![g.buffer.ptr] = "free"]
                 ELSE tmpbuffer' = g.buffer /\ owners' = g.owners
           \/ /\ tmpbuffer' = g.buffer /\ owners' = g.owners
              /\ done' = Answer("read", offset, size, DriverError, << >>)

dev_read(size, offset) ==
  LET startblock == offset \div block_size
      numblocks  == (offset + size) \div block_size - startblock
  IN  IF offset % block_size = 0 /\ (offset + size) % block_size = 0
      THEN ReadDirect(size, offset, startblock, numblocks)
      ELSE ReadBuffered(size, offset, startblock, numblocks)
-----------------------------------------------------------------------------
(* The disk with data written over it from byte lo on.                     *)
Over(media, lo, data) ==
  [b \in DOMAIN media |-> IF b - lo \in 0 .. Len(data) - 1 THEN data[b - lo + 1] ELSE media[b]]

(* What drv->write_blocks can lead to: some blocks, from the first on.     *)
(* The state w of a write is the disk, whether no transfer has failed,     *)
(* what is left to write and the sector where it goes on.                  *)
write_blocks(w, data) ==
  LET count    == Len(data) \div block_size
      lo       == w.startblock * block_size
      first(j) == Over(w.disk, lo, SubSeq(data, 1, j * block_size))
  IN  {[w EXCEPT !.disk = first(j), !.ok = FALSE] : j \in 0 .. count}
        \cup (IF OnDisk(w.startblock, count) THEN {[w EXCEPT !.disk = first(count)]} ELSE {})

(* The write goes on with n bytes and so many blocks less.                 *)
Advance(w, n, blocks) ==
  IF w.ok THEN [w EXCEPT !.src = SubSeq(@, n + 1, Len(@)), !.startblock = @ + blocks] ELSE w

(* One block is read, n bytes from at on are replaced, it is written back. *)
Modify(w, at, n) ==
  LET lo    == w.startblock * block_size
      block == [i \in 1 .. block_size |->
                  IF i - 1 - at \in 0 .. n - 1 THEN w.src[i - at] ELSE w.disk[lo + i - 1]]
  IN  {[w EXCEPT !.ok = FALSE]} \cup (IF OnDisk(w.startblock, 1) THEN write_blocks(w, block) ELSE {})

(* The block that the write begins in the middle of.                       *)
FirstPart(w, unaligned) ==
  LET tmpsize == IF block_size - unaligned > Len(w.src) THEN Len(w.src) ELSE block_size - unaligned
  IN  IF unaligned = 0 THEN {w}
      ELSE {Advance(v, tmpsize, 1) : v \in Modify(w, unaligned, tmpsize)}

WholeBlocks(w) ==
  LET numblocks == Len(w.src) \div block_size
      n         == numblocks * block_size
  IN  IF ~w.ok \/ numblocks = 0 THEN {w}
      ELSE {Advance(v, n, numblocks) : v \in write_blocks(w, SubSeq(w.src, 1, n))}

(* Mutant of LastPart: the rest is written without reading the block.      *)
LastPart_unread(w) ==
  IF ~w.ok \/ w.src = << >> THEN {w}
  ELSE write_blocks(w, [i \in 1 .. block_size |-> w.src[IF i <= Len(w.src) THEN i ELSE 1]])

LastPart(w) == IF ~w.ok \/ w.src = << >> THEN {w} ELSE Modify(w, 0, Len(w.src))

dev_write(src, offset) ==
  LET start == [disk |-> disk, ok |-> TRUE, src |-> src, startblock |-> Sector(offset \div block_size)]
  IN  /\ \E g \in Grow(blockbuffer, "blockbuffer", block_size) :
            blockbuffer' = g.buffer /\ owners' = g.owners
      /\ \E first \in FirstPart(start, offset % block_size) :
           \E whole \in WholeBlocks(first) :
             \E last \in LastPart(whole) :
               /\ disk' = last.disk
               /\ done' = Answer("write", offset, Len(src),
                                 IF last.ok THEN Len(src) ELSE DriverError, << >>)
      /\ UNCHANGED tmpbuffer

StorageInit ==
  /\ disk \in [0 .. Bytes - 1 -> DiskByte]
  /\ tmpbuffer = [ptr |-> NULL, size |-> 0] /\ blockbuffer = [ptr |-> NULL, size |-> 0]
  /\ owners = [a \in Addr |-> "free"]
  /\ done = Answer("none", 0, 0, 0, << >>)

DevRead == UNCHANGED disk /\ \E offset \in Offsets, size \in Sizes : dev_read(size, offset)
DevWrite == \E offset \in Offsets, src \in Source : dev_write(src, offset)

StorageNext == DevRead \/ DevWrite

StorageSpec == StorageInit /\ [][StorageNext]_storageVars
-----------------------------------------------------------------------------
(* A file in /dev is an array of bytes: whatever the alignment, however    *)
(* many blocks there are between head and tail, and whichever transfer     *)
(* fails, a read returns the bytes asked for or an error, and a write      *)
(* changes those bytes and no others.                                      *)
Device0 == INSTANCE ByteDevice WITH
             media <- disk, Byte <- DiskByte, Base <- partition_start * block_size

IsByteDevice == Device0!Spec

(* "the block size is likely the same for two requests, so this is only    *)
(* freed and allocated when it varies" (dev_write): as long as bbufsize    *)
(* says that blockbuffer has the size of a block, it is dev_write's.  It   *)
(* is not: the buffer that dev_read gave back may have become blockbuffer, *)
(* and dev_read frees it again when it needs a larger one.                 *)
BlockbufferKept == blockbuffer.size > 0 => owners[blockbuffer.ptr] = "blockbuffer"
=============================================================================
