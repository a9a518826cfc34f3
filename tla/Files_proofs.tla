---------------------------- MODULE Files_proofs ----------------------------
(***************************************************************************)
(* What files promise: the byte device on top of a block driver (Storage)  *)
(* implements ByteDevice for every size of blocks, devices and requests;   *)
(* the descriptor tables and file systems (Vfs) keep their files apart for *)
(* every number of processes, devices and file objects, and for every size *)
(* of the tables.                                                          *)
(***************************************************************************)
EXTENDS Vfs, Storage, Counting, TLAPS

(* Sequences.                                                              *)
LEMMA SeqEqual ==
  ASSUME NEW S, NEW q \in Seq(S), NEW r \in Seq(S), Len(q) = Len(r), \A i \in 1 .. Len(q) : q[i] = r[i]
  PROVE  q = r
  OBVIOUS

LEMMA SubSeqProperties ==
  ASSUME NEW S, NEW q, NEW m \in Int, NEW n \in Int, \A i \in m .. n : q[i] \in S
  PROVE  /\ SubSeq(q, m, n) \in Seq(S) /\ Len(SubSeq(q, m, n)) = IF m <= n THEN n - m + 1 ELSE 0
         /\ \A i \in 1 .. n - m + 1 : SubSeq(q, m, n)[i] = q[m + i - 1]
  OBVIOUS
-----------------------------------------------------------------------------
(* Blocks and bytes                                                        *)

(* A byte's block and its place in the block.                              *)
LEMMA BlockStart ==
  ASSUME NEW n \in Nat
  PROVE  n * block_size \in Nat
<1>1. block_size \in Nat \ {0}
  BY StorageAssumption
<1> QED
  BY <1>1

LEMMA BlockAndPlace ==
  ASSUME NEW n \in Nat
  PROVE  /\ n \div block_size \in Nat /\ n % block_size \in Nat
         /\ n = (n \div block_size) * block_size + (n % block_size)
         /\ n % block_size < block_size
<1>1. block_size \in Nat \ {0}
  BY StorageAssumption
<1> QED
  BY <1>1, Z3

(* As many blocks more are as many bytes more.                             *)
LEMMA BlocksOrdered ==
  ASSUME NEW a \in Nat, NEW b \in Nat, a <= b
  PROVE  a * block_size <= b * block_size
<1>1. block_size \in Nat
  BY StorageAssumption
<1> DEFINE d == b - a
<1>2. d \in Nat /\ b = a + d
  OBVIOUS
<1> HIDE DEF d
<1>3. b * block_size = a * block_size + d * block_size /\ d * block_size \in Nat /\ a * block_size \in Nat
  BY <1>1, <1>2, Z3
<1> QED
  BY <1>3

(* The blocks a read needs are as many as the code computes.               *)
LEMMA ReadBlocks ==
  ASSUME NEW offset \in Nat, NEW size \in Nat
  PROVE  (offset + size) \div block_size - offset \div block_size \in Nat
<1> DEFINE a == offset \div block_size
           b == (offset + size) \div block_size
<1>1. /\ a \in Nat /\ b \in Nat /\ offset % block_size \in Nat /\ (offset + size) % block_size \in Nat
      /\ offset = a * block_size + (offset % block_size)
      /\ offset + size = b * block_size + ((offset + size) % block_size)
      /\ (offset + size) % block_size < block_size
  BY BlockAndPlace
<1>2. block_size \in Nat \ {0}
  BY StorageAssumption
<1> HIDE DEF a, b
<1>3. ASSUME b < a PROVE FALSE
  <2>1. (b + 1) * block_size <= a * block_size
    BY <1>1, <1>3, BlocksOrdered
  <2>2. (b + 1) * block_size = b * block_size + block_size /\ b * block_size \in Nat /\ a * block_size \in Nat
    BY <1>1, <1>2, Z3
  <2> QED
    BY <1>1, <1>2, <2>1, <2>2
<1> QED
  BY <1>1, <1>3 DEF a, b

(* The block of a byte of the device on the disk, and its place in it.     *)
LEMMA OnPartition ==
  ASSUME NEW n \in Nat
  PROVE  /\ partition_start * block_size + n \in Nat
         /\ (partition_start * block_size + n) \div block_size = Sector(n \div block_size)
         /\ (partition_start * block_size + n) % block_size = n % block_size
<1> DEFINE m == partition_start * block_size + n
           q == m \div block_size
           s == Sector(n \div block_size)
<1>1. block_size \in Nat \ {0} /\ partition_start \in Nat
  BY StorageAssumption
<1>2. m \in Nat
  BY <1>1, BlockStart
<1>3. /\ n \div block_size \in Nat /\ n % block_size \in Nat /\ n % block_size < block_size
      /\ n = (n \div block_size) * block_size + (n % block_size)
  BY BlockAndPlace
<1>4. s \in Nat /\ s * block_size = (n \div block_size) * block_size + partition_start * block_size
  BY <1>1, <1>3, Z3 DEF Sector
<1>5. m = s * block_size + (n % block_size)
  BY <1>1, <1>3, <1>4
<1> HIDE DEF m, s
<1>6. /\ q \in Nat /\ m % block_size \in Nat /\ m % block_size < block_size
      /\ m = q * block_size + (m % block_size)
  BY <1>2, BlockAndPlace
<1> HIDE DEF q
<1>7. /\ q * block_size \in Nat /\ s * block_size \in Nat
      /\ (q + 1) * block_size = q * block_size + block_size
      /\ (s + 1) * block_size = s * block_size + block_size
  BY <1>1, <1>4, <1>6, Z3
<1>8. ~ q < s
  <2>1. q + 1 <= s => (q + 1) * block_size <= s * block_size
    BY <1>4, <1>6, BlocksOrdered
  <2> QED
    BY <1>1, <1>3, <1>4, <1>5, <1>6, <1>7, <2>1
<1>9. ~ s < q
  <2>1. s + 1 <= q => (s + 1) * block_size <= q * block_size
    BY <1>4, <1>6, BlocksOrdered
  <2> QED
    BY <1>1, <1>3, <1>4, <1>5, <1>6, <1>7, <2>1
<1>10. q = s
  BY <1>4, <1>6, <1>8, <1>9
<1>11. m % block_size = n % block_size
  BY <1>3, <1>5, <1>6, <1>7, <1>10
<1> QED
  BY <1>2, <1>10, <1>11 DEF m, q, s
-----------------------------------------------------------------------------
(* The buffers                                                             *)

(* The bytes that a read through tmpbuffer needs of it.                    *)
Needed(size, offset) == ((offset + size) \div block_size - offset \div block_size + 1) * block_size

(* No read needs a buffer that is too large to be kept.                    *)
SmallReads == \A offset \in Offsets, size \in Sizes : Needed(size, offset) <= MAX_ALIVE

Buffer == [ptr : Addr \cup {NULL}, size : Nat]

(* A buffer is nowhere, or where kmalloc put it.                           *)
Has(buffer, given, who) ==
  /\ buffer \in Buffer
  /\ buffer.ptr # NULL => given[buffer.ptr] = who
  /\ buffer.size > 0 => buffer.ptr # NULL

BuffersInv ==
  /\ owners \in [Addr -> {"free", "tmpbuffer", "blockbuffer"}]
  /\ Has(tmpbuffer, owners, "tmpbuffer") /\ Has(blockbuffer, owners, "blockbuffer")
  /\ tmpbuffer.size <= MAX_ALIVE

(* Growing a buffer leaves the other one alone.                            *)
LEMMA GrowKeeps ==
  ASSUME NEW mine \in Buffer, NEW other \in Buffer, NEW me \in {"tmpbuffer", "blockbuffer"},
         NEW you \in {"tmpbuffer", "blockbuffer"}, me # you, NEW needed \in Nat,
         owners \in [Addr -> {"free", "tmpbuffer", "blockbuffer"}],
         Has(mine, owners, me), Has(other, owners, you), NEW g \in Grow(mine, me, needed)
  PROVE  /\ g.owners \in [Addr -> {"free", "tmpbuffer", "blockbuffer"}]
         /\ Has(g.buffer, g.owners, me) /\ Has(other, g.owners, you)
         /\ g.buffer.size = mine.size \/ g.buffer.size = needed
<1>1. CASE needed > mine.size
  <2>1. PICK a \in Addr : /\ Freed(mine.ptr)[a] = "free"
                          /\ g = [buffer |-> [ptr |-> a, size |-> needed],
                                  owners |-> [Freed(mine.ptr) EXCEPT ![a] = me]]
    BY <1>1, Zenon DEF Grow
  <2> DEFINE f == Freed(mine.ptr)
             h == [f EXCEPT ![a] = me]
  <2>2. /\ f \in [Addr -> {"free", "tmpbuffer", "blockbuffer"}]
        /\ \A x \in Addr : f[x] = owners[x] \/ (x = mine.ptr /\ f[x] = "free")
    BY DEF Freed
  <2> HIDE DEF f
  <2>3. h \in [Addr -> {"free", "tmpbuffer", "blockbuffer"}] /\ h[a] = me /\ \A x \in Addr : x # a => h[x] = f[x]
    BY <2>2
  <2> HIDE DEF h
  <2>4. g.owners = h /\ g.buffer = [ptr |-> a, size |-> needed]
    BY <2>1 DEF h, f
  <2>5. a # NULL
    BY StorageAssumption
  <2>6. Has(g.buffer, h, me)
    BY <2>3, <2>4, <2>5 DEF Has, Buffer
  <2>7. ASSUME other.ptr # NULL
        PROVE  h[other.ptr] = you
    <3>1. other.ptr \in Addr /\ owners[other.ptr] = you
      BY <2>7 DEF Has, Buffer
    <3>2. other.ptr # mine.ptr
      BY <3>1, StorageAssumption DEF Has, Buffer
    <3>3. f[other.ptr] = you
      BY <2>2, <3>1, <3>2
    <3>4. f[a] = "free"
      BY <2>1 DEF f
    <3> QED
      BY <2>3, <3>1, <3>3, <3>4
  <2> QED
    BY <2>3, <2>4, <2>6, <2>7 DEF Has
<1>2. CASE ~(needed > mine.size)
  BY <1>2 DEF Grow
<1> QED
  BY <1>1, <1>2

(* As long as no read needs a buffer too large to be kept, dev_write's     *)
(* blockbuffer stays its own, for every size of blocks and every heap.     *)
(* (With a larger read it does not, see the run buffer_freed.)             *)
THEOREM BlockbufferCorrect ==
  ASSUME SmallReads
  PROVE  StorageSpec => []BlockbufferKept
<1>1. StorageInit => BuffersInv
  BY StorageAssumption DEF StorageInit, BuffersInv, Has, Buffer
<1>2. ASSUME BuffersInv, [StorageNext]_storageVars
      PROVE  BuffersInv'
  <2>1. CASE UNCHANGED storageVars
    BY <1>2, <2>1 DEF BuffersInv, Has, storageVars, buffers
  <2>2. CASE DevWrite
    <3>1. /\ UNCHANGED tmpbuffer
          /\ \E g \in Grow(blockbuffer, "blockbuffer", block_size) :
               blockbuffer' = g.buffer /\ owners' = g.owners
      BY <2>2, Zenon DEF DevWrite, dev_write
    <3>2. PICK g \in Grow(blockbuffer, "blockbuffer", block_size) :
            blockbuffer' = g.buffer /\ owners' = g.owners
      BY <3>1, Zenon
    <3>3. /\ g.owners \in [Addr -> {"free", "tmpbuffer", "blockbuffer"}]
          /\ Has(g.buffer, g.owners, "blockbuffer") /\ Has(tmpbuffer, g.owners, "tmpbuffer")
      <4>1. block_size \in Nat
        BY StorageAssumption
      <4> QED
        BY <1>2, <4>1, GrowKeeps DEF BuffersInv, Has
    <3> QED
      BY <1>2, <3>1, <3>2, <3>3 DEF BuffersInv, Has
  <2>3. CASE DevRead
    <3>1. PICK offset \in Offsets, size \in Sizes : dev_read(size, offset)
      BY <2>3, Zenon DEF DevRead
    <3> DEFINE start == offset \div block_size
               num   == (offset + size) \div block_size - start
    <3>2. CASE ReadDirect(size, offset, start, num)
      BY <1>2, <3>2 DEF ReadDirect, buffers, BuffersInv, Has
    <3>3. CASE ReadBuffered(size, offset, start, num)
      <4> DEFINE needed == (num + 1) * block_size
      <4>1. needed \in Nat /\ needed <= MAX_ALIVE
        <5>1. offset \in Nat /\ size \in Nat /\ block_size \in Nat
          BY StorageAssumption
        <5>2. num \in Nat
          BY <5>1, ReadBlocks, Zenon
        <5>3. needed <= MAX_ALIVE
          BY Zenon DEF SmallReads, Needed
        <5> QED
          BY <5>1, <5>2, <5>3
      <4>2. /\ UNCHANGED blockbuffer
            /\ \E g \in Grow(tmpbuffer, "tmpbuffer", needed) :
                 \/ g.buffer.size > MAX_ALIVE
                 \/ tmpbuffer' = g.buffer /\ owners' = g.owners
        BY <3>3, Zenon DEF ReadBuffered
      <4> HIDE DEF needed
      <4>3. PICK g \in Grow(tmpbuffer, "tmpbuffer", needed) :
              \/ g.buffer.size > MAX_ALIVE
              \/ tmpbuffer' = g.buffer /\ owners' = g.owners
        BY <4>2, Zenon
      <4>4. /\ g.owners \in [Addr -> {"free", "tmpbuffer", "blockbuffer"}]
            /\ Has(g.buffer, g.owners, "tmpbuffer") /\ Has(blockbuffer, g.owners, "blockbuffer")
            /\ g.buffer.size = tmpbuffer.size \/ g.buffer.size = needed
        BY <1>2, <4>1, GrowKeeps DEF BuffersInv, Has
      <4>5. g.buffer.size <= MAX_ALIVE /\ g.buffer.size \in Nat /\ MAX_ALIVE \in Nat
        BY <1>2, <4>1, <4>4, StorageAssumption DEF BuffersInv, Has, Buffer
      <4>6. tmpbuffer' = g.buffer /\ owners' = g.owners
        BY <4>3, <4>5
      <4> QED
        BY <4>2, <4>4, <4>5, <4>6 DEF BuffersInv, Has
    <3> QED
      BY <3>1, <3>2, <3>3, Zenon DEF dev_read
  <2> QED
    BY <1>2, <2>1, <2>2, <2>3 DEF StorageNext
<1>3. BuffersInv => BlockbufferKept
  BY DEF BuffersInv, Has, BlockbufferKept
<1> QED
  BY <1>1, <1>2, <1>3, PTL DEF StorageSpec
-----------------------------------------------------------------------------
(* The byte device                                                         *)

DiskType == disk \in [0 .. Bytes - 1 -> DiskByte]

(* The size of the disk, and what a number of blocks within it comes to. *)
LEMMA BytesOfBlocks ==
  /\ Bytes \in Nat
  /\ \A n \in Nat : n <= DiskBlocks => n * block_size <= Bytes
<1>1. DiskBlocks \in Nat /\ block_size \in Nat
  BY StorageAssumption
<1>2. DiskBlocks * block_size \in Nat
  BY <1>1
<1> QED
  BY <1>1, <1>2, BlocksOrdered DEF Bytes

(* The bytes of a transfer from the middle on.                             *)
PartTook(lo, n, u, size) == SubSeq(Took(lo, n), u + 1, u + size)

LEMMA TookPart ==
  ASSUME DiskType, NEW lo \in Nat, NEW n \in Nat, lo + n <= Bytes,
         NEW u \in Nat, NEW size \in Nat, u + size <= n
  PROVE  PartTook(lo, n, u, size) = Took(lo + u, size)
<1> DEFINE tk == Took(lo, n)
           part == SubSeq(tk, u + 1, u + size)
<1>1. Bytes \in Nat
  BY BytesOfBlocks
<1>2. tk \in Seq(DiskByte) /\ Len(tk) = n /\ \A i \in 1 .. n : tk[i] = disk[lo + i - 1]
  <2>1. tk \in [1 .. n -> DiskByte]
    BY <1>1 DEF Took, DiskType
  <2> QED
    BY <2>1 DEF Took
<1> HIDE DEF tk
<1>3. u + 1 \in 1 .. Len(tk) + 1 /\ u + size \in (u + 1) - 1 .. Len(tk)
  BY <1>2
<1>4. /\ part \in Seq(DiskByte) /\ Len(part) = u + size - (u + 1) + 1
      /\ \A i \in 1 .. u + size - (u + 1) + 1 : part[i] = tk[(u + 1) + i - 1]
  BY <1>2, <1>3, SubSeqProperties
<1> HIDE DEF part
<1>5. Len(part) = size /\ \A i \in 1 .. size : part[i] = disk[lo + u + i - 1]
  BY <1>2, <1>4
<1>6. part = [i \in 1 .. size |-> part[i]]
  BY <1>4, <1>5
<1> QED
  BY <1>5, <1>6 DEF PartTook, part, tk, Took

(* Nothing read.                                                           *)
LEMMA TookNothing ==
  ASSUME NEW lo
  PROVE  Took(lo, 0) = << >>
  BY DEF Took

(* The first n bytes from byte at of the disk on are the answer to a read. *)
FirstBytes(n, at, size, offset) ==
  /\ n \in 0 .. Bytes /\ n <= size /\ (n > 0 => at + n <= Bytes)
  /\ \/ n = size /\ done' = Answer("read", offset, size, size, Took(at, n))
     \/ done' = Answer("read", offset, size, DriverError, Took(at, n))

(* A read that succeeds returns the bytes asked for, whichever way it      *)
(* took, and one that fails the first of them.                             *)
LEMMA ReadImplements ==
  ASSUME DiskType, DevRead
  PROVE  Device0!Read
<1>1. PICK offset \in Offsets, size \in Sizes : dev_read(size, offset)
  BY Zenon DEF DevRead
<1> DEFINE a == offset \div block_size
           b == (offset + size) \div block_size
           u == offset % block_size
           v == (offset + size) % block_size
           num == b - a
           at == partition_start * block_size + offset
           lo == Sector(a) * block_size
<1>2. /\ offset \in Nat /\ size \in Nat /\ Bytes \in Nat /\ block_size \in Nat \ {0}
      /\ DiskBlocks \in Nat /\ partition_start \in Nat
  BY StorageAssumption, BytesOfBlocks
<1>3. /\ a \in Nat /\ b \in Nat /\ u \in Nat /\ v \in Nat
      /\ offset = a * block_size + u /\ offset + size = b * block_size + v
      /\ v < block_size /\ num \in Nat
  BY <1>2, BlockAndPlace, ReadBlocks
<1>4. /\ a * block_size \in Nat /\ b * block_size \in Nat /\ num * block_size \in Nat
      /\ num * block_size = b * block_size - a * block_size
      /\ (num + 1) * block_size = num * block_size + block_size
  BY <1>2, <1>3, Z3
<1>5. /\ Sector(a) \in Nat /\ lo \in Nat /\ at \in Nat /\ at = lo + u
  <2>1. at \in Nat /\ at \div block_size = Sector(a) /\ at % block_size = u
    BY <1>2, OnPartition
  <2> HIDE DEF at
  <2>2. at = (at \div block_size) * block_size + (at % block_size)
    BY <2>1, BlockAndPlace
  <2>3. Sector(a) \in Nat
    BY <1>2, <1>3 DEF Sector
  <2>4. lo \in Nat
    BY <2>3, BlockStart
  <2> QED
    BY <2>1, <2>2, <2>3, <2>4
<1>6. ASSUME NEW j \in Nat, OnDisk(Sector(a), j)
      PROVE  lo + j * block_size <= Bytes /\ j * block_size \in Nat
  <2> DEFINE to == Sector(a) + j
  <2>0. to \in Nat /\ to <= DiskBlocks
    BY <1>5, <1>6 DEF OnDisk
  <2> HIDE DEF to
  <2>1. to * block_size <= Bytes
    BY <2>0, BytesOfBlocks
  <2>2. (Sector(a) + j) * block_size = lo + j * block_size /\ j * block_size \in Nat
    BY <1>2, <1>5, Z3
  <2> QED
    BY <2>1, <2>2 DEF to
<1> HIDE DEF a, b, u, v, at, lo
<1>7. \E n \in Nat : FirstBytes(n, at, size, offset)
  <2>1. CASE ReadDirect(size, offset, a, num) /\ u = 0 /\ v = 0
    <3>1. size = num * block_size /\ lo = at
      BY <1>2, <1>3, <1>4, <1>5, <2>1
    <3>2. \/ /\ num = 0 \/ OnDisk(Sector(a), num)
             /\ done' = Answer("read", offset, size, size, Took(lo, size))
          \/ \E j \in 0 .. num - 1 :
               /\ j = 0 \/ OnDisk(Sector(a), j)
               /\ done' = Answer("read", offset, size, DriverError, Took(lo, j * block_size))
      BY <2>1, Zenon DEF ReadDirect, lo
    <3>3. CASE /\ num = 0 \/ OnDisk(Sector(a), num)
               /\ done' = Answer("read", offset, size, size, Took(lo, size))
      <4>1. size \in 0 .. Bytes /\ (size > 0 => at + size <= Bytes)
        <5>1. CASE num = 0
          BY <1>2, <1>3, <3>1, <5>1
        <5>2. CASE OnDisk(Sector(a), num)
          BY <1>2, <1>3, <1>5, <1>6, <3>1, <5>2
        <5> QED
          BY <3>3, <5>1, <5>2
      <4>2. FirstBytes(size, at, size, offset)
        BY <1>2, <3>1, <3>3, <4>1 DEF FirstBytes
      <4> QED
        BY <1>2, <4>2
    <3>4. CASE \E j \in 0 .. num - 1 :
                 /\ j = 0 \/ OnDisk(Sector(a), j)
                 /\ done' = Answer("read", offset, size, DriverError, Took(lo, j * block_size))
      <4>1. PICK j \in 0 .. num - 1 :
              /\ j = 0 \/ OnDisk(Sector(a), j)
              /\ done' = Answer("read", offset, size, DriverError, Took(lo, j * block_size))
        BY <3>4
      <4> DEFINE n == j * block_size
      <4>2. n \in Nat /\ n <= size
        <5>1. n <= num * block_size /\ n \in Nat
          BY <1>2, <1>3, BlocksOrdered, BlockStart
        <5> QED
          BY <3>1, <5>1
      <4>3. n \in 0 .. Bytes /\ (n > 0 => at + n <= Bytes)
        <5>1. CASE j = 0
          BY <1>2, <5>1
        <5>2. CASE OnDisk(Sector(a), j)
          BY <1>2, <1>3, <1>5, <1>6, <3>1, <5>2
        <5> QED
          BY <4>1, <5>1, <5>2
      <4>4. done' = Answer("read", offset, size, DriverError, Took(at, n))
        BY <3>1, <4>1
      <4> HIDE DEF n
      <4>5. FirstBytes(n, at, size, offset)
        BY <4>2, <4>3, <4>4 DEF FirstBytes
      <4> QED
        BY <4>2, <4>5
    <3> QED
      BY <3>2, <3>3, <3>4, Zenon
  <2>2. CASE ReadBuffered(size, offset, a, num)
    <3> DEFINE needed == (num + 1) * block_size
               got == PartTook(lo, needed, u, size)
    <3>1. \/ OnDisk(Sector(a), num + 1) /\ done' = Answer("read", offset, size, size, got)
          \/ done' = Answer("read", offset, size, DriverError, << >>)
      BY <2>2, Zenon DEF ReadBuffered, PartTook, lo, u
    <3>2. CASE OnDisk(Sector(a), num + 1) /\ done' = Answer("read", offset, size, size, got)
      <4>1. /\ lo + needed <= Bytes /\ needed \in Nat
        BY <1>3, <1>6, <3>2
      <4>2. u + size <= needed
        BY <1>2, <1>3, <1>4
      <4> HIDE DEF needed
      <4>3. got = Took(at, size)
        BY <1>2, <1>3, <1>5, <4>1, <4>2, TookPart
      <4>4. size \in 0 .. Bytes /\ at + size <= Bytes
        BY <1>2, <1>3, <1>5, <4>1, <4>2
      <4>5. FirstBytes(size, at, size, offset)
        BY <1>2, <3>2, <4>3, <4>4 DEF FirstBytes
      <4> QED
        BY <1>2, <4>5
    <3>3. CASE done' = Answer("read", offset, size, DriverError, << >>)
      <4>1. FirstBytes(0, at, size, offset)
        BY <1>2, <3>3, TookNothing DEF FirstBytes
      <4> QED
        BY <4>1
    <3> QED
      BY <3>1, <3>2, <3>3, Zenon
  <2> QED
    BY <1>1, <2>1, <2>2, Zenon DEF dev_read, a, b, u, v
<1>8. PICK n \in Nat : FirstBytes(n, at, size, offset)
  BY <1>7
<1>9. Took(at, n) = Device0!First(n, offset)
  BY Zenon DEF Took, Device0!First, at
<1>10. done'.op = "read" /\ UNCHANGED disk
  BY <1>8 DEF FirstBytes, Answer, DevRead
<1> QED
  BY <1>8, <1>9, <1>10, Zenon DEF FirstBytes, Device0!Read, Device0!Answer, Answer, at

(* What a write hands from one of its parts to the next.                   *)
DiskT == [0 .. Bytes - 1 -> DiskByte]
WriteT == [disk : DiskT, ok : BOOLEAN, src : Seq(DiskByte), startblock : Nat]

(* Byte b of disk d once data is written over it from lo on.               *)
At(d, lo, n, data, b) == IF b - lo \in 0 .. n - 1 THEN data[b - lo + 1] ELSE d[b]

(* A write of src that has come as far as byte p of it, and not further    *)
(* than the bytes it is about, if something failed.                        *)
Written(d, ok, src, offset, p) ==
  /\ d \in DiskT /\ ok \in BOOLEAN
  /\ \A b \in 0 .. Bytes - 1 : d[b] = disk[b] \/ d[b] = At(disk, offset, Len(src), src, b)
  /\ ok => /\ p \in 0 .. Len(src)
           /\ \A b \in 0 .. Bytes - 1 : d[b] = At(disk, offset, p, src, b)
           /\ p > 0 => offset + p <= Bytes

(* The write goes on at byte lo.                                           *)
StartsAt(w, lo) == lo = w.startblock * block_size

Rest(src, p) == SubSeq(src, p + 1, Len(src))

(* The first n bytes of data over a disk.                                  *)
LEMMA OverPrefix ==
  ASSUME NEW d \in DiskT, NEW lo \in Nat, NEW data \in Seq(DiskByte), NEW n \in 0 .. Len(data)
  PROVE  /\ Over(d, lo, SubSeq(data, 1, n)) \in DiskT
         /\ \A b \in 0 .. Bytes - 1 : Over(d, lo, SubSeq(data, 1, n))[b] = At(d, lo, n, data, b)
<1> DEFINE part == SubSeq(data, 1, n)
<1>1. /\ Len(part) = n /\ \A i \in 1 .. n : part[i] = data[i]
  BY SubSeqProperties
<1>2. Bytes \in Nat /\ n \in Nat /\ Len(data) \in Nat /\ \A i \in 1 .. Len(data) : data[i] \in DiskByte
  BY BytesOfBlocks
<1>3. \A b \in 0 .. Bytes - 1 : b - lo \in 0 .. n - 1 => b - lo + 1 \in 1 .. n
  BY <1>2
<1> HIDE DEF part
<1>4. DOMAIN d = 0 .. Bytes - 1 /\ \A b \in 0 .. Bytes - 1 : d[b] \in DiskByte
  BY DEF DiskT
<1> DEFINE o == Over(d, lo, part)
<1>5. o = [b \in 0 .. Bytes - 1 |-> IF b - lo \in 0 .. n - 1 THEN part[b - lo + 1] ELSE d[b]]
  BY <1>1, <1>4 DEF Over
<1> HIDE DEF o
<1>6. \A b \in 0 .. Bytes - 1 : o[b] = At(d, lo, n, data, b)
  BY <1>1, <1>3, <1>5 DEF At
<1>7. \A b \in 0 .. Bytes - 1 : At(d, lo, n, data, b) \in DiskByte
  BY <1>2, <1>3, <1>4, SMTT(30), ZenonT(20) DEF At
<1>8. o \in DiskT
  BY <1>5, <1>6, <1>7 DEF DiskT
<1> QED
  BY <1>6, <1>8, Zenon DEF o, part

(* write_blocks writes all blocks, or some and reports it.                 *)
LEMMA BlocksWritten ==
  ASSUME NEW w \in WriteT, NEW data \in Seq(DiskByte), NEW c \in Nat, Len(data) = c * block_size,
         NEW lo \in Nat, StartsAt(w, lo), NEW v \in write_blocks(w, data)
  PROVE  /\ v \in WriteT /\ v.src = w.src /\ v.startblock = w.startblock
         /\ \A b \in 0 .. Bytes - 1 : \/ v.disk[b] = w.disk[b]
                                      \/ v.disk[b] = At(w.disk, lo, Len(data), data, b)
         /\ v.ok => /\ w.ok /\ w.startblock + c <= DiskBlocks
                    /\ \A b \in 0 .. Bytes - 1 : v.disk[b] = At(w.disk, lo, Len(data), data, b)
<1> DEFINE count    == Len(data) \div block_size
           first(j) == Over(w.disk, lo, SubSeq(data, 1, j * block_size))
<1>0. block_size \in Nat \ {0} /\ Len(data) \in Nat
  BY StorageAssumption
<1>1. count = c
  <2>1. (c * block_size) \div block_size = c
    BY <1>0, Z3
  <2> QED
    BY <2>1
<1>2. ASSUME NEW j \in 0 .. c
      PROVE  /\ first(j) \in DiskT
             /\ \A b \in 0 .. Bytes - 1 : first(j)[b] = At(w.disk, lo, j * block_size, data, b)
             /\ j * block_size <= Len(data) /\ j * block_size \in Nat
  <2> DEFINE n == j * block_size
  <2>1. j * block_size <= c * block_size /\ n \in Nat
    BY <1>0, BlocksOrdered
  <2>2. n \in 0 .. Len(data) /\ w.disk \in DiskT
    BY <1>0, <2>1 DEF WriteT
  <2> HIDE DEF n
  <2>3. /\ Over(w.disk, lo, SubSeq(data, 1, n)) \in DiskT
        /\ \A b \in 0 .. Bytes - 1 : Over(w.disk, lo, SubSeq(data, 1, n))[b] = At(w.disk, lo, n, data, b)
    BY <2>2, OverPrefix, ZenonT(40)
  <2> QED
    BY <2>1, <2>2, <2>3 DEF n
<1>3. \/ \E j \in 0 .. c : v = [w EXCEPT !.disk = first(j), !.ok = FALSE]
      \/ w.startblock + c <= DiskBlocks /\ v = [w EXCEPT !.disk = first(c)]
  BY <1>1, Zenon DEF write_blocks, OnDisk, StartsAt
<1> HIDE DEF first
<1>4. CASE \E j \in 0 .. c : v = [w EXCEPT !.disk = first(j), !.ok = FALSE]
  <2>1. PICK j \in 0 .. c : v = [w EXCEPT !.disk = first(j), !.ok = FALSE]
    BY <1>4, Zenon
  <2> DEFINE n == j * block_size
             d == first(j)
  <2>2. /\ d \in DiskT /\ \A b \in 0 .. Bytes - 1 : d[b] = At(w.disk, lo, n, data, b)
        /\ n <= Len(data) /\ n \in Nat
    BY <1>2, Zenon
  <2> HIDE DEF n, d
  <2>3. \A b \in 0 .. Bytes - 1 : d[b] = w.disk[b] \/ d[b] = At(w.disk, lo, Len(data), data, b)
    BY <1>0, <2>2 DEF At
  <2>4. v = [disk |-> d, ok |-> FALSE, src |-> w.src, startblock |-> w.startblock]
    BY <2>1, Zenon DEF WriteT, d
  <2> QED
    BY <2>2, <2>3, <2>4, Zenon DEF WriteT
<1>5. CASE w.startblock + c <= DiskBlocks /\ v = [w EXCEPT !.disk = first(c)]
  <2> DEFINE d == first(c)
  <2>2. d \in DiskT /\ \A b \in 0 .. Bytes - 1 : d[b] = At(w.disk, lo, Len(data), data, b)
    BY <1>2
  <2> HIDE DEF d
  <2>4. v = [disk |-> d, ok |-> w.ok, src |-> w.src, startblock |-> w.startblock]
    BY <1>5, Zenon DEF WriteT, d
  <2> QED
    BY <1>5, <2>2, <2>4 DEF WriteT
<1> QED
  BY <1>3, <1>4, <1>5, Zenon

(* The places of a byte in the block from lo on and behind its first at    *)
(* bytes.                                                                  *)
LEMMA PlaceInBlock ==
  ASSUME NEW b \in Nat, NEW lo \in Nat, NEW at \in Nat, NEW n \in Nat, NEW size \in Nat,
         at + n <= size
  PROVE  /\ b - (lo + at) \in 0 .. n - 1 => b - lo \in 0 .. size - 1
         /\ b - lo \in 0 .. size - 1 => b - lo + 1 \in 1 .. size
         /\ lo + (b - lo + 1) - 1 = b
         /\ (b - lo + 1) - at = b - (lo + at) + 1
         /\ (b - lo + 1) - 1 - at = b - (lo + at)
OBVIOUS

(* One block is changed in n bytes, or nothing is, or it is reported.      *)
LEMMA BlockModified ==
  ASSUME NEW w \in WriteT, w.ok, NEW at \in Nat, NEW n \in Nat, at + n <= block_size,
         n <= Len(w.src), NEW lo \in Nat, StartsAt(w, lo),
         NEW v \in Modify(w, at, n)
  PROVE  /\ v \in WriteT /\ v.src = w.src /\ v.startblock = w.startblock
         /\ \A b \in 0 .. Bytes - 1 : \/ v.disk[b] = w.disk[b]
                                      \/ v.disk[b] = At(w.disk, lo + at, n, w.src, b)
         /\ v.ok => /\ lo + block_size <= Bytes
                    /\ \A b \in 0 .. Bytes - 1 : v.disk[b] = At(w.disk, lo + at, n, w.src, b)
<1> DEFINE block == [i \in 1 .. block_size |->
                       IF i - 1 - at \in 0 .. n - 1 THEN w.src[i - at] ELSE w.disk[lo + i - 1]]
<1>0. block_size \in Nat \ {0} /\ Bytes \in Nat /\ w.startblock \in Nat
  BY StorageAssumption, BytesOfBlocks, Zenon DEF WriteT
<1>1. CASE v = [w EXCEPT !.ok = FALSE]
  BY <1>1, Zenon DEF WriteT
<1>2. CASE OnDisk(w.startblock, 1) /\ v \in write_blocks(w, block)
  <2>1. lo + block_size <= Bytes
    <3>1. (w.startblock + 1) * block_size <= Bytes
      BY <1>0, <1>2, BytesOfBlocks DEF OnDisk
    <3>2. (w.startblock + 1) * block_size = lo + block_size
      BY <1>0, Z3 DEF StartsAt
    <3> QED
      BY <3>1, <3>2
  <2>2. block \in Seq(DiskByte) /\ Len(block) = 1 * block_size
    <3>1. ASSUME NEW i \in 1 .. block_size
          PROVE  block[i] \in DiskByte
      <4>1. CASE i - 1 - at \in 0 .. n - 1
        <5>1. i - at \in 1 .. Len(w.src) /\ w.src \in Seq(DiskByte)
          BY <1>0, <4>1 DEF WriteT
        <5>2. w.src[i - at] \in DiskByte
          BY <5>1
        <5> QED
          BY <4>1, <5>2
      <4>2. CASE ~(i - 1 - at \in 0 .. n - 1)
        <5>1. lo + i - 1 \in 0 .. Bytes - 1
          BY <1>0, <2>1
        <5>2. w.disk[lo + i - 1] \in DiskByte
          BY <5>1, Zenon DEF WriteT, DiskT
        <5> QED
          BY <4>2, <5>2, Zenon
      <4> QED
        BY <4>1, <4>2, Zenon
    <3>2. block \in [1 .. block_size -> DiskByte]
      BY <3>1, Zenon
    <3> HIDE DEF block
    <3> QED
      BY <1>0, <3>2
  <2>a. ASSUME NEW b \in 0 .. Bytes - 1
        PROVE  /\ b - (lo + at) \in 0 .. n - 1 => b - lo \in 0 .. block_size - 1
               /\ b - lo \in 0 .. block_size - 1 => b - lo + 1 \in 1 .. block_size
               /\ lo + (b - lo + 1) - 1 = b
               /\ (b - lo + 1) - at = b - (lo + at) + 1
               /\ (b - lo + 1) - 1 - at = b - (lo + at)
    <3>1. b \in Nat /\ block_size \in Nat
      BY <1>0
    <3> QED
      BY <3>1, PlaceInBlock
  <2>3. ASSUME NEW b \in 0 .. Bytes - 1
        PROVE  At(w.disk, lo, block_size, block, b) = At(w.disk, lo + at, n, w.src, b)
    <3>1. CASE b - lo \in 0 .. block_size - 1
      <4> DEFINE i == b - lo + 1
      <4>1. /\ i \in 1 .. block_size /\ lo + i - 1 = b /\ i - at = b - (lo + at) + 1
            /\ i - 1 - at = b - (lo + at)
        BY <2>a, <3>1
      <4>2. block[i] = IF i - 1 - at \in 0 .. n - 1 THEN w.src[i - at] ELSE w.disk[lo + i - 1]
        BY <4>1
      <4>3. At(w.disk, lo, block_size, block, b) = block[i]
        BY <3>1 DEF At
      <4> HIDE DEF i, block
      <4> QED
        BY <4>1, <4>2, <4>3 DEF At
    <3>2. CASE ~(b - lo \in 0 .. block_size - 1)
      <4>1. ~(b - (lo + at) \in 0 .. n - 1)
        BY <2>a, <3>2
      <4> HIDE DEF block
      <4> QED
        BY <3>2, <4>1, ZenonT(40) DEF At
    <3> QED
      BY <3>1, <3>2, ZenonT(40)
  <2> HIDE DEF block
  <2>4. Len(block) = block_size
    BY <1>0, <2>2, SMTT(30), ZenonT(20)
  <2>5. /\ v \in WriteT /\ v.src = w.src /\ v.startblock = w.startblock
        /\ \A b \in 0 .. Bytes - 1 : \/ v.disk[b] = w.disk[b]
                                     \/ v.disk[b] = At(w.disk, lo, Len(block), block, b)
        /\ v.ok => \A b \in 0 .. Bytes - 1 : v.disk[b] = At(w.disk, lo, Len(block), block, b)
    BY <1>2, <2>2, BlocksWritten
  <2> QED
    BY <2>1, <2>3, <2>4, <2>5, Zenon
<1> QED
  BY <1>1, <1>2, Zenon DEF Modify, StartsAt

(* What is left of the source.                                             *)
LEMMA RestProperties ==
  ASSUME NEW src \in Seq(DiskByte), NEW p \in 0 .. Len(src)
  PROVE  /\ Rest(src, p) \in Seq(DiskByte) /\ Len(Rest(src, p)) = Len(src) - p
         /\ \A i \in 1 .. Len(src) - p : Rest(src, p)[i] = src[p + i]
<1>1. Len(src) \in Nat /\ \A i \in p + 1 .. Len(src) : src[i] \in DiskByte
  OBVIOUS
<1>2. /\ SubSeq(src, p + 1, Len(src)) \in Seq(DiskByte)
      /\ Len(SubSeq(src, p + 1, Len(src)))
           = IF p + 1 <= Len(src) THEN Len(src) - (p + 1) + 1 ELSE 0
      /\ \A i \in 1 .. Len(src) - (p + 1) + 1 : SubSeq(src, p + 1, Len(src))[i] = src[(p + 1) + i - 1]
  BY <1>1, SubSeqProperties
<1> DEFINE l == Len(src)
           r == SubSeq(src, p + 1, l)
<1>3. l \in Nat /\ p \in 0 .. l
  BY <1>1
<1> HIDE DEF l, r
<1>4. (IF p + 1 <= l THEN l - (p + 1) + 1 ELSE 0) = l - p /\ l - (p + 1) + 1 = l - p
  BY <1>3
<1>5. \A i \in 1 .. l - p : (p + 1) + i - 1 = p + i
  BY <1>3
<1>6. Len(r) = l - p /\ \A i \in 1 .. l - p : r[i] = src[p + i]
  BY <1>2, <1>4, <1>5, Zenon DEF l, r
<1> QED
  BY <1>2, <1>6 DEF Rest, l, r

LEMMA RestOfRest ==
  ASSUME NEW src \in Seq(DiskByte), NEW p \in 0 .. Len(src), NEW n \in 0 .. Len(src) - p
  PROVE  Rest(Rest(src, p), n) = Rest(src, p + n)
<1> DEFINE r == Rest(src, p)
<1>1. Len(src) \in Nat /\ p \in Nat /\ n \in Nat /\ p + n \in 0 .. Len(src)
  OBVIOUS
<1>2. r \in Seq(DiskByte) /\ Len(r) = Len(src) - p /\ \A i \in 1 .. Len(src) - p : r[i] = src[p + i]
  BY RestProperties
<1> HIDE DEF r
<1>3. /\ Rest(r, n) \in Seq(DiskByte) /\ Len(Rest(r, n)) = Len(r) - n
      /\ \A i \in 1 .. Len(r) - n : Rest(r, n)[i] = r[n + i]
  <2>1. n \in 0 .. Len(r)
    BY <1>2
  <2> QED
    BY <1>2, <2>1, RestProperties, Zenon
<1>4. /\ Rest(src, p + n) \in Seq(DiskByte) /\ Len(Rest(src, p + n)) = Len(src) - (p + n)
      /\ \A i \in 1 .. Len(src) - (p + n) : Rest(src, p + n)[i] = src[(p + n) + i]
  BY <1>1, RestProperties
<1>5. Len(Rest(r, n)) = Len(Rest(src, p + n))
  <2> DEFINE l == Len(src)
  <2>1. l \in Nat
    OBVIOUS
  <2> HIDE DEF l
  <2>2. (l - p) - n = l - (p + n)
    BY <1>1, <2>1
  <2> QED
    BY <1>2, <1>3, <1>4, <2>2, Zenon DEF l
<1>6. ASSUME NEW i \in 1 .. Len(Rest(r, n))
      PROVE  Rest(r, n)[i] = Rest(src, p + n)[i]
  <2>1. i \in 1 .. Len(r) - n /\ i \in 1 .. Len(src) - (p + n) /\ n + i \in 1 .. Len(src) - p
    BY <1>1, <1>2, <1>3
  <2>2. p + (n + i) = (p + n) + i
    BY <1>1, <2>1
  <2> QED
    BY <1>2, <1>3, <1>4, <2>1, <2>2, Zenon
<1>7. Rest(r, n) = Rest(src, p + n)
  BY <1>3, <1>4, <1>5, <1>6, SeqEqual
<1> QED
  BY <1>7 DEF r

(* The place of a byte in the source, and in what is left of it.           *)
LEMMA PlaceInSource ==
  ASSUME NEW b \in Nat, NEW offset \in Nat, NEW p \in Nat, NEW n \in Nat, NEW l \in Nat, p + n <= l
  PROVE  /\ b - (offset + p) \in 0 .. n - 1 =>
              /\ b - (offset + p) + 1 \in 1 .. l - p /\ b - offset \in 0 .. p + n - 1
              /\ b - offset \in 0 .. l - 1 /\ ~(b - offset \in 0 .. p - 1)
         /\ p + (b - (offset + p) + 1) = b - offset + 1
         /\ ~(b - (offset + p) \in 0 .. n - 1) =>
              /\ b - offset \in 0 .. p + n - 1 <=> b - offset \in 0 .. p - 1
              /\ b - offset \in 0 .. p - 1 => b - offset \in 0 .. l - 1
OBVIOUS

LEMMA OutOfPart ==
  ASSUME NEW b \in Nat, NEW o \in Nat, NEW p \in Nat, NEW n \in Nat, NEW l \in Nat,
         p + n <= l, ~(b - (o + p) \in 0 .. n - 1)
  PROVE  /\ b - o \in 0 .. p + n - 1 <=> b - o \in 0 .. p - 1
         /\ b - o \in 0 .. p - 1 => b - o \in 0 .. l - 1
OBVIOUS

(* A part of a write that was going well, and what it leaves behind.       *)
LEMMA PartWritten ==
  ASSUME NEW src \in Seq(DiskByte), NEW offset \in Nat, NEW p \in 0 .. Len(src),
         NEW n \in 0 .. Len(src) - p, NEW d, NEW e \in DiskT, NEW ok \in BOOLEAN,
         Written(d, TRUE, src, offset, p),
         \A b \in 0 .. Bytes - 1 : e[b] = d[b] \/ e[b] = At(d, offset + p, n, Rest(src, p), b),
         ok => /\ n > 0 => offset + p + n <= Bytes
               /\ \A b \in 0 .. Bytes - 1 : e[b] = At(d, offset + p, n, Rest(src, p), b)
  PROVE  Written(e, ok, src, offset, p + n)
<1>0. Len(src) \in Nat /\ p \in Nat /\ n \in Nat /\ p + n \in 0 .. Len(src) /\ Bytes \in Nat
  BY BytesOfBlocks
<1>1. \A b \in 0 .. Bytes - 1 : d[b] = At(disk, offset, p, src, b)
  BY Zenon DEF Written
<1>2. ASSUME NEW b \in 0 .. Bytes - 1
      PROVE  /\ At(d, offset + p, n, Rest(src, p), b) = At(disk, offset, p + n, src, b)
             /\ \/ At(disk, offset, p + n, src, b) = disk[b]
                \/ At(disk, offset, p + n, src, b) = At(disk, offset, Len(src), src, b)
             /\ d[b] = disk[b] \/ d[b] = At(disk, offset, Len(src), src, b)
  <2>1. CASE b - (offset + p) \in 0 .. n - 1
    <3> DEFINE i == b - (offset + p) + 1
    <3>0. b \in Nat /\ p + n <= Len(src)
      BY <1>0
    <3>1. /\ i \in 1 .. Len(src) - p /\ p + i = b - offset + 1 /\ b - offset \in 0 .. p + n - 1
          /\ b - offset \in 0 .. Len(src) - 1 /\ ~(b - offset \in 0 .. p - 1)
      BY <1>0, <2>1, <3>0, PlaceInSource
    <3>2. Rest(src, p)[i] = src[p + i]
      BY <3>1, RestProperties, ZenonT(40)
    <3>3. At(d, offset + p, n, Rest(src, p), b) = Rest(src, p)[i]
      BY <2>1, Zenon DEF At
    <3>4. At(disk, offset, p + n, src, b) = src[b - offset + 1]
      BY <3>1 DEF At
    <3>5. At(disk, offset, Len(src), src, b) = src[b - offset + 1]
      BY <3>1, Zenon DEF At
    <3>6. d[b] = disk[b]
      BY <1>1, <3>1, ZenonT(40) DEF At
    <3> HIDE DEF i
    <3> QED
      BY <3>1, <3>2, <3>3, <3>4, <3>5, <3>6, ZenonT(40)
  <2>2. CASE ~(b - (offset + p) \in 0 .. n - 1)
    <3>0. b \in Nat /\ p + n <= Len(src)
      BY <1>0
    <3>1. /\ b - offset \in 0 .. p + n - 1 <=> b - offset \in 0 .. p - 1
          /\ b - offset \in 0 .. p - 1 => b - offset \in 0 .. Len(src) - 1
      <4>1. Len(src) \in Nat /\ p \in Nat /\ n \in Nat
        BY <1>0
      <4> QED
        BY <2>2, <3>0, <4>1, OutOfPart, Zenon
    <3> QED
      BY <1>1, <2>2, <3>1 DEF At
  <2> QED
    BY <2>1, <2>2, Zenon
<1>3. \A b \in 0 .. Bytes - 1 : e[b] = disk[b] \/ e[b] = At(disk, offset, Len(src), src, b)
  BY <1>2, Zenon
<1>4. ok => \A b \in 0 .. Bytes - 1 : e[b] = At(disk, offset, p + n, src, b)
  BY <1>2, Zenon
<1>5. ok /\ p + n > 0 => offset + (p + n) <= Bytes
  <2>1. p > 0 => offset + p <= Bytes
    BY Zenon DEF Written
  <2> QED
    BY <1>0, <2>1
<1> QED
  BY <1>0, <1>3, <1>4, <1>5, Zenon DEF Written

(* Between two parts of a write: as much of src is written as the code     *)
(* has advanced, and it goes on at the block where the next byte lies.     *)
Phase(w, src, offset, p) ==
  /\ w \in WriteT
  /\ Written(w.disk, w.ok, src, offset, p)
  /\ w.ok => w.src = Rest(src, p) /\ (p < Len(src) => StartsAt(w, offset + p))

LEMMA AdvancePhase ==
  ASSUME NEW src \in Seq(DiskByte), NEW offset \in Nat, NEW p \in 0 .. Len(src),
         NEW n \in 0 .. Len(src) - p, NEW blocks \in Nat, NEW v \in WriteT,
         Written(v.disk, v.ok, src, offset, p + n), v.src = Rest(src, p),
         v.ok /\ p + n < Len(src) => (v.startblock + blocks) * block_size = offset + (p + n)
  PROVE  Phase(Advance(v, n, blocks), src, offset, p + n)
<1>1. CASE ~v.ok
  BY <1>1, Zenon DEF Phase, Advance
<1>2. CASE v.ok
  <2> DEFINE r == Rest(src, p + n)
             to == v.startblock + blocks
  <2>1. p + n \in 0 .. Len(src)
    OBVIOUS
  <2>2. SubSeq(v.src, n + 1, Len(v.src)) = r /\ r \in Seq(DiskByte)
    BY <2>1, RestOfRest, RestProperties, SMTT(30), ZenonT(20) DEF Rest
  <2>3. to \in Nat
    BY DEF WriteT
  <2>4. Advance(v, n, blocks) = [v EXCEPT !.src = r, !.startblock = to]
    BY <1>2, <2>2, Zenon DEF Advance
  <2>a. to * block_size = offset + (p + n) \/ ~(p + n < Len(src))
    BY <1>2, Zenon
  <2> HIDE DEF r, to
  <2>5. Advance(v, n, blocks) = [disk |-> v.disk, ok |-> v.ok, src |-> r, startblock |-> to]
    BY <2>4, Zenon DEF WriteT
  <2> DEFINE a == Advance(v, n, blocks)
  <2>6. a.disk = v.disk /\ a.ok = v.ok /\ a.src = r /\ a.startblock = to
    BY <2>5
  <2>7. a \in WriteT
    BY <2>2, <2>3, <2>5 DEF WriteT
  <2> HIDE DEF a
  <2>8. Phase(a, src, offset, p + n)
    BY <2>6, <2>7, <2>a, Zenon DEF Phase, StartsAt, r
  <2> QED
    BY <2>8, Zenon DEF a
<1> QED
  BY <1>1, <1>2, Zenon

Started(w, src, offset) ==
  w = [disk |-> disk, ok |-> TRUE, src |-> src, startblock |-> offset \div block_size]

(* The block that the write begins in the middle of.                       *)
LEMMA FirstPhase ==
  ASSUME DiskType, NEW src \in Seq(DiskByte), NEW offset \in Nat, NEW w,
         Started(w, src, offset), NEW first \in FirstPart(w, offset % block_size)
  PROVE  \E p \in 0 .. Len(src) : Phase(first, src, offset, p)
<1> DEFINE u == offset % block_size
           lo == (offset \div block_size) * block_size
<1>0. block_size \in Nat \ {0} /\ Len(src) \in Nat /\ Bytes \in Nat
  BY StorageAssumption, BytesOfBlocks
<1>1. /\ offset \div block_size \in Nat /\ u \in Nat /\ u < block_size /\ lo \in Nat
      /\ offset = lo + u
  BY <1>0, BlockAndPlace, BlockStart, Zenon
<1>2. w \in WriteT /\ w.ok = TRUE /\ w.src = src /\ w.disk = disk /\ StartsAt(w, lo)
  BY <1>1, Zenon DEF WriteT, DiskT, DiskType, StartsAt, Started
<1>3. Written(w.disk, TRUE, src, offset, 0)
  BY <1>0, <1>2 DEF Written, At, WriteT
<1>4. Rest(src, 0) = src
  <2>1. /\ Rest(src, 0) \in Seq(DiskByte) /\ Len(Rest(src, 0)) = Len(src)
        /\ \A i \in 1 .. Len(src) : Rest(src, 0)[i] = src[i]
    BY <1>0, RestProperties, SMTT(30), ZenonT(20)
  <2> QED
    BY <2>1, SeqEqual, Zenon
<1> HIDE DEF lo
<1>5. CASE u = 0
  <2>1. first = w
    BY <1>5 DEF FirstPart
  <2>2. lo = offset + 0
    BY <1>1, <1>5
  <2>3. Phase(w, src, offset, 0)
    BY <1>2, <1>3, <1>4, <2>2, Zenon DEF Phase
  <2> QED
    BY <1>0, <2>1, <2>3
<1>6. CASE u # 0
  <2> DEFINE tmpsize == IF block_size - u > Len(w.src) THEN Len(w.src) ELSE block_size - u
  <2>1. /\ tmpsize \in 0 .. Len(src) /\ u + tmpsize <= block_size /\ tmpsize \in Nat
        /\ tmpsize < Len(src) => u + tmpsize = block_size
    BY <1>0, <1>1, <1>2
  <2>2. PICK v \in Modify(w, u, tmpsize) : first = Advance(v, tmpsize, 1)
    BY <1>6, Zenon DEF FirstPart
  <2> HIDE DEF tmpsize, u
  <2>3. /\ v \in WriteT /\ v.src = w.src /\ v.startblock = w.startblock
        /\ \A b \in 0 .. Bytes - 1 : \/ v.disk[b] = w.disk[b]
                                     \/ v.disk[b] = At(w.disk, lo + u, tmpsize, w.src, b)
        /\ v.ok => /\ lo + block_size <= Bytes
                   /\ \A b \in 0 .. Bytes - 1 : v.disk[b] = At(w.disk, lo + u, tmpsize, w.src, b)
    <3>1. w \in WriteT /\ w.ok /\ tmpsize <= Len(w.src) /\ u \in Nat /\ lo \in Nat
      BY <1>0, <1>1, <1>2, <2>1 DEF u
    <3> QED
      BY <1>2, <2>1, <3>1, BlockModified, SMTT(30), ZenonT(20)
  <2>4. Written(v.disk, v.ok, src, offset, 0 + tmpsize)
    <3> DEFINE d == w.disk
               e == v.disk
               ok == v.ok
    <3>1. 0 \in 0 .. Len(src) /\ tmpsize \in 0 .. Len(src) - 0 /\ offset + 0 = lo + u
      BY <1>0, <1>1, <2>1, SMTT(30), ZenonT(20)
    <3>2. v.ok => offset + 0 + tmpsize <= Bytes
      BY <1>0, <1>1, <2>1, <2>3, SMTT(30), ZenonT(20)
    <3>3. e \in DiskT /\ ok \in BOOLEAN
      BY <2>3 DEF WriteT
    <3>4. /\ Written(d, TRUE, src, offset, 0)
          /\ \A b \in 0 .. Bytes - 1 : e[b] = d[b] \/ e[b] = At(d, offset + 0, tmpsize, Rest(src, 0), b)
          /\ ok => /\ tmpsize > 0 => offset + 0 + tmpsize <= Bytes
                   /\ \A b \in 0 .. Bytes - 1 : e[b] = At(d, offset + 0, tmpsize, Rest(src, 0), b)
      BY <1>2, <1>3, <1>4, <2>3, <3>1, <3>2, Zenon
    <3> HIDE DEF d, e, ok
    <3>5. Written(e, ok, src, offset, 0 + tmpsize)
      BY <3>1, <3>3, <3>4, PartWritten, Zenon
    <3> QED
      BY <3>5, Zenon DEF e, ok
  <2>5. 0 + tmpsize < Len(src) => (v.startblock + 1) * block_size = offset + (0 + tmpsize)
    <3>1. v.startblock * block_size = lo /\ v.startblock \in Nat
      BY <1>2, <2>3 DEF StartsAt, WriteT
    <3>2. (v.startblock + 1) * block_size = lo + block_size
      BY <1>0, <3>1, Z3
    <3> QED
      BY <1>0, <1>1, <2>1, <3>2, SMTT(30), ZenonT(20)
  <2>6. 0 \in 0 .. Len(src) /\ tmpsize \in 0 .. Len(src) - 0 /\ 1 \in Nat /\ v.src = Rest(src, 0)
    BY <1>0, <1>2, <1>4, <2>1, <2>3
  <2>7. Phase(Advance(v, tmpsize, 1), src, offset, 0 + tmpsize)
    BY <2>3, <2>4, <2>5, <2>6, AdvancePhase, Zenon
  <2> QED
    BY <1>0, <2>1, <2>2, <2>7
<1> QED
  BY <1>5, <1>6

(* The blocks in the middle: less than a block is left behind them.        *)
LEMMA WholePhase ==
  ASSUME NEW src \in Seq(DiskByte), NEW offset \in Nat, NEW p \in 0 .. Len(src),
         NEW w, Phase(w, src, offset, p), NEW whole \in WholeBlocks(w)
  PROVE  \E q \in 0 .. Len(src) : /\ Phase(whole, src, offset, q)
                                  /\ whole.ok => Len(src) - q < block_size
<1> DEFINE l == Len(src) - p
           num == l \div block_size
           n == num * block_size
<1>0. block_size \in Nat \ {0} /\ Len(src) \in Nat /\ Bytes \in Nat /\ l \in Nat /\ p \in Nat
  BY StorageAssumption, BytesOfBlocks
<1>1. /\ num \in Nat /\ n \in Nat /\ n <= l /\ l - n < block_size
  <2> HIDE DEF l
  <2>1. /\ num \in Nat /\ l % block_size \in Nat /\ l = num * block_size + (l % block_size)
        /\ l % block_size < block_size
    BY <1>0, BlockAndPlace
  <2>2. n \in Nat
    BY <1>0, <2>1
  <2> QED
    BY <1>0, <2>1, <2>2
<1>2. CASE ~w.ok
  BY <1>2 DEF WholeBlocks
<1>3. CASE w.ok
  <2>1. w \in WriteT /\ w.src = Rest(src, p) /\ Len(w.src) = l /\ w.src \in Seq(DiskByte)
    BY <1>3, RestProperties, Zenon DEF Phase
  <2>2. CASE num = 0
    <3>1. whole = w
      BY <2>1, <2>2 DEF WholeBlocks
    <3>2. l < block_size
      BY <1>0, <1>1, <2>2
    <3> QED
      BY <3>1, <3>2
  <2>3. CASE num # 0
    <3> DEFINE data == SubSeq(w.src, 1, n)
    <3>1. PICK v \in write_blocks(w, data) : whole = Advance(v, n, num)
      BY <1>3, <2>1, <2>3, Zenon DEF WholeBlocks
    <3>2. /\ data \in Seq(DiskByte) /\ Len(data) = num * block_size
          /\ \A i \in 1 .. n : data[i] = w.src[i]
      <4> HIDE DEF n
      <4>1. \A i \in 1 .. n : w.src[i] \in DiskByte
        BY <1>1, <2>1, SMTT(30), ZenonT(20)
      <4>2. /\ data \in Seq(DiskByte) /\ Len(data) = IF 1 <= n THEN n - 1 + 1 ELSE 0
            /\ \A i \in 1 .. n - 1 + 1 : data[i] = w.src[1 + i - 1]
        BY <1>1, <4>1, SubSeqProperties, SMTT(30), ZenonT(20)
      <4>3. Len(data) = n /\ \A i \in 1 .. n : data[i] = w.src[i]
        BY <1>1, <4>2
      <4> QED
        BY <4>2, <4>3, Zenon DEF n
    <3>3. n > 0
      <4>1. 1 * block_size <= num * block_size
        BY <1>1, <2>3, BlocksOrdered
      <4> QED
        BY <1>0, <1>1, <4>1
    <3>4. StartsAt(w, offset + p)
      BY <1>0, <1>1, <1>3, <3>3, SMTT(30), ZenonT(20) DEF Phase
    <3> DEFINE lo == offset + p
    <3>5. lo \in Nat
      BY <1>0, SMTT(30), ZenonT(20)
    <3> HIDE DEF data, l, num, lo
    <3>6. /\ v \in WriteT /\ v.src = w.src /\ v.startblock = w.startblock
          /\ \A b \in 0 .. Bytes - 1 : \/ v.disk[b] = w.disk[b]
                                       \/ v.disk[b] = At(w.disk, lo, Len(data), data, b)
          /\ v.ok => /\ w.startblock + num <= DiskBlocks
                     /\ \A b \in 0 .. Bytes - 1 : v.disk[b] = At(w.disk, lo, Len(data), data, b)
      <4>1. StartsAt(w, lo)
        BY <3>4 DEF lo
      <4> QED
        BY <1>1, <2>1, <3>1, <3>2, <3>5, <4>1, BlocksWritten
    <3>7. \A b \in 0 .. Bytes - 1 : At(w.disk, lo, Len(data), data, b) = At(w.disk, lo, n, Rest(src, p), b)
      <4> HIDE DEF n
      <4>1. Len(data) = n
        BY <3>2, Zenon DEF n
      <4>2. \A b \in 0 .. Bytes - 1 : b - lo \in 0 .. n - 1 => b - lo + 1 \in 1 .. n
        BY <1>0, <1>1, <3>5, SMTT(30), ZenonT(20)
      <4> QED
        BY <2>1, <3>2, <4>1, <4>2, ZenonT(40) DEF At
    <3>8. (v.startblock + num) * block_size = lo + n /\ v.startblock \in Nat
      <4>1. v.startblock * block_size = lo /\ v.startblock \in Nat
        BY <3>4, <3>6 DEF StartsAt, WriteT, lo
      <4> QED
        BY <1>0, <1>1, <4>1, Z3
    <3>9. v.ok => lo + n <= Bytes
      <4>1. ASSUME v.ok PROVE (v.startblock + num) * block_size <= Bytes
        BY <1>1, <3>6, <3>8, <4>1, BytesOfBlocks
      <4> QED
        BY <3>8, <4>1, ZenonT(40)
    <3>10. n \in 0 .. Len(src) - p
      BY <1>0, <1>1 DEF l
    <3>11. Written(v.disk, v.ok, src, offset, p + n)
      <4> DEFINE d == w.disk
                 e == v.disk
                 ok == v.ok
      <4>1. e \in DiskT /\ ok \in BOOLEAN
        BY <3>6, ZenonT(40) DEF WriteT
      <4>2. Written(d, TRUE, src, offset, p)
        BY <1>3 DEF Phase, Written
      <4>3. /\ \A b \in 0 .. Bytes - 1 : e[b] = d[b] \/ e[b] = At(d, offset + p, n, Rest(src, p), b)
            /\ ok => /\ n > 0 => offset + p + n <= Bytes
                     /\ \A b \in 0 .. Bytes - 1 : e[b] = At(d, offset + p, n, Rest(src, p), b)
        BY <3>6, <3>7, <3>9, Zenon DEF lo
      <4> HIDE DEF d, e, ok, n
      <4>4. Written(e, ok, src, offset, p + n)
        BY <3>10, <4>1, <4>2, <4>3, PartWritten, ZenonT(40)
      <4> QED
        BY <4>4, Zenon DEF e, ok
    <3>12. (v.startblock + num) * block_size = offset + (p + n)
      BY <1>0, <1>1, <3>8 DEF lo
    <3>a. n \in Nat
      BY <1>1
    <3> HIDE DEF n
    <3>13. Phase(Advance(v, n, num), src, offset, p + n)
      BY <1>1, <2>1, <3>6, <3>10, <3>11, <3>12, AdvancePhase, ZenonT(40)
    <3>14. p + n \in 0 .. Len(src) /\ Len(src) - (p + n) < block_size
      BY <1>0, <1>1, <3>10, <3>a DEF l
    <3> QED
      BY <3>1, <3>13, <3>14
  <2> QED
    BY <2>2, <2>3
<1> QED
  BY <1>2, <1>3

(* The rest, in the middle of a block: then all of src is written.         *)
LEMMA LastPhase ==
  ASSUME NEW src \in Seq(DiskByte), NEW offset \in Nat, NEW p \in 0 .. Len(src),
         NEW w, Phase(w, src, offset, p), w.ok => Len(src) - p < block_size,
         NEW last \in LastPart(w)
  PROVE  Written(last.disk, last.ok, src, offset, Len(src))
<1> DEFINE n == Len(src) - p
<1>0. block_size \in Nat \ {0} /\ Len(src) \in Nat /\ Bytes \in Nat /\ n \in Nat /\ p \in Nat
  BY StorageAssumption, BytesOfBlocks, SMTT(30), ZenonT(20)
<1>1. CASE ~w.ok
  BY <1>0, <1>1 DEF LastPart, Phase, Written
<1>2. CASE w.ok
  <2>1. w \in WriteT /\ w.src = Rest(src, p) /\ Len(w.src) = n /\ w.src \in Seq(DiskByte)
    BY <1>2, RestProperties, Zenon DEF Phase
  <2>2. CASE w.src = << >>
    <3>1. last = w
      BY <2>2, ZenonT(40) DEF LastPart
    <3>2. p = Len(src)
      BY <1>0, <2>1, <2>2
    <3> QED
      BY <3>1, <3>2, Zenon DEF Phase
  <2>3. CASE w.src # << >>
    <3>1. n > 0
      BY <1>0, <2>1, <2>3
    <3>2. last \in Modify(w, 0, Len(w.src))
      BY <1>2, <2>3, Zenon DEF LastPart
    <3> DEFINE lo == offset + p
    <3>3. StartsAt(w, lo) /\ lo \in Nat
      BY <1>0, <1>2, <3>1 DEF Phase
    <3>a. n <= block_size
      BY <1>0, <1>2
    <3>b. n \in 0 .. Len(src) - p /\ p + n = Len(src)
      BY <1>0, SMTT(30), ZenonT(20)
    <3> HIDE DEF lo, n
    <3>4. /\ last \in WriteT
          /\ \A b \in 0 .. Bytes - 1 : \/ last.disk[b] = w.disk[b]
                                       \/ last.disk[b] = At(w.disk, lo + 0, n, w.src, b)
          /\ last.ok => /\ lo + block_size <= Bytes
                        /\ \A b \in 0 .. Bytes - 1 : last.disk[b] = At(w.disk, lo + 0, n, w.src, b)
      <4>1. last \in Modify(w, 0, n) /\ 0 \in Nat /\ 0 + n <= block_size /\ n <= Len(w.src)
        BY <1>0, <2>1, <3>2, <3>a, SMTT(30), ZenonT(20)
      <4> QED
        BY <1>0, <1>2, <2>1, <3>3, <4>1, BlockModified, SMTT(30), ZenonT(20)
    <3>5. last.ok => offset + p + n <= Bytes
      BY <1>0, <3>3, <3>4, <3>a, SMTT(30), ZenonT(20) DEF lo
    <3> DEFINE d == w.disk
               e == last.disk
               ok == last.ok
    <3>6. e \in DiskT /\ ok \in BOOLEAN
      BY <3>4 DEF WriteT
    <3>7. Written(d, TRUE, src, offset, p)
      BY <1>2, ZenonT(40) DEF Phase, Written
    <3>8. /\ \A b \in 0 .. Bytes - 1 : e[b] = d[b] \/ e[b] = At(d, offset + p, n, Rest(src, p), b)
          /\ ok => /\ n > 0 => offset + p + n <= Bytes
                   /\ \A b \in 0 .. Bytes - 1 : e[b] = At(d, offset + p, n, Rest(src, p), b)
      <4>1. lo + 0 = offset + p
        BY <3>3 DEF lo
      <4> QED
        BY <2>1, <3>4, <3>5, <4>1
    <3> HIDE DEF d, e, ok
    <3>9. Written(e, ok, src, offset, p + n)
      BY <3>6, <3>7, <3>8, <3>b, PartWritten, Zenon
    <3> QED
      BY <3>9, <3>b, Zenon DEF e, ok
  <2> QED
    BY <2>2, <2>3, Zenon
<1> QED
  BY <1>1, <1>2

(* What a write returns.                                                   *)
Reply(src, ok) == IF ok THEN Len(src) ELSE DriverError

(* Whatever a write begins and ends in the middle of, and whichever of its *)
(* transfers fails, it changes the bytes it is about and no others.        *)
LEMMA WriteImplements ==
  ASSUME DiskType, DevWrite
  PROVE  Device0!Write /\ DiskType'
<1>1. PICK offset \in Offsets, src \in Source : dev_write(src, offset)
  BY DEF DevWrite
<1>2. offset \in Nat /\ src \in Seq(DiskByte) /\ Len(src) \in Nat /\ Bytes \in Nat
  BY StorageAssumption, BytesOfBlocks
<1> DEFINE start == [disk |-> disk, ok |-> TRUE, src |-> src, startblock |-> Sector(offset \div block_size)]
           at == partition_start * block_size + offset
<1>3. PICK first \in FirstPart(start, offset % block_size) :
        \E whole \in WholeBlocks(first) :
          \E last \in LastPart(whole) :
            disk' = last.disk /\ done' = Answer("write", offset, Len(src), Reply(src, last.ok), << >>)
  BY <1>1, Zenon DEF dev_write, Reply
<1>a. /\ at \in Nat /\ at \div block_size = Sector(offset \div block_size)
      /\ at % block_size = offset % block_size
  BY <1>2, OnPartition
<1>4. Started(start, src, at)
  BY <1>a, Zenon DEF Started
<1> HIDE DEF start, at
<1>5. PICK whole \in WholeBlocks(first) :
        \E last \in LastPart(whole) :
          disk' = last.disk /\ done' = Answer("write", offset, Len(src), Reply(src, last.ok), << >>)
  BY <1>3, Zenon
<1>6. PICK last \in LastPart(whole) :
        disk' = last.disk /\ done' = Answer("write", offset, Len(src), Reply(src, last.ok), << >>)
  BY <1>5, Zenon
<1>7. PICK p \in 0 .. Len(src) : Phase(first, src, at, p)
  BY <1>2, <1>3, <1>4, <1>a, FirstPhase, Zenon
<1>8. PICK q \in 0 .. Len(src) : Phase(whole, src, at, q) /\ (whole.ok => Len(src) - q < block_size)
  BY <1>2, <1>7, <1>a, WholePhase, Zenon
<1>9. Written(last.disk, last.ok, src, at, Len(src))
  BY <1>2, <1>8, <1>a, LastPhase, ZenonT(40)
<1> DEFINE ok == last.ok
<1>10. /\ disk' \in DiskT /\ ok \in BOOLEAN
       /\ \A b \in 0 .. Bytes - 1 : disk'[b] = disk[b] \/ disk'[b] = At(disk, at, Len(src), src, b)
       /\ ok => /\ \A b \in 0 .. Bytes - 1 : disk'[b] = At(disk, at, Len(src), src, b)
                /\ (Len(src) > 0 => at + Len(src) <= Bytes)
  BY <1>2, <1>6, <1>9 DEF Written
<1>11. done' = Answer("write", offset, Len(src), Reply(src, ok), << >>)
  BY <1>6, Zenon
<1> HIDE DEF ok
<1>12. DOMAIN disk = 0 .. Bytes - 1
  BY Zenon DEF DiskType
<1>13. \A b \in 0 .. Bytes - 1 : At(disk, at, Len(src), src, b) = Device0!Wanted(src, offset, b)
  BY Zenon DEF At, Device0!Wanted, at
<1>14. done'.op = "write"
  BY <1>11, Zenon DEF Answer
<1>15. CASE ok
  <2>1. disk' = [b \in DOMAIN disk |-> Device0!Wanted(src, offset, b)]
    BY <1>10, <1>12, <1>13, <1>15, ZenonT(40) DEF DiskT
  <2>2. done' = Device0!Answer("write", offset, Len(src), Len(src), << >>)
    BY <1>11, <1>15, Zenon DEF Answer, Device0!Answer, Reply
  <2> QED
    BY <1>10, <1>14, <1>15, <2>1, <2>2, Zenon DEF Device0!Write, DiskType, DiskT, at
<1>16. CASE ~ok
  <2>1. done' = Device0!Answer("write", offset, Len(src), DriverError, << >>)
    BY <1>10, <1>11, <1>16, Zenon DEF Answer, Device0!Answer, Reply
  <2>2. /\ disk' \in [DOMAIN disk -> DiskByte]
        /\ \A b \in DOMAIN disk : disk'[b] \in {disk[b], Device0!Wanted(src, offset, b)}
    BY <1>10, <1>12, <1>13 DEF DiskT
  <2> QED
    BY <1>10, <1>14, <2>1, <2>2, Zenon DEF Device0!Write, DiskType, DiskT
<1> QED
  BY <1>15, <1>16, Zenon

(* A block device's file implements an array of bytes, for every size of   *)
(* blocks and disk, every partition and every request.                     *)
THEOREM DeviceCorrect == StorageSpec => IsByteDevice
<1>1. StorageInit => DiskType /\ Device0!Init
  BY DEF StorageInit, DiskType, Device0!Init, Device0!Answer, Answer
<1>2. DiskType /\ [StorageNext]_storageVars => DiskType'
  BY WriteImplements DEF StorageNext, storageVars, DiskType, DevRead
<1>3. DiskType /\ [StorageNext]_storageVars => [Device0!Read \/ Device0!Write]_<<disk, done>>
  BY ReadImplements, WriteImplements, Zenon DEF StorageNext, storageVars
<1> QED
  BY <1>1, <1>2, <1>3, PTL DEF StorageSpec, IsByteDevice, Device0!Spec
-----------------------------------------------------------------------------

(* Memory for files, and descriptors                                       *)

Inodes == initrd_inodes \cup Device \cup {NoInode}

(* What is true of a file that a descriptor stands for.  What was read     *)
(* from it ends in the file, so that a read behind the end, which moves    *)
(* the position back by one, does not move it back before that.            *)
FileOk(h, u, f) ==
  /\ f \in h.used /\ h.inode[f] # NoInode
  /\ u[f] <= h.pos[f] /\ u[f] <= length(h.inode[f])

(* No two descriptors in these tables stand for one file.                  *)
Distinct(tables) ==
  \A p, q \in DOMAIN tables : \A i \in DOMAIN tables[p], j \in DOMAIN tables[q] :
    tables[p][i] # NoFile /\ tables[p][i] = tables[q][j] => p = q /\ i = j

AllOk(tables, h, u) ==
  \A p \in DOMAIN tables : \A i \in DOMAIN tables[p] : tables[p][i] # NoFile => FileOk(h, u, tables[p][i])

Heaps == [used : SUBSET File, inode : [File -> Inodes], pos : [File -> Nat]]

(* Different files that are not in use, one for each of fds.               *)
Fresh(new, fds, used) ==
  new \in [fds -> File \ used] /\ \A i, j \in fds : new[i] = new[j] => i = j

(* Descriptors fds of process q have new files, the others those they had. *)
GivenNew(tables, old, q, fds, new) ==
  \A p \in DOMAIN tables : \A i \in DOMAIN tables[p] : tables[p][i] # NoFile =>
    \/ p \in DOMAIN old /\ i \in DOMAIN old[p] /\ tables[p][i] = old[p][i]
    \/ p = q /\ i \in fds /\ tables[p][i] = new[i]

AllUsed(tables, used) ==
  \A p \in DOMAIN tables : \A i \in DOMAIN tables[p] : tables[p][i] # NoFile => tables[p][i] \in used

(* The inductive invariant of the file system.                             *)
VfsInv ==
  /\ heap \in Heaps
  /\ files \in [Live -> Seq(File \cup {NoFile})]
  /\ devices \subseteq Device
  /\ upto \in [File -> Nat]
  /\ Distinct(files) /\ AllOk(files, heap, upto)

(* There is a file for each descriptor when there is room for them, and    *)
(* kmalloc returns different ones.                                         *)
LEMMA FilesAllocated ==
  ASSUME Counting, heap.used \subseteq File, NEW fds, IsFiniteSet(fds), Room(fds)
  PROVE  Fresh(kmalloc_files(fds), fds, heap.used)
<1> DEFINE free == File \ heap.used
           n == Cardinality(fds)
           m == Cardinality(free)
<1>1. IsFiniteSet(File)
  BY VfsAssumption DEF File, Counting, CountInterval
<1>2. IsFiniteSet(free)
  BY <1>1, Zenon DEF Counting, CountPart
<1>3. n \in Nat /\ m \in Nat /\ ExistsBijection(1 .. n, fds) /\ ExistsBijection(1 .. m, free)
  BY <1>2, Zenon DEF Counting, CountType
<1>4. n <= m
  BY <1>3, Zenon DEF Room
<1> HIDE DEF free, n, m
<1>5. PICK g : g \in Bijection(1 .. n, fds)
  BY <1>3, Zenon DEF ExistsBijection
<1>6. PICK h : h \in Bijection(1 .. m, free)
  BY <1>3, Zenon DEF ExistsBijection
<1> DEFINE new == [fd \in fds |-> h[CHOOSE x \in 1 .. n : g[x] = fd]]
<1>7. \A fd \in fds : /\ (CHOOSE x \in 1 .. n : g[x] = fd) \in 1 .. n
                      /\ g[CHOOSE x \in 1 .. n : g[x] = fd] = fd
  BY <1>5, Zenon DEF Bijection, Surjection
<1>8. new \in [fds -> free]
  BY <1>3, <1>4, <1>6, <1>7 DEF Bijection, Injection
<1>9. \A i, j \in fds : new[i] = new[j] => i = j
  <2> SUFFICES ASSUME NEW i \in fds, NEW j \in fds, new[i] = new[j] PROVE i = j
    BY Zenon
  <2> DEFINE a == CHOOSE x \in 1 .. n : g[x] = i
             b == CHOOSE x \in 1 .. n : g[x] = j
  <2>1. a \in 1 .. n /\ b \in 1 .. n /\ g[a] = i /\ g[b] = j
    BY <1>7, Zenon
  <2>2. h[a] = h[b]
    BY Zenon
  <2> HIDE DEF a, b
  <2>3. a \in 1 .. m /\ b \in 1 .. m
    BY <2>1, <1>3, <1>4
  <2>4. a = b
    BY <2>2, <2>3, <1>6 DEF Bijection, Injection, IsInjective
  <2> QED
    BY <2>1, <2>4, Zenon
<1> HIDE DEF new
<1> QED
  BY <1>8, <1>9, Zenon DEF kmalloc_files, free, Fresh

LEMMA FileAllocated ==
  ASSUME heap.used \subseteq File, heap.used # File
  PROVE  kmalloc_file \in File \ heap.used
  BY Zenon DEF kmalloc_file

(* newfd finds a free place in the table, which it has enlarged if there   *)
(* was none; the other places are as they were, or free.                   *)
LEMMA NewDescriptor ==
  ASSUME Counting, NEW table \in Seq(File \cup {NoFile})
  PROVE  /\ Enlarged(table) \in Seq(File \cup {NoFile})
         /\ newfd(table) \in DOMAIN Enlarged(table)
         /\ DOMAIN table \subseteq DOMAIN Enlarged(table)
         /\ \A i \in DOMAIN Enlarged(table) :
              Enlarged(table)[i] = IF i \in DOMAIN table THEN table[i] ELSE NoFile
<1>1. CASE FreeFds(table) = {}
  <2> DEFINE more == [i \in 1 .. NumFiles |-> NoFile]
  <2>1. NumFiles \in Nat \ {0}
    BY VfsAssumption
  <2>2. more \in Seq(File \cup {NoFile}) /\ Len(more) = NumFiles /\ \A i \in 1 .. NumFiles : more[i] = NoFile
    BY <2>1
  <2> HIDE DEF more
  <2>3. /\ table \o more \in Seq(File \cup {NoFile})
        /\ Len(table \o more) = Len(table) + NumFiles
        /\ \A i \in 1 .. Len(table) + NumFiles : (table \o more)[i] = IF i <= Len(table) THEN table[i] ELSE more[i - Len(table)]
    BY <2>2
  <2>4. Enlarged(table) = table \o more /\ newfd(table) = Len(table) + 1
    BY <1>1 DEF Enlarged, newfd, more
  <2> QED
    BY <2>1, <2>2, <2>3, <2>4
<1>2. CASE FreeFds(table) # {}
  <2>1. FreeFds(table) \subseteq Nat
    BY DEF FreeFds
  <2>2. newfd(table) \in FreeFds(table) /\ Enlarged(table) = table
    BY <1>2, <2>1, Zenon DEF newfd, Enlarged, Counting, LeastNumber, Min
  <2> QED
    BY <2>2 DEF FreeFds
<1> QED
  BY <1>1, <1>2, Zenon

(* Descriptors that keep their files, and descriptors fds of a process q   *)
(* that get new ones, stand for different files if they did before.        *)
LEMMA StillDistinct ==
  ASSUME NEW old, NEW tables, NEW used, Distinct(old), AllUsed(old, used),
         NEW q, NEW fds, NEW new, Fresh(new, fds, used), GivenNew(tables, old, q, fds, new)
  PROVE  Distinct(tables)
<1> SUFFICES ASSUME NEW p1 \in DOMAIN tables, NEW p2 \in DOMAIN tables,
                    NEW i \in DOMAIN tables[p1], NEW j \in DOMAIN tables[p2],
                    tables[p1][i] # NoFile, tables[p1][i] = tables[p2][j]
             PROVE  p1 = p2 /\ i = j
  BY SMTT(30), ZenonT(20) DEF Distinct
<1> DEFINE IsOld(p, fd) == p \in DOMAIN old /\ fd \in DOMAIN old[p] /\ tables[p][fd] = old[p][fd]
           IsNew(p, fd) == p = q /\ fd \in fds /\ tables[p][fd] = new[fd]
<1>1. (IsOld(p1, i) \/ IsNew(p1, i)) /\ (IsOld(p2, j) \/ IsNew(p2, j))
  BY DEF GivenNew
<1>2. CASE IsOld(p1, i) /\ IsOld(p2, j)
  <2>1. old[p1][i] # NoFile /\ old[p1][i] = old[p2][j]
    BY <1>2, Zenon
  <2>2. \A a \in DOMAIN old[p1], b \in DOMAIN old[p2] :
          old[p1][a] # NoFile /\ old[p1][a] = old[p2][b] => p1 = p2 /\ a = b
    BY <1>2, Zenon DEF Distinct
  <2> QED
    BY <1>2, <2>1, <2>2, Zenon
<1>3. CASE IsNew(p1, i) /\ IsNew(p2, j)
  BY <1>3, ZenonT(40) DEF Fresh
<1>4. CASE IsOld(p1, i) /\ IsNew(p2, j)
  <2>1. old[p1][i] # NoFile /\ old[p1][i] = new[j]
    BY <1>4, Zenon
  <2>2. old[p1][i] \in used
    BY <1>4, <2>1, Zenon DEF AllUsed
  <2> QED
    BY <1>4, <2>1, <2>2 DEF Fresh
<1>5. CASE IsNew(p1, i) /\ IsOld(p2, j)
  <2>1. old[p2][j] # NoFile /\ old[p2][j] = new[i]
    BY <1>5
  <2>2. old[p2][j] \in used
    BY <1>5, <2>1, Zenon DEF AllUsed
  <2> QED
    BY <1>5, <2>1, <2>2, ZenonT(40) DEF Fresh
<1> QED
  BY <1>1, <1>2, <1>3, <1>4, <1>5, ZenonT(40)

(* What is true of the files that are open stays true when files that are  *)
(* not in use are opened, and is true of those then.                       *)
LEMMA FilesOpened ==
  ASSUME VfsInv, NEW new, new \subseteq File, NEW ino
  PROVE  LET h == vfs_open(new, ino)
             u == [f \in File |-> IF f \in new THEN 0 ELSE upto[f]]
         IN  /\ h \in Heaps /\ u \in [File -> Nat]
             /\ \A f \in File \ new : FileOk(heap, upto, f) => FileOk(h, u, f)
             /\ HasOpen(ino) => \A f \in new : FileOk(h, u, f)
<1> DEFINE h == vfs_open(new, ino)
           u == [f \in File |-> IF f \in new THEN 0 ELSE upto[f]]
<1>1. h.used = heap.used \cup new
  BY Zenon DEF vfs_open
<1>2. h.inode = [f \in File |-> IF f \notin new THEN heap.inode[f] ELSE IF HasOpen(ino) THEN ino ELSE NoInode]
  BY Zenon DEF vfs_open
<1>3. h.pos = [f \in File |-> IF f \notin new THEN heap.pos[f] ELSE 0]
  BY Zenon DEF vfs_open
<1>4. h = [used |-> h.used, inode |-> h.inode, pos |-> h.pos]
  BY ZenonT(40) DEF vfs_open
<1> HIDE DEF h
<1>5. h.used \in SUBSET File /\ h.inode \in [File -> Inodes] /\ h.pos \in [File -> Nat]
  BY <1>1, <1>2, <1>3 DEF VfsInv, Heaps, Inodes, HasOpen
<1>6. h \in Heaps /\ u \in [File -> Nat]
  BY <1>4, <1>5, Zenon DEF Heaps, VfsInv
<1>7. \A f \in File \ new : FileOk(heap, upto, f) => FileOk(h, u, f)
  BY <1>1, <1>2, <1>3, Zenon DEF FileOk
<1>8. ASSUME HasOpen(ino), NEW f \in new PROVE FileOk(h, u, f)
  <2>1. ino # NoInode
    BY <1>8, VfsAssumption DEF HasOpen, NoInode, initrd_inodes
  <2>2. length(ino) \in Nat
    BY VfsAssumption, Zenon DEF length
  <2>3. h.inode[f] = ino /\ h.pos[f] = 0 /\ u[f] = 0 /\ f \in h.used
    BY <1>1, <1>2, <1>3, <1>8
  <2> QED
    BY <2>1, <2>2, <2>3 DEF FileOk
<1> QED
  BY <1>6, <1>7, <1>8, Zenon DEF h
-----------------------------------------------------------------------------
(* Paths                                                                   *)

Root == Found("fs_root", fs_error)

Walk(f, path) == [n \in 0 .. Len(path) |-> IF n = 0 THEN Root ELSE NextInode(f[n - 1], path[n])]

(* A lookup follows the parts of its path one by one.                      *)
LEMMA PathFollowed ==
  ASSUME NEW path, NEW f, f = Walk(f, path)
  PROVE  \E g : g = Walk(g, path) /\ vfs_lookup(path) = AtEnd(g[Len(path)])
<1> DEFINE g == CHOOSE x : x = Walk(x, path)
<1>1. g = Walk(g, path)
  BY Zenon
<1>2. vfs_lookup(path) = AtEnd(g[Len(path)])
  BY Zenon DEF vfs_lookup, Walk, Root
<1> QED
  BY <1>1, <1>2, Zenon

(* A path of one part, and one of two.                                     *)
LEMMA OnePart ==
  ASSUME NEW a
  PROVE  vfs_lookup(<<a>>) = AtEnd(NextInode(Root, a))
<1> DEFINE path == <<a>>
           r1 == NextInode(Root, a)
           f == [n \in 0 .. 1 |-> IF n = 0 THEN Root ELSE r1]
<1>1. Len(path) = 1 /\ path[1] = a
  BY Zenon
<1>2. f[0] = Root /\ f[1] = r1 /\ f = [n \in 0 .. 1 |-> f[n]]
  OBVIOUS
<1> HIDE DEF f, path
<1>3. \A n \in 0 .. 1 : f[n] = IF n = 0 THEN Root ELSE NextInode(f[n - 1], path[n])
  BY <1>1, <1>2
<1>4. f = Walk(f, path)
  BY <1>1, <1>2, <1>3 DEF Walk
<1>5. PICK g : g = Walk(g, path) /\ vfs_lookup(path) = AtEnd(g[Len(path)])
  BY <1>4, PathFollowed, Zenon
<1>6. \A n \in 0 .. 1 : g[n] = IF n = 0 THEN Root ELSE NextInode(g[n - 1], path[n])
  BY <1>1, <1>5 DEF Walk
<1>7. g[1] = r1
  BY <1>1, <1>6
<1> QED
  BY <1>1, <1>5, <1>7 DEF path

LEMMA TwoParts ==
  ASSUME NEW a, NEW b
  PROVE  vfs_lookup(<<a, b>>) = AtEnd(NextInode(NextInode(Root, a), b))
<1> DEFINE path == <<a, b>>
           r1 == NextInode(Root, a)
           r2 == NextInode(r1, b)
           f == [n \in 0 .. 2 |-> IF n = 0 THEN Root ELSE IF n = 1 THEN r1 ELSE r2]
<1>1. Len(path) = 2 /\ path[1] = a /\ path[2] = b
  BY Zenon
<1>2. f[0] = Root /\ f[1] = r1 /\ f[2] = r2 /\ f = [n \in 0 .. 2 |-> f[n]]
  OBVIOUS
<1> HIDE DEF f, path
<1>3. \A n \in 0 .. 2 : f[n] = IF n = 0 THEN Root ELSE NextInode(f[n - 1], path[n])
  BY <1>1, <1>2
<1>4. f = Walk(f, path)
  BY <1>1, <1>2, <1>3, Zenon DEF Walk
<1>5. PICK g : g = Walk(g, path) /\ vfs_lookup(path) = AtEnd(g[Len(path)])
  BY <1>4, PathFollowed
<1>6. \A n \in 0 .. 2 : g[n] = IF n = 0 THEN Root ELSE NextInode(g[n - 1], path[n])
  BY <1>1, <1>5 DEF Walk
<1>7. g[2] = r2
  BY <1>1, <1>6
<1> QED
  BY <1>1, <1>5, <1>7 DEF path

(* The two mounts of kinit_fs.                                             *)
LEMMA Mounts == MOUNTP = {"fs_root", "devdir"} /\ link["fs_root"] = "root" /\ link["devdir"] = "devfs_root"
<1> DEFINE l1 == vfs_mount([i \in {} |-> NoInode], "fs_root", "root")
<1>1. DOMAIN l1 = {"fs_root"} /\ l1["fs_root"] = "root"
  BY Zenon DEF vfs_mount, DIR
<1> HIDE DEF l1
<1>2. link = [i \in {"fs_root", "devdir"} |-> IF i = "devdir" THEN "devfs_root" ELSE l1[i]]
  <2>1. DOMAIN l1 \cup ({"devdir"} \cap DIR) = {"fs_root", "devdir"}
    BY <1>1, Zenon DEF DIR
  <2> QED
    BY <2>1 DEF link, vfs_mount, l1
<1> QED
  BY <1>1, <1>2 DEF MOUNTP

(* What a lookup of a device, of the file of the initrd and of /dev finds. *)
LEMMA LookupFinds == LookupExact
<1>1. NextInode(Root, "dev") = Found("devdir", fs_error) /\ NextInode(Root, "f") = Found("f", fs_error)
  BY Mounts DEF NextInode, Root, Found, vfs_finddir, id_finddir, DIR, initrd_inodes, NoInode
<1>2. ASSUME NEW d \in Device
      PROVE  vfs_lookup(<<"dev", d>>).inode = IF d \in devices THEN d ELSE NoInode
  <2> DEFINE r == NextInode(Found("devdir", fs_error), d)
  <2>1. r = Found(IF d \in devices THEN d ELSE NoInode, fs_error)
    BY Mounts, Zenon DEF NextInode, Found, vfs_finddir, finddir, DIR, initrd_inodes, NoInode
  <2>2. r.inode \notin MOUNTP
    BY <2>1, Mounts, VfsAssumption DEF Found, NoInode
  <2>3. vfs_lookup(<<"dev", d>>) = AtEnd(r)
    BY <1>1, TwoParts
  <2> QED
    BY <2>1, <2>2, <2>3 DEF AtEnd, Found
<1>3. vfs_lookup(<<"f">>).inode = "f" /\ vfs_lookup(<<"dev">>).inode = "devfs_root"
  <2>1. vfs_lookup(<<"f">>) = AtEnd(Found("f", fs_error)) /\ vfs_lookup(<<"dev">>) = AtEnd(Found("devdir", fs_error))
    BY <1>1, OnePart, ZenonT(40)
  <2> QED
    BY <2>1, Mounts DEF AtEnd, Found
<1> QED
  BY <1>2, <1>3 DEF LookupExact
-----------------------------------------------------------------------------
(* The steps of the file system                                            *)

(* Descriptors fds of process q get new files; the other descriptors keep  *)
(* theirs.                                                                 *)
LEMMA NewFiles ==
  ASSUME VfsInv, NEW new, NEW q, NEW fds, Fresh(new, fds, heap.used),
         NEW tables, GivenNew(tables, files, q, fds, new), NEW h, NEW u,
         \A f \in heap.used : FileOk(heap, upto, f) => FileOk(h, u, f),
         \A i \in fds : FileOk(h, u, new[i])
  PROVE  Distinct(tables) /\ AllOk(tables, h, u)
<1>1. AllUsed(files, heap.used)
  BY Zenon DEF VfsInv, AllOk, FileOk, AllUsed
<1>2. Distinct(files)
  BY Zenon DEF VfsInv
<1>3. Distinct(tables)
  BY <1>1, <1>2, StillDistinct, ZenonT(40)
<1>4. ASSUME NEW p \in DOMAIN tables, NEW i \in DOMAIN tables[p], tables[p][i] # NoFile
      PROVE  FileOk(h, u, tables[p][i])
  <2>1. CASE p \in DOMAIN files /\ i \in DOMAIN files[p] /\ tables[p][i] = files[p][i]
    <3>1. FileOk(heap, upto, files[p][i]) /\ files[p][i] \in heap.used
      BY <1>1, <1>4, <2>1, Zenon DEF VfsInv, AllOk, AllUsed
    <3> QED
      BY <2>1, <3>1, Zenon
  <2>2. CASE p = q /\ i \in fds /\ tables[p][i] = new[i]
    BY <2>2, Zenon
  <2> QED
    BY <1>4, <2>1, <2>2 DEF GivenNew
<1> QED
  BY <1>3, <1>4 DEF AllOk

(* open: the one new file has the descriptor that newfd found.             *)
LEMMA OpenStep ==
  ASSUME Counting, VfsInv, SysOpen
  PROVE  VfsInv'
<1>1. PICK p \in Live, path \in OpenPaths : sys_open(p, vfs_lookup(path))
  BY Zenon DEF SysOpen
<1> DEFINE at == vfs_lookup(path)
           f == kmalloc_file
<1>2. devices' \subseteq Device
  BY Zenon DEF SysOpen, VfsInv
<1> HIDE DEF at
<1>3. CASE at.inode = NoInode /\ Fails(at.error) /\ UNCHANGED heap
  BY <1>2, <1>3 DEF VfsInv, Fails, Live
<1>4. CASE /\ at.inode # NoInode /\ heap.used # File
           /\ heap' = vfs_open({f}, at.inode) /\ OpenInode(p, f, at)
  <2>1. f \in File \ heap.used
    <3>1. heap.used \subseteq File
      BY Zenon DEF VfsInv, Heaps
    <3> QED
      BY <1>4, <3>1, FileAllocated
  <2> HIDE DEF f
  <2> DEFINE h == vfs_open({f}, at.inode)
             u == [x \in File |-> IF x \in {f} THEN 0 ELSE upto[x]]
  <2>2. /\ h \in Heaps /\ u \in [File -> Nat]
        /\ \A x \in File \ {f} : FileOk(heap, upto, x) => FileOk(h, u, x)
        /\ HasOpen(at.inode) => \A x \in {f} : FileOk(h, u, x)
    BY <2>1, FilesOpened, Zenon
  <2>3. heap' = h
    BY <1>4, Zenon
  <2> HIDE DEF h
  <2>4. CASE ~HasOpen(at.inode)
    <3>1. files' = files /\ upto' = upto
      BY <1>4, <2>4, ZenonT(40) DEF OpenInode, Fails
    <3>2. u \in [File -> Nat] /\ upto \in [File -> Nat] /\ \A x \in File \ {f} : u[x] = upto[x]
      BY <2>2 DEF VfsInv
    <3> HIDE DEF u
    <3>3. \A x \in File \ {f} : FileOk(heap, upto, x) => FileOk(h, upto, x)
      BY <2>2, <3>2, Zenon DEF FileOk
    <3>4. \A x : FileOk(heap, upto, x) => x \in heap.used /\ x \in File \ {f}
      BY <2>1, ZenonT(40) DEF FileOk, VfsInv, Heaps
    <3>5. AllOk(files, h, upto)
      BY <3>3, <3>4 DEF VfsInv, AllOk
    <3> QED
      BY <1>2, <2>2, <2>3, <3>1, <3>5, Zenon DEF VfsInv, Live
  <2>5. CASE HasOpen(at.inode)
    <3> DEFINE fd == newfd(files[p])
               table == [Enlarged(files[p]) EXCEPT ![fd] = f]
               tables == [files EXCEPT ![p] = table]
               new == [i \in {fd} |-> f]
    <3>1. files' = tables /\ upto' = [upto EXCEPT ![f] = 0]
      BY <1>4, <2>5 DEF OpenInode
    <3>2. upto' = u
      BY <2>1, <3>1, Zenon DEF VfsInv
    <3>3. files[p] \in Seq(File \cup {NoFile})
      BY Zenon DEF VfsInv
    <3>4. /\ Enlarged(files[p]) \in Seq(File \cup {NoFile}) /\ fd \in DOMAIN Enlarged(files[p])
          /\ \A i \in DOMAIN Enlarged(files[p]) :
               Enlarged(files[p])[i] = IF i \in DOMAIN files[p] THEN files[p][i] ELSE NoFile
      BY <3>3, NewDescriptor, ZenonT(40)
    <3>5. /\ table \in Seq(File \cup {NoFile}) /\ DOMAIN table = DOMAIN Enlarged(files[p])
          /\ \A i \in DOMAIN table : table[i] = IF i = fd THEN f ELSE Enlarged(files[p])[i]
      BY <2>1, <3>4
    <3> HIDE DEF fd, table
    <3>6. tables \in [Live -> Seq(File \cup {NoFile})] /\ DOMAIN tables = Live
      BY <3>5 DEF VfsInv, Live
    <3>7. \A x \in DOMAIN tables : tables[x] = IF x = p THEN table ELSE files[x]
      BY ZenonT(40) DEF Live
    <3>8. GivenNew(tables, files, p, {fd}, new)
      BY <3>4, <3>5, <3>6, <3>7 DEF GivenNew, Live
    <3>9. new \in [{fd} -> File \ heap.used] /\ new[fd] = f
      BY <2>1, Zenon
    <3> HIDE DEF tables, new, u
    <3>10. Fresh(new, {fd}, heap.used)
      BY <3>9, Zenon DEF Fresh
    <3>11. heap.used \subseteq File \ {f}
      BY <2>1, Zenon DEF VfsInv, Heaps
    <3>12. /\ \A x \in heap.used : FileOk(heap, upto, x) => FileOk(h, u, x)
           /\ \A i \in {fd} : FileOk(h, u, new[i])
      BY <2>2, <2>5, <3>9, <3>11, ZenonT(40)
    <3>13. Distinct(tables) /\ AllOk(tables, h, u)
      BY <3>8, <3>10, <3>12, NewFiles, SMTT(30), ZenonT(20)
    <3> QED
      BY <1>2, <2>2, <2>3, <3>1, <3>2, <3>6, <3>13, ZenonT(40) DEF VfsInv, Live
  <2> QED
    BY <2>4, <2>5, ZenonT(40)
<1> QED
  BY <1>1, <1>3, <1>4 DEF sys_open, at

(* open_std: the standard files that are missing are opened, all new.      *)
LEMMA OpenStdStep ==
  ASSUME Counting, VfsInv, SysOpenStd
  PROVE  VfsInv'
<1> DEFINE at == vfs_lookup(<<"dev", StdDevice>>)
<1>1. PICK p \in Live : sys_open_std(p, at)
  BY Zenon DEF SysOpenStd
<1>2. devices' \subseteq Device
  BY Zenon DEF SysOpenStd, VfsInv
<1>3. at.inode # NoInode => HasOpen(at.inode)
  BY LookupFinds, VfsAssumption, Zenon DEF LookupExact, HasOpen
<1> HIDE DEF at
<1>4. CASE at.inode = NoInode
  BY <1>1, <1>2, <1>4, ZenonT(40) DEF VfsInv, sys_open_std, Live
<1>5. CASE at.inode # NoInode
  <2> DEFINE fds == StdFds(p)
             new == kmalloc_files(fds)
             h == vfs_open(Range(new), at.inode)
             u == [x \in File |-> IF x \in Range(new) THEN 0 ELSE upto[x]]
             table == [fd \in DOMAIN files[p] |-> IF fd \in DOMAIN new THEN new[fd] ELSE files[p][fd]]
             tables == [files EXCEPT ![p] = table]
  <2>1. Room(fds) /\ heap' = h /\ files' = tables /\ upto' = u
    BY <1>1, <1>5 DEF sys_open_std, OpenStd
  <2>2. IsFiniteSet(fds) /\ heap.used \subseteq File
    <3>1. fds \in SUBSET (1 .. NumStd) /\ IsFiniteSet(1 .. NumStd)
      BY VfsAssumption DEF StdFds, Counting, CountInterval
    <3> QED
      BY <3>1, ZenonT(40) DEF VfsInv, Heaps, Counting, CountPart
  <2> HIDE DEF fds
  <2>3. Fresh(new, fds, heap.used)
    BY <2>1, <2>2, FilesAllocated, Zenon
  <2> HIDE DEF new
  <2>4. /\ DOMAIN new = fds /\ Range(new) \subseteq File \ heap.used
        /\ \A i \in fds : new[i] \in Range(new) /\ new[i] \in File
    BY <2>3, Zenon DEF Fresh, Range
  <2>5. /\ h \in Heaps /\ u \in [File -> Nat]
        /\ \A x \in File \ Range(new) : FileOk(heap, upto, x) => FileOk(h, u, x)
        /\ \A x \in Range(new) : FileOk(h, u, x)
    <3>1. Range(new) \subseteq File
      BY <2>4, Zenon
    <3> QED
      BY <1>3, <1>5, <3>1, FilesOpened, Zenon
  <2>6. /\ \A x \in heap.used : FileOk(heap, upto, x) => FileOk(h, u, x)
        /\ \A i \in fds : FileOk(h, u, new[i])
    BY <2>2, <2>4, <2>5, Zenon
  <2> HIDE DEF h, u
  <2>7. files[p] \in Seq(File \cup {NoFile}) /\ DOMAIN files[p] = 1 .. Len(files[p]) /\ Len(files[p]) \in Nat
    BY DEF VfsInv
  <2>8. table \in Seq(File \cup {NoFile}) /\ DOMAIN table = DOMAIN files[p]
    BY <2>4, <2>7
  <2>9. \A i \in DOMAIN table : table[i] = IF i \in fds THEN new[i] ELSE files[p][i]
    BY <2>4, Zenon
  <2> HIDE DEF table
  <2>10. tables \in [Live -> Seq(File \cup {NoFile})] /\ DOMAIN tables = Live
    BY <2>8 DEF VfsInv, Live
  <2>11. \A x \in DOMAIN tables : tables[x] = IF x = p THEN table ELSE files[x]
    BY Zenon DEF Live
  <2> HIDE DEF tables
  <2>12. GivenNew(tables, files, p, fds, new)
    BY <2>8, <2>9, <2>10, <2>11, Zenon DEF GivenNew, Live
  <2>13. Distinct(tables) /\ AllOk(tables, h, u)
    BY <2>3, <2>6, <2>12, NewFiles, Zenon
  <2> QED
    BY <1>2, <2>1, <2>5, <2>10, <2>13, ZenonT(40) DEF VfsInv, Live
<1> QED
  BY <1>4, <1>5

(* fork: the child's descriptors are those of its parent, with new files   *)
(* that are at the same place of the same inode.                           *)
LEMMA ForkStep ==
  ASSUME Counting, VfsInv, Fork
  PROVE  VfsInv'
<1>1. PICK p \in Live, q \in UserProc \ Live :
        Room(OpenFds(p)) /\ vfs_clone_procdata(p, q, kmalloc_files(OpenFds(p)))
  BY Zenon DEF Fork
<1>2. devices' \subseteq Device
  BY DEF Fork, VfsInv
<1> DEFINE fds == OpenFds(p)
           new == kmalloc_files(fds)
           from == [f \in Range(new) |-> files[p][CHOOSE fd \in DOMAIN new : new[fd] = f]]
           table == [fd \in DOMAIN files[p] |-> IF fd \in DOMAIN new THEN new[fd] ELSE NoFile]
           tables == [x \in Live \cup {q} |-> IF x # q THEN files[x] ELSE table]
           inode == vfs_dup(heap.inode, from)
           pos == vfs_dup(heap.pos, from)
           u == vfs_dup(upto, from)
           h == [used |-> heap.used \cup Range(new), inode |-> inode, pos |-> pos]
<1>3. heap' = h /\ files' = tables /\ upto' = u
  BY <1>1, Zenon DEF vfs_clone_procdata
<1>4. files[p] \in Seq(File \cup {NoFile}) /\ DOMAIN files[p] = 1 .. Len(files[p]) /\ Len(files[p]) \in Nat
  BY DEF VfsInv
<1>5. IsFiniteSet(fds) /\ heap.used \subseteq File
  <2>1. fds \in SUBSET (1 .. Len(files[p]))
    BY <1>4, Zenon DEF OpenFds
  <2>2. 1 \in Int /\ Len(files[p]) \in Int
    BY ONLY <1>4
  <2>3. IsFiniteSet(1 .. Len(files[p]))
    BY ONLY <2>2, Counting, Zenon DEF Counting, CountInterval
  <2>4. IsFiniteSet(fds)
    BY ONLY <2>1, <2>3, Counting, ZenonT(40) DEF Counting, CountPart
  <2> QED
    BY <2>4, Zenon DEF VfsInv, Heaps
<1>6. \A i \in fds : i \in DOMAIN files[p] /\ files[p][i] # NoFile /\ files[p][i] \in File
  BY <1>4 DEF OpenFds
<1>7. Room(fds)
  BY <1>1, Zenon
<1> HIDE DEF fds
<1>8. Fresh(new, fds, heap.used)
  BY <1>5, <1>7, FilesAllocated, Zenon
<1> HIDE DEF new
<1>9. /\ DOMAIN new = fds /\ Range(new) \subseteq File \ heap.used
      /\ \A i \in fds : new[i] \in Range(new) /\ new[i] \in File
      /\ \A f \in Range(new) : \E fd \in fds : new[fd] = f
  BY <1>8, Zenon DEF Fresh, Range
<1>10. \A i \in fds : from[new[i]] = files[p][i]
  <2> SUFFICES ASSUME NEW i \in fds PROVE from[new[i]] = files[p][i]
    BY Zenon
  <2> DEFINE j == CHOOSE fd \in DOMAIN new : new[fd] = new[i]
  <2>1. j \in fds /\ new[j] = new[i]
    BY <1>9, Zenon
  <2>2. from[new[i]] = files[p][j]
    BY <1>9, Zenon
  <2> HIDE DEF j
  <2>3. j = i
    BY <1>8, <2>1, Zenon DEF Fresh
  <2> QED
    BY <2>2, <2>3, Zenon
<1>11. DOMAIN from = Range(new)
  BY Zenon
<1> HIDE DEF from
<1>12. \A f \in Range(new) : from[f] \in File
  BY <1>6, <1>9, <1>10
<1>13. inode \in [File -> Inodes] /\ pos \in [File -> Nat] /\ u \in [File -> Nat]
  BY <1>11, <1>12, Zenon DEF vfs_dup, VfsInv, Heaps
<1>14. \A f \in File : LET g == IF f \in Range(new) THEN from[f] ELSE f
                      IN  inode[f] = heap.inode[g] /\ pos[f] = heap.pos[g] /\ u[f] = upto[g]
  BY <1>11, Zenon DEF vfs_dup
<1> HIDE DEF inode, pos, u
<1>15. h \in Heaps /\ h.used = heap.used \cup Range(new) /\ h.inode = inode /\ h.pos = pos
  BY <1>5, <1>9, <1>13, Zenon DEF Heaps
<1> HIDE DEF h
<1>16. \A f \in heap.used : FileOk(heap, upto, f) => FileOk(h, u, f)
  BY <1>5, <1>9, <1>14, <1>15, Zenon DEF FileOk
<1>17. \A i \in fds : FileOk(heap, upto, files[p][i])
  BY <1>6, Zenon DEF VfsInv, AllOk, Live
<1>18. \A i \in fds : FileOk(h, u, new[i])
  <2> SUFFICES ASSUME NEW i \in fds PROVE FileOk(h, u, new[i])
    BY Zenon
  <2> DEFINE f == new[i]
             g == files[p][i]
  <2>1. f \in File /\ f \in Range(new) /\ from[f] = g
    BY <1>9, <1>10, ZenonT(40)
  <2>2. inode[f] = heap.inode[g] /\ pos[f] = heap.pos[g] /\ u[f] = upto[g]
    BY <1>14, <2>1
  <2>3. FileOk(heap, upto, g)
    BY <1>17, ZenonT(40)
  <2> QED
    BY <1>15, <2>1, <2>2, <2>3, Zenon DEF FileOk
<1>19. table \in Seq(File \cup {NoFile}) /\ DOMAIN table = DOMAIN files[p]
  BY <1>4, <1>9
<1>20. \A i \in DOMAIN table : table[i] = IF i \in fds THEN new[i] ELSE NoFile
  BY <1>9, Zenon
<1> HIDE DEF table
<1>21. tables \in [Live \cup {q} -> Seq(File \cup {NoFile})] /\ DOMAIN tables = Live \cup {q}
  BY <1>19, Zenon DEF VfsInv
<1>22. \A x \in DOMAIN tables : tables[x] = IF x # q THEN files[x] ELSE table
  BY ZenonT(40)
<1> HIDE DEF tables
<1>23. GivenNew(tables, files, q, fds, new)
  BY <1>20, <1>21, <1>22 DEF GivenNew, Live
<1>24. Distinct(tables) /\ AllOk(tables, h, u)
  BY <1>8, <1>16, <1>18, <1>23, NewFiles, Zenon
<1> QED
  BY <1>2, <1>3, <1>13, <1>15, <1>21, <1>24, Zenon DEF VfsInv, Live

(* Nothing is new when no file is.                                         *)
LEMMA NothingFresh ==
  ASSUME NEW used PROVE Fresh([i \in {} |-> NoFile], {}, used)
  BY DEF Fresh

(* What is true of the other files stays true when some are forgotten.     *)
LEMMA FilesForgotten ==
  ASSUME VfsInv, NEW lost, NEW used, used \subseteq File
  PROVE  LET h == Forget([heap EXCEPT !.used = used], lost)
             u == [f \in File |-> IF f \in lost THEN 0 ELSE upto[f]]
         IN  /\ h \in Heaps /\ u \in [File -> Nat]
             /\ \A f \in used \ lost : FileOk(heap, upto, f) => FileOk(h, u, f)
<1> DEFINE h == Forget([heap EXCEPT !.used = used], lost)
           u == [f \in File |-> IF f \in lost THEN 0 ELSE upto[f]]
           inode == [f \in File |-> IF f \in lost THEN NoInode ELSE heap.inode[f]]
           pos == [f \in File |-> IF f \in lost THEN 0 ELSE heap.pos[f]]
<1>1. h = [used |-> used, inode |-> inode, pos |-> pos]
  <2> DEFINE b == [heap EXCEPT !.used = used]
  <2>1. b = [used |-> used, inode |-> heap.inode, pos |-> heap.pos]
    <3>1. heap = [used |-> heap.used, inode |-> heap.inode, pos |-> heap.pos]
      BY DEF VfsInv, Heaps
    <3> QED
      BY <3>1
  <2>2. b.inode = heap.inode /\ b.pos = heap.pos
    BY <2>1
  <2> HIDE DEF b
  <2>3. Forget(b, lost) = [b EXCEPT !.inode = inode, !.pos = pos]
    BY <2>2 DEF Forget
  <2> HIDE DEF inode, pos
  <2>4. Forget(b, lost) = [used |-> used, inode |-> inode, pos |-> pos]
    BY <2>1, <2>3, Zenon
  <2> QED
    BY <2>4 DEF b
<1>2. inode \in [File -> Inodes] /\ pos \in [File -> Nat] /\ u \in [File -> Nat]
  BY Zenon DEF VfsInv, Heaps, Inodes
<1>3. \A f \in File \ lost : inode[f] = heap.inode[f] /\ pos[f] = heap.pos[f] /\ u[f] = upto[f]
  OBVIOUS
<1> HIDE DEF inode, pos, u
<1>4. h \in Heaps /\ h.used = used /\ h.inode = inode /\ h.pos = pos
  BY <1>1, <1>2 DEF Heaps
<1> HIDE DEF h
<1>5. \A f \in used \ lost : FileOk(heap, upto, f) => FileOk(h, u, f)
  BY <1>3, <1>4, Zenon DEF FileOk
<1> QED
  BY <1>2, <1>4, <1>5, Zenon DEF h, u

(* Tables whose descriptors all had their file before, and whose files are *)
(* as good as before, are as good as before.                               *)
LEMMA OldFiles ==
  ASSUME VfsInv, NEW tables, NEW h, NEW u,
         \A p \in DOMAIN tables : \A i \in DOMAIN tables[p] : tables[p][i] # NoFile =>
           /\ p \in DOMAIN files /\ i \in DOMAIN files[p] /\ tables[p][i] = files[p][i]
           /\ FileOk(heap, upto, tables[p][i]) => FileOk(h, u, tables[p][i])
  PROVE  Distinct(tables) /\ AllOk(tables, h, u)
<1> DEFINE new == [i \in {} |-> NoFile]
<1>1. Fresh(new, {}, heap.used)
  BY NothingFresh, Zenon
<1> HIDE DEF new
<1>2. GivenNew(tables, files, 0, {}, new)
  BY ZenonT(40) DEF GivenNew
<1>3. AllUsed(files, heap.used)
  BY DEF VfsInv, AllOk, FileOk, AllUsed
<1>4. Distinct(files)
  BY Zenon DEF VfsInv
<1>5. Distinct(tables)
  BY <1>1, <1>2, <1>3, <1>4, StillDistinct, Zenon
<1>6. ASSUME NEW p \in DOMAIN tables, NEW i \in DOMAIN tables[p], tables[p][i] # NoFile
      PROVE  FileOk(h, u, tables[p][i])
  <2>1. p \in DOMAIN files /\ i \in DOMAIN files[p] /\ tables[p][i] = files[p][i]
    BY <1>6, Zenon
  <2>2. FileOk(heap, upto, tables[p][i])
    BY <1>6, <2>1, Zenon DEF VfsInv, AllOk
  <2> QED
    BY <1>6, <2>2, Zenon
<1> QED
  BY <1>5, <1>6, Zenon DEF AllOk

(* close: no other descriptor stands for the file that is freed.           *)
LEMMA CloseStep ==
  ASSUME VfsInv, SysClose
  PROVE  VfsInv'
<1>1. PICK p \in Live : \E fd \in Fds(p) : sys_close(p, fd, fd2file(p, fd))
  BY Zenon DEF SysClose
<1>2. PICK fd \in Fds(p) : sys_close(p, fd, fd2file(p, fd))
  BY <1>1, Zenon
<1>3. devices' \subseteq Device
  BY DEF SysClose, VfsInv
<1> DEFINE f == fd2file(p, fd)
<1>4. CASE f = NoFile
  BY <1>2, <1>3, <1>4, Zenon DEF VfsInv, sys_close, Live
<1>5. CASE f # NoFile
  <2>1. files[p] \in Seq(File \cup {NoFile})
    BY Zenon DEF VfsInv
  <2>2. fd \in DOMAIN files[p] /\ files[p][fd] = f /\ f \in File
    BY <1>5, <2>1 DEF fd2file
  <2> HIDE DEF f
  <2> DEFINE used == heap.used \ {f}
             h == Forget([heap EXCEPT !.used = used], {f})
             u == [x \in File |-> IF x \in {f} THEN 0 ELSE upto[x]]
             table == [files[p] EXCEPT ![fd] = NoFile]
             tables == [files EXCEPT ![p] = table]
  <2>3. heap' = h /\ upto' = u /\ files' = tables
    BY <1>2, <1>5, ZenonT(40) DEF sys_close, ForgetRead, f
  <2>4. used \subseteq File /\ AllUsed(files, heap.used)
    BY DEF VfsInv, Heaps, AllUsed, AllOk, FileOk
  <2> HIDE DEF used
  <2>5. /\ h \in Heaps /\ u \in [File -> Nat]
        /\ \A x \in used \ {f} : FileOk(heap, upto, x) => FileOk(h, u, x)
    BY <2>4, FilesForgotten, ZenonT(40)
  <2> HIDE DEF h, u
  <2>6. /\ table \in Seq(File \cup {NoFile}) /\ DOMAIN table = DOMAIN files[p]
        /\ \A i \in DOMAIN table : table[i] = IF i = fd THEN NoFile ELSE files[p][i]
    BY <2>1, <2>2
  <2> HIDE DEF table
  <2>7. /\ tables \in [Live -> Seq(File \cup {NoFile})] /\ DOMAIN tables = Live
        /\ \A x \in DOMAIN tables : tables[x] = IF x = p THEN table ELSE files[x]
    BY <2>6, Zenon DEF VfsInv, Live
  <2> HIDE DEF tables
  <2>8. ASSUME NEW x \in DOMAIN tables, NEW i \in DOMAIN tables[x], tables[x][i] # NoFile
        PROVE  /\ x \in DOMAIN files /\ i \in DOMAIN files[x] /\ tables[x][i] = files[x][i]
               /\ FileOk(heap, upto, tables[x][i]) => FileOk(h, u, tables[x][i])
    <3>1. /\ x \in DOMAIN files /\ i \in DOMAIN files[x] /\ tables[x][i] = files[x][i]
          /\ ~(x = p /\ i = fd)
      BY <2>6, <2>7, <2>8, Zenon DEF Live
    <3>2. files[x][i] # NoFile /\ files[x][i] # f
      <4>1. files[x][i] # NoFile
        BY <2>8, <3>1
      <4>2. \A b \in DOMAIN files[p] : files[x][i] # NoFile /\ files[x][i] = files[p][b] => x = p /\ i = b
        <5>1. Distinct(files) /\ p \in DOMAIN files
          BY Zenon DEF VfsInv, Live
        <5> QED
          BY <3>1, <5>1, ZenonT(40) DEF Distinct
      <4> QED
        BY <2>2, <3>1, <4>1, <4>2, ZenonT(40)
    <3>3. files[x][i] \in used \ {f}
      BY <2>4, <3>1, <3>2 DEF AllUsed, used
    <3> QED
      BY <2>5, <3>1, <3>3, ZenonT(40)
  <2>9. Distinct(tables) /\ AllOk(tables, h, u)
    BY <2>8, OldFiles, Zenon
  <2> QED
    BY <1>3, <2>3, <2>5, <2>7, <2>9, Zenon DEF VfsInv, Live
<1> QED
  BY <1>4, <1>5, Zenon

(* read: what is returned ends in the file, and the position is not before *)
(* its end.                                                                *)
LEMMA ReadEnds ==
  ASSUME NEW ino, NEW offs \in Nat, NEW count \in Nat
  PROVE  LET n == do_read(ino, offs, count)
         IN  /\ length(ino) \in Nat
             /\ \/ n = -1 /\ offs > length(ino)
                \/ n \in Nat /\ offs + n <= length(ino)
<1>1. length(ino) \in Nat
  BY VfsAssumption, Zenon DEF length
<1> QED
  BY <1>1 DEF do_read

LEMMA ReadStep ==
  ASSUME VfsInv, SysRead
  PROVE  VfsInv'
<1>1. PICK p \in Live : \E fd \in Fds(p), count \in ReadSizes : sys_read(fd2file(p, fd), count)
  BY Zenon DEF SysRead
<1>2. PICK fd \in Fds(p), count \in ReadSizes : sys_read(fd2file(p, fd), count)
  BY <1>1, Zenon
<1>3. devices' \subseteq Device /\ files' = files
  BY Zenon DEF SysRead, VfsInv
<1> DEFINE f == fd2file(p, fd)
<1>4. CASE ~(f # NoFile /\ heap.inode[f] \in initrd_inodes)
  <2>1. heap' = heap /\ upto' = upto
    BY <1>2, <1>4 DEF sys_read
  <2> QED
    BY <1>3, <2>1, ZenonT(40) DEF VfsInv, Live
<1>5. CASE f # NoFile /\ heap.inode[f] \in initrd_inodes
  <2>1. files[p] \in Seq(File \cup {NoFile})
    BY Zenon DEF VfsInv
  <2>2. fd \in DOMAIN files[p] /\ files[p][fd] = f /\ f \in File
    BY <1>5, <2>1 DEF fd2file
  <2> DEFINE ino == heap.inode[f]
             offs == heap.pos[f]
             n == do_read(ino, offs, count)
  <2>3. vfs_read(f, n)
    BY <1>2, <1>5, Zenon DEF sys_read
  <2> HIDE DEF f
  <2>4. FileOk(heap, upto, f)
    BY <1>5, <2>2, Zenon DEF VfsInv, AllOk, Live
  <2>5. /\ heap = [used |-> heap.used, inode |-> heap.inode, pos |-> heap.pos]
        /\ heap.used \in SUBSET File /\ heap.inode \in [File -> Inodes]
        /\ heap.pos \in [File -> Nat] /\ upto \in [File -> Nat]
    BY ZenonT(40) DEF VfsInv, Heaps
  <2>6. offs \in Nat /\ count \in Nat /\ upto[f] \in Nat /\ upto[f] <= offs /\ upto[f] <= length(ino)
    BY <2>2, <2>4, <2>5, VfsAssumption DEF FileOk
  <2>7. length(ino) \in Nat /\ ((n = -1 /\ offs > length(ino)) \/ (n \in Nat /\ offs + n <= length(ino)))
    BY <2>6, ReadEnds, Zenon
  <2> DEFINE off2 == IF n < 0 THEN offs + n ELSE offs + n + n
             up2  == IF n < 0 THEN upto[f] ELSE offs + n
             pos2 == [heap.pos EXCEPT ![f] = off2]
             u == [upto EXCEPT ![f] = up2]
             h == [used |-> heap.used, inode |-> heap.inode, pos |-> pos2]
  <2>8. upto' = u /\ heap' = [heap EXCEPT !.pos = pos2]
    BY <2>3, <2>5, ZenonT(40) DEF vfs_read
  <2> HIDE DEF n
  <2>9. off2 \in Nat /\ up2 \in Nat /\ up2 <= off2 /\ up2 <= length(ino)
    BY <2>6, <2>7
  <2> HIDE DEF off2, up2
  <2>10. pos2 \in [File -> Nat] /\ u \in [File -> Nat]
    BY <2>5, <2>9, ZenonT(40)
  <2>11. \A x \in File : /\ pos2[x] = IF x = f THEN off2 ELSE heap.pos[x]
                         /\ u[x] = IF x = f THEN up2 ELSE upto[x]
    BY <2>5
  <2> HIDE DEF pos2, u
  <2>12. heap' = h
    BY <2>5, <2>8, Zenon
  <2>13. h \in Heaps /\ h.used = heap.used /\ h.inode = heap.inode /\ h.pos = pos2
    BY <2>5, <2>10, Zenon DEF Heaps
  <2> HIDE DEF h
  <2>14. \A x \in File : FileOk(heap, upto, x) => FileOk(h, u, x)
    BY <2>4, <2>9, <2>11, <2>13, Zenon DEF FileOk
  <2>15. \A x : FileOk(heap, upto, x) => FileOk(h, u, x)
    BY <2>5, <2>14, Zenon DEF FileOk
  <2>16. AllOk(files, h, u)
    BY <2>15, Zenon DEF VfsInv, AllOk
  <2> QED
    BY <1>3, <2>8, <2>10, <2>12, <2>13, <2>16, ZenonT(40) DEF VfsInv, Live
<1> QED
  BY <1>4, <1>5, Zenon

(* A new process has no files, and one that exits takes only its own along *)
LEMMA SpawnStep ==
  ASSUME VfsInv, Spawn
  PROVE  VfsInv'
<1>1. PICK q \in UserProc \ Live :
        files' = [p \in Live \cup {q} |-> IF p = q THEN vfs_create_procdata ELSE files[p]]
  BY Zenon DEF Spawn
<1> DEFINE table == vfs_create_procdata
           tables == [p \in Live \cup {q} |-> IF p = q THEN table ELSE files[p]]
<1>2. /\ table \in Seq(File \cup {NoFile}) /\ \A i \in DOMAIN table : table[i] = NoFile
  BY VfsAssumption DEF vfs_create_procdata
<1> HIDE DEF table
<1>3. tables \in [Live \cup {q} -> Seq(File \cup {NoFile})] /\ DOMAIN tables = Live \cup {q}
  BY <1>2, Zenon DEF VfsInv
<1>4. \A p \in DOMAIN tables : \A i \in DOMAIN tables[p] : tables[p][i] # NoFile =>
        /\ p \in DOMAIN files /\ i \in DOMAIN files[p] /\ tables[p][i] = files[p][i]
        /\ FileOk(heap, upto, tables[p][i]) => FileOk(heap, upto, tables[p][i])
  BY <1>2, <1>3, ZenonT(40) DEF Live
<1>5. files' = tables /\ heap' = heap /\ upto' = upto /\ devices' = devices
  BY <1>1 DEF Spawn, table
<1> HIDE DEF tables
<1>6. Distinct(tables) /\ AllOk(tables, heap, upto)
  BY <1>4, OldFiles, Zenon
<1> QED
  BY <1>3, <1>5, <1>6, Zenon DEF VfsInv, Live

LEMMA ExitStep ==
  ASSUME VfsInv, Exit
  PROVE  VfsInv'
<1>1. PICK p \in Live \ {FirstProc} :
        /\ files' = [q \in Live \ {p} |-> files[q]]
        /\ heap' = Forget(heap, Range(files[p])) /\ ForgetRead(Range(files[p]))
  BY Zenon DEF Exit
<1> DEFINE lost == Range(files[p])
           h == Forget(heap, lost)
           u == [f \in File |-> IF f \in lost THEN 0 ELSE upto[f]]
           tables == [q \in Live \ {p} |-> files[q]]
<1>2. heap' = h /\ upto' = u /\ files' = tables /\ devices' = devices
  BY <1>1, ZenonT(40) DEF ForgetRead, Exit
<1>3. \A f \in lost : \E b \in DOMAIN files[p] : files[p][b] = f
  BY ZenonT(40) DEF Range
<1> HIDE DEF lost
<1>4. /\ h \in Heaps /\ u \in [File -> Nat]
      /\ \A f \in heap.used \ lost : FileOk(heap, upto, f) => FileOk(h, u, f)
  <2>1. [heap EXCEPT !.used = heap.used] = heap /\ heap.used \subseteq File
    BY Zenon DEF VfsInv, Heaps
  <2> QED
    BY <2>1, FilesForgotten, Zenon
<1> HIDE DEF h, u
<1>5. /\ tables \in [Live \ {p} -> Seq(File \cup {NoFile})] /\ DOMAIN tables = Live \ {p}
      /\ \A q \in DOMAIN tables : tables[q] = files[q]
  BY Zenon DEF VfsInv
<1> HIDE DEF tables
<1>6. ASSUME NEW q \in DOMAIN tables, NEW i \in DOMAIN tables[q], tables[q][i] # NoFile
      PROVE  /\ q \in DOMAIN files /\ i \in DOMAIN files[q] /\ tables[q][i] = files[q][i]
             /\ FileOk(heap, upto, tables[q][i]) => FileOk(h, u, tables[q][i])
  <2>1. q \in DOMAIN files /\ q # p /\ i \in DOMAIN files[q] /\ tables[q][i] = files[q][i] /\ files[q][i] # NoFile
    BY <1>5, <1>6, Zenon DEF Live
  <2>2. files[q][i] \notin lost
    <3>1. Distinct(files) /\ p \in DOMAIN files
      BY DEF VfsInv, Live
    <3>2. \A b \in DOMAIN files[p] : files[q][i] # NoFile /\ files[q][i] = files[p][b] => q = p /\ i = b
      BY <2>1, <3>1, Zenon DEF Distinct
    <3> QED
      BY <1>3, <2>1, <3>2, Zenon
  <2> QED
    BY <1>4, <2>1, <2>2, Zenon DEF FileOk
<1>7. Distinct(tables) /\ AllOk(tables, h, u)
  BY <1>6, OldFiles, ZenonT(40)
<1> QED
  BY <1>2, <1>4, <1>5, <1>7, Zenon DEF VfsInv, Live

LEMMA VfsInitial == VfsInit => VfsInv
<1> SUFFICES ASSUME VfsInit PROVE VfsInv
  BY Zenon
<1> DEFINE table == vfs_create_procdata
<1>1. table \in Seq(File \cup {NoFile}) /\ \A i \in DOMAIN table : table[i] = NoFile
  BY VfsAssumption DEF vfs_create_procdata
<1>2. Live = {FirstProc} /\ files[FirstProc] = table /\ files \in [{FirstProc} -> Seq(File \cup {NoFile})]
  BY <1>1, Zenon DEF VfsInit, Live
<1> HIDE DEF table
<1>3. Distinct(files) /\ AllOk(files, heap, upto)
  BY <1>1, <1>2, Zenon DEF Distinct, AllOk, Live
<1> QED
  BY <1>2, <1>3 DEF VfsInit, VfsInv, Heaps, Inodes

LEMMA VfsStep ==
  ASSUME Counting
  PROVE  VfsInv /\ [VfsNext]_vfsVars => VfsInv'
<1> SUFFICES ASSUME VfsInv, [VfsNext]_vfsVars PROVE VfsInv'
  BY Zenon
<1>1. CASE SysReaddir \/ devfs_register \/ devfs_unregister \/ UNCHANGED vfsVars
  BY <1>1 DEF SysReaddir, devfs_register, devfs_unregister, vfsVars, VfsInv, Live
<1> QED
  BY <1>1, OpenStep, CloseStep, ReadStep, OpenStdStep, SpawnStep, ForkStep, ExitStep DEF VfsNext
-----------------------------------------------------------------------------
(* The theorems, from the proof of Counting.                               *)
INSTANCE Counting_proofs

(* The inductive invariant of the file system holds for ever.              *)
LEMMA VfsAlways == VfsSpec => []VfsInv
<1>1. VfsInv /\ [VfsNext]_vfsVars => VfsInv'
  BY VfsStep, CountingHolds
<1> QED
  BY <1>1, VfsInitial, PTL DEF VfsSpec

(* Whatever processes open, close, fork and leave behind, for any number   *)
(* of processes, descriptors and file objects: no two descriptors stand    *)
(* for one file object, and every descriptor's object is allocated and has *)
(* its inode.                                                              *)
THEOREM FilesPrivateCorrect == VfsSpec => []FilesPrivate
<1>1. VfsInv => FilesPrivate
  <2> SUFFICES ASSUME VfsInv PROVE FilesPrivate
    BY Zenon
  <2>1. Distinct(files) /\ AllOk(files, heap, upto)
    BY ZenonT(40) DEF VfsInv
  <2> QED
    BY <2>1 DEF Distinct, AllOk, FileOk, FilesPrivate, OpenFds, Live
<1> QED
  BY <1>1, VfsAlways, PTL

(* No read of a descriptor starts before the end of what it last returned, *)
(* though the position is moved twice, and moved back after a read behind  *)
(* the end of the file.                                                    *)
THEOREM DataOnceCorrect == VfsSpec => []DataOnce
<1>1. VfsInv => DataOnce
  BY DEF VfsInv, AllOk, FileOk, DataOnce, OpenFds, Live
<1> QED
  BY <1>1, VfsAlways, PTL

(* For every set of devices: vfs_lookup finds /dev/d if d is registered    *)
(* and only then, and the files of the initrd beside it.                   *)
THEOREM LookupCorrect == VfsSpec => []LookupExact
  BY LookupFinds, PTL
=============================================================================
