----------------------------- MODULE RingBuffer -----------------------------
(***************************************************************************)
(* kernel/util/ringbuffer.c: a ring of maxcnt elements with a read and a   *)
(* write index and a count of its own.  The code's indices count bytes, in *)
(* steps of esize and modulo maxcnt * esize; here they count elements.     *)
(* count and the free size are of type size_t: unsigned, modulo SizeMod.   *)
(***************************************************************************)
EXTENDS Integers, Sequences

CONSTANTS maxcnt,     \* elements the ring was created for
          override,   \* the flag given to rbuf_create
          SizeMod,    \* number of values of size_t
          Item,       \* elements
          MaxBatch    \* bound: elements per call

ASSUME RingAssumption ==
  /\ maxcnt \in Nat \ {0}
  /\ override \in BOOLEAN
  /\ MaxBatch \in Nat
  /\ SizeMod \in Nat /\ SizeMod > maxcnt + MaxBatch

VARIABLES rb,     \* *rb: data, count, ridx, widx
          asked,  \* the count the last call was given
          ret,    \* what it returned
          dst     \* what the last read copied out

ringVars == <<rb, asked, ret, dst>>

Index == 0 .. maxcnt - 1

(* kmalloc does not clear the memory it hands out.                         *)
rbuf_create(memory) == [data |-> memory, count |-> 0, ridx |-> 0, widx |-> 0]

rbuf_avail(s) == s.count

(* Mutant of rbuf_freesize: one element is kept free.                      *)
rbuf_freesize_minus_one(s) == (maxcnt - 1 - s.count) % SizeMod

rbuf_freesize(s) == (maxcnt - s.count) % SizeMod

(* One turn of the loops of rbuf_write and rbuf_read, and num of them.     *)
Put(s, item) == [s EXCEPT !.data[s.widx] = item, !.widx = (@ + 1) % maxcnt]

PutAll(s, items, num) ==
  LET loop[n \in 0 .. num] == IF n = 0 THEN s ELSE Put(loop[n - 1], items[n])
  IN  loop[num]

Get(copied) ==
  [rb  |-> [copied.rb EXCEPT !.ridx = (@ + 1) % maxcnt],
   out |-> Append(copied.out, copied.rb.data[copied.rb.ridx])]

GetAll(s, num) ==
  LET loop[n \in 0 .. num] == IF n = 0 THEN [rb |-> s, out |-> << >>] ELSE Get(loop[n - 1])
  IN  loop[num]

rbuf_write(items) ==
  LET num == IF Len(items) > rbuf_freesize(rb) /\ ~override THEN rbuf_freesize(rb)
             ELSE Len(items)
  IN  /\ rb' = [PutAll(rb, items, num) EXCEPT !.count = (@ + num) % SizeMod]
      /\ asked' = Len(items) /\ ret' = num
      /\ dst' = << >>

rbuf_read(count) ==
  LET num    == IF count > rbuf_avail(rb) THEN rbuf_avail(rb) ELSE count
      copied == GetAll(rb, num)
  IN  /\ rb' = [copied.rb EXCEPT !.count = @ - num]
      /\ asked' = count /\ ret' = num
      /\ dst' = copied.out

RingInit == rb \in {rbuf_create(memory) : memory \in [Index -> Item]} /\ asked = 0 /\ ret = 0 /\ dst = << >>

RbufWrite == \E n \in 0 .. MaxBatch : \E items \in [1 .. n -> Item] : rbuf_write(items)
RbufRead  == \E count \in 0 .. MaxBatch : rbuf_read(count)

RingNext == RbufWrite \/ RbufRead

RingSpec == RingInit /\ [][RingNext]_ringVars
-----------------------------------------------------------------------------
(* The header's account of override = false: the ring is the queue of      *)
(* BoundedFifo.  The queue is read off the ring: count elements from ridx. *)
Queue == [i \in 1 .. rb.count |-> rb.data[(rb.ridx + i - 1) % maxcnt]]

Fifo == INSTANCE BoundedFifo WITH Capacity <- maxcnt, queue <- Queue

(* Every rbuf_write and rbuf_read is a step of the bounded queue, in what  *)
(* it stores, hands out and returns: nothing is lost, doubled or reordered *)
(* at the wrap-around.                                                     *)
IsFifo == Fifo!Spec
=============================================================================
