---------------------------- MODULE BoundedFifo ----------------------------
(***************************************************************************)
(* What include/util/ringbuffer.h promises of a ringbuffer that does not   *)
(* override: a queue of at most Capacity items.  A write takes as many of  *)
(* the offered items as there is room for, a read hands out the oldest     *)
(* ones, and both report how many.                                         *)
(***************************************************************************)
EXTENDS Naturals, Sequences

CONSTANTS Capacity,   \* items the queue holds
          Item,       \* what is stored
          MaxBatch    \* bound: items offered or asked for in one call

VARIABLES queue,  \* the items, oldest first
          asked,  \* how many items the last call offered or asked for
          ret,    \* what it returned
          dst     \* the items the last read stored at its destination

vars == <<queue, asked, ret, dst>>

Batches == UNION {[1 .. n -> Item] : n \in 0 .. MaxBatch}

Least(a, b) == IF a <= b THEN a ELSE b

Init == queue = << >> /\ asked = 0 /\ ret = 0 /\ dst = << >>

Write ==
  \E items \in Batches :
    LET n == Least(Len(items), Capacity - Len(queue))
    IN  /\ queue' = queue \o SubSeq(items, 1, n)
        /\ asked' = Len(items) /\ ret' = n
        /\ dst' = << >>

Read ==
  \E count \in 0 .. MaxBatch :
    LET n == Least(count, Len(queue))
    IN  /\ queue' = SubSeq(queue, n + 1, Len(queue))
        /\ asked' = count /\ ret' = n
        /\ dst' = SubSeq(queue, 1, n)

Next == Write \/ Read

Spec == Init /\ [][Next]_vars
=============================================================================
