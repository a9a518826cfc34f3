----------------------------- MODULE Allocator -----------------------------
(***************************************************************************)
(* What the callers of kmalloc, kcalloc, krealloc and kfree rely on: a     *)
(* block belongs to its caller alone, and keeps its contents until the     *)
(* caller writes to it or gives it back.                                   *)
(***************************************************************************)
EXTENDS Integers

CONSTANT Size      \* sizes asked for

VARIABLE block     \* the contents of every block in use, by its address

Bytes(p, n) == p .. p + n - 1

Taken == UNION {DOMAIN block[p] : p \in DOMAIN block}

With(b, p, data) == [q \in DOMAIN b \cup {p} |-> IF q = p THEN data ELSE b[q]]

Without(b, p) == [q \in DOMAIN b \ {p} |-> b[q]]

(* The block at p is n bytes that belong to nobody yet.                    *)
New(p, n) == DOMAIN block'[p] = Bytes(p, n) /\ Bytes(p, n) \cap Taken = {}

Alloc ==
  \E p \in DOMAIN block' \ DOMAIN block, n \in Size :
    New(p, n) /\ block' = With(block, p, block'[p])

Free == \E p \in DOMAIN block : block' = Without(block, p)

(* The owner of the block at p writes to it.                               *)
Store ==
  \E p \in DOMAIN block \cap DOMAIN block' :
    /\ DOMAIN block'[p] = DOMAIN block[p]
    /\ block' = With(block, p, block'[p])

(* A new block takes over as much of the contents of another as fits, and  *)
(* the other one is given back.                                            *)
Realloc ==
  \E p \in DOMAIN block, q \in DOMAIN block' \ DOMAIN block, n \in Size :
    /\ New(q, n)
    /\ \A i \in 0 .. n - 1 : p + i \in DOMAIN block[p] => block'[q][q + i] = block[p][p + i]
    /\ block' = With(Without(block, p), q, block'[q])

Init == block = << >>

Spec == Init /\ [][Alloc \/ Free \/ Store \/ Realloc]_block
=============================================================================
