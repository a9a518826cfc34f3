----------------------------- MODULE ByteDevice -----------------------------
(***************************************************************************)
(* What a block device's file in /dev promises to read and write: it is an *)
(* array of bytes, from byte Base of a disk on, and goes on behind the end *)
(* of its partition.  A request that fails may have read or written some   *)
(* of its bytes, and touches no others; how often one fails is left open.  *)
(* Its answer is DriverError, which cannot be told from a request of as    *)
(* many bytes that succeeded.                                              *)
(***************************************************************************)
EXTENDS Integers, Sequences

CONSTANTS Bytes,        \* bytes of the disk
          Base,         \* where the device begins
          Byte,         \* values of a byte
          Offsets,      \* where requests begin
          Sizes,        \* how many bytes are read
          Source,       \* what is written: sequences of bytes
          DriverError   \* the answer when a transfer failed

VARIABLES media,   \* [0 .. Bytes - 1 -> Byte]
          done     \* the last request and its answer

Answer(op, offset, size, ret, dst) ==
  [op |-> op, offset |-> offset, size |-> size, ret |-> ret, dst |-> dst]

Init == media \in [0 .. Bytes - 1 -> Byte] /\ done = Answer("none", 0, 0, 0, << >>)

(* The first n bytes from offset on.                                       *)
First(n, offset) == [i \in 1 .. n |-> media[Base + offset + i - 1]]

(* What the request is to leave in byte b of the disk.                     *)
Wanted(src, offset, b) ==
  IF b - (Base + offset) \in 0 .. Len(src) - 1 THEN src[b - (Base + offset) + 1] ELSE media[b]

Read ==
  /\ done'.op = "read" /\ UNCHANGED media
  /\ \E offset \in Offsets, size \in Sizes, n \in 0 .. Bytes :
       /\ n > 0 => Base + offset + n <= Bytes
       /\ n <= size
       /\ \/ n = size /\ done' = Answer("read", offset, size, size, First(n, offset))
          \/ done' = Answer("read", offset, size, DriverError, First(n, offset))

Write ==
  /\ done'.op = "write"
  /\ \E offset \in Offsets, src \in Source :
       \/ /\ Len(src) > 0 => Base + offset + Len(src) <= Bytes
          /\ done' = Answer("write", offset, Len(src), Len(src), << >>)
          /\ media' = [b \in DOMAIN media |-> Wanted(src, offset, b)]
       \/ /\ done' = Answer("write", offset, Len(src), DriverError, << >>)
          /\ media' \in [DOMAIN media -> Byte]
          /\ \A b \in DOMAIN media : media'[b] \in {media[b], Wanted(src, offset, b)}

Spec == Init /\ [][Read \/ Write]_<<media, done>>
=============================================================================
