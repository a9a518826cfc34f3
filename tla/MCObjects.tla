----------------------------- MODULE MCObjects -----------------------------
(***************************************************************************)
(* Small instances for TLC of the kernel's objects: descriptors and file   *)
(* systems (Vfs), the files that block devices are (Storage), the image    *)
(* that the first file system is read from (RamDisk), and what all of them *)
(* are made of, the page and heap allocators (PhysicalMemory, KernelHeap), *)
(* ring buffers and lists.  They share no state; one moves while the       *)
(* others rest as they were at the start.                                  *)
(***************************************************************************)
EXTENDS Vfs, RamDisk, Storage, KernelHeap, RingBuffer, ListUsers

VARIABLE part   \* the one that moves

(* The disk is empty at first; what is written to it is not.               *)
ObjectsInit ==
  /\ part \in {"vfs", "ramdisk", "storage", "heap", "ring", "list"}
  /\ VfsInit /\ RamDiskInit /\ StorageInit /\ HeapInit /\ RingInit /\ ListInit
  /\ disk = [b \in 0 .. Bytes - 1 |-> 0]
  /\ part # "ring" => rb.data = [i \in Index |-> CHOOSE x \in Item : TRUE]
  /\ part # "list" => user = "queue"

fileVars   == <<vfsVars, rd, storageVars>>
memoryVars == <<heapVars, ringVars, listVars>>

ObjectsNext ==
  /\ UNCHANGED part
  /\ \/ part = "vfs" /\ VfsNext /\ UNCHANGED <<rd, storageVars, memoryVars>>
     \/ part = "ramdisk" /\ RamDiskNext /\ UNCHANGED <<vfsVars, storageVars, memoryVars>>
     \/ part = "storage" /\ StorageNext /\ UNCHANGED <<vfsVars, rd, memoryVars>>
     \/ part = "heap" /\ HeapNext /\ UNCHANGED <<fileVars, ringVars, listVars>>
     \/ part = "ring" /\ RingNext /\ UNCHANGED <<fileVars, heapVars, listVars>>
     \/ part = "list" /\ ListNext /\ UNCHANGED <<fileVars, heapVars, ringVars>>

ObjectsSpec == ObjectsInit /\ [][ObjectsNext]_<<part, fileVars, memoryVars>>
-----------------------------------------------------------------------------
(* Directories, of which one cannot be opened, a file, the same taken for  *)
(* a directory, a device that is missing and one that comes and goes.      *)
MCOpenPaths ==
  {<< >>, <<"f">>, <<"f", "x">>, <<"dev">>, <<"dev", "x">>, <<"dev", "tty0">>}
MCDirPaths  == {<< >>, <<"f">>, <<"x">>, <<"dev">>}

(* Names of different lengths, and a file that is empty.                   *)
MCNameLen  == [n \in FileName |-> IF n = "a" THEN 1 ELSE 2]
MCFileData == {<< >>, <<7, 8>>}

(* Less than a block, and two blocks, which may lie across three.          *)
MCSource == {<<1>>, <<0, 1, 1, 0>>}
=============================================================================
