----------------------------- MODULE MCMachine -----------------------------
(***************************************************************************)
(* Small instances for TLC of the modules nearest to the machine: the page *)
(* tables and the memory of processes (AddressSpaces), how the kernel is   *)
(* entered and left (KernelEntry), and how the disk driver waits           *)
(* (AtaDisk).  They share no state; one moves while the others rest as     *)
(* they were at the start.                                                 *)
(***************************************************************************)
EXTENDS AddressSpaces, KernelEntry, AtaDisk

VARIABLE part   \* the one that moves

MachineInit ==
  /\ part \in {"memory", "entry", "driver"}
  /\ init_paging /\ Init /\ AtaInit
  /\ part # "driver" => ~drv.dma

MachineNext ==
  /\ UNCHANGED part
  /\ \/ part = "memory" /\ SpaceNext /\ UNCHANGED <<vars, ataVars>>
     \/ part = "entry" /\ CalmNext /\ UNCHANGED <<s, ataVars>>
     \/ part = "driver" /\ AtaNext /\ UNCHANGED <<s, vars>>

MachineSpec == MachineInit /\ [][MachineNext]_<<part, s, vars, ataVars>> /\ AtaFairness
-----------------------------------------------------------------------------
(* Programs for pages of two bytes: two segments in adjacent pages, one    *)
(* whose data begins inside a page, as kos.ld lays them out, and one whose *)
(* second segment is refused.                                              *)
TwoSegments == <<[vaddr |-> 2 * USER_SPACE_START, memsz |-> 2],
                 [vaddr |-> 2 * USER_SPACE_START + 2, memsz |-> 3]>>

InsidePage  == <<[vaddr |-> 2 * USER_SPACE_START, memsz |-> 1],
                 [vaddr |-> 2 * USER_SPACE_START + 3, memsz |-> 2]>>

LowBase     == <<[vaddr |-> 2 * USER_SPACE_START, memsz |-> 1], [vaddr |-> 2, memsz |-> 1]>>

MCImage == {TwoSegments, InsidePage, LowBase}
=============================================================================
