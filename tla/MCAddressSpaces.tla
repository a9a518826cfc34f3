-------------------------- MODULE MCAddressSpaces --------------------------
(* A small instance of AddressSpaces for TLC.                              *)
EXTENDS AddressSpaces

(* Programs for pages of two bytes: two segments in adjacent pages, one    *)
(* whose data begins inside a page, as kos.ld lays them out, and one whose *)
(* second segment is refused.                                              *)
TwoSegments == <<[vaddr |-> 2 * USER_SPACE_START, memsz |-> 2],
                 [vaddr |-> 2 * USER_SPACE_START + 2, memsz |-> 3]>>

InsidePage  == <<[vaddr |-> 2 * USER_SPACE_START, memsz |-> 1],
                 [vaddr |-> 2 * USER_SPACE_START + 3, memsz |-> 2]>>

LowBase     == <<[vaddr |-> 2 * USER_SPACE_START, memsz |-> 1], [vaddr |-> 2, memsz |-> 1]>>

MCImage == {TwoSegments, InsidePage, LowBase}
=============================================================================
