--------------------------- MODULE MCKernelEntry ---------------------------
(* Small instances of KernelEntry for TLC.                                 *)
EXTENDS KernelEntry
=============================================================================
