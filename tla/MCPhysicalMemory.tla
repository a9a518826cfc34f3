-------------------------- MODULE MCPhysicalMemory --------------------------
(* Small instances of PhysicalMemory for TLC.                              *)
EXTENDS PhysicalMemory
=============================================================================
