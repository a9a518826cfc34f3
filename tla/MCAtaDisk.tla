----------------------------- MODULE MCAtaDisk -----------------------------
(* A small instance of AtaDisk for TLC.                                    *)
EXTENDS AtaDisk
=============================================================================
