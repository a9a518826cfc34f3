----------------------------- MODULE MCStorage -----------------------------
(***************************************************************************)
(* A small instance of Storage for TLC, in which a read may need a buffer  *)
(* that is too large to be kept.                                           *)
(***************************************************************************)
EXTENDS Storage

MCSource == {<<1>>, <<0, 1, 1, 0>>}
=============================================================================
