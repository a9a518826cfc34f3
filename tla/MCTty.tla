------------------------------- MODULE MCTty -------------------------------
(* Small instances of Tty for TLC.                                         *)
EXTENDS Tty, TLC

(* Processes are interchangeable.                                          *)
MCSymmetry == Permutations(Proc)

(* A word as long as a screen line, and one that goes back to the start of *)
(* its line and ends it.                                                   *)
MCText == {<<"b", "b">>, <<"b", CR, NL>>}
=============================================================================
