----------------------------- MODULE MCServices -----------------------------
(***************************************************************************)
(* Small instances for TLC of the services that processes block for:       *)
(* messages (IpcHistory) and sleep (Timer), which act on the processes of  *)
(* ProcessManager, and the terminals (Tty), which share no state with      *)
(* them.  One moves while the others rest as they were at the start.       *)
(***************************************************************************)
EXTENDS IpcHistory, Timer, Tty, TLC

VARIABLE part   \* the one that moves

ServicesInit == part \in {"messages", "sleep", "tty"} /\ HistoryInit /\ init_timer /\ init_tty

ServicesNext ==
  /\ UNCHANGED part
  /\ \/ part = "messages" /\ HistoryNext /\ UNCHANGED <<t, ttyVars>>
     \/ part = "sleep" /\ TimerNext /\ UNCHANGED <<m, h, ttyVars>>
     \/ part = "tty" /\ TtyNext /\ UNCHANGED <<k, m, h, t>>

ServicesSpec == ServicesInit /\ [][ServicesNext]_<<part, k, m, h, t, ttyVars>>
-----------------------------------------------------------------------------
(* Readers of a terminal are interchangeable.                              *)
MCSymmetry == Permutations(Proc)

(* A word as long as a screen line, and one that goes back to the start of *)
(* its line and ends it.                                                   *)
MCText == {<<"b", "b">>, <<"b", CR, NL>>}
=============================================================================
