----------------------------- MODULE IpcHistory -----------------------------
(***************************************************************************)
(* Ipc with a history: the messages send accepted for a process and the    *)
(* messages that were stored in its memory, each in order.                 *)
(***************************************************************************)
EXTENDS Ipc

CONSTANTS Targets,    \* bound: the pids that messages are sent to
          MaxSends    \* bound: messages sent per behaviour

ASSUME HistoryAssumption == Targets \subseteq Nat /\ MaxSends \in Nat

VARIABLE h

historyVars == <<k, m, h>>

HistoryInit ==
  /\ IpcInit
  /\ h = [accepted |-> [i \in Slot |-> << >>], inbox |-> [i \in Slot |-> << >>],
           sends |-> 0]

(* The histories of a process end with it.                                 *)
LiveHistories ==
  LET live(f) == [i \in Slot |-> IF Live(k', i) THEN f[i] ELSE << >>]
  IN  h' = [h EXCEPT !.accepted = live(@), !.inbox = live(@)]

HProcessStep == ProcessStep /\ LiveHistories

(* Messages are numbered, so that no two are equal.                        *)
HSend ==
  /\ CallingUser
  /\ h.sends < MaxSends
  /\ \E target \in Targets :
       LET to == pm_get_proc(k, target)
           msg == h.sends
       IN  /\ sys_send(target, msg)
           /\ h' = IF to = NULL THEN h
                   ELSE [h EXCEPT !.sends = @ + 1,
                                  !.accepted[to] = IF Accepts(to) THEN Append(@, msg) ELSE @,
                                  !.inbox[to] = IF BlockedForReceiving(to)
                                                THEN Append(@, m'.userbuf[to]) ELSE @]

HReceive ==
  /\ Receive
  /\ h' = IF m.msgbuffer[k.cur_proc] = << >> THEN h
          ELSE [h EXCEPT !.inbox[k.cur_proc] = Append(@, m'.userbuf[k.cur_proc])]

HistoryNext == HProcessStep \/ HSend \/ HReceive

HistorySpec == HistoryInit /\ [][HistoryNext]_historyVars
-----------------------------------------------------------------------------
(* Every message that send accepted for a process is stored in its memory  *)
(* exactly once and in the order of the sends, or still waits in its       *)
(* buffer, whether receive found it there or ipc_send handed it to a       *)
(* sleeper.                                                                *)
DeliveredInOrder ==
  \A p \in Slot : Live(k, p) => h.inbox[p] \o m.msgbuffer[p] = h.accepted[p]
=============================================================================
