-------------------------------- MODULE Ipc --------------------------------
(***************************************************************************)
(* Messages between processes, kernel/ipc.c, together with the process     *)
(* manager whose pm_block and pm_unblock it calls.  A process's msgbuffer  *)
(* is the bounded queue that RingBuffer shows a ringbuffer without         *)
(* override to be.  mapped counts the kernel addresses vm_user_to_kernel   *)
(* has given out for messages and km_free_addr has not taken back.         *)
(***************************************************************************)
EXTENDS ProcessManager

CONSTANTS Msg,            \* what a message can contain
          MsgBufferSize,  \* messages per process (24 in init_proc and pm_fork)
          MaxMapped       \* bound: no receive while more addresses are mapped

ASSUME IpcAssumption == MsgBufferSize \in Nat \ {0} /\ MaxMapped \in Nat

VARIABLE m

ipcVars == <<k, m>>

NoMsg == "NoMsg"

InitIpc ==
  m = [msgbuffer   |-> [i \in Slot |-> << >>],
       msg_waitbuf |-> [i \in Slot |-> FALSE],   \* is it non-null?
       userbuf     |-> [i \in Slot |-> NoMsg],   \* the process's own memory
       mapped      |-> 0]

(* A slot that is taken gets a new, empty buffer and no waiting receive.   *)
NewBuffers ==
  LET new == {i \in Slot : ~Live(k, i) /\ Live(k', i)}
      reset(f, v) == [i \in Slot |-> IF i \in new THEN v ELSE f[i]]
  IN  m' = [m EXCEPT !.msgbuffer = reset(@, << >>),
                     !.msg_waitbuf = reset(@, FALSE),
                     !.userbuf = reset(@, NoMsg)]

BlockedForReceiving(p) == k.status[p] = "PS_BLOCKED" /\ k.block[p] = "BR_RECEIVING"

(* send(): refused for a free slot (EINVAL) and a full buffer (EAGAIN).    *)
Accepts(p) == Live(k, p) /\ Len(m.msgbuffer[p]) < MsgBufferSize

send(s, p, msg) == IF Accepts(p) THEN [s EXCEPT !.msgbuffer[p] = Append(@, msg)] ELSE s

(* Mutant of receive: the message stays in the buffer.                     *)
receive_peek(s, p) ==
  IF s.msgbuffer[p] = << >> THEN s ELSE [s EXCEPT !.userbuf[p] = Head(s.msgbuffer[p])]

(* receive() for the process p, which exists; an empty buffer is EAGAIN.   *)
receive(s, p) ==
  IF s.msgbuffer[p] = << >> THEN s
  ELSE [s EXCEPT !.userbuf[p] = Head(s.msgbuffer[p]), !.msgbuffer[p] = Tail(@)]

(* Mutant of ipc_send: the sleeping receiver is not looked for.            *)
ipc_send_no_wakeup(to, msg) ==
  m' = send(m, to, msg) /\ k' = sc_late_result(k, k.cur_proc, 0)

(* ipc_send for a target that exists.  The sender's own mapping of the     *)
(* message is freed before sys_send returns.                               *)
ipc_send(to, msg) ==
  LET sent == send(m, to, msg)
  IN  IF BlockedForReceiving(to)
      THEN /\ m' = [receive(sent, to) EXCEPT !.msg_waitbuf[to] = FALSE, !.mapped = @ - 1]
           /\ k' = sc_late_result(pm_unblock(k, to), k.cur_proc, 0)
      ELSE m' = sent /\ k' = sc_late_result(k, k.cur_proc, 0)

(* A pid nobody has: ipc_send reads the message buffer of a null process   *)
(* and follows what it finds there.                                        *)
sys_send(target, msg) ==
  LET to == pm_get_proc(k, target)
  IN  IF to = NULL THEN k' = panic(k) /\ m' = m ELSE ipc_send(to, msg)

(* sys_receive maps the address, ipc_receive frees it on success only; a   *)
(* receive that blocks leaves that to the send that ends it.               *)
ipc_receive(block) ==
  LET me == k.cur_proc
  IN  IF m.msgbuffer[me] # << >>
      THEN m' = receive(m, me) /\ k' = sc_late_result(k, me, 0)
      ELSE IF block
      THEN /\ m' = [m EXCEPT !.msg_waitbuf[me] = TRUE, !.mapped = @ + 1]
           /\ k' = sc_late_result(pm_block(k, me, "BR_RECEIVING"), me, 0)
      ELSE m' = [m EXCEPT !.mapped = @ + 1] /\ k' = sc_late_result(k, me, 0)

ProcessStep == Next /\ NewBuffers

Send == CallingUser /\ \E target \in Pids, msg \in Msg : sys_send(target, msg)

Receive == CallingUser /\ m.mapped <= MaxMapped /\ \E block \in BOOLEAN : ipc_receive(block)

IpcNext == ProcessStep \/ Send \/ Receive

IpcInit == Init /\ InitIpc

IpcSpec == IpcInit /\ [][IpcNext]_ipcVars

(* Programs that only execute each other, send, and receive waiting: some  *)
(* of the behaviours of IpcSpec.  The timer keeps interrupting whatever    *)
(* runs in user mode, with the interrupt flag set (prepare_stack's eflags).*)
ChatTick    == Tick /\ NewBuffers
ChatExecute == Calling /\ k.newpid < PidLimit /\ k' = elf32_exec(k, TRUE) /\ NewBuffers
ChatReceive == CallingUser /\ ipc_receive(TRUE)
ChatHalted  == Halted /\ m' = m

ChatSpec ==
  /\ IpcInit
  /\ [][ChatTick \/ ChatExecute \/ Send \/ ChatReceive \/ ChatHalted]_ipcVars
  /\ WF_ipcVars(ChatTick)
-----------------------------------------------------------------------------
(* A process sleeps in receive only while there is nothing for it, with an *)
(* address to store the next message at, and ipc_send clears that address  *)
(* whenever it wakes it: no message waits beside a sleeping receiver.      *)
ReceiverWaits ==
  \A p \in Slot : Live(k, p) =>
    /\ BlockedForReceiving(p) => m.msgbuffer[p] = << >>
    /\ BlockedForReceiving(p) <=> m.msg_waitbuf[p]

(* "Very simple round robin": a process that is ready gets its turn.       *)
EveryReadyProcessRuns ==
  \A p \in Slot : (k.status[p] = "PS_READY") ~> (k.cur_proc = p \/ k.panicked)
=============================================================================
