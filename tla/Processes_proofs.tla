------------------------- MODULE Processes_proofs -------------------------
(***************************************************************************)
(* The theorems about processes, for any size of the process table: the    *)
(* process manager itself, from the lemmas of ProcessManager_proofs, and   *)
(* the two services processes block for, messages (Ipc) and sleep (Timer). *)
(* The services rest on one fact about the process manager, StepInv: no    *)
(* step of its own ends or begins a wait for a service.                    *)
(***************************************************************************)
EXTENDS IpcHistory, Timer, ProcessManager_proofs

(* Sequences.                                                              *)
LEMMA SeqEqual ==
  ASSUME NEW S, NEW q \in Seq(S), NEW r \in Seq(S), Len(q) = Len(r), \A i \in 1 .. Len(q) : q[i] = r[i]
  PROVE  q = r
  OBVIOUS

LEMMA ConcatProperties ==
  ASSUME NEW S, NEW q \in Seq(S), NEW r \in Seq(S)
  PROVE  /\ q \o r \in Seq(S) /\ Len(q \o r) = Len(q) + Len(r)
         /\ \A i \in 1 .. Len(q) + Len(r) : (q \o r)[i] = IF i <= Len(q) THEN q[i] ELSE r[i - Len(q)]
  OBVIOUS

LEMMA ConcatEmptySeq ==
  ASSUME NEW S, NEW q \in Seq(S)
  PROVE  q \o << >> = q /\ << >> \o q = q
  OBVIOUS

LEMMA ConcatAssociative ==
  ASSUME NEW S, NEW q \in Seq(S), NEW r \in Seq(S), NEW u \in Seq(S)
  PROVE  (q \o r) \o u = q \o (r \o u)
  OBVIOUS

LEMMA AppendIsConcat ==
  ASSUME NEW S, NEW q \in Seq(S), NEW e \in S
  PROVE  Append(q, e) = q \o <<e>>
  OBVIOUS

LEMMA HeadTailProperties ==
  ASSUME NEW S, NEW q \in Seq(S), q # << >>
  PROVE  /\ Head(q) \in S /\ Tail(q) \in Seq(S) /\ Len(Tail(q)) = Len(q) - 1
         /\ \A i \in 1 .. Len(Tail(q)) : Tail(q)[i] = q[i + 1]
  OBVIOUS

(* TableFrame for a step that changes why a process is blocked, but not    *)
(* who waits for another.                                                  *)
LEMMA ParkFrame ==
  ASSUME NEW s, NEW u, TableInv(s), u.pid = s.pid, u.wait_proc = s.wait_proc,
         u.wait_for = s.wait_for, u.newpid = s.newpid,
         \A i \in Slot : Live(u, i) <=> Live(s, i),
         \A i \in Slot : Waiting(u, i) <=> Waiting(s, i),
         u.status[NULL] = s.status[NULL], u.block[IdleSlot] = s.block[IdleSlot]
  PROVE  TableInv(u)
<1>1. NullInv(u)
  BY Zenon DEF NullInv, TableInv
<1>2. PidInv(u)
  BY Zenon DEF PidInv, TableInv
<1>3. IdleInv(u)
  BY IdleIsSlot, Zenon DEF IdleInv, TableInv
<1>4. WaitInv(u)
  BY DEF WaitInv, TableInv
<1> QED
  BY <1>1, <1>2, <1>3, <1>4, Zenon DEF TableInv

(* A process that waits for a service is alive, not running and not idle.  *)
LEMMA ParkedFacts ==
  ASSUME NEW s, IInv(s), NEW w \in Slot, NEW r \in ServiceReason, Parked(s, w, r)
  PROVE  /\ Live(s, w) /\ w # IdleSlot /\ w # s.cur_proc /\ w \notin Runnable(s)
         /\ ~Waiting(s, w)
<1>1. w # IdleSlot
  BY Zenon DEF Parked, ServiceReason, IInv, TableInv, IdleInv
<1> QED
  BY <1>1, Zenon DEF Parked, ServiceReason, IInv, CurInv, Runnable, Live, Waiting

(* pm_unblock ends the wait of the process it is given, and no other.      *)
LEMMA UnblockStep ==
  ASSUME NEW s, IInv(s), ~s.panicked, NEW w \in Slot, NEW r \in ServiceReason, Parked(s, w, r),
         NEW u, u = pm_unblock(s, w)
  PROVE  /\ IInv(u) /\ ~u.panicked
         /\ \A i \in Slot : Live(u, i) <=> Live(s, i)
         /\ \A i \in Slot : \A q \in ServiceReason :
              Parked(u, i, q) <=> Parked(s, i, q) /\ i # w
<1>1. /\ Live(s, w) /\ w # IdleSlot /\ w # s.cur_proc /\ w \notin Runnable(s)
      /\ ~Waiting(s, w)
  BY ParkedFacts, Zenon
<1>2. s \in State /\ ListOn(s, Runnable(s)) /\ CurInv(s) /\ TableInv(s)
  BY DEF IInv
<1>3. /\ u \in State
      /\ ListOn(u, Runnable(u))
      /\ CurInv(u)
      /\ u.status = [s.status EXCEPT ![w] = "PS_READY"]
      /\ u.block = [s.block EXCEPT ![w] = "BR_NOT_BLOCKED"]
      /\ u.pid = s.pid /\ u.wait_proc = s.wait_proc /\ u.wait_for = s.wait_for
      /\ u.newpid = s.newpid /\ u.panicked = s.panicked
  BY <1>1, <1>2, UnblockInv, Zenon
<1>4. /\ u.status[w] = "PS_READY" /\ NULL \in Ref /\ NULL # w /\ Slot \subseteq Ref
      /\ \A i \in Ref : i # w => u.status[i] = s.status[i]
      /\ \A i \in Slot : i # w => u.block[i] = s.block[i]
  BY <1>2, <1>3, IdleIsSlot DEF State, Ref
<1>5. \A i \in Slot : Live(u, i) <=> Live(s, i)
  BY <1>1, <1>4, Zenon DEF Live
<1>6. \A i \in Slot : Waiting(u, i) <=> Waiting(s, i)
  BY <1>1, <1>4 DEF Waiting
<1>7. TableInv(u)
  <2>1. u.status[NULL] = s.status[NULL] /\ u.block[IdleSlot] = s.block[IdleSlot]
    BY <1>1, <1>4, IdleIsSlot, Zenon
  <2> QED
    BY <1>2, <1>3, <1>5, <1>6, <2>1, ParkFrame, Zenon
<1>8. \A i \in Slot : \A q \in ServiceReason : Parked(u, i, q) <=> Parked(s, i, q) /\ i # w
  BY <1>4, Zenon DEF Parked
<1> QED
  BY <1>3, <1>5, <1>7, <1>8, Zenon DEF IInv, PanicInv

(* pm_block of the running process for a service, with the late result its *)
(* system call leaves: it, and nobody else, begins to wait.                *)
LEMMA BlockStep ==
  ASSUME NEW s, IInv(s), ~s.panicked, NEW p, p = s.cur_proc, p # IdleSlot,
         NEW r \in ServiceReason, NEW u, u = sc_late_result(pm_block(s, p, r), p, 0)
  PROVE  /\ IInv(u) /\ ~u.panicked
         /\ \A i \in Slot : Live(u, i) <=> Live(s, i)
         /\ \A i \in Slot : \A q \in ServiceReason :
              Parked(u, i, q) <=> Parked(s, i, q) \/ (i = p /\ q = r)
<1> DEFINE v == [s EXCEPT !.status[p] = "PS_BLOCKED", !.block[p] = r]
           d == pm_deactivate(v, p)
           c == d.cur_proc
<1>0. s \in State /\ TableInv(s) /\ CurInv(s) /\ p \in Slot /\ s.status[p] = "PS_RUNNING"
  BY Zenon DEF IInv, State, CurInv
<1>1. v \in State
  BY <1>0, Zenon DEF State, Status, BlockReason, ServiceReason
<1>2. v.status = [s.status EXCEPT ![p] = "PS_BLOCKED"] /\ v.block = [s.block EXCEPT ![p] = r]
  BY <1>0, Zenon DEF State
<1>3. /\ v.next = s.next /\ v.plist_head = s.plist_head /\ v.plist_tail = s.plist_tail
      /\ v.cur_proc = s.cur_proc
  BY <1>0, Zenon DEF State
<1>4. /\ v.pid = s.pid /\ v.newpid = s.newpid
      /\ v.panicked = s.panicked /\ v.wait_proc = s.wait_proc /\ v.wait_for = s.wait_for
  BY <1>0, Zenon DEF State
<1>5. pm_block(s, p, r) = d
  BY <1>0, Zenon DEF pm_block
<1> HIDE DEF v
<1>6. /\ v.status[p] = "PS_BLOCKED" /\ v.block[p] = r
      /\ \A i \in Ref : i # p => v.status[i] = s.status[i]
      /\ \A i \in Slot : i # p => v.block[i] = s.block[i]
  BY <1>0, <1>2, ZenonT(40) DEF State, Ref
<1>7. /\ d \in State
      /\ ListOn(d, Runnable(s) \ {p})
      /\ c = d.plist_head
      /\ c \in Runnable(s) \ {p}
      /\ d.status[p] = "PS_BLOCKED"
      /\ \A i \in Ref : i # p => d.status[i] = IF i = c THEN "PS_RUNNING" ELSE s.status[i]
      /\ SameTable(d, v)
  BY <1>1, <1>3, <1>6, LeaveInv
<1> HIDE DEF d
<1>8. /\ d.pid = s.pid /\ d.newpid = s.newpid /\ ~d.panicked /\ d.block = v.block
      /\ d.wait_proc = s.wait_proc /\ d.wait_for = s.wait_for
  BY <1>4, <1>7, Zenon DEF SameTable
<1>9. /\ c \in Slot /\ c # p /\ NULL \in Ref /\ NULL # p /\ NULL # c /\ Slot \subseteq Ref
      /\ Live(s, c) /\ ~Waiting(s, c) /\ \A q \in ServiceReason : ~Parked(s, c, q)
  BY <1>0, <1>7, IdleIsSlot, Zenon
     DEF Runnable, Ref, Live, Waiting, Parked, ServiceReason, TableInv, IdleInv
<1> HIDE DEF c
<1>10. \A i \in Slot : Live(d, i) <=> Live(s, i)
  BY <1>0, <1>7, <1>9, Zenon DEF Live
<1>11. \A i \in Slot : Waiting(d, i) <=> Waiting(s, i)
  BY <1>0, <1>6, <1>7, <1>8, <1>9 DEF Waiting, ServiceReason
<1>12. \A i \in Slot : \A q \in ServiceReason :
         Parked(d, i, q) <=> Parked(s, i, q) \/ (i = p /\ q = r)
  BY <1>0, <1>6, <1>7, <1>8, <1>9 DEF Parked
<1>13. TableInv(d)
  <2>1. d.status[NULL] = s.status[NULL] /\ d.block[IdleSlot] = s.block[IdleSlot]
    BY <1>6, <1>7, <1>8, <1>9, IdleIsSlot
  <2> QED
    BY <1>0, <1>8, <1>10, <1>11, <2>1, ParkFrame, Zenon
<1>14. Runnable(d) = Runnable(s) \ {p}
  <2>1. ASSUME NEW i \in Slot PROVE i \in Runnable(d) <=> i \in Runnable(s) \ {p}
    BY <1>7, <1>9, Zenon DEF Runnable
  <2>2. Runnable(d) \subseteq Slot /\ Runnable(s) \subseteq Slot
    BY IdleIsSlot, Zenon DEF Runnable
  <2> QED
    BY <2>1, <2>2, Zenon
<1>15. CurInv(d)
  BY <1>0, <1>7, <1>9, Zenon DEF CurInv, c
<1>16. IInv(d)
  BY <1>7, <1>8, <1>13, <1>14, <1>15 DEF IInv, PanicInv
<1>17. IInv(u) /\ u.status = d.status /\ u.block = d.block
  BY <1>0, <1>5, <1>16, ResultInv
<1>18. u.panicked = d.panicked
  BY <1>5, <1>7, Zenon DEF sc_late_result, State
<1> QED
  BY <1>8, <1>10, <1>12, <1>17, <1>18 DEF Live, Parked
-----------------------------------------------------------------------------
(* Messages.                                                               *)

(* send appends to the end of what was accepted.                           *)
LEMMA AppendLast ==
  ASSUME NEW S, NEW a \in Seq(S), NEW b \in Seq(S), NEW x \in S
  PROVE  a \o Append(b, x) = Append(a \o b, x)
<1>1. Append(b, x) = b \o <<x>> /\ <<x>> \in Seq(S)
  BY AppendIsConcat
<1>2. a \o (b \o <<x>>) = (a \o b) \o <<x>>
  BY <1>1, ConcatAssociative
<1>3. a \o b \in Seq(S)
  OBVIOUS
<1>4. Append(a \o b, x) = (a \o b) \o <<x>>
  BY <1>3, AppendIsConcat, Zenon
<1> QED
  BY <1>1, <1>2, <1>4, Zenon

(* receive moves the first message of the buffer to the end of the inbox.  *)
LEMMA MoveFirst ==
  ASSUME NEW S, NEW a \in Seq(S), NEW b \in Seq(S), b # << >>
  PROVE  /\ Head(b) \in S /\ Tail(b) \in Seq(S)
         /\ Append(a, Head(b)) \o Tail(b) = a \o b
<1>1. Head(b) \in S /\ Tail(b) \in Seq(S) /\ b = <<Head(b)>> \o Tail(b) /\ <<Head(b)>> \in Seq(S)
  <2>1. Head(b) \in S /\ Tail(b) \in Seq(S) /\ Len(Tail(b)) = Len(b) - 1 /\ Head(b) = b[1]
        /\ \A i \in 1 .. Len(Tail(b)) : Tail(b)[i] = b[i + 1]
    BY HeadTailProperties
  <2>2. <<Head(b)>> \in Seq(S) /\ Len(<<Head(b)>>) = 1 /\ <<Head(b)>>[1] = Head(b)
    BY <2>1
  <2>3. b = <<Head(b)>> \o Tail(b)
    <3> DEFINE x == <<Head(b)>>
               y == Tail(b)
    <3>1. /\ x \o y \in Seq(S) /\ Len(x \o y) = Len(x) + Len(y)
          /\ \A i \in 1 .. Len(x) + Len(y) : (x \o y)[i] = IF i <= Len(x) THEN x[i] ELSE y[i - Len(x)]
      BY <2>1, <2>2, ConcatProperties
    <3> HIDE DEF x, y
    <3>2. Len(x \o y) = Len(b) /\ Len(b) \in Nat
      BY <2>1, <2>2, <3>1 DEF x, y
    <3>3. ASSUME NEW i \in 1 .. Len(b) PROVE (x \o y)[i] = b[i]
      BY <2>1, <2>2, <3>1, <3>2 DEF x, y
    <3>4. x \o y = b
      BY <3>1, <3>2, <3>3, SeqEqual, Zenon
    <3> QED
      BY <3>4, Zenon DEF x, y
  <2> QED
    BY <2>1, <2>2, <2>3
<1>2. Append(a, Head(b)) = a \o <<Head(b)>>
  BY <1>1, AppendIsConcat, Zenon
<1>3. (a \o <<Head(b)>>) \o Tail(b) = a \o (<<Head(b)>> \o Tail(b))
  BY <1>1, ConcatAssociative
<1> QED
  BY <1>1, <1>2, <1>3

(* The inductive invariant.  send follows what it reads through a null     *)
(* pointer, so the machine may have halted without the process manager's   *)
(* reasons.  The histories of free slots are empty.                        *)
MsgTypes ==
  m \in [msgbuffer : [Slot -> Seq(Nat)], msg_waitbuf : [Slot -> BOOLEAN],
         userbuf : [Slot -> Nat \cup {NoMsg}], mapped : Int]

HistoryTypes ==
  h \in [accepted : [Slot -> Seq(Nat)], inbox : [Slot -> Seq(Nat)], sends : Nat]

Processes == k \in State /\ (k.panicked \/ IInv(k))

HistoryInv ==
  /\ Processes
  /\ MsgTypes
  /\ HistoryTypes
  /\ ReceiverWaits
  /\ DeliveredInOrder
  /\ \A p \in Slot : ~Live(k, p) => h.accepted[p] = << >> /\ h.inbox[p] = << >>

(* Nobody receives and no message exists when the kernel starts.           *)
LEMMA HistoryInitInv == HistoryInit => HistoryInv
<1> SUFFICES ASSUME HistoryInit PROVE HistoryInv
  BY Zenon
<1>1. Processes
  BY InitInv, Zenon DEF HistoryInit, IpcInit, Processes, IInv
<1>2. /\ MsgTypes
      /\ \A p \in Slot : m.msgbuffer[p] = << >> /\ m.msg_waitbuf[p] = FALSE
  BY DEF HistoryInit, IpcInit, InitIpc, MsgTypes
<1>3. /\ HistoryTypes
      /\ \A p \in Slot : h.accepted[p] = << >> /\ h.inbox[p] = << >>
  BY DEF HistoryInit, HistoryTypes
<1>4. \A p \in Slot : ~BlockedForReceiving(p)
  BY DEF HistoryInit, IpcInit, Init, BlockedForReceiving, Slot
<1>5. << >> \o << >> = << >>
  OBVIOUS
<1> QED
  BY <1>1, <1>2, <1>3, <1>4, <1>5, Zenon DEF HistoryInv, ReceiverWaits, DeliveredInOrder

(* A step of the process manager: the processes it creates have nothing in *)
(* their buffers, and it neither begins nor ends a receive.                *)
LEMMA HProcessInv ==
  ASSUME Counting, HistoryInv, HProcessStep
  PROVE  HistoryInv'
<1> USE DEF HistoryInv
<1>1. Processes' /\ SameParked(k', k)
  <2>1. CASE k.panicked
    <3>1. k' = k
      BY <2>1, Zenon DEF HProcessStep, ProcessStep, Next, Tick, Yield, Exit, Waitpid, Fork, Execute,
                  NotExecuted, Abort, Halted, Calling, CallingUser
    <3> QED
      BY <3>1, Zenon DEF Processes, SameParked
  <2>2. CASE IInv(k)
    <3>1. [Next]_vars
      BY Zenon DEF HProcessStep, ProcessStep
    <3>2. IInv(k') /\ SameParked(k', k)
      BY <2>2, <3>1, StepInv, Zenon
    <3> QED
      BY <3>2, Zenon DEF Processes, IInv
  <2> QED
    BY <2>1, <2>2, Zenon DEF Processes
<1>2. \A p \in Slot : BlockedForReceiving(p)' <=> BlockedForReceiving(p)
  BY <1>1, Zenon DEF SameParked, Parked, ServiceReason, BlockedForReceiving
<1>3. /\ MsgTypes'
      /\ \A p \in Slot : IF ~Live(k, p) /\ Live(k', p)
                         THEN m'.msgbuffer[p] = << >> /\ m'.msg_waitbuf[p] = FALSE
                         ELSE /\ m'.msgbuffer[p] = m.msgbuffer[p]
                              /\ m'.msg_waitbuf[p] = m.msg_waitbuf[p]
  <2> DEFINE new == {i \in Slot : ~Live(k, i) /\ Live(k', i)}
             buffers == [i \in Slot |-> IF i \in new THEN << >> ELSE m.msgbuffer[i]]
             waits == [i \in Slot |-> IF i \in new THEN FALSE ELSE m.msg_waitbuf[i]]
             bufs == [i \in Slot |-> IF i \in new THEN NoMsg ELSE m.userbuf[i]]
  <2>1. m' = [m EXCEPT !.msgbuffer = buffers, !.msg_waitbuf = waits, !.userbuf = bufs]
    BY Zenon DEF HProcessStep, ProcessStep, NewBuffers
  <2>2. /\ m.msgbuffer \in [Slot -> Seq(Nat)] /\ m.msg_waitbuf \in [Slot -> BOOLEAN]
        /\ m.userbuf \in [Slot -> Nat \cup {NoMsg}] /\ m.mapped \in Int
    BY Zenon DEF MsgTypes
  <2>3. buffers \in [Slot -> Seq(Nat)]
    BY <2>2
  <2>4. waits \in [Slot -> BOOLEAN]
    BY <2>2, Zenon
  <2>5. bufs \in [Slot -> Nat \cup {NoMsg}]
    BY <2>2
  <2>6. \A p \in Slot : p \in new <=> ~Live(k, p) /\ Live(k', p)
    OBVIOUS
  <2>7. \A p \in Slot : /\ buffers[p] = IF p \in new THEN << >> ELSE m.msgbuffer[p]
                        /\ waits[p] = IF p \in new THEN FALSE ELSE m.msg_waitbuf[p]
    BY Zenon
  <2> HIDE DEF new, buffers, waits, bufs
  <2>8. m' = [msgbuffer |-> buffers, msg_waitbuf |-> waits, userbuf |-> bufs, mapped |-> m.mapped]
    BY <2>1, Zenon DEF MsgTypes
  <2> QED
    BY <2>2, <2>3, <2>4, <2>5, <2>6, <2>7, <2>8, Zenon DEF MsgTypes
<1>4. /\ HistoryTypes'
      /\ \A p \in Slot : IF Live(k', p)
                         THEN h'.accepted[p] = h.accepted[p] /\ h'.inbox[p] = h.inbox[p]
                         ELSE h'.accepted[p] = << >> /\ h'.inbox[p] = << >>
  <2> DEFINE acc == [i \in Slot |-> IF Live(k', i) THEN h.accepted[i] ELSE << >>]
             inb == [i \in Slot |-> IF Live(k', i) THEN h.inbox[i] ELSE << >>]
  <2>1. h' = [h EXCEPT !.accepted = acc, !.inbox = inb]
    BY DEF HProcessStep, LiveHistories
  <2>2. acc \in [Slot -> Seq(Nat)] /\ inb \in [Slot -> Seq(Nat)] /\ h.sends \in Nat
    BY DEF HistoryTypes
  <2>3. \A p \in Slot : /\ acc[p] = IF Live(k', p) THEN h.accepted[p] ELSE << >>
                        /\ inb[p] = IF Live(k', p) THEN h.inbox[p] ELSE << >>
    BY Zenon
  <2> HIDE DEF acc, inb
  <2>4. h' = [accepted |-> acc, inbox |-> inb, sends |-> h.sends]
    BY <2>1, Zenon DEF HistoryTypes
  <2> QED
    BY <2>2, <2>3, <2>4 DEF HistoryTypes
<1>5. ASSUME NEW p \in Slot, ~Live(k, p) PROVE ~BlockedForReceiving(p)
  BY <1>5, Zenon DEF Live, BlockedForReceiving
<1>6. ReceiverWaits'
  BY <1>2, <1>3, <1>5 DEF ReceiverWaits
<1>7. DeliveredInOrder'
  <2>1. << >> \o << >> = << >>
    OBVIOUS
  <2> QED
    BY <1>3, <1>4, <2>1, Zenon DEF DeliveredInOrder
<1> QED
  BY <1>1, <1>3, <1>4, <1>6, <1>7, Zenon

(* What is left to show of a step that changes the status of nobody's      *)
(* receive but who's, and the buffer and histories of who alone.           *)
LEMMA OneReceiver ==
  ASSUME HistoryInv, Processes', MsgTypes', HistoryTypes', NEW who \in Slot, Live(k, who),
         \A p \in Slot : Live(k', p) <=> Live(k, p),
         \A p \in Slot : p # who => BlockedForReceiving(p)' <=> BlockedForReceiving(p),
         \A p \in Slot : p # who =>
           /\ m'.msgbuffer[p] = m.msgbuffer[p] /\ m'.msg_waitbuf[p] = m.msg_waitbuf[p]
           /\ h'.accepted[p] = h.accepted[p] /\ h'.inbox[p] = h.inbox[p],
         BlockedForReceiving(who)' => m'.msgbuffer[who] = << >>,
         BlockedForReceiving(who)' <=> m'.msg_waitbuf[who],
         h'.inbox[who] \o m'.msgbuffer[who] = h'.accepted[who]
  PROVE  HistoryInv'
<1>1. ReceiverWaits'
  BY DEF ReceiverWaits, HistoryInv
<1>2. DeliveredInOrder'
  BY Zenon DEF DeliveredInOrder, HistoryInv
<1> QED
  BY <1>1, <1>2 DEF HistoryInv

(* The same for a step that changes none of it.                            *)
LEMMA NoReceiver ==
  ASSUME HistoryInv, Processes', MsgTypes', HistoryTypes',
         \A p \in Slot : Live(k', p) <=> Live(k, p),
         \A p \in Slot : BlockedForReceiving(p)' <=> BlockedForReceiving(p),
         m'.msgbuffer = m.msgbuffer, m'.msg_waitbuf = m.msg_waitbuf,
         h'.accepted = h.accepted, h'.inbox = h.inbox
  PROVE  HistoryInv'
<1>1. ReceiverWaits'
  BY Zenon DEF ReceiverWaits, HistoryInv
<1>2. DeliveredInOrder'
  BY Zenon DEF DeliveredInOrder, HistoryInv
<1> QED
  BY <1>1, <1>2, Zenon DEF HistoryInv

(* A system call that changes nothing but the caller's result.             *)
LEMMA ResultOnly ==
  ASSUME IInv(k), k' = sc_late_result(k, k.cur_proc, 0)
  PROVE  /\ Processes'
         /\ \A p \in Slot : Live(k', p) <=> Live(k, p)
         /\ \A p \in Slot : BlockedForReceiving(p)' <=> BlockedForReceiving(p)
<1>1. k.cur_proc \in Slot
  BY Zenon DEF IInv, State
<1>2. IInv(k') /\ k'.status = k.status /\ k'.block = k.block
  BY <1>1, ResultInv, Zenon
<1> QED
  BY <1>2, Zenon DEF Processes, IInv, Live, BlockedForReceiving

(* sys_send: the message is appended to what the receiver was sent, and    *)
(* handed to it at once when it sleeps.                                    *)
LEMMA HSendInv ==
  ASSUME Counting, HistoryInv, HSend
  PROVE  HistoryInv'
<1>0. ~k.panicked /\ IInv(k) /\ k \in State /\ k.cur_proc \in Slot
  BY Zenon DEF HSend, CallingUser, Calling, HistoryInv, Processes, State
<1> DEFINE msg == h.sends
<1>1. PICK target \in Targets :
        LET to == pm_get_proc(k, target)
        IN  /\ sys_send(target, msg)
            /\ h' = IF to = NULL THEN h
                    ELSE [h EXCEPT !.sends = @ + 1,
                                   !.accepted[to] = IF Accepts(to) THEN Append(@, msg) ELSE @,
                                   !.inbox[to] = IF BlockedForReceiving(to)
                                                 THEN Append(@, m'.userbuf[to]) ELSE @]
  BY Zenon DEF HSend
<1> DEFINE to == pm_get_proc(k, target)
<1>2. to = NULL \/ to \in Slot
  <2>1. target \in Nat
    BY HistoryAssumption, Zenon
  <2> QED
    BY <1>0, <2>1, LookupResult, Zenon
<1>3. /\ m.msgbuffer \in [Slot -> Seq(Nat)] /\ m.msg_waitbuf \in [Slot -> BOOLEAN]
      /\ m.userbuf \in [Slot -> Nat \cup {NoMsg}] /\ m.mapped \in Int
  BY Zenon DEF HistoryInv, MsgTypes
<1>4. /\ h.accepted \in [Slot -> Seq(Nat)] /\ h.inbox \in [Slot -> Seq(Nat)] /\ msg \in Nat
  BY Zenon DEF HistoryInv, HistoryTypes
<1>5. CASE to = NULL
  <2>1. k' = panic(k) /\ m' = m /\ h' = h
    BY <1>1, <1>5, Zenon DEF sys_send
  <2>2. k' \in State /\ k'.panicked
    BY <1>0, <2>1, Zenon DEF panic, State
  <2>3. k'.status = k.status /\ k'.block = k.block
    BY <1>0, <2>1, Zenon DEF panic, State
  <2> QED
    <3>1. Processes' /\ MsgTypes' /\ HistoryTypes'
      BY <2>1, <2>2, Zenon DEF HistoryInv, Processes, MsgTypes, HistoryTypes
    <3>2. \A p \in Slot : /\ Live(k', p) <=> Live(k, p)
                          /\ BlockedForReceiving(p)' <=> BlockedForReceiving(p)
      BY <2>3 DEF BlockedForReceiving, Live
    <3> QED
      BY <2>1, <3>1, <3>2, NoReceiver, Zenon
<1>6. CASE to # NULL
  <2> DEFINE sent == send(m, to, msg)
  <2>0. to \in Slot
    BY <1>2, <1>6
  <2>1. /\ ipc_send(to, msg)
        /\ h' = [h EXCEPT !.sends = @ + 1,
                          !.accepted[to] = IF Accepts(to) THEN Append(@, msg) ELSE @,
                          !.inbox[to] = IF BlockedForReceiving(to)
                                        THEN Append(@, m'.userbuf[to]) ELSE @]
    BY <1>1, <1>6 DEF sys_send
  <2> HIDE DEF to, msg
  <2>2. CASE BlockedForReceiving(to)
    <3>1. /\ m' = [receive(sent, to) EXCEPT !.msg_waitbuf[to] = FALSE, !.mapped = @ - 1]
          /\ k' = sc_late_result(pm_unblock(k, to), k.cur_proc, 0)
      BY <2>1, <2>2, Zenon DEF ipc_send
    <3>2. Live(k, to) /\ m.msgbuffer[to] = << >>
      BY <2>0, <2>2, Zenon DEF HistoryInv, ReceiverWaits, BlockedForReceiving, Live
    <3>3. Accepts(to)
      BY <3>2, IpcAssumption DEF Accepts
    <3>4. sent = [m EXCEPT !.msgbuffer[to] = <<msg>>]
      BY <3>2, <3>3 DEF send
    <3>5. receive(sent, to) =
              [msgbuffer |-> [m.msgbuffer EXCEPT ![to] = << >>], msg_waitbuf |-> m.msg_waitbuf,
               userbuf |-> [m.userbuf EXCEPT ![to] = msg], mapped |-> m.mapped]
      <4>1. /\ sent.msgbuffer = [m.msgbuffer EXCEPT ![to] = <<msg>>]
            /\ sent.msgbuffer[to] = <<msg>>
        BY <1>3, <2>0, <3>4, Zenon DEF HistoryInv, MsgTypes
      <4> HIDE DEF sent
      <4>2. <<msg>> # << >> /\ Head(<<msg>>) = msg /\ Tail(<<msg>>) = << >>
        OBVIOUS
      <4>3. receive(sent, to) = [sent EXCEPT !.userbuf[to] = msg, !.msgbuffer[to] = << >>]
        BY <4>1, <4>2, Zenon DEF receive
      <4> DEFINE full == [m.msgbuffer EXCEPT ![to] = <<msg>>]
      <4>4. sent = [msgbuffer |-> full, msg_waitbuf |-> m.msg_waitbuf, userbuf |-> m.userbuf,
                    mapped |-> m.mapped]
        BY <3>4, Zenon DEF HistoryInv, MsgTypes
      <4>a. [full EXCEPT ![to] = << >>] = [m.msgbuffer EXCEPT ![to] = << >>]
        BY <1>3, <2>0, Zenon
      <4> HIDE DEF full
      <4> QED
        BY <4>3, <4>4, <4>a, Zenon
    <3>6. m' = [msgbuffer |-> [m.msgbuffer EXCEPT ![to] = << >>],
                msg_waitbuf |-> [m.msg_waitbuf EXCEPT ![to] = FALSE],
                userbuf |-> [m.userbuf EXCEPT ![to] = msg], mapped |-> m.mapped - 1]
      <4> DEFINE x == [m.msgbuffer EXCEPT ![to] = << >>]
                 y == [m.userbuf EXCEPT ![to] = msg]
      <4> HIDE DEF x, y
      <4>1. receive(sent, to) = [msgbuffer |-> x, msg_waitbuf |-> m.msg_waitbuf, userbuf |-> y,
                                 mapped |-> m.mapped]
        BY <3>5, Zenon DEF x, y
      <4>2. m' = [msgbuffer |-> x, msg_waitbuf |-> [m.msg_waitbuf EXCEPT ![to] = FALSE],
                  userbuf |-> y, mapped |-> m.mapped - 1]
        <5> DEFINE g == receive(sent, to)
                   one == g.mapped - 1
        <5>1. m' = [[g EXCEPT !.msg_waitbuf[to] = FALSE] EXCEPT !.mapped = one]
          BY <3>1, Zenon
        <5>2. one = m.mapped - 1 /\ g.msg_waitbuf = m.msg_waitbuf
          BY <4>1
        <5>3. g = [msgbuffer |-> x, msg_waitbuf |-> m.msg_waitbuf, userbuf |-> y,
                   mapped |-> m.mapped]
          BY <4>1
        <5> HIDE DEF g, one
        <5>4. m' = [msgbuffer |-> x, msg_waitbuf |-> [m.msg_waitbuf EXCEPT ![to] = FALSE],
                    userbuf |-> y, mapped |-> one]
          BY <5>1, <5>3, Zenon
        <5> QED
          BY <5>2, <5>4, Zenon
      <4> QED
        BY <4>2, Zenon DEF x, y
    <3>7. /\ m'.msgbuffer[to] = << >> /\ m'.msg_waitbuf[to] = FALSE /\ m'.userbuf[to] = msg
          /\ \A p \in Slot : p # to => /\ m'.msgbuffer[p] = m.msgbuffer[p]
                                       /\ m'.msg_waitbuf[p] = m.msg_waitbuf[p]
      BY <1>3, <2>0, <3>6, Zenon
    <3>8. MsgTypes'
      <4>1. [m.msgbuffer EXCEPT ![to] = << >>] \in [Slot -> Seq(Nat)] /\ m.mapped - 1 \in Int
        <5>1. << >> \in Seq(Nat) /\ m.mapped - 1 \in Int
          BY <1>3
        <5> QED
          BY <1>3, <5>1, Zenon
      <4>3. [m.userbuf EXCEPT ![to] = msg] \in [Slot -> Nat \cup {NoMsg}]
        <5> DEFINE X == Nat \cup {NoMsg}
        <5>1. m.userbuf \in [Slot -> X] /\ msg \in X
          BY <1>3, <1>4, Zenon
        <5> HIDE DEF X
        <5>2. [m.userbuf EXCEPT ![to] = msg] \in [Slot -> X]
          BY <5>1, Zenon
        <5> QED
          BY <5>2, Zenon DEF X
      <4>2. [m.msg_waitbuf EXCEPT ![to] = FALSE] \in [Slot -> BOOLEAN]
        BY <1>3, Zenon
      <4> QED
        BY <3>6, <4>1, <4>2, <4>3 DEF MsgTypes
    <3>9. h' = [accepted |-> [h.accepted EXCEPT ![to] = Append(@, msg)],
                inbox |-> [h.inbox EXCEPT ![to] = Append(@, msg)], sends |-> h.sends + 1]
      BY <2>1, <2>2, <3>3, <3>7, Zenon DEF HistoryInv, HistoryTypes
    <3>10. /\ HistoryTypes'
           /\ h'.accepted[to] = Append(h.accepted[to], msg)
           /\ h'.inbox[to] = Append(h.inbox[to], msg)
           /\ \A p \in Slot : p # to => /\ h'.accepted[p] = h.accepted[p]
                                        /\ h'.inbox[p] = h.inbox[p]
      <4>1. Append(h.accepted[to], msg) \in Seq(Nat) /\ Append(h.inbox[to], msg) \in Seq(Nat)
        BY <1>4, <2>0
      <4>0. h.sends + 1 \in Nat
        <5>1. h.sends \in Nat
          BY <1>4, Zenon DEF msg
        <5> QED
          BY <5>1
      <4> HIDE DEF msg
      <4>2. HistoryTypes'
        BY <1>4, <2>0, <3>9, <4>0, <4>1, Zenon DEF HistoryTypes
      <4> QED
        BY <1>4, <2>0, <3>9, <4>2, Zenon
    <3>11. h'.inbox[to] \o m'.msgbuffer[to] = h'.accepted[to]
      <4>1. h.inbox[to] \o << >> = h.accepted[to]
        BY <2>0, <3>2, Zenon DEF HistoryInv, DeliveredInOrder
      <4>2. h.inbox[to] = h.accepted[to]
        BY <1>4, <2>0, <4>1, ConcatEmptySeq, Zenon
      <4> QED
        BY <1>4, <2>0, <3>7, <3>10, <4>2, ConcatEmptySeq
    <3> DEFINE u == pm_unblock(k, to)
    <3>12. /\ IInv(u) /\ ~u.panicked
           /\ \A i \in Slot : Live(u, i) <=> Live(k, i)
           /\ \A i \in Slot : \A q \in ServiceReason : Parked(u, i, q) <=> Parked(k, i, q) /\ i # to
      <4>1. Parked(k, to, "BR_RECEIVING") /\ "BR_RECEIVING" \in ServiceReason
        BY <2>2, Zenon DEF BlockedForReceiving, Parked, ServiceReason
      <4> QED
        BY <1>0, <2>0, <4>1, UnblockStep
    <3> HIDE DEF u
    <3>13. IInv(k') /\ k'.status = u.status /\ k'.block = u.block
      BY <1>0, <3>1, <3>12, ResultInv, Zenon DEF u
    <3>14. /\ Processes'
           /\ \A p \in Slot : Live(k', p) <=> Live(k, p)
           /\ \A p \in Slot : BlockedForReceiving(p)' <=> BlockedForReceiving(p) /\ p # to
      BY <3>12, <3>13 DEF Processes, IInv, Live, Parked, ServiceReason, BlockedForReceiving
    <3> QED
      BY <2>0, <3>2, <3>7, <3>8, <3>10, <3>11, <3>14, OneReceiver, Zenon
  <2>3. CASE ~BlockedForReceiving(to)
    <3>1. m' = sent /\ k' = sc_late_result(k, k.cur_proc, 0)
      BY <2>1, <2>3, Zenon DEF ipc_send
    <3>2. /\ Processes'
          /\ \A p \in Slot : Live(k', p) <=> Live(k, p)
          /\ \A p \in Slot : BlockedForReceiving(p)' <=> BlockedForReceiving(p)
      BY <1>0, <3>1, ResultOnly, Zenon
    <3>3. CASE Accepts(to)
      <4>1. m' = [m EXCEPT !.msgbuffer[to] = Append(@, msg)]
        BY <3>1, <3>3, Zenon DEF send
      <4>2. h' = [h EXCEPT !.sends = @ + 1, !.accepted[to] = Append(@, msg), !.inbox[to] = @]
        BY <2>1, <2>3, <3>3, Zenon
      <4>3. /\ MsgTypes'
            /\ m'.msgbuffer[to] = Append(m.msgbuffer[to], msg)
            /\ m'.msg_waitbuf = m.msg_waitbuf
            /\ \A p \in Slot : p # to => m'.msgbuffer[p] = m.msgbuffer[p]
        <5>1. m' = [msgbuffer |-> [m.msgbuffer EXCEPT ![to] = Append(@, msg)],
                    msg_waitbuf |-> m.msg_waitbuf, userbuf |-> m.userbuf, mapped |-> m.mapped]
          BY <4>1, Zenon DEF HistoryInv, MsgTypes
        <5>2. [m.msgbuffer EXCEPT ![to] = Append(@, msg)] \in [Slot -> Seq(Nat)]
          BY <1>3, <1>4, <2>0
        <5> QED
          BY <1>3, <2>0, <5>1, <5>2 DEF MsgTypes
      <4>4. /\ HistoryTypes'
            /\ h'.accepted[to] = Append(h.accepted[to], msg)
            /\ h'.inbox = h.inbox
            /\ \A p \in Slot : p # to => h'.accepted[p] = h.accepted[p]
        <5>1. h' = [accepted |-> [h.accepted EXCEPT ![to] = Append(@, msg)],
                    inbox |-> h.inbox, sends |-> h.sends + 1]
          BY <1>4, <4>2, Zenon DEF HistoryInv, HistoryTypes
        <5>2. [h.accepted EXCEPT ![to] = Append(@, msg)] \in [Slot -> Seq(Nat)]
          BY <1>4, <2>0
        <5>3. h.sends + 1 \in Nat
          BY <1>4 DEF msg
        <5> HIDE DEF msg
        <5>4. HistoryTypes'
          BY <1>4, <5>1, <5>2, <5>3, Zenon DEF HistoryTypes
        <5> QED
          BY <1>4, <2>0, <5>1, <5>4, Zenon
      <4>5. Live(k, to)
        BY <3>3 DEF Accepts
      <4>6. h'.inbox[to] \o m'.msgbuffer[to] = h'.accepted[to]
        <5>1. h.inbox[to] \o m.msgbuffer[to] = h.accepted[to]
          BY <2>0, <4>5, Zenon DEF HistoryInv, DeliveredInOrder
        <5> QED
          <6>1. h.inbox[to] \in Seq(Nat) /\ m.msgbuffer[to] \in Seq(Nat)
            BY <1>3, <1>4, <2>0, Zenon
          <6>2. h.inbox[to] \o Append(m.msgbuffer[to], msg) = Append(h.inbox[to] \o m.msgbuffer[to], msg)
            <7> DEFINE a == h.inbox[to]
                       b == m.msgbuffer[to]
            <7> HIDE DEF a, b
            <7>1. a \in Seq(Nat) /\ b \in Seq(Nat) /\ msg \in Nat
              BY <1>4, <6>1, Zenon DEF a, b
            <7>2. a \o Append(b, msg) = Append(a \o b, msg)
              BY <7>1, AppendLast
            <7> QED
              BY <7>2, Zenon DEF a, b
          <6> QED
            BY <4>3, <4>4, <5>1, <6>2, Zenon
      <4>7. ~m.msg_waitbuf[to]
        BY <2>0, <2>3, <4>5, Zenon DEF HistoryInv, ReceiverWaits
      <4> QED
        BY <2>0, <2>3, <3>2, <4>3, <4>4, <4>5, <4>6, <4>7, OneReceiver, Zenon
    <3>4. CASE ~Accepts(to)
      <4>1. m' = m
        BY <3>1, <3>4 DEF send
      <4>2. h' = [h EXCEPT !.sends = @ + 1, !.accepted[to] = @, !.inbox[to] = @]
        BY <2>1, <2>3, <3>4
      <4>3. h' = [accepted |-> h.accepted, inbox |-> h.inbox, sends |-> h.sends + 1]
        BY <1>4, <4>2, Zenon DEF HistoryInv, HistoryTypes
      <4> QED
        <5>1. MsgTypes' /\ HistoryTypes'
          BY <1>4, <4>1, <4>3 DEF HistoryInv, HistoryTypes, MsgTypes, msg
        <5> QED
          BY <3>2, <4>1, <4>3, <5>1, NoReceiver, Zenon
    <3> QED
      BY <3>3, <3>4
  <2> QED
    BY <2>2, <2>3
<1> QED
  BY <1>5, <1>6, Zenon

(* sys_receive: the first message of the buffer is stored, or the caller   *)
(* begins to sleep on an empty buffer.                                     *)
LEMMA HReceiveInv ==
  ASSUME HistoryInv, HReceive
  PROVE  HistoryInv'
<1> DEFINE me == k.cur_proc
<1>0. ~k.panicked /\ IInv(k) /\ me \in Slot /\ me # IdleSlot
  BY Zenon DEF HReceive, Receive, CallingUser, Calling, HistoryInv, Processes, State
<1>1. Live(k, me) /\ ~BlockedForReceiving(me)
  BY <1>0, Zenon DEF IInv, CurInv, Live, BlockedForReceiving
<1>2. /\ m.msgbuffer \in [Slot -> Seq(Nat)] /\ m.msg_waitbuf \in [Slot -> BOOLEAN]
      /\ m.userbuf \in [Slot -> Nat \cup {NoMsg}] /\ m.mapped \in Int
  BY Zenon DEF HistoryInv, MsgTypes
<1>3. /\ h.accepted \in [Slot -> Seq(Nat)] /\ h.inbox \in [Slot -> Seq(Nat)] /\ h.sends \in Nat
  BY Zenon DEF HistoryInv, HistoryTypes
<1>4. PICK block \in BOOLEAN : ipc_receive(block)
  BY DEF HReceive, Receive
<1>5. ~m.msg_waitbuf[me] /\ h.inbox[me] \o m.msgbuffer[me] = h.accepted[me]
  BY <1>0, <1>1, Zenon DEF HistoryInv, ReceiverWaits, DeliveredInOrder
<1>6. CASE m.msgbuffer[me] # << >>
  <2>1. m' = receive(m, me) /\ k' = sc_late_result(k, k.cur_proc, 0)
    BY <1>4, <1>6, Zenon DEF ipc_receive
  <2>2. h' = [h EXCEPT !.inbox[me] = Append(@, m'.userbuf[me])]
    BY <1>6, Zenon DEF HReceive
  <2> HIDE DEF me
  <2>3. /\ Processes'
        /\ \A p \in Slot : Live(k', p) <=> Live(k, p)
        /\ \A p \in Slot : BlockedForReceiving(p)' <=> BlockedForReceiving(p)
    BY <1>0, <2>1, ResultOnly, Zenon
  <2> DEFINE a == h.inbox[me]
             b == m.msgbuffer[me]
  <2>4. a \in Seq(Nat) /\ b \in Seq(Nat)
    BY <1>0, <1>2, <1>3
  <2>5. b # << >> /\ m' = [m EXCEPT !.userbuf[me] = Head(b), !.msgbuffer[me] = Tail(b)]
    BY <1>6, <2>1 DEF receive
  <2> HIDE DEF a, b
  <2>6. Head(b) \in Nat /\ Tail(b) \in Seq(Nat) /\ Append(a, Head(b)) \o Tail(b) = a \o b
    BY <2>4, <2>5, MoveFirst
  <2> DEFINE f == Head(b)
             g == Tail(b)
             e == Append(a, f)
  <2>7. e \in Seq(Nat)
    BY <2>4, <2>6
  <2> HIDE DEF f, g
  <2>8. m' = [msgbuffer |-> [m.msgbuffer EXCEPT ![me] = g], msg_waitbuf |-> m.msg_waitbuf,
              userbuf |-> [m.userbuf EXCEPT ![me] = f], mapped |-> m.mapped]
    BY <2>5, Zenon DEF HistoryInv, MsgTypes, f, g
  <2>9. m'.userbuf[me] = f
    BY <1>0, <1>2, <2>8
  <2>10. h' = [accepted |-> h.accepted, inbox |-> [h.inbox EXCEPT ![me] = e], sends |-> h.sends]
    BY <2>2, <2>9, Zenon DEF HistoryInv, HistoryTypes, a
  <2> HIDE DEF e
  <2>11. MsgTypes'
    <3>1. [m.msgbuffer EXCEPT ![me] = g] \in [Slot -> Seq(Nat)]
      BY <1>2, <2>6, Zenon DEF g
    <3> DEFINE X == Nat \cup {NoMsg}
    <3>2. m.userbuf \in [Slot -> X] /\ f \in X
      BY <1>2, <2>6, Zenon DEF f
    <3> HIDE DEF X
    <3>3. [m.userbuf EXCEPT ![me] = f] \in [Slot -> X]
      BY <3>2, Zenon
    <3> QED
      BY <1>2, <2>8, <3>1, <3>3 DEF MsgTypes, X
  <2>12. HistoryTypes'
    <3>1. [h.inbox EXCEPT ![me] = e] \in [Slot -> Seq(Nat)]
      BY <1>3, <2>7, Zenon
    <3> QED
      BY <1>3, <2>10, <3>1 DEF HistoryTypes
  <2>13. /\ m'.msgbuffer[me] = g /\ h'.inbox[me] = e /\ h'.accepted[me] = h.accepted[me]
         /\ m'.msg_waitbuf[me] = m.msg_waitbuf[me]
         /\ \A p \in Slot : p # me =>
              /\ m'.msgbuffer[p] = m.msgbuffer[p] /\ m'.msg_waitbuf[p] = m.msg_waitbuf[p]
              /\ h'.accepted[p] = h.accepted[p] /\ h'.inbox[p] = h.inbox[p]
    BY <1>0, <1>2, <1>3, <2>8, <2>10, Zenon
  <2>14. h'.inbox[me] \o m'.msgbuffer[me] = h'.accepted[me]
    BY <1>5, <2>6, <2>13, Zenon DEF a, b, e, f, g
  <2> QED
    BY <1>0, <1>1, <1>5, <2>3, <2>11, <2>12, <2>13, <2>14, OneReceiver, Zenon
<1>7. CASE m.msgbuffer[me] = << >> /\ block
  <2>1. /\ m' = [m EXCEPT !.msg_waitbuf[me] = TRUE, !.mapped = @ + 1]
        /\ k' = sc_late_result(pm_block(k, me, "BR_RECEIVING"), me, 0)
        /\ h' = h
    BY <1>4, <1>7 DEF ipc_receive, HReceive
  <2>2. /\ IInv(k')
        /\ \A i \in Slot : Live(k', i) <=> Live(k, i)
        /\ \A i \in Slot : \A q \in ServiceReason :
             Parked(k', i, q) <=> Parked(k, i, q) \/ (i = me /\ q = "BR_RECEIVING")
    <3>1. "BR_RECEIVING" \in ServiceReason
      BY Zenon DEF ServiceReason
    <3> QED
      BY <1>0, <2>1, <3>1, BlockStep
  <2> HIDE DEF me
  <2>3. /\ Processes'
        /\ \A p \in Slot : BlockedForReceiving(p)' <=> BlockedForReceiving(p) \/ p = me
    BY <2>2, Zenon DEF Processes, IInv, Parked, ServiceReason, BlockedForReceiving
  <2>4. m' = [msgbuffer |-> m.msgbuffer, msg_waitbuf |-> [m.msg_waitbuf EXCEPT ![me] = TRUE],
              userbuf |-> m.userbuf, mapped |-> m.mapped + 1]
    BY <1>2, <2>1, Zenon DEF HistoryInv, MsgTypes
  <2>5. MsgTypes'
    <3>1. [m.msg_waitbuf EXCEPT ![me] = TRUE] \in [Slot -> BOOLEAN]
      BY <1>2, Zenon
    <3> QED
      BY <1>2, <2>4, <3>1 DEF MsgTypes
  <2>6. HistoryTypes'
    BY <2>1, Zenon DEF HistoryInv, HistoryTypes
  <2>7. /\ m'.msgbuffer[me] = << >> /\ m'.msg_waitbuf[me] = TRUE
        /\ \A p \in Slot : p # me =>
              m'.msgbuffer[p] = m.msgbuffer[p] /\ m'.msg_waitbuf[p] = m.msg_waitbuf[p]
    BY <1>0, <1>2, <1>7, <2>4
  <2>8. h'.inbox[me] \o m'.msgbuffer[me] = h'.accepted[me]
    BY <1>5, <1>7, <2>1, <2>7, Zenon
  <2> QED
    BY <1>0, <1>1, <2>1, <2>2, <2>3, <2>5, <2>6, <2>7, <2>8, OneReceiver, Zenon
<1>8. CASE m.msgbuffer[me] = << >> /\ ~block
  <2>1. m' = [m EXCEPT !.mapped = @ + 1] /\ k' = sc_late_result(k, k.cur_proc, 0) /\ h' = h
    BY <1>4, <1>8, Zenon DEF ipc_receive, HReceive
  <2>2. /\ Processes'
        /\ \A p \in Slot : Live(k', p) <=> Live(k, p)
        /\ \A p \in Slot : BlockedForReceiving(p)' <=> BlockedForReceiving(p)
    BY <1>0, <2>1, ResultOnly, Zenon
  <2>3. m' = [msgbuffer |-> m.msgbuffer, msg_waitbuf |-> m.msg_waitbuf,
              userbuf |-> m.userbuf, mapped |-> m.mapped + 1]
    BY <1>2, <2>1, Zenon DEF HistoryInv, MsgTypes
  <2>4. MsgTypes'
    BY <1>2, <2>3 DEF MsgTypes
  <2>5. HistoryTypes'
    BY <2>1, Zenon DEF HistoryTypes, HistoryInv
  <2> QED
    BY <2>1, <2>2, <2>3, <2>4, <2>5, NoReceiver
<1> QED
  BY <1>6, <1>7, <1>8, Zenon

(* Every step keeps the inductive invariant of messages.                   *)
LEMMA HistoryStepInv ==
  ASSUME Counting, HistoryInv, [HistoryNext]_historyVars
  PROVE  HistoryInv'
<1>1. CASE HProcessStep
  BY <1>1, HProcessInv
<1>2. CASE HSend
  BY <1>2, HSendInv
<1>3. CASE HReceive
  BY <1>3, HReceiveInv, Zenon
<1>4. CASE UNCHANGED historyVars
  <2>1. k' = k /\ m' = m /\ h' = h
    BY <1>4, Zenon DEF historyVars
  <2>2. Processes' /\ MsgTypes' /\ HistoryTypes'
    BY <2>1, Zenon DEF HistoryInv, Processes, MsgTypes, HistoryTypes
  <2>3. \A p \in Slot : BlockedForReceiving(p)' <=> BlockedForReceiving(p)
    BY <2>1, Zenon DEF BlockedForReceiving
  <2> QED
    BY <2>1, <2>2, <2>3, NoReceiver, Zenon
<1> QED
  BY <1>1, <1>2, <1>3, <1>4, Zenon DEF HistoryNext
-----------------------------------------------------------------------------
(* Sleep.                                                                  *)

(* The loop of timer_irq over procs[], as an equation.                     *)
Woken1(s, wake, f, n) ==
  IF n = 0 THEN s ELSE IF n - 1 \in wake THEN pm_unblock(f[n - 1], n - 1) ELSE f[n - 1]

(* The loop has a value after every turn.                                  *)
LEMMA UnblockedTurns ==
  ASSUME Counting, NEW s, NEW wake
  PROVE  \E f : /\ \A n \in 0 .. MAX_PROCS : f[n] = Woken1(s, wake, f, n)
                /\ Unblocked(s, wake) = f[MAX_PROCS]
<1> DEFINE M == MAX_PROCS
           F(f, N) == [n \in 0 .. N |-> Woken1(s, wake, f, n)]
           T == {N \in 0 .. M : ~\E f : f = F(f, N)}
<1>0. M \in Nat
  BY ConstantsAssumption, Zenon
<1>1. T = {}
  <2>1. SUFFICES ASSUME T # {} PROVE FALSE
    OBVIOUS
  <2>2. PICK N \in T : \A i \in T : N <= i
    <3>1. T \subseteq Nat
      BY <1>0
    <3> HIDE DEF T
    <3> QED
      BY <2>1, <3>1, Zenon DEF Counting, LeastNumber
  <2>3. N \in 0 .. M /\ ~\E f : f = F(f, N)
    BY <2>2, Zenon
  <2>4. CASE N = 0
    <3> DEFINE g == [n \in 0 .. 0 |-> s]
    <3>1. g = F(g, 0)
      BY DEF Woken1
    <3> QED
      BY <2>3, <2>4, <3>1, Zenon
  <2>5. CASE N # 0
    <3>1. N - 1 \in 0 .. M /\ N - 1 \notin T
      BY <1>0, <2>2, <2>3, <2>5
    <3>2. PICK f : f = F(f, N - 1)
      BY <3>1, Zenon
    <3> DEFINE g == [n \in 0 .. N |-> IF n = N THEN Woken1(s, wake, f, N) ELSE f[n]]
    <3>3. \A n \in 0 .. N - 1 : f[n] = Woken1(s, wake, f, n) /\ g[n] = f[n]
      <4>1. \A n \in 0 .. N - 1 : f[n] = Woken1(s, wake, f, n)
        BY <3>2, Zenon
      <4>2. \A n \in 0 .. N - 1 : n \in 0 .. N /\ n # N
        BY <2>3, <1>0
      <4> QED
        BY <4>1, <4>2, Zenon
    <3>4. g[N] = Woken1(s, wake, f, N)
      BY <2>3, <1>0
    <3>5. ASSUME NEW n \in 0 .. N PROVE g[n] = Woken1(s, wake, g, n)
      <4>1. n # 0 => n - 1 \in 0 .. N - 1
        BY <1>0, <2>3
      <4>2. n # N => n \in 0 .. N - 1
        BY <1>0, <2>3
      <4> HIDE DEF g
      <4>3. n # 0 => g[n - 1] = f[n - 1]
        BY <3>3, <4>1, Zenon
      <4>4. Woken1(s, wake, g, n) = Woken1(s, wake, f, n)
        BY <4>3, Zenon DEF Woken1
      <4> QED
        BY <3>3, <3>4, <4>2, <4>4, Zenon
    <3>6. g = [n \in 0 .. N |-> g[n]]
      BY Zenon
    <3> HIDE DEF g
    <3>7. g = F(g, N)
      BY <3>5, <3>6, Zenon
    <3> QED
      BY <2>3, <3>7, Zenon
  <2> QED
    BY <2>4, <2>5, Zenon
<1> DEFINE walk == CHOOSE f : f = F(f, M)
<1>2. \E f : f = F(f, M)
  BY <1>0, <1>1
<1>3. walk = F(walk, M)
  <2> HIDE DEF F
  <2> QED
    BY <1>2, Zenon
<1>4. Unblocked(s, wake) = walk[M]
  BY DEF Unblocked, Woken1
<1> HIDE DEF walk
<1>5. \A n \in 0 .. M : walk[n] = Woken1(s, wake, walk, n)
  BY <1>3, Zenon
<1> QED
  BY <1>4, <1>5

(* The loop ends the sleep of the processes in wake, and of no other.      *)
LEMMA UnblockedInv ==
  ASSUME Counting, NEW s, IInv(s), ~s.panicked, NEW r \in ServiceReason,
         NEW wake, \A i \in wake : i \in Slot /\ Parked(s, i, r),
         NEW u, u = Unblocked(s, wake)
  PROVE  /\ IInv(u) /\ ~u.panicked
         /\ \A i \in Slot : Live(u, i) <=> Live(s, i)
         /\ \A i \in Slot : \A q \in ServiceReason :
              Parked(u, i, q) <=> Parked(s, i, q) /\ i \notin wake
<1>0. MAX_PROCS \in Nat
  BY ConstantsAssumption, Zenon
<1>1. PICK f : /\ \A n \in 0 .. MAX_PROCS : f[n] = Woken1(s, wake, f, n)
               /\ u = f[MAX_PROCS]
  BY UnblockedTurns, Zenon
<1> DEFINE P(n) == /\ IInv(f[n]) /\ ~f[n].panicked
                   /\ \A i \in Slot : Live(f[n], i) <=> Live(s, i)
                   /\ \A i \in Slot : \A q \in ServiceReason :
                        Parked(f[n], i, q) <=> Parked(s, i, q) /\ ~(i \in wake /\ i < n)
           T == {n \in 0 .. MAX_PROCS : ~P(n)}
<1>2. P(0)
  <2>1. f[0] = s
    BY <1>0, <1>1 DEF Woken1
  <2>2. \A i \in Slot : ~(i < 0)
    BY DEF Slot
  <2> QED
    BY <2>1, <2>2, Zenon
<1>3. ASSUME NEW n \in 1 .. MAX_PROCS, P(n - 1) PROVE P(n)
  <2> DEFINE x == f[n - 1]
             w == n - 1
  <2>0. w \in Slot /\ n \in 0 .. MAX_PROCS /\ n # 0
    BY <1>0 DEF Slot
  <2>1. f[n] = IF w \in wake THEN pm_unblock(x, w) ELSE x
    BY <1>1, <2>0, Zenon DEF Woken1
  <2>2. \A i \in Slot : i < n <=> i < w \/ i = w
    BY <1>0 DEF Slot
  <2>3. /\ IInv(x) /\ ~x.panicked
        /\ \A i \in Slot : Live(x, i) <=> Live(s, i)
        /\ \A i \in Slot : \A q \in ServiceReason :
             Parked(x, i, q) <=> Parked(s, i, q) /\ ~(i \in wake /\ i < w)
    BY <1>3, Zenon
  <2>a. ~(w < w)
    BY <2>0 DEF Slot
  <2> HIDE DEF x, w
  <2>4. CASE w \in wake
    <3>1. Parked(x, w, r)
      BY <2>0, <2>3, <2>4, <2>a, Zenon
    <3>2. /\ IInv(f[n]) /\ ~f[n].panicked
          /\ \A i \in Slot : Live(f[n], i) <=> Live(x, i)
          /\ \A i \in Slot : \A q \in ServiceReason :
               Parked(f[n], i, q) <=> Parked(x, i, q) /\ i # w
      BY <2>0, <2>1, <2>3, <2>4, <3>1, UnblockStep
    <3> QED
      BY <2>2, <2>3, <2>4, <3>2, Zenon
  <2>5. CASE w \notin wake
    BY <2>1, <2>2, <2>3, <2>5, Zenon
  <2> QED
    BY <2>4, <2>5, Zenon
<1> HIDE DEF P
<1>4. P(MAX_PROCS)
  <2>1. SUFFICES ASSUME T # {} PROVE FALSE
    BY <1>0
  <2>2. PICK n \in T : \A i \in T : n <= i
    <3>1. T \subseteq Nat
      BY <1>0
    <3> HIDE DEF T
    <3> QED
      BY <2>1, <3>1, Zenon DEF Counting, LeastNumber
  <2>3. n # 0
    BY <1>2, <2>2, Zenon
  <2>4. n \in 1 .. MAX_PROCS /\ n - 1 \in 0 .. MAX_PROCS /\ n - 1 \notin T
    BY <1>0, <2>2, <2>3
  <2>5. P(n)
    BY <1>3, <2>4, Zenon
  <2> QED
    BY <2>2, <2>5, Zenon
<1>5. \A i \in Slot : i < MAX_PROCS
  BY <1>0 DEF Slot
<1> QED
  BY <1>1, <1>4, <1>5, Zenon DEF P

(* next_wakeup is computed over a set with a least member.                 *)
LEMMA EarliestIsLeast ==
  ASSUME Counting, NEW S, S \subseteq Nat, S # {}
  PROVE  Earliest(S) \in S /\ \A y \in S : Earliest(S) <= y
<1>1. PICK x \in S : \A y \in S : x <= y
  BY Zenon DEF Counting, LeastNumber
<1> QED
  BY <1>1, Zenon DEF Earliest

(* A dword holds every wake-up time: 2^32 ticks are not reached.  The      *)
(* product in timer_sleep may still overflow.                              *)
NoWrap == \A msec \in Sleeps : MaxTicks + Ticks(msec) < DwordMod

(* The sleeps that timer_sleep converts without loss: whole ticks, with a  *)
(* product that a dword holds.                                             *)
WholeTicks == \A msec \in Sleeps : Ticks(msec) * MSEC = msec * TIMER_HZ

TimerTypes ==
  t \in [timer_ticks : Nat, next_wakeup : Nat, wakeup : [Slot -> Nat], due : [Slot -> Nat]]

(* The inductive invariant: no process runs before the first tick, so that *)
(* zero is nobody's wake-up time, and next_wakeup is never too late.       *)
TimerInv ==
  /\ IInv(k)
  /\ TimerTypes
  /\ t.timer_ticks <= MaxTicks
  /\ t.timer_ticks = 0 => k.cur_proc = IdleSlot
  /\ WakeupMeansSleeping
  /\ \A p \in Slot : Sleeping(k, p) =>
       /\ t.wakeup[p] * MSEC <= t.due[p]
       /\ WholeTicks => t.wakeup[p] * MSEC = t.due[p]
       /\ t.timer_ticks <= t.wakeup[p]
       /\ t.next_wakeup <= t.wakeup[p]

(* No step ends a sleep before the wake-up time that was stored for it.    *)
WakesInTime ==
  \A p \in Slot : Sleeping(k, p) /\ ~Sleeping(k', p) => t'.timer_ticks >= t.wakeup[p]

(* Rounding down and overflowing make a sleep shorter, never longer.       *)
LEMMA TicksShort ==
  ASSUME NEW msec \in Sleeps
  PROVE  Ticks(msec) \in Nat /\ msec * TIMER_HZ \in Nat /\ Ticks(msec) * MSEC <= msec * TIMER_HZ
<1> DEFINE x == msec * TIMER_HZ
           y == x % DwordMod
           z == y \div MSEC
<1>1. msec \in Nat /\ TIMER_HZ \in Nat /\ DwordMod \in Nat \ {0} /\ MSEC \in Nat \ {0}
  BY TimerAssumption
<1>2. x \in Nat
  BY <1>1
<1> HIDE DEF x
<1>3. y \in Nat /\ y <= x
  BY <1>1, <1>2
<1> HIDE DEF y
<1>4. z \in Nat /\ MSEC * z <= y
  BY <1>1, <1>3
<1> HIDE DEF z
<1>5. z * MSEC = MSEC * z
  BY <1>1, <1>4
<1>6. z * MSEC <= x
  BY <1>1, <1>2, <1>3, <1>4, <1>5
<1> QED
  BY <1>2, <1>4, <1>6 DEF Ticks, x, y, z

LEMMA TimesMonotone ==
  ASSUME NEW a \in Nat, NEW b \in Nat, NEW c \in Nat, a <= b
  PROVE  a * c \in Nat /\ a * c <= b * c
<1>1. PICK d \in Nat : b = a + d
  BY b = a + (b - a), b - a \in Nat
<1>2. b * c = a * c + d * c /\ d * c \in Nat /\ a * c \in Nat
  BY <1>1
<1> HIDE <1>1
<1> QED
  BY <1>2

(* pm_update in timer_irq always schedules, the current process being      *)
(* PS_RUNNING or blocked.                                                  *)
LEMMA UpdateStep ==
  ASSUME NEW s, IInv(s), ~s.panicked, NEW koop_mode \in BOOLEAN
  PROVE  /\ IInv(pm_update(s, koop_mode))
         /\ \A i \in Slot : Live(pm_update(s, koop_mode), i) <=> Live(s, i)
         /\ SameParked(pm_update(s, koop_mode), s)
<1>1. s.status[s.cur_proc] # "PS_READY"
  BY DEF IInv, CurInv
<1>2. pm_update(s, koop_mode) = pm_schedule(s)
  BY <1>1, Zenon DEF pm_update
<1> QED
  BY <1>2, ScheduleInv, Zenon

(* Nobody sleeps when the kernel starts.                                   *)
LEMMA TimerInitInv == Init /\ init_timer => TimerInv
<1> SUFFICES ASSUME Init, init_timer PROVE TimerInv
  BY Zenon
<1>1. IInv(k)
  BY InitInv, Zenon
<1>2. /\ t.timer_ticks = 0 /\ 0 <= MaxTicks
      /\ \A p \in Slot : t.wakeup[p] = 0
  BY TimerAssumption DEF init_timer
<1>3. TimerTypes
  BY TimerAssumption DEF init_timer, TimerTypes, ULLONG_MAX
<1>4. k.cur_proc = IdleSlot /\ \A p \in Slot : ~Sleeping(k, p)
  BY Zenon DEF Init, IdleSlot, Sleeping, Slot
<1> QED
  BY <1>1, <1>2, <1>3, <1>4 DEF TimerInv, WakeupMeansSleeping

(* timer_sleep: the caller's wake-up time is not zero and not before       *)
(* next_wakeup.                                                            *)
LEMMA SleepInv ==
  ASSUME NoWrap, TimerInv, Sleep
  PROVE  TimerInv' /\ WakesInTime
<1> DEFINE me == k.cur_proc
<1>0. ~k.panicked /\ IInv(k) /\ me \in Slot /\ me # IdleSlot
  BY Zenon DEF Sleep, CallingUser, Calling, TimerInv, IInv, State
<1>1. PICK msec \in Sleeps : timer_sleep(msec)
  BY Zenon DEF Sleep
<1> DEFINE ticks == Ticks(msec)
           asked == msec * TIMER_HZ
           due == t.timer_ticks * MSEC + asked
<1>a. ticks \in Nat /\ asked \in Nat /\ ticks * MSEC <= asked /\ MSEC \in Nat /\ MaxTicks + ticks < DwordMod
  BY TicksShort, TimerAssumption, Zenon DEF NoWrap
<1>b. WholeTicks => ticks * MSEC = asked
  BY Zenon DEF WholeTicks
<1>2. /\ t.timer_ticks \in Nat /\ t.next_wakeup \in Nat /\ t.timer_ticks <= MaxTicks
      /\ t.wakeup \in [Slot -> Nat] /\ t.due \in [Slot -> Nat] /\ t.timer_ticks # 0
  BY <1>0, Zenon DEF TimerInv, TimerTypes
<1> DEFINE at == t.timer_ticks + ticks
           nxt == IF t.next_wakeup > at THEN at ELSE t.next_wakeup
<1>c. ticks \in Nat
  BY <1>a
<1> HIDE DEF ticks, asked
<1>3. /\ at \in Nat /\ at < DwordMod /\ at # 0 /\ t.timer_ticks <= at
      /\ DwordMod \in Nat
  BY <1>2, <1>a, TimerAssumption
<1>d. due \in Nat /\ at * MSEC <= due /\ (WholeTicks => at * MSEC = due)
  <2>1. at * MSEC = t.timer_ticks * MSEC + ticks * MSEC /\ t.timer_ticks * MSEC \in Nat /\ ticks * MSEC \in Nat
    BY <1>2, <1>a
  <2> QED
    BY <1>a, <1>b, <2>1
<1>4. at % DwordMod = at
  <2> HIDE DEF at
  <2> QED
    BY <1>3
<1>5. /\ k' = sc_late_result(pm_block(k, me, "BR_SLEEPING"), me, 0)
      /\ t' = [t EXCEPT !.wakeup[me] = at, !.next_wakeup = nxt, !.due[me] = due]
  BY <1>1, <1>4, Zenon DEF timer_sleep, ticks, asked
<1>6. nxt \in Nat /\ nxt <= at /\ nxt <= t.next_wakeup
  BY <1>2, <1>3
<1>7. /\ IInv(k') /\ ~k'.panicked
      /\ \A i \in Slot : \A q \in ServiceReason :
           Parked(k', i, q) <=> Parked(k, i, q) \/ (i = me /\ q = "BR_SLEEPING")
  <2>1. "BR_SLEEPING" \in ServiceReason
    BY Zenon DEF ServiceReason
  <2> QED
    BY <1>0, <1>5, <2>1, BlockStep
<1> HIDE DEF me, at, nxt, due
<1>8. \A i \in Slot : Sleeping(k', i) <=> Sleeping(k, i) \/ i = me
  BY <1>7 DEF Sleeping, Parked, ServiceReason
<1>9. t' = [timer_ticks |-> t.timer_ticks, next_wakeup |-> nxt,
            wakeup |-> [t.wakeup EXCEPT ![me] = at], due |-> [t.due EXCEPT ![me] = due]]
  BY <1>5, Zenon DEF TimerInv, TimerTypes
<1>10. TimerTypes'
  <2>1. [t.wakeup EXCEPT ![me] = at] \in [Slot -> Nat] /\ [t.due EXCEPT ![me] = due] \in [Slot -> Nat]
    BY <1>2, <1>3, <1>d, Zenon
  <2> QED
    BY <1>2, <1>6, <1>9, <2>1 DEF TimerTypes
<1>11. /\ t'.timer_ticks = t.timer_ticks /\ t'.next_wakeup = nxt
       /\ t'.wakeup[me] = at /\ t'.due[me] = due
       /\ \A i \in Slot : i # me => t'.wakeup[i] = t.wakeup[i] /\ t'.due[i] = t.due[i]
  BY <1>0, <1>2, <1>9, Zenon
<1>12. WakeupMeansSleeping'
  <2>1. \A i \in Slot : t'.wakeup[i] # 0 <=> Sleeping(k', i)
    BY <1>3, <1>8, <1>11, Zenon DEF TimerInv, WakeupMeansSleeping
  <2> QED
    BY <2>1, Zenon DEF WakeupMeansSleeping, Sleeping
<1>13. ASSUME NEW i \in Slot, Sleeping(k', i)
       PROVE  /\ t'.wakeup[i] * MSEC <= t'.due[i] /\ (WholeTicks => t'.wakeup[i] * MSEC = t'.due[i])
              /\ t'.timer_ticks <= t'.wakeup[i] /\ t'.next_wakeup <= t'.wakeup[i]
  <2>1. CASE i = me
    BY <1>3, <1>6, <1>d, <1>11, <2>1, Zenon
  <2>2. CASE i # me
    <3>1. /\ t.wakeup[i] * MSEC <= t.due[i] /\ (WholeTicks => t.wakeup[i] * MSEC = t.due[i])
          /\ t.timer_ticks <= t.wakeup[i] /\ t.next_wakeup <= t.wakeup[i] /\ t.wakeup[i] \in Nat
      BY <1>2, <1>8, <1>13, <2>2, Zenon DEF TimerInv
    <3> QED
      BY <1>2, <1>6, <1>11, <2>2, <3>1
  <2> QED
    BY <2>1, <2>2, Zenon
<1>14. WakesInTime
  BY <1>8, Zenon DEF WakesInTime
<1> QED
  BY <1>2, <1>7, <1>10, <1>11, <1>12, <1>13, <1>14, Zenon DEF TimerInv, Sleeping

(* The other steps of the process manager begin and end no sleep.          *)
LEMMA TimerProcessInv ==
  ASSUME Counting, TimerInv, TimerProcessStep
  PROVE  TimerInv' /\ WakesInTime
<1>1. Next
  BY Zenon DEF TimerProcessStep, Next
<1>2. IInv(k') /\ SameParked(k', k)
  BY <1>1, StepInv, Zenon DEF TimerInv
<1>3. \A i \in Slot : Sleeping(k', i) <=> Sleeping(k, i)
  BY <1>2 DEF SameParked, Parked, ServiceReason, Sleeping
<1> DEFINE w == [i \in Slot |-> IF ~Live(k, i) /\ Live(k', i) THEN 0 ELSE t.wakeup[i]]
<1>4. t' = [t EXCEPT !.wakeup = w]
  BY Zenon DEF TimerProcessStep
<1>5. t.wakeup \in [Slot -> Nat] /\ w \in [Slot -> Nat]
  BY Zenon DEF TimerInv, TimerTypes
<1>6. \A i \in Slot : w[i] = t.wakeup[i]
  <2>1. ASSUME NEW i \in Slot, ~Live(k, i) PROVE t.wakeup[i] = 0
    BY <2>1, Zenon DEF TimerInv, WakeupMeansSleeping, Live, Sleeping
  <2> QED
    BY <1>5, <2>1, Zenon
<1> HIDE DEF w
<1>7. w = t.wakeup
  BY <1>5, <1>6
<1>8. t' = t
  BY <1>4, <1>7, Zenon DEF TimerInv, TimerTypes
<1>9. t.timer_ticks = 0 => k'.cur_proc = IdleSlot
  <2>1. SUFFICES ASSUME k.cur_proc = IdleSlot PROVE k' = k
    BY Zenon DEF TimerInv
  <2> QED
    BY <2>1, Zenon DEF TimerProcessStep, Yield, Exit, Waitpid, Fork, Execute, NotExecuted, Abort, Halted,
                CallingUser, Calling
<1>10. WakeupMeansSleeping'
  BY <1>3, <1>8, Zenon DEF TimerInv, WakeupMeansSleeping
<1>11. TimerTypes'
  BY <1>8, Zenon DEF TimerInv, TimerTypes
<1> QED
  BY <1>2, <1>3, <1>8, <1>9, <1>10, <1>11 DEF TimerInv, WakesInTime

(* timer_irq: when it wakes anybody, it wakes everybody who is due, and    *)
(* leaves in next_wakeup the time of the first of the others.              *)
LEMMA TimerIrqInv ==
  ASSUME Counting, TimerInv, TimerIrq
  PROVE  TimerInv' /\ WakesInTime
<1> DEFINE now == t.timer_ticks + 1
           wake == {p \in Slot : t.wakeup[p] # 0 /\ t.wakeup[p] <= now}
           rest == {t.wakeup[p] : p \in {q \in Slot : t.wakeup[q] > now}}
<1>0. ~k.panicked /\ IInv(k) /\ t.timer_ticks < MaxTicks
  BY Zenon DEF TimerIrq, TimerInv
<1>1. PICK koop_mode \in BOOLEAN : timer_irq(koop_mode)
  BY Zenon DEF TimerIrq
<1>2. /\ t.timer_ticks \in Nat /\ t.next_wakeup \in Nat /\ t.wakeup \in [Slot -> Nat]
      /\ t.due \in [Slot -> Nat] /\ MaxTicks \in Nat /\ DwordMod \in Nat
  BY TimerAssumption, Zenon DEF TimerInv, TimerTypes
<1>3. now \in Nat /\ now # 0 /\ now <= MaxTicks
  BY <1>0, <1>2
<1>4. \A p \in Slot : /\ t.wakeup[p] # 0 <=> Sleeping(k, p)
                      /\ Sleeping(k, p) => /\ t.wakeup[p] * MSEC <= t.due[p]
                                           /\ WholeTicks => t.wakeup[p] * MSEC = t.due[p]
                                           /\ t.next_wakeup <= t.wakeup[p]
                      /\ t.wakeup[p] \in Nat
  BY <1>2, Zenon DEF TimerInv, WakeupMeansSleeping
<1>5. CASE now < t.next_wakeup
  <2>1. k' = pm_update(k, koop_mode) /\ t' = [t EXCEPT !.timer_ticks = now]
    BY <1>1, <1>5 DEF timer_irq
  <2>2. IInv(k') /\ SameParked(k', k)
    BY <1>0, <2>1, UpdateStep, Zenon
  <2>3. \A i \in Slot : Sleeping(k', i) <=> Sleeping(k, i)
    BY <2>2 DEF SameParked, Parked, ServiceReason, Sleeping
  <2> HIDE DEF now
  <2>4. t' = [timer_ticks |-> now, next_wakeup |-> t.next_wakeup, wakeup |-> t.wakeup,
              due |-> t.due]
    BY <2>1, Zenon DEF TimerInv, TimerTypes
  <2>5. TimerTypes'
    BY <1>2, <1>3, <2>4, Zenon DEF TimerTypes
  <2>6. WakeupMeansSleeping'
    BY <1>4, <2>3, <2>4, Zenon DEF WakeupMeansSleeping
  <2>7. ASSUME NEW p \in Slot, Sleeping(k', p)
        PROVE  /\ t'.wakeup[p] * MSEC <= t'.due[p] /\ (WholeTicks => t'.wakeup[p] * MSEC = t'.due[p])
                /\ t'.timer_ticks <= t'.wakeup[p] /\ t'.next_wakeup <= t'.wakeup[p]
    BY <1>2, <1>3, <1>4, <1>5, <2>3, <2>4, <2>7
  <2> QED
    BY <1>3, <2>2, <2>3, <2>4, <2>5, <2>6, <2>7 DEF TimerInv, WakesInTime
<1>6. CASE ~(now < t.next_wakeup)
  <2> DEFINE u == Unblocked(k, wake)
             nxt == Earliest(rest \cup {ULLONG_MAX})
             ww == [p \in Slot |-> IF p \in wake THEN 0 ELSE t.wakeup[p]]
  <2>1. /\ k' = pm_update(u, koop_mode)
        /\ t' = [t EXCEPT !.timer_ticks = now, !.next_wakeup = nxt, !.wakeup = ww]
    BY <1>1, <1>6, Zenon DEF timer_irq
  <2>2. \A i \in wake : i \in Slot /\ Parked(k, i, "BR_SLEEPING")
    BY <1>4, Zenon DEF Sleeping, Parked
  <2>a. \A i \in Slot : i \in wake <=> t.wakeup[i] # 0 /\ t.wakeup[i] <= now
    BY Zenon
  <2>3. /\ nxt \in Nat /\ \A y \in rest : nxt <= y
    <3> DEFINE S == rest \cup {ULLONG_MAX}
    <3>1. S \subseteq Nat /\ S # {}
      BY <1>2 DEF ULLONG_MAX
    <3>2. rest \subseteq S
      OBVIOUS
    <3> HIDE DEF S, rest
    <3>3. Earliest(S) \in S /\ \A y \in S : Earliest(S) <= y
      BY <3>1, EarliestIsLeast, Zenon
    <3> QED
      BY <3>1, <3>2, <3>3, Zenon DEF S
  <2>b. \A i \in Slot : t.wakeup[i] > now => t.wakeup[i] \in rest
    BY Zenon
  <2>c. ww \in [Slot -> Nat] /\ \A i \in Slot : ww[i] = IF i \in wake THEN 0 ELSE t.wakeup[i]
    BY <1>2, Zenon
  <2> HIDE DEF wake, rest, nxt, ww, now
  <2>4. /\ IInv(u) /\ ~u.panicked
        /\ \A i \in Slot : \A q \in ServiceReason :
             Parked(u, i, q) <=> Parked(k, i, q) /\ i \notin wake
    <3>1. "BR_SLEEPING" \in ServiceReason
      BY DEF ServiceReason
    <3> QED
      BY <1>0, <2>2, <3>1, UnblockedInv
  <2> HIDE DEF u
  <2>5. IInv(k') /\ SameParked(k', u)
    BY <2>1, <2>4, UpdateStep, Zenon
  <2>6. \A i \in Slot : Sleeping(k', i) <=> Sleeping(k, i) /\ i \notin wake
    BY <2>4, <2>5 DEF SameParked, Parked, ServiceReason, Sleeping
  <2>7. t' = [timer_ticks |-> now, next_wakeup |-> nxt, wakeup |-> ww, due |-> t.due]
    BY <2>1, Zenon DEF TimerInv, TimerTypes
  <2>8. TimerTypes'
    BY <1>2, <1>3, <2>3, <2>7, <2>c, Zenon DEF TimerTypes
  <2>9. WakeupMeansSleeping'
    <3>1. \A i \in Slot : t'.wakeup[i] # 0 <=> Sleeping(k', i)
      BY <1>4, <2>6, <2>7, <2>c, Zenon
    <3> QED
      BY <3>1, Zenon DEF WakeupMeansSleeping, Sleeping
  <2>10. ASSUME NEW p \in Slot, Sleeping(k', p)
         PROVE  /\ t'.wakeup[p] * MSEC <= t'.due[p] /\ (WholeTicks => t'.wakeup[p] * MSEC = t'.due[p])
                /\ t'.timer_ticks <= t'.wakeup[p] /\ t'.next_wakeup <= t'.wakeup[p]
    <3>1. /\ t.wakeup[p] # 0 /\ t.wakeup[p] * MSEC <= t.due[p] /\ p \notin wake /\ t.wakeup[p] \in Nat
          /\ WholeTicks => t.wakeup[p] * MSEC = t.due[p]
      BY <1>2, <1>4, <2>6, <2>10, Zenon
    <3>2. t.wakeup[p] > now
      BY <1>3, <2>a, <3>1
    <3>3. nxt <= t.wakeup[p]
      BY <2>3, <2>b, <3>2, Zenon
    <3> QED
      BY <1>3, <2>3, <2>7, <2>c, <3>1, <3>2, <3>3
  <2>11. WakesInTime
    <3>1. ASSUME NEW p \in Slot, Sleeping(k, p), ~Sleeping(k', p) PROVE t'.timer_ticks >= t.wakeup[p]
      BY <1>3, <1>4, <2>6, <2>7, <2>a, <3>1
    <3> QED
      BY <3>1, Zenon DEF WakesInTime
  <2> QED
    BY <1>3, <2>5, <2>7, <2>8, <2>9, <2>10, <2>11 DEF TimerInv, Sleeping
<1> QED
  BY <1>5, <1>6, Zenon

(* Every step keeps the invariant and ends no sleep early.                 *)
LEMMA TimerStepInv ==
  ASSUME Counting, NoWrap, TimerInv, [TimerNext]_timerVars
  PROVE  TimerInv' /\ WakesInTime
<1>1. CASE UNCHANGED timerVars
  <2>1. k' = k /\ t' = t
    BY <1>1, Zenon DEF timerVars
  <2> QED
    BY <2>1, Zenon DEF TimerInv, WakesInTime, TimerTypes, WakeupMeansSleeping, Sleeping
<1>2. CASE TimerIrq
  BY <1>2, TimerIrqInv, Zenon
<1>3. CASE Sleep
  BY <1>3, SleepInv, Zenon
<1>4. CASE TimerProcessStep
  BY <1>4, TimerProcessInv
<1> QED
  BY <1>1, <1>2, <1>3, <1>4, Zenon DEF TimerNext, OutOfTicks
-----------------------------------------------------------------------------
INSTANCE Counting_proofs

(* The inductive invariant holds always: the run list of pm.c is intact, pids *)
(* are unique and found, and waiters and the processes they wait for name each *)
(* other, for every table size.                                            *)
THEOREM Invariance == Spec => []IInv(k)
<1>1. Init => IInv(k)
  BY InitInv, Zenon
<1>2. IInv(k) /\ [Next]_vars => IInv(k)'
  BY StepInv, CountingHolds, Zenon
<1> QED
  BY <1>1, <1>2, PTL DEF Spec

(* The fields of the process table keep their types; in particular         *)
(* plist_head and plist_tail never leave the table.                        *)
THEOREM TypeCorrect == Spec => []TypeOK
<1>1. IInv(k) => TypeOK
  BY Zenon DEF IInv, TypeOK
<1> QED
  BY <1>1, Invariance, PTL

(* The run list always holds every runnable process, and idle, exactly     *)
(* once: pm_activate, pm_deactivate and pm_schedule lose and double no     *)
(* process, whatever the system calls and the timer do.                    *)
THEOREM RunListCorrect == Spec => []RunListExact
<1>1. ASSUME IInv(k) PROVE RunListExact
  <2>0. PICK n \in Nat \ {0} : \E q \in [1 .. n -> Slot] :
             IsRunList(k, n, q) /\ \A x \in Slot : x \in Runnable(k) <=> Among(n, q, x)
    BY <1>1, Zenon DEF IInv, ListOn
  <2>1. PICK q \in [1 .. n -> Slot] :
             IsRunList(k, n, q) /\ \A x \in Slot : x \in Runnable(k) <=> Among(n, q, x)
    BY <2>0, Zenon
  <2>2. n <= MAX_PROCS
    BY <2>1, ListLength, CountingHolds, Zenon DEF IsRunList
  <2>3. n \in 1 .. MAX_PROCS
    BY <2>2, ConstantsAssumption
  <2>4. q \in [1 .. n -> Runnable(k)]
    BY <2>1, Zenon DEF Among
  <2>5. \A p \in Runnable(k) : \E i \in 1 .. n : q[i] = p
    <3>1. Runnable(k) \subseteq Slot
      BY IdleIsSlot, Zenon DEF Runnable
    <3> QED
      BY <2>1, <3>1, Zenon DEF Among
  <2> QED
    BY <2>1, <2>3, <2>4, <2>5 DEF RunListExact
<1> QED
  BY <1>1, Invariance, PTL

(* The process whose registers the kernel restores is the head of the run  *)
(* list and the only one in PS_RUNNING.                                    *)
THEOREM CurrentCorrect == Spec => []CurrentIsHead
<1>1. IInv(k) => CurrentIsHead
  BY Zenon DEF IInv, CurInv, CurrentIsHead
<1> QED
  BY <1>1, Invariance, PTL

(* pm_get_proc never mistakes a free slot for a living process.            *)
THEOREM PidLookupCorrect == Spec => []PidLookup
<1>1. IInv(k) => PidLookup
  BY Lookup, Zenon DEF IInv, TableInv, PidLookup
<1> QED
  BY <1>1, Invariance, PTL

(* waitpid and pm_destroy lose no wake-up.                                 *)
THEOREM WaitersCorrect == Spec => []WaitersMatch
<1>1. IInv(k) => WaitersMatch
  BY ZenonT(40) DEF IInv, TableInv, WaitInv, WaitersMatch, Waiting
<1> QED
  BY <1>1, Invariance, PTL

(* The only panics are the one for a full table and the one of a load that *)
(* fails while the last failed load's trace is still at the list's end.    *)
THEOREM PanicCorrect == Spec => []PanicExplained
<1>1. IInv(k) => PanicExplained
  BY Zenon DEF IInv, PanicInv, PanicCause, PanicExplained
<1> QED
  BY <1>1, Invariance, PTL

(* A blocked waitpid ends in the step that destroys the process waited for *)
(* and returns its exit status.                                            *)
THEOREM WaitReturnsCorrect == Spec => WaitReturnsStatus
<1> DEFINE A == \A p \in Slot :
       k.status[p] = "PS_BLOCKED" /\ k.block[p] = "BR_WAIT_PROC" /\ k'.status[p] # "PS_BLOCKED" =>
         \E q \in Slot : /\ Live(k, q) /\ ~Live(k', q)
                         /\ k.pid[q] = k.wait_for[p]
                         /\ k'.eax[p] = k'.exit_status[q]
<1>1. IInv(k) /\ [Next]_vars => [A]_vars
  <2> SUFFICES ASSUME IInv(k), [Next]_vars PROVE A
    BY Zenon
  <2>1. Woken(k, k')
    BY StepInv, CountingHolds, Zenon
  <2> QED
    BY <2>1, Zenon DEF Woken, Waiting
<1> QED
  BY <1>1, Invariance, PTL DEF Spec, WaitReturnsStatus
-----------------------------------------------------------------------------
(* The inductive invariant of messages holds always.                       *)
THEOREM MessageInvariance == HistorySpec => []HistoryInv
<1>1. HistoryInit => HistoryInv
  BY HistoryInitInv, Zenon
<1>2. HistoryInv /\ [HistoryNext]_historyVars => HistoryInv'
  BY HistoryStepInv, CountingHolds, Zenon
<1> QED
  BY <1>1, <1>2, PTL DEF HistorySpec

(* A process sleeps in receive only while its buffer is empty, and exactly *)
(* the sleeping ones have an address to store the next message at: ipc_send *)
(* loses no wake-up, whatever the process manager does in between.         *)
THEOREM ReceiverWaitsCorrect == HistorySpec => []ReceiverWaits
<1>1. HistoryInv => ReceiverWaits
  BY Zenon DEF HistoryInv
<1> QED
  BY <1>1, MessageInvariance, PTL

(* Every accepted message is stored exactly once and in order, or still    *)
(* waits in the buffer, for any number of processes and any buffer size.   *)
THEOREM DeliveryCorrect == HistorySpec => []DeliveredInOrder
<1>1. HistoryInv => DeliveredInOrder
  BY Zenon DEF HistoryInv
<1> QED
  BY <1>1, MessageInvariance, PTL

(* Until the tick count wraps, no sleeper is forgotten, whatever           *)
(* next_wakeup was computed over or lowered to, and whatever became of the *)
(* milliseconds in timer_sleep: nobody still sleeps after them.            *)
THEOREM NotLateCorrect ==
  ASSUME NoWrap
  PROVE  TimerSpec => []NotLate
<1>1. Init /\ init_timer => TimerInv
  BY TimerInitInv, Zenon
<1>2. TimerInv /\ [TimerNext]_timerVars => TimerInv'
  BY TimerStepInv, CountingHolds, Zenon
<1>3. TimerInv => NotLate
  <2> SUFFICES ASSUME TimerInv, NEW p \in Slot, Sleeping(k, p)
               PROVE  t.timer_ticks * MSEC <= t.due[p]
    BY Zenon DEF NotLate
  <2>1. /\ t.timer_ticks \in Nat /\ t.wakeup[p] \in Nat /\ MSEC \in Nat /\ t.due[p] \in Nat
        /\ t.timer_ticks <= t.wakeup[p] /\ t.wakeup[p] * MSEC <= t.due[p]
    BY TimerAssumption DEF TimerInv, TimerTypes
  <2>2. t.timer_ticks * MSEC \in Nat /\ t.timer_ticks * MSEC <= t.wakeup[p] * MSEC /\ t.wakeup[p] * MSEC \in Nat
    BY <2>1, TimesMonotone
  <2> QED
    BY <2>1, <2>2
<1> QED
  BY <1>1, <1>2, <1>3, PTL DEF TimerSpec

(* Until the dword wraps, wakeup is set for sleeping processes and for no  *)
(* other: timer_irq wakes nobody from another wait.                        *)
THEOREM WakeupCorrect ==
  ASSUME NoWrap
  PROVE  TimerSpec => []WakeupMeansSleeping
<1>1. Init /\ init_timer => TimerInv
  BY TimerInitInv
<1>2. TimerInv /\ [TimerNext]_timerVars => TimerInv'
  BY TimerStepInv, CountingHolds
<1>3. TimerInv => WakeupMeansSleeping
  BY Zenon DEF TimerInv
<1> QED
  BY <1>1, <1>2, <1>3, PTL DEF TimerSpec

(* Until the tick count wraps, sleeps that the conversion to ticks keeps   *)
(* (WholeTicks; the run sleep_early shows that others end too early) last  *)
(* the milliseconds they were asked for, with every other sleep, wake-up   *)
(* and exit in between.                                                    *)
THEOREM NotEarlyCorrect ==
  ASSUME NoWrap, WholeTicks
  PROVE  TimerSpec => NotEarly
<1>1. Init /\ init_timer => TimerInv
  BY TimerInitInv
<1>2. TimerInv /\ [TimerNext]_timerVars => TimerInv'
  BY TimerStepInv, CountingHolds
<1>3. TimerInv /\ [TimerNext]_timerVars =>
        [\A p \in Slot : Sleeping(k, p) /\ ~Sleeping(k', p) => t'.timer_ticks * MSEC >= t.due[p]]_timerVars
  <2> SUFFICES ASSUME TimerInv, [TimerNext]_timerVars, NEW p \in Slot, Sleeping(k, p), ~Sleeping(k', p)
               PROVE  t'.timer_ticks * MSEC >= t.due[p]
    OBVIOUS
  <2>1. TimerInv' /\ t'.timer_ticks >= t.wakeup[p]
    BY TimerStepInv, CountingHolds DEF WakesInTime
  <2>2. /\ t'.timer_ticks \in Nat /\ t.wakeup[p] \in Nat /\ MSEC \in Nat
        /\ t.wakeup[p] * MSEC = t.due[p]
    BY <2>1, TimerAssumption DEF TimerInv, TimerTypes
  <2>3. t.wakeup[p] * MSEC <= t'.timer_ticks * MSEC /\ t.wakeup[p] * MSEC \in Nat /\ t'.timer_ticks * MSEC \in Nat
    BY <2>1, <2>2, TimesMonotone
  <2> QED
    BY <2>2, <2>3
<1> QED
  BY <1>1, <1>2, <1>3, PTL DEF TimerSpec, NotEarly
=============================================================================
