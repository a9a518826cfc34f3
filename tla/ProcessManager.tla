--------------------------- MODULE ProcessManager ---------------------------
(***************************************************************************)
(* The process manager of kOS, kernel/pm.c: the process table procs[], the *)
(* run list threaded through it, the round robin scheduler, and the system *)
(* calls that create, end and wait for processes.                          *)
(*                                                                         *)
(* The whole state is one record, k, whose fields are pm.c's variables (a  *)
(* field of struct proc is a function on the table's slots), and every     *)
(* function of pm.c is an operator from a state to a state.  A handler     *)
(* that calls several of them is their composition, in the code's order.   *)
(* Here a handler is one step: no interrupt arrives inside it.  The module *)
(* KernelEntry drops that assumption.                                      *)
(***************************************************************************)
EXTENDS Integers, Sequences, FiniteSets

CONSTANTS MAX_PROCS,         \* slots of procs[]
          PROC_START_TICKS,  \* ticks a process is given each time it is descheduled
          PROC_MAX_TICKS,    \* most ticks it can save up
          ExitStatus,        \* the statuses processes exit with
          PidLimit           \* bound: processes are created only while newpid < PidLimit

ASSUME ConstantsAssumption ==
  /\ MAX_PROCS \in Nat /\ MAX_PROCS >= 2
  /\ PROC_START_TICKS \in Nat \ {0}
  /\ PROC_MAX_TICKS \in Nat /\ PROC_MAX_TICKS >= PROC_START_TICKS
  /\ ExitStatus \subseteq Nat
  /\ PidLimit \in Nat /\ PidLimit >= 2

VARIABLE k

vars == <<k>>

(***************************************************************************)
(* Pointers to struct proc.  The kernel's page directory maps physical     *)
(* page 0 (virt.c identity-maps the BIOS data area), so reading through a  *)
(* null pointer does not trap: it reads the firmware's interrupt vectors.  *)
(* NULL therefore is a place of its own in the fields that are read        *)
(* through a pointer that may be null.  What is found there is a far       *)
(* pointer into the BIOS, never a process, a pid or a status: WILD,        *)
(* WildStatus.  Following WILD is a page fault in kernel mode, which       *)
(* panics.                                                                 *)
(***************************************************************************)
NULL == -1
WILD == -2
WildStatus == "WILD"

Slot == 0 .. MAX_PROCS - 1
Ref  == Slot \cup {NULL}

IdleSlot == 0   \* idle is the first process created,
KinitPid == 1   \* kinit the second

Status == {"PS_SLOT_FREE", "PS_READY", "PS_RUNNING", "PS_BLOCKED"}

(* The reasons this part of the kernel blocks a process for; the callers   *)
(* of pm_block in other components add their own.                          *)
BlockReason == {"BR_NOT_BLOCKED", "BR_INIT", "BR_WAIT_PROC", "BR_RECEIVING",
                "BR_SLEEPING", "BR_WAIT_FS"}

NO_STATUS == -1   \* exit_status of a process that did not call exit

Pids == 0 .. PidLimit

State ==
  [pid         : [Slot -> Nat],
   status      : [Ref -> Status \cup {WildStatus}],
   block       : [Slot -> BlockReason],
   wait_proc   : [Ref -> Nat \cup {WILD}],
   wait_for    : [Slot -> Nat],
   exit_status : [Slot -> ExitStatus \cup {0, NO_STATUS}],
   ticks_left  : [Slot -> 0 .. PROC_MAX_TICKS],
   eax         : [Slot -> ExitStatus \cup {0, NO_STATUS}],
   next        : [Slot -> Ref \cup {WILD}],
   plist_head  : Ref,
   plist_tail  : Ref,
   cur_proc    : Slot,
   newpid      : Pids,
   panicked    : BOOLEAN]

panic(s) == [s EXCEPT !.panicked = TRUE]

-----------------------------------------------------------------------------
(* The process table.                                                      *)

(* The first slot that carries the pid.  A free slot still carries the pid *)
(* of its last process, or, if it never had one, its own index.            *)
pm_get_proc(s, pid) ==
  IF \E i \in Slot : s.pid[i] = pid
  THEN CHOOSE i \in Slot : s.pid[i] = pid /\ \A j \in Slot : s.pid[j] = pid => i <= j
  ELSE NULL

(* Mutant of get_empty_proc: the table is searched from its end.           *)
get_empty_proc_from_end(s) ==
  IF \E i \in Slot : s.status[i] = "PS_SLOT_FREE"
  THEN CHOOSE i \in Slot : /\ s.status[i] = "PS_SLOT_FREE"
                           /\ \A j \in Slot : s.status[j] = "PS_SLOT_FREE" => j <= i
  ELSE NULL

get_empty_proc(s) ==
  IF \E i \in Slot : s.status[i] = "PS_SLOT_FREE"
  THEN CHOOSE i \in Slot : /\ s.status[i] = "PS_SLOT_FREE"
                           /\ \A j \in Slot : s.status[j] = "PS_SLOT_FREE" => i <= j
  ELSE NULL

-----------------------------------------------------------------------------
(* The run list and the scheduler.                                         *)

(* Mutant of pm_activate: the new last process keeps its old next.         *)
pm_activate_stale_next(s, p) ==
  [s EXCEPT !.plist_head = IF @ = NULL THEN p ELSE @,
            !.next = IF s.plist_tail = NULL THEN @ ELSE [@ EXCEPT ![s.plist_tail] = p],
            !.plist_tail = p]

(* Mutant of pm_activate: the process is entered behind the running one.   *)
pm_activate_in_front(s, p) ==
  IF s.plist_head = NULL THEN [s EXCEPT !.plist_head = p, !.next[p] = NULL, !.plist_tail = p]
  ELSE [s EXCEPT !.next[s.plist_head] = p, !.next[p] = s.next[s.plist_head],
                 !.plist_tail = IF @ = s.plist_head THEN p ELSE @]

pm_activate(s, p) ==
  [s EXCEPT !.plist_head = IF @ = NULL THEN p ELSE @,
            !.next = IF s.plist_tail = NULL THEN [@ EXCEPT ![p] = NULL]
                     ELSE [@ EXCEPT ![s.plist_tail] = p, ![p] = NULL],
            !.plist_tail = p]

(* Mutant of pm_schedule: the saved-up ticks are not capped.               *)
pm_schedule_uncapped(s) ==
  LET head == s.plist_head
      next == [s.next EXCEPT ![s.plist_tail] = head]
      new  == next[head]
  IN  IF new \notin Slot THEN panic(s)
      ELSE [s EXCEPT !.ticks_left[s.cur_proc] = @ + PROC_START_TICKS,
                     !.status = [@ EXCEPT ![s.cur_proc] = IF @ = "PS_RUNNING" THEN "PS_READY"
                                                          ELSE @,
                                          ![new] = "PS_RUNNING"],
                     !.plist_tail = head,
                     !.plist_head = new,
                     !.next = [next EXCEPT ![head] = NULL],
                     !.cur_proc = new]

(* Rotates the list by one and runs its new head.  The branch for an empty *)
(* list would run the zeroed _idle_proc, which has no address space.       *)
pm_schedule(s) ==
  LET cur  == s.cur_proc
      head == s.plist_head
      next == [s.next EXCEPT ![s.plist_tail] = head]
      new  == next[head]
      time == s.ticks_left[cur] + PROC_START_TICKS
      old  == [s EXCEPT !.ticks_left[cur] = IF time > PROC_MAX_TICKS THEN PROC_MAX_TICKS
                                            ELSE time,
                        !.status[cur] = IF @ = "PS_RUNNING" THEN "PS_READY" ELSE @]
  IN  IF new \notin Slot THEN panic(old)
      ELSE [old EXCEPT !.plist_tail = head,
                       !.plist_head = new,
                       !.next = [next EXCEPT ![head] = NULL],
                       !.cur_proc = new,
                       !.status[new] = "PS_RUNNING"]

(* The search loop of pm_deactivate after n iterations: <<prev, cur>>.  A  *)
(* list without p and without an end would keep it running for ever.       *)
Search(s, p) ==
  LET walk[n \in 0 .. MAX_PROCS + 1] ==
        IF n = 0 THEN <<NULL, s.plist_head>>
        ELSE LET w == walk[n - 1]
             IN  IF w[2] \in {NULL, WILD, p} THEN w ELSE <<w[2], s.next[w[2]]>>
  IN  walk[MAX_PROCS + 1]

(* What p->next reads.                                                     *)
NextOf(s, p) == IF p = NULL THEN WILD ELSE s.next[p]

(* Mutant of pm_deactivate: the running process is unlinked, not replaced. *)
pm_deactivate_no_schedule(s, p) ==
  LET w == IF s.plist_head = p THEN <<NULL, p>> ELSE Search(s, p)
  IN  IF w[2] \notin {NULL, p} THEN panic(s)
      ELSE IF w[1] # NULL THEN [s EXCEPT !.next[w[1]] = NextOf(s, w[2])]
      ELSE [s EXCEPT !.plist_head = NextOf(s, w[2])]

(* Mutant of pm_deactivate: the loop does not stop at the list's end.      *)
pm_deactivate_past_end(s, p) ==
  LET w == IF s.plist_head = p THEN <<NULL, p>> ELSE Search(s, p)
      u == IF w[1] # NULL THEN [s EXCEPT !.next[w[1]] = NextOf(s, w[2])]
           ELSE [s EXCEPT !.plist_head = NextOf(s, w[2])]
  IN  IF w[2] # p THEN panic(s)
      ELSE IF p = s.cur_proc THEN pm_schedule(u) ELSE u

(* Unlinks p and, when p is running, schedules.  plist_tail is not         *)
(* adjusted, and a p that is not on the list is not noticed: the loop      *)
(* ends with cur null, and the last process is linked to what a null       *)
(* pointer's next field reads.                                             *)
pm_deactivate(s, p) ==
  LET w    == IF s.plist_head = p THEN <<NULL, p>> ELSE Search(s, p)
      prev == w[1]
      cur  == w[2]
      u    == IF prev # NULL THEN [s EXCEPT !.next[prev] = NextOf(s, cur)]
              ELSE [s EXCEPT !.plist_head = NextOf(s, cur)]
  IN  IF cur \notin {NULL, p} THEN panic(s)
      ELSE IF p = s.cur_proc THEN pm_schedule(u) ELSE u

(* ticks_left is compared, as an unsigned number, only when the running    *)
(* process is PS_READY.                                                    *)
pm_update(s, koop_mode) ==
  LET cur == s.cur_proc
      dec == IF s.status[cur] = "PS_READY" /\ ~koop_mode
             THEN [s EXCEPT !.ticks_left[cur] = @ - 1] ELSE s
  IN  IF s.status[cur] # "PS_READY" \/ (~koop_mode /\ dec.ticks_left[cur] = 0)
      THEN pm_schedule(dec) ELSE dec

pm_block(s, p, reason) ==
  IF s.status[p] = "PS_BLOCKED" THEN s
  ELSE pm_deactivate([s EXCEPT !.status[p] = "PS_BLOCKED", !.block[p] = reason], p)

pm_unblock(s, p) ==
  pm_activate([s EXCEPT !.status[p] = "PS_READY", !.block[p] = "BR_NOT_BLOCKED"], p)

-----------------------------------------------------------------------------
(* Creating and destroying processes.                                      *)

(* What init_proc and pm_fork set of a new process, memory, files and      *)
(* message buffer apart.                                                   *)
NewProc(s, p, status) ==
  [s EXCEPT !.pid[p] = s.newpid,
            !.newpid = @ + 1,
            !.status[p] = status,
            !.block[p] = IF status = "PS_BLOCKED" THEN "BR_INIT" ELSE "BR_NOT_BLOCKED",
            !.wait_proc[p] = 0,
            !.wait_for[p] = 0,
            !.exit_status[p] = NO_STATUS,
            !.ticks_left[p] = PROC_START_TICKS,
            !.eax[p] = 0]

(* pm_create for a process that starts PS_BLOCKED or PS_READY.             *)
pm_create(s, status) ==
  LET p == get_empty_proc(s)
  IN  IF p = NULL THEN panic(s)
      ELSE IF status = "PS_READY" THEN pm_activate(NewProc(s, p, status), p)
      ELSE NewProc(s, p, status)

sc_late_result(s, p, result) == [s EXCEPT !.eax[p] = result]

(* The process that waits for p is handed p's exit status and unblocked;   *)
(* the one p waited for (p does not forget it when it is woken) stops      *)
(* having p as its waiter.                                                 *)
pm_destroy(s, p) ==
  LET s1     == [pm_deactivate(s, p) EXCEPT !.status[p] = "PS_SLOT_FREE"]
      waiter == pm_get_proc(s1, s1.wait_proc[p])
      s2     == IF s1.wait_proc[p] = 0 THEN s1
                ELSE IF waiter = NULL THEN panic(s1)
                ELSE pm_unblock(sc_late_result(s1, waiter, s1.exit_status[p]), waiter)
      other  == pm_get_proc(s2, s2.wait_for[p])
  IN  IF s2.wait_for[p] # 0 /\ s2.wait_proc[other] = s2.pid[p]
      THEN [s2 EXCEPT !.wait_proc[other] = 0] ELSE s2

-----------------------------------------------------------------------------
(* System calls, made by syscall_proc = cur_proc.  syscall_execute stores  *)
(* the handler's result in the caller's eax when the handler returns; the  *)
(* results no property is about are all 0 here.                            *)

(* Mutant of sys_exit: the status is stored after the process is destroyed.*)
sys_exit_status_late(s, status) ==
  pm_schedule([pm_destroy(s, s.cur_proc) EXCEPT !.exit_status[s.cur_proc] = status])

sys_exit(s, status) ==
  pm_schedule(pm_destroy([s EXCEPT !.exit_status[s.cur_proc] = status], s.cur_proc))

sys_yield(s) == sc_late_result(pm_schedule(s), s.cur_proc, 0)

(* Mutant of sys_waitpid: a second waiter replaces the first.              *)
sys_waitpid_any_waiter(s, pid) ==
  LET other == pm_get_proc(s, pid)
      me    == s.cur_proc
  IN  IF other = NULL \/ s.status[other] = "PS_SLOT_FREE" THEN sc_late_result(s, me, NO_STATUS)
      ELSE sc_late_result(pm_block([s EXCEPT !.wait_proc[other] = s.pid[me],
                                             !.wait_for[me] = pid],
                                   me, "BR_WAIT_PROC"),
                          me, 0)

sys_waitpid(s, pid) ==
  LET other == pm_get_proc(s, pid)
      me    == s.cur_proc
  IN  IF s.status[other] = "PS_SLOT_FREE" \/ s.wait_proc[other] # 0
      THEN sc_late_result(s, me, NO_STATUS)
      ELSE sc_late_result(pm_block([s EXCEPT !.wait_proc[other] = s.pid[me],
                                             !.wait_for[me] = pid],
                                   me, "BR_WAIT_PROC"),
                          me, 0)

sys_fork(s) ==
  LET child == get_empty_proc(s)
  IN  IF child = NULL THEN sc_late_result(s, s.cur_proc, NO_STATUS)
      ELSE sc_late_result(pm_activate(NewProc(s, child, "PS_READY"), child),
                          s.cur_proc, 0)

(* loader.c: the process is created blocked and unblocked once its image   *)
(* is mapped, or destroyed when a segment cannot be mapped, although it    *)
(* never was on the run list.                                              *)
elf32_exec(s, mapped) ==
  LET p == get_empty_proc(s)
      c == pm_create(s, "PS_BLOCKED")
  IN  IF p = NULL THEN c
      ELSE sc_late_result(IF mapped THEN pm_unblock(c, p) ELSE pm_destroy(c, p),
                          s.cur_proc, 0)

-----------------------------------------------------------------------------
(* init_pm, then kmain's pm_create of kinit: idle is put on the list still *)
(* PS_BLOCKED and is the current process; nothing has been scheduled yet.  *)
Init ==
  k = [pid         |-> [i \in Slot |-> i],
       status      |-> [i \in Ref |-> CASE i = 0 -> "PS_BLOCKED"
                                        [] i = 1 -> "PS_READY"
                                        [] i = NULL -> WildStatus
                                        [] OTHER -> "PS_SLOT_FREE"],
       block       |-> [i \in Slot |-> IF i = 0 THEN "BR_INIT" ELSE "BR_NOT_BLOCKED"],
       wait_proc   |-> [i \in Ref |-> IF i = NULL THEN WILD ELSE 0],
       wait_for    |-> [i \in Slot |-> 0],
       exit_status |-> [i \in Slot |-> IF i \in {0, 1} THEN NO_STATUS ELSE 0],
       ticks_left  |-> [i \in Slot |-> IF i \in {0, 1} THEN PROC_START_TICKS ELSE 0],
       eax         |-> [i \in Slot |-> 0],
       next        |-> [i \in Slot |-> IF i = 0 THEN 1 ELSE NULL],
       plist_head  |-> 0,
       plist_tail  |-> 1,
       cur_proc    |-> 0,
       newpid      |-> 2,
       panicked    |-> FALSE]

(* idle only executes hlt; kinit executes programs, waits and exits.       *)
Calling == ~k.panicked /\ k.cur_proc # IdleSlot
CallingUser == Calling /\ k.pid[k.cur_proc] # KinitPid

(* timer_irq without sleepers (see Timer).                                 *)
Tick == ~k.panicked /\ \E koop_mode \in BOOLEAN : k' = pm_update(k, koop_mode)

Yield == CallingUser /\ k' = sys_yield(k)
Exit == Calling /\ \E status \in ExitStatus : k' = sys_exit(k, status)
Waitpid == Calling /\ \E pid \in Pids : k' = sys_waitpid(k, pid)
Fork == CallingUser /\ k.newpid < PidLimit /\ k' = sys_fork(k)
Execute == Calling /\ k.newpid < PidLimit /\ \E mapped \in BOOLEAN : k' = elf32_exec(k, mapped)

(* exec_file and exec_mem: no such file, or not a program.                 *)
NotExecuted == Calling /\ k' = sc_late_result(k, k.cur_proc, 0)

(* An exception in user mode (EP_ABORT), or a system call with a number    *)
(* that is out of range or has no handler: the process is destroyed.       *)
Abort == CallingUser /\ k' = pm_destroy(k, k.cur_proc)

(* panic() halts the machine.                                              *)
Halted == k.panicked /\ UNCHANGED k

Next == Tick \/ Yield \/ Exit \/ Waitpid \/ Fork \/ Execute \/ NotExecuted \/ Abort \/ Halted

Spec == Init /\ [][Next]_vars
-----------------------------------------------------------------------------
TypeOK == k \in State

Live(s, i) == s.status[i] # "PS_SLOT_FREE"

(* The processes the scheduler has to know: the runnable ones, and idle,   *)
(* which pm.c activates while it is blocked and never deactivates.         *)
Runnable(s) == {i \in Slot : s.status[i] \in {"PS_READY", "PS_RUNNING"}} \cup {IdleSlot}

(* q lists the run list in order: from plist_head along next to            *)
(* plist_tail.  The next of the last one is null, or, after a load that    *)
(* failed, what pm_deactivate read through a null pointer; it is not used  *)
(* before pm_schedule or pm_activate overwrites it.                        *)
IsRunList(s, n, q) ==
  /\ \A i, j \in 1 .. n : q[i] = q[j] => i = j
  /\ s.plist_head = q[1]
  /\ s.plist_tail = q[n]
  /\ \A i \in 1 .. n - 1 : s.next[q[i]] = q[i + 1]
  /\ s.next[q[n]] \in {NULL, WILD}

(* The run list holds every runnable process exactly once and no other: no *)
(* sequence of pm_activate, pm_deactivate and pm_schedule calls loses one, *)
(* enters one twice or leaves plist_tail on one that was unlinked.         *)
RunListExact ==
  \E n \in 1 .. MAX_PROCS : \E q \in [1 .. n -> Runnable(k)] :
    /\ IsRunList(k, n, q)
    /\ \A p \in Runnable(k) : \E i \in 1 .. n : q[i] = p

(* The process that runs is the head of the run list, it alone is          *)
(* PS_RUNNING (idle, before the first schedule, is still PS_BLOCKED), and  *)
(* it is not a free slot, whatever pm_destroy and pm_schedule picked.      *)
CurrentIsHead ==
  /\ k.cur_proc = k.plist_head
  /\ \A i \in Slot : k.status[i] = "PS_RUNNING" => i = k.cur_proc
  /\ k.status[k.cur_proc] = "PS_RUNNING" \/ (k.cur_proc = IdleSlot /\ k.status[IdleSlot] = "PS_BLOCKED")

(* pm_get_proc finds a living process by its pid, although free slots keep *)
(* the pid of their last process and unused ones carry their index, and    *)
(* pm_get_proc looks at the pid alone.                                     *)
PidLookup == \A i \in Slot : Live(k, i) => pm_get_proc(k, k.pid[i]) = i

(* No wake-up is lost: a process blocked in waitpid waits for one that is  *)
(* alive and has it as its waiter, and a living process that has a waiter  *)
(* has one that is blocked waiting for it (pm_destroy unblocks it without  *)
(* looking at its status).                                                 *)
WaitersMatch ==
  /\ \A p \in Slot : k.status[p] = "PS_BLOCKED" /\ k.block[p] = "BR_WAIT_PROC" =>
       \E q \in Slot : /\ Live(k, q)
                       /\ k.pid[q] = k.wait_for[p]
                       /\ k.wait_proc[q] = k.pid[p]
  /\ \A q \in Slot : Live(k, q) /\ k.wait_proc[q] # 0 =>
       \E p \in Slot : /\ k.status[p] = "PS_BLOCKED"
                       /\ k.block[p] = "BR_WAIT_PROC"
                       /\ k.pid[p] = k.wait_proc[q]
                       /\ k.wait_for[p] = k.pid[q]

(* The kernel panics for want of a slot (pm_create), never because the     *)
(* scheduler or a lookup followed a null pointer, except in a load that    *)
(* fails right after another one did: pm_deactivate then follows what the  *)
(* first has left at the end of the run list.                              *)
PanicExplained ==
  k.panicked => (\A i \in Slot : Live(k, i)) \/ k.next[k.plist_tail] = WILD

(* A waitpid that blocked returns the exit status of the process that was  *)
(* waited for, at the step that destroys it: -1 when it was aborted.       *)
WaitReturnsStatus ==
  [][\A p \in Slot :
       k.status[p] = "PS_BLOCKED" /\ k.block[p] = "BR_WAIT_PROC" /\ k'.status[p] # "PS_BLOCKED" =>
         \E q \in Slot : /\ Live(k, q) /\ ~Live(k', q)
                         /\ k.pid[q] = k.wait_for[p]
                         /\ k'.eax[p] = k'.exit_status[q]]_vars

(* How many processes are in front of p on the run list.                   *)
PlaceOf(s, p) ==
  LET nth[n \in 0 .. MAX_PROCS] ==
        IF n = 0 THEN s.plist_head
        ELSE IF nth[n - 1] \in Slot THEN s.next[nth[n - 1]] ELSE NULL
  IN  IF \E n \in 0 .. MAX_PROCS : nth[n] = p THEN CHOOSE n \in 0 .. MAX_PROCS : nth[n] = p
      ELSE MAX_PROCS

(* "Very simple round robin": every tick brings a ready process nearer to  *)
(* its turn, and no step makes it fall back, whoever is created, woken or  *)
(* destroyed, but one in which the running process leaves the run list,    *)
(* where pm_deactivate and sys_exit schedule once too often.               *)
NearerToItsTurn ==
  [][\A p \in Slot : k.status[p] = "PS_READY" =>
       /\ Tick => PlaceOf(k', p) < PlaceOf(k, p)
       /\ k.cur_proc \in Runnable(k') => PlaceOf(k', p) <= PlaceOf(k, p)]_vars
=============================================================================
