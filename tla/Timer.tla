------------------------------- MODULE Timer -------------------------------
(***************************************************************************)
(* Sleeping processes, kernel/timer.c, on top of the process manager:      *)
(* timer_irq wakes the processes that are due and calls the scheduler,     *)
(* timer_sleep puts the calling process to sleep.  timer_ticks and         *)
(* next_wakeup are 64 bits wide, a process's wakeup is a dword, here       *)
(* modulo DwordMod; zero in it means that the process does not sleep.      *)
(* due is a history variable: the time a sleep was asked to end at.  Time  *)
(* is measured in parts of a tick so small that ticks and milliseconds     *)
(* both are whole numbers of them: a tick is MSEC of them, a millisecond   *)
(* TIMER_HZ.                                                               *)
(***************************************************************************)
EXTENDS ProcessManager

CONSTANTS DwordMod,   \* number of values of a dword
          TIMER_HZ,   \* ticks in a second
          MSEC,       \* milliseconds in a second (1000)
          Sleeps,     \* the lengths of sleep asked for, in milliseconds
          MaxTicks    \* bound: timer interrupts per behaviour

ASSUME TimerAssumption ==
  /\ DwordMod \in Nat \ {0} /\ TIMER_HZ \in Nat \ {0} /\ MSEC \in Nat \ {0}
  /\ Sleeps \subseteq Nat /\ MaxTicks \in Nat

VARIABLE t

timerVars == <<k, t>>

ULLONG_MAX == 2 * (MaxTicks + DwordMod)   \* later than any tick there is

init_timer ==
  t = [timer_ticks |-> 0, next_wakeup |-> ULLONG_MAX,
       wakeup |-> [i \in Slot |-> 0], due |-> [i \in Slot |-> 0]]

Earliest(S) == CHOOSE x \in S : \A y \in S : x <= y

(* The loop over procs[], after n turns, unblocks the processes in wake.   *)
Unblocked(s, wake) ==
  LET loop[n \in 0 .. MAX_PROCS] ==
        IF n = 0 THEN s
        ELSE IF n - 1 \in wake THEN pm_unblock(loop[n - 1], n - 1) ELSE loop[n - 1]
  IN  loop[MAX_PROCS]

(* Mutant of timer_irq: next_wakeup is not set for those that sleep on.    *)
timer_irq_forget_rest(koop_mode) ==
  LET now  == t.timer_ticks + 1
      wake == {p \in Slot : t.wakeup[p] # 0 /\ t.wakeup[p] <= now}
  IN  IF now < t.next_wakeup
      THEN k' = pm_update(k, koop_mode) /\ t' = [t EXCEPT !.timer_ticks = now]
      ELSE /\ k' = pm_update(Unblocked(k, wake), koop_mode)
           /\ t' = [t EXCEPT !.timer_ticks = now,
                             !.next_wakeup = ULLONG_MAX,
                             !.wakeup = [p \in Slot |-> IF p \in wake THEN 0 ELSE @[p]]]

(* Mutant of timer_irq: the wakeup of a process that is woken stays set.   *)
timer_irq_keep_wakeup(koop_mode) ==
  LET now  == t.timer_ticks + 1
      wake == {p \in Slot : t.wakeup[p] # 0 /\ t.wakeup[p] <= now}
      rest == {t.wakeup[p] : p \in {q \in Slot : t.wakeup[q] > now}}
  IN  IF now < t.next_wakeup
      THEN k' = pm_update(k, koop_mode) /\ t' = [t EXCEPT !.timer_ticks = now]
      ELSE /\ k' = pm_update(Unblocked(k, wake), koop_mode)
           /\ t' = [t EXCEPT !.timer_ticks = now,
                             !.next_wakeup = Earliest(rest \cup {ULLONG_MAX})]

timer_irq(koop_mode) ==
  LET now  == t.timer_ticks + 1
      wake == {p \in Slot : t.wakeup[p] # 0 /\ t.wakeup[p] <= now}
      rest == {t.wakeup[p] : p \in {q \in Slot : t.wakeup[q] > now}}
  IN  IF now < t.next_wakeup
      THEN k' = pm_update(k, koop_mode) /\ t' = [t EXCEPT !.timer_ticks = now]
      ELSE /\ k' = pm_update(Unblocked(k, wake), koop_mode)
           /\ t' = [t EXCEPT !.timer_ticks = now,
                             !.next_wakeup = Earliest(rest \cup {ULLONG_MAX}),
                             !.wakeup = [p \in Slot |-> IF p \in wake THEN 0 ELSE @[p]]]

(* msec * TIMER_HZ/1000 in a dword: the product can overflow, and the      *)
(* quotient is rounded down.                                               *)
Ticks(msec) == ((msec * TIMER_HZ) % DwordMod) \div MSEC

(* The running process is not blocked, so pm_block succeeds.               *)
timer_sleep(msec) ==
  LET me     == k.cur_proc
      wakeup == (t.timer_ticks + Ticks(msec)) % DwordMod
  IN  /\ k' = sc_late_result(pm_block(k, me, "BR_SLEEPING"), me, 0)
      /\ t' = [t EXCEPT !.wakeup[me] = wakeup,
                        !.next_wakeup = IF @ > wakeup THEN wakeup ELSE @,
                        !.due[me] = t.timer_ticks * MSEC + msec * TIMER_HZ]

TimerIrq ==
  ~k.panicked /\ t.timer_ticks < MaxTicks /\ \E koop_mode \in BOOLEAN : timer_irq(koop_mode)

Sleep == CallingUser /\ \E msec \in Sleeps : timer_sleep(msec)

(* The other steps of the process manager; a new process does not sleep.   *)
TimerProcessStep ==
  /\ Yield \/ Exit \/ Waitpid \/ Fork \/ Execute \/ NotExecuted \/ Abort \/ Halted
  /\ t' = [t EXCEPT !.wakeup = [i \in Slot |-> IF ~Live(k, i) /\ Live(k', i) THEN 0 ELSE @[i]]]

(* Where the bound ends a behaviour.                                       *)
OutOfTicks == t.timer_ticks = MaxTicks /\ UNCHANGED timerVars

TimerNext == TimerIrq \/ Sleep \/ TimerProcessStep \/ OutOfTicks

TimerSpec == Init /\ init_timer /\ [][TimerNext]_timerVars
-----------------------------------------------------------------------------
Sleeping(s, p) == s.status[p] = "PS_BLOCKED" /\ s.block[p] = "BR_SLEEPING"

(* No sleeper is forgotten: whatever was waiting when next_wakeup was      *)
(* computed or lowered, no process still sleeps after the milliseconds it  *)
(* asked for.                                                              *)
NotLate == \A p \in Slot : Sleeping(k, p) => t.timer_ticks * MSEC <= t.due[p]

(* timer_irq unblocks a process because its wakeup is set, not because it  *)
(* sleeps: wakeup is set for sleeping processes and for no other, so none  *)
(* is entered into the run list twice or woken from another wait.          *)
WakeupMeansSleeping == \A p \in Slot : t.wakeup[p] # 0 <=> Sleeping(k, p)

(* timer_sleep "schedules it's unblocking to happen in msec milliseconds": *)
(* a sleep does not end before, the tick it began in counted as a whole.   *)
NotEarly ==
  [][\A p \in Slot :
       Sleeping(k, p) /\ ~Sleeping(k', p) => t'.timer_ticks * MSEC >= t.due[p]]_timerVars
=============================================================================
