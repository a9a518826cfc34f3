---------------------------- MODULE KernelEntry ----------------------------
(***************************************************************************)
(* Entering and leaving the kernel: int.s, idt_handle_int in kernel/idt.c, *)
(* pm_restore and pm_pick in kernel/pm.c, the interrupt flag that          *)
(* enable_intr sets where context.c allows it, and which kernel stack      *)
(* every register frame lies on.                                           *)
(*                                                                         *)
(* A frame is what the CPU and isr_common push; it is named by the stack   *)
(* it is on and its place there.  A handler's variable esp names a frame.  *)
(* Scheduling is reduced to its choice: any process that is ready.         *)
(***************************************************************************)
EXTENDS Integers, Sequences

CONSTANTS Proc,   \* user processes
          idle    \* the idle process, which runs in kernel mode

ASSUME ProcAssumption == idle \notin Proc

Procs == Proc \cup {idle}

VARIABLES status, cur_proc, last_proc,
          esp0,    \* whose kernel stack tss.esp0 points to
          esp,     \* proc->esp: the frame saved for each process
          stack,   \* the frames on each kernel stack
          cur_context,
          cpu      \* what is being executed, see Running and Handling

vars == <<status, cur_proc, last_proc, esp0, esp, stack, cur_context, cpu>>

Frame(p, n) == [on |-> p, at |-> n]

(* The code of process p, with interrupts enabled.                         *)
Running(p) == [pc |-> "proc", prog |-> p, on |-> p, esp |-> Frame(p, 0), iflag |-> TRUE]

(* idt_handle_int on the stack of frame f, at pc: "handler" before the     *)
(* call of the handler proper, "pick" before pm_pick, "iret" after it.     *)
Handling(pc, intr, f, flag) == [pc |-> pc, prog |-> intr, on |-> f.on, esp |-> f, iflag |-> flag]

Calls == {"getpid", "yield", "block", "unblock"}

CanBeInterrupted == cpu.iflag

(* The CPU's entry, isr_common, and idt_handle_int up to the handler.  A   *)
(* user process's frame goes to the top of the stack tss.esp0 points to,   *)
(* that of kernel code under what is on its stack already.                 *)
idt_handle_int(intr) ==
  LET t     == IF cpu.pc = "proc" /\ cpu.prog # idle THEN esp0 ELSE cpu.on
      under == IF cpu.pc = "proc" THEN << >> ELSE stack[t]
      f     == Frame(t, Len(under) + 1)
  IN  /\ stack' = [stack EXCEPT ![t] = Append(under, cpu)]
      /\ esp' = [esp EXCEPT ![cur_proc] = f]                    \* pm_restore
      /\ cpu' = Handling("handler", intr, f, FALSE)
      /\ cur_context' = IF intr \in Calls THEN "CX_SYSCALL" ELSE "CX_IRQ"
      /\ UNCHANGED <<status, cur_proc, last_proc, esp0>>

Ready(st) == {p \in Procs : st[p] = "PS_READY"}

pm_schedule(st) == cur_proc' \in Ready(st)

(* The handlers leave cur_proc to the scheduler, and interrupts as they    *)
(* are unless enable_intr is allowed in the context.                       *)
AfterHandler(intrOn) == cpu' = [cpu EXCEPT !.pc = "pick", !.iflag = intrOn]

enable_intr == cur_context = "CX_SYSCALL"   \* allowed[cur_context][A_CHANGE_IF]

Kept == UNCHANGED <<last_proc, esp0, esp, stack>>

At(intr) == cpu.pc = "handler" /\ cpu.prog = intr

(* pm_update of the timer's interrupt.                                     *)
Timer ==
  /\ At("timer") /\ Kept
  /\ cur_proc' = cur_proc \/ pm_schedule(status)
  /\ AfterHandler(FALSE)
  /\ UNCHANGED status /\ cur_context' = "CX_IRQ"

(* A process's exception: pm_destroy in interrupt context.                 *)
Fault ==
  /\ At("fault") /\ Kept
  /\ status' = [status EXCEPT ![cur_proc] = "PS_SLOT_FREE"]
  /\ pm_schedule(status')
  /\ AfterHandler(FALSE)
  /\ cur_context' = "CX_IRQ"

(* System calls that leave the run list alone.                             *)
Getpid ==
  /\ At("getpid") /\ Kept
  /\ AfterHandler(FALSE)
  /\ UNCHANGED <<status, cur_proc>> /\ cur_context' = "CX_IRQ"

Yield ==
  /\ At("yield") /\ Kept
  /\ pm_schedule(status)
  /\ AfterHandler(FALSE)
  /\ UNCHANGED status /\ cur_context' = "CX_IRQ"

(* System calls that end in pm_deactivate and pm_activate.                 *)
Block ==
  /\ At("block") /\ Kept
  /\ status' = [status EXCEPT ![cur_proc] = "PS_BLOCKED"]
  /\ pm_schedule(status')
  /\ AfterHandler(enable_intr)
  /\ cur_context' = "CX_IRQ"

Unblock ==
  /\ At("unblock") /\ Kept
  /\ LET blocked == {p \in Proc : status[p] = "PS_BLOCKED"}
     IN  IF blocked = {} THEN UNCHANGED status /\ AfterHandler(FALSE)
         ELSE /\ \E p \in blocked : status' = [status EXCEPT ![p] = "PS_READY"]
              /\ AfterHandler(enable_intr)
  /\ UNCHANGED cur_proc
  /\ cur_context' = "CX_IRQ"

(* Mutants of pm_pick: tss.esp0 is forgotten, and last_proc is.            *)
pm_pick_no_tss ==
  IF cur_proc = last_proc THEN UNCHANGED <<last_proc, esp0>> /\ cpu' = [cpu EXCEPT !.pc = "iret"]
  ELSE /\ cpu' = [cpu EXCEPT !.pc = "iret", !.esp = esp[cur_proc]]
       /\ last_proc' = cur_proc /\ UNCHANGED esp0

pm_pick_stale ==
  IF cur_proc = last_proc THEN UNCHANGED <<last_proc, esp0>> /\ cpu' = [cpu EXCEPT !.pc = "iret"]
  ELSE /\ cpu' = [cpu EXCEPT !.pc = "iret", !.esp = esp[cur_proc]]
       /\ esp0' = cur_proc /\ UNCHANGED last_proc

pm_pick ==
  IF cur_proc = last_proc THEN UNCHANGED <<last_proc, esp0>> /\ cpu' = [cpu EXCEPT !.pc = "iret"]
  ELSE /\ cpu' = [cpu EXCEPT !.pc = "iret", !.esp = esp[cur_proc]]
       /\ esp0' = cur_proc /\ last_proc' = cur_proc

Pick ==
  /\ cpu.pc = "pick"
  /\ pm_pick
  /\ cur_context' = "CX_PROC"
  /\ UNCHANGED <<status, cur_proc, esp, stack>>

(* isr_common after the call: the frame esp names is popped.  One that is  *)
(* not there any more is whatever lies on that stack.                      *)
Iret ==
  LET f == cpu.esp
  IN  /\ cpu.pc = "iret"
      /\ IF f.at <= Len(stack[f.on])
         THEN cpu' = [stack[f.on][f.at] EXCEPT !.on = f.on] /\ stack' = [stack EXCEPT ![f.on] = SubSeq(@, 1, f.at - 1)]
         ELSE cpu' = [cpu EXCEPT !.pc = "wild", !.iflag = FALSE] /\ UNCHANGED stack
      /\ UNCHANGED <<status, cur_proc, last_proc, esp0, esp, cur_context>>

Irq == CanBeInterrupted /\ idt_handle_int("timer")

Syscall(calls) == cpu.pc = "proc" /\ cpu.prog # idle /\ \E c \in calls : idt_handle_int(c)

Except == cpu.pc = "proc" /\ cpu.prog # idle /\ idt_handle_int("fault")

(* After init_pm and the first processes: idle runs, the others' frames    *)
(* are those prepare_stack made.                                           *)
Init ==
  /\ status = [p \in Procs |-> "PS_READY"]
  /\ cur_proc = idle /\ last_proc = idle /\ esp0 = idle
  /\ esp = [p \in Procs |-> Frame(p, 1)]
  /\ stack = [p \in Procs |-> IF p = idle THEN << >> ELSE <<Running(p)>>]
  /\ cur_context = "CX_PROC"
  /\ cpu = Running(idle)

HandlerStep == Timer \/ Fault \/ Getpid \/ Yield \/ Pick \/ Iret

CalmNext == Irq \/ Except \/ Syscall({"getpid", "yield"}) \/ HandlerStep

(* Processes that neither block nor unblock: interrupts stay disabled in   *)
(* every handler.                                                          *)
CalmSpec == Init /\ [][CalmNext]_vars

Spec == Init /\ [][Irq \/ Except \/ Syscall(Calls) \/ HandlerStep \/ Block \/ Unblock]_vars
-----------------------------------------------------------------------------
(* pm_pick "Switches the stack to the current process": whenever a         *)
(* process's code runs, it is the code of cur_proc.                        *)
RunningIsCurrent == cpu.pc = "proc" => cpu.prog = cur_proc

(* pm_restore "Saves the stack for the current process": whenever a        *)
(* process's code runs, every other process that lives has its own code's  *)
(* frame, alone on its own stack, as what will be resumed.                 *)
SavedOnOwnStack ==
  cpu.pc = "proc" => \A p \in Procs \ {cur_proc} :
    status[p] # "PS_SLOT_FREE" => /\ esp[p] = Frame(p, 1)
                                  /\ Len(stack[p]) = 1 /\ stack[p][1].prog = p
=============================================================================
