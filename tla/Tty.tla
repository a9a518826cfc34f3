-------------------------------- MODULE Tty --------------------------------
(***************************************************************************)
(* The terminals of kernel/tty.c with the requests of kernel/fs/request.c: *)
(* keys that are edited into lines, processes that sleep until there is a  *)
(* line, and a screen that shows one of several terminals.                 *)
(*                                                                         *)
(* Key codes, keymaps and modifiers are reduced to what a key means.       *)
(* Terminals are never raw: no code sets TTY_RAW.  Colours are left out,   *)
(* and a tab is the spaces it is written as.  A system call runs with      *)
(* interrupts disabled until pm_block enables them: that is the only point *)
(* where a key can come between (pc = "window").                           *)
(***************************************************************************)
EXTENDS Integers, Sequences, FiniteSetsExt

CONSTANTS Ttys,             \* ttys and kout_tty
          FirstTty,         \* the one init_tty selects
          KoutTty,          \* the kernel's own
          Proc,             \* processes with a terminal open
          TTY_INBUF_SIZE,
          TTY_SCREEN_X, TTY_SCREEN_Y,
          CON_MAX_START_LINE,
          CON_LINES,        \* CON_MEM_CHARS in lines
          Text,             \* what programs and the kernel write
          MaxKeys,          \* bound: keys pressed
          MaxWrites         \* bound: writes

ASSUME TtyAssumption ==
  /\ {TTY_INBUF_SIZE, TTY_SCREEN_X, TTY_SCREEN_Y} \subseteq Nat \ {0}
  /\ {CON_MAX_START_LINE, CON_LINES} \subseteq Nat /\ CON_MAX_START_LINE + TTY_SCREEN_Y <= CON_LINES
  /\ FirstTty \in Ttys /\ KoutTty \in Ttys \ {FirstTty}
  /\ \A str \in Text : str \in Seq(Range(str))

VARIABLES s,      \* terminals and screen, see init_tty
          proc,   \* of each process: pc, blocked, rq, eax, file
          typed,  \* history: what was typed at each terminal, edited
          got,    \* history: what was read from it
          left    \* keys and writes left

ttyVars == <<s, proc, typed, got, left>>

NL     == "newline"
CR     == "carriage return"
BS     == "backspace"
EOT    == "end of text"
END    == "end"      \* the 0 that ends a line in inbuf
HIDDEN == TTY_SCREEN_X * TTY_SCREEN_Y + 1   \* behind the screen, as long as it has not scrolled
EAGAIN == "EAGAIN"

Cells == 0 .. CON_LINES * TTY_SCREEN_X - 1

Blank == [c \in Cells |-> " "]

CPOS(tty) == tty.x + tty.y * TTY_SCREEN_X
-----------------------------------------------------------------------------
(* Output.  st.start and st.cursor are the registers of the adapter.       *)
IfCurrent(st, t, shown) == IF t = st.cur_tty THEN shown ELSE st

set_start_line(st, t) == IfCurrent(st, t, [st EXCEPT !.start = st.tty[t].outstart])

update_cursor(st, t) ==
  IfCurrent(st, t, [st EXCEPT !.cursor = IF st.tty[t].requests = << >> THEN HIDDEN ELSE CPOS(st.tty[t])])

(* A character at the cursor, in the buffer and on the screen.  A position *)
(* behind the buffer is memory of somebody else: nothing is known then.    *)
Draw(st, t, c) ==
  LET at == CPOS(st.tty[t])
      b  == [st EXCEPT !.tty[t].outbuf[at] = c]
  IN  IF at \notin Cells THEN [st EXCEPT !.wild = TRUE]
      ELSE IfCurrent(b, t, [b EXCEPT !.vmem[at] = c])

LineUp(buf) == [c \in Cells |-> IF c + TTY_SCREEN_X \in Cells THEN buf[c + TTY_SCREEN_X] ELSE " "]

(* Mutant of scroll: the screen's memory is not moved.                     *)
scroll_buffer_only(st, t) ==
  LET full  == st.tty[t].outstart + 1 > CON_MAX_START_LINE
      moved == [st EXCEPT !.tty[t].outbuf = LineUp(@), !.tty[t].y = @ - 1]
      down  == IF full THEN moved ELSE [st EXCEPT !.tty[t].outstart = @ + 1]
  IN  set_start_line([down EXCEPT !.tty[t].screenY = @ - 1], t)

scroll(st, t) ==
  LET full  == st.tty[t].outstart + 1 > CON_MAX_START_LINE
      moved == [st EXCEPT !.tty[t].outbuf = LineUp(@), !.tty[t].y = @ - 1]
      down  == IF full THEN IfCurrent(moved, t, [moved EXCEPT !.vmem = LineUp(@)])
               ELSE [st EXCEPT !.tty[t].outstart = @ + 1]
  IN  set_start_line([down EXCEPT !.tty[t].screenY = @ - 1], t)

Place(st, t, c) ==
  CASE c = NL  -> [st EXCEPT !.tty[t] = [@ EXCEPT !.x = 0, !.y = st.tty[t].y + 1, !.screenY = st.tty[t].screenY + 1]]
    [] c = CR  -> [st EXCEPT !.tty[t].x = 0]
    [] c = BS  -> IF st.tty[t].x = 0 THEN st ELSE Draw([st EXCEPT !.tty[t].x = @ - 1], t, " ")
    [] OTHER   -> [Draw(st, t, c) EXCEPT !.tty[t].x = @ + 1]

Wrap(st, t) ==
  IF st.tty[t].x >= TTY_SCREEN_X THEN [st EXCEPT !.tty[t].x = 0, !.tty[t].y = @ + 1] ELSE st

(* screenY exceeds the screen by at most one line.                         *)
ScrollIntoView(st, t) == IF st.tty[t].screenY >= TTY_SCREEN_Y THEN scroll(st, t) ELSE st

putc(st, t, c) ==
  IF st.wild THEN st ELSE update_cursor(ScrollIntoView(Wrap(Place(st, t, c), t), t), t)

puts(st, t, str) ==
  LET put[n \in 0 .. Len(str)] == IF n = 0 THEN st ELSE putc(put[n - 1], t, str[n])
  IN  put[Len(str)]

scroll_to_bottom(st, t) ==
  LET y == st.tty[t].y
  IN  set_start_line([st EXCEPT !.tty[t].outstart =
                        IF y > TTY_SCREEN_Y - 1 THEN y - (TTY_SCREEN_Y - 1) ELSE 0], t)

select_tty(st, t) ==
  update_cursor([st EXCEPT !.cur_tty = t, !.vmem = st.tty[t].outbuf, !.start = st.tty[t].outstart], t)

(* scroll_line_up, scroll_line_down, scroll_to_top and scroll_to_bottom.   *)
ScrollKey(st, key) ==
  LET t == st.cur_tty
      o == st.tty[t].outstart
  IN  CASE key = "PAGE_UP"   -> set_start_line([st EXCEPT !.tty[t].outstart = IF o = 0 THEN 0 ELSE o - 1], t)
        [] key = "PAGE_DOWN" -> set_start_line([st EXCEPT !.tty[t].outstart =
                                                  IF o < CON_MAX_START_LINE THEN o + 1 ELSE o], t)
        [] key = "HOME"      -> set_start_line([st EXCEPT !.tty[t].outstart = 0], t)
        [] key = "END"       -> scroll_to_bottom(st, t)
-----------------------------------------------------------------------------
(* Input.  incount is the length of inbuf.                                 *)
enough_data(tty) == tty.eotcount > 0

(* copy_data: the first line, without its end.  It is all copied, whatever *)
(* size the reader asked for (copy_data says "up to size bytes").          *)
FirstLine(tty) == SubSeq(tty.inbuf, 1, Min({i \in DOMAIN tty.inbuf : tty.inbuf[i] = END}) - 1)

(* Mutant of remove_data: the end of the line stays in the buffer.         *)
remove_data_keep_end(st, t, count) ==
  [st EXCEPT !.tty[t].inbuf = SubSeq(@, count + 1, Len(@)), !.tty[t].eotcount = @ - 1]

remove_data(st, t, count) ==
  [st EXCEPT !.tty[t].inbuf = SubSeq(@, count + 2, Len(@)), !.tty[t].eotcount = @ - 1]

(* What a reader gets: the terminals without the line, the line, and the   *)
(* processes with the answer of rq_finish.  A request that is not marked   *)
(* blocked yet wakes nobody.                                               *)
rq_finish(ps, p) ==
  [ps EXCEPT ![p].blocked = IF ps[p].rq = "blocked" THEN FALSE ELSE @,
             ![p].eax = "count", ![p].rq = "none"]

Read(st, t) == LET line == FirstLine(st.tty[t])
               IN  [st |-> remove_data(st, t, Len(line)), line |-> line]

answer_rq(a, t) ==
  LET p == Head(a.st.tty[t].requests)
      r == Read([a.st EXCEPT !.tty[t].requests = Tail(@)], t)
  IN  [st    |-> update_cursor(r.st, t),
       procs |-> rq_finish(a.procs, p),
       lines |-> a.lines \o Append(r.line, END)]

can_answer_rq(st, t) == st.tty[t].requests # << >> /\ enough_data(st.tty[t])

(* Mutant of Answers: the key handler leaves the requests alone.           *)
Answers_none(st, t) == [st |-> st, procs |-> proc, lines |-> << >>]

(* The loop at the end of handle_input, at most one turn per request.      *)
Answers(st, t) ==
  LET num == Len(st.tty[t].requests)
      a[n \in 0 .. num] ==
        IF n = 0 THEN [st |-> st, procs |-> proc, lines |-> << >>]
        ELSE IF can_answer_rq(a[n - 1].st, t) THEN answer_rq(a[n - 1], t) ELSE a[n - 1]
  IN  a[num]

(* Bytes stored in inbuf; one behind its end overwrites incount.           *)
Store(st, t, bytes) ==
  [st EXCEPT !.tty[t].inbuf = @ \o bytes,
             !.wild = @ \/ Len(st.tty[t].inbuf) + Len(bytes) > TTY_INBUF_SIZE]

(* The buffer after --incount.                                            *)
ButLast(q) == SubSeq(q, 1, Len(q) - 1)

Erase(st, t) ==
  IF st.tty[t].inbuf = << >> THEN st
  ELSE [putc(st, t, BS) EXCEPT !.tty[t].inbuf = ButLast(@),
                                 !.tty[t].eotcount = IF st.tty[t].inbuf[Len(st.tty[t].inbuf)] = END THEN @ - 1 ELSE @]

(* handle_cbreak_input, and handle_input for every other character.        *)
Edit(st, t, c) ==
  CASE c = NL  -> [Store(putc(st, t, NL), t, <<NL, END>>) EXCEPT !.tty[t].eotcount = @ + 1]
    [] c = EOT -> [Store(st, t, <<END>>) EXCEPT !.tty[t].eotcount = @ + 1]
    [] c = BS  -> Erase(st, t)
    [] OTHER   -> Store(scroll_to_bottom(putc(st, t, c), t), t, <<c>>)

(* What the history of typing becomes.                                     *)
Typed(h, inbuf, c) ==
  CASE c = NL  -> h \o <<NL, END>>
    [] c = EOT -> Append(h, END)
    [] c = BS  -> IF inbuf = << >> THEN h ELSE ButLast(h)
    [] OTHER   -> Append(h, c)
-----------------------------------------------------------------------------
init(t) == [inbuf |-> << >>, eotcount |-> 0, requests |-> << >>,
            outbuf |-> Blank, outstart |-> 0, x |-> 0, y |-> 0, screenY |-> 0]

init_tty ==
  /\ s = [tty |-> [t \in Ttys |-> init(t)], cur_tty |-> FirstTty,
          vmem |-> Blank, start |-> 0, cursor |-> HIDDEN, wild |-> FALSE]
  /\ proc = [p \in Proc |-> [pc |-> "user", blocked |-> FALSE, rq |-> "none", eax |-> "count", file |-> FirstTty]]
  /\ typed = [t \in Ttys |-> << >>]
  /\ got = [t \in Ttys |-> << >>]
  /\ left = [keys |-> MaxKeys, writes |-> MaxWrites]

Pressing == ~s.wild /\ left.keys > 0 /\ left' = [left EXCEPT !.keys = @ - 1]

(* The key handler for a character.  A full buffer ignores every key.      *)
handle_input(c) ==
  LET t == s.cur_tty
      a == Answers(Edit(s, t, c), t)
  IN  /\ Pressing
      /\ IF Len(s.tty[t].inbuf) = TTY_INBUF_SIZE THEN UNCHANGED <<s, proc, typed, got>>
         ELSE /\ s' = a.st /\ proc' = a.procs
              /\ typed' = [typed EXCEPT ![t] = Typed(@, s.tty[t].inbuf, c)]
              /\ got' = [got EXCEPT ![t] = @ \o a.lines]

Key == \E c \in {"a", NL, BS, EOT} : handle_input(c)

(* handle_raw: Ctrl-F1 to F8 and F12 select, others scroll.                *)
RawKey ==
  /\ Pressing
  /\ \/ \E t \in Ttys \ {s.cur_tty} : s' = select_tty(s, t)
     \/ \E key \in {"PAGE_UP", "PAGE_DOWN", "HOME", "END"} : s' = ScrollKey(s, key)
  /\ UNCHANGED <<proc, typed, got>>

kout_clear ==
  LET blank == [s EXCEPT !.tty[KoutTty].outbuf = Blank, !.tty[KoutTty].outstart = 0]
  IN  /\ ~s.wild /\ left.writes > 0
      /\ s' = IfCurrent(blank, KoutTty, [blank EXCEPT !.vmem = Blank, !.start = 0])
      /\ left' = [left EXCEPT !.writes = @ - 1]
      /\ UNCHANGED <<proc, typed, got>>

CanCall(p) == ~s.wild /\ proc[p].pc = "user" /\ ~proc[p].blocked

(* tty_read, up to where pm_block enables interrupts.                      *)
tty_read(p, t) ==
  LET r == Read(s, t)
  IN  /\ CanCall(p)
      /\ IF enough_data(s.tty[t])
         THEN /\ s' = r.st /\ got' = [got EXCEPT ![t] = @ \o Append(r.line, END)]
              /\ proc' = [proc EXCEPT ![p].eax = "count"]
         ELSE /\ s' = [s EXCEPT !.tty[t].requests = Append(@, p)]
              /\ proc' = [proc EXCEPT ![p].pc = "window", ![p].blocked = TRUE,
                                      ![p].rq = "queued", ![p].file = t]
              /\ UNCHANGED got
      /\ UNCHANGED <<typed, left>>

(* The rest of rq_block, tty_read, sys_readwrite and syscall_execute.  The *)
(* request may be gone already.                                            *)
rq_block(p) ==
  /\ ~s.wild /\ proc[p].pc = "window"
  /\ proc' = [proc EXCEPT ![p].pc = "user", ![p].eax = EAGAIN,
                          ![p].rq = IF @ = "queued" THEN "blocked" ELSE @]
  /\ s' = update_cursor(s, proc[p].file)
  /\ UNCHANGED <<typed, got, left>>

tty_write(p, t) ==
  /\ CanCall(p) /\ left.writes > 0
  /\ \E str \in Text : s' = puts(s, t, str)
  /\ left' = [left EXCEPT !.writes = @ - 1]
  /\ UNCHANGED <<proc, typed, got>>

Stopped == (s.wild \/ left.keys = 0) /\ UNCHANGED ttyVars

Call(p) == \E t \in Ttys : tty_read(p, t) \/ tty_write(p, t)

TtyNext == Key \/ RawKey \/ kout_clear \/ Stopped \/ \E p \in Proc : Call(p) \/ rq_block(p)

TtySpec == init_tty /\ [][TtyNext]_ttyVars
-----------------------------------------------------------------------------
Defined == ~s.wild

(* No character is lost, doubled or moved between typing and reading,      *)
(* whoever reads, whichever terminal is shown, and however lines are       *)
(* edited: what was typed at a terminal is what was read from it, followed *)
(* by what its input buffer holds.  Keys that a full buffer ignores are    *)
(* not typed.                                                              *)
NoKeyLost == Defined => \A t \in Ttys : typed[t] = got[t] \o s.tty[t].inbuf

(* Nobody waits in tty_read at a terminal that has a line for them.        *)
NobodyWaitsBesideALine ==
  Defined => \A t \in Ttys : s.tty[t].requests # << >> => END \notin Range(s.tty[t].inbuf)

(* The adapter shows the selected terminal: its characters and its first   *)
(* line, and update_cursor has put the cursor to the place of the next     *)
(* character while somebody reads there, and to HIDDEN otherwise.          *)
ScreenShowsCurrent ==
  LET tty == s.tty[s.cur_tty]
  IN  Defined =>
        /\ s.vmem = tty.outbuf /\ s.start = tty.outstart
        /\ (\A p \in Proc : proc[p].pc # "window") =>
             s.cursor = IF tty.requests = << >> THEN HIDDEN ELSE CPOS(tty)

(* rq_finish "Unblocks the previously blocked process and returns the      *)
(* result from the request": a process sleeps in a read only while its     *)
(* request waits for an answer.                                            *)
SleepersAreServed ==
  Defined => \A p \in Proc : proc[p].pc = "user" /\ proc[p].blocked =>
               p \in Range(s.tty[proc[p].file].requests)
=============================================================================
