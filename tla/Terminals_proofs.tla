-------------------------- MODULE Terminals_proofs --------------------------
(***************************************************************************)
(* What the terminals of Tty promise, for every number of terminals and    *)
(* processes, every size of the buffers and the screen, and every text.    *)
(***************************************************************************)
EXTENDS Tty, Counting, TLAPS

(* Sequences.                                                              *)
LEMMA SeqEqual ==
  ASSUME NEW S, NEW q \in Seq(S), NEW r \in Seq(S), Len(q) = Len(r), \A i \in 1 .. Len(q) : q[i] = r[i]
  PROVE  q = r
  OBVIOUS

LEMMA SubSeqProperties ==
  ASSUME NEW S, NEW q, NEW m \in Int, NEW n \in Int, \A i \in m .. n : q[i] \in S
  PROVE  /\ SubSeq(q, m, n) \in Seq(S) /\ Len(SubSeq(q, m, n)) = IF m <= n THEN n - m + 1 ELSE 0
         /\ \A i \in 1 .. n - m + 1 : SubSeq(q, m, n)[i] = q[m + i - 1]
  OBVIOUS

LEMMA SubSeqFull ==
  ASSUME NEW S, NEW q \in Seq(S)
  PROVE  SubSeq(q, 1, Len(q)) = q
  OBVIOUS

LEMMA ConcatProperties ==
  ASSUME NEW S, NEW q \in Seq(S), NEW r \in Seq(S)
  PROVE  /\ q \o r \in Seq(S) /\ Len(q \o r) = Len(q) + Len(r)
         /\ \A i \in 1 .. Len(q) + Len(r) : (q \o r)[i] = IF i <= Len(q) THEN q[i] ELSE r[i - Len(q)]
  OBVIOUS

LEMMA ConcatEmptySeq ==
  ASSUME NEW S, NEW q \in Seq(S)
  PROVE  q \o << >> = q /\ << >> \o q = q
  OBVIOUS

LEMMA ConcatAssociative ==
  ASSUME NEW S, NEW q \in Seq(S), NEW r \in Seq(S), NEW u \in Seq(S)
  PROVE  (q \o r) \o u = q \o (r \o u)
  BY SMTT(30), ZenonT(20)

LEMMA SubSeqOfConcat1 ==
  ASSUME NEW S, NEW q \in Seq(S), NEW r \in Seq(S), NEW m \in 1 .. Len(q), NEW n \in 1 .. Len(q)
  PROVE  SubSeq(q \o r, m, n) = SubSeq(q, m, n)
  OBVIOUS

LEMMA AppendProperties ==
  ASSUME NEW S, NEW q \in Seq(S), NEW e \in S
  PROVE  /\ Append(q, e) \in Seq(S) /\ Append(q, e) # << >> /\ Len(Append(q, e)) = Len(q) + 1
         /\ Append(q, e)[Len(q) + 1] = e /\ \A i \in 1 .. Len(q) : Append(q, e)[i] = q[i]
  OBVIOUS

LEMMA AppendIsConcat ==
  ASSUME NEW S, NEW q \in Seq(S), NEW e \in S
  PROVE  Append(q, e) = q \o <<e>>
  OBVIOUS

LEMMA HeadTailProperties ==
  ASSUME NEW S, NEW q \in Seq(S), q # << >>
  PROVE  /\ Head(q) \in S /\ Tail(q) \in Seq(S) /\ Len(Tail(q)) = Len(q) - 1
         /\ \A i \in 1 .. Len(Tail(q)) : Tail(q)[i] = q[i + 1]
  OBVIOUS

-----------------------------------------------------------------------------

(* Terminals: output                                                       *)

(* What can be typed or written.                                           *)
Chars == {NL, BS, EOT, END, "a", " "} \cup UNION {Range(str) : str \in Text}

TtyT == [inbuf : Seq(Chars), eotcount : Int, requests : Seq(Proc), outbuf : [Cells -> Chars],
         outstart : Int, x : Int, y : Int, screenY : Int]

ScreenT == [tty : [Ttys -> TtyT], cur_tty : Ttys, vmem : [Cells -> Chars],
            start : Int, cursor : Int, wild : BOOLEAN]

WithTty(st, t, tty) == [st EXCEPT !.tty = [@ EXCEPT ![t] = tty]]

(* The screen shows the lines of the selected terminal, and its cursor.    *)
ShowsLines(st) ==
  st.vmem = st.tty[st.cur_tty].outbuf /\ st.start = st.tty[st.cur_tty].outstart

ShowsCursor(st) ==
  st.cursor = IF st.tty[st.cur_tty].requests = << >> THEN HIDDEN ELSE CPOS(st.tty[st.cur_tty])

SameInput(tty, tty2) ==
  tty2.inbuf = tty.inbuf /\ tty2.eotcount = tty.eotcount /\ tty2.requests = tty.requests

(* Output to terminal t leaves the input and the other terminals alone,    *)
(* and the screen in step.                                                 *)
Output(st, st2, t) ==
  /\ st2 \in ScreenT /\ st2.cur_tty = st.cur_tty
  /\ SameInput(st.tty[t], st2.tty[t])
  /\ \A u \in Ttys \ {t} : st2.tty[u] = st.tty[u]
  /\ ShowsLines(st) => ShowsLines(st2)

LEMMA OutputTwice ==
  ASSUME NEW a, NEW b, NEW c, NEW t \in Ttys, Output(a, b, t), Output(b, c, t)
  PROVE  Output(a, c, t)
  BY Zenon DEF Output, SameInput

LEMMA Sizes ==
  /\ TTY_INBUF_SIZE \in Nat \ {0} /\ TTY_SCREEN_X \in Nat \ {0} /\ TTY_SCREEN_Y \in Nat \ {0}
  /\ CON_MAX_START_LINE \in Nat /\ CON_LINES \in Nat
  BY TtyAssumption

LEMMA CursorPlace ==
  ASSUME NEW tty \in TtyT PROVE CPOS(tty) \in Int
<1>1. tty.x \in Int /\ tty.y \in Int /\ TTY_SCREEN_X \in Int
  BY Sizes DEF TtyT
<1> QED
  BY <1>1 DEF CPOS

LEMMA HiddenPlace == HIDDEN \in Int
<1>1. TTY_SCREEN_X \in Int /\ TTY_SCREEN_Y \in Int
  BY TtyAssumption
<1> QED
  BY <1>1 DEF HIDDEN

(* A state with one terminal changed.                                      *)
LEMMA OneChanged ==
  ASSUME NEW st \in ScreenT, NEW t \in Ttys, NEW tty \in TtyT
  PROVE  LET st2 == WithTty(st, t, tty)
         IN  /\ st2 \in ScreenT /\ st2.tty[t] = tty /\ \A u \in Ttys \ {t} : st2.tty[u] = st.tty[u]
             /\ st2.cur_tty = st.cur_tty /\ st2.vmem = st.vmem /\ st2.start = st.start
             /\ st2.cursor = st.cursor /\ st2.wild = st.wild
  BY Zenon DEF WithTty, ScreenT

(* Moving the cursor of a terminal.                                        *)
AtPlace(st, t, a, b, c) == WithTty(st, t, [st.tty[t] EXCEPT !.x = a, !.y = b, !.screenY = c])

LEMMA Moved ==
  ASSUME NEW st \in ScreenT, NEW t \in Ttys, NEW a \in Int, NEW b \in Int, NEW c \in Int
  PROVE  LET st2 == AtPlace(st, t, a, b, c)
         IN  Output(st, st2, t) /\ st2.cursor = st.cursor
<1> DEFINE tty == [st.tty[t] EXCEPT !.x = a, !.y = b, !.screenY = c]
           st2 == WithTty(st, t, tty)
<1>1. st.tty[t] \in TtyT
  BY DEF ScreenT
<1>2. /\ tty \in TtyT /\ SameInput(st.tty[t], tty)
      /\ tty.outbuf = st.tty[t].outbuf /\ tty.outstart = st.tty[t].outstart
  BY <1>1, Zenon DEF TtyT, SameInput
<1> HIDE DEF tty
<1>3. /\ st2 \in ScreenT /\ st2.tty[t] = tty /\ \A u \in Ttys \ {t} : st2.tty[u] = st.tty[u]
      /\ st2.cur_tty = st.cur_tty /\ st2.vmem = st.vmem /\ st2.start = st.start
      /\ st2.cursor = st.cursor
  BY <1>2, OneChanged
<1> HIDE DEF st2
<1>4. st.cur_tty \in Ttys
  BY DEF ScreenT
<1>5. ShowsLines(st) => ShowsLines(st2)
  BY <1>2, <1>3, <1>4 DEF ShowsLines
<1> QED
  BY <1>2, <1>3, <1>5, Zenon DEF Output, st2, tty, AtPlace

(* A character is drawn in the buffer and, if it is shown, on the screen.  *)
LEMMA Drawn ==
  ASSUME NEW st \in ScreenT, NEW t \in Ttys, NEW c \in Chars
  PROVE  LET st2 == Draw(st, t, c)
         IN  Output(st, st2, t) /\ st2.cursor = st.cursor
<1> DEFINE at == CPOS(st.tty[t])
           tty == [st.tty[t] EXCEPT !.outbuf = [@ EXCEPT ![at] = c]]
           b == WithTty(st, t, tty)
           v == [b.vmem EXCEPT ![at] = c]
           w == [b EXCEPT !.vmem = v]
<1>1. st.tty[t] \in TtyT /\ st.cur_tty \in Ttys
  BY DEF ScreenT
<1>2. CASE at \notin Cells
  <2>1. Draw(st, t, c) = [st EXCEPT !.wild = TRUE]
    BY <1>2 DEF Draw
  <2> QED
    BY <2>1, Zenon DEF Output, ScreenT, SameInput, ShowsLines
<1>3. CASE at \in Cells
  <2>1. Draw(st, t, c) = IF t = b.cur_tty THEN w ELSE b
    BY <1>3 DEF Draw, IfCurrent, WithTty
  <2> HIDE DEF at
  <2>2. /\ tty \in TtyT /\ SameInput(st.tty[t], tty) /\ tty.outstart = st.tty[t].outstart
        /\ tty.outbuf = [st.tty[t].outbuf EXCEPT ![at] = c]
    BY <1>1, <1>3, Zenon DEF TtyT, SameInput
  <2> HIDE DEF tty
  <2>3. /\ b \in ScreenT /\ b.tty[t] = tty /\ \A u \in Ttys \ {t} : b.tty[u] = st.tty[u]
        /\ b.cur_tty = st.cur_tty /\ b.vmem = st.vmem /\ b.start = st.start
        /\ b.cursor = st.cursor
    BY <2>2, OneChanged
  <2> HIDE DEF b
  <2>4. v \in [Cells -> Chars]
    BY <1>3, <2>3, Zenon DEF ScreenT
  <2>5. CASE t = st.cur_tty
    <3>1. Draw(st, t, c) = w /\ (ShowsLines(st) => v = tty.outbuf)
      BY <2>1, <2>2, <2>3, <2>5 DEF ShowsLines
    <3> HIDE DEF v
    <3>2. /\ w \in ScreenT /\ w.tty = b.tty /\ w.cur_tty = b.cur_tty /\ w.vmem = v
          /\ w.start = b.start /\ w.cursor = b.cursor
      BY <2>3, <2>4, ZenonT(40) DEF ScreenT
    <3> HIDE DEF w
    <3>3. ShowsLines(st) => ShowsLines(w)
      BY <2>2, <2>3, <2>5, <3>1, <3>2 DEF ShowsLines
    <3> QED
      BY <2>2, <2>3, <3>1, <3>2, <3>3 DEF Output
  <2>6. CASE t # st.cur_tty
    <3>1. Draw(st, t, c) = b
      BY <2>1, <2>3, <2>6
    <3>2. ShowsLines(st) => ShowsLines(b)
      BY <1>1, <2>3, <2>6 DEF ShowsLines
    <3> QED
      BY <2>2, <2>3, <3>1, <3>2 DEF Output
  <2> QED
    BY <2>5, <2>6
<1> QED
  BY <1>2, <1>3

(* Once the start line of the screen is set, the screen shows terminal t   *)
(* if its memory holds t's lines.                                          *)
LEMMA StartSet ==
  ASSUME NEW st \in ScreenT, NEW mid \in ScreenT, NEW t \in Ttys,
         mid.cur_tty = st.cur_tty, SameInput(st.tty[t], mid.tty[t]), mid.start = st.start,
         \A u \in Ttys \ {t} : mid.tty[u] = st.tty[u],
         ShowsLines(st) => mid.vmem = mid.tty[st.cur_tty].outbuf
  PROVE  LET st2 == set_start_line(mid, t)
         IN  Output(st, st2, t) /\ st2.cursor = mid.cursor
<1> DEFINE o == mid.tty[t].outstart
           w == [mid EXCEPT !.start = o]
<1>1. set_start_line(mid, t) = IF t = st.cur_tty THEN w ELSE mid
  BY DEF set_start_line, IfCurrent
<1>2. o \in Int /\ st.cur_tty \in Ttys
  BY DEF ScreenT, TtyT
<1>3. CASE t = st.cur_tty
  <2>0. o = mid.tty[t].outstart
    OBVIOUS
  <2> HIDE DEF o
  <2>1. /\ w \in ScreenT /\ w.tty = mid.tty /\ w.cur_tty = mid.cur_tty /\ w.vmem = mid.vmem
        /\ w.start = o /\ w.cursor = mid.cursor
    BY <1>2 DEF ScreenT
  <2> HIDE DEF w
  <2>2. ShowsLines(st) => ShowsLines(w)
    BY <1>3, <2>0, <2>1 DEF ShowsLines
  <2> QED
    BY <1>1, <1>3, <2>1, <2>2 DEF Output
<1>4. CASE t # st.cur_tty
  <2>1. ShowsLines(st) => ShowsLines(mid)
    BY <1>2, <1>4 DEF ShowsLines
  <2> QED
    BY <1>1, <1>4, <2>1 DEF Output
<1> QED
  BY <1>3, <1>4

(* Another first line for terminal t.                                      *)
AtLine(st, t, o, b) == set_start_line(WithTty(st, t, [st.tty[t] EXCEPT !.outstart = o, !.screenY = b]), t)

LEMMA Scrolled ==
  ASSUME NEW st \in ScreenT, NEW t \in Ttys, NEW o \in Int, NEW b \in Int
  PROVE  LET st2 == AtLine(st, t, o, b)
         IN  /\ Output(st, st2, t) /\ st2.cursor = st.cursor
<1> DEFINE tty == [st.tty[t] EXCEPT !.outstart = o, !.screenY = b]
           mid == WithTty(st, t, tty)
<1>1. st.tty[t] \in TtyT /\ st.cur_tty \in Ttys
  BY DEF ScreenT
<1>2. tty \in TtyT /\ SameInput(st.tty[t], tty) /\ tty.outbuf = st.tty[t].outbuf
  BY <1>1, Zenon DEF TtyT, SameInput
<1> HIDE DEF tty
<1>3. /\ mid \in ScreenT /\ mid.tty[t] = tty /\ \A u \in Ttys \ {t} : mid.tty[u] = st.tty[u]
      /\ mid.cur_tty = st.cur_tty /\ mid.vmem = st.vmem /\ mid.start = st.start
      /\ mid.cursor = st.cursor
  BY <1>2, OneChanged
<1> HIDE DEF mid
<1>4. ShowsLines(st) => mid.vmem = mid.tty[st.cur_tty].outbuf
  BY <1>1, <1>2, <1>3 DEF ShowsLines
<1>5. SameInput(st.tty[t], mid.tty[t])
  BY <1>2, <1>3
<1>6. Output(st, set_start_line(mid, t), t) /\ set_start_line(mid, t).cursor = mid.cursor
  BY <1>3, <1>4, <1>5, StartSet
<1> QED
  BY <1>3, <1>6 DEF mid, tty, AtLine

LEMMA LinesUp ==
  ASSUME NEW buf \in [Cells -> Chars] PROVE LineUp(buf) \in [Cells -> Chars]
<1>1. " " \in Chars
  BY Zenon DEF Chars
<1>2. \A c \in Cells : (IF c + TTY_SCREEN_X \in Cells THEN buf[c + TTY_SCREEN_X] ELSE " ") \in Chars
  BY <1>1, Zenon
<1> QED
  BY <1>2, Zenon DEF LineUp

(* scroll moves the lines at the end of the memory, and the start line     *)
(* before.                                                                 *)
LEMMA ScrollOutput ==
  ASSUME NEW st \in ScreenT, NEW t \in Ttys
  PROVE  LET st2 == scroll(st, t)
         IN  Output(st, st2, t) /\ st2.cursor = st.cursor
<1> DEFINE old == st.tty[t]
<1>1. old \in TtyT /\ st.cur_tty \in Ttys /\ st.vmem \in [Cells -> Chars]
  BY DEF ScreenT
<1>2. old.outstart \in Int /\ old.screenY \in Int /\ old.y \in Int /\ old.outbuf \in [Cells -> Chars]
  BY <1>1, Zenon DEF TtyT
<1>3. CASE ~(old.outstart + 1 > CON_MAX_START_LINE)
  <2> DEFINE o == old.outstart + 1
             b == old.screenY - 1
  <2>1. scroll(st, t) = AtLine(st, t, o, b)
    <3> DEFINE m1 == [old EXCEPT !.outstart = o]
               st1 == WithTty(st, t, m1)
    <3>1. scroll(st, t) = set_start_line([st1 EXCEPT !.tty[t].screenY = @ - 1], t)
      <4>1. [st EXCEPT !.tty[t].outstart = @ + 1] = st1
        BY Zenon DEF WithTty
      <4> QED
        BY <1>3, <4>1, Zenon DEF scroll
    <3>a. o \in Int
      BY <1>2
    <3>b. m1 \in TtyT /\ m1.screenY = old.screenY
      <4> HIDE DEF o, old
      <4> QED
        BY <1>1, <3>a, Zenon DEF TtyT
    <3>2. [m1 EXCEPT !.screenY = m1.screenY - 1] = [old EXCEPT !.outstart = o, !.screenY = b]
      BY <3>b, Zenon
    <3> HIDE DEF m1
    <3>3. st1 \in ScreenT /\ st1.tty[t] = m1
      BY <3>b, OneChanged, Zenon
    <3>4. [st1 EXCEPT !.tty[t].screenY = @ - 1] = WithTty(st1, t, [m1 EXCEPT !.screenY = m1.screenY - 1])
      BY <3>3, Zenon DEF WithTty
    <3>5. \A tty : WithTty(st1, t, tty) = WithTty(st, t, tty)
      BY ZenonT(40) DEF WithTty, ScreenT
    <3> QED
      BY <3>1, <3>2, <3>4, <3>5, Zenon DEF AtLine
  <2>2. o \in Int /\ b \in Int
    BY <1>2
  <2> HIDE DEF o, b
  <2> QED
    BY <2>1, <2>2, Scrolled
<1>4. CASE old.outstart + 1 > CON_MAX_START_LINE
  <2> DEFINE buf == LineUp(old.outbuf)
             y == old.y - 1
             b == old.screenY - 1
             tty == [old EXCEPT !.outbuf = buf, !.y = y, !.screenY = b]
             v == IF t = st.cur_tty THEN LineUp(st.vmem) ELSE st.vmem
             one == WithTty(st, t, tty)
             mid == [one EXCEPT !.vmem = v]
  <2>1. buf \in [Cells -> Chars] /\ v \in [Cells -> Chars] /\ y \in Int /\ b \in Int
    BY <1>1, <1>2, LinesUp
  <2>2. scroll(st, t) = set_start_line(mid, t)
    <3> DEFINE moved == [st EXCEPT !.tty[t].outbuf = LineUp(@), !.tty[t].y = @ - 1]
               down == IfCurrent(moved, t, [moved EXCEPT !.vmem = LineUp(@)])
    <3>1. scroll(st, t) = set_start_line([down EXCEPT !.tty[t].screenY = @ - 1], t)
      BY <1>4, Zenon DEF scroll
    <3> DEFINE m1 == [old EXCEPT !.outbuf = buf, !.y = y]
               st1 == WithTty(st, t, m1)
    <3>2. moved = st1
      BY <1>1, ZenonT(40) DEF WithTty, ScreenT, TtyT
    <3>3. m1 \in TtyT /\ m1.screenY = old.screenY
      <4> HIDE DEF buf, y
      <4> QED
        BY <1>1, <2>1, Zenon DEF TtyT
    <3>4. tty = [m1 EXCEPT !.screenY = b]
      BY <1>1, Zenon DEF TtyT
    <3> HIDE DEF m1, tty
    <3>5. st1 \in ScreenT /\ st1.tty[t] = m1 /\ st1.vmem = st.vmem /\ st1.cur_tty = st.cur_tty
      BY <3>3, OneChanged
    <3>6. mid = [[st1 EXCEPT !.tty = [@ EXCEPT ![t] = tty]] EXCEPT !.vmem = v]
      BY Zenon DEF WithTty, ScreenT
    <3> HIDE DEF st1, moved
    <3>7. down = [st1 EXCEPT !.vmem = v]
      BY <3>2, <3>5 DEF IfCurrent, ScreenT
    <3> HIDE DEF down, v
    <3>8. [down EXCEPT !.tty[t].screenY = @ - 1] = mid
      <4> DEFINE X == [st1.tty EXCEPT ![t] = tty]
      <4>1. down.tty = st1.tty /\ down.tty[t].screenY - 1 = b
        BY <3>3, <3>5, <3>7 DEF ScreenT
      <4>2. [down EXCEPT !.tty[t].screenY = @ - 1] = [down EXCEPT !.tty = X]
        BY <3>4, <3>5, <4>1, Zenon
      <4> HIDE DEF X
      <4>3. [[st1 EXCEPT !.vmem = v] EXCEPT !.tty = X] = [[st1 EXCEPT !.tty = X] EXCEPT !.vmem = v]
        BY <3>5, ZenonT(40) DEF ScreenT
      <4> QED
        BY <3>6, <3>7, <4>2, <4>3 DEF X
    <3> QED
      BY <3>1, <3>8, Zenon
  <2>3. (ShowsLines(st) /\ t = st.cur_tty => v = buf) /\ (t # st.cur_tty => v = st.vmem)
    BY Zenon DEF ShowsLines
  <2> HIDE DEF buf, y, b, v
  <2>4. tty \in TtyT /\ SameInput(old, tty) /\ tty.outbuf = buf
    BY <1>1, <2>1, Zenon DEF TtyT, SameInput
  <2> HIDE DEF tty
  <2>5. /\ one \in ScreenT /\ one.tty[t] = tty /\ \A u \in Ttys \ {t} : one.tty[u] = st.tty[u]
        /\ one.cur_tty = st.cur_tty /\ one.start = st.start
        /\ one.cursor = st.cursor
    BY <2>4, OneChanged
  <2> HIDE DEF one
  <2>6. /\ mid \in ScreenT /\ mid.tty = one.tty /\ mid.cur_tty = one.cur_tty /\ mid.vmem = v
        /\ mid.start = one.start /\ mid.cursor = one.cursor
    BY <2>1, <2>5, Zenon DEF ScreenT
  <2> HIDE DEF mid
  <2>7. ShowsLines(st) => mid.vmem = mid.tty[st.cur_tty].outbuf
    BY <1>1, <2>3, <2>4, <2>5, <2>6 DEF ShowsLines
  <2>8. /\ mid.cur_tty = st.cur_tty /\ SameInput(st.tty[t], mid.tty[t]) /\ mid.start = st.start
        /\ \A u \in Ttys \ {t} : mid.tty[u] = st.tty[u]
    BY <2>4, <2>5, <2>6, Zenon
  <2>9. Output(st, set_start_line(mid, t), t) /\ set_start_line(mid, t).cursor = mid.cursor
    BY <2>6, <2>7, <2>8, StartSet
  <2> QED
    BY <2>2, <2>5, <2>6, <2>9, Zenon
<1> QED
  BY <1>3, <1>4

LEMMA NoOutput ==
  ASSUME NEW st \in ScreenT, NEW t \in Ttys PROVE Output(st, st, t)
  BY DEF Output, SameInput

(* The parts of putc.                                                      *)
LEMMA Placed ==
  ASSUME NEW st \in ScreenT, NEW t \in Ttys, NEW c \in Chars
  PROVE  Output(st, Place(st, t, c), t) /\ Place(st, t, c).cursor = st.cursor
<1> DEFINE old == st.tty[t]
<1>1. old \in TtyT /\ old.x \in Int /\ old.y \in Int /\ old.screenY \in Int
  BY Zenon DEF ScreenT, TtyT
<1>2. CASE c = NL
  <2> DEFINE b == old.y + 1
             d == old.screenY + 1
             tty == [old EXCEPT !.x = 0, !.y = b, !.screenY = d]
  <2>a. Place(st, t, c) = [st EXCEPT !.tty[t] = tty]
    BY <1>2 DEF Place, NL, CR, BS
  <2>b. AtPlace(st, t, 0, b, d) = [st EXCEPT !.tty = [@ EXCEPT ![t] = tty]]
    BY DEF AtPlace, WithTty
  <2> HIDE DEF tty
  <2>1. Place(st, t, c) = AtPlace(st, t, 0, b, d)
    BY <2>a, <2>b
  <2>2. b \in Int /\ d \in Int
    BY <1>1
  <2> HIDE DEF b, d
  <2> QED
    BY <2>1, <2>2, Moved
<1>3. CASE c = BS /\ old.x = 0
  <2>1. Place(st, t, c) = st
    BY <1>3 DEF Place, NL, CR, BS
  <2> QED
    BY <2>1, NoOutput
<1>4. CASE c = BS /\ old.x # 0
  <2> DEFINE a == old.x - 1
             b == old.y
             d == old.screenY
             mid == AtPlace(st, t, a, b, d)
             space == " "
  <2>1. [st EXCEPT !.tty[t].x = @ - 1] = mid
    BY <1>1, ZenonT(40) DEF AtPlace, WithTty, ScreenT, TtyT
  <2>2. Place(st, t, c) = Draw(mid, t, space)
    BY <1>4, <2>1 DEF Place, NL, CR, BS
  <2>a. space \in Chars
    BY Zenon DEF Chars
  <2>3. a \in Int /\ b \in Int /\ d \in Int
    BY <1>1
  <2> HIDE DEF a, b, d, space
  <2>4. Output(st, mid, t) /\ mid.cursor = st.cursor
    BY <2>3, Moved
  <2> HIDE DEF mid
  <2>5. mid \in ScreenT
    BY <2>4 DEF Output
  <2>6. Output(mid, Draw(mid, t, space), t) /\ Draw(mid, t, space).cursor = mid.cursor
    BY <2>a, <2>5, Drawn
  <2> QED
    BY <2>2, <2>4, <2>6, OutputTwice
<1>6. CASE c = CR
  <2> DEFINE b == old.y
             d == old.screenY
  <2>1. Place(st, t, c) = [st EXCEPT !.tty[t].x = 0]
    BY <1>6 DEF Place, NL, CR, BS
  <2>2. [st EXCEPT !.tty[t].x = 0] = AtPlace(st, t, 0, b, d)
    BY <1>1, ZenonT(40) DEF AtPlace, WithTty, ScreenT, TtyT
  <2>3. b \in Int /\ d \in Int
    BY <1>1
  <2> HIDE DEF b, d
  <2> QED
    BY <2>1, <2>2, <2>3, Moved
<1>5. CASE c # NL /\ c # CR /\ c # BS
  <2> DEFINE mid == Draw(st, t, c)
             a == mid.tty[t].x + 1
             b == mid.tty[t].y
             d == mid.tty[t].screenY
  <2>1. Place(st, t, c) = [mid EXCEPT !.tty[t].x = @ + 1]
    BY <1>5 DEF Place
  <2>2. Output(st, mid, t) /\ mid.cursor = st.cursor
    BY Drawn
  <2> HIDE DEF mid
  <2>3. mid \in ScreenT
    BY <2>2 DEF Output
  <2>4. mid.tty[t] \in TtyT /\ mid.tty[t].x \in Int /\ mid.tty[t].y \in Int /\ mid.tty[t].screenY \in Int
    BY <2>3, Zenon DEF ScreenT, TtyT
  <2>5. [mid EXCEPT !.tty[t].x = @ + 1] = AtPlace(mid, t, a, b, d)
    BY <2>3, <2>4, Zenon DEF AtPlace, WithTty, ScreenT, TtyT
  <2>6. a \in Int /\ b \in Int /\ d \in Int
    BY <2>4
  <2> HIDE DEF a, b, d
  <2>7. Output(mid, AtPlace(mid, t, a, b, d), t) /\ AtPlace(mid, t, a, b, d).cursor = mid.cursor
    BY <2>3, <2>6, Moved
  <2> QED
    BY <2>1, <2>2, <2>5, <2>7, OutputTwice
<1> QED
  BY <1>2, <1>3, <1>4, <1>5, <1>6

LEMMA Wrapped ==
  ASSUME NEW st \in ScreenT, NEW t \in Ttys
  PROVE  Output(st, Wrap(st, t), t) /\ Wrap(st, t).cursor = st.cursor
<1> DEFINE old == st.tty[t]
<1>1. old \in TtyT /\ old.x \in Int /\ old.y \in Int /\ old.screenY \in Int
  BY Zenon DEF ScreenT, TtyT
<1>2. CASE ~(old.x >= TTY_SCREEN_X)
  BY <1>2, NoOutput DEF Wrap
<1>3. CASE old.x >= TTY_SCREEN_X
  <2> DEFINE b == old.y + 1
             d == old.screenY
  <2>1. Wrap(st, t) = AtPlace(st, t, 0, b, d)
    BY <1>1, <1>3, ZenonT(40) DEF Wrap, AtPlace, WithTty, ScreenT, TtyT
  <2>2. b \in Int /\ d \in Int
    BY <1>1
  <2> HIDE DEF b, d
  <2> QED
    BY <2>1, <2>2, Moved
<1> QED
  BY <1>2, <1>3

LEMMA IntoView ==
  ASSUME NEW st \in ScreenT, NEW t \in Ttys
  PROVE  Output(st, ScrollIntoView(st, t), t) /\ ScrollIntoView(st, t).cursor = st.cursor
  BY ScrollOutput, NoOutput, Zenon DEF ScrollIntoView

(* update_cursor puts the cursor of the terminal that is shown in place.   *)
LEMMA CursorUpdated ==
  ASSUME NEW st \in ScreenT, NEW t \in Ttys
  PROVE  LET st2 == update_cursor(st, t)
         IN  /\ st2 \in ScreenT /\ st2.tty = st.tty /\ st2.cur_tty = st.cur_tty
             /\ st2.vmem = st.vmem /\ st2.start = st.start
             /\ t = st.cur_tty => ShowsCursor(st2)
             /\ t # st.cur_tty => st2.cursor = st.cursor
<1> DEFINE c == IF st.tty[t].requests = << >> THEN HIDDEN ELSE CPOS(st.tty[t])
           w == [st EXCEPT !.cursor = c]
<1>1. update_cursor(st, t) = IF t = st.cur_tty THEN w ELSE st
  BY DEF update_cursor, IfCurrent
<1>2. c \in Int
  <2>1. st.tty[t] \in TtyT
    BY DEF ScreenT
  <2> QED
    BY <2>1, CursorPlace, HiddenPlace
<1>3. c = IF st.tty[t].requests = << >> THEN HIDDEN ELSE CPOS(st.tty[t])
  BY Zenon
<1> HIDE DEF c
<1>4. /\ w \in ScreenT /\ w.tty = st.tty /\ w.cur_tty = st.cur_tty
      /\ w.vmem = st.vmem /\ w.start = st.start /\ w.cursor = c
  BY <1>2 DEF ScreenT
<1> HIDE DEF w
<1>5. t = st.cur_tty => ShowsCursor(w)
  BY <1>3, <1>4, Zenon DEF ShowsCursor
<1> QED
  BY <1>1, <1>4, <1>5, Zenon

(* A cursor that is shown in its place still is after output.              *)
LEMMA PutcOutput ==
  ASSUME NEW st \in ScreenT, NEW t \in Ttys, NEW c \in Chars
  PROVE  Output(st, putc(st, t, c), t) /\ (ShowsCursor(st) => ShowsCursor(putc(st, t, c)))
<1>1. CASE st.wild
  BY <1>1, NoOutput, Zenon DEF putc
<1>2. CASE ~st.wild
  <2> DEFINE a == Place(st, t, c)
             b == Wrap(a, t)
             d == ScrollIntoView(b, t)
             e == update_cursor(d, t)
  <2>1. putc(st, t, c) = e
    BY <1>2 DEF putc
  <2>2. Output(st, a, t) /\ a.cursor = st.cursor
    BY Placed
  <2> HIDE DEF a
  <2>3. a \in ScreenT
    BY <2>2 DEF Output
  <2>4. Output(a, b, t) /\ b.cursor = a.cursor
    BY <2>3, Wrapped
  <2> HIDE DEF b
  <2>5. b \in ScreenT
    BY <2>4 DEF Output
  <2>6. Output(b, d, t) /\ d.cursor = b.cursor
    BY <2>5, IntoView
  <2> HIDE DEF d
  <2>7. d \in ScreenT
    BY <2>6 DEF Output
  <2>8. Output(st, d, t)
    BY <2>2, <2>4, <2>6, OutputTwice
  <2>9. /\ e \in ScreenT /\ e.tty = d.tty /\ e.cur_tty = d.cur_tty
        /\ e.vmem = d.vmem /\ e.start = d.start
        /\ t = d.cur_tty => ShowsCursor(e)
        /\ t # d.cur_tty => e.cursor = d.cursor
    BY <2>7, CursorUpdated, Zenon
  <2> HIDE DEF e
  <2>10. Output(st, e, t)
    BY <2>8, <2>9 DEF Output, ShowsLines
  <2>11. st.cur_tty \in Ttys /\ d.cur_tty = st.cur_tty
    BY <2>8, Zenon DEF ScreenT, Output
  <2>12. CASE t # st.cur_tty
    <3>1. e.tty[st.cur_tty] = st.tty[st.cur_tty] /\ e.cursor = st.cursor /\ e.cur_tty = st.cur_tty
      BY <2>2, <2>4, <2>6, <2>8, <2>9, <2>11, <2>12 DEF Output
    <3> QED
      BY <2>1, <2>10, <3>1, Zenon DEF ShowsCursor
  <2> QED
    BY <2>1, <2>9, <2>10, <2>11, <2>12, Zenon
<1> QED
  BY <1>1, <1>2, Zenon

(* As does a string, with its characters one by one.                       *)
LEMMA PutsOutput ==
  ASSUME Counting, NEW st \in ScreenT, NEW t \in Ttys, NEW str \in Seq(Chars)
  PROVE  Output(st, puts(st, t, str), t) /\ (ShowsCursor(st) => ShowsCursor(puts(st, t, str)))
<1> DEFINE num == Len(str)
           Inv(x) == Output(st, x, t) /\ (ShowsCursor(st) => ShowsCursor(x))
           X == [n \in 0 .. num |-> {x \in ScreenT : Inv(x)}]
           G == [n \in 1 .. num |-> [x \in ScreenT |-> putc(x, t, str[n])]]
           F(f) == [n \in 0 .. num |-> IF n = 0 THEN st ELSE putc(f[n - 1], t, str[n])]
<1>0. num \in Nat /\ \A n \in 1 .. num : str[n] \in Chars
  OBVIOUS
<1> HIDE DEF num
<1>1. st \in X[0]
  BY <1>0, NoOutput
<1>2. ASSUME NEW n \in 1 .. num, NEW x \in X[n - 1]
      PROVE  x \in ScreenT /\ putc(x, t, str[n]) \in X[n]
  <2>1. n - 1 \in 0 .. num /\ n \in 0 .. num
    BY <1>0
  <2>2. x \in ScreenT /\ Inv(x)
    BY <2>1
  <2> DEFINE y == putc(x, t, str[n])
  <2>3. Output(x, y, t) /\ (ShowsCursor(x) => ShowsCursor(y))
    BY <1>0, <2>2, PutcOutput
  <2> HIDE DEF y
  <2>4. Output(st, y, t)
    BY <2>2, <2>3, OutputTwice
  <2>5. y \in ScreenT
    BY <2>4 DEF Output
  <2>6. y \in X[n]
    BY <2>1, <2>2, <2>3, <2>4, <2>5
  <2> QED
    BY <2>2, <2>6 DEF y
<1>3. \A n \in 1 .. num : \A x \in X[n - 1] : G[n][x] = putc(x, t, str[n])
  BY <1>2, Zenon
<1>4. \A x \in X[num] : Inv(x)
  BY <1>0
<1> HIDE DEF X, G
<1>5. \A n \in 1 .. num : \A x \in X[n - 1] : G[n][x] \in X[n]
  BY <1>2, <1>3, Zenon
<1>6. PICK f : IsLoop(f, st, G, num) /\ \A n \in 0 .. num : f[n] \in X[n]
  BY <1>0, <1>1, <1>5, Zenon DEF Counting, LoopExists
<1>7. f = F(f)
  <2>1. \A n \in 0 .. num : n # 0 => n \in 1 .. num /\ n - 1 \in 0 .. num
    BY <1>0
  <2>2. \A n \in 0 .. num : (IF n = 0 THEN st ELSE G[n][f[n - 1]])
                              = (IF n = 0 THEN st ELSE putc(f[n - 1], t, str[n]))
    BY <1>3, <1>6, <2>1
  <2> QED
    BY <1>6, <2>2, Zenon DEF IsLoop
<1> DEFINE walk == CHOOSE g : g = F(g)
<1>8. walk = F(walk)
  <2> HIDE DEF F
  <2> QED
    BY <1>7
<1>9. puts(st, t, str) = walk[num]
  BY DEF puts, num
<1> HIDE DEF walk
<1>10. walk[0] = st /\ \A n \in 1 .. num : walk[n] = putc(walk[n - 1], t, str[n])
  <2>1. \A n \in 0 .. num : walk[n] = IF n = 0 THEN st ELSE putc(walk[n - 1], t, str[n])
    BY <1>8, Zenon
  <2> QED
    BY <1>0, <2>1
<1>11. \A n \in 0 .. num : walk[n] \in X[n]
  <2>1. \A n \in 1 .. num : walk[n - 1] \in X[n - 1] => walk[n] \in X[n]
    BY <1>2, <1>10, Zenon
  <2> QED
    BY <1>0, <1>1, <1>10, <2>1, Zenon DEF Counting, LoopKeeps
<1>12. Inv(walk[num])
  BY <1>0, <1>4, <1>11
<1> QED
  BY <1>9, <1>12

(* The keys that scroll, and scroll_to_bottom.                             *)
LEMMA StartOnly ==
  ASSUME NEW st \in ScreenT, NEW t \in Ttys, NEW o \in Int
  PROVE  LET st2 == set_start_line([st EXCEPT !.tty[t].outstart = o], t)
         IN  Output(st, st2, t) /\ (ShowsCursor(st) => ShowsCursor(st2))
<1> DEFINE b == st.tty[t].screenY
           mid == AtLine(st, t, o, b)
<1>1. st.tty[t] \in TtyT /\ b \in Int /\ st.cur_tty \in Ttys
  BY Zenon DEF ScreenT, TtyT
<1>2. set_start_line([st EXCEPT !.tty[t].outstart = o], t) = mid
  <2>1. [st.tty[t] EXCEPT !.outstart = o, !.screenY = b] = [st.tty[t] EXCEPT !.outstart = o]
    BY <1>1, Zenon DEF TtyT
  <2> QED
    BY <2>1 DEF AtLine, WithTty
<1>3. mid.tty = [st.tty EXCEPT ![t] = [@ EXCEPT !.outstart = o, !.screenY = b]]
  BY Zenon DEF AtLine, WithTty, set_start_line, IfCurrent, ScreenT
<1> HIDE DEF b
<1>4. Output(st, mid, t) /\ mid.cursor = st.cursor
  BY <1>1, Scrolled
<1> HIDE DEF mid
<1>5. /\ mid.tty[st.cur_tty].requests = st.tty[st.cur_tty].requests
      /\ CPOS(mid.tty[st.cur_tty]) = CPOS(st.tty[st.cur_tty])
  <2>1. CASE t = st.cur_tty
    BY <1>1, <1>3, <2>1 DEF TtyT, ScreenT, CPOS
  <2>2. CASE t # st.cur_tty
    BY <1>1, <1>3, <2>2, Zenon DEF ScreenT
  <2> QED
    BY <2>1, <2>2
<1>6. ShowsCursor(st) => ShowsCursor(mid)
  BY <1>4, <1>5 DEF ShowsCursor, Output
<1> QED
  BY <1>2, <1>4, <1>6

LEMMA BottomOutput ==
  ASSUME NEW st \in ScreenT, NEW t \in Ttys
  PROVE  LET st2 == scroll_to_bottom(st, t)
         IN  Output(st, st2, t) /\ (ShowsCursor(st) => ShowsCursor(st2))
<1> DEFINE y == st.tty[t].y
           o == IF y > TTY_SCREEN_Y - 1 THEN y - (TTY_SCREEN_Y - 1) ELSE 0
<1>1. y \in Int
  BY DEF ScreenT, TtyT
<1>2. o \in Int
  BY <1>1, Sizes
<1>3. scroll_to_bottom(st, t) = set_start_line([st EXCEPT !.tty[t].outstart = o], t)
  BY Zenon DEF scroll_to_bottom
<1> HIDE DEF o
<1> QED
  BY <1>2, <1>3, StartOnly

LEMMA ScrollKeyOutput ==
  ASSUME NEW st \in ScreenT, NEW key \in {"PAGE_UP", "PAGE_DOWN", "HOME", "END"}
  PROVE  LET st2 == ScrollKey(st, key)
         IN  Output(st, st2, st.cur_tty) /\ (ShowsCursor(st) => ShowsCursor(st2))
<1> DEFINE t == st.cur_tty
           o == st.tty[t].outstart
           up == IF o = 0 THEN 0 ELSE o - 1
           dn == IF o < CON_MAX_START_LINE THEN o + 1 ELSE o
<1>1. t \in Ttys /\ o \in Int
  BY Zenon DEF ScreenT, TtyT
<1>2. up \in Int /\ dn \in Int /\ 0 \in Int
  BY <1>1, Sizes
<1>3. CASE key = "PAGE_UP"
  <2>1. ScrollKey(st, key) = set_start_line([st EXCEPT !.tty[t].outstart = up], t)
    BY <1>3 DEF ScrollKey
  <2> HIDE DEF up, t
  <2> QED
    BY <1>1, <1>2, <2>1, StartOnly DEF t
<1>4. CASE key = "PAGE_DOWN"
  <2>1. ScrollKey(st, key) = set_start_line([st EXCEPT !.tty[t].outstart = dn], t)
    BY <1>4, Zenon DEF ScrollKey
  <2> HIDE DEF dn
  <2> QED
    BY <1>1, <1>2, <2>1, StartOnly
<1>5. CASE key = "HOME"
  <2>1. ScrollKey(st, key) = set_start_line([st EXCEPT !.tty[t].outstart = 0], t)
    BY <1>5 DEF ScrollKey
  <2> QED
    BY <1>1, <1>2, <2>1, StartOnly
<1>6. CASE key = "END"
  <2>1. ScrollKey(st, key) = scroll_to_bottom(st, t)
    BY <1>6, Zenon DEF ScrollKey
  <2> QED
    BY <1>1, <2>1, BottomOutput
<1> QED
  BY <1>3, <1>4, <1>5, <1>6

(* Selecting a terminal copies it to the screen.                           *)
LEMMA Selected ==
  ASSUME NEW st \in ScreenT, NEW t \in Ttys
  PROVE  LET st2 == select_tty(st, t)
         IN  /\ st2 \in ScreenT /\ st2.tty = st.tty /\ st2.cur_tty = t
             /\ ShowsLines(st2) /\ ShowsCursor(st2)
<1> DEFINE v == st.tty[t].outbuf
           o == st.tty[t].outstart
           mid == [st EXCEPT !.cur_tty = t, !.vmem = v, !.start = o]
<1>1. v \in [Cells -> Chars] /\ o \in Int
  BY Zenon DEF ScreenT, TtyT
<1>2. select_tty(st, t) = update_cursor(mid, t) /\ v = st.tty[t].outbuf /\ o = st.tty[t].outstart
  BY DEF select_tty
<1> HIDE DEF v, o
<1>3. mid \in ScreenT /\ mid.tty = st.tty /\ mid.cur_tty = t /\ mid.vmem = v /\ mid.start = o
  BY <1>1, Zenon DEF ScreenT
<1> HIDE DEF mid
<1> DEFINE st2 == update_cursor(mid, t)
<1>4. /\ st2 \in ScreenT /\ st2.tty = mid.tty /\ st2.cur_tty = mid.cur_tty
      /\ st2.vmem = mid.vmem /\ st2.start = mid.start /\ ShowsCursor(st2)
  BY <1>3, CursorUpdated
<1> HIDE DEF st2
<1>5. ShowsLines(st2)
  BY <1>2, <1>3, <1>4 DEF ShowsLines
<1> QED
  BY <1>2, <1>3, <1>4, <1>5 DEF st2

(* kout_clear clears the kernel's terminal, and the screen if it shows it. *)
LEMMA Cleared ==
  ASSUME NEW st \in ScreenT
  PROVE  LET blank == [st EXCEPT !.tty[KoutTty].outbuf = Blank, !.tty[KoutTty].outstart = 0]
             st2 == IfCurrent(blank, KoutTty, [blank EXCEPT !.vmem = Blank, !.start = 0])
         IN  Output(st, st2, KoutTty) /\ (ShowsCursor(st) => ShowsCursor(st2))
<1> DEFINE b == Blank
           t == KoutTty
           z == 0
           tty == [st.tty[t] EXCEPT !.outbuf = b, !.outstart = z]
           blank == [st EXCEPT !.tty[t].outbuf = b, !.tty[t].outstart = z]
           mid == WithTty(st, t, tty)
           w == [mid EXCEPT !.vmem = b, !.start = z]
           st2 == IF t = st.cur_tty THEN w ELSE mid
<1>1. t \in Ttys /\ st.tty[t] \in TtyT /\ st.cur_tty \in Ttys
  BY TtyAssumption DEF ScreenT
<1>a. " " \in Chars
  BY DEF Chars
<1>b. z \in Int
  OBVIOUS
<1>2. b \in [Cells -> Chars]
  BY <1>a, Zenon DEF Blank
<1> HIDE DEF b, t, z
<1>3. blank = mid
  BY <1>1, ZenonT(40) DEF WithTty, ScreenT, TtyT
<1>4. tty \in TtyT /\ SameInput(st.tty[t], tty) /\ tty.outbuf = b /\ tty.outstart = z /\ CPOS(tty) = CPOS(st.tty[t])
  BY <1>1, <1>2, <1>b, Zenon DEF TtyT, SameInput, CPOS
<1> HIDE DEF tty
<1>5. /\ mid \in ScreenT /\ mid.tty[t] = tty /\ \A u \in Ttys \ {t} : mid.tty[u] = st.tty[u]
      /\ mid.cur_tty = st.cur_tty /\ mid.vmem = st.vmem /\ mid.start = st.start
      /\ mid.cursor = st.cursor
  BY <1>1, <1>4, OneChanged
<1>6. IfCurrent(blank, t, [blank EXCEPT !.vmem = b, !.start = z]) = st2
  BY <1>3, <1>5 DEF IfCurrent
<1> HIDE DEF mid
<1>7. /\ w \in ScreenT /\ w.tty = mid.tty /\ w.cur_tty = mid.cur_tty /\ w.vmem = b /\ w.start = z
      /\ w.cursor = mid.cursor
  BY <1>2, <1>5, <1>b, Zenon DEF ScreenT
<1> HIDE DEF w
<1>8. /\ st2 \in ScreenT /\ st2.tty = mid.tty /\ st2.cur_tty = st.cur_tty /\ st2.cursor = st.cursor
      /\ ShowsLines(st) => ShowsLines(st2)
  BY <1>1, <1>4, <1>5, <1>7, ZenonT(40) DEF ShowsLines
<1> HIDE DEF st2
<1>9. ShowsCursor(st) => ShowsCursor(st2)
  BY <1>1, <1>4, <1>5, <1>8 DEF ShowsCursor, SameInput
<1>10. Output(st, st2, t)
  BY <1>4, <1>5, <1>8 DEF Output
<1> QED
  BY <1>6, <1>9, <1>10 DEF b, t, z
-----------------------------------------------------------------------------
(* Terminals: input                                                        *)

(* The line ends in an input buffer, which eotcount counts.                *)
EndsAt(q) == {i \in 1 .. Len(q) : q[i] = END}
Ends(q) == Cardinality(EndsAt(q))

LEMMA EndsFinite ==
  ASSUME Counting, NEW q \in Seq(Chars)
  PROVE  IsFiniteSet(EndsAt(q)) /\ Ends(q) \in Nat /\ (Ends(q) = 0 <=> END \notin Range(q))
<1>1. EndsAt(q) \in SUBSET (1 .. Len(q)) /\ IsFiniteSet(1 .. Len(q))
  BY DEF EndsAt, Counting, CountInterval
<1>2. IsFiniteSet(EndsAt(q))
  BY <1>1 DEF Counting, CountPart
<1>3. Ends(q) \in Nat /\ (Ends(q) = 0 <=> EndsAt(q) = {})
  BY <1>2 DEF Ends, Counting, CountType, CountEmpty
<1>4. EndsAt(q) = {} <=> END \notin Range(q)
  BY DEF EndsAt, Range
<1> QED
  BY <1>2, <1>3, <1>4

LEMMA EndsAppend ==
  ASSUME Counting, NEW q \in Seq(Chars), NEW c \in Chars
  PROVE  Ends(Append(q, c)) = IF c = END THEN Ends(q) + 1 ELSE Ends(q)
<1> DEFINE r == Append(q, c)
<1>1. /\ r \in Seq(Chars) /\ Len(r) = Len(q) + 1 /\ Len(q) \in Nat
      /\ \A i \in 1 .. Len(q) : r[i] = q[i]
      /\ r[Len(q) + 1] = c
  BY AppendProperties
<1> HIDE DEF r
<1>2. EndsAt(r) = IF c = END THEN EndsAt(q) \cup {Len(q) + 1} ELSE EndsAt(q)
  <2>1. ASSUME NEW i \in 1 .. Len(q) + 1 PROVE i \in EndsAt(r) <=> i \in EndsAt(q) \/ (i = Len(q) + 1 /\ c = END)
    BY <1>1, <2>1 DEF EndsAt
  <2>2. EndsAt(r) \subseteq 1 .. Len(q) + 1 /\ EndsAt(q) \subseteq 1 .. Len(q) + 1 /\ Len(q) + 1 \in 1 .. Len(q) + 1
    BY <1>1 DEF EndsAt
  <2> QED
    BY <2>1, <2>2
<1>3. Len(q) + 1 \notin EndsAt(q)
  BY <1>1 DEF EndsAt
<1>4. IsFiniteSet(EndsAt(q))
  BY EndsFinite
<1>5. Cardinality(EndsAt(q) \cup {Len(q) + 1}) = Cardinality(EndsAt(q)) + 1
  BY <1>3, <1>4 DEF Counting, CountElement
<1> QED
  BY <1>2, <1>5 DEF Ends, r

LEMMA EndsFront ==
  ASSUME Counting, NEW q \in Seq(Chars), q # << >>
  PROVE  /\ ButLast(q) \in Seq(Chars) /\ q = Append(ButLast(q), q[Len(q)])
         /\ Ends(ButLast(q)) = IF q[Len(q)] = END THEN Ends(q) - 1 ELSE Ends(q)
<1> DEFINE r == ButLast(q)
           c == q[Len(q)]
           n == Len(q)
<1>1. n \in Nat \ {0} /\ \A i \in 1 .. n : q[i] \in Chars
  OBVIOUS
<1> HIDE DEF n
<1>2. r = SubSeq(q, 1, n - 1) /\ c = q[n] /\ c \in Chars
  BY <1>1 DEF ButLast, n
<1>3. r \in Seq(Chars) /\ Len(r) = n - 1 /\ \A i \in 1 .. n - 1 : r[i] = q[i]
  <2>1. \A i \in 1 .. n - 1 : q[i] \in Chars
    BY <1>1
  <2>2. /\ SubSeq(q, 1, n - 1) \in Seq(Chars)
        /\ Len(SubSeq(q, 1, n - 1)) = IF 1 <= n - 1 THEN n - 1 - 1 + 1 ELSE 0
        /\ \A i \in 1 .. n - 1 - 1 + 1 : SubSeq(q, 1, n - 1)[i] = q[1 + i - 1]
    BY <1>1, <2>1, SubSeqProperties
  <2> QED
    BY <1>1, <1>2, <2>2
<1> HIDE DEF r, c
<1>4. q = Append(r, c)
  <2>1. /\ Append(r, c) \in Seq(Chars) /\ Len(Append(r, c)) = Len(r) + 1
        /\ \A i \in 1 .. Len(r) : Append(r, c)[i] = r[i]
        /\ Append(r, c)[Len(r) + 1] = c
    BY <1>2, <1>3, AppendProperties
  <2>2. Len(q) = n
    BY DEF n
  <2>3. \A i \in 1 .. n : q[i] = Append(r, c)[i]
    BY <1>1, <1>2, <1>3, <2>1
  <2> QED
    BY <1>1, <1>3, <2>1, <2>2, <2>3, SeqEqual, SMTT(30), ZenonT(20)
<1>5. Ends(q) = IF c = END THEN Ends(r) + 1 ELSE Ends(r)
  <2>1. r \in Seq(Chars) /\ c \in Chars
    BY <1>2, <1>3
  <2>2. Ends(Append(r, c)) = IF c = END THEN Ends(r) + 1 ELSE Ends(r)
    BY ONLY <2>1, EndsAppend, Counting
  <2> QED
    BY <1>4, <2>2
<1>6. Ends(r) \in Nat
  BY <1>3, EndsFinite
<1> QED
  BY <1>3, <1>4, <1>5, <1>6 DEF r, c

(* The first line is what comes before the first end, and the rest of the  *)
(* buffer has one end less.                                                *)
LEMMA LineRead ==
  ASSUME Counting, NEW tty \in TtyT, tty.eotcount = Ends(tty.inbuf), enough_data(tty)
  PROVE  LET line == FirstLine(tty)
             rest == SubSeq(tty.inbuf, Len(line) + 2, Len(tty.inbuf))
         IN  /\ line \in Seq(Chars) /\ rest \in Seq(Chars)
             /\ tty.inbuf = Append(line, END) \o rest
             /\ Ends(rest) = tty.eotcount - 1
<1> DEFINE q == tty.inbuf
           n == Len(q)
           E == EndsAt(q)
           k == Min(E)
<1>1. q \in Seq(Chars) /\ n \in Nat /\ \A i \in 1 .. n : q[i] \in Chars
  BY DEF TtyT
<1>2. E \subseteq 1 .. n /\ \A i \in 1 .. n : i \in E <=> q[i] = END
  BY DEF EndsAt
<1>3. IsFiniteSet(E) /\ E # {}
  <2>1. Ends(q) # 0
    BY <1>1, EndsFinite DEF enough_data
  <2> QED
    BY <1>1, <2>1, EndsFinite DEF Ends, Counting, CountEmpty
<1>4. FirstLine(tty) = SubSeq(q, 1, k - 1)
  <2>1. DOMAIN q = 1 .. n
    BY <1>1
  <2> QED
    BY <2>1, Zenon DEF FirstLine, EndsAt
<1>5. k \in E /\ \A i \in E : k <= i
  <2>1. E \subseteq Nat
    BY <1>1, <1>2
  <2> HIDE DEF E
  <2> QED
    BY <1>3, <2>1, Zenon DEF Counting, LeastNumber, Min
<1>6. tty.eotcount = Cardinality(E)
  BY DEF Ends
<1> HIDE DEF q, n, E, k
<1>7. k \in 1 .. n /\ q[k] = END
  BY <1>2, <1>5
<1> DEFINE line == SubSeq(q, 1, k - 1)
           rest == SubSeq(q, k + 1, n)
<1>8. line \in Seq(Chars) /\ Len(line) = k - 1 /\ \A i \in 1 .. k - 1 : line[i] = q[i]
  <2>1. \A i \in 1 .. k - 1 : q[i] \in Chars
    BY <1>1, <1>7
  <2>2. /\ SubSeq(q, 1, k - 1) \in Seq(Chars)
        /\ Len(SubSeq(q, 1, k - 1)) = IF 1 <= k - 1 THEN k - 1 - 1 + 1 ELSE 0
        /\ \A i \in 1 .. k - 1 - 1 + 1 : SubSeq(q, 1, k - 1)[i] = q[1 + i - 1]
    BY <1>7, <2>1, SubSeqProperties
  <2> QED
    BY <1>7, <2>2
<1>9. rest \in Seq(Chars) /\ Len(rest) = n - k /\ \A i \in 1 .. n - k : rest[i] = q[k + i]
  <2>1. \A i \in k + 1 .. n : q[i] \in Chars
    BY <1>1, <1>7
  <2>2. /\ SubSeq(q, k + 1, n) \in Seq(Chars)
        /\ Len(SubSeq(q, k + 1, n)) = IF k + 1 <= n THEN n - (k + 1) + 1 ELSE 0
        /\ \A i \in 1 .. n - (k + 1) + 1 : SubSeq(q, k + 1, n)[i] = q[k + 1 + i - 1]
    BY <1>1, <1>7, <2>1, SubSeqProperties
  <2> QED
    BY <1>1, <1>7, <2>2
<1> HIDE DEF line, rest
<1>10. q = Append(line, END) \o rest
  <2> DEFINE a == Append(line, END)
  <2>0. END \in Chars
    BY DEF Chars
  <2>1. /\ a \in Seq(Chars) /\ Len(a) = k
        /\ \A i \in 1 .. k - 1 : a[i] = line[i]
        /\ a[k] = END
    BY <1>7, <1>8, <2>0, AppendProperties
  <2> HIDE DEF a
  <2> DEFINE w == a \o rest
  <2>2. /\ w \in Seq(Chars) /\ Len(w) = n
        /\ \A i \in 1 .. n : w[i] = IF i <= k THEN a[i] ELSE rest[i - k]
    <3>1. /\ a \o rest \in Seq(Chars) /\ Len(a \o rest) = Len(a) + Len(rest)
          /\ \A i \in 1 .. Len(a) + Len(rest) :
               (a \o rest)[i] = IF i <= Len(a) THEN a[i] ELSE rest[i - Len(a)]
      BY ONLY <1>9, <2>1, ConcatProperties, ZenonT(40)
    <3>2. Len(a) + Len(rest) = n /\ Len(a) = k
      BY <1>1, <1>7, <1>9, <2>1
    <3> QED
      BY <3>1, <3>2
  <2> HIDE DEF w
  <2>3. ASSUME NEW i \in 1 .. n PROVE q[i] = w[i]
    <3>1. CASE i < k
      BY <1>7, <1>8, <2>1, <2>2, <3>1
    <3>2. CASE i = k
      BY <1>7, <2>1, <2>2, <3>2
    <3>3. CASE i > k
      <4>1. i - k \in 1 .. n - k /\ k + (i - k) = i
        BY <1>1, <1>7, <3>3
      <4> QED
        BY <1>7, <1>9, <2>2, <3>3, <4>1
    <3> QED
      BY <1>1, <1>7, <3>1, <3>2, <3>3
  <2>4. Len(q) = n
    BY DEF n
  <2>5. q = w
    BY <1>1, <2>2, <2>3, <2>4, SeqEqual
  <2> QED
    BY <2>5 DEF a, w
<1>11. Ends(rest) = tty.eotcount - 1
  <2> DEFINE R == EndsAt(rest)
             b == [i \in R |-> k + i]
  <2>1. R \subseteq 1 .. n - k /\ \A i \in 1 .. n - k : i \in R <=> q[k + i] = END
    BY <1>9 DEF EndsAt
  <2> HIDE DEF R
  <2>2. b \in [R -> E \ {k}]
    <3> SUFFICES ASSUME NEW i \in R PROVE k + i \in E \ {k}
      OBVIOUS
    <3>1. k + i \in 1 .. n /\ k + i # k /\ q[k + i] = END
      BY <1>1, <1>7, <2>1
    <3> QED
      BY <1>2, <3>1
  <2>3. \A i, j \in R : b[i] = b[j] => i = j
    BY <1>1, <1>7, <2>1
  <2>4. ASSUME NEW e \in E \ {k} PROVE \E i \in R : b[i] = e
    <3>1. e \in 1 .. n /\ q[e] = END /\ k <= e /\ e # k
      BY <1>2, <1>5, <2>4
    <3>2. e - k \in 1 .. n - k /\ k + (e - k) = e
      BY <1>1, <1>7, <3>1
    <3>3. e - k \in R
      BY <2>1, <3>1, <3>2
    <3> QED
      BY <3>2, <3>3
  <2>5. b \in Bijection(R, E \ {k})
    BY <2>2, <2>3, <2>4 DEF Bijection, Injection, Surjection, IsInjective
  <2>6. IsFiniteSet(R)
    BY <1>9, EndsFinite DEF R
  <2>7. Cardinality(E \ {k}) = Cardinality(R)
    BY <2>5, <2>6 DEF ExistsBijection, Counting, CountBijection
  <2>8. Cardinality(E \ {k}) = Cardinality(E) - 1
    BY <1>3, <1>5 DEF Counting, CountElement
  <2> QED
    BY <1>6, <2>7, <2>8 DEF Ends, R
<1>12. k - 1 + 2 = k + 1
  BY <1>7
<1> QED
  BY <1>4, <1>8, <1>9, <1>10, <1>11, <1>12, Zenon DEF line, rest, q, n

(* A step at terminal t leaves the other terminals alone, and the screen   *)
(* in step.                                                                *)
Touched(st, st2, t) ==
  /\ st2 \in ScreenT /\ st2.cur_tty = st.cur_tty
  /\ \A u \in Ttys \ {t} : st2.tty[u] = st.tty[u]
  /\ ShowsLines(st) => ShowsLines(st2)

(* It leaves q in the input buffer, with n ends, and the requests alone.   *)
Buffered(st, st2, t, q, n) ==
  /\ Touched(st, st2, t)
  /\ st2.tty[t].inbuf = q /\ st2.tty[t].eotcount = n /\ st2.tty[t].requests = st.tty[t].requests
  /\ ShowsCursor(st) => ShowsCursor(st2)

WithInput(st, t, q, n, rs) == WithTty(st, t, [st.tty[t] EXCEPT !.inbuf = q, !.eotcount = n, !.requests = rs])

WithWild(st, w) == [st EXCEPT !.wild = w]

(* Changing the input of a terminal.                                       *)
InputIs(st, st2, t, q, n, rs) ==
  /\ Touched(st, st2, t) /\ st2.cursor = st.cursor /\ st2.wild = st.wild
  /\ st2.tty[t].inbuf = q /\ st2.tty[t].eotcount = n /\ st2.tty[t].requests = rs
  /\ CPOS(st2.tty[t]) = CPOS(st.tty[t])

LEMMA InputSet ==
  ASSUME NEW st \in ScreenT, NEW t \in Ttys, NEW q \in Seq(Chars), NEW n \in Int, NEW rs \in Seq(Proc)
  PROVE  InputIs(st, WithInput(st, t, q, n, rs), t, q, n, rs)
<1> DEFINE tty == [st.tty[t] EXCEPT !.inbuf = q, !.eotcount = n, !.requests = rs]
           st2 == WithTty(st, t, tty)
<1>1. st.tty[t] \in TtyT /\ st.cur_tty \in Ttys
  BY DEF ScreenT
<1>2. /\ tty \in TtyT /\ tty.inbuf = q /\ tty.eotcount = n /\ tty.requests = rs
      /\ tty.outbuf = st.tty[t].outbuf /\ tty.outstart = st.tty[t].outstart
      /\ tty.x = st.tty[t].x /\ tty.y = st.tty[t].y
  BY <1>1, Zenon DEF TtyT
<1> HIDE DEF tty
<1>3. /\ st2 \in ScreenT /\ st2.tty[t] = tty /\ \A u \in Ttys \ {t} : st2.tty[u] = st.tty[u]
      /\ st2.cur_tty = st.cur_tty /\ st2.vmem = st.vmem /\ st2.start = st.start
      /\ st2.cursor = st.cursor /\ st2.wild = st.wild
  BY <1>2, OneChanged
<1> HIDE DEF st2
<1>4. ShowsLines(st) => ShowsLines(st2)
  BY <1>1, <1>2, <1>3 DEF ShowsLines
<1>5. CPOS(st2.tty[t]) = CPOS(st.tty[t])
  BY <1>2, <1>3 DEF CPOS
<1> QED
  BY <1>2, <1>3, <1>4, <1>5, Zenon DEF Touched, InputIs, st2, tty, WithInput

LEMMA InputBuffered ==
  ASSUME NEW st \in ScreenT, NEW t \in Ttys, NEW q \in Seq(Chars), NEW n \in Int, NEW w \in BOOLEAN
  PROVE  Buffered(st, WithWild(WithInput(st, t, q, n, st.tty[t].requests), w), t, q, n)
<1> DEFINE rs == st.tty[t].requests
           a == WithInput(st, t, q, n, rs)
           b == WithWild(a, w)
<1>1. st.tty[t] \in TtyT /\ rs \in Seq(Proc) /\ st.cur_tty \in Ttys
  BY Zenon DEF ScreenT, TtyT
<1>2. /\ Touched(st, a, t) /\ a.cursor = st.cursor
      /\ a.tty[t].inbuf = q /\ a.tty[t].eotcount = n /\ a.tty[t].requests = rs
      /\ CPOS(a.tty[t]) = CPOS(st.tty[t])
  <2>1. InputIs(st, WithInput(st, t, q, n, rs), t, q, n, rs)
    BY <1>1, InputSet, Zenon
  <2> QED
    BY <2>1, Zenon DEF InputIs
<1> HIDE DEF a
<1>3. a \in ScreenT
  BY <1>2 DEF Touched
<1>4. /\ b \in ScreenT /\ b.tty = a.tty /\ b.cur_tty = a.cur_tty /\ b.vmem = a.vmem
      /\ b.start = a.start /\ b.cursor = a.cursor
  BY <1>3, ZenonT(40) DEF WithWild, ScreenT
<1> HIDE DEF b
<1>5. Touched(st, b, t)
  BY <1>2, <1>4 DEF Touched, ShowsLines
<1>6. ShowsCursor(st) => ShowsCursor(b)
  <2>1. CASE t = st.cur_tty
    BY <1>2, <1>4, <1>5, <2>1, SMTT(30), ZenonT(20) DEF Touched, ShowsCursor
  <2>2. CASE t # st.cur_tty
    BY <1>1, <1>2, <1>4, <1>5, <2>2 DEF Touched, ShowsCursor
  <2> QED
    BY <2>1, <2>2, SMTT(30), ZenonT(20)
<1> QED
  BY <1>2, <1>4, <1>5, <1>6, Zenon DEF Buffered, a, b

(* Output before the change makes no difference.                           *)
LEMMA OutputBuffered ==
  ASSUME NEW a, NEW b, NEW c, NEW t \in Ttys, NEW q, NEW n,
         Output(a, b, t), ShowsCursor(a) => ShowsCursor(b), Buffered(b, c, t, q, n)
  PROVE  Buffered(a, c, t, q, n)
  BY Zenon DEF Output, SameInput, Buffered, Touched

(* Store, with a new count of line ends.                                   *)
LEMMA Stored ==
  ASSUME NEW st \in ScreenT, NEW t \in Ttys, NEW bytes \in Seq(Chars), NEW n \in Int
  PROVE  Buffered(st, [Store(st, t, bytes) EXCEPT !.tty[t].eotcount = n], t, st.tty[t].inbuf \o bytes, n)
<1> DEFINE q == st.tty[t].inbuf
           r == q \o bytes
           w == st.wild \/ Len(q) + Len(bytes) > TTY_INBUF_SIZE
           a == WithTty(st, t, [st.tty[t] EXCEPT !.inbuf = r])
           st2 == [Store(st, t, bytes) EXCEPT !.tty[t].eotcount = n]
<1>1. st.tty[t] \in TtyT /\ q \in Seq(Chars) /\ st.wild \in BOOLEAN
  BY Zenon DEF ScreenT, TtyT
<1>2. r \in Seq(Chars)
  BY <1>1, ConcatProperties
<1>3. w \in BOOLEAN
  BY <1>1
<1>4. Store(st, t, bytes) = WithWild(a, w)
  BY DEF Store, WithWild, WithTty
<1> HIDE DEF r, w
<1> DEFINE one == [st.tty[t] EXCEPT !.inbuf = r]
           two == [st.tty[t] EXCEPT !.inbuf = r, !.eotcount = n, !.requests = st.tty[t].requests]
<1>5. [one EXCEPT !.eotcount = n] = two
  BY <1>1, Zenon DEF TtyT
<1>6. [st.tty EXCEPT ![t] = one][t] = one /\ [[st.tty EXCEPT ![t] = one] EXCEPT ![t] = two] = [st.tty EXCEPT ![t] = two]
  <2> HIDE DEF one, two
  <2> QED
    BY DEF ScreenT
<1>7. st2 = WithWild(WithInput(st, t, r, n, st.tty[t].requests), w)
  <2> DEFINE x == [st.tty EXCEPT ![t] = one]
             y == [st.tty EXCEPT ![t] = two]
  <2>1. WithWild(a, w).tty = x
    BY DEF WithWild, WithTty, ScreenT
  <2>2. st2 = [WithWild(a, w) EXCEPT !.tty = [x EXCEPT ![t] = [x[t] EXCEPT !.eotcount = n]]]
    BY <1>4, <2>1, Zenon
  <2>3. [x EXCEPT ![t] = [x[t] EXCEPT !.eotcount = n]] = y
    BY <1>5, <1>6
  <2>4. WithInput(st, t, r, n, st.tty[t].requests) = [st EXCEPT !.tty = y]
    BY DEF WithInput, WithTty
  <2>5. WithWild(a, w) = [[st EXCEPT !.tty = x] EXCEPT !.wild = w]
    BY DEF WithWild, WithTty
  <2> HIDE DEF x, y
  <2>6. [[[st EXCEPT !.tty = x] EXCEPT !.wild = w] EXCEPT !.tty = y] = [[st EXCEPT !.tty = y] EXCEPT !.wild = w]
    BY Zenon DEF ScreenT
  <2> QED
    BY <2>2, <2>3, <2>4, <2>5, <2>6, Zenon DEF WithWild
<1>8. Buffered(st, WithWild(WithInput(st, t, r, n, st.tty[t].requests), w), t, r, n)
  BY <1>2, <1>3, InputBuffered, Zenon
<1> QED
  BY <1>7, <1>8 DEF r

(* Store alone keeps the count.                                            *)
LEMMA StoredOnly ==
  ASSUME NEW st \in ScreenT, NEW t \in Ttys, NEW bytes \in Seq(Chars)
  PROVE  Buffered(st, Store(st, t, bytes), t, st.tty[t].inbuf \o bytes, st.tty[t].eotcount)
<1> DEFINE q == st.tty[t].inbuf
           r == q \o bytes
           n == st.tty[t].eotcount
           rs == st.tty[t].requests
           w == st.wild \/ Len(q) + Len(bytes) > TTY_INBUF_SIZE
<1>1. st.tty[t] \in TtyT /\ q \in Seq(Chars) /\ st.wild \in BOOLEAN /\ n \in Int
  BY Zenon DEF ScreenT, TtyT
<1>2. r \in Seq(Chars)
  BY <1>1, ConcatProperties
<1>3. w \in BOOLEAN
  BY <1>1
<1>4. Store(st, t, bytes) = WithWild(WithTty(st, t, [st.tty[t] EXCEPT !.inbuf = r]), w)
  BY DEF Store, WithWild, WithTty
<1>5. [st.tty[t] EXCEPT !.inbuf = r] = [st.tty[t] EXCEPT !.inbuf = r, !.eotcount = n, !.requests = rs]
  <2> HIDE DEF r
  <2> QED
    BY <1>1, Zenon DEF TtyT
<1>6. Store(st, t, bytes) = WithWild(WithInput(st, t, r, n, rs), w)
  BY <1>4, <1>5 DEF WithInput
<1> HIDE DEF r, w, n
<1>7. Buffered(st, WithWild(WithInput(st, t, r, n, rs), w), t, r, n)
  BY <1>1, <1>2, <1>3, InputBuffered
<1> QED
  BY <1>6, <1>7 DEF r, n

(* A new buffer with a new count.                                          *)
WithBuffer(st, t, q, n) == [st EXCEPT !.tty[t].inbuf = q, !.tty[t].eotcount = n]

LEMMA BothSet ==
  ASSUME NEW p \in ScreenT, NEW t \in Ttys, NEW r \in Seq(Chars), NEW n \in Int
  PROVE  Buffered(p, WithBuffer(p, t, r, n), t, r, n)
<1> DEFINE p2 == [p EXCEPT !.tty[t].inbuf = r, !.tty[t].eotcount = n]
           one == [p.tty[t] EXCEPT !.inbuf = r]
           two == [p.tty[t] EXCEPT !.inbuf = r, !.eotcount = n, !.requests = p.tty[t].requests]
           x == [p.tty EXCEPT ![t] = one]
           y == [p.tty EXCEPT ![t] = two]
<1>1. p.tty[t] \in TtyT /\ p.wild \in BOOLEAN
  BY DEF ScreenT
<1>2. [one EXCEPT !.eotcount = n] = two
  BY <1>1, Zenon DEF TtyT
<1>3. p2 = WithWild(WithInput(p, t, r, n, p.tty[t].requests), p.wild)
  <2>1. p2 = [[p EXCEPT !.tty = x] EXCEPT !.tty = [x EXCEPT ![t] = [x[t] EXCEPT !.eotcount = n]]]
    BY DEF ScreenT
  <2>2. [x EXCEPT ![t] = [x[t] EXCEPT !.eotcount = n]] = y
    <3>1. x[t] = one
      <4> HIDE DEF one
      <4> QED
        BY DEF ScreenT
    <3>2. [x[t] EXCEPT !.eotcount = n] = two
      BY <1>2, <3>1, Zenon
    <3> HIDE DEF one, two
    <3> QED
      BY <3>2, SMTT(30), ZenonT(20) DEF ScreenT
  <2>3. WithInput(p, t, r, n, p.tty[t].requests) = [p EXCEPT !.tty = y]
    BY DEF WithInput, WithTty
  <2> HIDE DEF x, y
  <2>4. [[p EXCEPT !.tty = x] EXCEPT !.tty = y] = [[p EXCEPT !.tty = y] EXCEPT !.wild = p.wild]
    BY Zenon DEF ScreenT
  <2> HIDE DEF p2
  <2> QED
    BY <2>1, <2>2, <2>3, <2>4, Zenon DEF WithWild
<1> HIDE DEF p2
<1>4. Buffered(p, p2, t, r, n)
  BY <1>1, <1>3, InputBuffered, ZenonT(40)
<1> QED
  BY <1>4 DEF p2, WithBuffer

(* Erase takes the last character back, and its count if it ends a line.   *)
LEMMA Erased ==
  ASSUME Counting, NEW st \in ScreenT, NEW t \in Ttys, st.tty[t].inbuf # << >>
  PROVE  LET q == st.tty[t].inbuf
             n == IF q[Len(q)] = END THEN st.tty[t].eotcount - 1 ELSE st.tty[t].eotcount
         IN  Buffered(st, Erase(st, t), t, ButLast(q), n)
<1> DEFINE q == st.tty[t].inbuf
           p == putc(st, t, BS)
           n == IF q[Len(q)] = END THEN st.tty[t].eotcount - 1 ELSE st.tty[t].eotcount
           r == ButLast(q)
<1>1. Output(st, p, t) /\ (ShowsCursor(st) => ShowsCursor(p))
  <2>1. BS \in Chars
    BY Zenon DEF Chars
  <2> QED
    BY <2>1, PutcOutput
<1>2. p \in ScreenT /\ p.tty[t].inbuf = q /\ p.tty[t].eotcount = st.tty[t].eotcount
  BY <1>1 DEF Output, SameInput
<1>3. q \in Seq(Chars) /\ st.tty[t].eotcount \in Int
  BY Zenon DEF ScreenT, TtyT
<1>4. r \in Seq(Chars)
  BY <1>3, EndsFront, Zenon
<1>5. n \in Int
  BY <1>3
<1>6. Erase(st, t) = [p EXCEPT !.tty[t].inbuf = r, !.tty[t].eotcount = n]
  <2>1. Erase(st, t) = [p EXCEPT !.tty[t].inbuf = ButLast(@),
                                 !.tty[t].eotcount = IF q[Len(q)] = END THEN @ - 1 ELSE @]
    BY DEF Erase
  <2> HIDE DEF p
  <2>2. Erase(st, t) = [p EXCEPT !.tty[t].inbuf = ButLast(p.tty[t].inbuf),
                                 !.tty[t].eotcount = IF q[Len(q)] = END THEN p.tty[t].eotcount - 1 ELSE p.tty[t].eotcount]
    BY <1>2, <2>1, Zenon DEF ScreenT, TtyT
  <2> QED
    BY <1>2, <2>2
<1> HIDE DEF p, n, r
<1>10. Buffered(p, Erase(st, t), t, r, n)
  <2>1. Erase(st, t) = WithBuffer(p, t, r, n)
    BY <1>6, Zenon DEF WithBuffer
  <2> QED
    BY <1>2, <1>4, <1>5, <2>1, BothSet
<1>11. Buffered(st, Erase(st, t), t, r, n)
  BY <1>1, <1>10, OutputBuffered
<1> QED
  BY <1>11 DEF r, n

(* What a key leaves in the buffer is counted, and is what the history of  *)
(* typing gains.                                                           *)
Edited(st, st2, t, c) ==
  LET q  == st.tty[t].inbuf
      q2 == st2.tty[t].inbuf
  IN  /\ Buffered(st, st2, t, q2, Ends(q2))
      /\ \A h, g \in Seq(Chars) : h = g \o q => Typed(h, q, c) = g \o q2

LEMMA EndCodes == END # NL /\ END # "a" /\ NL # EOT /\ NL # BS /\ EOT # BS /\ "a" \notin {NL, EOT, BS}
  BY DEF END, NL, EOT, BS

LEMMA PairOf ==
  ASSUME NEW a \in Chars, NEW b \in Chars
  PROVE  <<a>> \in Seq(Chars) /\ <<b>> \in Seq(Chars) /\ <<a>> \o <<b>> = <<a, b>>
<1>1. <<a>> \in Seq(Chars) /\ <<b>> \in Seq(Chars)
  OBVIOUS
<1>2. Append(<<a>>, b) = <<a>> \o <<b>>
  BY <1>1, AppendIsConcat
<1>3. Append(<<a>>, b) = <<a, b>>
  <2> DEFINE v == <<a>>
             w == Append(v, b)
             x == <<a, b>>
  <2>1. v \in Seq(Chars) /\ Len(v) = 1 /\ v[1] = a
    OBVIOUS
  <2> HIDE DEF v
  <2>2. w \in Seq(Chars) /\ Len(w) = 2 /\ w[1] = a /\ w[2] = b
    <3>1. /\ w \in Seq(Chars) /\ Len(w) = Len(v) + 1 /\ w[Len(v) + 1] = b
          /\ \A i \in 1 .. Len(v) : w[i] = v[i]
      <4>1. v \in Seq(Chars)
        BY <2>1
      <4> QED
        BY <4>1, AppendProperties
    <3>2. 1 \in 1 .. Len(v) /\ Len(v) + 1 = 2
      BY <2>1
    <3> HIDE DEF w
    <3> QED
      BY <2>1, <3>1, <3>2
  <2>3. x \in Seq(Chars) /\ Len(x) = 2 /\ x[1] = a /\ x[2] = b
    OBVIOUS
  <2> HIDE DEF w, x
  <2>4. \A i \in 1 .. 2 : w[i] = x[i]
    BY <2>2, <2>3
  <2>5. w = x
    BY <2>2, <2>3, <2>4, SeqEqual
  <2> QED
    BY <2>5 DEF v, w, x
<1> QED
  BY <1>1, <1>2, <1>3, Zenon

LEMMA Reassociate ==
  ASSUME NEW f \in Seq(Chars), NEW g \in Seq(Chars), NEW h \in Seq(Chars)
  PROVE  (f \o g) \o h = f \o (g \o h)
BY ConcatAssociative, SMTT(30), ZenonT(20)

LEMMA EditStep ==
  ASSUME Counting, NEW st \in ScreenT, NEW t \in Ttys, NEW c \in {"a", NL, BS, EOT},
         st.tty[t].eotcount = Ends(st.tty[t].inbuf)
  PROVE  Edited(st, Edit(st, t, c), t, c)
<1> DEFINE q == st.tty[t].inbuf
           k == Ends(q)
           p == putc(st, t, c)
<1>1. q \in Seq(Chars) /\ k \in Nat
  <2>1. q \in Seq(Chars)
    BY DEF ScreenT, TtyT
  <2> QED
    BY <2>1, EndsFinite, Zenon
<1>2. c \in Chars /\ NL \in Chars /\ END \in Chars
  BY Zenon DEF Chars
<1>3. /\ Output(st, p, t) /\ (ShowsCursor(st) => ShowsCursor(p))
      /\ p \in ScreenT /\ p.tty[t].inbuf = q /\ p.tty[t].eotcount = k
  <2>1. Output(st, p, t) /\ (ShowsCursor(st) => ShowsCursor(p))
    BY <1>2, PutcOutput
  <2> QED
    BY <2>1, Zenon DEF Output, SameInput
<1>4. Append(q, c) = q \o <<c>> /\ Append(q, END) = q \o <<END>> /\ Append(q, NL) \in Seq(Chars)
  BY <1>1, <1>2, AppendIsConcat, AppendProperties, ZenonT(40)
<1>5. q \o <<NL, END>> = Append(Append(q, NL), END)
  <2>1. Append(q, NL) = q \o <<NL>>
    BY <1>1, <1>2, AppendIsConcat, Zenon
  <2>2. Append(Append(q, NL), END) = (q \o <<NL>>) \o <<END>>
    BY <1>2, <1>4, <2>1, AppendIsConcat, ZenonT(40)
  <2>3. <<NL>> \in Seq(Chars) /\ <<END>> \in Seq(Chars) /\ <<NL>> \o <<END>> = <<NL, END>>
    BY ONLY <1>2, PairOf
  <2>4. (q \o <<NL>>) \o <<END>> = q \o (<<NL>> \o <<END>>)
    BY ONLY <1>1, <2>3, Reassociate, ZenonT(40)
  <2> QED
    BY <2>2, <2>3, <2>4, Zenon
<1>6. \A g, a, b \in Seq(Chars) : (g \o a) \o b = g \o (a \o b)
  BY ONLY Reassociate, Zenon
<1> HIDE DEF p, k
<1>7. CASE c = NL
  <2> DEFINE r == q \o <<NL, END>>
             n == k + 1
             st2 == Edit(st, t, c)
  <2>1. Ends(r) = n
    <3>1. Ends(Append(q, NL)) = k
      BY <1>1, <1>2, EndsAppend, EndCodes DEF k
    <3>2. Ends(Append(Append(q, NL), END)) = Ends(Append(q, NL)) + 1
      BY <1>2, <1>4, EndsAppend, Zenon
    <3> QED
      BY <1>5, <3>1, <3>2, Zenon
  <2>2. <<NL, END>> \in Seq(Chars) /\ n \in Int
    BY <1>1, <1>2
  <2>3. st2 = [Store(p, t, <<NL, END>>) EXCEPT !.tty[t].eotcount = @ + 1]
    BY <1>7, EndCodes DEF Edit, p
  <2>4. Store(p, t, <<NL, END>>).tty[t].eotcount = k
    <3>1. Buffered(p, Store(p, t, <<NL, END>>), t, q \o <<NL, END>>, k)
      BY <1>3, <2>2, StoredOnly, Zenon
    <3> QED
      BY <3>1, Zenon DEF Buffered
  <2>5. st2 = [Store(p, t, <<NL, END>>) EXCEPT !.tty[t].eotcount = n]
    <3> DEFINE z == Store(p, t, <<NL, END>>)
    <3> HIDE DEF z
    <3>1. st2 = [z EXCEPT !.tty[t].eotcount = z.tty[t].eotcount + 1]
      BY <2>3, Zenon DEF z
    <3>2. z.tty[t].eotcount = k
      BY <2>4 DEF z
    <3>3. st2 = [z EXCEPT !.tty[t].eotcount = n]
      BY <3>1, <3>2
    <3> QED
      BY <3>3, Zenon DEF z
  <2> HIDE DEF n, st2
  <2>6. Buffered(p, st2, t, r, n)
    BY <1>3, <2>2, <2>5, Stored, ZenonT(40)
  <2>7. Buffered(st, st2, t, r, n) /\ st2.tty[t].inbuf = r
    <3>1. Buffered(st, st2, t, r, n)
      BY <1>3, <2>6, OutputBuffered
    <3> QED
      BY <3>1, Zenon DEF Buffered
  <2>8. ASSUME NEW h \in Seq(Chars), NEW g \in Seq(Chars), h = g \o q PROVE Typed(h, q, c) = g \o r
    <3>1. Typed(h, q, c) = h \o <<NL, END>>
      BY <1>7, EndCodes, Zenon DEF Typed
    <3> QED
      BY <1>1, <1>6, <2>2, <2>8, <3>1, ZenonT(40)
  <2> HIDE DEF r
  <2> QED
    BY <2>1, <2>7, <2>8, Zenon DEF Edited, st2
<1>8. CASE c = EOT
  <2> DEFINE r == q \o <<END>>
             n == k + 1
             st2 == Edit(st, t, c)
  <2>1. Ends(r) = n
    BY <1>1, <1>2, <1>4, EndsAppend, Zenon DEF k
  <2>2. <<END>> \in Seq(Chars) /\ n \in Int
    BY <1>1, <1>2
  <2>3. st2 = [Store(st, t, <<END>>) EXCEPT !.tty[t].eotcount = @ + 1]
    BY <1>8, EndCodes DEF Edit
  <2>4. Store(st, t, <<END>>).tty[t].eotcount = k
    <3>1. Buffered(st, Store(st, t, <<END>>), t, q \o <<END>>, st.tty[t].eotcount)
      BY <2>2, StoredOnly, Zenon
    <3> QED
      BY <3>1, Zenon DEF Buffered, k
  <2>5. st2 = [Store(st, t, <<END>>) EXCEPT !.tty[t].eotcount = n]
    <3> DEFINE z == Store(st, t, <<END>>)
    <3> HIDE DEF z
    <3>1. st2 = [z EXCEPT !.tty[t].eotcount = z.tty[t].eotcount + 1]
      BY <2>3, Zenon DEF z
    <3>2. z.tty[t].eotcount = k
      BY <2>4 DEF z
    <3>3. st2 = [z EXCEPT !.tty[t].eotcount = n]
      BY <3>1, <3>2
    <3> QED
      BY <3>3 DEF z
  <2> HIDE DEF n, st2
  <2>6. Buffered(st, st2, t, r, n)
    BY <2>2, <2>5, Stored, Zenon
  <2>7. st2.tty[t].inbuf = r
    BY <2>6, Zenon DEF Buffered
  <2>8. ASSUME NEW h \in Seq(Chars), NEW g \in Seq(Chars), h = g \o q PROVE Typed(h, q, c) = g \o r
    <3>1. Typed(h, q, c) = Append(h, END)
      BY <1>8, EndCodes DEF Typed
    <3>2. Append(h, END) = h \o <<END>>
      BY <1>2, AppendIsConcat, Zenon
    <3> QED
      BY <1>1, <1>6, <2>2, <2>8, <3>1, <3>2, ZenonT(40)
  <2> HIDE DEF r
  <2> QED
    BY <2>1, <2>6, <2>7, <2>8, ZenonT(40) DEF Edited, st2
<1>9. CASE c = BS
  <2>1. Edit(st, t, c) = Erase(st, t)
    BY <1>9, EndCodes DEF Edit
  <2>2. CASE q = << >>
    <3>1. Erase(st, t) = st
      BY <2>2, Zenon DEF Erase
    <3>2. Buffered(st, st, t, q, k)
      BY DEF Buffered, Touched, k
    <3>3. \A h, g \in Seq(Chars) : h = g \o q => Typed(h, q, c) = g \o q
      BY <1>9, <2>2, EndCodes DEF Typed
    <3> QED
      BY <2>1, <3>1, <3>2, <3>3, Zenon DEF Edited, k
  <2>3. CASE q # << >>
    <3> DEFINE r == ButLast(q)
               n == IF q[Len(q)] = END THEN st.tty[t].eotcount - 1 ELSE st.tty[t].eotcount
               st2 == Erase(st, t)
    <3>1. r \in Seq(Chars) /\ q = Append(r, q[Len(q)]) /\ Ends(r) = n
      BY <1>1, <2>3, EndsFront, Zenon DEF k
    <3>2. Buffered(st, st2, t, r, n)
      BY <2>3, Erased, Zenon
    <3> HIDE DEF n, st2
    <3>3. st2.tty[t].inbuf = r
      BY <3>2, Zenon DEF Buffered
    <3>4. ASSUME NEW h \in Seq(Chars), NEW g \in Seq(Chars), h = g \o q PROVE Typed(h, q, c) = g \o r
      <4>1. Typed(h, q, c) = ButLast(h)
        BY <1>9, <2>3, EndCodes, Zenon DEF Typed
      <4>2. q[Len(q)] \in Chars
        BY <1>1, <2>3
      <4> DEFINE e == q[Len(q)]
                 f == g \o r
      <4> HIDE DEF e
      <4>3. q = r \o <<e>> /\ <<e>> \in Seq(Chars)
        <5>1. r \in Seq(Chars) /\ e \in Chars /\ q = Append(r, e)
          BY <3>1, <4>2, Zenon DEF e
        <5> HIDE DEF r
        <5>2. Append(r, e) = r \o <<e>> /\ <<e>> \in Seq(Chars)
          BY ONLY <5>1, AppendIsConcat
        <5> QED
          BY <5>1, <5>2
      <4> HIDE DEF r
      <4>4. h = f \o <<e>> /\ f \in Seq(Chars)
        BY <1>6, <3>1, <3>4, <4>3, ConcatProperties, SMTT(30), ZenonT(20)
      <4> HIDE DEF f
      <4>5. h = Append(f, e)
        BY <4>2, <4>4, AppendIsConcat DEF e
      <4>6. ButLast(h) = f
        <5>1. Len(h) = Len(f) + 1 /\ SubSeq(h, 1, Len(f)) = f /\ Len(f) \in Nat
          <6>1. SubSeq(f \o <<e>>, 1, Len(f)) = f
            <7>1. SubSeq(f \o <<e>>, 1, Len(f)) = SubSeq(f, 1, Len(f))
              BY <4>3, <4>4, SubSeqOfConcat1
            <7> QED
              BY <4>4, <7>1, SubSeqFull, Zenon
          <6> QED
            BY <4>2, <4>4, <4>5, <6>1, AppendProperties DEF e
        <5> QED
          BY <5>1, SMTT(30), ZenonT(20) DEF ButLast
      <4> QED
        BY <4>1, <4>6 DEF f
    <3> HIDE DEF r
    <3> QED
      BY <2>1, <3>1, <3>2, <3>3, <3>4, ZenonT(40) DEF Edited, st2
  <2> QED
    BY <2>2, <2>3
<1>10. CASE c = "a"
  <2> DEFINE r == q \o <<c>>
             b == scroll_to_bottom(p, t)
             st2 == Edit(st, t, c)
  <2>1. Ends(r) = k
    <3>1. Append(q, c) = r
      BY <1>1, <1>2, AppendIsConcat, Zenon
    <3>2. c # END
      BY <1>10, EndCodes
    <3> QED
      BY <1>1, <1>2, <1>4, <3>1, <3>2, EndsAppend, ZenonT(40) DEF k
  <2>2. <<c>> \in Seq(Chars)
    BY <1>2
  <2>3. st2 = Store(b, t, <<c>>)
    BY <1>10, EndCodes, Zenon DEF Edit, p
  <2>4. Output(p, b, t) /\ (ShowsCursor(p) => ShowsCursor(b))
    BY <1>3, BottomOutput, Zenon
  <2>5. b \in ScreenT /\ b.tty[t].inbuf = q /\ b.tty[t].eotcount = k
    BY <1>3, <2>4, Zenon DEF Output, SameInput
  <2> HIDE DEF b, st2
  <2>6. Buffered(b, st2, t, r, k)
    BY <2>2, <2>3, <2>5, StoredOnly, Zenon
  <2>7. Buffered(p, st2, t, r, k)
    BY <2>4, <2>6, OutputBuffered, ZenonT(40)
  <2>8. Buffered(st, st2, t, r, k) /\ st2.tty[t].inbuf = r
    <3>1. Buffered(st, st2, t, r, k)
      BY <1>3, <2>7, OutputBuffered, Zenon
    <3> QED
      BY <3>1 DEF Buffered
  <2>9. ASSUME NEW h \in Seq(Chars), NEW g \in Seq(Chars), h = g \o q PROVE Typed(h, q, c) = g \o r
    <3>1. Typed(h, q, c) = Append(h, c)
      BY <1>10, EndCodes DEF Typed
    <3>2. Append(h, c) = h \o <<c>>
      BY <1>2, AppendIsConcat, Zenon
    <3> QED
      BY <1>1, <1>6, <2>2, <2>9, <3>1, <3>2, ZenonT(40)
  <2> HIDE DEF r
  <2> QED
    BY <2>1, <2>8, <2>9, ZenonT(40) DEF Edited, st2
<1> QED
  BY <1>7, <1>8, <1>9, <1>10, Zenon

(* A reader takes the first line: the terminals after it, and the line.    *)
Reads(st, st2, t, line) ==
  /\ Buffered(st, st2, t, st2.tty[t].inbuf, Ends(st2.tty[t].inbuf))
  /\ line \in Seq(Chars) /\ st.tty[t].inbuf = Append(line, END) \o st2.tty[t].inbuf

LEMMA LineTaken ==
  ASSUME Counting, NEW st \in ScreenT, NEW t \in Ttys,
         st.tty[t].eotcount = Ends(st.tty[t].inbuf), enough_data(st.tty[t])
  PROVE  Reads(st, Read(st, t).st, t, Read(st, t).line)
<1> DEFINE tty == st.tty[t]
           q == tty.inbuf
           line == FirstLine(tty)
           rest == SubSeq(q, Len(line) + 2, Len(q))
           n == tty.eotcount - 1
           st2 == WithBuffer(st, t, rest, n)
<1>1. tty \in TtyT /\ q \in Seq(Chars) /\ tty.eotcount \in Int
  BY Zenon DEF ScreenT, TtyT
<1>2. /\ line \in Seq(Chars) /\ rest \in Seq(Chars) /\ q = Append(line, END) \o rest /\ Ends(rest) = n
  BY <1>1, LineRead, Zenon
<1>3. Read(st, t).line = line /\ Read(st, t).st = remove_data(st, t, Len(line))
  BY DEF Read
<1> HIDE DEF line
<1>4. remove_data(st, t, Len(line)) = st2
  <2>1. remove_data(st, t, Len(line)) = [st EXCEPT !.tty[t].inbuf = SubSeq(q, Len(line) + 2, Len(q)), !.tty[t].eotcount = tty.eotcount - 1]
    BY Zenon DEF remove_data, ScreenT, TtyT
  <2> QED
    BY <2>1 DEF WithBuffer
<1> HIDE DEF rest, n
<1>5. Buffered(st, st2, t, rest, n)
  <2>1. n \in Int
    BY <1>1 DEF n
  <2> QED
    BY <1>2, <2>1, BothSet, Zenon
<1> HIDE DEF st2
<1>6. st2.tty[t].inbuf = rest
  BY <1>5, Zenon DEF Buffered
<1>7. Reads(st, st2, t, line)
  BY <1>2, <1>5, <1>6, Zenon DEF Reads
<1> QED
  BY <1>3, <1>4, <1>7, Zenon
-----------------------------------------------------------------------------
(* The loop of handle_input that answers requests                          *)

ProcT == [pc : {"user", "window"}, blocked : BOOLEAN, rq : {"none", "queued", "blocked"},
          eax : {"count", EAGAIN}, file : Ttys]

ProcsT == [Proc -> ProcT]

AnswerT == [st : ScreenT, procs : ProcsT, lines : Seq(Chars)]

SamePlace(ps, ps2) == \A p \in Proc : ps2[p].pc = ps[p].pc /\ ps2[p].file = ps[p].file

LEMMA Finished ==
  ASSUME NEW ps \in ProcsT, NEW p \in Proc
  PROVE  rq_finish(ps, p) \in ProcsT /\ SamePlace(ps, rq_finish(ps, p))
<1> DEFINE b == IF ps[p].rq = "blocked" THEN FALSE ELSE ps[p].blocked
           r == [ps[p] EXCEPT !.blocked = b, !.eax = "count", !.rq = "none"]
           ps2 == [ps EXCEPT ![p] = r]
<1>1. ps[p] \in ProcT
  BY DEF ProcsT
<1>2. b \in BOOLEAN
  BY <1>1, Zenon DEF ProcT
<1>3. rq_finish(ps, p) = ps2
  BY <1>1, Zenon DEF rq_finish, ProcsT
<1> HIDE DEF b
<1>4. r \in ProcT /\ r.pc = ps[p].pc /\ r.file = ps[p].file
  BY <1>1, <1>2, Zenon DEF ProcT
<1> HIDE DEF r
<1>5. ps2 \in ProcsT /\ ps2[p] = r /\ \A o \in Proc \ {p} : ps2[o] = ps[o]
  BY <1>4, Zenon DEF ProcsT
<1> HIDE DEF ps2
<1>6. SamePlace(ps, ps2)
  BY <1>4, <1>5 DEF SamePlace
<1> QED
  BY <1>3, <1>5, <1>6

WithRequests(st, t, rs) == [st EXCEPT !.tty[t].requests = rs]

(* Only the requests of a terminal change.                                 *)
LEMMA RequestsSet ==
  ASSUME NEW st \in ScreenT, NEW t \in Ttys, NEW rs \in Seq(Proc)
  PROVE  LET st2 == WithRequests(st, t, rs)
         IN  /\ Touched(st, st2, t) /\ st2.cursor = st.cursor /\ st2.wild = st.wild
             /\ st2.tty[t].inbuf = st.tty[t].inbuf /\ st2.tty[t].eotcount = st.tty[t].eotcount
             /\ st2.tty[t].requests = rs
<1> DEFINE q == st.tty[t].inbuf
           n == st.tty[t].eotcount
<1>1. st.tty[t] \in TtyT /\ q \in Seq(Chars) /\ n \in Int
  BY Zenon DEF ScreenT, TtyT
<1>2. [st.tty[t] EXCEPT !.requests = rs] = [st.tty[t] EXCEPT !.inbuf = q, !.eotcount = n, !.requests = rs]
  BY <1>1, Zenon DEF TtyT
<1>3. WithRequests(st, t, rs) = WithInput(st, t, q, n, rs)
  BY <1>2, Zenon DEF WithRequests, WithInput, WithTty
<1> HIDE DEF q, n
<1>4. InputIs(st, WithInput(st, t, q, n, rs), t, q, n, rs)
  BY <1>1, InputSet
<1> QED
  BY <1>3, <1>4, Zenon DEF InputIs, q, n

(* One turn of the loop: the first request gets the first line.            *)
LEMMA AnswerOne ==
  ASSUME Counting, NEW a \in AnswerT, NEW t \in Ttys, can_answer_rq(a.st, t),
         a.st.tty[t].eotcount = Ends(a.st.tty[t].inbuf)
  PROVE  LET b == answer_rq(a, t)
         IN  /\ b \in AnswerT /\ Touched(a.st, b.st, t) /\ SamePlace(a.procs, b.procs)
             /\ b.lines \o b.st.tty[t].inbuf = a.lines \o a.st.tty[t].inbuf
             /\ b.st.tty[t].eotcount = Ends(b.st.tty[t].inbuf)
             /\ Len(b.st.tty[t].requests) = Len(a.st.tty[t].requests) - 1
             /\ ShowsCursor(a.st) => ShowsCursor(b.st)
<1> DEFINE rs == a.st.tty[t].requests
           p == Head(rs)
           q == a.st.tty[t].inbuf
           mid == WithRequests(a.st, t, Tail(rs))
           rd == Read(mid, t)
           line == rd.line
           st2 == update_cursor(rd.st, t)
           ps2 == rq_finish(a.procs, p)
           lines2 == a.lines \o Append(line, END)
           b == [st |-> st2, procs |-> ps2, lines |-> lines2]
<1>1. answer_rq(a, t) = b
  BY Zenon DEF answer_rq, WithRequests
<1>2. /\ a.st \in ScreenT /\ a.procs \in ProcsT /\ a.lines \in Seq(Chars)
      /\ rs \in Seq(Proc) /\ rs # << >> /\ enough_data(a.st.tty[t]) /\ a.st.cur_tty \in Ttys
  BY Zenon DEF AnswerT, can_answer_rq, ScreenT, TtyT
<1>3. p \in Proc /\ Tail(rs) \in Seq(Proc) /\ Len(Tail(rs)) = Len(rs) - 1
  <2> HIDE DEF rs
  <2> QED
    BY <1>2, HeadTailProperties, Zenon
<1>4. /\ Touched(a.st, mid, t) /\ mid.cursor = a.st.cursor
      /\ mid.tty[t].inbuf = q /\ mid.tty[t].eotcount = a.st.tty[t].eotcount
      /\ mid.tty[t].requests = Tail(rs)
  <2> DEFINE tl == Tail(rs)
  <2>1. tl \in Seq(Proc)
    BY <1>3, Zenon
  <2> HIDE DEF tl
  <2>2. /\ Touched(a.st, WithRequests(a.st, t, tl), t) /\ WithRequests(a.st, t, tl).cursor = a.st.cursor
        /\ WithRequests(a.st, t, tl).tty[t].inbuf = a.st.tty[t].inbuf
        /\ WithRequests(a.st, t, tl).tty[t].eotcount = a.st.tty[t].eotcount
        /\ WithRequests(a.st, t, tl).tty[t].requests = tl
    BY <1>2, <2>1, RequestsSet, ZenonT(40)
  <2> QED
    BY <2>2, Zenon DEF tl
<1> HIDE DEF mid
<1>5. mid \in ScreenT /\ enough_data(mid.tty[t]) /\ mid.tty[t].eotcount = Ends(mid.tty[t].inbuf)
  BY <1>2, <1>4, Zenon DEF Touched, enough_data
<1>6. Reads(mid, rd.st, t, line)
  BY <1>5, LineTaken, Zenon
<1> HIDE DEF rd
<1>7. /\ Touched(mid, rd.st, t) /\ rd.st.tty[t].eotcount = Ends(rd.st.tty[t].inbuf)
      /\ rd.st.tty[t].requests = Tail(rs) /\ line \in Seq(Chars)
      /\ q = Append(line, END) \o rd.st.tty[t].inbuf
  BY <1>4, <1>6, Zenon DEF Reads, Buffered
<1>8. rd.st \in ScreenT /\ rd.st.cur_tty = a.st.cur_tty
  BY <1>4, <1>7, ZenonT(40) DEF Touched
<1>9. /\ st2 \in ScreenT /\ st2.tty = rd.st.tty /\ st2.cur_tty = rd.st.cur_tty
      /\ st2.vmem = rd.st.vmem /\ st2.start = rd.st.start
      /\ t = rd.st.cur_tty => ShowsCursor(st2)
      /\ t # rd.st.cur_tty => st2.cursor = rd.st.cursor
  BY <1>8, CursorUpdated
<1> HIDE DEF st2
<1>10. Touched(a.st, st2, t)
  <2>1. Touched(a.st, rd.st, t)
    BY <1>4, <1>7, Zenon DEF Touched
  <2> QED
    BY <1>9, <2>1, Zenon DEF Touched, ShowsLines
<1>11. ShowsCursor(a.st) => ShowsCursor(st2)
  <2>1. CASE t = rd.st.cur_tty
    BY <1>9, <2>1, Zenon
  <2>2. CASE t # rd.st.cur_tty
    <3>1. ShowsCursor(a.st) => ShowsCursor(mid)
      BY <1>2, <1>4, <1>8, <2>2, ZenonT(40) DEF Touched, ShowsCursor
    <3>2. ShowsCursor(mid) => ShowsCursor(rd.st)
      BY <1>6, Zenon DEF Reads, Buffered
    <3>3. ShowsCursor(rd.st) => ShowsCursor(st2)
      BY <1>9, <2>2, ZenonT(40) DEF ShowsCursor
    <3> QED
      BY <3>1, <3>2, <3>3
  <2> QED
    BY <2>1, <2>2, Zenon
<1>12. ps2 \in ProcsT /\ SamePlace(a.procs, ps2)
  BY <1>2, <1>3, Finished
<1>13. lines2 \in Seq(Chars) /\ lines2 \o rd.st.tty[t].inbuf = a.lines \o q
  <2> DEFINE c == Append(line, END)
             d == rd.st.tty[t].inbuf
  <2>1. END \in Chars
    BY DEF Chars
  <2>2. c \in Seq(Chars)
    BY <1>7, <2>1, AppendProperties, Zenon
  <2>3. d \in Seq(Chars)
    BY <1>8, Zenon DEF ScreenT, TtyT
  <2> HIDE DEF c, d
  <2>4. a.lines \o c \in Seq(Chars) /\ (a.lines \o c) \o d = a.lines \o (c \o d)
    <3> DEFINE l == a.lines
    <3>1. l \in Seq(Chars)
      BY <1>2
    <3> HIDE DEF l
    <3>2. l \o c \in Seq(Chars)
      BY ONLY <2>2, <3>1
    <3>3. (l \o c) \o d = l \o (c \o d)
      BY ONLY <2>2, <2>3, <3>1, SMTT(30), ZenonT(20)
    <3> QED
      BY <3>2, <3>3, Zenon DEF l
  <2> QED
    BY <1>7, <2>4, ZenonT(40) DEF c, d
<1> HIDE DEF ps2, lines2
<1>14. b \in AnswerT /\ b.st = st2 /\ b.procs = ps2 /\ b.lines = lines2
  BY <1>9, <1>12, <1>13, Zenon DEF AnswerT
<1> HIDE DEF b
<1> QED
  BY <1>1, <1>3, <1>7, <1>9, <1>10, <1>11, <1>12, <1>13, <1>14, ZenonT(40)

(* After n turns every request left is beyond the n-th, unless the lines   *)
(* have run out.                                                           *)
Answered(st, a, t, n) ==
  /\ Touched(st, a.st, t) /\ SamePlace(proc, a.procs)
  /\ st.tty[t].inbuf = a.lines \o a.st.tty[t].inbuf
  /\ a.st.tty[t].eotcount = Ends(a.st.tty[t].inbuf)
  /\ Len(a.st.tty[t].requests) <= Len(st.tty[t].requests) - n \/ a.st.tty[t].eotcount = 0
  /\ ShowsCursor(st) => ShowsCursor(a.st)

Turn(a, t) == IF can_answer_rq(a.st, t) THEN answer_rq(a, t) ELSE a

LEMMA TurnStep ==
  ASSUME Counting, NEW st \in ScreenT, NEW t \in Ttys, NEW a \in AnswerT,
         NEW n \in Nat, n < Len(st.tty[t].requests), Answered(st, a, t, n)
  PROVE  Turn(a, t) \in AnswerT /\ Answered(st, Turn(a, t), t, n + 1)
<1> DEFINE rs == a.st.tty[t].requests
           N == Len(st.tty[t].requests)
<1>1. N \in Nat /\ rs \in Seq(Proc) /\ Len(rs) \in Nat /\ a.st.tty[t].inbuf \in Seq(Chars) /\ a.st.tty[t].eotcount \in Int
  <2>1. a.st \in ScreenT
    BY Zenon DEF AnswerT
  <2>2. a.st.tty[t] \in TtyT /\ st.tty[t] \in TtyT
    BY <2>1, Zenon DEF ScreenT
  <2>3. /\ st.tty[t].requests \in Seq(Proc) /\ rs \in Seq(Proc)
        /\ a.st.tty[t].inbuf \in Seq(Chars) /\ a.st.tty[t].eotcount \in Int
    BY <2>2, Zenon DEF TtyT
  <2>4. \A x \in Seq(Proc) : Len(x) \in Nat
    OBVIOUS
  <2> QED
    BY <2>3, <2>4, Zenon
<1>2. Len(rs) <= N - n \/ a.st.tty[t].eotcount = 0
  BY Zenon DEF Answered
<1>3. CASE can_answer_rq(a.st, t)
  <2> DEFINE b == answer_rq(a, t)
  <2>1. /\ b \in AnswerT /\ Touched(a.st, b.st, t) /\ SamePlace(a.procs, b.procs)
        /\ b.lines \o b.st.tty[t].inbuf = a.lines \o a.st.tty[t].inbuf
        /\ b.st.tty[t].eotcount = Ends(b.st.tty[t].inbuf)
        /\ Len(b.st.tty[t].requests) = Len(rs) - 1
        /\ ShowsCursor(a.st) => ShowsCursor(b.st)
    BY <1>3, AnswerOne, Zenon DEF Answered
  <2>2. Turn(a, t) = b
    BY <1>3 DEF Turn
  <2> HIDE DEF b
  <2>3. Touched(st, b.st, t)
    BY <2>1, Zenon DEF Answered, Touched
  <2>4. SamePlace(proc, b.procs)
    BY <2>1, Zenon DEF Answered, SamePlace
  <2>5. Len(rs) <= N - n
    <3>1. a.st.tty[t].eotcount > 0
      BY <1>3, Zenon DEF can_answer_rq, enough_data
    <3>2. a.st.tty[t].eotcount # 0
      BY <1>1, <3>1
    <3> QED
      BY <1>2, <3>2, Zenon
  <2>6. Len(b.st.tty[t].requests) <= N - (n + 1)
    <3> DEFINE k == Len(rs)
    <3>1. N \in Nat /\ k \in Nat /\ k <= N - n
      BY <1>1, <2>5
    <3> HIDE DEF k, N
    <3>2. k - 1 <= N - (n + 1)
      BY <3>1
    <3> QED
      BY <2>1, <3>2, Zenon DEF k
  <2>7. Answered(st, b, t, n + 1)
    BY <2>1, <2>3, <2>4, <2>6, ZenonT(40) DEF Answered
  <2> QED
    BY <2>1, <2>2, <2>7, Zenon
<1>4. CASE ~can_answer_rq(a.st, t)
  <2>1. Turn(a, t) = a
    BY <1>4, Zenon DEF Turn
  <2>2. Len(rs) <= N - (n + 1) \/ a.st.tty[t].eotcount = 0
    <3>1. CASE rs = << >>
      BY <1>1, <3>1, SMTT(30), ZenonT(20)
    <3>2. CASE rs # << >>
      <4>1. ~(a.st.tty[t].eotcount > 0)
        BY <1>4, <3>2 DEF can_answer_rq, enough_data
      <4>2. a.st.tty[t].eotcount \in Nat
        BY <1>1, EndsFinite, Zenon DEF Answered
      <4> QED
        BY <4>1, <4>2
    <3> QED
      BY <3>1, <3>2, ZenonT(40)
  <2>3. Answered(st, a, t, n + 1)
    BY <2>2, Zenon DEF Answered
  <2> QED
    BY <2>1, <2>3
<1> QED
  BY <1>3, <1>4, Zenon

(* Afterwards nobody waits at the terminal while it has a line.            *)
LEMMA AnswersStep ==
  ASSUME Counting, NEW st \in ScreenT, NEW t \in Ttys, proc \in ProcsT,
         st.tty[t].eotcount = Ends(st.tty[t].inbuf)
  PROVE  LET a == Answers(st, t)
         IN  a \in AnswerT /\ Answered(st, a, t, Len(st.tty[t].requests))
<1> DEFINE num == Len(st.tty[t].requests)
           first == [st |-> st, procs |-> proc, lines |-> << >>]
           X == [n \in 0 .. num |-> {a \in AnswerT : Answered(st, a, t, n)}]
           G == [n \in 1 .. num |-> [a \in AnswerT |-> Turn(a, t)]]
           F(f) == [n \in 0 .. num |-> IF n = 0 THEN first ELSE Turn(f[n - 1], t)]
<1>0. num \in Nat
  BY SMTT(30), ZenonT(20) DEF ScreenT, TtyT
<1>1. first \in X[0]
  <2>1. << >> \in Seq(Chars)
    OBVIOUS
  <2>2. first \in AnswerT
    BY <2>1, Zenon DEF AnswerT
  <2>3. st.tty[t].inbuf = << >> \o st.tty[t].inbuf
    <3>1. st.tty[t].inbuf \in Seq(Chars)
      BY Zenon DEF ScreenT, TtyT
    <3> QED
      BY <3>1, ConcatEmptySeq, Zenon
  <2>4. Touched(st, st, t) /\ SamePlace(proc, proc)
    BY Zenon DEF Touched, SamePlace
  <2>5. first.st = st /\ first.procs = proc /\ first.lines = << >>
    OBVIOUS
  <2> HIDE DEF first
  <2>6. num <= num - 0
    BY <1>0
  <2>7. Answered(st, first, t, 0)
    BY <2>3, <2>4, <2>5, <2>6, Zenon DEF Answered
  <2> QED
    BY <1>0, <2>2, <2>7
<1>2. ASSUME NEW n \in 1 .. num, NEW a \in X[n - 1]
      PROVE  a \in AnswerT /\ Turn(a, t) \in X[n]
  <2>1. n - 1 \in 0 .. num /\ n \in 0 .. num /\ n - 1 \in Nat /\ n - 1 < num /\ n - 1 + 1 = n
    BY <1>0
  <2>2. a \in AnswerT /\ Answered(st, a, t, n - 1)
    BY <2>1, Zenon
  <2>3. Turn(a, t) \in AnswerT /\ Answered(st, Turn(a, t), t, n - 1 + 1)
    BY <2>1, <2>2, TurnStep, Zenon
  <2> QED
    BY <2>1, <2>2, <2>3, Zenon
<1>3. \A n \in 1 .. num : \A a \in X[n - 1] : G[n][a] = Turn(a, t)
  BY <1>2, Zenon
<1>4. \A a \in X[num] : a \in AnswerT /\ Answered(st, a, t, num)
  BY <1>0
<1>5. Answers(st, t) = (CHOOSE g : g = F(g))[num]
  BY Zenon DEF Answers, Turn
<1> HIDE DEF X, G, num, first
<1>6. \A n \in 1 .. num : \A a \in X[n - 1] : G[n][a] \in X[n]
  BY <1>2, <1>3
<1>7. PICK f : IsLoop(f, first, G, num) /\ \A n \in 0 .. num : f[n] \in X[n]
  BY <1>0, <1>1, <1>6, Zenon DEF Counting, LoopExists
<1>8. f = F(f)
  <2>1. \A n \in 0 .. num : n # 0 => n \in 1 .. num /\ n - 1 \in 0 .. num
    BY <1>0
  <2>2. \A n \in 0 .. num : (IF n = 0 THEN first ELSE G[n][f[n - 1]])
                              = (IF n = 0 THEN first ELSE Turn(f[n - 1], t))
    BY <1>3, <1>7, <2>1, Zenon
  <2> QED
    BY <1>7, <2>2, Zenon DEF IsLoop
<1> DEFINE walk == CHOOSE g : g = F(g)
<1>9. walk = F(walk)
  <2> HIDE DEF F
  <2> QED
    BY <1>8, Zenon
<1> HIDE DEF walk
<1>10. walk[0] = first /\ \A n \in 1 .. num : walk[n] = Turn(walk[n - 1], t)
  <2>1. \A n \in 0 .. num : walk[n] = IF n = 0 THEN first ELSE Turn(walk[n - 1], t)
    BY <1>9, Zenon
  <2> QED
    BY <1>0, <2>1
<1>11. \A n \in 0 .. num : walk[n] \in X[n]
  <2>1. \A n \in 1 .. num : walk[n - 1] \in X[n - 1] => walk[n] \in X[n]
    BY <1>2, <1>10, Zenon
  <2> QED
    BY <1>0, <1>1, <1>10, <2>1, Zenon DEF Counting, LoopKeeps
<1>12. walk[num] \in AnswerT /\ Answered(st, walk[num], t, num)
  BY <1>0, <1>4, <1>11
<1> QED
  BY <1>5, <1>12, Zenon DEF walk, num
-----------------------------------------------------------------------------
(* The invariant of the terminals                                          *)

(* What was typed is read or in the buffer, the ends of the buffer's lines *)
(* are counted, and requests wait only where there is none.                *)
InputOk(tty, ty, g) ==
  /\ ty = g \o tty.inbuf /\ tty.eotcount = Ends(tty.inbuf)
  /\ tty.requests # << >> => tty.eotcount = 0

NobodyBetween(st, ps) == \A p \in Proc : ps[p].pc = "window" => ps[p].file # st.cur_tty

TtyInv ==
  /\ s \in ScreenT /\ proc \in ProcsT
  /\ typed \in [Ttys -> Seq(Chars)] /\ got \in [Ttys -> Seq(Chars)]
  /\ \A t \in Ttys : InputOk(s.tty[t], typed[t], got[t])
  /\ ShowsLines(s)
  /\ NobodyBetween(s, proc) => ShowsCursor(s)

LEMMA TtyInitial ==
  ASSUME Counting
  PROVE  init_tty => TtyInv
<1> SUFFICES ASSUME init_tty PROVE TtyInv
  OBVIOUS
<1> DEFINE e == << >>
           z == 0
           tty == [inbuf |-> e, eotcount |-> z, requests |-> e, outbuf |-> Blank,
                   outstart |-> z, x |-> z, y |-> z, screenY |-> z]
<1>1. Blank \in [Cells -> Chars]
  <2> DEFINE sp == " "
  <2>1. sp \in Chars /\ Blank = [c \in Cells |-> sp]
    BY DEF Chars, Blank
  <2> HIDE DEF sp
  <2> QED
    BY <2>1, Zenon
<1>2. e \in Seq(Chars) /\ e \in Seq(Proc) /\ z \in Int
  OBVIOUS
<1>3. Ends(e) = z
  <2>1. e \in Seq(Chars) /\ END \notin Range(e)
    BY DEF Range
  <2> QED
    BY <2>1, EndsFinite, Zenon
<1>4. FirstTty \in Ttys
  BY TtyAssumption
<1>5. /\ s = [tty |-> [t \in Ttys |-> tty], cur_tty |-> FirstTty, vmem |-> Blank,
              start |-> z, cursor |-> HIDDEN, wild |-> FALSE]
      /\ typed = [t \in Ttys |-> e] /\ got = [t \in Ttys |-> e]
  BY ZenonT(40) DEF init_tty, init
<1>6. proc \in ProcsT
  BY <1>4 DEF init_tty, ProcsT, ProcT
<1>7. e \o e = e
  BY <1>2, ConcatEmptySeq
<1>8. HIDDEN \in Int
  BY HiddenPlace
<1> HIDE DEF e, z
<1>9. /\ tty \in TtyT /\ tty.inbuf = e /\ tty.eotcount = z /\ tty.requests = e
      /\ tty.outbuf = Blank /\ tty.outstart = z
  <2> DEFINE b == Blank
  <2>1. b \in [Cells -> Chars]
    BY <1>1, Zenon
  <2> HIDE DEF b
  <2>2. [inbuf |-> e, eotcount |-> z, requests |-> e, outbuf |-> b,
         outstart |-> z, x |-> z, y |-> z, screenY |-> z] \in TtyT
    BY <1>2, <2>1, ZenonT(40) DEF TtyT
  <2> QED
    BY <2>2 DEF b
<1> HIDE DEF tty
<1>10. /\ s \in ScreenT /\ s.cur_tty = FirstTty /\ s.vmem = Blank /\ s.start = z /\ s.cursor = HIDDEN
       /\ \A t \in Ttys : s.tty[t] = tty
  BY <1>1, <1>2, <1>4, <1>5, <1>8, <1>9 DEF ScreenT
<1>11. \A t \in Ttys : InputOk(s.tty[t], typed[t], got[t])
  BY <1>3, <1>5, <1>7, <1>9, <1>10, Zenon DEF InputOk, e
<1>12. ShowsLines(s)
  BY <1>4, <1>9, <1>10, Zenon DEF ShowsLines
<1>13. ShowsCursor(s)
  BY <1>4, <1>9, <1>10, Zenon DEF ShowsCursor, e
<1>14. typed \in [Ttys -> Seq(Chars)] /\ got \in [Ttys -> Seq(Chars)]
  BY <1>2, <1>5, Zenon
<1> QED
  BY <1>6, <1>10, <1>11, <1>12, <1>13, <1>14 DEF TtyInv

(* A step that only writes.                                                *)
LEMMA WritesOnly ==
  ASSUME TtyInv, NEW t \in Ttys, Output(s, s', t), ShowsCursor(s) => ShowsCursor(s'),
         UNCHANGED <<proc, typed, got>>
  PROVE  TtyInv'
<1>1. s' \in ScreenT /\ s'.cur_tty = s.cur_tty /\ ShowsLines(s')
  BY Zenon DEF TtyInv, Output
<1>2. \A u \in Ttys : SameInput(s.tty[u], s'.tty[u])
  BY DEF Output, SameInput
<1>3. \A u \in Ttys : InputOk(s'.tty[u], typed[u], got[u])
  BY <1>2, ZenonT(40) DEF TtyInv, InputOk, SameInput
<1>4. NobodyBetween(s', proc) => ShowsCursor(s')
  BY <1>1, Zenon DEF TtyInv, NobodyBetween
<1> QED
  BY <1>1, <1>3, <1>4, Zenon DEF TtyInv

LEMMA RawKeyStep == ASSUME TtyInv, RawKey PROVE TtyInv'
<1>1. s \in ScreenT /\ s.cur_tty \in Ttys
  BY DEF TtyInv, ScreenT
<1>2. UNCHANGED <<proc, typed, got>>
  BY ZenonT(40) DEF RawKey
<1>3. CASE \E t \in Ttys \ {s.cur_tty} : s' = select_tty(s, t)
  <2>1. PICK t \in Ttys \ {s.cur_tty} : s' = select_tty(s, t)
    BY <1>3, Zenon
  <2>2. s' \in ScreenT /\ s'.tty = s.tty /\ ShowsLines(s') /\ ShowsCursor(s')
    BY <1>1, <2>1, Selected, Zenon
  <2> QED
    BY <1>2, <2>2 DEF TtyInv
<1>4. CASE \E key \in {"PAGE_UP", "PAGE_DOWN", "HOME", "END"} : s' = ScrollKey(s, key)
  <2>1. PICK key \in {"PAGE_UP", "PAGE_DOWN", "HOME", "END"} : s' = ScrollKey(s, key)
    BY <1>4, Zenon
  <2>2. Output(s, s', s.cur_tty) /\ (ShowsCursor(s) => ShowsCursor(s'))
    BY <1>1, <2>1, ScrollKeyOutput, Zenon
  <2> QED
    BY <1>1, <1>2, <2>2, WritesOnly
<1> QED
  BY <1>3, <1>4, Zenon DEF RawKey

LEMMA ClearStep == ASSUME TtyInv, kout_clear PROVE TtyInv'
<1>1. s \in ScreenT /\ KoutTty \in Ttys
  BY TtyAssumption DEF TtyInv
<1>2. UNCHANGED <<proc, typed, got>>
  BY DEF kout_clear
<1>3. Output(s, s', KoutTty) /\ (ShowsCursor(s) => ShowsCursor(s'))
  BY <1>1, Cleared, Zenon DEF kout_clear
<1> QED
  BY <1>1, <1>2, <1>3, WritesOnly, ZenonT(40)

LEMMA WriteStep == ASSUME Counting, TtyInv, NEW p \in Proc, NEW t \in Ttys, tty_write(p, t) PROVE TtyInv'
<1>1. PICK str \in Text : s' = puts(s, t, str)
  BY DEF tty_write
<1>2. str \in Seq(Chars)
  <2>1. str \in Seq(Range(str))
    BY TtyAssumption
  <2>2. Range(str) \subseteq Chars
    BY Zenon DEF Chars
  <2> QED
    BY <2>1, <2>2
<1>3. Output(s, s', t) /\ (ShowsCursor(s) => ShowsCursor(s'))
  BY <1>1, <1>2, PutsOutput DEF TtyInv
<1>4. UNCHANGED <<proc, typed, got>>
  BY DEF tty_write
<1> QED
  BY <1>3, <1>4, WritesOnly

(* The cursor is brought up to date when a reader leaves the window.       *)
LEMMA BlockStep == ASSUME TtyInv, NEW p \in Proc, rq_block(p) PROVE TtyInv'
<1> DEFINE f == proc[p].file
           r == [proc[p] EXCEPT !.pc = "user", !.eax = EAGAIN,
                                !.rq = IF @ = "queued" THEN "blocked" ELSE @]
<1>1. s \in ScreenT /\ proc \in ProcsT /\ proc[p] \in ProcT /\ f \in Ttys
  BY Zenon DEF TtyInv, ProcsT, ProcT
<1>2. /\ s' \in ScreenT /\ s'.tty = s.tty /\ s'.cur_tty = s.cur_tty
      /\ s'.vmem = s.vmem /\ s'.start = s.start
      /\ f = s.cur_tty => ShowsCursor(s')
      /\ f # s.cur_tty => s'.cursor = s.cursor
  BY <1>1, CursorUpdated DEF rq_block
<1>3. r \in ProcT /\ r.pc = "user" /\ r.file = f
  BY <1>1, Zenon DEF ProcT
<1>4. proc' = [proc EXCEPT ![p] = r]
  BY <1>1, Zenon DEF rq_block, ProcsT
<1> HIDE DEF r
<1>5. proc' \in ProcsT /\ \A o \in Proc \ {p} : proc'[o] = proc[o]
  BY <1>1, <1>3, <1>4 DEF ProcsT
<1>6. UNCHANGED <<typed, got>>
  BY Zenon DEF rq_block
<1>7. ShowsLines(s')
  BY <1>2, Zenon DEF TtyInv, ShowsLines
<1>8. ASSUME NobodyBetween(s', proc') PROVE ShowsCursor(s')
  <2>1. CASE f = s.cur_tty
    BY <1>2, <2>1, Zenon
  <2>2. CASE f # s.cur_tty
    <3>1. NobodyBetween(s, proc)
      BY <1>2, <1>5, <1>8, <2>2, Zenon DEF NobodyBetween
    <3>2. ShowsCursor(s)
      BY <3>1 DEF TtyInv
    <3> QED
      BY <1>2, <2>2, <3>2, Zenon DEF ShowsCursor
  <2> QED
    BY <2>1, <2>2, Zenon
<1> QED
  BY <1>2, <1>5, <1>6, <1>7, <1>8, Zenon DEF TtyInv

(* The histories and buffers of the terminals but one stay.                *)
LEMMA OthersOk ==
  ASSUME TtyInv, NEW t \in Ttys, NEW h \in Seq(Chars), NEW g \in Seq(Chars), Touched(s, s', t),
         typed' = [typed EXCEPT ![t] = h], got' = [got EXCEPT ![t] = g],
         InputOk(s'.tty[t], h, g)
  PROVE  /\ typed' \in [Ttys -> Seq(Chars)] /\ got' \in [Ttys -> Seq(Chars)]
         /\ \A u \in Ttys : InputOk(s'.tty[u], typed'[u], got'[u])
<1>1. typed \in [Ttys -> Seq(Chars)] /\ got \in [Ttys -> Seq(Chars)]
  BY Zenon DEF TtyInv
<1>2. typed' \in [Ttys -> Seq(Chars)] /\ got' \in [Ttys -> Seq(Chars)]
  BY <1>1, Zenon
<1>3. \A u \in Ttys \ {t} : typed'[u] = typed[u] /\ got'[u] = got[u] /\ s'.tty[u] = s.tty[u]
  BY <1>1, Zenon DEF Touched
<1>4. \A u \in Ttys \ {t} : InputOk(s'.tty[u], typed'[u], got'[u])
  BY <1>3, Zenon DEF TtyInv
<1>5. typed'[t] = h /\ got'[t] = g
  BY <1>1
<1> QED
  BY <1>2, <1>4, <1>5, Zenon

LEMMA ReadCallStep == ASSUME Counting, TtyInv, NEW p \in Proc, NEW t \in Ttys, tty_read(p, t) PROVE TtyInv'
<1> DEFINE q == s.tty[t].inbuf
<1>1. /\ s \in ScreenT /\ proc \in ProcsT /\ proc[p] \in ProcT /\ q \in Seq(Chars)
      /\ typed[t] \in Seq(Chars) /\ got[t] \in Seq(Chars) /\ s.cur_tty \in Ttys
      /\ typed \in [Ttys -> Seq(Chars)] /\ got \in [Ttys -> Seq(Chars)]
  BY Zenon DEF TtyInv, ProcsT, ScreenT, TtyT
<1>2. /\ typed[t] = got[t] \o q /\ s.tty[t].eotcount = Ends(q)
      /\ s.tty[t].requests # << >> => s.tty[t].eotcount = 0
  BY Zenon DEF TtyInv, InputOk
<1>3. typed' = typed /\ typed' = [typed EXCEPT ![t] = typed[t]]
  BY <1>1, Zenon DEF tty_read
<1>4. CASE enough_data(s.tty[t])
  <2> DEFINE rd == Read(s, t)
             line == rd.line
             r == [proc[p] EXCEPT !.eax = "count"]
             g == got[t] \o Append(line, END)
  <2>1. s' = rd.st /\ got' = [got EXCEPT ![t] = g] /\ proc' = [proc EXCEPT ![p] = r]
    BY <1>4, Zenon DEF tty_read
  <2>2. Reads(s, rd.st, t, line)
    BY <1>1, <1>2, <1>4, LineTaken, Zenon
  <2> HIDE DEF rd, line
  <2>3. /\ Touched(s, s', t) /\ s'.tty[t].eotcount = Ends(s'.tty[t].inbuf)
        /\ s'.tty[t].requests = s.tty[t].requests /\ (ShowsCursor(s) => ShowsCursor(s'))
        /\ line \in Seq(Chars) /\ q = Append(line, END) \o s'.tty[t].inbuf
    BY <2>1, <2>2, Zenon DEF Reads, Buffered
  <2>4. s' \in ScreenT /\ s'.cur_tty = s.cur_tty /\ ShowsLines(s')
    BY <2>3, ZenonT(40) DEF Touched, TtyInv
  <2>5. s.tty[t].requests = << >>
    BY <1>2, <1>4 DEF enough_data
  <2>6. g \in Seq(Chars) /\ typed[t] = g \o s'.tty[t].inbuf
    <3> DEFINE c == Append(line, END)
               d == s'.tty[t].inbuf
               o == got[t]
    <3>1. END \in Chars
      BY Zenon DEF Chars
    <3>2. c \in Seq(Chars) /\ d \in Seq(Chars) /\ o \in Seq(Chars)
      <4>1. c \in Seq(Chars)
        BY <2>3, <3>1, AppendProperties, Zenon
      <4>2. d \in Seq(Chars)
        BY <2>4, Zenon DEF ScreenT, TtyT
      <4> QED
        BY <1>1, <4>1, <4>2, Zenon
    <3>3. q = c \o d /\ typed[t] = o \o q
      BY <1>2, <2>3, Zenon
    <3> HIDE DEF c, d, o
    <3>4. o \o c \in Seq(Chars)
      BY <3>2, ConcatProperties
    <3>5. (o \o c) \o d = o \o (c \o d)
      BY <3>2, ConcatAssociative, SMTT(30), ZenonT(20)
    <3> QED
      BY <3>3, <3>4, <3>5, ZenonT(40) DEF c, d, o
  <2> HIDE DEF g
  <2>7. InputOk(s'.tty[t], typed[t], g)
    BY <2>3, <2>5, <2>6, Zenon DEF InputOk
  <2>8. /\ got' \in [Ttys -> Seq(Chars)] /\ typed' \in [Ttys -> Seq(Chars)]
        /\ \A u \in Ttys : InputOk(s'.tty[u], typed'[u], got'[u])
    BY <1>1, <1>3, <2>1, <2>3, <2>6, <2>7, OthersOk, Zenon
  <2>9. r \in ProcT /\ r.pc = proc[p].pc /\ r.file = proc[p].file
    BY <1>1, Zenon DEF ProcT
  <2> HIDE DEF r
  <2>10. proc' \in ProcsT /\ SamePlace(proc, proc')
    BY <1>1, <2>1, <2>9, Zenon DEF ProcsT, SamePlace
  <2>11. NobodyBetween(s', proc') => ShowsCursor(s')
    BY <2>3, <2>4, <2>10, ZenonT(40) DEF TtyInv, NobodyBetween, SamePlace
  <2> QED
    BY <2>4, <2>8, <2>10, <2>11 DEF TtyInv
<1>5. CASE ~enough_data(s.tty[t])
  <2> DEFINE rs == Append(s.tty[t].requests, p)
             r == [proc[p] EXCEPT !.pc = "window", !.blocked = TRUE, !.rq = "queued", !.file = t]
  <2>1. s' = WithRequests(s, t, rs) /\ got' = got /\ proc' = [proc EXCEPT ![p] = r]
    BY <1>5, Zenon DEF tty_read, WithRequests
  <2>2. rs \in Seq(Proc)
    <3>1. s.tty[t].requests \in Seq(Proc)
      BY <1>1 DEF ScreenT, TtyT
    <3> QED
      BY <3>1, AppendProperties, Zenon
  <2> HIDE DEF rs
  <2>3. /\ Touched(s, s', t) /\ s'.cursor = s.cursor /\ s'.tty[t].inbuf = q
        /\ s'.tty[t].eotcount = s.tty[t].eotcount
    BY <1>1, <2>1, <2>2, RequestsSet
  <2>4. s' \in ScreenT /\ s'.cur_tty = s.cur_tty /\ ShowsLines(s')
    BY <2>3, Zenon DEF Touched, TtyInv
  <2>5. s.tty[t].eotcount = 0
    <3>1. ~(s.tty[t].eotcount > 0)
      BY <1>5, Zenon DEF enough_data
    <3>2. s.tty[t].eotcount \in Nat
      BY <1>1, <1>2, EndsFinite, ZenonT(40)
    <3> QED
      BY <3>1, <3>2
  <2>6. InputOk(s'.tty[t], typed[t], got[t])
    BY <1>2, <2>3, <2>5 DEF InputOk
  <2>7. got' = [got EXCEPT ![t] = got[t]]
    BY <1>1, <2>1
  <2>8. /\ got' \in [Ttys -> Seq(Chars)] /\ typed' \in [Ttys -> Seq(Chars)]
        /\ \A u \in Ttys : InputOk(s'.tty[u], typed'[u], got'[u])
    BY <1>1, <1>3, <2>3, <2>6, <2>7, OthersOk, Zenon
  <2>9. r \in ProcT /\ r.pc = "window" /\ r.file = t
    BY <1>1, Zenon DEF ProcT
  <2> HIDE DEF r
  <2>10. proc' \in ProcsT /\ proc'[p] = r /\ \A o \in Proc \ {p} : proc'[o] = proc[o]
    BY <1>1, <2>1, <2>9, Zenon DEF ProcsT
  <2>11. ASSUME NobodyBetween(s', proc') PROVE ShowsCursor(s')
    <3>1. t # s.cur_tty
      BY <2>4, <2>9, <2>10, <2>11, Zenon DEF NobodyBetween
    <3>2. proc[p].pc # "window"
      BY Zenon DEF tty_read, CanCall
    <3>3. NobodyBetween(s, proc)
      BY <2>4, <2>10, <2>11, <3>2, Zenon DEF NobodyBetween
    <3>4. s'.tty[s.cur_tty] = s.tty[s.cur_tty]
      BY <1>1, <2>3, <3>1, Zenon DEF Touched
    <3> QED
      BY <2>3, <2>4, <3>3, <3>4, Zenon DEF TtyInv, ShowsCursor
  <2> QED
    BY <2>4, <2>8, <2>10, <2>11 DEF TtyInv
<1> QED
  BY <1>4, <1>5, Zenon

LEMMA KeyStep == ASSUME Counting, TtyInv, NEW c \in {"a", NL, BS, EOT}, handle_input(c) PROVE TtyInv'
<1> DEFINE t == s.cur_tty
           q == s.tty[t].inbuf
           e == Edit(s, t, c)
           a == Answers(e, t)
           h == Typed(typed[t], q, c)
           g == got[t] \o a.lines
<1>1. /\ s \in ScreenT /\ proc \in ProcsT /\ t \in Ttys /\ q \in Seq(Chars)
      /\ typed[t] \in Seq(Chars) /\ got[t] \in Seq(Chars)
      /\ typed \in [Ttys -> Seq(Chars)] /\ got \in [Ttys -> Seq(Chars)]
  <2>1. s \in ScreenT /\ proc \in ProcsT /\ t \in Ttys
    BY Zenon DEF TtyInv, ScreenT
  <2> QED
    BY <2>1, Zenon DEF TtyInv, ScreenT, TtyT
<1>2. CASE Len(q) = TTY_INBUF_SIZE
  <2>1. UNCHANGED <<s, proc, typed, got>>
    BY <1>2, Zenon DEF handle_input
  <2> QED
    BY <2>1, Zenon DEF TtyInv
<1>3. CASE Len(q) # TTY_INBUF_SIZE
  <2>1. /\ s' = a.st /\ proc' = a.procs
        /\ typed' = [typed EXCEPT ![t] = h] /\ got' = [got EXCEPT ![t] = g]
    BY <1>3, Zenon DEF handle_input
  <2>2. typed[t] = got[t] \o q /\ s.tty[t].eotcount = Ends(q)
    BY <1>1, ZenonT(40) DEF TtyInv, InputOk
  <2>3. Edited(s, e, t, c)
    BY <1>1, <2>2, EditStep
  <2>4. h = got[t] \o e.tty[t].inbuf
    BY <1>1, <2>2, <2>3, Zenon DEF Edited
  <2> HIDE DEF h
  <2>5. /\ Touched(s, e, t) /\ (ShowsCursor(s) => ShowsCursor(e))
        /\ e.tty[t].eotcount = Ends(e.tty[t].inbuf)
    BY <2>3, ZenonT(40) DEF Edited, Buffered
  <2> HIDE DEF e
  <2>6. e \in ScreenT /\ e.tty[t].requests \in Seq(Proc) /\ e.tty[t].inbuf \in Seq(Chars)
    <3>1. e \in ScreenT
      BY <2>5, Zenon DEF Touched
    <3> QED
      BY <1>1, <3>1, Zenon DEF ScreenT, TtyT
  <2> DEFINE n == Len(e.tty[t].requests)
  <2>7. a \in AnswerT /\ Answered(e, a, t, n)
    BY <1>1, <2>5, <2>6, AnswersStep, Zenon
  <2> HIDE DEF a
  <2>8. /\ Touched(e, s', t) /\ SamePlace(proc, proc')
        /\ e.tty[t].inbuf = a.lines \o s'.tty[t].inbuf
        /\ s'.tty[t].eotcount = Ends(s'.tty[t].inbuf)
        /\ Len(s'.tty[t].requests) <= n - n \/ s'.tty[t].eotcount = 0
        /\ ShowsCursor(e) => ShowsCursor(s')
    BY <2>1, <2>7, Zenon DEF Answered
  <2>9. s' \in ScreenT /\ proc' \in ProcsT /\ a.lines \in Seq(Chars)
    BY <2>1, <2>7 DEF AnswerT
  <2>10. Touched(s, s', t)
    BY <2>5, <2>8, ZenonT(40) DEF Touched
  <2>11. s'.cur_tty = t /\ ShowsLines(s')
    BY <2>10 DEF Touched, TtyInv
  <2>12. g \in Seq(Chars) /\ h = g \o s'.tty[t].inbuf /\ h \in Seq(Chars)
    <3> DEFINE l == a.lines
               d == s'.tty[t].inbuf
               o == got[t]
    <3>1. l \in Seq(Chars) /\ d \in Seq(Chars) /\ o \in Seq(Chars)
      BY <1>1, <2>9 DEF ScreenT, TtyT
    <3>2. h = o \o (l \o d)
      BY <2>4, <2>8, Zenon
    <3> HIDE DEF l, d, o
    <3>3. o \o l \in Seq(Chars)
      BY <3>1, ConcatProperties, Zenon
    <3>4. (o \o l) \o d = o \o (l \o d)
      BY <3>1, ConcatAssociative, SMTT(30), ZenonT(20)
    <3> DEFINE ol == o \o l
    <3> HIDE DEF ol
    <3>5. ol \o d \in Seq(Chars)
      <4>1. ol \in Seq(Chars)
        BY <3>3, Zenon DEF ol
      <4> QED
        BY <3>1, <4>1, ConcatProperties, Zenon
    <3> QED
      BY <3>2, <3>3, <3>4, <3>5, ZenonT(40) DEF l, d, o, ol
  <2> HIDE DEF g
  <2>13. s'.tty[t].requests # << >> => s'.tty[t].eotcount = 0
    <3> DEFINE rs == s'.tty[t].requests
    <3>1. rs \in Seq(Proc)
      BY <1>1, <2>9, Zenon DEF ScreenT, TtyT
    <3>2. n - n = 0
      BY <2>6
    <3> HIDE DEF n, rs
    <3>3. rs # << >> => Len(rs) > 0
      BY <3>1, SMTT(30), ZenonT(20)
    <3>4. Len(rs) <= 0 \/ s'.tty[t].eotcount = 0
      BY <2>8, <3>2 DEF rs
    <3>5. Len(rs) \in Nat
      BY <3>1
    <3> QED
      BY <3>3, <3>4, <3>5 DEF rs
  <2>14. InputOk(s'.tty[t], h, g)
    BY <2>8, <2>12, <2>13, Zenon DEF InputOk
  <2>15. /\ got' \in [Ttys -> Seq(Chars)] /\ typed' \in [Ttys -> Seq(Chars)]
         /\ \A u \in Ttys : InputOk(s'.tty[u], typed'[u], got'[u])
    <3> HIDE DEF t
    <3> QED
      BY <1>1, <2>1, <2>10, <2>12, <2>14, OthersOk, Zenon
  <2>16. NobodyBetween(s', proc') => ShowsCursor(s')
    <3>1. NobodyBetween(s', proc') => NobodyBetween(s, proc)
      BY <2>8, <2>11, Zenon DEF NobodyBetween, SamePlace
    <3> QED
      BY <2>5, <2>8, <3>1, Zenon DEF TtyInv
  <2> QED
    BY <2>9, <2>11, <2>15, <2>16 DEF TtyInv
<1> QED
  BY <1>2, <1>3

LEMMA TtyStep ==
  ASSUME Counting
  PROVE  TtyInv /\ [TtyNext]_ttyVars => TtyInv'
<1> SUFFICES ASSUME TtyInv, [TtyNext]_ttyVars PROVE TtyInv'
  OBVIOUS
<1>1. CASE Key
  BY <1>1, KeyStep DEF Key
<1>2. CASE RawKey
  BY <1>2, RawKeyStep
<1>3. CASE kout_clear
  BY <1>3, ClearStep, Zenon
<1>4. CASE Stopped \/ UNCHANGED ttyVars
  <2>1. UNCHANGED ttyVars
    BY <1>4, Zenon DEF Stopped
  <2> QED
    BY <2>1 DEF ttyVars, TtyInv
<1>5. ASSUME NEW p \in Proc, Call(p) PROVE TtyInv'
  BY <1>5, ReadCallStep, WriteStep DEF Call
<1>6. ASSUME NEW p \in Proc, rq_block(p) PROVE TtyInv'
  BY <1>6, BlockStep
<1> QED
  BY <1>1, <1>2, <1>3, <1>4, <1>5, <1>6 DEF TtyNext
-----------------------------------------------------------------------------
(* The theorems, from the proof of Counting.                               *)
INSTANCE Counting_proofs

(* TtyInv holds from init_tty on, whatever is typed, written and read.     *)
LEMMA TtyAlways == TtySpec => []TtyInv
<1>1. init_tty => TtyInv
  BY TtyInitial, CountingHolds, ZenonT(40)
<1>2. TtyInv /\ [TtyNext]_ttyVars => TtyInv'
  BY TtyStep, CountingHolds
<1> QED
  BY <1>1, <1>2, PTL DEF TtySpec

(* No character is lost, doubled or moved between the key handler and the  *)
(* readers, for any number of terminals, processes and keys, any size of   *)
(* buffer and screen, and any text written in between.                     *)
THEOREM NoKeyLostCorrect == TtySpec => []NoKeyLost
<1>1. TtyInv => NoKeyLost
  BY ZenonT(40) DEF TtyInv, InputOk, NoKeyLost
<1> QED
  BY <1>1, TtyAlways, PTL

(* Nobody waits in tty_read at a terminal that holds a line: a reader that *)
(* comes takes it, and the key that completes it answers who waits.        *)
THEOREM NobodyWaitsCorrect == TtySpec => []NobodyWaitsBesideALine
<1>1. TtyInv => NobodyWaitsBesideALine
  <2> SUFFICES ASSUME TtyInv, NEW t \in Ttys, s.tty[t].requests # << >>
               PROVE  END \notin Range(s.tty[t].inbuf)
    BY Zenon DEF NobodyWaitsBesideALine
  <2>1. s.tty[t].inbuf \in Seq(Chars) /\ Ends(s.tty[t].inbuf) = 0
    BY ZenonT(40) DEF TtyInv, InputOk, ScreenT, TtyT
  <2> QED
    BY <2>1, EndsFinite, CountingHolds, ZenonT(40)
<1> QED
  BY <1>1, TtyAlways, PTL

(* The adapter shows the selected terminal, through scrolling, switching,  *)
(* clearing and the window in which a key comes between a reader and its   *)
(* sleep.                                                                  *)
THEOREM ScreenCorrect == TtySpec => []ScreenShowsCurrent
<1>1. TtyInv => ScreenShowsCurrent
  BY DEF TtyInv, ScreenShowsCurrent, ShowsLines, ShowsCursor, NobodyBetween
<1> QED
  BY <1>1, TtyAlways, PTL
=============================================================================
