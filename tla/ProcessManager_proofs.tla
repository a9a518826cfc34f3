----------------------- MODULE ProcessManager_proofs -----------------------
(***************************************************************************)
(* What the theorems of Processes_proofs rest on, for any size of the      *)
(* process table.  First what each function of pm.c does to the run list,  *)
(* then that each handler preserves the inductive invariant IInv.          *)
(***************************************************************************)
EXTENDS ProcessManager, Counting, TLAPS

Among(n, q, p) == \E i \in 1 .. n : q[i] = p

(* The run list is well formed and holds the processes of L.               *)
ListOn(s, L) ==
  \E n \in Nat \ {0} : \E q \in [1 .. n -> Slot] :
    /\ IsRunList(s, n, q)
    /\ \A p \in Slot : p \in L <=> Among(n, q, p)

(* What the list functions and the scheduler leave alone.                  *)
SameTable(t, s) ==
  /\ t.pid = s.pid
  /\ t.block = s.block
  /\ t.wait_proc = s.wait_proc
  /\ t.wait_for = s.wait_for
  /\ t.exit_status = s.exit_status
  /\ t.eax = s.eax
  /\ t.newpid = s.newpid
  /\ t.panicked = s.panicked
-----------------------------------------------------------------------------
(* The links themselves, apart from the record they live in.               *)

(* q lists the n processes linked by next, without repetition.             *)
Linked(next, n, q) ==
  /\ next \in [Slot -> Ref \cup {WILD}]
  /\ n \in Nat \ {0}
  /\ q \in [1 .. n -> Slot]
  /\ \A i, j \in 1 .. n : q[i] = q[j] => i = j
  /\ \A i \in 1 .. n - 1 : next[q[i]] = q[i + 1]

AddLast(next, n, q, p) == [next EXCEPT ![q[n]] = p, ![p] = NULL]
Extended(n, q, p) == [i \in 1 .. n + 1 |-> IF i = n + 1 THEN p ELSE q[i]]
Close(next, l, p) == [next EXCEPT ![l] = p]
Cut(next, p) == [next EXCEPT ![p] = NULL]
Rotated(n, q) == [i \in 1 .. n |-> IF i = n THEN q[1] ELSE q[i + 1]]
Rest(n, q) == [i \in 1 .. n - 1 |-> q[i + 1]]

(* Linking a process behind the last one, as pm_activate does.             *)
LEMMA LinkLast ==
  ASSUME NEW next, NEW n, NEW q, Linked(next, n, q), NEW p \in Slot,
         ~Among(n, q, p)
  PROVE  /\ Linked(AddLast(next, n, q, p), n + 1, Extended(n, q, p))
         /\ AddLast(next, n, q, p)[p] = NULL
         /\ Extended(n, q, p)[1] = q[1]
         /\ Extended(n, q, p)[n + 1] = p
         /\ \A x \in Slot : Among(n + 1, Extended(n, q, p), x) <=> x = p \/ Among(n, q, x)
<1> DEFINE r == Extended(n, q, p)
           nn == AddLast(next, n, q, p)
<1> USE DEF Among, AddLast
<1> USE DEF NULL, WILD, Linked
<1>1. r \in [1 .. n + 1 -> Slot] /\ n + 1 \in Nat \ {0}
  BY DEF Extended
<1>2. \A i, j \in 1 .. n + 1 : r[i] = r[j] => i = j
  BY DEF Extended
<1>3. nn \in [Slot -> Ref \cup {WILD}] /\ nn[p] = NULL
  BY Zenon DEF Slot, Ref
<1>4. \A i \in 1 .. n : nn[r[i]] = r[i + 1]
  BY DEF Extended
<1>5. r[1] = q[1] /\ r[n + 1] = p
  BY DEF Extended
<1>6. ASSUME NEW x \in Slot
      PROVE  (\E i \in 1 .. n + 1 : r[i] = x) <=> x = p \/ \E i \in 1 .. n : q[i] = x
  <2>1. ASSUME x = p PROVE n + 1 \in 1 .. n + 1 /\ r[n + 1] = x
    BY <2>1, <1>5
  <2>2. ASSUME NEW i \in 1 .. n PROVE i \in 1 .. n + 1 /\ r[i] = q[i]
    BY DEF Extended
  <2>3. ASSUME NEW i \in 1 .. n + 1, r[i] # p PROVE i \in 1 .. n /\ r[i] = q[i]
    BY <2>3 DEF Extended
  <2> HIDE DEF r
  <2> QED
    BY <2>1, <2>2, <2>3
<1>7. (n + 1) - 1 = n
  OBVIOUS
<1> HIDE DEF r
<1>8. Linked(nn, n + 1, r)
  BY <1>1, <1>2, <1>3, <1>4, <1>7, Zenon
<1> QED
  BY <1>3, <1>5, <1>6, <1>8, Zenon DEF r

(* Moving the first process behind the last one, as pm_schedule does.      *)
LEMMA LinkRotate ==
  ASSUME NEW next, NEW n, NEW q, Linked(next, n, q),
         NEW p, p = q[1], NEW l, l = q[n]
  PROVE  /\ Linked(Cut(Close(next, l, p), p), n, Rotated(n, q))
         /\ Cut(Close(next, l, p), p)[p] = NULL
         /\ Rotated(n, q)[1] = Close(next, l, p)[p]
         /\ Rotated(n, q)[n] = p
         /\ \A x \in Slot : Among(n, Rotated(n, q), x) <=> Among(n, q, x)
<1> DEFINE r == Rotated(n, q)
           mm == Close(next, l, p)
           nn == Cut(mm, p)
<1> USE DEF Among, Close, Cut
<1> USE DEF NULL, WILD, Linked
<1>1. r \in [1 .. n -> Slot] /\ r[n] = q[1]
  BY DEF Rotated
<1>2. \A i, j \in 1 .. n : r[i] = r[j] => i = j
  BY DEF Rotated
<1>3. mm[q[1]] = r[1]
  BY DEF Rotated, Slot, Ref
<1>4. \A i \in 1 .. n - 1 : nn[r[i]] = r[i + 1]
  BY DEF Rotated
<1>5. nn[q[1]] = NULL /\ nn \in [Slot -> Ref \cup {WILD}]
  <2>1. p \in Slot /\ l \in Slot
    OBVIOUS
  <2>2. mm \in [Slot -> Ref \cup {WILD}]
    BY <2>1 DEF Ref
  <2> QED
    BY <2>1, <2>2 DEF Ref
<1>6. ASSUME NEW i \in 1 .. n PROVE \E j \in 1 .. n : q[j] = r[i]
  BY DEF Rotated
<1>7. ASSUME NEW j \in 1 .. n PROVE \E i \in 1 .. n : r[i] = q[j]
  <2>1. CASE j = 1
    <3>1. n \in 1 .. n /\ r[n] = q[j]
      BY <2>1, <1>1
    <3> QED
      BY <3>1
  <2>2. CASE j # 1
    <3>1. j - 1 \in 1 .. n /\ r[j - 1] = q[j]
      BY <2>2 DEF Rotated
    <3> QED
      BY <3>1
  <2> QED
    BY <2>1, <2>2
<1> HIDE DEF r
<1>8. ASSUME NEW x \in Slot
      PROVE  (\E i \in 1 .. n : r[i] = x) <=> (\E i \in 1 .. n : q[i] = x)
  <2>1. ASSUME NEW i \in 1 .. n, r[i] = x PROVE \E j \in 1 .. n : q[j] = x
    BY <1>6, <2>1, Zenon
  <2>2. ASSUME NEW j \in 1 .. n, q[j] = x PROVE \E i \in 1 .. n : r[i] = x
    BY <1>7, <2>2, Zenon
  <2> QED
    BY <2>1, <2>2
<1>9. Linked(nn, n, r)
  BY <1>1, <1>2, <1>4, <1>5, Zenon
<1> QED
  BY <1>1, <1>3, <1>5, <1>8, <1>9, Zenon DEF r

(* Dropping the first process, as pm_deactivate does to the running one.   *)
LEMMA LinkRest ==
  ASSUME NEW next, NEW n, NEW q, Linked(next, n, q), n # 1
  PROVE  /\ Linked(next, n - 1, Rest(n, q))
         /\ Rest(n, q)[1] = next[q[1]]
         /\ Rest(n, q)[n - 1] = q[n]
         /\ \A p \in Slot : Among(n - 1, Rest(n, q), p) <=> p # q[1] /\ Among(n, q, p)
<1> DEFINE r == Rest(n, q)
<1> USE DEF Linked, Among
<1>1. /\ n - 1 \in Nat \ {0}
      /\ r \in [1 .. n - 1 -> Slot]
      /\ r[n - 1] = q[n]
      /\ next[q[1]] = r[1]
  BY DEF Rest
<1>2. \A i, j \in 1 .. n - 1 : r[i] = r[j] => i = j
  BY DEF Rest
<1>3. \A i \in 1 .. (n - 1) - 1 : next[r[i]] = r[i + 1]
  BY DEF Rest
<1>4. ASSUME NEW i \in 1 .. n - 1 PROVE r[i] # q[1] /\ \E j \in 1 .. n : q[j] = r[i]
  <2>1. i + 1 \in 1 .. n /\ r[i] = q[i + 1] /\ i + 1 # 1 /\ 1 \in 1 .. n
    BY DEF Rest
  <2> QED
    BY <2>1
<1>5. ASSUME NEW j \in 1 .. n, q[j] # q[1] PROVE \E i \in 1 .. n - 1 : r[i] = q[j]
  <2>1. j - 1 \in 1 .. n - 1 /\ r[j - 1] = q[j]
    BY <1>5 DEF Rest
  <2> QED
    BY <2>1
<1> HIDE DEF r
<1>6. ASSUME NEW p \in Slot
      PROVE  (\E i \in 1 .. n - 1 : r[i] = p) <=> p # q[1] /\ \E i \in 1 .. n : q[i] = p
  <2>1. ASSUME NEW i \in 1 .. n - 1, r[i] = p PROVE p # q[1] /\ \E j \in 1 .. n : q[j] = p
    BY <1>4, <2>1
  <2>2. ASSUME NEW j \in 1 .. n, q[j] = p, p # q[1] PROVE \E i \in 1 .. n - 1 : r[i] = p
    BY <1>5, <2>2, Zenon
  <2> QED
    BY <2>1, <2>2
<1>7. Linked(next, n - 1, r)
  BY <1>1, <1>2, <1>3
<1> QED
  BY <1>1, <1>6, <1>7 DEF r
-----------------------------------------------------------------------------
(* The same on states: what each function of pm.c does.                    *)

(* The ends of a well formed list are processes.                           *)
LEMMA ListEnds ==
  ASSUME NEW s, NEW L, ListOn(s, L)
  PROVE  s.plist_head \in Slot /\ s.plist_tail \in Slot /\ s.plist_head \in L
<1>0. PICK n \in Nat \ {0} : \E q \in [1 .. n -> Slot] :
           IsRunList(s, n, q) /\ \A p \in Slot : p \in L <=> Among(n, q, p)
  BY DEF ListOn
<1>1. PICK q \in [1 .. n -> Slot] :
           IsRunList(s, n, q) /\ \A p \in Slot : p \in L <=> Among(n, q, p)
  BY <1>0
<1>2. 1 \in 1 .. n /\ n \in 1 .. n
  OBVIOUS
<1> QED
  BY <1>1, <1>2 DEF IsRunList, Among

(* pm_activate appends a process that is not on the list.                  *)
LEMMA ActivateList ==
  ASSUME NEW s \in State, NEW L, ListOn(s, L), NEW p \in Slot, p \notin L
  PROVE  /\ pm_activate(s, p) \in State
         /\ ListOn(pm_activate(s, p), L \cup {p})
         /\ pm_activate(s, p).plist_head = s.plist_head
         /\ pm_activate(s, p).status = s.status
         /\ pm_activate(s, p).cur_proc = s.cur_proc
         /\ SameTable(pm_activate(s, p), s)
<1> DEFINE t == pm_activate(s, p)
<1> USE DEF NULL, WILD
<1>0. PICK n \in Nat \ {0} : \E q \in [1 .. n -> Slot] :
           IsRunList(s, n, q) /\ \A x \in Slot : x \in L <=> Among(n, q, x)
  BY DEF ListOn
<1>1. PICK q \in [1 .. n -> Slot] :
           IsRunList(s, n, q) /\ \A x \in Slot : x \in L <=> Among(n, q, x)
  BY <1>0
<1>2. s.plist_head \in Slot /\ s.plist_tail \in Slot /\ s.plist_head # NULL /\ s.plist_tail # NULL
  BY ListEnds DEF Slot
<1>3. t \in State
  BY ZenonT(40) DEF State, pm_activate, Slot, Ref
<1>4. t.plist_head = s.plist_head
  BY <1>2 DEF State, pm_activate
<1>5. t.plist_tail = p
  BY DEF State, pm_activate
<1>6. t.next = [s.next EXCEPT ![s.plist_tail] = p, ![p] = NULL]
  BY <1>2 DEF State, pm_activate
<1>7. t.status = s.status
  BY DEF State, pm_activate
<1>8. t.cur_proc = s.cur_proc
  BY DEF State, pm_activate
<1>9. SameTable(t, s)
  BY DEF State, pm_activate, SameTable
<1>10. ListOn(t, L \cup {p})
  <2> DEFINE r == Extended(n, q, p)
             nn == t.next
  <2>1. Linked(s.next, n, q) /\ s.plist_head = q[1] /\ s.plist_tail = q[n]
    BY <1>1, Zenon DEF IsRunList, Linked, State
  <2>2. ~Among(n, q, p)
    BY <1>1
  <2>3. nn = AddLast(s.next, n, q, p)
    BY <1>6, <2>1 DEF AddLast
  <2> HIDE DEF t, nn
  <2>4. /\ Linked(nn, n + 1, r)
        /\ nn[p] = NULL
        /\ r[1] = q[1]
        /\ r[n + 1] = p
        /\ \A x \in Slot : Among(n + 1, r, x) <=> x = p \/ Among(n, q, x)
    BY <2>1, <2>2, <2>3, LinkLast
  <2> HIDE DEF r
  <2>5. IsRunList(t, n + 1, r)
    BY <1>4, <1>5, <2>1, <2>4, Zenon DEF IsRunList, Linked, nn
  <2>6. n + 1 \in Nat \ {0} /\ r \in [1 .. n + 1 -> Slot]
    BY <2>4 DEF Linked
  <2>7. \A x \in Slot : x \in L \cup {p} <=> Among(n + 1, r, x)
    BY <1>1, <2>4
  <2> QED
    BY <2>5, <2>6, <2>7 DEF ListOn
<1> QED
  BY <1>3, <1>4, <1>7, <1>8, <1>9, <1>10

(* pm_schedule keeps the list's members and runs its new head.             *)
LEMMA ScheduleList ==
  ASSUME NEW s \in State, NEW L, ListOn(s, L)
  PROVE  /\ pm_schedule(s) \in State
         /\ ListOn(pm_schedule(s), L)
         /\ pm_schedule(s).cur_proc = pm_schedule(s).plist_head
         /\ pm_schedule(s).cur_proc \in L
         /\ pm_schedule(s).status =
              [[s.status EXCEPT ![s.cur_proc] = IF @ = "PS_RUNNING" THEN "PS_READY" ELSE @]
                 EXCEPT ![pm_schedule(s).cur_proc] = "PS_RUNNING"]
         /\ SameTable(pm_schedule(s), s)
<1> DEFINE t == pm_schedule(s)
           head == s.plist_head
           next == [s.next EXCEPT ![s.plist_tail] = head]
           new == next[head]
           time == s.ticks_left[s.cur_proc] + PROC_START_TICKS
           old == [s EXCEPT !.ticks_left[s.cur_proc] =
                               IF time > PROC_MAX_TICKS THEN PROC_MAX_TICKS ELSE time,
                            !.status[s.cur_proc] =
                               IF @ = "PS_RUNNING" THEN "PS_READY" ELSE @]
<1> USE DEF NULL, WILD
<1>0. PICK n \in Nat \ {0} : \E q \in [1 .. n -> Slot] :
           IsRunList(s, n, q) /\ \A x \in Slot : x \in L <=> Among(n, q, x)
  BY DEF ListOn
<1>1. PICK q \in [1 .. n -> Slot] :
           IsRunList(s, n, q) /\ \A x \in Slot : x \in L <=> Among(n, q, x)
  BY <1>0
<1>2. s.plist_head \in Slot /\ s.plist_tail \in Slot
  BY ListEnds
<1>3. s.next \in [Slot -> Ref \cup {WILD}]
  BY Zenon DEF State
<1> DEFINE r == Rotated(n, q)
           nn == [next EXCEPT ![head] = NULL]
<1>4. /\ Linked(nn, n, r)
      /\ r[n] = head
      /\ new = r[1]
      /\ nn[head] = NULL
      /\ \A x \in Slot : Among(n, r, x) <=> Among(n, q, x)
  <2>1. Linked(s.next, n, q) /\ head = q[1] /\ s.plist_tail = q[n]
    BY <1>1, <1>3 DEF IsRunList, Linked
  <2>2. next = Close(s.next, s.plist_tail, head)
    BY DEF Close
  <2>3. nn = Cut(next, head)
    BY DEF Cut
  <2> HIDE DEF nn, next, head
  <2> QED
    BY <2>1, <2>2, <2>3, LinkRotate
<1>5. new \in Slot
  <2> HIDE DEF new, r
  <2> QED
    BY <1>4 DEF Linked
<1>6. t = [old EXCEPT !.plist_tail = head, !.plist_head = new, !.next = nn,
                      !.cur_proc = new, !.status[new] = "PS_RUNNING"]
  BY <1>5 DEF pm_schedule
<1>7. old \in State
  <2>1. (IF time > PROC_MAX_TICKS THEN PROC_MAX_TICKS ELSE time) \in 0 .. PROC_MAX_TICKS
    BY ConstantsAssumption, SMTT(30), ZenonT(20) DEF State
  <2> HIDE DEF time
  <2> QED
    BY <2>1, ZenonT(40) DEF State, Status, WildStatus, Ref
<1>8. /\ old.status = [s.status EXCEPT ![s.cur_proc] = IF @ = "PS_RUNNING" THEN "PS_READY" ELSE @]
      /\ SameTable(old, s)
  <2> HIDE DEF time
  <2> QED
    BY DEF State, SameTable
<1>9. nn \in [Slot -> Ref \cup {WILD}]
  BY <1>2, <1>3 DEF Ref
<1> HIDE DEF old, nn, new, head, t
<1>10. t \in State
  BY <1>2, <1>5, <1>6, <1>7, <1>9, ZenonT(40) DEF State, Status, Ref, head
<1>11. t.cur_proc = new /\ t.plist_head = new
  BY <1>6, <1>7 DEF State
<1>12. t.plist_tail = head
  BY <1>6, <1>7 DEF State
<1>13. t.next = nn
  BY <1>6, <1>7 DEF State
<1>14. t.status = [old.status EXCEPT ![new] = "PS_RUNNING"]
  BY <1>6, <1>7 DEF State
<1>15. SameTable(t, old)
  BY <1>6, <1>7 DEF State, SameTable
<1>16. IsRunList(t, n, r)
  <2> HIDE DEF r
  <2> QED
    BY <1>4, <1>11, <1>12, <1>13 DEF IsRunList, Linked
<1>17. ListOn(t, L)
  <2> HIDE DEF r
  <2>1. r \in [1 .. n -> Slot] /\ \A x \in Slot : x \in L <=> Among(n, r, x)
    BY <1>1, <1>4 DEF Linked
  <2> QED
    BY <1>16, <2>1 DEF ListOn
<1>18. new \in L
  <2> HIDE DEF r
  <2>1. 1 \in 1 .. n
    OBVIOUS
  <2> QED
    BY <1>1, <1>4, <1>5, <2>1, Zenon DEF Among
<1>19. SameTable(t, s)
  BY <1>8, <1>15 DEF SameTable
<1> QED
  BY <1>8, <1>10, <1>11, <1>14, <1>17, <1>18, <1>19 DEF t

(* The list does not depend on the rest of the state.                      *)
LEMMA ListFrame ==
  ASSUME NEW s, NEW t, NEW L, ListOn(s, L),
         t.next = s.next, t.plist_head = s.plist_head, t.plist_tail = s.plist_tail
  PROVE  ListOn(t, L)
  BY DEF ListOn, IsRunList

(* pm_deactivate unlinks the running process, the head of the list, and    *)
(* schedules.                                                              *)
LEMMA DeactivateList ==
  ASSUME NEW s \in State, NEW L, ListOn(s, L), NEW p, p = s.cur_proc, p = s.plist_head,
         NEW x \in L \cap Slot, x # p
  PROVE  /\ pm_deactivate(s, p) \in State
         /\ ListOn(pm_deactivate(s, p), L \ {p})
         /\ pm_deactivate(s, p).cur_proc = pm_deactivate(s, p).plist_head
         /\ pm_deactivate(s, p).cur_proc \in L \ {p}
         /\ pm_deactivate(s, p).status =
              [[s.status EXCEPT ![p] = IF @ = "PS_RUNNING" THEN "PS_READY" ELSE @]
                 EXCEPT ![pm_deactivate(s, p).cur_proc] = "PS_RUNNING"]
         /\ SameTable(pm_deactivate(s, p), s)
<1> DEFINE u == [s EXCEPT !.plist_head = s.next[p]]
<1> USE DEF NULL, WILD
<1>0. PICK n \in Nat \ {0} : \E q \in [1 .. n -> Slot] :
           IsRunList(s, n, q) /\ \A y \in Slot : y \in L <=> Among(n, q, y)
  BY DEF ListOn
<1>1. PICK q \in [1 .. n -> Slot] :
           IsRunList(s, n, q) /\ \A y \in Slot : y \in L <=> Among(n, q, y)
  BY <1>0
<1>2. p \in Slot /\ p \in Ref
  BY Zenon DEF State, Ref
<1>3. Linked(s.next, n, q) /\ q[1] = p /\ s.plist_tail = q[n] /\ s.next[q[n]] \in {NULL, WILD}
  BY <1>1, Zenon DEF IsRunList, Linked, State
<1>4. n # 1
  <2>1. Among(n, q, x)
    BY <1>1
  <2>2. PICK i \in 1 .. n : q[i] = x
    BY <2>1 DEF Among
  <2> QED
    BY <1>3, <2>2
<1> DEFINE r == Rest(n, q)
<1>5. /\ Linked(s.next, n - 1, r)
      /\ r[1] = s.next[p]
      /\ r[n - 1] = q[n]
      /\ \A y \in Slot : Among(n - 1, r, y) <=> y # p /\ Among(n, q, y)
  <2>1. Linked(s.next, n, q) /\ n # 1
    BY <1>3, <1>4
  <2>2. /\ Linked(s.next, n - 1, r)
        /\ r[1] = s.next[q[1]]
        /\ r[n - 1] = q[n]
        /\ \A y \in Slot : Among(n - 1, r, y) <=> y # q[1] /\ Among(n, q, y)
    BY <2>1, LinkRest, Zenon
  <2> HIDE DEF r
  <2> QED
    BY <1>3, <2>2
<1> HIDE DEF r
<1>6. n - 1 \in Nat \ {0} /\ r \in [1 .. n - 1 -> Slot] /\ s.next[p] \in Slot
  BY <1>5 DEF Linked
<1>7. u \in State
  BY <1>6, Zenon DEF State, Ref
<1>8. u.plist_head = s.next[p] /\ u.plist_tail = s.plist_tail /\ u.next = s.next
  BY DEF State
<1>9. u.cur_proc = p /\ u.status = s.status /\ SameTable(u, s)
  BY Zenon DEF State, SameTable
<1>10. pm_deactivate(s, p) = pm_schedule(u)
  BY <1>2, SMTT(30), ZenonT(20) DEF pm_deactivate, NextOf, Slot
<1> HIDE DEF u
<1>11. IsRunList(u, n - 1, r)
  BY <1>3, <1>5, <1>8 DEF IsRunList, Linked
<1>12. \A y \in Slot : y \in L \ {p} <=> Among(n - 1, r, y)
  BY <1>1, <1>5
<1>13. ListOn(u, L \ {p})
  BY <1>6, <1>11, <1>12 DEF ListOn
<1>14. /\ pm_schedule(u) \in State
       /\ ListOn(pm_schedule(u), L \ {p})
       /\ pm_schedule(u).cur_proc = pm_schedule(u).plist_head
       /\ pm_schedule(u).cur_proc \in L \ {p}
       /\ pm_schedule(u).status =
            [[u.status EXCEPT ![u.cur_proc] = IF @ = "PS_RUNNING" THEN "PS_READY" ELSE @]
               EXCEPT ![pm_schedule(u).cur_proc] = "PS_RUNNING"]
       /\ SameTable(pm_schedule(u), u)
  BY <1>7, <1>13, ScheduleList, ZenonT(40)
<1>15. SameTable(pm_schedule(u), s)
  BY <1>9, <1>14 DEF SameTable
<1> QED
  BY <1>9, <1>10, <1>14, <1>15
-----------------------------------------------------------------------------
(* The inductive invariant.                                                *)

Waiting(s, i) == s.status[i] = "PS_BLOCKED" /\ s.block[i] = "BR_WAIT_PROC"

(* A process that blocked for one of the kernel's services, messages, the  *)
(* timer or the file system, is unblocked by that service and nobody else. *)
ServiceReason == {"BR_RECEIVING", "BR_SLEEPING", "BR_WAIT_FS"}
Parked(s, i, r) == s.status[i] = "PS_BLOCKED" /\ s.block[i] = r
SameParked(t, s) == \A i \in Slot : \A r \in ServiceReason : Parked(t, i, r) <=> Parked(s, i, r)

CurInv(s) ==
  /\ s.cur_proc = s.plist_head
  /\ \A i \in Slot : s.status[i] = "PS_RUNNING" => i = s.cur_proc
  /\ \/ s.status[s.cur_proc] = "PS_RUNNING"
     \/ s.cur_proc = IdleSlot /\ s.status[IdleSlot] = "PS_BLOCKED"

NullInv(s) == s.status[NULL] = WildStatus /\ s.wait_proc[NULL] = WILD

(* A new pid is given to the first free slot, so that every slot in front  *)
(* of it is alive, with a smaller pid.                                     *)
PidInv(s) ==
  \A i \in Slot : Live(s, i) =>
     /\ s.pid[i] < s.newpid
     /\ \A j \in Slot : s.pid[j] = s.pid[i] => i <= j

IdleInv(s) ==
  Live(s, IdleSlot) /\ s.pid[IdleSlot] = 0 /\ s.block[IdleSlot] \in {"BR_INIT", "BR_NOT_BLOCKED"}

WaitInv(s) ==
  /\ \A p \in Slot : Waiting(s, p) =>
       \E q \in Slot : Live(s, q) /\ s.pid[q] = s.wait_for[p] /\ s.wait_proc[q] = s.pid[p]
  /\ \A q \in Slot : Live(s, q) /\ s.wait_proc[q] # 0 =>
       \E p \in Slot : Waiting(s, p) /\ s.pid[p] = s.wait_proc[q] /\ s.wait_for[p] = s.pid[q]

TableInv(s) == NullInv(s) /\ PidInv(s) /\ IdleInv(s) /\ WaitInv(s)

(* Why the kernel may have panicked, and that it did not without a reason. *)
PanicCause(s) == (\A i \in Slot : Live(s, i)) \/ s.next[s.plist_tail] = WILD
PanicInv(s) == s.panicked => PanicCause(s)

IInv(s) == s \in State /\ ListOn(s, Runnable(s)) /\ CurInv(s) /\ TableInv(s) /\ PanicInv(s)

(* The table part speaks of who is alive and who waits, not of who runs.   *)
LEMMA TableFrame ==
  ASSUME NEW s, NEW t, TableInv(s), SameTable(t, s),
         \A i \in Slot : Live(t, i) <=> Live(s, i),
         \A i \in Slot : Waiting(t, i) <=> Waiting(s, i),
         t.status[NULL] = s.status[NULL]
  PROVE  TableInv(t)
<1> USE DEF TableInv, SameTable
<1>1. NullInv(t)
  BY DEF NullInv
<1>2. PidInv(t)
  BY DEF PidInv
<1>3. IdleInv(t)
  <2>1. IdleSlot \in Slot
    BY ConstantsAssumption DEF IdleSlot, Slot
  <2> QED
    BY <2>1 DEF IdleInv
<1>4. WaitInv(t)
  BY DEF WaitInv
<1> QED
  BY <1>1, <1>2, <1>3, <1>4

(* A pid names one living process, which pm_get_proc finds.                *)
LEMMA Lookup ==
  ASSUME NEW s \in State, PidInv(s), NEW i \in Slot, Live(s, i)
  PROVE  pm_get_proc(s, s.pid[i]) = i
<1> DEFINE P(a) == s.pid[a] = s.pid[i] /\ \A j \in Slot : s.pid[j] = s.pid[i] => a <= j
<1>1. P(i)
  BY DEF PidInv
<1>2. \A a \in Slot : P(a) => a = i
  BY <1>1 DEF Slot
<1>3. (CHOOSE a \in Slot : P(a)) = i
  <2> HIDE DEF P
  <2> QED
    BY <1>1, <1>2
<1> QED
  BY <1>3 DEF pm_get_proc

(* pm_get_proc returns a slot that carries the pid, or null when none does. *)
LEMMA LookupResult ==
  ASSUME Counting, NEW s \in State, NEW pid
  PROVE  \/ pm_get_proc(s, pid) = NULL
         \/ pm_get_proc(s, pid) \in Slot /\ s.pid[pm_get_proc(s, pid)] = pid
<1>1. CASE \E i \in Slot : s.pid[i] = pid
  <2> DEFINE T == {i \in Slot : s.pid[i] = pid}
             P(a) == s.pid[a] = pid /\ \A j \in Slot : s.pid[j] = pid => a <= j
  <2>1. T \subseteq Nat /\ T # {}
    BY <1>1 DEF Slot
  <2>2. PICK x \in T : \A y \in T : x <= y
    <3> HIDE DEF T
    <3> QED
      BY <2>1, Zenon DEF Counting, LeastNumber
  <2>3. x \in Slot /\ P(x)
    BY <2>2
  <2>4. (CHOOSE a \in Slot : P(a)) \in Slot /\ P(CHOOSE a \in Slot : P(a))
    <3> HIDE DEF P
    <3> QED
      BY <2>3
  <2>5. pm_get_proc(s, pid) = (CHOOSE a \in Slot : P(a))
    BY <1>1 DEF pm_get_proc
  <2> QED
    BY <2>4, <2>5
<1>2. CASE ~\E i \in Slot : s.pid[i] = pid
  BY <1>2 DEF pm_get_proc
<1> QED
  BY <1>1, <1>2

(* get_empty_proc finds a free slot behind slots that are all in use, or   *)
(* there is no free slot.                                                  *)
LEMMA EmptyResult ==
  ASSUME Counting, NEW s \in State, NEW p, p = get_empty_proc(s)
  PROVE  \/ p = NULL /\ \A i \in Slot : Live(s, i)
         \/ p \in Slot /\ ~Live(s, p) /\ \A j \in Slot : ~Live(s, j) => p <= j
<1>1. CASE \E i \in Slot : s.status[i] = "PS_SLOT_FREE"
  <2> DEFINE T == {i \in Slot : s.status[i] = "PS_SLOT_FREE"}
             P(a) == /\ s.status[a] = "PS_SLOT_FREE"
                     /\ \A j \in Slot : s.status[j] = "PS_SLOT_FREE" => a <= j
  <2>1. T \subseteq Nat /\ T # {}
    BY <1>1 DEF Slot
  <2>2. PICK x \in T : \A y \in T : x <= y
    <3> HIDE DEF T
    <3> QED
      BY <2>1, Zenon DEF Counting, LeastNumber
  <2>3. x \in Slot /\ P(x)
    BY <2>2
  <2>4. (CHOOSE a \in Slot : P(a)) \in Slot /\ P(CHOOSE a \in Slot : P(a))
    <3> HIDE DEF P
    <3> QED
      BY <2>3
  <2>5. p = (CHOOSE a \in Slot : P(a))
    BY <1>1 DEF get_empty_proc
  <2> QED
    BY <2>4, <2>5 DEF Live
<1>2. CASE ~\E i \in Slot : s.status[i] = "PS_SLOT_FREE"
  BY <1>2 DEF get_empty_proc, Live
<1> QED
  BY <1>1, <1>2, SMTT(30), ZenonT(20)

(* The slot of idle is a slot of the table.                                *)
LEMMA IdleIsSlot == IdleSlot \in Slot /\ IdleSlot # NULL /\ NULL \notin Slot
  BY ConstantsAssumption DEF IdleSlot, Slot, NULL
-----------------------------------------------------------------------------
(* What the handlers do.                                                   *)

(* pm_schedule keeps what the table and the list promise each other.       *)
LEMMA ScheduleInv ==
  ASSUME NEW s, IInv(s), ~s.panicked
  PROVE  /\ IInv(pm_schedule(s))
         /\ SameTable(pm_schedule(s), s)
         /\ \A i \in Slot : Live(pm_schedule(s), i) <=> Live(s, i)
         /\ \A i \in Slot : Waiting(pm_schedule(s), i) <=> Waiting(s, i)
         /\ SameParked(pm_schedule(s), s)
<1> DEFINE t == pm_schedule(s)
           c == t.cur_proc
<1>1. /\ t \in State
      /\ ListOn(t, Runnable(s))
      /\ c = t.plist_head
      /\ c \in Runnable(s)
      /\ t.status = [[s.status EXCEPT ![s.cur_proc] = IF @ = "PS_RUNNING" THEN "PS_READY" ELSE @]
                        EXCEPT ![c] = "PS_RUNNING"]
      /\ SameTable(t, s)
  BY ScheduleList, Zenon DEF IInv
<1> HIDE DEF t
<1>2. /\ c \in Slot /\ s.cur_proc \in Slot /\ NULL \notin Slot /\ IdleSlot \in Slot
      /\ s.status \in [Ref -> Status \cup {WildStatus}]
  BY <1>1, IdleIsSlot, Zenon DEF State, IInv
<1>3. /\ t.status[c] = "PS_RUNNING"
      /\ t.status[NULL] = s.status[NULL]
      /\ \A i \in Slot : i # c => t.status[i] = IF i = s.cur_proc /\ s.status[i] = "PS_RUNNING"
                                                THEN "PS_READY" ELSE s.status[i]
  <2> HIDE DEF c
  <2> QED
    BY <1>1, <1>2 DEF Ref
<1> HIDE DEF c
<1>4. CurInv(s)
  BY DEF IInv
<1>5. \A i \in Slot : Live(t, i) <=> Live(s, i)
  <2>1. Live(s, c)
    BY <1>1, IdleIsSlot, Zenon DEF Runnable, Live, IInv, TableInv, IdleInv
  <2> QED
    BY <1>3, <2>1, Zenon DEF Live
<1>6. \A i \in Slot : Waiting(t, i) <=> Waiting(s, i)
  <2>1. ~Waiting(s, c)
    BY <1>1 DEF Runnable, Waiting, IInv, TableInv, IdleInv
  <2> QED
    BY <1>1, <1>3, <2>1 DEF Waiting, SameTable
<1>7. Runnable(t) = Runnable(s)
  <2>1. ASSUME NEW i \in Slot PROVE i \in Runnable(t) <=> i \in Runnable(s)
    BY <1>1, <1>3 DEF Runnable
  <2>2. Runnable(t) \subseteq Slot /\ Runnable(s) \subseteq Slot
    BY <1>2, ZenonT(40) DEF Runnable
  <2> QED
    BY <2>1, <2>2, ZenonT(40)
<1>8. CurInv(t)
  BY <1>1, <1>2, <1>3, <1>4 DEF CurInv, c
<1>9. TableInv(t)
  BY <1>1, <1>3, <1>5, <1>6, TableFrame, ZenonT(40) DEF IInv
<1>10. PanicInv(t)
  BY <1>1, ZenonT(40) DEF SameTable, PanicInv
<1>11. SameParked(t, s)
  <2>1. \A r \in ServiceReason : ~Parked(s, c, r)
    BY <1>1, Zenon DEF Runnable, Parked, ServiceReason, IInv, TableInv, IdleInv
  <2> QED
    BY <1>1, <1>3, <2>1 DEF Parked, SameParked, SameTable
<1> QED
  BY <1>1, <1>5, <1>6, <1>7, <1>8, <1>9, <1>10, <1>11, Zenon DEF IInv, t

(* The running process p leaves the run list: v is the state s with p's    *)
(* fields changed by the caller of pm_deactivate.                          *)
LEMMA LeaveInv ==
  ASSUME NEW s, IInv(s), NEW p, p = s.cur_proc, p # IdleSlot,
         NEW v \in State, v.next = s.next, v.plist_head = s.plist_head,
         v.plist_tail = s.plist_tail, v.cur_proc = s.cur_proc,
         \A i \in Ref : i # p => v.status[i] = s.status[i]
  PROVE  /\ pm_deactivate(v, p) \in State
         /\ ListOn(pm_deactivate(v, p), Runnable(s) \ {p})
         /\ pm_deactivate(v, p).cur_proc = pm_deactivate(v, p).plist_head
         /\ pm_deactivate(v, p).cur_proc \in Runnable(s) \ {p}
         /\ pm_deactivate(v, p).status[p] =
               IF v.status[p] = "PS_RUNNING" THEN "PS_READY" ELSE v.status[p]
         /\ \A i \in Ref : i # p => pm_deactivate(v, p).status[i] =
               IF i = pm_deactivate(v, p).cur_proc THEN "PS_RUNNING" ELSE s.status[i]
         /\ SameTable(pm_deactivate(v, p), v)
<1> DEFINE t == pm_deactivate(v, p)
           c == t.cur_proc
<1>1. ListOn(v, Runnable(s))
  BY ListFrame, Zenon DEF IInv
<1>2. p = v.cur_proc /\ p = v.plist_head /\ p \in Slot
  BY DEF IInv, CurInv, State
<1>3. IdleSlot \in Runnable(s) \cap Slot
  BY IdleIsSlot, ZenonT(40) DEF Runnable
<1>4. /\ t \in State
      /\ ListOn(t, Runnable(s) \ {p})
      /\ c = t.plist_head
      /\ c \in Runnable(s) \ {p}
      /\ t.status = [[v.status EXCEPT ![p] = IF @ = "PS_RUNNING" THEN "PS_READY" ELSE @]
                        EXCEPT ![c] = "PS_RUNNING"]
      /\ SameTable(t, v)
  BY <1>1, <1>2, <1>3, DeactivateList, SMTT(30), ZenonT(20)
<1> HIDE DEF t
<1>5. c \in Ref /\ p \in Ref /\ v.status \in [Ref -> Status \cup {WildStatus}]
  BY <1>2, <1>4, Zenon DEF State, Ref
<1> HIDE DEF c
<1>6. t.status[p] = IF v.status[p] = "PS_RUNNING" THEN "PS_READY" ELSE v.status[p]
  BY <1>4, <1>5, ZenonT(40)
<1>7. \A i \in Ref : i # p => t.status[i] = IF i = c THEN "PS_RUNNING" ELSE s.status[i]
  BY <1>4, <1>5
<1> QED
  BY <1>4, <1>6, <1>7, Zenon DEF t, c

(* A living process that has a waiter has exactly one, and idle, whose pid *)
(* is 0, waits for nobody.                                                 *)
LEMMA PidUnique ==
  ASSUME NEW s \in State, PidInv(s), NEW i \in Slot, NEW j \in Slot, Live(s, i), Live(s, j),
         s.pid[i] = s.pid[j]
  PROVE  i = j
  BY DEF PidInv, Slot

(* What it means, slot by slot, that a process waits for another.          *)
LEMMA WaitingFacts ==
  ASSUME NEW s \in State, TableInv(s), NEW i \in Slot, Waiting(s, i)
  PROVE  Live(s, i) /\ i # IdleSlot /\ s.pid[i] # 0 /\ i \notin Runnable(s)
<1>1. Live(s, i) /\ i # IdleSlot
  BY Zenon DEF Live, Waiting, TableInv, IdleInv
<1>2. s.pid[i] # 0
  BY <1>1, PidUnique, IdleIsSlot DEF TableInv, IdleInv
<1> QED
  BY <1>1, <1>2 DEF Runnable, Waiting

(* Marking a slot free keeps the types.                                    *)
LEMMA FreeType ==
  ASSUME NEW s \in State, NEW p \in Slot
  PROVE  [s EXCEPT !.status[p] = "PS_SLOT_FREE"] \in State
  BY ZenonT(40) DEF State, Status

(* pm_destroy up to its first use of wait_proc.                            *)
LEMMA UnlinkInv ==
  ASSUME NEW s, IInv(s), ~s.panicked, NEW p, p = s.cur_proc, p # IdleSlot,
         NEW t, t = [pm_deactivate(s, p) EXCEPT !.status[p] = "PS_SLOT_FREE"]
  PROVE  /\ t \in State
         /\ SameTable(t, s)
         /\ ListOn(t, Runnable(t))
         /\ CurInv(t)
         /\ NullInv(t) /\ PidInv(t) /\ IdleInv(t)
         /\ \A i \in Slot : Live(t, i) <=> Live(s, i) /\ i # p
         /\ \A i \in Slot : Waiting(t, i) <=> Waiting(s, i)
         /\ ~Waiting(s, p)
         /\ SameParked(t, s)
<1> DEFINE d == pm_deactivate(s, p)
           c == d.cur_proc
<1>1. p \in Slot /\ s.status[p] = "PS_RUNNING" /\ s \in State /\ CurInv(s) /\ TableInv(s)
  BY DEF IInv, CurInv, State
<1>2. /\ d \in State
      /\ ListOn(d, Runnable(s) \ {p})
      /\ c = d.plist_head
      /\ c \in Runnable(s) \ {p}
      /\ \A i \in Ref : i # p => d.status[i] = IF i = c THEN "PS_RUNNING" ELSE s.status[i]
      /\ SameTable(d, s)
  BY <1>1, LeaveInv
<1>a. t = [d EXCEPT !.status[p] = "PS_SLOT_FREE"]
  OBVIOUS
<1> HIDE DEF d
<1>3. t \in State
  BY <1>a, <1>1, <1>2, FreeType
<1>4. t.status = [d.status EXCEPT ![p] = "PS_SLOT_FREE"]
  BY <1>a, <1>2 DEF State
<1>5. t.next = d.next /\ t.plist_head = c /\ t.plist_tail = d.plist_tail /\ t.cur_proc = c
  BY <1>a, <1>2, Zenon DEF State, c
<1>6. SameTable(t, s)
  BY <1>a, <1>2 DEF State, SameTable
<1>7. /\ t.status[p] = "PS_SLOT_FREE"
      /\ \A i \in Ref : i # p => t.status[i] = IF i = c THEN "PS_RUNNING" ELSE s.status[i]
  BY <1>1, <1>2, <1>4 DEF State, Ref
<1>8. c \in Slot /\ c \in Ref /\ c # p /\ NULL \in Ref /\ NULL # c /\ NULL # p /\ Slot \subseteq Ref
  BY <1>1, <1>2, IdleIsSlot DEF Ref, Runnable
<1>9. Live(s, c) /\ ~Waiting(s, c)
  BY <1>1, <1>2 DEF Live, Runnable, Waiting, TableInv, IdleInv
<1>b. \A r \in ServiceReason : ~Parked(s, c, r)
  BY <1>1, <1>2 DEF Runnable, Parked, ServiceReason, TableInv, IdleInv
<1> HIDE DEF c
<1>10. \A i \in Slot : Live(t, i) <=> Live(s, i) /\ i # p
  BY <1>7, <1>8, <1>9 DEF Live
<1>11. ~Waiting(s, p) /\ \A i \in Slot : Waiting(t, i) <=> Waiting(s, i)
  BY <1>1, <1>6, <1>7, <1>8, <1>9 DEF Waiting, SameTable
<1>12. Runnable(t) = Runnable(s) \ {p}
  <2>1. ASSUME NEW i \in Slot PROVE i \in Runnable(t) <=> i \in Runnable(s) \ {p}
    BY <1>2, <1>7, <1>8 DEF Runnable
  <2>2. Runnable(t) \subseteq Slot /\ Runnable(s) \subseteq Slot
    BY IdleIsSlot DEF Runnable
  <2> QED
    BY <2>1, <2>2
<1>13. ListOn(t, Runnable(t))
  <2>1. d.plist_head = t.plist_head
    BY <1>2, <1>5
  <2> QED
    BY <1>2, <1>5, <1>12, <2>1, ListFrame, Zenon
<1>14. CurInv(t)
  BY <1>1, <1>5, <1>7, <1>8 DEF CurInv
<1>15. NullInv(t)
  BY <1>1, <1>6, <1>7, <1>8 DEF NullInv, SameTable, TableInv
<1>16. PidInv(t)
  BY <1>1, <1>6, <1>10 DEF PidInv, SameTable, TableInv
<1>17. IdleInv(t)
  BY <1>1, <1>6, <1>10, IdleIsSlot DEF IdleInv, SameTable, TableInv
<1>18. SameParked(t, s)
  BY <1>1, <1>6, <1>7, <1>8, <1>b, SMTT(30), ZenonT(20) DEF Parked, SameParked, SameTable
<1> QED
  BY <1>3, <1>6, <1>10, <1>11, <1>13, <1>14, <1>15, <1>16, <1>17, <1>18, SMTT(30), ZenonT(20)

(* pm_unblock of a process that is not on the run list, w, with the table  *)
(* entries the caller changed already in place.                            *)
LEMMA UnblockInv ==
  ASSUME NEW s \in State, ListOn(s, Runnable(s)), CurInv(s), NEW w \in Slot,
         w \notin Runnable(s), w # s.cur_proc
  PROVE  /\ pm_unblock(s, w) \in State
         /\ ListOn(pm_unblock(s, w), Runnable(pm_unblock(s, w)))
         /\ CurInv(pm_unblock(s, w))
         /\ pm_unblock(s, w).status = [s.status EXCEPT ![w] = "PS_READY"]
         /\ pm_unblock(s, w).block = [s.block EXCEPT ![w] = "BR_NOT_BLOCKED"]
         /\ pm_unblock(s, w).pid = s.pid
         /\ pm_unblock(s, w).wait_proc = s.wait_proc
         /\ pm_unblock(s, w).wait_for = s.wait_for
         /\ pm_unblock(s, w).exit_status = s.exit_status
         /\ pm_unblock(s, w).eax = s.eax
         /\ pm_unblock(s, w).newpid = s.newpid
         /\ pm_unblock(s, w).panicked = s.panicked
<1> DEFINE v == [s EXCEPT !.status[w] = "PS_READY", !.block[w] = "BR_NOT_BLOCKED"]
           t == pm_activate(v, w)
<1>1. v \in State
  BY Zenon DEF State, Status, BlockReason
<1>2. /\ v.status = [s.status EXCEPT ![w] = "PS_READY"]
      /\ v.block = [s.block EXCEPT ![w] = "BR_NOT_BLOCKED"]
  BY DEF State
<1>3. v.next = s.next /\ v.plist_head = s.plist_head /\ v.plist_tail = s.plist_tail
  BY DEF State
<1>4. v.cur_proc = s.cur_proc
  BY DEF State
<1>5. /\ v.pid = s.pid /\ v.wait_proc = s.wait_proc /\ v.wait_for = s.wait_for
      /\ v.exit_status = s.exit_status /\ v.eax = s.eax /\ v.newpid = s.newpid
      /\ v.panicked = s.panicked
  BY DEF State
<1> HIDE DEF v
<1>6. ListOn(v, Runnable(s))
  BY <1>3, ListFrame, Zenon
<1>7. /\ t \in State
      /\ ListOn(t, Runnable(s) \cup {w})
      /\ t.plist_head = v.plist_head
      /\ t.status = v.status
      /\ t.cur_proc = v.cur_proc
      /\ SameTable(t, v)
  BY <1>1, <1>6, ActivateList
<1>8. t = pm_unblock(s, w)
  BY ZenonT(40) DEF pm_unblock, v
<1> HIDE DEF t
<1>9. /\ t.status[w] = "PS_READY"
      /\ \A i \in Slot : i # w => t.status[i] = s.status[i]
  BY <1>2, <1>7 DEF State, Ref
<1>10. Runnable(t) = Runnable(s) \cup {w}
  <2>1. ASSUME NEW i \in Slot PROVE i \in Runnable(t) <=> i \in Runnable(s) \cup {w}
    BY <1>9 DEF Runnable
  <2>2. Runnable(t) \subseteq Slot /\ Runnable(s) \cup {w} \subseteq Slot
    BY IdleIsSlot, Zenon DEF Runnable
  <2> QED
    BY <2>1, <2>2, Zenon
<1>11. CurInv(t)
  <2>1. s.cur_proc \in Slot /\ t.cur_proc = s.cur_proc /\ t.plist_head = s.plist_head
    BY <1>3, <1>4, <1>7, Zenon DEF State
  <2> QED
    BY <1>9, <2>1, IdleIsSlot DEF CurInv, Runnable
<1> QED
  BY <1>2, <1>5, <1>7, <1>8, <1>10, <1>11 DEF SameTable

(* pm_destroy of the running process: its waiter, and nobody else, is      *)
(* woken, with its exit status.                                            *)
LEMMA DestroyInv ==
  ASSUME Counting, NEW s, IInv(s), ~s.panicked, NEW p, p = s.cur_proc, p # IdleSlot
  PROVE  /\ IInv(pm_destroy(s, p))
         /\ ~Live(pm_destroy(s, p), p)
         /\ ~pm_destroy(s, p).panicked
         /\ pm_destroy(s, p).pid = s.pid
         /\ SameParked(pm_destroy(s, p), s)
         /\ \A w \in Slot : Waiting(s, w) /\ ~Waiting(pm_destroy(s, p), w) =>
               /\ s.wait_for[w] = s.pid[p]
               /\ pm_destroy(s, p).eax[w] = pm_destroy(s, p).exit_status[p]
<1> DEFINE s1     == [pm_deactivate(s, p) EXCEPT !.status[p] = "PS_SLOT_FREE"]
           waiter == pm_get_proc(s1, s1.wait_proc[p])
           late   == sc_late_result(s1, waiter, s1.exit_status[p])
           s2     == IF s1.wait_proc[p] = 0 THEN s1
                     ELSE IF waiter = NULL THEN panic(s1)
                     ELSE pm_unblock(late, waiter)
           other  == pm_get_proc(s2, s2.wait_for[p])
           t      == IF s2.wait_for[p] # 0 /\ s2.wait_proc[other] = s2.pid[p]
                     THEN [s2 EXCEPT !.wait_proc[other] = 0] ELSE s2
<1>0. pm_destroy(s, p) = t
  BY DEF pm_destroy
<1>1. /\ s1 \in State
      /\ SameTable(s1, s)
      /\ ListOn(s1, Runnable(s1))
      /\ CurInv(s1)
      /\ NullInv(s1) /\ PidInv(s1) /\ IdleInv(s1)
      /\ \A i \in Slot : Live(s1, i) <=> Live(s, i) /\ i # p
      /\ \A i \in Slot : Waiting(s1, i) <=> Waiting(s, i)
      /\ ~Waiting(s, p)
      /\ SameParked(s1, s)
  BY UnlinkInv
<1>2. p \in Slot /\ s \in State /\ TableInv(s) /\ Live(s, p) /\ PidInv(s)
  BY DEF IInv, CurInv, State, Live, TableInv
<1> HIDE DEF s1
<1>3. /\ s1.pid = s.pid /\ s1.wait_proc = s.wait_proc /\ s1.wait_for = s.wait_for
      /\ s1.block = s.block /\ s1.newpid = s.newpid /\ ~s1.panicked
      /\ s1.exit_status = s.exit_status
  BY <1>1, Zenon DEF SameTable
(* Every waiting process but p's waiter still has what it waits for.       *)
<1>4. ASSUME NEW i \in Slot, Waiting(s, i), s.pid[i] # s.wait_proc[p]
      PROVE  \E q \in Slot : /\ Live(s1, q) /\ s.pid[q] = s.wait_for[i]
                             /\ s.wait_proc[q] = s.pid[i]
  <2>1. PICK q \in Slot : Live(s, q) /\ s.pid[q] = s.wait_for[i] /\ s.wait_proc[q] = s.pid[i]
    BY <1>2, <1>4, Zenon DEF TableInv, WaitInv
  <2> QED
    BY <1>1, <1>4, <2>1, Zenon
<1>5. ASSUME NEW q \in Slot, Live(s1, q), s.wait_proc[q] # 0
      PROVE  \E i \in Slot : /\ Waiting(s, i) /\ s.pid[i] = s.wait_proc[q]
                             /\ s.wait_for[i] = s.pid[q] /\ s.wait_for[i] # s.pid[p]
  <2>1. PICK i \in Slot : Waiting(s, i) /\ s.pid[i] = s.wait_proc[q] /\ s.wait_for[i] = s.pid[q]
    BY <1>1, <1>2, <1>5 DEF TableInv, WaitInv
  <2>2. s.pid[q] # s.pid[p]
    BY <1>1, <1>2, <1>5, PidUnique, Zenon
  <2> QED
    BY <2>1, <2>2, ZenonT(40)
<1>6. /\ s2 \in State
      /\ ListOn(s2, Runnable(s2))
      /\ CurInv(s2)
      /\ NullInv(s2) /\ PidInv(s2) /\ IdleInv(s2) /\ WaitInv(s2)
      /\ ~s2.panicked /\ s2.pid = s.pid /\ s2.wait_proc = s.wait_proc /\ ~Live(s2, p)
      /\ SameParked(s2, s)
      /\ \A i \in Slot : Waiting(s2, i) => Waiting(s, i)
      /\ \A w \in Slot : Waiting(s, w) /\ ~Waiting(s2, w) =>
           s.wait_for[w] = s.pid[p] /\ s2.eax[w] = s2.exit_status[p]
  <2>1. CASE s1.wait_proc[p] = 0
    <3>1. s2 = s1
      BY <2>1
    <3>2. \A i \in Slot : Waiting(s, i) => s.pid[i] # s.wait_proc[p]
      BY <1>2, <1>3, <2>1, WaitingFacts, ZenonT(40)
    <3>3. WaitInv(s1)
      BY <1>1, <1>3, <1>4, <1>5, <3>2 DEF WaitInv
    <3> HIDE DEF s2
    <3> QED
      BY <1>1, <1>2, <1>3, <3>1, <3>3, ZenonT(40)
  <2>2. CASE s1.wait_proc[p] # 0
    <3>1. PICK w \in Slot : Waiting(s, w) /\ s.pid[w] = s.wait_proc[p] /\ s.wait_for[w] = s.pid[p]
      BY <1>2, <1>3, <2>2, ZenonT(40) DEF TableInv, WaitInv
    <3>2. Waiting(s1, w) /\ Live(s1, w) /\ w # p /\ w # IdleSlot /\ w # NULL
      BY <1>1, <1>2, <3>1, WaitingFacts, IdleIsSlot, Zenon
    <3>3. waiter = w
      <4>1. s1 \in State /\ PidInv(s1) /\ Live(s1, w) /\ s1.wait_proc[p] = s1.pid[w]
        BY <1>1, <1>3, <3>1, <3>2, Zenon
      <4> QED
        BY <4>1, Lookup, Zenon
    <3>4. s2 = pm_unblock(late, w)
      BY <2>2, <3>2, <3>3
    <3>5. /\ late \in State
          /\ late.eax = [s1.eax EXCEPT ![w] = s1.exit_status[p]]
      BY <1>1, <1>2, <3>3, ZenonT(40) DEF sc_late_result, State
    <3>6. /\ late.next = s1.next /\ late.plist_head = s1.plist_head
          /\ late.plist_tail = s1.plist_tail /\ late.cur_proc = s1.cur_proc
          /\ late.status = s1.status
      BY <1>1, <3>3, Zenon DEF sc_late_result, State
    <3>7. /\ late.pid = s.pid /\ late.block = s1.block /\ late.wait_proc = s.wait_proc
          /\ late.wait_for = s.wait_for /\ late.exit_status = s1.exit_status
          /\ late.newpid = s1.newpid /\ late.panicked = s1.panicked
      BY <1>1, <1>3, <3>3, Zenon DEF sc_late_result, State
    <3> HIDE DEF late, s2, waiter
    <3>8. Runnable(late) = Runnable(s1) /\ CurInv(late)
      BY <1>1, <3>6 DEF Runnable, CurInv
    <3>9. ListOn(late, Runnable(late))
      BY <1>1, <3>6, <3>8, ListFrame, Zenon
    <3>10. w \notin Runnable(late) /\ w # late.cur_proc
      BY <1>1, <3>2, <3>6, <3>8, ZenonT(40) DEF Runnable, Waiting, CurInv
    <3>11. /\ s2 \in State
           /\ ListOn(s2, Runnable(s2))
           /\ CurInv(s2)
           /\ s2.status = [s1.status EXCEPT ![w] = "PS_READY"]
           /\ s2.block = [s.block EXCEPT ![w] = "BR_NOT_BLOCKED"]
           /\ s2.pid = s.pid
           /\ s2.wait_proc = s.wait_proc
           /\ s2.wait_for = s.wait_for
           /\ s2.exit_status = s1.exit_status
           /\ s2.eax = [s1.eax EXCEPT ![w] = s1.exit_status[p]]
           /\ s2.newpid = s.newpid
           /\ ~s2.panicked
      <4>1. /\ s2 \in State
            /\ ListOn(s2, Runnable(s2))
            /\ CurInv(s2)
            /\ s2.status = [late.status EXCEPT ![w] = "PS_READY"]
            /\ s2.block = [late.block EXCEPT ![w] = "BR_NOT_BLOCKED"]
            /\ s2.pid = late.pid
            /\ s2.wait_proc = late.wait_proc
            /\ s2.wait_for = late.wait_for
            /\ s2.exit_status = late.exit_status
            /\ s2.eax = late.eax
            /\ s2.newpid = late.newpid
            /\ s2.panicked = late.panicked
        BY <3>4, <3>5, <3>8, <3>9, <3>10, UnblockInv, ZenonT(40)
      <4> QED
        BY <1>3, <3>5, <3>6, <3>7, <4>1
    <3>12. /\ s2.status[w] = "PS_READY" /\ s2.eax[w] = s2.exit_status[p]
           /\ \A i \in Ref : i # w => s2.status[i] = s1.status[i]
           /\ \A i \in Slot : i # w => s2.block[i] = s1.block[i]
      BY <1>1, <1>3, <3>11 DEF State, Ref
    <3>13. NULL \in Ref /\ w # NULL /\ Slot \subseteq Ref
      BY <3>2, Zenon DEF Ref
    <3>14. \A i \in Slot : Live(s2, i) <=> Live(s1, i)
      BY <3>2, <3>12, <3>13, Zenon DEF Live
    <3>15. \A i \in Slot : Waiting(s2, i) <=> Waiting(s, i) /\ i # w
      BY <1>1, <3>12, <3>13, ZenonT(40) DEF Waiting
    <3>16. NullInv(s2)
      BY <1>1, <1>3, <3>11, <3>12, <3>13, Zenon DEF NullInv
    <3>17. PidInv(s2)
      BY <1>1, <1>3, <3>11, <3>14 DEF PidInv
    <3>18. IdleInv(s2)
      BY <1>1, <1>3, <3>2, <3>11, <3>12, <3>14, IdleIsSlot, ZenonT(40) DEF IdleInv
    <3>19. ASSUME NEW i \in Slot, Waiting(s2, i)
           PROVE  \E q \in Slot : /\ Live(s2, q) /\ s2.pid[q] = s2.wait_for[i]
                                  /\ s2.wait_proc[q] = s2.pid[i]
      <4>1. Waiting(s, i) /\ i # w
        BY <3>15, <3>19, Zenon
      <4>2. s.pid[i] # s.wait_proc[p]
        BY <1>1, <1>2, <3>1, <3>2, <4>1, PidUnique, WaitingFacts, ZenonT(40)
      <4> QED
        BY <1>4, <3>11, <3>14, <4>1, <4>2
    <3>20. ASSUME NEW q \in Slot, Live(s2, q), s2.wait_proc[q] # 0
           PROVE  \E i \in Slot : /\ Waiting(s2, i) /\ s2.pid[i] = s2.wait_proc[q]
                                  /\ s2.wait_for[i] = s2.pid[q]
      BY <1>5, <3>1, <3>11, <3>14, <3>15, <3>20
    <3>21. WaitInv(s2)
      BY <3>19, <3>20, Zenon DEF WaitInv
    <3>22. \A r \in ServiceReason : ~Parked(s1, w, r)
      BY <3>2, ZenonT(40) DEF Waiting, Parked, ServiceReason
    <3>23. SameParked(s2, s)
      BY <1>1, <3>12, <3>13, <3>22 DEF Parked, SameParked
    <3> QED
      BY <1>1, <1>2, <3>1, <3>11, <3>12, <3>14, <3>15, <3>16, <3>17, <3>18, <3>21, <3>23, ZenonT(40)
  <2> QED
    BY <2>1, <2>2, Zenon
<1> HIDE DEF s2
<1>7. CASE s2.wait_for[p] # 0 /\ s2.wait_proc[other] = s2.pid[p]
  <2>1. t = [s2 EXCEPT !.wait_proc[other] = 0]
    BY <1>7
  <2>2. other \in Slot
    <3>1. other = NULL \/ other \in Slot
      BY <1>6, LookupResult, Zenon
    <3>2. s2.pid[p] \in Nat /\ s2.wait_proc[NULL] = WILD /\ WILD \notin Nat
      BY <1>2, <1>6 DEF State, NullInv, WILD
    <3> QED
      BY <1>7, <3>1, <3>2, Zenon
  <2>3. ~Live(s2, other)
    <3>1. SUFFICES ASSUME Live(s2, other) PROVE FALSE
      BY Zenon
    <3>2. s2.pid[p] # 0
      BY <1>2, <1>6, PidUnique, IdleIsSlot, Zenon DEF TableInv, IdleInv
    <3>a. s2.wait_proc[other] # 0 /\ s2.wait_proc[other] = s2.pid[p]
      BY <1>7, <3>2, Zenon
    <3>b. WaitInv(s2)
      BY <1>6, Zenon
    <3> HIDE DEF other
    <3>3. PICK i \in Slot : Waiting(s2, i) /\ s2.pid[i] = s2.pid[p]
      BY <2>2, <3>1, <3>a, <3>b DEF WaitInv
    <3>4. Waiting(s, i) /\ s.pid[i] = s.pid[p]
      BY <1>6, <3>3, Zenon
    <3>5. i = p
      BY <1>2, <3>4, WaitingFacts, PidUnique
    <3> QED
      BY <1>1, <3>4, <3>5
  <2> HIDE DEF other, t
  <2>4. t \in State /\ t.wait_proc = [s2.wait_proc EXCEPT ![other] = 0]
    BY <1>6, <2>1, <2>2, Zenon DEF State
  <2>5. /\ t.pid = s2.pid /\ t.status = s2.status /\ t.block = s2.block
        /\ t.wait_for = s2.wait_for /\ t.exit_status = s2.exit_status /\ t.eax = s2.eax
        /\ t.newpid = s2.newpid /\ t.panicked = s2.panicked
    BY <1>6, <2>1 DEF State
  <2>6. /\ t.next = s2.next /\ t.plist_head = s2.plist_head
        /\ t.plist_tail = s2.plist_tail /\ t.cur_proc = s2.cur_proc
    BY <1>6, <2>1, Zenon DEF State
  <2>7. /\ \A i \in Ref : i # other => t.wait_proc[i] = s2.wait_proc[i]
        /\ NULL \in Ref /\ NULL # other /\ Slot \subseteq Ref
    BY <1>6, <2>2, <2>4, IdleIsSlot, SMTT(30), ZenonT(20) DEF State, Ref
  <2>8. ListOn(t, Runnable(t)) /\ CurInv(t)
    <3>1. Runnable(t) = Runnable(s2)
      BY <2>5 DEF Runnable
    <3> QED
      BY <1>6, <2>5, <2>6, <3>1, ListFrame DEF CurInv
  <2>9. \A i \in Slot : (Live(t, i) <=> Live(s2, i)) /\ (Waiting(t, i) <=> Waiting(s2, i))
    BY <2>5, Zenon DEF Live, Waiting
  <2>10. NullInv(t)
    BY <1>6, <2>5, <2>7, Zenon DEF NullInv
  <2>11. PidInv(t)
    BY <1>6, <2>5, <2>9, ZenonT(40) DEF PidInv
  <2>12. IdleInv(t)
    BY <1>6, <2>5, <2>9, IdleIsSlot, Zenon DEF IdleInv
  <2>13. WaitInv(t)
    <3>1. \A q \in Slot : Live(t, q) => t.wait_proc[q] = s2.wait_proc[q]
      BY <2>3, <2>7, <2>9, Zenon
    <3>2. WaitInv(s2) /\ t.pid = s2.pid /\ t.wait_for = s2.wait_for
      BY <1>6, <2>5, Zenon
    <3>3. ASSUME NEW i \in Slot, Waiting(t, i)
          PROVE  \E q \in Slot : Live(t, q) /\ t.pid[q] = t.wait_for[i] /\ t.wait_proc[q] = t.pid[i]
      BY <2>9, <3>1, <3>2, <3>3 DEF WaitInv
    <3>4. ASSUME NEW q \in Slot, Live(t, q), t.wait_proc[q] # 0
          PROVE  \E i \in Slot : Waiting(t, i) /\ t.pid[i] = t.wait_proc[q] /\ t.wait_for[i] = t.pid[q]
      BY <2>9, <3>1, <3>2, <3>4 DEF WaitInv
    <3> QED
      BY <3>3, <3>4 DEF WaitInv
  <2>14. SameParked(t, s)
    <3>1. SameParked(s2, s) /\ t.status = s2.status /\ t.block = s2.block
      BY <1>6, <2>5
    <3> QED
      BY <3>1 DEF SameParked, Parked
  <2> QED
    BY <1>0, <1>2, <1>6, <2>4, <2>5, <2>8, <2>9, <2>10, <2>11, <2>12, <2>13, <2>14, ZenonT(40) DEF IInv, TableInv, PanicInv
<1>8. CASE ~(s2.wait_for[p] # 0 /\ s2.wait_proc[other] = s2.pid[p])
  <2>1. t = s2
    BY <1>8
  <2> HIDE DEF t
  <2> QED
    BY <1>0, <1>6, <2>1, Zenon DEF IInv, TableInv, PanicInv
<1> QED
  BY <1>7, <1>8, Zenon

(* exit_status, eax and ticks_left have no part in the invariant.          *)
LEMMA FieldFrame ==
  ASSUME NEW s, IInv(s), NEW t \in State,
         t.next = s.next, t.plist_head = s.plist_head, t.plist_tail = s.plist_tail,
         t.cur_proc = s.cur_proc, t.status = s.status, t.pid = s.pid, t.block = s.block,
         t.wait_proc = s.wait_proc, t.wait_for = s.wait_for, t.newpid = s.newpid,
         t.panicked => PanicCause(s)
  PROVE  /\ IInv(t)
         /\ \A i \in Slot : (Live(t, i) <=> Live(s, i)) /\ (Waiting(t, i) <=> Waiting(s, i))
<1>1. Runnable(t) = Runnable(s)
  BY DEF Runnable
<1>2. ListOn(t, Runnable(t))
  BY <1>1, ListFrame, Zenon DEF IInv
<1>3. CurInv(t)
  BY Zenon DEF IInv, CurInv
<1>4. \A i \in Slot : (Live(t, i) <=> Live(s, i)) /\ (Waiting(t, i) <=> Waiting(s, i))
  BY DEF Live, Waiting
<1>5. TableInv(s)
  BY Zenon DEF IInv
<1>6. NullInv(t) /\ IdleInv(t)
  BY <1>4, <1>5, IdleIsSlot, Zenon DEF TableInv, NullInv, IdleInv
<1>7. PidInv(t)
  BY <1>4, <1>5, ZenonT(40) DEF TableInv, PidInv
<1>8. WaitInv(t)
  BY <1>4, <1>5 DEF TableInv, WaitInv
<1>9. PanicInv(t)
  BY <1>4, Zenon DEF PanicInv, PanicCause
<1> QED
  BY <1>2, <1>3, <1>4, <1>6, <1>7, <1>8, <1>9, Zenon DEF IInv, TableInv

(* Storing a system call's result in a saved eax disturbs no invariant.    *)
LEMMA ResultInv ==
  ASSUME NEW s, IInv(s), NEW p \in Slot, NEW x \in ExitStatus \cup {0, NO_STATUS}
  PROVE  /\ IInv(sc_late_result(s, p, x))
         /\ sc_late_result(s, p, x).status = s.status
         /\ sc_late_result(s, p, x).block = s.block
<1> DEFINE t == sc_late_result(s, p, x)
<1>0. s \in State
  BY DEF IInv
<1>1. t \in State
  BY <1>0, Zenon DEF sc_late_result, State
<1>2. /\ t.next = s.next /\ t.plist_head = s.plist_head /\ t.plist_tail = s.plist_tail
      /\ t.cur_proc = s.cur_proc /\ t.status = s.status /\ t.pid = s.pid /\ t.block = s.block
      /\ t.wait_proc = s.wait_proc /\ t.wait_for = s.wait_for /\ t.newpid = s.newpid
      /\ t.panicked = s.panicked
  BY <1>0, ZenonT(40) DEF sc_late_result, State
<1> HIDE DEF t
<1>a. t.panicked => PanicCause(s)
  BY <1>2 DEF IInv, PanicInv
<1>3. IInv(t)
  BY <1>1, <1>2, <1>a, FieldFrame, Zenon
<1> QED
  BY <1>1, <1>2, <1>3 DEF t

(* What becomes of the table when a process is entered into the first free *)
(* slot, p: nobody waits for it, and its pid is a new one.                 *)
LEMMA NewTable ==
  ASSUME NEW s \in State, TableInv(s), ~s.panicked, NEW p \in Slot, ~Live(s, p),
         \A j \in Slot : ~Live(s, j) => p <= j,
         NEW t \in State, t.status[p] \in Status \ {"PS_SLOT_FREE"},
         t.block[p] # "BR_WAIT_PROC",
         \A i \in Ref : i # p => t.status[i] = s.status[i] /\ t.wait_proc[i] = s.wait_proc[i],
         \A i \in Slot : i # p => t.block[i] = s.block[i] /\ t.pid[i] = s.pid[i]
                                 /\ t.wait_for[i] = s.wait_for[i],
         t.pid[p] = s.newpid, t.newpid = s.newpid + 1, t.wait_proc[p] = 0,
         t.panicked = s.panicked
  PROVE  TableInv(t) /\ \A i \in Slot : Waiting(t, i) <=> Waiting(s, i)
<1>1. p # IdleSlot /\ p \in Ref /\ NULL \in Ref /\ NULL # p /\ Slot \subseteq Ref
  BY IdleIsSlot, Zenon DEF TableInv, IdleInv, Ref
<1>2. \A i \in Slot : Live(t, i) <=> Live(s, i) \/ i = p
  BY <1>1 DEF Live
<1>3. \A i \in Slot : Waiting(t, i) <=> Waiting(s, i)
  BY <1>1, Zenon DEF Waiting, Live
<1>4. NullInv(t)
  BY <1>1, Zenon DEF NullInv, TableInv
<1>5. IdleInv(t)
  BY <1>1, <1>2, IdleIsSlot, ZenonT(40) DEF IdleInv, TableInv
<1>6. PidInv(t)
  <2>1. s.newpid \in Nat /\ \A i \in Slot : s.pid[i] \in Nat /\ i \in Nat
    <3>1. s.newpid \in Nat
      BY DEF State, Pids
    <3>2. \A i \in Slot : s.pid[i] \in Nat
      BY DEF State
    <3>3. \A i \in Slot : i \in Nat
      BY DEF Slot
    <3> QED
      BY <3>1, <3>2, <3>3, ZenonT(40)
  <2>2. ASSUME NEW i \in Slot, i # p, Live(t, i)
        PROVE  t.pid[i] < t.newpid /\ \A j \in Slot : t.pid[j] = t.pid[i] => i <= j
    <3>1. s.pid[i] < s.newpid /\ t.pid[i] = s.pid[i]
      BY <1>2, <2>2, Zenon DEF TableInv, PidInv
    <3>2. ASSUME NEW j \in Slot, t.pid[j] = t.pid[i] PROVE i <= j
      <4>1. j # p
        BY <2>1, <3>1, <3>2
      <4> QED
        BY <1>2, <2>2, <3>1, <3>2, <4>1, ZenonT(40) DEF TableInv, PidInv
    <3> QED
      BY <2>1, <3>1, <3>2
  <2>3. t.pid[p] < t.newpid
    BY <2>1
  <2>4. ASSUME NEW j \in Slot, t.pid[j] = t.pid[p] PROVE p <= j
    <3>1. CASE j = p
      BY <2>1, <3>1, Zenon
    <3>2. CASE j # p
      <4>1. s.pid[j] = s.newpid
        BY <2>4, <3>2, Zenon
      <4>2. ~Live(s, j)
        BY <2>1, <4>1 DEF TableInv, PidInv
      <4> QED
        BY <4>2
    <3> QED
      BY <3>1, <3>2, Zenon
  <2> QED
    BY <2>2, <2>3, <2>4 DEF PidInv
<1>7. WaitInv(t)
  <2>1. ASSUME NEW i \in Slot, Waiting(t, i)
        PROVE  \E q \in Slot : /\ Live(t, q) /\ t.pid[q] = t.wait_for[i]
                               /\ t.wait_proc[q] = t.pid[i]
    <3>1. Waiting(s, i) /\ i # p
      BY <1>3, <2>1, Zenon DEF Waiting, Live
    <3>2. PICK q \in Slot : Live(s, q) /\ s.pid[q] = s.wait_for[i] /\ s.wait_proc[q] = s.pid[i]
      BY <3>1, Zenon DEF TableInv, WaitInv
    <3> QED
      BY <1>1, <1>2, <3>1, <3>2, ZenonT(40)
  <2>2. ASSUME NEW q \in Slot, Live(t, q), t.wait_proc[q] # 0
        PROVE  \E i \in Slot : /\ Waiting(t, i) /\ t.pid[i] = t.wait_proc[q]
                               /\ t.wait_for[i] = t.pid[q]
    <3>1. q # p /\ Live(s, q) /\ s.wait_proc[q] # 0
      BY <1>1, <1>2, <2>2, Zenon
    <3>2. PICK i \in Slot : Waiting(s, i) /\ s.pid[i] = s.wait_proc[q] /\ s.wait_for[i] = s.pid[q]
      BY <3>1, Zenon DEF TableInv, WaitInv
    <3>3. i # p
      BY <3>2 DEF Waiting, Live
    <3> QED
      BY <1>1, <1>3, <3>1, <3>2, <3>3, ZenonT(40)
  <2> QED
    BY <2>1, <2>2, Zenon DEF WaitInv
<1> QED
  BY <1>3, <1>4, <1>5, <1>6, <1>7, Zenon DEF TableInv

(* Filling in a new process keeps the types, while pids are left.          *)
LEMMA NewProcType ==
  ASSUME NEW s \in State, NEW p \in Slot, s.newpid \in Nat, s.newpid + 1 \in Pids,
         PROC_START_TICKS \in 0 .. PROC_MAX_TICKS, NEW status \in {"PS_BLOCKED", "PS_READY"}
  PROVE  NewProc(s, p, status) \in State
<1> DEFINE v1 == [s EXCEPT !.pid[p] = s.newpid, !.newpid = @ + 1]
           v2 == [v1 EXCEPT !.status[p] = status,
                            !.block[p] = IF status = "PS_BLOCKED" THEN "BR_INIT"
                                         ELSE "BR_NOT_BLOCKED"]
           v3 == [v2 EXCEPT !.wait_proc[p] = 0, !.wait_for[p] = 0]
           v4 == [v3 EXCEPT !.exit_status[p] = NO_STATUS, !.ticks_left[p] = PROC_START_TICKS,
                            !.eax[p] = 0]
<1>1. v1 \in State
  BY Zenon DEF State
<1>2. v2 \in State
  <2> HIDE DEF v1
  <2> QED
    BY <1>1, Zenon DEF State, Status, BlockReason
<1>3. v3 \in State
  <2> HIDE DEF v2
  <2> QED
    BY <1>2, Zenon DEF State
<1>4. v4 \in State
  <2> HIDE DEF v3
  <2> QED
    BY <1>3, Zenon DEF State
<1>5. v4 = NewProc(s, p, status)
  BY DEF NewProc
<1> QED
  BY <1>4, <1>5

(* States with the same fields are the same.                               *)
LEMMA StateEta ==
  ASSUME NEW s \in State
  PROVE  s = [pid |-> s.pid, status |-> s.status, block |-> s.block, wait_proc |-> s.wait_proc,
              wait_for |-> s.wait_for, exit_status |-> s.exit_status,
              ticks_left |-> s.ticks_left, eax |-> s.eax, next |-> s.next,
              plist_head |-> s.plist_head, plist_tail |-> s.plist_tail,
              cur_proc |-> s.cur_proc, newpid |-> s.newpid, panicked |-> s.panicked]
  BY Zenon DEF State

(* v is s with p entered, blocked, in the free slot p.                     *)
Created(s, p, v) ==
  /\ p \in Slot /\ ~Live(s, p) /\ \A j \in Slot : ~Live(s, j) => p <= j
  /\ p # IdleSlot /\ p # s.cur_proc
  /\ v \in State /\ ListOn(v, Runnable(v)) /\ CurInv(v)
  /\ p \notin Runnable(v) /\ p # v.cur_proc
  /\ v.status[p] = "PS_BLOCKED" /\ v.block[p] = "BR_INIT"
  /\ v.pid[p] = s.newpid /\ v.wait_proc[p] = 0 /\ v.wait_for[p] = 0
  /\ \A i \in Ref : i # p => v.status[i] = s.status[i] /\ v.wait_proc[i] = s.wait_proc[i]
  /\ \A i \in Slot : i # p => v.block[i] = s.block[i] /\ v.pid[i] = s.pid[i]
                          /\ v.wait_for[i] = s.wait_for[i]
  /\ v.newpid = s.newpid + 1 /\ ~v.panicked /\ v.cur_proc = s.cur_proc

(* elf32_exec: the new process is entered blocked, off the run list.       *)
LEMMA CreateInv ==
  ASSUME Counting, NEW s, IInv(s), ~s.panicked, s.newpid < PidLimit,
         NEW p, p = get_empty_proc(s), p # NULL,
         NEW v, v = NewProc(s, p, "PS_BLOCKED")
  PROVE  Created(s, p, v)
<1>0. s \in State /\ TableInv(s) /\ CurInv(s)
  BY Zenon DEF IInv
<1>1. p \in Slot /\ ~Live(s, p) /\ \A j \in Slot : ~Live(s, j) => p <= j
  BY <1>0, EmptyResult, Zenon
<1>2. v \in State
  <2>1. s.newpid \in Nat /\ s.newpid + 1 \in Pids
    BY <1>0, ConstantsAssumption DEF State, Pids
  <2>2. PROC_START_TICKS \in 0 .. PROC_MAX_TICKS
    BY ConstantsAssumption
  <2> QED
    BY <1>0, <1>1, <2>1, <2>2, NewProcType, Zenon
<1>3. v.status = [s.status EXCEPT ![p] = "PS_BLOCKED"] /\ v.block = [s.block EXCEPT ![p] = "BR_INIT"]
  BY <1>0 DEF NewProc, State
<1>4. v.pid = [s.pid EXCEPT ![p] = s.newpid] /\ v.newpid = s.newpid + 1
  BY <1>0 DEF NewProc, State
<1>5. v.wait_proc = [s.wait_proc EXCEPT ![p] = 0] /\ v.wait_for = [s.wait_for EXCEPT ![p] = 0]
  BY <1>0 DEF NewProc, State
<1>6. v.panicked = s.panicked /\ v.cur_proc = s.cur_proc
  BY <1>0, ZenonT(40) DEF NewProc, State
<1>7. v.next = s.next /\ v.plist_head = s.plist_head /\ v.plist_tail = s.plist_tail
  BY <1>0, ZenonT(40) DEF NewProc, State
<1>8. /\ v.status[p] = "PS_BLOCKED"
      /\ \A i \in Ref : i # p => v.status[i] = s.status[i] /\ v.wait_proc[i] = s.wait_proc[i]
      /\ v.wait_proc[p] = 0
      /\ \A i \in Slot : i # p => v.block[i] = s.block[i] /\ v.pid[i] = s.pid[i]
                              /\ v.wait_for[i] = s.wait_for[i]
      /\ v.pid[p] = s.newpid /\ v.block[p] = "BR_INIT" /\ v.wait_for[p] = 0
  BY <1>0, <1>1, <1>3, <1>4, <1>5, ZenonT(40) DEF State, Ref
<1>9. /\ p # IdleSlot /\ p # s.cur_proc /\ p \in Ref /\ Slot \subseteq Ref
      /\ s.cur_proc \in Slot /\ IdleSlot \in Slot
  BY <1>0, <1>1, IdleIsSlot, Zenon DEF TableInv, IdleInv, CurInv, Live, Ref, State
<1>10. Runnable(v) = Runnable(s)
  <2>1. ASSUME NEW i \in Slot PROVE i \in Runnable(v) <=> i \in Runnable(s)
    BY <1>1, <1>8, <1>9 DEF Runnable, Live
  <2>2. Runnable(v) \subseteq Slot /\ Runnable(s) \subseteq Slot
    BY <1>9, Zenon DEF Runnable
  <2> QED
    BY <2>1, <2>2, Zenon
<1>11. ListOn(v, Runnable(v)) /\ p \notin Runnable(v) /\ p # v.cur_proc
  <2>1. ListOn(v, Runnable(v))
    BY <1>7, <1>10, ListFrame DEF IInv
  <2>2. p \notin Runnable(v)
    BY <1>8, <1>9, Zenon DEF Runnable
  <2> QED
    BY <1>6, <1>9, <2>1, <2>2, Zenon
<1>12. CurInv(v)
  <2>1. v.status[s.cur_proc] = s.status[s.cur_proc] /\ v.status[IdleSlot] = s.status[IdleSlot]
    BY <1>8, <1>9, Zenon
  <2>2. ASSUME NEW i \in Slot, v.status[i] = "PS_RUNNING" PROVE i = s.cur_proc
    <3>1. i # p
      BY <1>8, <2>2, Zenon
    <3>2. i \in Ref
      BY <1>9, <2>2
    <3>3. s.status[i] = "PS_RUNNING"
      BY <1>8, <2>2, <3>1, <3>2, Zenon
    <3> QED
      BY <1>0, <3>3, Zenon DEF CurInv
  <2>3. s.cur_proc = s.plist_head
    BY <1>0, Zenon DEF CurInv
  <2>4. \/ s.status[s.cur_proc] = "PS_RUNNING"
        \/ s.cur_proc = IdleSlot /\ s.status[IdleSlot] = "PS_BLOCKED"
    BY <1>0 DEF CurInv
  <2> QED
    BY <1>6, <1>7, <2>1, <2>2, <2>3, <2>4, Zenon DEF CurInv
<1> QED
  BY <1>1, <1>2, <1>4, <1>6, <1>8, <1>9, <1>11, <1>12, Zenon DEF Created

(* A program that is loaded is then unblocked.                             *)
LEMMA EnterInv ==
  ASSUME NEW s, IInv(s), ~s.panicked, NEW p, NEW v, Created(s, p, v)
  PROVE  /\ IInv(pm_unblock(v, p))
         /\ \A i \in Slot : Waiting(s, i) => Waiting(pm_unblock(v, p), i)
         /\ SameParked(pm_unblock(v, p), s)
<1> DEFINE t == pm_unblock(v, p)
<1>0. s \in State /\ TableInv(s)
  BY Zenon DEF IInv
<1>1. p \in Slot /\ ~Live(s, p) /\ \A j \in Slot : ~Live(s, j) => p <= j
  BY Zenon DEF Created
<1>2. v \in State /\ ListOn(v, Runnable(v)) /\ CurInv(v) /\ p \notin Runnable(v) /\ p # v.cur_proc
  BY ZenonT(40) DEF Created
<1>3. /\ \A i \in Ref : i # p => v.status[i] = s.status[i] /\ v.wait_proc[i] = s.wait_proc[i]
      /\ \A i \in Slot : i # p => v.block[i] = s.block[i] /\ v.pid[i] = s.pid[i]
                              /\ v.wait_for[i] = s.wait_for[i]
      /\ v.pid[p] = s.newpid /\ v.newpid = s.newpid + 1 /\ v.wait_proc[p] = 0 /\ ~v.panicked
  BY DEF Created
<1>4. /\ t \in State
      /\ ListOn(t, Runnable(t))
      /\ CurInv(t)
      /\ t.status = [v.status EXCEPT ![p] = "PS_READY"]
      /\ t.block = [v.block EXCEPT ![p] = "BR_NOT_BLOCKED"]
      /\ t.pid = v.pid
      /\ t.wait_proc = v.wait_proc
      /\ t.wait_for = v.wait_for
      /\ t.newpid = v.newpid
      /\ t.panicked = v.panicked
  BY <1>1, <1>2, UnblockInv, Zenon
<1> HIDE DEF t
<1>5. /\ t.status[p] = "PS_READY" /\ t.block[p] = "BR_NOT_BLOCKED"
      /\ \A i \in Ref : i # p => t.status[i] = v.status[i]
      /\ \A i \in Slot : i # p => t.block[i] = v.block[i]
  BY <1>1, <1>2, <1>4, ZenonT(40) DEF State, Ref
<1>a. SameParked(t, s)
  BY <1>1, <1>3, <1>5, ZenonT(40) DEF SameParked, Parked, Live, Ref
<1>6. TableInv(t) /\ \A i \in Slot : Waiting(t, i) <=> Waiting(s, i)
  <2>1. t.status[p] \in Status \ {"PS_SLOT_FREE"} /\ t.block[p] # "BR_WAIT_PROC"
    BY <1>5, Zenon DEF Status
  <2>2. /\ \A i \in Ref : i # p => t.status[i] = s.status[i] /\ t.wait_proc[i] = s.wait_proc[i]
        /\ \A i \in Slot : i # p => t.block[i] = s.block[i] /\ t.pid[i] = s.pid[i]
                                /\ t.wait_for[i] = s.wait_for[i]
    <3>1. t.pid = v.pid /\ t.wait_proc = v.wait_proc /\ t.wait_for = v.wait_for
      BY <1>4, Zenon
    <3>2. \A i \in Ref : i # p => t.status[i] = s.status[i] /\ t.wait_proc[i] = s.wait_proc[i]
      BY <1>3, <1>5, <3>1
    <3>3. \A i \in Slot : i # p => t.block[i] = s.block[i] /\ t.pid[i] = s.pid[i]
                                /\ t.wait_for[i] = s.wait_for[i]
      BY <1>3, <1>5, <3>1, ZenonT(40)
    <3> QED
      BY <3>2, <3>3, Zenon
  <2>0. v.panicked = s.panicked
    BY <1>0, <1>2, <1>3, Zenon DEF State
  <2>3. t.pid[p] = s.newpid /\ t.newpid = s.newpid + 1 /\ t.wait_proc[p] = 0 /\ t.panicked = s.panicked
    BY <1>3, <1>4, <2>0, Zenon
  <2>4. t \in State
    BY <1>4, Zenon
  <2> QED
    BY <1>0, <1>1, <2>1, <2>2, <2>3, <2>4, NewTable, ZenonT(40)
<1> QED
  BY <1>3, <1>4, <1>6, <1>a, Zenon DEF IInv, PanicInv, t
-----------------------------------------------------------------------------
(* A load that fails.                                                      *)

(* A list of different processes is not longer than the table.             *)
LEMMA ListLength ==
  ASSUME Counting, NEW n \in Nat, NEW q \in [1 .. n -> Slot],
         \A i, j \in 1 .. n : q[i] = q[j] => i = j
  PROVE  n <= MAX_PROCS
<1>1. q \in Injection(1 .. n, Slot)
  BY Zenon DEF Injection, IsInjective
<1>2. IsFiniteSet(Slot) /\ Cardinality(Slot) = MAX_PROCS
  <2>1. /\ IsFiniteSet(0 .. MAX_PROCS - 1)
        /\ Cardinality(0 .. MAX_PROCS - 1) =
             IF 0 > MAX_PROCS - 1 THEN 0 ELSE (MAX_PROCS - 1) - 0 + 1
    BY ConstantsAssumption DEF Counting, CountInterval
  <2> QED
    BY <2>1, ConstantsAssumption DEF Slot
<1>3. Cardinality(1 .. n) = n
  <2>1. Cardinality(1 .. n) = IF 1 > n THEN 0 ELSE n - 1 + 1
    BY DEF Counting, CountInterval
  <2> QED
    BY <2>1
<1>4. Cardinality(1 .. n) <= Cardinality(Slot)
  BY <1>1, <1>2, Zenon DEF Counting, CountInjection
<1> QED
  BY <1>2, <1>3, <1>4

(* The loop of pm_deactivate, as an equation.                              *)
Turn(s, p, f, m) ==
  IF m = 0 THEN <<NULL, s.plist_head>>
  ELSE IF f[m - 1][2] \in {NULL, WILD, p} THEN f[m - 1] ELSE <<f[m - 1][2], s.next[f[m - 1][2]]>>

(* For a process that is not on the run list, the loop runs to its end.    *)
LEMMA SearchEnd ==
  ASSUME Counting, NEW s \in State, NEW n \in 1 .. MAX_PROCS, NEW q \in [1 .. n -> Slot],
         IsRunList(s, n, q), NEW p, p \notin {q[i] : i \in 1 .. n}
  PROVE  Search(s, p) = <<s.plist_tail, s.next[s.plist_tail]>>
<1> DEFINE M == MAX_PROCS + 1
           F(f) == [m \in 0 .. M |-> Turn(s, p, f, m)]
           g == [m \in 0 .. M |->
                  IF m = 0 THEN <<NULL, q[1]>>
                  ELSE IF m < n THEN <<q[m], q[m + 1]>>
                  ELSE <<q[n], s.next[q[n]]>>]
           walk == CHOOSE f : f = F(f)
<1>0. M \in Nat /\ n < M /\ n \in Nat /\ 1 <= n
  BY ConstantsAssumption
<1>1. /\ q[1] = s.plist_head /\ q[n] = s.plist_tail /\ s.next[q[n]] \in {NULL, WILD}
      /\ \A i \in 1 .. n - 1 : s.next[q[i]] = q[i + 1]
      /\ \A i \in 1 .. n : q[i] \in Slot /\ q[i] \notin {NULL, WILD, p}
  BY DEF IsRunList, Slot, NULL, WILD
<1>2. /\ DOMAIN g = 0 .. M /\ g[0] = <<NULL, q[1]>>
      /\ \A m \in 1 .. n - 1 : g[m] = <<q[m], q[m + 1]>>
      /\ \A m \in n .. M : g[m] = <<q[n], s.next[q[n]]>>
  BY <1>0
<1>3. g = F(g)
  <2>0. \E h : h = g
    BY Zenon
  <2>1. PICK h : h = g
    BY <2>0, Zenon
  <2> SUFFICES g = [m \in 0 .. M |-> Turn(s, p, h, m)]
    BY <2>1, Zenon
  <2> SUFFICES ASSUME NEW m \in 0 .. M
               PROVE  Turn(s, p, h, m) = IF m = 0 THEN <<NULL, q[1]>>
                  ELSE IF m < n THEN <<q[m], q[m + 1]>>
                  ELSE <<q[n], s.next[q[n]]>>
    OBVIOUS
  <2>2. /\ h[0] = <<NULL, q[1]>>
        /\ \A i \in 1 .. n - 1 : h[i] = <<q[i], q[i + 1]>>
        /\ \A i \in n .. M : h[i] = <<q[n], s.next[q[n]]>>
    BY <1>2, <2>1, Zenon
  <2> HIDE DEF g
  <2>3. CASE m = 0
    BY <1>0, <1>1, <2>3, Zenon DEF Turn
  <2>4. CASE m = 1
    <3>1. h[m - 1][2] = q[1] /\ q[1] \notin {NULL, WILD, p}
      BY <1>0, <1>1, <2>2, <2>4
    <3>2. Turn(s, p, h, m) = <<q[1], s.next[q[1]]>>
      BY <2>4, <3>1 DEF Turn
    <3> QED
      BY <1>0, <1>1, <2>4, <3>2
  <2>5. CASE m > 1 /\ m <= n
    <3>1. h[m - 1] = <<q[m - 1], q[m]>>
      BY <1>0, <2>2, <2>5
    <3>2. h[m - 1][2] = q[m] /\ q[m] \notin {NULL, WILD, p}
      BY <1>0, <1>1, <2>5, <3>1
    <3>3. Turn(s, p, h, m) = <<q[m], s.next[q[m]]>>
      BY <2>5, <3>2 DEF Turn
    <3> QED
      BY <1>0, <1>1, <2>5, <3>3
  <2>6. CASE m > n
    <3>1. h[m - 1] = <<q[n], s.next[q[n]]>>
      BY <1>0, <2>2, <2>6
    <3>2. h[m - 1][2] \in {NULL, WILD, p}
      BY <1>1, <3>1
    <3>3. Turn(s, p, h, m) = h[m - 1]
      BY <1>0, <2>6, <3>2 DEF Turn
    <3> QED
      BY <1>0, <2>6, <3>1, <3>3
  <2> QED
    BY <1>0, <2>3, <2>4, <2>5, <2>6
<1>4. walk = F(walk)
  <2> HIDE DEF g, F
  <2> QED
    BY <1>3, Zenon
<1>5. walk[M] = g[M]
  <2> DEFINE T == {m \in 0 .. M : walk[m] # g[m]}
  <2>1. \A m \in 0 .. M : walk[m] = Turn(s, p, walk, m) /\ g[m] = Turn(s, p, g, m)
    BY <1>3, <1>4, Zenon
  <2> HIDE DEF walk, g
  <2>2. SUFFICES ASSUME T # {} PROVE FALSE
    BY <1>0
  <2>3. PICK m \in T : \A i \in T : m <= i
    <3>1. T \subseteq Nat
      BY <1>0
    <3> HIDE DEF T
    <3> QED
      BY <2>2, <3>1, Zenon DEF Counting, LeastNumber
  <2>4. m # 0 => walk[m - 1] = g[m - 1]
    BY <1>0, <2>3
  <2> QED
    BY <2>1, <2>3, <2>4, ZenonT(40) DEF Turn
<1>6. Search(s, p) = walk[M]
  BY Zenon DEF Search, Turn
<1> HIDE DEF walk, g
<1>7. M \in n .. M
  BY <1>0
<1> QED
  BY <1>1, <1>2, <1>5, <1>6, <1>7, Zenon

LEMMA WildType ==
  ASSUME NEW s \in State, NEW p \in Slot
  PROVE  [s EXCEPT !.next[p] = WILD] \in State
  BY ZenonT(40) DEF State

(* pm_deactivate of a process that is not on the run list: the last one's  *)
(* next becomes what a null pointer's next reads, or, where it is that     *)
(* already, the loop follows it.                                           *)
LEMMA DeactivateAbsent ==
  ASSUME Counting, NEW s \in State, ListOn(s, Runnable(s)), ~s.panicked,
         NEW p \in Slot, p \notin Runnable(s), p # s.cur_proc,
         NEW t, t = pm_deactivate(s, p)
  PROVE  /\ t \in State /\ ListOn(t, Runnable(s))
         /\ t.status = s.status /\ t.block = s.block /\ t.pid = s.pid
         /\ t.wait_proc = s.wait_proc /\ t.wait_for = s.wait_for /\ t.newpid = s.newpid
         /\ t.cur_proc = s.cur_proc /\ t.plist_head = s.plist_head
         /\ t.next[t.plist_tail] = WILD
<1>0. PICK n \in Nat \ {0} : \E q \in [1 .. n -> Slot] :
           IsRunList(s, n, q) /\ \A x \in Slot : x \in Runnable(s) <=> Among(n, q, x)
  BY Zenon DEF ListOn
<1>1. PICK q \in [1 .. n -> Slot] :
           IsRunList(s, n, q) /\ \A x \in Slot : x \in Runnable(s) <=> Among(n, q, x)
  BY <1>0, Zenon
<1>a. n <= MAX_PROCS
  BY <1>1, ListLength, Zenon DEF IsRunList
<1>2. n \in 1 .. MAX_PROCS
  BY <1>a, ConstantsAssumption
<1>3. p \notin {q[i] : i \in 1 .. n}
  BY <1>1, Zenon DEF Among
<1>4. /\ s.plist_head = q[1] /\ s.plist_tail = q[n] /\ s.next[q[n]] \in {NULL, WILD}
      /\ 1 \in 1 .. n /\ n \in 1 .. n
  BY <1>1 DEF IsRunList
<1>5. Search(s, p) = <<s.plist_tail, s.next[s.plist_tail]>>
  BY <1>1, <1>2, <1>3, SearchEnd, Zenon
<1>6. s.plist_head # p /\ s.plist_tail \in Slot /\ s.plist_tail # NULL
  BY <1>3, <1>4, IdleIsSlot, Zenon
<1>7. CASE s.next[q[n]] = WILD
  <2>1. t = panic(s)
    BY <1>4, <1>5, <1>6, <1>7 DEF pm_deactivate, NULL, WILD, Slot
  <2>2. t \in State
    BY <2>1, ZenonT(40) DEF panic, State
  <2>3. /\ t.status = s.status /\ t.block = s.block /\ t.pid = s.pid
        /\ t.wait_proc = s.wait_proc /\ t.wait_for = s.wait_for /\ t.newpid = s.newpid
        /\ t.cur_proc = s.cur_proc /\ t.plist_head = s.plist_head
        /\ t.plist_tail = s.plist_tail /\ t.next = s.next
    BY <2>1 DEF panic, State
  <2> QED
    BY <1>4, <1>7, <2>2, <2>3, ListFrame, Zenon
<1>8. CASE s.next[q[n]] = NULL
  <2>1. t = [s EXCEPT !.next[s.plist_tail] = WILD]
    BY <1>4, <1>5, <1>6, <1>8 DEF pm_deactivate, NextOf
  <2>2. t.next = [s.next EXCEPT ![s.plist_tail] = WILD]
    BY <2>1 DEF State
  <2>3. t \in State
    BY <1>6, <2>1, WildType, ZenonT(40)
  <2>4. /\ t.status = s.status /\ t.block = s.block /\ t.pid = s.pid
        /\ t.wait_proc = s.wait_proc /\ t.wait_for = s.wait_for /\ t.newpid = s.newpid
        /\ t.cur_proc = s.cur_proc /\ t.plist_head = s.plist_head
        /\ t.plist_tail = s.plist_tail
    BY <2>1, ZenonT(40) DEF State
  <2>5. /\ t.next[q[n]] = WILD
        /\ \A i \in 1 .. n - 1 : t.next[q[i]] = s.next[q[i]]
    BY <1>1, <1>4, <1>6, <2>2, SMTT(30), ZenonT(20) DEF State, IsRunList
  <2>6. IsRunList(t, n, q)
    BY <1>1, <2>4, <2>5 DEF IsRunList
  <2>7. ListOn(t, Runnable(s))
    BY <1>1, <2>6, Zenon DEF ListOn
  <2> QED
    BY <1>4, <2>3, <2>4, <2>5, <2>7, Zenon
<1> QED
  BY <1>4, <1>7, <1>8, Zenon

(* elf32_exec of a program that cannot be mapped.                          *)
LEMMA FailInv ==
  ASSUME Counting, NEW s, IInv(s), ~s.panicked, NEW p, NEW v, Created(s, p, v)
  PROVE  /\ IInv(pm_destroy(v, p))
         /\ \A i \in Slot : Waiting(s, i) => Waiting(pm_destroy(v, p), i)
         /\ SameParked(pm_destroy(v, p), s)
<1> DEFINE d == pm_deactivate(v, p)
           f == [d EXCEPT !.status[p] = "PS_SLOT_FREE"]
<1>0. s \in State /\ TableInv(s)
  BY Zenon DEF IInv
<1>1. /\ p \in Slot /\ ~Live(s, p) /\ \A j \in Slot : ~Live(s, j) => p <= j
      /\ p # IdleSlot /\ p # s.cur_proc
  BY Zenon DEF Created
<1>2. /\ v \in State /\ ListOn(v, Runnable(v)) /\ CurInv(v) /\ ~v.panicked
      /\ p \notin Runnable(v) /\ p # v.cur_proc
  BY Zenon DEF Created
<1>3. /\ v.status[p] = "PS_BLOCKED" /\ v.block[p] = "BR_INIT"
      /\ v.pid[p] = s.newpid /\ v.wait_proc[p] = 0 /\ v.wait_for[p] = 0
      /\ \A i \in Ref : i # p => v.status[i] = s.status[i] /\ v.wait_proc[i] = s.wait_proc[i]
      /\ \A i \in Slot : i # p => v.block[i] = s.block[i] /\ v.pid[i] = s.pid[i]
                              /\ v.wait_for[i] = s.wait_for[i]
      /\ v.newpid = s.newpid + 1 /\ v.cur_proc = s.cur_proc
  BY Zenon DEF Created
<1>4. /\ d \in State /\ ListOn(d, Runnable(v))
      /\ d.status = v.status /\ d.block = v.block /\ d.pid = v.pid
      /\ d.wait_proc = v.wait_proc /\ d.wait_for = v.wait_for /\ d.newpid = v.newpid
      /\ d.cur_proc = v.cur_proc /\ d.plist_head = v.plist_head
      /\ d.next[d.plist_tail] = WILD
  BY <1>1, <1>2, DeactivateAbsent, ZenonT(40)
<1>5. TableInv(v) /\ \A i \in Slot : Waiting(v, i) <=> Waiting(s, i)
  <2>1. v.status[p] \in Status \ {"PS_SLOT_FREE"} /\ v.block[p] # "BR_WAIT_PROC"
    BY <1>3 DEF Status
  <2>2. v.panicked = s.panicked
    BY <1>0, <1>2, Zenon DEF State
  <2> QED
    BY <1>0, <1>1, <1>2, <1>3, <2>1, <2>2, NewTable, ZenonT(40)
<1>6. f \in State
  BY <1>1, <1>4, FreeType, Zenon
<1>7. f.status = [d.status EXCEPT ![p] = "PS_SLOT_FREE"]
  BY <1>4 DEF State
<1>8. /\ f.block = v.block /\ f.pid = v.pid /\ f.wait_proc = v.wait_proc
      /\ f.wait_for = v.wait_for /\ f.newpid = v.newpid /\ f.cur_proc = v.cur_proc
      /\ f.plist_head = v.plist_head /\ f.plist_tail = d.plist_tail /\ f.next = d.next
  <2> HIDE DEF d
  <2> QED
    BY <1>4, Zenon DEF State
<1>9. pm_destroy(v, p) = f
  <2>1. f.wait_proc[p] = 0 /\ f.wait_for[p] = 0
    BY <1>3, <1>8, Zenon
  <2> QED
    BY <2>1 DEF pm_destroy
<1> HIDE DEF f, d
<1>10. /\ f.status[p] = "PS_SLOT_FREE" /\ \A i \in Ref : i # p => f.status[i] = v.status[i]
       /\ Slot \subseteq Ref /\ NULL \in Ref /\ NULL # p /\ IdleSlot \in Slot /\ IdleSlot # p
  BY <1>1, <1>2, <1>4, <1>7, IdleIsSlot, ZenonT(40) DEF State, Ref
<1>11. \A i \in Slot : Live(f, i) <=> Live(v, i) /\ i # p
  BY <1>10, Zenon DEF Live
<1>12. ~Waiting(v, p) /\ \A i \in Slot : Waiting(f, i) <=> Waiting(v, i)
  BY <1>3, <1>8, <1>10, Zenon DEF Waiting
<1>13. Runnable(f) = Runnable(v)
  <2>1. ASSUME NEW i \in Slot PROVE i \in Runnable(f) <=> i \in Runnable(v)
    BY <1>3, <1>10, Zenon DEF Runnable
  <2>2. Runnable(f) \subseteq Slot /\ Runnable(v) \subseteq Slot
    BY <1>10 DEF Runnable
  <2> QED
    BY <2>1, <2>2, Zenon
<1>14. ListOn(f, Runnable(f))
  <2>1. f.plist_head = d.plist_head
    BY <1>4, <1>8, Zenon
  <2> QED
    BY <1>4, <1>8, <1>13, <2>1, ListFrame, Zenon
<1>15. CurInv(f)
  <2>1. v.cur_proc \in Slot
    BY <1>2 DEF State
  <2> QED
    BY <1>2, <1>8, <1>10, <2>1, Zenon DEF CurInv
<1>16. NullInv(f) /\ IdleInv(f)
  BY <1>5, <1>8, <1>10, <1>11, Zenon DEF TableInv, NullInv, IdleInv
<1>17. PidInv(f)
  BY <1>5, <1>8, <1>11, Zenon DEF TableInv, PidInv
<1>18. WaitInv(f)
  <2>1. ASSUME NEW i \in Slot, Waiting(f, i)
        PROVE  \E q \in Slot : Live(f, q) /\ f.pid[q] = f.wait_for[i] /\ f.wait_proc[q] = f.pid[i]
    <3>1. Waiting(v, i) /\ v.pid[i] # 0
      BY <1>2, <1>5, <1>12, <2>1, WaitingFacts, Zenon
    <3>2. PICK q \in Slot : Live(v, q) /\ v.pid[q] = v.wait_for[i] /\ v.wait_proc[q] = v.pid[i]
      BY <1>5, <3>1, Zenon DEF TableInv, WaitInv
    <3>3. q # p
      BY <1>3, <3>1, <3>2, ZenonT(40)
    <3> QED
      BY <1>8, <1>11, <3>2, <3>3, Zenon
  <2>2. ASSUME NEW q \in Slot, Live(f, q), f.wait_proc[q] # 0
        PROVE  \E i \in Slot : Waiting(f, i) /\ f.pid[i] = f.wait_proc[q] /\ f.wait_for[i] = f.pid[q]
    BY <1>5, <1>8, <1>11, <1>12, <2>2 DEF TableInv, WaitInv
  <2> QED
    BY <2>1, <2>2, Zenon DEF WaitInv
<1>19. PanicInv(f)
  BY <1>4, <1>8, Zenon DEF PanicInv, PanicCause
<1>20. SameParked(f, s)
  <2>1. \A i \in Slot : i # p => f.status[i] = s.status[i] /\ f.block[i] = s.block[i]
    BY <1>3, <1>8, <1>10
  <2> QED
    BY <1>1, <1>10, <2>1, ZenonT(40) DEF SameParked, Parked, Live
<1> QED
  BY <1>5, <1>6, <1>9, <1>12, <1>14, <1>15, <1>16, <1>17, <1>18, <1>19, <1>20, Zenon DEF IInv, TableInv

(* pm_fork enters it ready and activates it, which comes to the same.      *)
LEMMA ForkIsEnter ==
  ASSUME NEW s \in State, NEW p \in Slot, s.newpid < PidLimit
  PROVE  pm_activate(NewProc(s, p, "PS_READY"), p) = pm_unblock(NewProc(s, p, "PS_BLOCKED"), p)
<1> DEFINE v == NewProc(s, p, "PS_BLOCKED")
           w == NewProc(s, p, "PS_READY")
           u == [v EXCEPT !.status[p] = "PS_READY", !.block[p] = "BR_NOT_BLOCKED"]
<1>1. v \in State /\ w \in State
  <2>1. s.newpid \in Nat /\ s.newpid + 1 \in Pids
    BY ConstantsAssumption DEF State, Pids
  <2>2. PROC_START_TICKS \in 0 .. PROC_MAX_TICKS
    BY ConstantsAssumption
  <2> QED
    BY <2>1, <2>2, NewProcType, Zenon
<1>2. /\ v.status = [s.status EXCEPT ![p] = "PS_BLOCKED"]
      /\ w.status = [s.status EXCEPT ![p] = "PS_READY"]
  BY DEF NewProc, State
<1>3. /\ v.block = [s.block EXCEPT ![p] = "BR_INIT"]
      /\ w.block = [s.block EXCEPT ![p] = "BR_NOT_BLOCKED"]
  BY Zenon DEF NewProc, State
<1>4. /\ v.pid = w.pid /\ v.wait_proc = w.wait_proc /\ v.wait_for = w.wait_for
      /\ v.exit_status = w.exit_status /\ v.ticks_left = w.ticks_left /\ v.eax = w.eax
      /\ v.next = w.next /\ v.plist_head = w.plist_head /\ v.plist_tail = w.plist_tail
      /\ v.cur_proc = w.cur_proc /\ v.newpid = w.newpid /\ v.panicked = w.panicked
  <2>1. v.pid = [s.pid EXCEPT ![p] = s.newpid] /\ w.pid = [s.pid EXCEPT ![p] = s.newpid]
    BY Zenon DEF NewProc, State
  <2>2. v.wait_proc = [s.wait_proc EXCEPT ![p] = 0] /\ w.wait_proc = [s.wait_proc EXCEPT ![p] = 0]
    BY Zenon DEF NewProc, State
  <2>3. v.wait_for = [s.wait_for EXCEPT ![p] = 0] /\ w.wait_for = [s.wait_for EXCEPT ![p] = 0]
    BY Zenon DEF NewProc, State
  <2>4. v.exit_status = [s.exit_status EXCEPT ![p] = NO_STATUS] /\ w.exit_status = [s.exit_status EXCEPT ![p] = NO_STATUS]
    BY Zenon DEF NewProc, State
  <2>5. v.ticks_left = [s.ticks_left EXCEPT ![p] = PROC_START_TICKS] /\ w.ticks_left = [s.ticks_left EXCEPT ![p] = PROC_START_TICKS]
    BY Zenon DEF NewProc, State
  <2>6. v.eax = [s.eax EXCEPT ![p] = 0] /\ w.eax = [s.eax EXCEPT ![p] = 0]
    BY DEF NewProc, State
  <2>7. v.next = s.next /\ w.next = s.next
    BY DEF NewProc, State
  <2>8. v.plist_head = s.plist_head /\ w.plist_head = s.plist_head
    BY DEF NewProc, State
  <2>9. v.plist_tail = s.plist_tail /\ w.plist_tail = s.plist_tail
    BY DEF NewProc, State
  <2>10. v.cur_proc = s.cur_proc /\ w.cur_proc = s.cur_proc
    BY DEF NewProc, State
  <2>11. v.newpid = s.newpid + 1 /\ w.newpid = s.newpid + 1
    BY ZenonT(40) DEF NewProc, State
  <2>12. v.panicked = s.panicked /\ w.panicked = s.panicked
    BY DEF NewProc, State
  <2> HIDE DEF v, w
  <2> QED
    BY <2>1, <2>2, <2>3, <2>4, <2>5, <2>6, <2>7, <2>8, <2>9, <2>10, <2>11, <2>12, ZenonT(40)
<1>8. pm_unblock(v, p) = pm_activate(u, p)
  BY DEF pm_unblock
<1> HIDE DEF v, w
<1>9. u \in State
  BY <1>1, Zenon DEF State, Status, BlockReason
<1>10. u.status = [v.status EXCEPT ![p] = "PS_READY"] /\ u.block = [v.block EXCEPT ![p] = "BR_NOT_BLOCKED"]
  BY <1>1, Zenon DEF State
<1>11. /\ u.pid = v.pid /\ u.wait_proc = v.wait_proc /\ u.wait_for = v.wait_for
       /\ u.exit_status = v.exit_status /\ u.ticks_left = v.ticks_left /\ u.eax = v.eax
       /\ u.next = v.next /\ u.plist_head = v.plist_head /\ u.plist_tail = v.plist_tail
       /\ u.cur_proc = v.cur_proc /\ u.newpid = v.newpid /\ u.panicked = v.panicked
  BY <1>1, Zenon DEF State
<1> HIDE DEF u
<1>12. u.status = w.status /\ u.block = w.block
  BY <1>2, <1>3, <1>10 DEF State
<1>13. u = w
  BY <1>1, <1>4, <1>9, <1>11, <1>12, StateEta
<1> QED
  BY <1>8, <1>13, Zenon DEF v, w

(* Halting keeps the invariant, once every slot is taken.                  *)
LEMMA PanicStep ==
  ASSUME NEW s, IInv(s), \A i \in Slot : Live(s, i)
  PROVE  /\ IInv(panic(s))
         /\ \A i \in Slot : Waiting(panic(s), i) <=> Waiting(s, i)
         /\ SameParked(panic(s), s)
<1> DEFINE t == panic(s)
<1>0. s \in State
  BY DEF IInv
<1>1. t \in State
  BY <1>0, Zenon DEF panic, State
<1>2. /\ t.next = s.next /\ t.plist_head = s.plist_head /\ t.plist_tail = s.plist_tail
      /\ t.cur_proc = s.cur_proc /\ t.status = s.status /\ t.pid = s.pid /\ t.block = s.block
      /\ t.wait_proc = s.wait_proc /\ t.wait_for = s.wait_for /\ t.newpid = s.newpid
  BY <1>0, Zenon DEF panic, State
<1> HIDE DEF t
<1>3. IInv(t) /\ \A i \in Slot : Waiting(t, i) <=> Waiting(s, i)
  BY <1>1, <1>2, FieldFrame, Zenon DEF PanicCause
<1>4. SameParked(t, s)
  BY <1>2, ZenonT(40) DEF SameParked, Parked
<1> QED
  BY <1>3, <1>4 DEF t

(* sys_waitpid that blocks: me waits for other from now on, and for nobody *)
(* else does the table change.                                             *)
LEMMA WaitTable ==
  ASSUME NEW s \in State, TableInv(s), ~s.panicked,
         NEW me \in Slot, NEW other \in Slot, Live(s, me), Live(s, other), me # IdleSlot,
         ~Waiting(s, me), s.wait_proc[other] = 0,
         NEW t \in State, ~t.panicked, t.pid = s.pid, t.newpid = s.newpid,
         \A i \in Slot : Live(t, i) <=> Live(s, i),
         \A i \in Slot : Waiting(t, i) <=> Waiting(s, i) \/ i = me,
         t.status[NULL] = s.status[NULL],
         t.block[IdleSlot] = s.block[IdleSlot],
         t.wait_proc[other] = s.pid[me], t.wait_for[me] = s.pid[other],
         \A i \in Ref : i # other => t.wait_proc[i] = s.wait_proc[i],
         \A i \in Slot : i # me => t.wait_for[i] = s.wait_for[i]
  PROVE  TableInv(t)
<1>1. NULL \in Ref /\ NULL # other /\ Slot \subseteq Ref
  BY IdleIsSlot, Zenon DEF Ref
<1>2. NullInv(t)
  BY <1>1, Zenon DEF TableInv, NullInv
<1>3. PidInv(t)
  BY ZenonT(40) DEF TableInv, PidInv
<1>4. IdleInv(t)
  BY IdleIsSlot, Zenon DEF TableInv, IdleInv
<1>5. ASSUME NEW i \in Slot, Waiting(t, i)
      PROVE  \E q \in Slot : Live(t, q) /\ t.pid[q] = t.wait_for[i] /\ t.wait_proc[q] = t.pid[i]
  <2>1. CASE i = me
    BY <2>1, Zenon
  <2>2. CASE i # me
    <3>1. Waiting(s, i) /\ s.pid[i] # 0
      BY <1>5, <2>2, WaitingFacts, Zenon
    <3>2. PICK q \in Slot : Live(s, q) /\ s.pid[q] = s.wait_for[i] /\ s.wait_proc[q] = s.pid[i]
      BY <3>1, Zenon DEF TableInv, WaitInv
    <3>3. q # other
      BY <3>1, <3>2, Zenon
    <3> QED
      BY <1>1, <2>2, <3>2, <3>3, Zenon
  <2> QED
    BY <2>1, <2>2, Zenon
<1>6. ASSUME NEW q \in Slot, Live(t, q), t.wait_proc[q] # 0
      PROVE  \E i \in Slot : Waiting(t, i) /\ t.pid[i] = t.wait_proc[q] /\ t.wait_for[i] = t.pid[q]
  <2>1. CASE q = other
    BY <2>1, Zenon
  <2>2. CASE q # other
    <3>1. PICK i \in Slot : Waiting(s, i) /\ s.pid[i] = s.wait_proc[q] /\ s.wait_for[i] = s.pid[q]
      BY <1>1, <1>6, <2>2, ZenonT(40) DEF TableInv, WaitInv
    <3>2. i # me
      BY <3>1, Zenon
    <3> QED
      BY <1>1, <2>2, <3>1, <3>2, Zenon
  <2> QED
    BY <2>1, <2>2, Zenon
<1>7. WaitInv(t)
  BY <1>5, <1>6, Zenon DEF WaitInv
<1> QED
  BY <1>2, <1>3, <1>4, <1>7 DEF TableInv

(* sys_waitpid keeps the invariant, whether it blocks or returns -1.       *)
LEMMA WaitpidInv ==
  ASSUME Counting, NEW s, IInv(s), ~s.panicked, s.cur_proc # IdleSlot, NEW pid \in Nat
  PROVE  /\ IInv(sys_waitpid(s, pid))
         /\ \A i \in Slot : Waiting(s, i) => Waiting(sys_waitpid(s, pid), i)
         /\ SameParked(sys_waitpid(s, pid), s)
<1> DEFINE other == pm_get_proc(s, pid)
           me == s.cur_proc
           a == [s EXCEPT !.wait_proc[other] = s.pid[me], !.wait_for[me] = pid]
           v == [a EXCEPT !.status[me] = "PS_BLOCKED", !.block[me] = "BR_WAIT_PROC"]
           d == pm_deactivate(v, me)
<1>0. s \in State /\ TableInv(s) /\ CurInv(s) /\ me \in Slot
  BY Zenon DEF IInv, State
<1>1. s.status[me] = "PS_RUNNING" /\ Live(s, me) /\ ~Waiting(s, me)
  BY <1>0, Zenon DEF CurInv, Live, Waiting
<1>2. CASE s.status[other] = "PS_SLOT_FREE" \/ s.wait_proc[other] # 0
  <2>1. sys_waitpid(s, pid) = sc_late_result(s, me, NO_STATUS)
    BY <1>2 DEF sys_waitpid
  <2>2. /\ IInv(sc_late_result(s, me, NO_STATUS))
        /\ sc_late_result(s, me, NO_STATUS).status = s.status
        /\ sc_late_result(s, me, NO_STATUS).block = s.block
    BY <1>0, ResultInv, Zenon
  <2> QED
    BY <2>1, <2>2 DEF Waiting, SameParked, Parked
<1>3. CASE ~(s.status[other] = "PS_SLOT_FREE" \/ s.wait_proc[other] # 0)
  <2>1. other \in Slot /\ s.pid[other] = pid /\ Live(s, other) /\ s.wait_proc[other] = 0
    <3>1. s.wait_proc[NULL] # 0
      BY <1>0 DEF TableInv, NullInv, WILD
    <3> QED
      BY <1>0, <1>3, <3>1, LookupResult, Zenon DEF Live
  <2>2. a \in State
    <3> HIDE DEF other
    <3> QED
      BY <1>0, <2>1, ZenonT(40) DEF State
  <2>3. a.wait_proc = [s.wait_proc EXCEPT ![other] = s.pid[me]] /\ a.wait_for = [s.wait_for EXCEPT ![me] = pid]
    BY <1>0, Zenon DEF State
  <2>4. /\ a.next = s.next /\ a.plist_head = s.plist_head /\ a.plist_tail = s.plist_tail
        /\ a.cur_proc = s.cur_proc /\ a.status = s.status /\ a.pid = s.pid
        /\ a.block = s.block /\ a.newpid = s.newpid /\ a.panicked = s.panicked
    BY <1>0, Zenon DEF State
  <2>5. sys_waitpid(s, pid) = sc_late_result(d, me, 0)
    <3>1. sys_waitpid(s, pid) = sc_late_result(pm_block(a, me, "BR_WAIT_PROC"), me, 0)
      BY <1>3 DEF sys_waitpid
    <3>2. a.status[me] # "PS_BLOCKED"
      BY <1>1, <2>4
    <3> HIDE DEF a
    <3>3. pm_block(a, me, "BR_WAIT_PROC") = d
      BY <3>2 DEF pm_block
    <3> QED
      BY <3>1, <3>3
  <2> HIDE DEF a, other
  <2>6. v \in State
    BY <1>0, <2>2, Zenon DEF State, Status, BlockReason
  <2>7. v.status = [s.status EXCEPT ![me] = "PS_BLOCKED"] /\ v.block = [s.block EXCEPT ![me] = "BR_WAIT_PROC"]
    BY <2>2, <2>4, Zenon DEF State
  <2>8. /\ v.next = s.next /\ v.plist_head = s.plist_head /\ v.plist_tail = s.plist_tail
        /\ v.cur_proc = s.cur_proc /\ v.pid = s.pid /\ v.newpid = s.newpid
        /\ v.panicked = s.panicked /\ v.wait_proc = a.wait_proc /\ v.wait_for = a.wait_for
    BY <2>2, <2>4 DEF State
  <2> HIDE DEF v
  <2>9. /\ v.status[me] = "PS_BLOCKED" /\ v.block[me] = "BR_WAIT_PROC"
        /\ \A i \in Ref : i # me => v.status[i] = s.status[i]
        /\ \A i \in Slot : i # me => v.block[i] = s.block[i]
    BY <1>0, <2>7, ZenonT(40) DEF State, Ref
  <2> DEFINE c == d.cur_proc
  <2>10. /\ d \in State
         /\ ListOn(d, Runnable(s) \ {me})
         /\ c = d.plist_head
         /\ c \in Runnable(s) \ {me}
         /\ d.status[me] = "PS_BLOCKED"
         /\ \A i \in Ref : i # me => d.status[i] = IF i = c THEN "PS_RUNNING" ELSE s.status[i]
         /\ SameTable(d, v)
    <3>1. /\ d \in State
          /\ ListOn(d, Runnable(s) \ {me})
          /\ c = d.plist_head
          /\ c \in Runnable(s) \ {me}
          /\ d.status[me] = IF v.status[me] = "PS_RUNNING" THEN "PS_READY" ELSE v.status[me]
          /\ \A i \in Ref : i # me => d.status[i] = IF i = c THEN "PS_RUNNING" ELSE s.status[i]
          /\ SameTable(d, v)
      <4>1. v \in State /\ me # IdleSlot
        BY <2>6, Zenon
      <4>2. /\ v.next = s.next /\ v.plist_head = s.plist_head
            /\ v.plist_tail = s.plist_tail /\ v.cur_proc = s.cur_proc
        BY <2>8, Zenon
      <4>3. \A i \in Ref : i # me => v.status[i] = s.status[i]
        BY <2>9, Zenon
      <4>4. me = s.cur_proc
        BY ZenonT(40)
      <4> HIDE DEF me, d, c
      <4>5. /\ pm_deactivate(v, me) \in State
            /\ ListOn(pm_deactivate(v, me), Runnable(s) \ {me})
            /\ pm_deactivate(v, me).cur_proc = pm_deactivate(v, me).plist_head
            /\ pm_deactivate(v, me).cur_proc \in Runnable(s) \ {me}
            /\ pm_deactivate(v, me).status[me] =
                  IF v.status[me] = "PS_RUNNING" THEN "PS_READY" ELSE v.status[me]
            /\ \A i \in Ref : i # me => pm_deactivate(v, me).status[i] =
                  IF i = pm_deactivate(v, me).cur_proc THEN "PS_RUNNING" ELSE s.status[i]
            /\ SameTable(pm_deactivate(v, me), v)
        BY <4>1, <4>2, <4>3, <4>4, LeaveInv, SMTT(30), ZenonT(20)
      <4> QED
        BY <4>5, Zenon DEF d, c
    <3> QED
      BY <2>9, <3>1, Zenon
  <2> HIDE DEF d
  <2>11. /\ d.pid = s.pid /\ d.newpid = s.newpid /\ ~d.panicked /\ d.block = v.block
         /\ d.wait_proc = [s.wait_proc EXCEPT ![other] = s.pid[me]]
         /\ d.wait_for = [s.wait_for EXCEPT ![me] = pid]
    BY <2>3, <2>8, <2>10 DEF SameTable
  <2>12. /\ c \in Slot /\ c # me /\ NULL \in Ref /\ NULL # me /\ NULL # c /\ Slot \subseteq Ref
         /\ Live(s, c) /\ ~Waiting(s, c)
    BY <1>0, <2>10, IdleIsSlot, Zenon DEF Runnable, Ref, Live, Waiting, TableInv, IdleInv
  <2> HIDE DEF c
  <2>13. \A i \in Slot : Live(d, i) <=> Live(s, i)
    BY <1>1, <2>10, <2>12, Zenon DEF Live
  <2>14. \A i \in Slot : Waiting(d, i) <=> Waiting(s, i) \/ i = me
    BY <2>9, <2>10, <2>11, <2>12, ZenonT(40) DEF Waiting
  <2>15. /\ d.wait_proc[other] = s.pid[me] /\ d.wait_for[me] = s.pid[other]
         /\ \A i \in Ref : i # other => d.wait_proc[i] = s.wait_proc[i]
         /\ \A i \in Slot : i # me => d.wait_for[i] = s.wait_for[i]
    BY <1>0, <2>1, <2>11, ZenonT(40) DEF State, Ref
  <2>16. d.status[NULL] = s.status[NULL] /\ d.block[IdleSlot] = s.block[IdleSlot]
    BY <2>9, <2>10, <2>11, <2>12, IdleIsSlot, ZenonT(40)
  <2>17. TableInv(d)
    <3>1. d \in State /\ ~d.panicked /\ d.pid = s.pid /\ d.newpid = s.newpid
      BY <2>10, <2>11
    <3> HIDE DEF me
    <3> QED
      BY <1>0, <1>1, <2>1, <2>13, <2>14, <2>15, <2>16, <3>1, WaitTable, ZenonT(40) DEF me
  <2>18. Runnable(d) = Runnable(s) \ {me}
    <3>1. ASSUME NEW i \in Slot PROVE i \in Runnable(d) <=> i \in Runnable(s) \ {me}
      BY <2>10, <2>12 DEF Runnable
    <3>2. Runnable(d) \subseteq Slot /\ Runnable(s) \subseteq Slot
      BY IdleIsSlot, Zenon DEF Runnable
    <3> QED
      BY <3>1, <3>2, ZenonT(40)
  <2>19. CurInv(d)
    BY <1>0, <2>10, <2>12, ZenonT(40) DEF CurInv, c
  <2>20. IInv(d)
    BY <2>10, <2>11, <2>17, <2>18, <2>19 DEF IInv, PanicInv
  <2>21. /\ IInv(sc_late_result(d, me, 0))
         /\ sc_late_result(d, me, 0).status = d.status
         /\ sc_late_result(d, me, 0).block = d.block
    BY <1>0, <2>20, ResultInv, Zenon
  <2>22. \A i \in Slot : Waiting(s, i) => Waiting(sc_late_result(d, me, 0), i)
    BY <2>14, <2>21, Zenon DEF Waiting
  <2>23. /\ \A r \in ServiceReason : ~Parked(s, c, r) /\ ~Parked(s, me, r)
         /\ "BR_WAIT_PROC" \notin ServiceReason
    BY <1>0, <1>1, <2>10, Zenon DEF Runnable, Parked, ServiceReason, TableInv, IdleInv, c
  <2>24. \A i \in Slot : \A r \in ServiceReason : Parked(d, i, r) <=> Parked(s, i, r)
    <3>1. \A i \in Slot : i # me => d.block[i] = s.block[i]
      BY <2>9, <2>11, Zenon
    <3>2. d.status[me] = "PS_BLOCKED" /\ d.block[me] = "BR_WAIT_PROC"
      BY <2>9, <2>10, <2>11, Zenon
    <3>3. d.status[c] = "PS_RUNNING"
      BY <2>10, <2>12, ZenonT(40)
    <3>4. \A i \in Slot : i # me /\ i # c => d.status[i] = s.status[i]
      BY <2>10, <2>12
    <3> HIDE DEF me
    <3> QED
      BY <2>23, <3>1, <3>2, <3>3, <3>4, ZenonT(40) DEF Parked
  <2>25. SameParked(sc_late_result(d, me, 0), s)
    BY <2>21, <2>24, ZenonT(40) DEF SameParked, Parked
  <2> QED
    BY <2>5, <2>21, <2>22, <2>25, Zenon
<1> QED
  BY <1>2, <1>3, Zenon
-----------------------------------------------------------------------------
(* The specification.                                                      *)

(* The state init_pm and kmain leave behind satisfies the invariant.       *)
LEMMA InitInv == Init => IInv(k)
<1> SUFFICES ASSUME Init PROVE IInv(k)
  BY ZenonT(40)
<1> USE ConstantsAssumption DEF Slot, Ref, NULL, WILD, IdleSlot
<1>1. k \in State
  <2> DEFINE pid == [i \in Slot |-> i]
             status == [i \in Ref |-> CASE i = 0 -> "PS_BLOCKED"
                                        [] i = 1 -> "PS_READY"
                                        [] i = NULL -> WildStatus
                                        [] OTHER -> "PS_SLOT_FREE"]
             block == [i \in Slot |-> IF i = 0 THEN "BR_INIT" ELSE "BR_NOT_BLOCKED"]
             wait_proc == [i \in Ref |-> IF i = NULL THEN WILD ELSE 0]
             zero == [i \in Slot |-> 0]
             exit == [i \in Slot |-> IF i \in {0, 1} THEN NO_STATUS ELSE 0]
             ticks == [i \in Slot |-> IF i \in {0, 1} THEN PROC_START_TICKS ELSE 0]
             next == [i \in Slot |-> IF i = 0 THEN 1 ELSE NULL]
  <2>1. pid \in [Slot -> Nat] /\ zero \in [Slot -> Nat] /\ block \in [Slot -> BlockReason]
    BY DEF BlockReason
  <2>2. status \in [Ref -> Status \cup {WildStatus}] /\ wait_proc \in [Ref -> Nat \cup {WILD}]
    BY Zenon DEF Status
  <2>3. next \in [Slot -> Ref \cup {WILD}]
    OBVIOUS
  <2>4. /\ exit \in [Slot -> ExitStatus \cup {0, NO_STATUS}]
        /\ zero \in [Slot -> ExitStatus \cup {0, NO_STATUS}]
        /\ ticks \in [Slot -> 0 .. PROC_MAX_TICKS]
    OBVIOUS
  <2>5. 0 \in Slot /\ 0 \in Ref /\ 1 \in Ref /\ 2 \in Pids
    BY DEF Pids
  <2>6. k = [pid |-> pid, status |-> status, block |-> block, wait_proc |-> wait_proc,
             wait_for |-> zero, exit_status |-> exit, ticks_left |-> ticks, eax |-> zero,
             next |-> next, plist_head |-> 0, plist_tail |-> 1, cur_proc |-> 0,
             newpid |-> 2, panicked |-> FALSE]
    BY DEF Init
  <2> HIDE DEF pid, status, block, wait_proc, zero, exit, ticks, next, Init
  <2> HIDE DEF Slot, Ref, WILD
  <2> QED
    BY <2>1, <2>2, <2>3, <2>4, <2>5, <2>6, ZenonT(40) DEF State
<1>2. /\ k.status[0] = "PS_BLOCKED" /\ k.status[1] = "PS_READY" /\ k.status[NULL] = WildStatus
      /\ \A i \in Slot : i # 0 /\ i # 1 => k.status[i] = "PS_SLOT_FREE"
  BY DEF Init
<1>3. k.next[0] = 1 /\ k.next[1] = NULL /\ k.plist_head = 0 /\ k.plist_tail = 1 /\ k.cur_proc = 0
  BY DEF Init
<1>4. /\ \A i \in Slot : k.pid[i] = i /\ k.wait_proc[i] = 0
      /\ k.wait_proc[NULL] = WILD /\ k.newpid = 2 /\ ~k.panicked /\ k.block[0] = "BR_INIT"
      /\ k.block[1] = "BR_NOT_BLOCKED"
  BY DEF Init
<1>5. ListOn(k, Runnable(k))
  <2> DEFINE q == [i \in 1 .. 2 |-> i - 1]
  <2>1. q \in [1 .. 2 -> Slot] /\ q[1] = 0 /\ q[2] = 1
    OBVIOUS
  <2>2. \A i \in 1 .. 2 : i = 1 \/ i = 2
    OBVIOUS
  <2>3. Runnable(k) = {0, 1}
    BY <1>2 DEF Runnable
  <2> HIDE DEF q
  <2>4. IsRunList(k, 2, q)
    BY <1>3, <2>1, <2>2 DEF IsRunList
  <2>5. \A p \in Slot : p \in Runnable(k) <=> Among(2, q, p)
    BY <2>1, <2>2, <2>3 DEF Among
  <2> HIDE ConstantsAssumption DEF Slot, Ref, NULL, WILD, IdleSlot
  <2>6. \E r \in [1 .. 2 -> Slot] :
          IsRunList(k, 2, r) /\ \A p \in Slot : p \in Runnable(k) <=> Among(2, r, p)
    BY <2>1, <2>4, <2>5
  <2>7. 2 \in Nat \ {0}
    OBVIOUS
  <2> QED
    BY <2>6, <2>7, Zenon DEF ListOn
<1>6. CurInv(k)
  BY <1>2, <1>3, Zenon DEF CurInv
<1>7. \A i \in Slot : (Live(k, i) => i = 0 \/ i = 1) /\ ~Waiting(k, i)
  BY <1>2, <1>4, Zenon DEF Live, Waiting
<1>8. NullInv(k) /\ IdleInv(k)
  BY <1>2, <1>4 DEF NullInv, IdleInv, Live
<1>9. PidInv(k)
  BY <1>4, <1>7 DEF PidInv
<1>10. WaitInv(k)
  BY <1>4, <1>7, Zenon DEF WaitInv
<1>11. PanicInv(k)
  BY <1>4 DEF PanicInv
<1> QED
  BY <1>1, <1>5, <1>6, <1>8, <1>9, <1>10, <1>11, Zenon DEF IInv, TableInv

(* A process that stops waiting does so because the one it waited for was  *)
(* destroyed, and with its exit status.                                    *)
Woken(s, t) ==
  \A p \in Slot : Waiting(s, p) /\ ~Waiting(t, p) =>
    \E q \in Slot : /\ Live(s, q) /\ ~Live(t, q)
                    /\ s.pid[q] = s.wait_for[p]
                    /\ t.eax[p] = t.exit_status[q]

(* sys_exit keeps the invariant: destroying the caller, then scheduling    *)
(* once more.                                                              *)
LEMMA ExitInv ==
  ASSUME Counting, NEW s, IInv(s), ~s.panicked, s.cur_proc # IdleSlot, NEW x \in ExitStatus
  PROVE  IInv(sys_exit(s, x)) /\ Woken(s, sys_exit(s, x)) /\ SameParked(sys_exit(s, x), s)
<1> DEFINE p == s.cur_proc
           v == [s EXCEPT !.exit_status[p] = x]
           d == pm_destroy(v, p)
           t == pm_schedule(d)
<1>0. s \in State /\ p \in Slot /\ Live(s, p)
  BY DEF IInv, State, CurInv, Live
<1>1. v \in State
  BY <1>0, Zenon DEF State
<1>2. /\ v.next = s.next /\ v.plist_head = s.plist_head /\ v.plist_tail = s.plist_tail
      /\ v.cur_proc = s.cur_proc /\ v.status = s.status /\ v.pid = s.pid /\ v.block = s.block
      /\ v.wait_proc = s.wait_proc /\ v.wait_for = s.wait_for /\ v.newpid = s.newpid
      /\ v.panicked = s.panicked
  BY <1>0 DEF State
<1>3. t = sys_exit(s, x)
  BY Zenon DEF sys_exit
<1> HIDE DEF v
<1>4. IInv(v) /\ \A i \in Slot : (Live(v, i) <=> Live(s, i)) /\ (Waiting(v, i) <=> Waiting(s, i))
  BY <1>1, <1>2, FieldFrame, ZenonT(40)
<1>5. /\ IInv(d) /\ ~Live(d, p) /\ ~d.panicked /\ SameParked(d, v)
      /\ \A w \in Slot : Waiting(v, w) /\ ~Waiting(d, w) =>
           v.wait_for[w] = v.pid[p] /\ d.eax[w] = d.exit_status[p]
  BY <1>2, <1>4, DestroyInv
<1> HIDE DEF d
<1>6. /\ IInv(t)
      /\ SameTable(t, d)
      /\ \A i \in Slot : Live(t, i) <=> Live(d, i)
      /\ \A i \in Slot : Waiting(t, i) <=> Waiting(d, i)
      /\ SameParked(t, d)
  BY <1>5, ScheduleInv, ZenonT(40)
<1> HIDE DEF t
<1>7. Woken(s, t)
  BY <1>0, <1>2, <1>4, <1>5, <1>6 DEF Woken, SameTable
<1>8. SameParked(v, s)
  BY <1>2 DEF SameParked, Parked
<1>9. SameParked(t, s)
  BY <1>5, <1>6, <1>8, Zenon DEF SameParked
<1> QED
  BY <1>3, <1>6, <1>7, <1>9, Zenon

(* Every step keeps the invariant: one case per action.                    *)
LEMMA StepInv ==
  ASSUME Counting, IInv(k), [Next]_vars
  PROVE  IInv(k') /\ Woken(k, k') /\ SameParked(k', k)
<1>0. k \in State /\ k.cur_proc \in Slot /\ CurInv(k)
  BY Zenon DEF IInv, State
<1>1. CASE Tick
  <2>1. PICK koop_mode \in BOOLEAN : k' = pm_update(k, koop_mode)
    BY <1>1, Zenon DEF Tick
  <2>2. k.status[k.cur_proc] # "PS_READY"
    BY <1>0 DEF CurInv
  <2>3. pm_update(k, koop_mode) = pm_schedule(k)
    BY <2>2 DEF pm_update
  <2>4. ~k.panicked
    BY <1>1, ZenonT(40) DEF Tick
  <2> QED
    BY <2>1, <2>3, <2>4, ScheduleInv, Zenon DEF Woken
<1>2. CASE Yield
  <2> DEFINE t == pm_schedule(k)
  <2>1. ~k.panicked /\ k' = sc_late_result(t, k.cur_proc, 0)
    BY <1>2, Zenon DEF Yield, CallingUser, Calling, sys_yield
  <2>2. IInv(t) /\ SameParked(t, k) /\ \A i \in Slot : Waiting(t, i) <=> Waiting(k, i)
    BY <2>1, ScheduleInv, Zenon
  <2> HIDE DEF t
  <2>3. IInv(k') /\ k'.status = t.status /\ k'.block = t.block
    BY <1>0, <2>1, <2>2, ResultInv, Zenon
  <2> QED
    BY <2>2, <2>3 DEF Woken, Waiting, SameParked, Parked
<1>3. CASE Exit
  <2>1. PICK x \in ExitStatus : k' = sys_exit(k, x)
    BY <1>3 DEF Exit
  <2>2. ~k.panicked /\ k.cur_proc # IdleSlot
    BY <1>3, Zenon DEF Exit, Calling
  <2> QED
    BY <2>1, <2>2, ExitInv, Zenon
<1>4. CASE Waitpid
  <2>1. PICK pid \in Pids : k' = sys_waitpid(k, pid)
    BY <1>4, Zenon DEF Waitpid
  <2>2. ~k.panicked /\ k.cur_proc # IdleSlot /\ pid \in Nat
    BY <1>4 DEF Waitpid, Calling, Pids
  <2> QED
    BY <2>1, <2>2, WaitpidInv, Zenon DEF Woken
<1>5. CASE Fork
  <2> DEFINE p == get_empty_proc(k)
             e == pm_unblock(NewProc(k, p, "PS_BLOCKED"), p)
  <2>1. ~k.panicked /\ k.newpid < PidLimit /\ k' = sys_fork(k)
    BY <1>5, Zenon DEF Fork, CallingUser, Calling
  <2>2. CASE p = NULL
    <3>1. k' = sc_late_result(k, k.cur_proc, NO_STATUS)
      BY <2>1, <2>2, Zenon DEF sys_fork
    <3>2. IInv(k') /\ k'.status = k.status /\ k'.block = k.block
      BY <1>0, <3>1, ResultInv, ZenonT(40)
    <3> QED
      BY <3>2, Zenon DEF Woken, Waiting, SameParked, Parked
  <2>3. CASE p # NULL
    <3>0. Created(k, p, NewProc(k, p, "PS_BLOCKED"))
      BY <2>1, <2>3, CreateInv, Zenon
    <3>1. k' = sc_late_result(pm_activate(NewProc(k, p, "PS_READY"), p), k.cur_proc, 0)
      BY <2>1, <2>3, Zenon DEF sys_fork
    <3>2. p \in Slot
      BY <1>0, <2>3, EmptyResult, Zenon
    <3>3. pm_activate(NewProc(k, p, "PS_READY"), p) = e
      <4> HIDE DEF p
      <4> QED
        BY <1>0, <2>1, <3>2, ForkIsEnter, Zenon
    <3>4. k' = sc_late_result(e, k.cur_proc, 0)
      BY <3>1, <3>3
    <3>5. IInv(e) /\ SameParked(e, k) /\ \A i \in Slot : Waiting(k, i) => Waiting(e, i)
      BY <2>1, <3>0, EnterInv, Zenon
    <3> HIDE DEF e
    <3>6. IInv(k') /\ k'.status = e.status /\ k'.block = e.block
      BY <1>0, <3>4, <3>5, ResultInv, Zenon
    <3> QED
      BY <3>5, <3>6 DEF Woken, Waiting, SameParked, Parked
  <2> QED
    BY <2>2, <2>3, Zenon
<1>6. CASE Execute
  <2> DEFINE p == get_empty_proc(k)
             v == NewProc(k, p, "PS_BLOCKED")
  <2>1. PICK mapped \in BOOLEAN : ~k.panicked /\ k.newpid < PidLimit /\ k' = elf32_exec(k, mapped)
    BY <1>6, Zenon DEF Execute, Calling
  <2>2. CASE p = NULL
    <3>1. k' = panic(k)
      BY <2>1, <2>2, Zenon DEF elf32_exec, pm_create
    <3>2. \A i \in Slot : Live(k, i)
      BY <1>0, <2>2, EmptyResult, IdleIsSlot
    <3>3. IInv(panic(k)) /\ SameParked(panic(k), k) /\ \A i \in Slot : Waiting(panic(k), i) <=> Waiting(k, i)
      BY <3>2, PanicStep, Zenon
    <3> QED
      BY <3>1, <3>3, Zenon DEF Woken
  <2>3. CASE p # NULL
    <3> DEFINE e == IF mapped THEN pm_unblock(v, p) ELSE pm_destroy(v, p)
    <3>0. Created(k, p, v)
      BY <2>1, <2>3, CreateInv, Zenon
    <3>1. k' = sc_late_result(e, k.cur_proc, 0)
      BY <2>1, <2>3, ZenonT(40) DEF elf32_exec, pm_create
    <3>2. /\ IInv(pm_unblock(v, p)) /\ SameParked(pm_unblock(v, p), k)
          /\ \A i \in Slot : Waiting(k, i) => Waiting(pm_unblock(v, p), i)
      BY <2>1, <3>0, EnterInv, Zenon
    <3>3. /\ IInv(pm_destroy(v, p)) /\ SameParked(pm_destroy(v, p), k)
          /\ \A i \in Slot : Waiting(k, i) => Waiting(pm_destroy(v, p), i)
      BY <2>1, <3>0, FailInv, Zenon
    <3>4. IInv(e) /\ SameParked(e, k) /\ \A i \in Slot : Waiting(k, i) => Waiting(e, i)
      BY <3>2, <3>3, Zenon
    <3> HIDE DEF e
    <3>5. IInv(k') /\ k'.status = e.status /\ k'.block = e.block
      BY <1>0, <3>1, <3>4, ResultInv, ZenonT(40)
    <3> QED
      BY <3>4, <3>5 DEF Woken, Waiting, SameParked, Parked
  <2> QED
    BY <2>2, <2>3, Zenon
<1>7. CASE Abort
  <2> DEFINE p == k.cur_proc
             d == pm_destroy(k, p)
  <2>1. ~k.panicked /\ p # IdleSlot /\ k' = d
    BY <1>7, ZenonT(40) DEF Abort, CallingUser, Calling
  <2>2. /\ IInv(d) /\ ~Live(d, p) /\ SameParked(d, k)
        /\ \A w \in Slot : Waiting(k, w) /\ ~Waiting(d, w) =>
             k.wait_for[w] = k.pid[p] /\ d.eax[w] = d.exit_status[p]
    BY <2>1, DestroyInv
  <2>3. Live(k, p)
    BY <1>0, Zenon DEF CurInv, Live
  <2> HIDE DEF d
  <2> QED
    BY <1>0, <2>1, <2>2, <2>3 DEF Woken
<1>8. CASE NotExecuted
  <2>1. k' = sc_late_result(k, k.cur_proc, 0)
    BY <1>8, Zenon DEF NotExecuted
  <2>2. IInv(k') /\ k'.status = k.status /\ k'.block = k.block
    BY <1>0, <2>1, ResultInv, Zenon
  <2> QED
    BY <2>2 DEF Woken, Waiting, SameParked, Parked
<1>9. CASE Halted
  BY <1>9, Zenon DEF Halted, Woken, SameParked
<1>10. CASE UNCHANGED vars
  BY <1>10 DEF vars, Woken, SameParked
<1> QED
  BY <1>1, <1>2, <1>3, <1>4, <1>5, <1>6, <1>7, <1>8, <1>9, <1>10, ZenonT(40) DEF Next
=============================================================================
