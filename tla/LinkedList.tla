----------------------------- MODULE LinkedList -----------------------------
(***************************************************************************)
(* kernel/util/list.c: a list is a record of the list head and of the      *)
(* memory its entries are in.  An entry that is freed keeps its content    *)
(* until kmalloc hands its memory out again.  list_del_back, list_back and *)
(* list_add_after have no caller in the kernel.                            *)
(***************************************************************************)
EXTENDS Integers, Sequences, FiniteSets

CONSTANTS Entries,  \* bound: entries a list can have
          MaxSize   \* bound: what a list's size can have grown to

ASSUME ListAssumption == Entries \in Nat \ {0} /\ MaxSize \in Nat

Entry == 1 .. Entries
Null == 0

list_create ==
  [front |-> Null, back |-> Null, size |-> 0, used |-> {},
   data |-> [e \in Entry |-> Null], prev |-> [e \in Entry |-> Null], next |-> [e \in Entry |-> Null]]

list_empty(l) == l.front = Null

list_size(l) == IF list_empty(l) THEN 0 ELSE l.size

HasRoom(l) == l.used # Entry /\ l.size < MaxSize

(* The entry kmalloc returns: the first one that is free.                  *)
NewEntry(l) == CHOOSE e \in Entry \ l.used : \A x \in Entry \ l.used : e <= x

(* p->field = value, where the code has tested p; Null is no entry.        *)
Point(field, p, value) == [x \in Entry |-> IF x = p THEN value ELSE field[x]]

_list_create_entry(l, e, data) ==
  [l EXCEPT !.used = l.used \cup {e}, !.data = Point(l.data, e, data),
            !.prev = Point(l.prev, e, Null), !.next = Point(l.next, e, Null)]

_list_delete_entry(l, e) == [l EXCEPT !.used = l.used \ {e}]

AddFrontEntry(l, e) ==
  [l EXCEPT !.next = Point(l.next, e, l.front),
            !.prev = Point(l.prev, l.front, e),
            !.back = IF l.front = Null /\ l.back = Null THEN e ELSE l.back,
            !.front = e, !.size = l.size + 1]

list_add_front(l, data) == AddFrontEntry(_list_create_entry(l, NewEntry(l), data), NewEntry(l))

AddBackEntry(l, e) ==
  [l EXCEPT !.prev = Point(l.prev, e, l.back),
            !.next = Point(l.next, l.back, e),
            !.front = IF l.back = Null /\ l.front = Null THEN e ELSE l.front,
            !.back = e, !.size = l.size + 1]

list_add_back(l, data) == AddBackEntry(_list_create_entry(l, NewEntry(l), data), NewEntry(l))

(* The new first entry keeps its prev.                                     *)
list_del_front(l) ==
  IF list_empty(l) THEN l
  ELSE _list_delete_entry([l EXCEPT !.front = l.next[l.front],
                                    !.back = IF l.back = l.front THEN Null ELSE l.back,
                                    !.size = l.size - 1], l.front)

(* Mutant of list_del_entry: the list's back is not moved.                 *)
list_del_entry_no_back(l, e) ==
  _list_delete_entry([l EXCEPT !.prev = Point(l.prev, l.next[e], l.prev[e]),
                               !.next = Point(l.next, l.prev[e], l.next[e]),
                               !.front = IF l.front = e THEN l.next[e] ELSE l.front], e)

(* The entry is not counted off.                                           *)
list_del_entry(l, e) ==
  _list_delete_entry([l EXCEPT !.prev = Point(l.prev, l.next[e], l.prev[e]),
                               !.next = Point(l.next, l.prev[e], l.next[e]),
                               !.front = IF l.front = e THEN l.next[e] ELSE l.front,
                               !.back = IF l.back = e THEN l.prev[e] ELSE l.back], e)

(* list_del_front until it returns NULL; the head itself is freed too.     *)
list_destroy(l) ==
  LET loop[n \in 0 .. Entries] == IF n = 0 THEN l ELSE list_del_front(loop[n - 1])
  IN  loop[Entries]

(* The entries list_iterate goes through.  A list of more entries than     *)
(* there are goes round in a circle.                                       *)
list_iterate(l) ==
  LET at[n \in 0 .. Entries] ==
        IF n = 0 THEN l.front ELSE IF at[n - 1] = Null THEN Null ELSE l.next[at[n - 1]]
      last == Cardinality({n \in 0 .. Entries : at[n] # Null})
  IN  [n \in 1 .. last |-> at[n - 1]]

Datas(l) == [n \in DOMAIN list_iterate(l) |-> l.data[list_iterate(l)[n]]]

(* The entry a search for data ends at.                                    *)
Find(l, data) == {e \in l.used : l.data[e] = data /\ \E n \in DOMAIN list_iterate(l) : list_iterate(l)[n] = e}
=============================================================================
