----------------------------- MODULE ListUsers -----------------------------
(***************************************************************************)
(* The ways the kernel uses its lists, each list in one of them: requests  *)
(* of a terminal are queued (tty.c), devices and file system types are     *)
(* registered and taken out again (devfs.c, fs.c), a process's segments    *)
(* are pushed and destroyed together (loader.c), the CDI drivers push.     *)
(* content is a history variable: the sequence the list stands for.        *)
(***************************************************************************)
EXTENDS LinkedList, Functions

CONSTANT Data   \* what lists hold pointers to

VARIABLES list, content, user

listVars == <<list, content, user>>

Users == {"queue", "registry", "stack"}

ListInit == list = list_create /\ content = << >> /\ user \in Users

NewData == Data \ Range(content)

Enqueue ==
  /\ user \in {"queue", "registry"} /\ HasRoom(list)
  /\ \E d \in NewData : list' = list_add_back(list, d) /\ content' = Append(content, d)
  /\ UNCHANGED user

Dequeue ==
  /\ user = "queue"
  /\ list' = list_del_front(list)
  /\ content' = IF content = << >> THEN content ELSE Tail(content)
  /\ UNCHANGED user

Without(q, i) == SubSeq(q, 1, i - 1) \o SubSeq(q, i + 1, Len(q))

(* The search of devfs_unregister and vfs_unregister, and its end.         *)
Unregister ==
  /\ user = "registry"
  /\ \E d \in Data :
       IF Find(list, d) = {} THEN UNCHANGED <<list, content>>
       ELSE \E e \in Find(list, d) :
              /\ list' = list_del_entry(list, e)
              /\ \E i \in DOMAIN content : content[i] = d /\ content' = Without(content, i)
  /\ UNCHANGED user

Push ==
  /\ user = "stack" /\ HasRoom(list)
  /\ \E d \in NewData : list' = list_add_front(list, d) /\ content' = <<d>> \o content
  /\ UNCHANGED user

(* The process ends; the next one in its slot gets a new list.             *)
Destroy ==
  /\ user = "stack"
  /\ list' = [list_destroy(list) EXCEPT !.size = 0]
  /\ content' = << >>
  /\ UNCHANGED user

ListNext == Enqueue \/ Dequeue \/ Unregister \/ Push \/ Destroy

ListSpec == ListInit /\ [][ListNext]_listVars
-----------------------------------------------------------------------------
(* list_iterate goes through exactly what was put in and not taken out, in *)
(* order, and the entries it does not reach are free: list_del_front       *)
(* leaves a prev that points to freed memory, but no user follows it.      *)
(* list_size is the number of entries, "the size of the list"; where       *)
(* entries are taken out of the middle it is not too small, so that        *)
(* readdir of devfs does not stop before the end.                          *)
VisitsContent ==
  /\ Datas(list) = content
  /\ list.used = Range(list_iterate(list))
  /\ list_size(list) >= Len(content)
  /\ user # "registry" => list_size(list) = Len(content)
=============================================================================
