--------------------------- MODULE Devices_proofs ---------------------------
(***************************************************************************)
(* What the ring buffer (RingBuffer) and the lists (ListUsers) of the      *)
(* drivers promise, for every size of buffers and lists: a ring buffer     *)
(* implements BoundedFifo, and a list visits what it holds.                *)
(***************************************************************************)
EXTENDS RingBuffer, ListUsers, Counting, TLAPS

(* Sequences.                                                              *)
LEMMA EmptySeq ==
  ASSUME NEW S
  PROVE  << >> \in Seq(S) /\ Len(<< >>) = 0 /\ \A q \in Seq(S) : q # << >> => Len(q) \in Nat \ {0}
  OBVIOUS

LEMMA SeqEqual ==
  ASSUME NEW S, NEW q \in Seq(S), NEW r \in Seq(S), Len(q) = Len(r), \A i \in 1 .. Len(q) : q[i] = r[i]
  PROVE  q = r
  OBVIOUS

LEMMA SubSeqProperties ==
  ASSUME NEW S, NEW q, NEW m \in Int, NEW n \in Int, \A i \in m .. n : q[i] \in S
  PROVE  /\ SubSeq(q, m, n) \in Seq(S) /\ Len(SubSeq(q, m, n)) = IF m <= n THEN n - m + 1 ELSE 0
         /\ \A i \in 1 .. n - m + 1 : SubSeq(q, m, n)[i] = q[m + i - 1]
  OBVIOUS

LEMMA AppendProperties ==
  ASSUME NEW S, NEW q \in Seq(S), NEW x \in S
  PROVE  /\ Append(q, x) \in Seq(S) /\ Len(Append(q, x)) = Len(q) + 1 /\ Append(q, x)[Len(q) + 1] = x
         /\ \A i \in 1 .. Len(q) : Append(q, x)[i] = q[i]
  OBVIOUS

LEMMA ConcatProperties ==
  ASSUME NEW S, NEW q \in Seq(S), NEW r \in Seq(S)
  PROVE  /\ q \o r \in Seq(S) /\ Len(q \o r) = Len(q) + Len(r)
         /\ \A i \in 1 .. Len(q) + Len(r) : (q \o r)[i] = IF i <= Len(q) THEN q[i] ELSE r[i - Len(q)]
  OBVIOUS
-----------------------------------------------------------------------------
(* The ring buffer                                                         *)

(* The place of the i-th element behind place r.                           *)
Pos(r, i) == (r + i - 1) % maxcnt

(* Going round once.                                                       *)
LEMMA Around ==
  ASSUME NEW x \in 0 .. 2 * maxcnt - 1
  PROVE  x % maxcnt = IF x < maxcnt THEN x ELSE x - maxcnt
<1>1. maxcnt \in Nat \ {0}
  BY RingAssumption
<1>2. CASE x < maxcnt
  BY <1>1, <1>2, Z3
<1>3. CASE ~(x < maxcnt)
  <2> DEFINE y == x - maxcnt
  <2>1. y \in 0 .. maxcnt - 1 /\ x = y + maxcnt
    BY <1>1, <1>3
  <2> HIDE DEF y
  <2>2. (y + maxcnt) % maxcnt = y
    BY <1>1, <2>1, Z3
  <2> QED
    BY <1>1, <1>3, <2>1, <2>2
<1> QED
  BY <1>2, <1>3

LEMMA Places ==
  ASSUME NEW r \in Index
  PROVE  /\ Pos(r, 1) = r
         /\ \A i \in 1 .. maxcnt + 1 : Pos(r, i) \in Index
         /\ \A i, j \in 1 .. maxcnt : Pos(r, i) = Pos(r, j) => i = j
         /\ \A i \in 1 .. maxcnt : (Pos(r, i) + 1) % maxcnt = Pos(r, i + 1)
         /\ \A i \in Nat : \A j \in 1 .. maxcnt + 1 :
              i + j <= maxcnt + 1 => Pos(Pos(r, i + 1), j) = Pos(r, i + j)
<1>1. maxcnt \in Nat \ {0} /\ r \in 0 .. maxcnt - 1
  BY RingAssumption DEF Index
<1>2. \A i \in 1 .. maxcnt + 1 : Pos(r, i) = IF r + i - 1 < maxcnt THEN r + i - 1 ELSE r + i - 1 - maxcnt
  <2> TAKE i \in 1 .. maxcnt + 1
  <2> DEFINE x == r + i - 1
  <2>1. x \in 0 .. 2 * maxcnt - 1
    BY <1>1
  <2> HIDE DEF x
  <2>2. x % maxcnt = IF x < maxcnt THEN x ELSE x - maxcnt
    BY <2>1, Around
  <2> QED
    BY <1>1, <2>2 DEF Pos, x
<1>3. \A i \in 1 .. maxcnt + 1 : Pos(r, i) \in 0 .. maxcnt - 1
  BY <1>1, <1>2
<1>4. \A i, j \in 1 .. maxcnt : Pos(r, i) = Pos(r, j) => i = j
  BY <1>1, <1>2
<1>5. 1 \in 1 .. maxcnt + 1 /\ Pos(r, 1) = r
  BY <1>1, <1>2
<1>6. ASSUME NEW i \in Nat, NEW j \in 1 .. maxcnt + 1, i + j <= maxcnt + 1
      PROVE  Pos(Pos(r, i + 1), j) = Pos(r, i + j)
  <2>1. i + 1 \in 1 .. maxcnt + 1 /\ i + j \in 1 .. maxcnt + 1
    BY <1>1, <1>6
  <2> DEFINE q == Pos(r, i + 1)
             x == q + j - 1
  <2>2. q \in 0 .. maxcnt - 1 /\ q = IF r + i < maxcnt THEN r + i ELSE r + i - maxcnt
    BY <1>1, <1>2, <1>3, <2>1
  <2>3. Pos(r, i + j) = IF r + i + j - 1 < maxcnt THEN r + i + j - 1 ELSE r + i + j - 1 - maxcnt
    BY <1>1, <1>2, <2>1
  <2> HIDE DEF q
  <2>4. x \in 0 .. 2 * maxcnt - 1
    BY <1>1, <2>2
  <2> HIDE DEF x
  <2>5. x % maxcnt = IF x < maxcnt THEN x ELSE x - maxcnt
    BY <2>4, Around
  <2>6. Pos(q, j) = IF q + j - 1 < maxcnt THEN q + j - 1 ELSE q + j - 1 - maxcnt
    BY <1>1, <2>2, <2>5 DEF Pos, x
  <2>7. Pos(q, j) = Pos(r, i + j)
    BY <1>1, <1>6, <2>2, <2>3, <2>6
  <2> QED
    BY <2>7 DEF q
<1>7. \A i \in 1 .. maxcnt : (Pos(r, i) + 1) % maxcnt = Pos(r, i + 1)
  <2> TAKE i \in 1 .. maxcnt
  <2> DEFINE x == Pos(r, i) + 1
  <2>1. i \in 1 .. maxcnt + 1 /\ i + 1 \in 1 .. maxcnt + 1
    BY <1>1
  <2>2. x \in 0 .. 2 * maxcnt - 1
    BY <1>1, <1>3, <2>1
  <2>3. x % maxcnt = IF x < maxcnt THEN x ELSE x - maxcnt
    <3> HIDE DEF x
    <3> QED
      BY <2>2, Around
  <2> QED
    BY <1>1, <1>2, <2>1, <2>3
<1> QED
  BY <1>3, <1>4, <1>5, <1>6, <1>7 DEF Index

RingT == [data : [Index -> Item], count : 0 .. maxcnt, ridx : Index, widx : Index]

(* The ring x after n turns of the loop of rbuf_write, and what was copied *)
(* after n turns of the loop of rbuf_read, that began with the ring s.     *)
PutInv(s, items, n, x) ==
  /\ x.count = s.count /\ x.ridx = s.ridx /\ x.widx = Pos(s.ridx, s.count + n + 1)
  /\ \A i \in 1 .. s.count : x.data[Pos(s.ridx, i)] = s.data[Pos(s.ridx, i)]
  /\ \A i \in 1 .. n : x.data[Pos(s.ridx, s.count + i)] = items[i]

GetInv(s, n, c) ==
  /\ c.rb.data = s.data /\ c.rb.count = s.count /\ c.rb.widx = s.widx
  /\ c.rb.ridx = Pos(s.ridx, n + 1)
  /\ Len(c.out) = n /\ \A i \in 1 .. n : c.out[i] = s.data[Pos(s.ridx, i)]

(* An element goes to the place behind the last one, which holds none.     *)
LEMMA PutTurn ==
  ASSUME NEW s \in RingT, NEW items \in Seq(Item), NEW n \in 1 .. Len(items),
         s.count + n <= maxcnt, NEW x \in RingT, PutInv(s, items, n - 1, x)
  PROVE  Put(x, items[n]) \in RingT /\ PutInv(s, items, n, Put(x, items[n]))
<1> DEFINE r == s.ridx
           c == s.count
           at == x.widx
           to == (at + 1) % maxcnt
           d == [x.data EXCEPT ![at] = items[n]]
<1>0. maxcnt \in Nat \ {0} /\ r \in Index /\ c \in 0 .. maxcnt /\ n \in Nat /\ items[n] \in Item
  BY RingAssumption DEF RingT
<1>1. at = Pos(r, c + n) /\ c + n \in 1 .. maxcnt
  <2>1. c + (n - 1) + 1 = c + n
    BY <1>0
  <2> QED
    BY <1>0, <2>1 DEF PutInv
<1>2. to = Pos(r, c + n + 1) /\ to \in Index /\ at \in Index
  BY <1>0, <1>1, Places, SMTT(30), ZenonT(20)
<1>3. /\ \A i \in 1 .. c : x.data[Pos(r, i)] = s.data[Pos(r, i)]
      /\ \A i \in 1 .. n - 1 : x.data[Pos(r, c + i)] = items[i]
  BY DEF PutInv
<1>4. x.data \in [Index -> Item] /\ x.count = c /\ x.ridx = r
  BY DEF RingT, PutInv
<1> HIDE DEF at, to, r, c
<1>5. d \in [Index -> Item] /\ d[at] = items[n] /\ \A i \in Index : i # at => d[i] = x.data[i]
  BY <1>0, <1>2, <1>4, Zenon
<1>6. Put(x, items[n]) = [data |-> d, count |-> c, ridx |-> r, widx |-> to]
  <2>1. Put(x, items[n]) = [x EXCEPT !.data = d, !.widx = to]
    BY DEF Put, RingT, at, to
  <2> HIDE DEF d
  <2> QED
    BY <1>4, <2>1, Zenon DEF RingT
<1> HIDE DEF d
<1>7. \A i \in 1 .. maxcnt : Pos(r, i) \in Index /\ (Pos(r, i) = at => i = c + n)
  BY <1>0, <1>1, Places, SMTT(30), ZenonT(20)
<1>8. \A i \in 1 .. c : d[Pos(r, i)] = s.data[Pos(r, i)]
  <2>1. \A i \in 1 .. c : i \in 1 .. maxcnt /\ i # c + n
    BY <1>0
  <2> QED
    BY <1>3, <1>5, <1>7, <2>1, Zenon
<1>9. ASSUME NEW i \in 1 .. n
      PROVE  d[Pos(r, c + i)] = items[i]
  <2>1. c + i \in 1 .. maxcnt /\ (i # n => i \in 1 .. n - 1 /\ c + i # c + n)
    BY <1>0, <1>1
  <2>2. CASE i = n
    BY <1>1, <1>5, <2>2
  <2>3. CASE i # n
    BY <1>3, <1>5, <1>7, <2>1, <2>3, Zenon
  <2> QED
    BY <2>2, <2>3
<1> DEFINE u == Put(x, items[n])
<1>10. u.data = d /\ u.count = c /\ u.ridx = r /\ u.widx = to
  BY <1>6
<1>11. u \in RingT
  BY <1>0, <1>2, <1>5, <1>6 DEF RingT
<1> HIDE DEF u
<1>12. PutInv(s, items, n, u)
  BY <1>2, <1>8, <1>9, <1>10 DEF PutInv, r, c
<1> QED
  BY <1>11, <1>12 DEF u

(* The loop of rbuf_write.                                                 *)
LEMMA PutLoop ==
  ASSUME Counting, NEW s \in RingT, s.widx = Pos(s.ridx, s.count + 1), NEW items \in Seq(Item),
         NEW num \in 0 .. Len(items), s.count + num <= maxcnt
  PROVE  PutAll(s, items, num) \in RingT /\ PutInv(s, items, num, PutAll(s, items, num))
<1> DEFINE X == [n \in 0 .. num |-> {x \in RingT : PutInv(s, items, n, x)}]
           G == [n \in 1 .. num |-> [x \in X[n - 1] |-> Put(x, items[n])]]
           F(f) == [n \in 0 .. num |-> IF n = 0 THEN s ELSE Put(f[n - 1], items[n])]
<1>0. /\ num \in Nat /\ s.count \in Nat /\ s.count + 0 + 1 = s.count + 1 /\ maxcnt \in Nat
      /\ Len(items) \in Nat
  BY RingAssumption DEF RingT
<1>1. s \in X[0]
  BY <1>0 DEF PutInv
<1>2. ASSUME NEW n \in 1 .. num, NEW x \in X[n - 1]
      PROVE  Put(x, items[n]) \in X[n]
  <2>1. n - 1 \in 0 .. num /\ n \in 0 .. num /\ n \in 1 .. Len(items) /\ s.count + n <= maxcnt
    BY <1>0, SMTT(30), ZenonT(20)
  <2>2. x \in RingT /\ PutInv(s, items, n - 1, x)
    BY <2>1
  <2> QED
    BY <2>1, <2>2, PutTurn
<1>3. \A n \in 1 .. num : \A x \in X[n - 1] : G[n][x] = Put(x, items[n])
  OBVIOUS
<1> HIDE DEF X, G
<1>a. \A n \in 1 .. num : \A x \in X[n - 1] : G[n][x] \in X[n]
  BY <1>2, <1>3, Zenon
<1>4. PICK f : IsLoop(f, s, G, num) /\ \A n \in 0 .. num : f[n] \in X[n]
  BY <1>0, <1>1, <1>a, Zenon DEF Counting, LoopExists
<1>5. \E g : g = F(g)
  <2>1. \A n \in 0 .. num : n # 0 => n \in 1 .. num /\ n - 1 \in 0 .. num
    BY <1>0
  <2>2. \A n \in 0 .. num : (IF n = 0 THEN s ELSE G[n][f[n - 1]])
                              = (IF n = 0 THEN s ELSE Put(f[n - 1], items[n]))
    BY <1>3, <1>4, <2>1, Zenon
  <2>3. f = F(f)
    BY <1>4, <2>2, Zenon DEF IsLoop
  <2> QED
    BY <2>3, SMTT(30), ZenonT(20)
<1> DEFINE walk == CHOOSE g : g = F(g)
<1>6. walk = F(walk)
  <2> HIDE DEF F
  <2> QED
    BY <1>5
<1>7. PutAll(s, items, num) = walk[num]
  BY Zenon DEF PutAll
<1> HIDE DEF walk
<1>8. walk[0] = s /\ \A n \in 1 .. num : walk[n] = Put(walk[n - 1], items[n])
  <2>1. \A n \in 0 .. num : walk[n] = IF n = 0 THEN s ELSE Put(walk[n - 1], items[n])
    BY <1>6, Zenon
  <2> QED
    BY <1>0, <2>1
<1>9. \A n \in 0 .. num : walk[n] \in X[n]
  BY <1>0, <1>1, <1>2, <1>8, ZenonT(40) DEF Counting, LoopKeeps
<1> QED
  BY <1>0, <1>7, <1>9 DEF X

CopyT == [rb : RingT, out : Seq(Item)]

(* The element at ridx is copied, and ridx moves on.                       *)
LEMMA GetTurn ==
  ASSUME NEW s \in RingT, NEW n \in 1 .. maxcnt, NEW c \in CopyT, GetInv(s, n - 1, c)
  PROVE  Get(c) \in CopyT /\ GetInv(s, n, Get(c))
<1> DEFINE r == s.ridx
           at == c.rb.ridx
           to == (at + 1) % maxcnt
           item == c.rb.data[at]
           q == [c.rb EXCEPT !.ridx = to]
           o == Append(c.out, item)
<1>0. /\ maxcnt \in Nat \ {0} /\ r \in Index /\ n \in Nat /\ c.rb \in RingT /\ c.out \in Seq(Item)
      /\ s.data \in [Index -> Item]
  BY RingAssumption DEF RingT, CopyT
<1>1. /\ c.rb.data = s.data /\ c.rb.count = s.count /\ c.rb.widx = s.widx
      /\ at = Pos(r, n) /\ Len(c.out) = n - 1
      /\ \A i \in 1 .. n - 1 : c.out[i] = s.data[Pos(r, i)]
  <2>1. (n - 1) + 1 = n
    BY <1>0
  <2> QED
    BY <2>1, Zenon DEF GetInv
<1>2. to = Pos(r, n + 1) /\ to \in Index /\ at \in Index
  BY <1>0, <1>1, Places
<1>3. item = s.data[Pos(r, n)] /\ item \in Item
  BY <1>0, <1>1, <1>2, Zenon
<1> HIDE DEF at, to, r, item
<1>4. o \in Seq(Item) /\ Len(o) = n /\ o[n] = item /\ \A i \in 1 .. n - 1 : o[i] = c.out[i]
  BY <1>0, <1>1, <1>3
<1>5. q = [data |-> s.data, count |-> s.count, ridx |-> to, widx |-> s.widx]
  BY <1>0, <1>1 DEF RingT
<1>6. q \in RingT
  BY <1>2, <1>5 DEF RingT
<1>7. Get(c) = [rb |-> q, out |-> o]
  BY DEF Get, item, at, to
<1> HIDE DEF q, o
<1>8. \A i \in 1 .. n : o[i] = s.data[Pos(r, i)]
  <2>1. \A i \in 1 .. n : i # n => i \in 1 .. n - 1
    BY <1>0
  <2> QED
    BY <1>1, <1>3, <1>4, <2>1
<1>9. Get(c) \in CopyT /\ Get(c).rb = q /\ Get(c).out = o
  BY <1>4, <1>6, <1>7 DEF CopyT
<1>10. q.data = s.data /\ q.count = s.count /\ q.ridx = to /\ q.widx = s.widx
  BY <1>5
<1> QED
  BY <1>2, <1>4, <1>8, <1>9, <1>10, Zenon DEF GetInv, r

(* The loop of rbuf_read.                                                  *)
LEMMA GetLoop ==
  ASSUME Counting, NEW s \in RingT, NEW num \in 0 .. s.count
  PROVE  GetAll(s, num) \in CopyT /\ GetInv(s, num, GetAll(s, num))
<1> DEFINE first == [rb |-> s, out |-> << >>]
           X == [n \in 0 .. num |-> {c \in CopyT : GetInv(s, n, c)}]
           G == [n \in 1 .. num |-> [c \in X[n - 1] |-> Get(c)]]
           F(f) == [n \in 0 .. num |-> IF n = 0 THEN first ELSE Get(f[n - 1])]
<1>0. /\ num \in Nat /\ s.count \in 0 .. maxcnt /\ maxcnt \in Nat /\ s.ridx \in Index
  BY RingAssumption DEF RingT
<1>1. first \in X[0]
  <2>1. first \in CopyT
    BY DEF CopyT
  <2>2. Pos(s.ridx, 0 + 1) = s.ridx
    BY <1>0, Places
  <2> QED
    BY <1>0, <2>1, <2>2 DEF GetInv
<1>2. ASSUME NEW n \in 1 .. num, NEW c \in X[n - 1]
      PROVE  Get(c) \in X[n]
  <2>1. n - 1 \in 0 .. num /\ n \in 0 .. num /\ n \in 1 .. maxcnt
    BY <1>0
  <2>2. c \in CopyT /\ GetInv(s, n - 1, c)
    BY <2>1
  <2> QED
    BY <2>1, <2>2, GetTurn
<1>3. \A n \in 1 .. num : \A c \in X[n - 1] : G[n][c] = Get(c)
  OBVIOUS
<1> HIDE DEF X, G, first
<1>a. \A n \in 1 .. num : \A x \in X[n - 1] : G[n][x] \in X[n]
  BY <1>2, <1>3
<1>4. PICK f : IsLoop(f, first, G, num) /\ \A n \in 0 .. num : f[n] \in X[n]
  BY <1>0, <1>1, <1>a, Zenon DEF Counting, LoopExists
<1>5. \E g : g = F(g)
  <2>1. \A n \in 0 .. num : n # 0 => n \in 1 .. num /\ n - 1 \in 0 .. num
    BY <1>0
  <2>2. \A n \in 0 .. num : (IF n = 0 THEN first ELSE G[n][f[n - 1]])
                              = (IF n = 0 THEN first ELSE Get(f[n - 1]))
    BY <1>3, <1>4, <2>1, ZenonT(40)
  <2>3. f = F(f)
    BY <1>4, <2>2 DEF IsLoop
  <2> QED
    BY <2>3
<1> DEFINE walk == CHOOSE g : g = F(g)
<1>6. walk = F(walk)
  <2> HIDE DEF F
  <2> QED
    BY <1>5
<1>7. GetAll(s, num) = walk[num]
  BY DEF GetAll, first
<1> HIDE DEF walk
<1>8. walk[0] = first /\ \A n \in 1 .. num : walk[n] = Get(walk[n - 1])
  <2>1. \A n \in 0 .. num : walk[n] = IF n = 0 THEN first ELSE Get(walk[n - 1])
    BY <1>6
  <2> QED
    BY <1>0, <2>1
<1>9. \A n \in 0 .. num : walk[n] \in X[n]
  BY <1>0, <1>1, <1>2, <1>8, SMTT(30), ZenonT(20) DEF Counting, LoopKeeps
<1> QED
  BY <1>0, <1>7, <1>9 DEF X

(* The inductive invariant: the write index is as far ahead of the read    *)
(* index as there are elements.                                            *)
RingInv == rb \in RingT /\ rb.widx = Pos(rb.ridx, rb.count + 1)

QueueOf(s) == [i \in 1 .. s.count |-> s.data[Pos(s.ridx, i)]]

(* The queue the ring stands for.                                          *)
LEMMA QueueElements ==
  ASSUME NEW s \in RingT
  PROVE  /\ QueueOf(s) \in Seq(Item) /\ Len(QueueOf(s)) = s.count
         /\ \A i \in 1 .. s.count : QueueOf(s)[i] = s.data[Pos(s.ridx, i)]
<1>0. s.count \in 0 .. maxcnt /\ maxcnt \in Nat /\ s.ridx \in Index /\ s.data \in [Index -> Item]
  BY RingAssumption DEF RingT
<1>1. \A i \in 1 .. s.count : i \in 1 .. maxcnt + 1
  BY <1>0
<1>2. \A i \in 1 .. s.count : s.data[Pos(s.ridx, i)] \in Item
  BY <1>0, <1>1, Places, SMTT(30), ZenonT(20)
<1>3. QueueOf(s) \in [1 .. s.count -> Item] /\ s.count \in Nat
  BY <1>0, <1>2 DEF QueueOf
<1>4. \A i \in 1 .. s.count : QueueOf(s)[i] = s.data[Pos(s.ridx, i)]
  BY DEF QueueOf
<1> QED
  BY <1>3, <1>4

(* rbuf_write is the write of a bounded queue.                             *)
LEMMA RingWrite ==
  ASSUME Counting, override = FALSE, RingInv, RbufWrite
  PROVE  RingInv' /\ Fifo!Write
<1>1. PICK m \in 0 .. MaxBatch : \E items \in [1 .. m -> Item] : rbuf_write(items)
  BY DEF RbufWrite
<1>2. PICK items \in [1 .. m -> Item] : rbuf_write(items)
  BY <1>1
<1>3. /\ MaxBatch \in Nat /\ m \in Nat /\ maxcnt \in Nat \ {0} /\ SizeMod \in Nat
      /\ SizeMod > maxcnt + MaxBatch /\ rb \in RingT /\ rb.count \in 0 .. maxcnt
      /\ rb.ridx \in Index
  BY RingAssumption DEF RingInv, RingT
<1>4. items \in Seq(Item) /\ Len(items) = m
  BY <1>3
<1>5. rbuf_freesize(rb) = maxcnt - rb.count
  <2> DEFINE x == maxcnt - rb.count
  <2>1. x \in 0 .. SizeMod - 1
    BY <1>3
  <2> HIDE DEF x
  <2>2. x % SizeMod = x
    BY <1>3, <2>1, Z3
  <2> QED
    BY <2>2 DEF rbuf_freesize, x
<1> DEFINE num == IF m > maxcnt - rb.count THEN maxcnt - rb.count ELSE m
           u == PutAll(rb, items, num)
           c == rb.count + num
           r == rb.ridx
<1>6. num \in Nat /\ num \in 0 .. Len(items) /\ c \in 0 .. maxcnt /\ num = Fifo!Least(m, maxcnt - rb.count)
  BY <1>3, <1>4 DEF Fifo!Least
<1>7. /\ rb' = [u EXCEPT !.count = (@ + num) % SizeMod]
      /\ asked' = Len(items) /\ ret' = num /\ dst' = << >>
  BY <1>2, <1>4, <1>5, Zenon DEF rbuf_write
<1>8. u \in RingT /\ PutInv(rb, items, num, u)
  <2> HIDE DEF num
  <2> QED
    BY <1>3, <1>4, <1>6, PutLoop DEF RingInv
<1> HIDE DEF num, u
<1>9. c % SizeMod = c /\ c + 1 = rb.count + num + 1
  <2>1. c \in 0 .. SizeMod - 1
    BY <1>3, <1>6
  <2> HIDE DEF c
  <2>2. c % SizeMod = c
    BY <1>3, <2>1, Z3
  <2> QED
    BY <1>3, <1>6, <2>2 DEF c
<1>10. u.count = rb.count /\ u.ridx = r /\ u.widx = Pos(r, c + 1) /\ u.data \in [Index -> Item]
  BY <1>8, <1>9 DEF PutInv, RingT
<1>11. rb' = [data |-> u.data, count |-> c, ridx |-> r, widx |-> u.widx]
  BY <1>7, <1>8, <1>9, <1>10, Zenon DEF RingT
<1>12. rb' \in RingT /\ rb'.widx = Pos(rb'.ridx, rb'.count + 1)
  <2>1. u.widx \in Index
    BY <1>8 DEF RingT
  <2> HIDE DEF c
  <2> QED
    BY <1>3, <1>6, <1>10, <1>11, <2>1, Zenon DEF RingT
<1>13. /\ QueueOf(rb) \in Seq(Item) /\ Len(QueueOf(rb)) = rb.count
       /\ \A i \in 1 .. rb.count : QueueOf(rb)[i] = rb.data[Pos(r, i)]
  BY <1>3, QueueElements, Zenon
<1>14. /\ QueueOf(rb') \in Seq(Item) /\ Len(QueueOf(rb')) = c
       /\ \A i \in 1 .. c : QueueOf(rb')[i] = u.data[Pos(r, i)]
  <2>1. rb'.count = c /\ rb'.ridx = r /\ rb'.data = u.data
    BY <1>11
  <2> DEFINE v == rb'
  <2>2. v \in RingT
    BY <1>12
  <2> HIDE DEF v
  <2>3. /\ QueueOf(v) \in Seq(Item) /\ Len(QueueOf(v)) = v.count
        /\ \A i \in 1 .. v.count : QueueOf(v)[i] = v.data[Pos(v.ridx, i)]
    BY <2>2, QueueElements
  <2> QED
    BY <2>1, <2>3 DEF v
<1> DEFINE new == SubSeq(items, 1, num)
           q == QueueOf(rb)
           q2 == QueueOf(rb')
<1>15. new \in Seq(Item) /\ Len(new) = num /\ \A i \in 1 .. num : new[i] = items[i]
  <2>1. \A i \in 1 .. num : items[i] \in Item
    BY <1>4, <1>6
  <2>2. /\ new \in Seq(Item) /\ Len(new) = IF 1 <= num THEN num - 1 + 1 ELSE 0
        /\ \A i \in 1 .. num - 1 + 1 : new[i] = items[1 + i - 1]
    BY <1>6, <2>1, SubSeqProperties
  <2> QED
    BY <1>6, <2>2
<1> HIDE DEF new, q, q2
<1>16. q2 = q \o new
  <2>1. /\ q \o new \in Seq(Item) /\ Len(q \o new) = rb.count + num
        /\ \A i \in 1 .. rb.count + num :
             (q \o new)[i] = IF i <= rb.count THEN q[i] ELSE new[i - rb.count]
    <3>1. q \in Seq(Item) /\ new \in Seq(Item) /\ Len(q) = rb.count /\ Len(new) = num
      BY <1>13, <1>15 DEF q
    <3>2. /\ q \o new \in Seq(Item) /\ Len(q \o new) = Len(q) + Len(new)
          /\ \A i \in 1 .. Len(q) + Len(new) :
               (q \o new)[i] = IF i <= Len(q) THEN q[i] ELSE new[i - Len(q)]
      BY <3>1, ConcatProperties, Zenon
    <3> QED
      BY <3>1, <3>2
  <2>2. ASSUME NEW i \in 1 .. c
        PROVE  q2[i] = (q \o new)[i]
    <3>1. CASE i <= rb.count
      <4>1. i \in 1 .. rb.count
        BY <1>3, <3>1
      <4>2. q2[i] = rb.data[Pos(r, i)]
        BY <1>8, <1>14, <4>1 DEF PutInv, q2
      <4> QED
        BY <1>13, <2>1, <3>1, <4>1, <4>2 DEF q
    <3>2. CASE ~(i <= rb.count)
      <4> DEFINE j == i - rb.count
      <4>1. j \in 1 .. num /\ i = rb.count + j
        BY <1>3, <1>6, <3>2
      <4> HIDE DEF j
      <4>2. u.data[Pos(r, rb.count + j)] = items[j]
        BY <1>8, <4>1 DEF PutInv
      <4>3. q2[i] = items[j]
        BY <1>14, <4>1, <4>2 DEF q2
      <4>4. (q \o new)[i] = new[j]
        BY <2>1, <3>2, SMTT(30), ZenonT(20) DEF j
      <4> QED
        BY <1>15, <4>1, <4>3, <4>4
    <3> QED
      BY <3>1, <3>2, Zenon
  <2>3. q2 \in Seq(Item) /\ Len(q2) = c
    BY <1>14 DEF q2
  <2> QED
    BY <2>1, <2>2, <2>3, SeqEqual, ZenonT(40)
<1>17. Queue = q /\ Queue' = q2
  BY DEF Queue, q, q2, QueueOf, Pos
<1>18. items \in Fifo!Batches
  BY <1>1 DEF Fifo!Batches
<1>19. num = Fifo!Least(Len(items), maxcnt - Len(Queue))
  BY <1>4, <1>6, <1>13, <1>17, Zenon DEF q
<1>20. Queue' = Queue \o SubSeq(items, 1, num)
  BY <1>16, <1>17 DEF new
<1>21. Fifo!Write
  BY <1>7, <1>18, <1>19, <1>20, Zenon DEF Fifo!Write
<1> QED
  BY <1>12, <1>21 DEF RingInv

(* rbuf_read is the read of a bounded queue.                               *)
LEMMA RingRead ==
  ASSUME Counting, RingInv, RbufRead
  PROVE  RingInv' /\ Fifo!Read
<1>1. PICK count \in 0 .. MaxBatch : rbuf_read(count)
  BY DEF RbufRead
<1>2. /\ MaxBatch \in Nat /\ count \in Nat /\ maxcnt \in Nat \ {0}
      /\ rb \in RingT /\ rb.count \in 0 .. maxcnt /\ rb.ridx \in Index
      /\ rb.widx \in Index /\ rb.data \in [Index -> Item]
  BY RingAssumption DEF RingInv, RingT
<1> DEFINE num == IF count > rb.count THEN rb.count ELSE count
           g == GetAll(rb, num)
           c == rb.count - num
           r == rb.ridx
           to == Pos(r, num + 1)
<1>3. /\ num \in Nat /\ num \in 0 .. rb.count /\ c \in 0 .. maxcnt /\ num = Fifo!Least(count, rb.count)
      /\ num + c = rb.count
  BY <1>2 DEF Fifo!Least
<1>4. /\ rb' = [g.rb EXCEPT !.count = @ - num]
      /\ asked' = count /\ ret' = num /\ dst' = g.out
  BY <1>1 DEF rbuf_read, rbuf_avail
<1> HIDE DEF num
<1>5. g \in CopyT /\ GetInv(rb, num, g)
  BY <1>2, <1>3, GetLoop
<1> HIDE DEF g
<1>6. /\ g.rb.data = rb.data /\ g.rb.count = rb.count /\ g.rb.ridx = to /\ g.rb.widx = rb.widx
      /\ g.rb \in RingT /\ g.out \in Seq(Item) /\ Len(g.out) = num
      /\ \A i \in 1 .. num : g.out[i] = rb.data[Pos(r, i)]
  BY <1>5 DEF GetInv, CopyT
<1>7. to \in Index
  BY <1>6 DEF RingT
<1>8. rb' = [data |-> rb.data, count |-> c, ridx |-> to, widx |-> rb.widx]
  <2> HIDE DEF to
  <2> QED
    BY <1>4, <1>6, Zenon DEF RingT
<1>9. \A j \in 1 .. maxcnt + 1 : num + j <= maxcnt + 1 => Pos(to, j) = Pos(r, num + j)
  BY <1>2, <1>3, Places
<1> HIDE DEF to
<1>10. rb' \in RingT /\ rb'.widx = Pos(rb'.ridx, rb'.count + 1)
  <2>1. c + 1 \in 1 .. maxcnt + 1 /\ num + (c + 1) <= maxcnt + 1 /\ num + (c + 1) = rb.count + 1
    BY <1>2, <1>3
  <2>2. Pos(to, c + 1) = rb.widx
    BY <1>9, <2>1 DEF RingInv
  <2> HIDE DEF c
  <2> QED
    BY <1>2, <1>3, <1>7, <1>8, <2>2, Zenon DEF RingT
<1>11. /\ QueueOf(rb) \in Seq(Item) /\ Len(QueueOf(rb)) = rb.count
       /\ \A i \in 1 .. rb.count : QueueOf(rb)[i] = rb.data[Pos(r, i)]
  BY <1>2, QueueElements
<1>12. /\ QueueOf(rb') \in Seq(Item) /\ Len(QueueOf(rb')) = c
       /\ \A i \in 1 .. c : QueueOf(rb')[i] = rb.data[Pos(to, i)]
  <2>1. rb'.count = c /\ rb'.ridx = to /\ rb'.data = rb.data
    BY <1>8
  <2> DEFINE v == rb'
  <2>2. v \in RingT
    BY <1>10
  <2> HIDE DEF v
  <2>3. /\ QueueOf(v) \in Seq(Item) /\ Len(QueueOf(v)) = v.count
        /\ \A i \in 1 .. v.count : QueueOf(v)[i] = v.data[Pos(v.ridx, i)]
    BY <2>2, QueueElements
  <2> QED
    BY <2>1, <2>3 DEF v
<1> DEFINE q == QueueOf(rb)
           q2 == QueueOf(rb')
           first == SubSeq(q, 1, num)
           rest == SubSeq(q, num + 1, rb.count)
<1>a. \A i \in 1 .. rb.count : q[i] \in Item
  BY <1>11
<1>b. q \in Seq(Item) /\ Len(q) = rb.count /\ \A i \in 1 .. rb.count : q[i] = rb.data[Pos(r, i)]
  BY <1>11
<1>c. q2 \in Seq(Item) /\ Len(q2) = c /\ \A i \in 1 .. c : q2[i] = rb.data[Pos(to, i)]
  BY <1>12
<1> HIDE DEF q, q2, c, r
<1>13. g.out = first
  <2>1. \A i \in 1 .. num : q[i] \in Item
    BY <1>2, <1>3, <1>a
  <2>2. /\ first \in Seq(Item) /\ Len(first) = IF 1 <= num THEN num - 1 + 1 ELSE 0
        /\ \A i \in 1 .. num - 1 + 1 : first[i] = q[1 + i - 1]
    BY <1>3, <2>1, SubSeqProperties
  <2>3. Len(first) = num /\ \A i \in 1 .. num : first[i] = q[i] /\ i \in 1 .. rb.count
    BY <1>2, <1>3, <2>2
  <2> HIDE DEF first
  <2>4. \A i \in 1 .. Len(g.out) : g.out[i] = first[i]
    BY <1>6, <1>b, <2>3, Zenon
  <2> QED
    BY <1>6, <2>2, <2>3, <2>4, SeqEqual
<1>14. q2 = rest
  <2>1. \A i \in num + 1 .. rb.count : q[i] \in Item
    BY <1>2, <1>3, <1>a, SMTT(30), ZenonT(20)
  <2>2. /\ rest \in Seq(Item)
        /\ Len(rest) = IF num + 1 <= rb.count THEN rb.count - (num + 1) + 1 ELSE 0
        /\ \A i \in 1 .. rb.count - (num + 1) + 1 : rest[i] = q[(num + 1) + i - 1]
    BY <1>2, <1>3, <2>1, SubSeqProperties
  <2>3. Len(rest) = c /\ \A i \in 1 .. c : rest[i] = q[num + i]
    <3>1. rb.count - (num + 1) + 1 = c /\ (~(num + 1 <= rb.count) => c = 0)
      BY <1>2, <1>3 DEF c
    <3>2. \A i \in 1 .. c : (num + 1) + i - 1 = num + i
      BY <1>2, <1>3
    <3> HIDE DEF rest
    <3> QED
      BY <2>2, <3>1, <3>2, Zenon
  <2>4. \A i \in 1 .. c : /\ i \in 1 .. maxcnt + 1 /\ num + i <= maxcnt + 1
                          /\ num + i \in 1 .. rb.count
    BY <1>2, <1>3
  <2> HIDE DEF rest
  <2>5. \A i \in 1 .. Len(q2) : q2[i] = rest[i]
    BY <1>9, <1>b, <1>c, <2>3, <2>4, ZenonT(40)
  <2> QED
    BY <1>c, <2>2, <2>3, <2>5, SeqEqual, ZenonT(40)
<1>15. Queue = q /\ Queue' = q2
  BY DEF Queue, q, q2, QueueOf, Pos
<1>16. Queue' = SubSeq(Queue, num + 1, Len(Queue)) /\ dst' = SubSeq(Queue, 1, num)
  BY <1>4, <1>13, <1>14, <1>15, <1>b, Zenon
<1>17. num = Fifo!Least(count, Len(Queue))
  BY <1>3, <1>15, <1>b, Zenon
<1>18. Fifo!Read
  BY <1>4, <1>16, <1>17, Zenon DEF Fifo!Read
<1> QED
  BY <1>10, <1>18 DEF RingInv
-----------------------------------------------------------------------------
(* Lists                                                                   *)

Pointer == Entry \cup {Null}

ListT ==
  [front : Pointer, back : Pointer, size : Int, used : SUBSET Entry,
   data : [Entry -> Data \cup {Null}], prev : [Entry -> Pointer], next : [Entry -> Pointer]]

(* Nothing is before the first and behind the last entry.                  *)
Place(q, i) == IF i \in 1 .. Len(q) THEN q[i] ELSE Null

OneToOne(q) == \A i, j \in 1 .. Len(q) : q[i] = q[j] => i = j

(* The entries of the list are those of q, in this order.                  *)
Linked(l, q) ==
  /\ q \in Seq(Entry) /\ OneToOne(q)
  /\ \A e \in Entry : e \in l.used <=> \E i \in 1 .. Len(q) : q[i] = e
  /\ l.front = Place(q, 1) /\ l.back = Place(q, Len(q))
  /\ \A i \in 1 .. Len(q) : l.next[q[i]] = Place(q, i + 1)
  /\ \A i \in 2 .. Len(q) : l.prev[q[i]] = Place(q, i - 1)

NoneBefore(l, q) == q # << >> => l.prev[q[1]] = Null

Holds(l, q, c) == Len(c) = Len(q) /\ \A i \in 1 .. Len(q) : c[i] = l.data[q[i]]

Counted(l, q, u) == l.size >= Len(q) /\ (u # "registry" => l.size = Len(q))

ListOk(l, c, u, q) ==
  /\ Linked(l, q) /\ Holds(l, q, c) /\ Counted(l, q, u)
  /\ u = "registry" => NoneBefore(l, q)

ListInv ==
  /\ list \in ListT /\ user \in Users /\ content \in Seq(Data) /\ OneToOne(content)
  /\ \E q \in Seq(Entry) : ListOk(list, content, user, q)

LEMMA EntryFacts ==
  ASSUME Counting
  PROVE  /\ Entries \in Nat /\ Entries >= 1 /\ Entry \subseteq Nat /\ Null \notin Entry
         /\ IsFiniteSet(Entry) /\ Cardinality(Entry) = Entries
<1>1. Entries \in Nat /\ Entries >= 1
  BY ListAssumption
<1>2. IsFiniteSet(1 .. Entries) /\ Cardinality(1 .. Entries) = IF 1 > Entries THEN 0 ELSE Entries - 1 + 1
  BY <1>1 DEF Counting, CountInterval
<1> QED
  BY <1>1, <1>2 DEF Entry, Null

(* A list has no more entries than there are.                              *)
LEMMA ListFits ==
  ASSUME Counting, NEW q \in Seq(Entry), OneToOne(q)
  PROVE  Len(q) \in Nat /\ Len(q) <= Entries
<1>1. Len(q) \in Nat /\ q \in [1 .. Len(q) -> Entry]
  OBVIOUS
<1>2. q \in Injection(1 .. Len(q), Entry)
  BY <1>1 DEF Injection, IsInjective, OneToOne
<1>3. Cardinality(1 .. Len(q)) = Len(q)
  <2>0. CountInterval
    BY Zenon DEF Counting
  <2>a. 1 \in Int /\ Len(q) \in Int
    BY <1>1
  <2>1. Cardinality(1 .. Len(q)) = IF 1 > Len(q) THEN 0 ELSE Len(q) - 1 + 1
    BY <2>0, <2>a, Zenon DEF CountInterval
  <2> QED
    BY <1>1, <2>1
<1>4. Cardinality(1 .. Len(q)) <= Cardinality(Entry)
  BY <1>2, EntryFacts DEF Counting, CountInjection
<1> QED
  BY <1>1, <1>3, <1>4, EntryFacts

LEMMA PlaceType ==
  ASSUME Counting, NEW q \in Seq(Entry), NEW i \in Int
  PROVE  /\ Place(q, i) \in Pointer /\ (Place(q, i) # Null <=> i \in 1 .. Len(q))
         /\ i \in 1 .. Len(q) => Place(q, i) = q[i] /\ q[i] \in Entry
         /\ i \notin 1 .. Len(q) => Place(q, i) = Null
BY EntryFacts DEF Place, Pointer

(* list_iterate goes through the entries the list links.                   *)
LEMMA Iterates ==
  ASSUME Counting, NEW l \in ListT, NEW q, Linked(l, q)
  PROVE  list_iterate(l) = q
<1> DEFINE X == [n \in 0 .. Entries |-> {Place(q, n + 1)}]
           Step(x) == IF x = Null THEN Null ELSE l.next[x]
           G == [n \in 1 .. Entries |-> [x \in Pointer |-> Step(x)]]
           F(f) == [n \in 0 .. Entries |->
                      IF n = 0 THEN l.front ELSE IF f[n - 1] = Null THEN Null ELSE l.next[f[n - 1]]]
<1>0. /\ Entries \in Nat /\ q \in Seq(Entry) /\ Len(q) \in Nat /\ Len(q) <= Entries
  BY EntryFacts, ListFits, Zenon DEF Linked
<1>1. l.front \in X[0]
  BY <1>0 DEF Linked
<1>2. ASSUME NEW n \in 1 .. Entries, NEW x \in X[n - 1]
      PROVE  x \in Pointer /\ Step(x) \in X[n]
  <2>1. n - 1 \in 0 .. Entries /\ n \in 0 .. Entries /\ n - 1 + 1 = n /\ n \in Int /\ n + 1 \in Int
    BY <1>0
  <2>2. x = Place(q, n)
    BY <2>1, Zenon
  <2>3. Step(x) = Place(q, n + 1)
    <3>1. CASE n \in 1 .. Len(q)
      BY <1>0, <2>1, <2>2, <3>1, PlaceType, EntryFacts, Zenon DEF Linked
    <3>2. CASE n \notin 1 .. Len(q)
      <4>1. n + 1 \notin 1 .. Len(q)
        BY <1>0, <3>2
      <4> QED
        BY <1>0, <2>1, <2>2, <3>2, <4>1, PlaceType, Zenon
    <3> QED
      BY <3>1, <3>2
  <2> QED
    BY <1>0, <2>1, <2>2, <2>3, PlaceType, Zenon
<1>3. \A n \in 1 .. Entries : \A x \in X[n - 1] : G[n][x] = Step(x)
  BY <1>2, Zenon
<1> HIDE DEF X, G
<1>a. \A n \in 1 .. Entries : \A x \in X[n - 1] : G[n][x] \in X[n]
  BY <1>2, <1>3, Zenon
<1>4. PICK f : IsLoop(f, l.front, G, Entries) /\ \A n \in 0 .. Entries : f[n] \in X[n]
  BY <1>0, <1>1, <1>a, Zenon DEF Counting, LoopExists
<1>5. \E g : g = F(g)
  <2>1. \A n \in 0 .. Entries : n # 0 => n \in 1 .. Entries /\ n - 1 \in 0 .. Entries
    BY <1>0
  <2>2. \A n \in 0 .. Entries : (IF n = 0 THEN l.front ELSE G[n][f[n - 1]])
                                  = (IF n = 0 THEN l.front ELSE Step(f[n - 1]))
    BY <1>3, <1>4, <2>1
  <2>3. f = F(f)
    BY <1>4, <2>2, Zenon DEF IsLoop
  <2> QED
    BY <2>3, ZenonT(40)
<1> DEFINE at == CHOOSE g : g = F(g)
           last == Cardinality({n \in 0 .. Entries : at[n] # Null})
<1>6. at = F(at)
  <2> HIDE DEF F
  <2> QED
    BY <1>5
<1>7. list_iterate(l) = [n \in 1 .. last |-> at[n - 1]]
  BY Zenon DEF list_iterate
<1> HIDE DEF at
<1>8. at[0] = l.front /\ \A n \in 1 .. Entries : at[n] = Step(at[n - 1])
  <2>1. \A n \in 0 .. Entries : at[n] = IF n = 0 THEN l.front ELSE Step(at[n - 1])
    BY <1>6, Zenon
  <2> QED
    BY <1>0, <2>1
<1>9. \A n \in 0 .. Entries : at[n] \in X[n]
  <2> HIDE DEF Step
  <2> QED
    BY <1>0, <1>1, <1>2, <1>8, ZenonT(40) DEF Counting, LoopKeeps
<1>10. \A n \in 0 .. Entries : at[n] = Place(q, n + 1)
  BY <1>9 DEF X
<1>11. {n \in 0 .. Entries : at[n] # Null} = 0 .. Len(q) - 1
  <2>1. \A n \in 0 .. Entries : n + 1 \in Int /\ (n + 1 \in 1 .. Len(q) <=> n \in 0 .. Len(q) - 1)
    BY <1>0
  <2>2. \A n \in 0 .. Entries : at[n] # Null <=> n \in 0 .. Len(q) - 1
    BY <1>0, <1>10, <2>1, PlaceType
  <2>3. 0 .. Len(q) - 1 \subseteq 0 .. Entries
    BY <1>0
  <2> QED
    BY <2>2, <2>3, Zenon
<1>12. last = Len(q)
  <2> DEFINE S == {n \in 0 .. Entries : at[n] # Null}
             m == Len(q) - 1
  <2>1. m \in Int /\ (0 > m => Len(q) = 0) /\ m - 0 + 1 = Len(q) /\ S = 0 .. m
    BY <1>0, <1>11
  <2> HIDE DEF S, m
  <2>2. Cardinality(0 .. m) = IF 0 > m THEN 0 ELSE m - 0 + 1
    BY <2>1 DEF Counting, CountInterval
  <2>3. Cardinality(S) = Len(q)
    BY <2>1, <2>2
  <2> QED
    BY <2>3 DEF S
<1>13. \A n \in 1 .. Len(q) : at[n - 1] = q[n]
  <2>1. \A n \in 1 .. Len(q) : n - 1 \in 0 .. Entries /\ n - 1 + 1 = n /\ n \in Int
    BY <1>0
  <2> QED
    BY <1>0, <1>10, <2>1, PlaceType, Zenon
<1>14. q = [n \in 1 .. Len(q) |-> q[n]]
  BY <1>0
<1> QED
  BY <1>7, <1>12, <1>13, <1>14, Zenon

LEMMA ListFields ==
  ASSUME NEW l \in ListT
  PROVE  /\ l.front \in Pointer /\ l.back \in Pointer /\ l.size \in Int /\ l.used \subseteq Entry
         /\ l.data \in [Entry -> Data \cup {Null}]
         /\ l.prev \in [Entry -> Pointer] /\ l.next \in [Entry -> Pointer]
         /\ l = [front |-> l.front, back |-> l.back, size |-> l.size, used |-> l.used,
                 data |-> l.data, prev |-> l.prev, next |-> l.next]
BY Zenon DEF ListT

LEMMA Creates ==
  ASSUME NEW l \in ListT, NEW e \in Entry, NEW d \in Data,
         NEW c, c = _list_create_entry(l, e, d)
  PROVE  /\ c \in ListT /\ c.front = l.front /\ c.back = l.back /\ c.size = l.size
         /\ c.used = l.used \cup {e}
         /\ \A x \in Entry : /\ c.data[x] = IF x = e THEN d ELSE l.data[x]
                             /\ c.prev[x] = IF x = e THEN Null ELSE l.prev[x]
                             /\ c.next[x] = IF x = e THEN Null ELSE l.next[x]
<1> DEFINE x == Point(l.data, e, d)
           y == Point(l.prev, e, Null)
           z == Point(l.next, e, Null)
           u == l.used \cup {e}
<1>1. /\ c.front = l.front /\ c.back = l.back /\ c.size = l.size /\ c.used = u
      /\ c.data = x /\ c.prev = y /\ c.next = z
      /\ c = [front |-> c.front, back |-> c.back, size |-> c.size, used |-> c.used,
              data |-> c.data, prev |-> c.prev, next |-> c.next]
  BY Zenon DEF _list_create_entry, ListT
<1>2. /\ x \in [Entry -> Data \cup {Null}] /\ y \in [Entry -> Pointer] /\ z \in [Entry -> Pointer]
      /\ \A w \in Entry : /\ x[w] = IF w = e THEN d ELSE l.data[w]
                          /\ y[w] = IF w = e THEN Null ELSE l.prev[w]
                          /\ z[w] = IF w = e THEN Null ELSE l.next[w]
  <2>1. d \in Data \cup {Null} /\ Null \in Pointer
    BY DEF Pointer
  <2>2. /\ l.data \in [Entry -> Data \cup {Null}] /\ l.prev \in [Entry -> Pointer]
        /\ l.next \in [Entry -> Pointer]
    BY ListFields, Zenon
  <2>3. x \in [Entry -> Data \cup {Null}] /\ \A w \in Entry : x[w] = IF w = e THEN d ELSE l.data[w]
    BY <2>1, <2>2, Zenon DEF Point
  <2>4. y \in [Entry -> Pointer] /\ \A w \in Entry : y[w] = IF w = e THEN Null ELSE l.prev[w]
    BY <2>1, <2>2, Zenon DEF Point
  <2>5. z \in [Entry -> Pointer] /\ \A w \in Entry : z[w] = IF w = e THEN Null ELSE l.next[w]
    BY <2>1, <2>2 DEF Point
  <2> QED
    BY <2>3, <2>4, <2>5, Zenon
<1>3. u \subseteq Entry
  BY ListFields, Zenon
<1> HIDE DEF x, y, z, u
<1>4. c \in ListT
  BY <1>1, <1>2, <1>3, ListFields, Zenon DEF ListT
<1> QED
  BY <1>1, <1>2, <1>4 DEF u

(* list_add_back links the new entry behind the others.                    *)
LEMMA AddsBack ==
  ASSUME Counting, NEW l \in ListT, NEW q, Linked(l, q), NEW e \in Entry \ l.used, NEW d \in Data,
         NEW t, t = AddBackEntry(_list_create_entry(l, e, d), e)
  PROVE  /\ t \in ListT /\ Linked(t, Append(q, e)) /\ t.size = l.size + 1
         /\ \A x \in Entry : t.data[x] = IF x = e THEN d ELSE l.data[x]
         /\ NoneBefore(l, q) => NoneBefore(t, Append(q, e))
<1> DEFINE r == Append(q, e)
<1>1. PICK c : c = _list_create_entry(l, e, d)
  BY ZenonT(40)
<1>2. /\ q \in Seq(Entry) /\ Len(q) \in Nat /\ e \in Entry /\ e \in Pointer /\ Null \in Pointer
      /\ Null \notin Entry
  <2>1. q \in Seq(Entry)
    BY Zenon DEF Linked
  <2>2. e \in Entry /\ e \in Pointer /\ Null \in Pointer /\ Null \notin Entry
    BY EntryFacts, ZenonT(40) DEF Pointer
  <2> QED
    BY <2>1, <2>2
<1>3. /\ c \in ListT /\ c.front = l.front /\ c.back = l.back /\ c.size = l.size
      /\ c.used = l.used \cup {e}
      /\ \A x \in Entry : /\ c.data[x] = IF x = e THEN d ELSE l.data[x]
                          /\ c.prev[x] = IF x = e THEN Null ELSE l.prev[x]
                          /\ c.next[x] = IF x = e THEN Null ELSE l.next[x]
  BY <1>1, <1>2, Creates
<1>a. /\ t.front = (IF c.back = Null /\ c.front = Null THEN e ELSE c.front) /\ t.back = e
      /\ t.size = c.size + 1 /\ t.used = c.used /\ t.data = c.data
      /\ t.prev = Point(c.prev, e, c.back) /\ t.next = Point(c.next, c.back, e)
      /\ t = [front |-> t.front, back |-> t.back, size |-> t.size, used |-> t.used,
              data |-> t.data, prev |-> t.prev, next |-> t.next]
  <2>1. t = AddBackEntry(c, e)
    BY <1>1, Zenon
  <2>2. c = [front |-> c.front, back |-> c.back, size |-> c.size, used |-> c.used,
             data |-> c.data, prev |-> c.prev, next |-> c.next]
    BY <1>3, ListFields, Zenon
  <2>3. t = [front |-> IF c.back = Null /\ c.front = Null THEN e ELSE c.front, back |-> e,
             size |-> c.size + 1, used |-> c.used, data |-> c.data,
             prev |-> Point(c.prev, e, c.back), next |-> Point(c.next, c.back, e)]
    BY <2>1, <2>2, ZenonT(40) DEF AddBackEntry
  <2>4. /\ t.front = (IF c.back = Null /\ c.front = Null THEN e ELSE c.front) /\ t.back = (e)
        /\ t.size = c.size + 1 /\ t.used = c.used /\ t.data = c.data
        /\ t.prev = Point(c.prev, e, c.back) /\ t.next = Point(c.next, c.back, e)
    BY <2>3
  <2>5. t = [front |-> t.front, back |-> t.back, size |-> t.size, used |-> t.used,
             data |-> t.data, prev |-> t.prev, next |-> t.next]
    BY <2>3, <2>4, Zenon
  <2> QED
    BY <2>4, <2>5, Zenon
<1>b. /\ t.prev \in [Entry -> Pointer] /\ t.next \in [Entry -> Pointer]
      /\ \A x \in Entry : /\ t.prev[x] = IF x = e THEN c.back ELSE c.prev[x]
                          /\ t.next[x] = IF x = c.back THEN e ELSE c.next[x]
  <2>1. c.prev \in [Entry -> Pointer] /\ c.next \in [Entry -> Pointer] /\ c.back \in Pointer
    BY <1>3, ListFields, Zenon
  <2>2. t.prev \in [Entry -> Pointer] /\ \A x \in Entry : t.prev[x] = IF x = e THEN c.back ELSE c.prev[x]
    BY <1>a, <2>1 DEF Point
  <2>3. t.next \in [Entry -> Pointer] /\ \A x \in Entry : t.next[x] = IF x = c.back THEN e ELSE c.next[x]
    BY <1>2, <1>a, <2>1, SMTT(30), ZenonT(20) DEF Point
  <2> QED
    BY <2>2, <2>3, Zenon
<1>4. /\ t.front = (IF l.back = Null /\ l.front = Null THEN e ELSE l.front) /\ t.back = e
      /\ t.size = l.size + 1 /\ t.used = l.used \cup {e}
      /\ \A x \in Entry : t.data[x] = IF x = e THEN d ELSE l.data[x]
      /\ \A x \in Entry : t.prev[x] = IF x = e THEN l.back ELSE l.prev[x]
      /\ \A x \in Entry : t.next[x] = IF x = l.back THEN e ELSE IF x = e THEN Null ELSE l.next[x]
  BY <1>3, <1>a, <1>b, SMTT(30), ZenonT(20)
<1>5. t \in ListT
  <2>1. t.front \in Pointer /\ t.size \in Int
    BY <1>2, <1>3, <1>a, ListFields
  <2>2. t.used \subseteq Entry /\ t.data \in [Entry -> Data \cup {Null}]
    BY <1>3, <1>a, ListFields, ZenonT(40)
  <2> QED
    BY <1>2, <1>a, <1>b, <2>1, <2>2, SMTT(30), ZenonT(20) DEF ListT
<1>6. /\ r \in Seq(Entry) /\ Len(r) = Len(q) + 1 /\ r[Len(q) + 1] = e
      /\ \A i \in 1 .. Len(q) : r[i] = q[i] /\ q[i] \in Entry /\ q[i] # e /\ i \in 1 .. Len(r)
      /\ \A i \in 1 .. Len(r) : i \in 1 .. Len(q) \/ i = Len(q) + 1
      /\ Len(q) + 1 \in 1 .. Len(r)
  BY <1>2 DEF Linked
<1> HIDE DEF r
<1>7. OneToOne(r)
  <2>1. OneToOne(q)
    BY Zenon DEF Linked
  <2> QED
    BY <1>6, <2>1, Zenon DEF OneToOne
<1>8. \A x \in Entry : x \in t.used <=> \E i \in 1 .. Len(r) : r[i] = x
  <2>1. \A x \in Entry : x \in l.used <=> \E i \in 1 .. Len(q) : q[i] = x
    BY Zenon DEF Linked
  <2>2. \A x \in Entry : x \in t.used <=> x \in l.used \/ x = e
    BY <1>4
  <2>3. ASSUME NEW x \in Entry
        PROVE  (\E i \in 1 .. Len(r) : r[i] = x) <=> (\E i \in 1 .. Len(q) : q[i] = x) \/ x = e
    BY <1>6, ZenonT(40)
  <2> QED
    BY <2>1, <2>2, <2>3, Zenon
<1>9. l.back = Place(q, Len(q)) /\ l.front = Place(q, 1)
  BY Zenon DEF Linked
<1>10. t.front = Place(r, 1) /\ t.back = Place(r, Len(r))
  <2>1. t.back = Place(r, Len(r))
    BY <1>2, <1>4, <1>6 DEF Place
  <2>2. CASE Len(q) = 0
    BY <1>2, <1>4, <1>6, <1>9, <2>2, SMTT(30), ZenonT(20) DEF Place
  <2>3. CASE Len(q) > 0
    BY <1>2, <1>4, <1>6, <1>9, <2>3 DEF Place
  <2> QED
    BY <1>2, <2>1, <2>2, <2>3
<1>11. ASSUME NEW i \in 1 .. Len(r)
       PROVE  t.next[r[i]] = Place(r, i + 1)
  <2>1. CASE i = Len(q) + 1
    <3>1. l.back # e
      BY <1>2, <1>6, <1>9, ZenonT(40) DEF Place
    <3> QED
      BY <1>2, <1>4, <1>6, <2>1, <3>1 DEF Place
  <2>2. CASE i \in 1 .. Len(q)
    <3>1. r[i] = l.back <=> i = Len(q)
      <4>1. OneToOne(q) /\ Len(q) \in 1 .. Len(q) /\ l.back = q[Len(q)]
        BY <1>2, <1>9, <2>2, SMTT(30), ZenonT(20) DEF Linked, Place
      <4> QED
        BY <1>6, <2>2, <4>1, ZenonT(40) DEF OneToOne
    <3>2. i # Len(q) => i + 1 \in 1 .. Len(q) /\ Place(r, i + 1) = Place(q, i + 1)
      BY <1>2, <1>6, <2>2 DEF Place
    <3>3. i = Len(q) => Place(r, i + 1) = e
      BY <1>2, <1>6 DEF Place
    <3>4. l.next[q[i]] = Place(q, i + 1)
      BY <2>2, Zenon DEF Linked
    <3> QED
      BY <1>4, <1>6, <2>2, <3>1, <3>2, <3>3, <3>4
  <2> QED
    BY <1>6, <2>1, <2>2, ZenonT(40)
<1>12. ASSUME NEW i \in 2 .. Len(r)
       PROVE  t.prev[r[i]] = Place(r, i - 1)
  <2>1. i - 1 \in 1 .. Len(q) /\ Place(r, i - 1) = Place(q, i - 1) /\ i \in 1 .. Len(r)
    BY <1>2, <1>6, SMTT(30), ZenonT(20) DEF Place
  <2>2. CASE i = Len(q) + 1
    BY <1>2, <1>4, <1>6, <1>9, <2>1, <2>2, SMTT(30), ZenonT(20)
  <2>3. CASE i \in 1 .. Len(q)
    <3>1. i \in 2 .. Len(q)
      BY <1>2, <2>3
    <3>2. l.prev[q[i]] = Place(q, i - 1)
      BY <3>1, Zenon DEF Linked
    <3> QED
      BY <1>4, <1>6, <2>1, <2>3, <3>2, SMTT(30), ZenonT(20)
  <2> QED
    BY <1>6, <2>1, <2>2, <2>3, ZenonT(40)
<1>13. Linked(t, r)
  BY <1>6, <1>7, <1>8, <1>10, <1>11, <1>12, Zenon DEF Linked
<1>14. NoneBefore(l, q) => NoneBefore(t, r)
  <2>1. CASE Len(q) = 0
    BY <1>2, <1>4, <1>6, <1>9, <2>1, SMTT(30), ZenonT(20) DEF NoneBefore, Place
  <2>2. CASE Len(q) > 0
    <3>1. 1 \in 1 .. Len(q) /\ q # << >>
      BY <1>2, <2>2
    <3> QED
      BY <1>4, <1>6, <3>1, SMTT(30), ZenonT(20) DEF NoneBefore
  <2> QED
    BY <1>2, <2>1, <2>2, SMTT(30), ZenonT(20)
<1> QED
  BY <1>4, <1>5, <1>13, <1>14, Zenon DEF r
(* list_add_front links it before the others.                               *)
LEMMA AddsFront ==
  ASSUME Counting, NEW l \in ListT, NEW q, Linked(l, q), NEW e \in Entry \ l.used, NEW d \in Data,
         NEW t, t = AddFrontEntry(_list_create_entry(l, e, d), e)
  PROVE  /\ t \in ListT /\ Linked(t, <<e>> \o q) /\ t.size = l.size + 1
         /\ \A x \in Entry : t.data[x] = IF x = e THEN d ELSE l.data[x]
<1> DEFINE r == <<e>> \o q
<1>1. PICK c : c = _list_create_entry(l, e, d)
  BY Zenon
<1>2. /\ q \in Seq(Entry) /\ Len(q) \in Nat /\ e \in Entry /\ e \in Pointer /\ Null \in Pointer
      /\ Null \notin Entry
  <2>1. q \in Seq(Entry)
    BY Zenon DEF Linked
  <2>2. e \in Entry /\ e \in Pointer /\ Null \in Pointer /\ Null \notin Entry
    BY EntryFacts, Zenon DEF Pointer
  <2> QED
    BY <2>1, <2>2
<1>3. /\ c \in ListT /\ c.front = l.front /\ c.back = l.back /\ c.size = l.size
      /\ c.used = l.used \cup {e}
      /\ \A x \in Entry : /\ c.data[x] = IF x = e THEN d ELSE l.data[x]
                          /\ c.prev[x] = IF x = e THEN Null ELSE l.prev[x]
                          /\ c.next[x] = IF x = e THEN Null ELSE l.next[x]
  BY <1>1, <1>2, Creates
<1>a. /\ t.back = (IF c.front = Null /\ c.back = Null THEN e ELSE c.back) /\ t.front = e
      /\ t.size = c.size + 1 /\ t.used = c.used /\ t.data = c.data
      /\ t.prev = Point(c.prev, c.front, e) /\ t.next = Point(c.next, e, c.front)
      /\ t = [front |-> t.front, back |-> t.back, size |-> t.size, used |-> t.used,
              data |-> t.data, prev |-> t.prev, next |-> t.next]
  <2>1. t = AddFrontEntry(c, e)
    BY <1>1, Zenon
  <2>2. c = [front |-> c.front, back |-> c.back, size |-> c.size, used |-> c.used,
             data |-> c.data, prev |-> c.prev, next |-> c.next]
    BY <1>3, ListFields, Zenon
  <2>3. t = [front |-> e, back |-> IF c.front = Null /\ c.back = Null THEN e ELSE c.back,
             size |-> c.size + 1, used |-> c.used, data |-> c.data,
             prev |-> Point(c.prev, c.front, e), next |-> Point(c.next, e, c.front)]
    BY <2>1, <2>2, ZenonT(40) DEF AddFrontEntry
  <2>4. /\ t.front = (e) /\ t.back = (IF c.front = Null /\ c.back = Null THEN e ELSE c.back)
        /\ t.size = c.size + 1 /\ t.used = c.used /\ t.data = c.data
        /\ t.prev = Point(c.prev, c.front, e) /\ t.next = Point(c.next, e, c.front)
    BY <2>3
  <2>5. t = [front |-> t.front, back |-> t.back, size |-> t.size, used |-> t.used,
             data |-> t.data, prev |-> t.prev, next |-> t.next]
    BY <2>3, <2>4, Zenon
  <2> QED
    BY <2>4, <2>5, Zenon
<1>b. /\ t.prev \in [Entry -> Pointer] /\ t.next \in [Entry -> Pointer]
      /\ \A x \in Entry : /\ t.prev[x] = IF x = c.front THEN e ELSE c.prev[x]
                          /\ t.next[x] = IF x = e THEN c.front ELSE c.next[x]
  <2>1. c.prev \in [Entry -> Pointer] /\ c.next \in [Entry -> Pointer] /\ c.front \in Pointer
    BY <1>3, ListFields, Zenon
  <2>2. t.prev \in [Entry -> Pointer] /\ \A x \in Entry : t.prev[x] = IF x = c.front THEN e ELSE c.prev[x]
    BY <1>2, <1>a, <2>1 DEF Point
  <2>3. t.next \in [Entry -> Pointer] /\ \A x \in Entry : t.next[x] = IF x = e THEN c.front ELSE c.next[x]
    BY <1>2, <1>a, <2>1 DEF Point
  <2> QED
    BY <2>2, <2>3, Zenon
<1>4. /\ t.back = (IF l.front = Null /\ l.back = Null THEN e ELSE l.back) /\ t.front = e
      /\ t.size = l.size + 1 /\ t.used = l.used \cup {e}
      /\ \A x \in Entry : t.data[x] = IF x = e THEN d ELSE l.data[x]
      /\ \A x \in Entry : t.prev[x] = IF x = l.front THEN e ELSE IF x = e THEN Null ELSE l.prev[x]
      /\ \A x \in Entry : t.next[x] = IF x = e THEN l.front ELSE l.next[x]
  BY <1>3, <1>a, <1>b
<1>5. t \in ListT
  <2>1. t.back \in Pointer /\ t.size \in Int
    BY <1>2, <1>3, <1>a, ListFields
  <2>2. t.used \subseteq Entry /\ t.data \in [Entry -> Data \cup {Null}]
    BY <1>3, <1>a, ListFields, ZenonT(40)
  <2> QED
    BY <1>2, <1>a, <1>b, <2>1, <2>2 DEF ListT
<1>6. /\ r \in Seq(Entry) /\ Len(r) = Len(q) + 1 /\ r[1] = e
      /\ \A i \in 1 .. Len(q) : r[i + 1] = q[i] /\ q[i] \in Entry /\ q[i] # e /\ i + 1 \in 1 .. Len(r)
      /\ \A i \in 1 .. Len(r) : i = 1 \/ (i - 1 \in 1 .. Len(q) /\ r[i] = q[i - 1] /\ i = i - 1 + 1)
      /\ 1 \in 1 .. Len(r)
  BY <1>2, SMTT(30), ZenonT(20) DEF Linked
<1> HIDE DEF r
<1>7. OneToOne(r)
  <2>1. OneToOne(q)
    BY Zenon DEF Linked
  <2>2. SUFFICES ASSUME NEW i \in 1 .. Len(r), NEW j \in 1 .. Len(r), r[i] = r[j] PROVE i = j
    BY Zenon DEF OneToOne
  <2>3. CASE i = 1 \/ j = 1
    <3>1. ASSUME NEW k \in 1 .. Len(r), k # 1 PROVE r[k] # e
      <4>1. k - 1 \in 1 .. Len(q) /\ r[k] = q[k - 1]
        BY <1>6, <3>1, Zenon
      <4>2. q[k - 1] # e
        BY <1>6, <4>1, ZenonT(40)
      <4> QED
        BY <4>1, <4>2, Zenon
    <3> QED
      BY <1>6, <2>2, <2>3, <3>1, Zenon
  <2>4. CASE i # 1 /\ j # 1
    <3>1. i - 1 = j - 1
      BY <1>6, <2>1, <2>2, <2>4, SMTT(30), ZenonT(20) DEF OneToOne
    <3> QED
      BY <1>6, <2>4, <3>1
  <2> QED
    BY <2>3, <2>4
<1>8. \A x \in Entry : x \in t.used <=> \E i \in 1 .. Len(r) : r[i] = x
  <2>1. \A x \in Entry : x \in l.used <=> \E i \in 1 .. Len(q) : q[i] = x
    BY Zenon DEF Linked
  <2>2. \A x \in Entry : x \in t.used <=> x \in l.used \/ x = e
    BY <1>4, Zenon
  <2>3. ASSUME NEW x \in Entry
        PROVE  (\E i \in 1 .. Len(r) : r[i] = x) <=> (\E i \in 1 .. Len(q) : q[i] = x) \/ x = e
    <3>1. ASSUME NEW i \in 1 .. Len(r), r[i] = x PROVE (\E j \in 1 .. Len(q) : q[j] = x) \/ x = e
      BY <1>6, <3>1, Zenon
    <3>2. ASSUME NEW j \in 1 .. Len(q), q[j] = x PROVE \E i \in 1 .. Len(r) : r[i] = x
      BY <1>6, <3>2, Zenon
    <3>3. x = e => \E i \in 1 .. Len(r) : r[i] = x
      BY <1>6, ZenonT(40)
    <3> QED
      BY <3>1, <3>2, <3>3, Zenon
  <2> QED
    BY <2>1, <2>2, <2>3, Zenon
<1>9. l.back = Place(q, Len(q)) /\ l.front = Place(q, 1)
  BY Zenon DEF Linked
<1>10. t.front = Place(r, 1) /\ t.back = Place(r, Len(r))
  <2>1. t.front = Place(r, 1)
    BY <1>4, <1>6, ZenonT(40) DEF Place
  <2>2. CASE Len(q) = 0
    BY <1>2, <1>4, <1>6, <1>9, <2>2, SMTT(30), ZenonT(20) DEF Place
  <2>3. CASE Len(q) > 0
    BY <1>2, <1>4, <1>6, <1>9, <2>3 DEF Place
  <2> QED
    BY <1>2, <2>1, <2>2, <2>3
<1>a1. \A i \in 1 .. Len(q) : Place(r, i + 1) = Place(q, i)
  BY <1>2, <1>6, Zenon DEF Place
<1>11. ASSUME NEW i \in 1 .. Len(r)
       PROVE  t.next[r[i]] = Place(r, i + 1)
  <2>1. CASE i = 1
    <3>1. t.next[r[i]] = Place(q, 1)
      BY <1>2, <1>4, <1>6, <1>9, <2>1, ZenonT(40)
    <3>2. CASE Len(q) = 0
      BY <1>2, <1>6, <2>1, <3>1, <3>2, SMTT(30), ZenonT(20) DEF Place
    <3>3. CASE Len(q) > 0
      BY <1>2, <1>a1, <2>1, <3>1, <3>3, SMTT(30), ZenonT(20)
    <3> QED
      BY <1>2, <3>2, <3>3
  <2>2. CASE i # 1
    <3>1. i - 1 \in 1 .. Len(q) /\ r[i] = q[i - 1] /\ i - 1 + 1 = i
      BY <1>6, <2>2, ZenonT(40)
    <3>2. l.next[q[i - 1]] = Place(q, i)
      BY <3>1, Zenon DEF Linked
    <3>3. Place(r, i + 1) = Place(q, i)
      <4>1. CASE i \in 1 .. Len(q)
        BY <1>a1, <4>1, Zenon
      <4>2. CASE i \notin 1 .. Len(q)
        <5>1. i + 1 \notin 1 .. Len(r)
          BY <1>2, <1>6, <3>1, <4>2
        <5> QED
          BY <4>2, <5>1, ZenonT(40) DEF Place
      <4> QED
        BY <4>1, <4>2, Zenon
    <3> QED
      BY <1>4, <1>6, <3>1, <3>2, <3>3
  <2> QED
    BY <2>1, <2>2, Zenon
<1>12. ASSUME NEW i \in 2 .. Len(r)
       PROVE  t.prev[r[i]] = Place(r, i - 1)
  <2>1. PICK j \in 1 .. Len(q) : j = i - 1 /\ r[i] = q[j] /\ q[j] \in Entry /\ q[j] # e
    BY <1>2, <1>6, SMTT(30), ZenonT(20)
  <2>2. CASE j = 1
    <3>1. l.front = q[j]
      BY <1>9, <2>1, <2>2, Zenon DEF Place
    <3>2. Place(r, j) = e
      BY <1>6, <2>2 DEF Place
    <3> QED
      BY <1>4, <2>1, <3>1, <3>2
  <2>3. CASE j # 1
    <3>1. j \in 2 .. Len(q) /\ j - 1 \in 1 .. Len(q) /\ j - 1 + 1 = j /\ 1 \in 1 .. Len(q)
      BY <1>2, <2>1, <2>3
    <3>2. l.prev[q[j]] = Place(q, j - 1)
      BY <3>1, Zenon DEF Linked
    <3>3. l.front # q[j]
      <4>1. OneToOne(q) /\ l.front = q[1]
        BY <1>9, <3>1, ZenonT(40) DEF Linked, Place
      <4> QED
        BY <2>3, <3>1, <4>1, Zenon DEF OneToOne
    <3>4. Place(r, j) = Place(q, j - 1)
      BY <1>a1, <3>1
    <3> QED
      BY <1>4, <2>1, <3>2, <3>3, <3>4, ZenonT(40)
  <2> QED
    BY <2>2, <2>3, Zenon
<1>13. Linked(t, r)
  BY <1>6, <1>7, <1>8, <1>10, <1>11, <1>12, Zenon DEF Linked
<1> QED
  BY <1>4, <1>5, <1>13, Zenon DEF r

(* list_del_front unlinks the first entry.                                 *)
LEMMA DeletesFront ==
  ASSUME Counting, NEW l \in ListT, NEW q, Linked(l, q), q # << >>, NEW t, t = list_del_front(l)
  PROVE  t \in ListT /\ Linked(t, Tail(q)) /\ t.size = l.size - 1 /\ t.data = l.data
<1> DEFINE r == Tail(q)
<1>1. /\ q \in Seq(Entry) /\ Len(q) \in Nat /\ Len(q) >= 1 /\ 1 \in 1 .. Len(q) /\ OneToOne(q)
      /\ q[1] \in Entry /\ Null \in Pointer /\ Null \notin Entry
  BY EntryFacts DEF Linked, Pointer
<1>2. l.front = q[1] /\ l.back = q[Len(q)] /\ l.next[q[1]] = Place(q, 2) /\ ~list_empty(l)
  BY <1>1 DEF Linked, Place, list_empty
<1>3. /\ t.front = l.next[l.front] /\ t.back = (IF l.back = l.front THEN Null ELSE l.back)
      /\ t.size = l.size - 1 /\ t.used = l.used \ {l.front}
      /\ t.data = l.data /\ t.prev = l.prev /\ t.next = l.next
      /\ t = [front |-> t.front, back |-> t.back, size |-> t.size, used |-> t.used,
              data |-> t.data, prev |-> t.prev, next |-> t.next]
  BY <1>2, Zenon DEF list_del_front, _list_delete_entry, ListT
<1>4. t \in ListT
  <2>1. t.front \in Pointer /\ t.back \in Pointer /\ t.size \in Int /\ t.used \subseteq Entry
    BY <1>1, <1>2, <1>3, ListFields
  <2> QED
    BY <1>3, <2>1, ListFields, Zenon DEF ListT
<1>5. /\ r \in Seq(Entry) /\ Len(r) = Len(q) - 1
      /\ \A i \in 1 .. Len(r) : r[i] = q[i + 1] /\ i + 1 \in 1 .. Len(q) /\ q[i + 1] \in Entry
      /\ \A i \in 1 .. Len(q) : i # 1 => i - 1 \in 1 .. Len(r) /\ i - 1 + 1 = i
  BY <1>1
<1> HIDE DEF r
<1>6. \A i \in Nat : i >= 1 => Place(r, i) = Place(q, i + 1)
  BY <1>1, <1>5 DEF Place
<1>7. OneToOne(r)
  <2>1. SUFFICES ASSUME NEW i \in 1 .. Len(r), NEW j \in 1 .. Len(r), r[i] = r[j] PROVE i = j
    BY Zenon DEF OneToOne
  <2>2. i + 1 = j + 1
    BY <1>1, <1>5, <2>1, SMTT(30), ZenonT(20) DEF OneToOne
  <2> QED
    BY <2>2
<1>8. ASSUME NEW x \in Entry
      PROVE  x \in t.used <=> \E i \in 1 .. Len(r) : r[i] = x
  <2>1. x \in l.used <=> \E i \in 1 .. Len(q) : q[i] = x
    BY Zenon DEF Linked
  <2>2. x \in t.used <=> x \in l.used /\ x # q[1]
    BY <1>2, <1>3
  <2>3. x \in t.used => \E i \in 1 .. Len(r) : r[i] = x
    <3>1. SUFFICES ASSUME x \in t.used PROVE \E i \in 1 .. Len(r) : r[i] = x
      BY Zenon
    <3>2. PICK i \in 1 .. Len(q) : q[i] = x /\ i # 1
      BY <2>1, <2>2, <3>1, Zenon
    <3> QED
      BY <1>5, <3>2, ZenonT(40)
  <2>4. (\E i \in 1 .. Len(r) : r[i] = x) => x \in t.used
    <3>1. SUFFICES ASSUME NEW i \in 1 .. Len(r), r[i] = x PROVE x \in t.used
      BY Zenon
    <3>2. i + 1 \in 1 .. Len(q) /\ q[i + 1] = x /\ i + 1 # 1
      BY <1>5, <3>1
    <3>3. x # q[1]
      BY <1>1, <3>2, Zenon DEF OneToOne
    <3> QED
      BY <2>1, <2>2, <3>2, <3>3, Zenon
  <2> QED
    BY <2>3, <2>4, Zenon
<1>9. t.front = Place(r, 1) /\ t.back = Place(r, Len(r))
  <2>1. t.front = Place(r, 1)
    BY <1>2, <1>3, <1>6
  <2>2. CASE Len(q) = 1
    BY <1>2, <1>3, <1>5, <2>1, <2>2 DEF Place
  <2>3. CASE Len(q) # 1
    <3>1. Len(q) \in 1 .. Len(q) /\ Len(q) # 1 /\ Len(r) \in 1 .. Len(r) /\ Len(r) + 1 = Len(q)
      BY <1>1, <1>5, <2>3
    <3>2. q[Len(q)] # q[1]
      BY <1>1, <3>1, Zenon DEF OneToOne
    <3>3. t.back = q[Len(r) + 1]
      BY <1>2, <1>3, <3>1, <3>2, ZenonT(40)
    <3> QED
      BY <1>5, <2>1, <3>1, <3>3, Zenon DEF Place
  <2> QED
    BY <2>2, <2>3, Zenon
<1>10. ASSUME NEW i \in 1 .. Len(r)
       PROVE  t.next[r[i]] = Place(r, i + 1)
  <2>1. l.next[q[i + 1]] = Place(q, i + 1 + 1)
    BY <1>5, Zenon DEF Linked
  <2>2. Place(r, i + 1) = Place(q, i + 1 + 1)
    BY <1>6
  <2> QED
    BY <1>3, <1>5, <2>1, <2>2
<1>11. ASSUME NEW i \in 2 .. Len(r)
       PROVE  t.prev[r[i]] = Place(r, i - 1)
  <2>1. /\ i \in 1 .. Len(r) /\ i + 1 \in 2 .. Len(q) /\ i + 1 - 1 = i /\ i - 1 + 1 = i
        /\ i - 1 \in Nat /\ i - 1 >= 1
    BY <1>1, <1>5
  <2>2. l.prev[q[i + 1]] = Place(q, i)
    BY <2>1 DEF Linked
  <2>3. Place(r, i - 1) = Place(q, i)
    BY <1>6, <2>1, Zenon
  <2> QED
    BY <1>3, <1>5, <2>1, <2>2, <2>3, Zenon
<1>12. Linked(t, r)
  BY <1>5, <1>7, <1>8, <1>9, <1>10, <1>11, Zenon DEF Linked
<1> QED
  BY <1>3, <1>4, <1>12, Zenon DEF r

(* What is behind the removed element moves up.                            *)
Moved(k, i) == IF i < k THEN i ELSE i + 1

LEMMA RemovedAt ==
  ASSUME NEW S, NEW q \in Seq(S), NEW k \in 1 .. Len(q)
  PROVE  /\ Without(q, k) \in Seq(S) /\ Len(Without(q, k)) = Len(q) - 1
         /\ \A i \in 1 .. Len(q) - 1 : /\ Without(q, k)[i] = q[Moved(k, i)]
                                       /\ Moved(k, i) \in 1 .. Len(q) /\ Moved(k, i) # k
<1> DEFINE a == SubSeq(q, 1, k - 1)
           b == SubSeq(q, k + 1, Len(q))
<1>1. Len(q) \in Nat /\ k \in Nat /\ 1 <= k /\ k <= Len(q)
  OBVIOUS
<1>2. a \in Seq(S) /\ Len(a) = k - 1 /\ \A i \in 1 .. k - 1 : a[i] = q[i]
  BY <1>1
<1>3. b \in Seq(S) /\ Len(b) = Len(q) - k /\ \A i \in 1 .. Len(q) - k : b[i] = q[k + i]
  <2>1. k + 1 \in 1 .. Len(q) + 1 /\ Len(q) \in k + 1 - 1 .. Len(q) /\ Len(q) - (k + 1) + 1 = Len(q) - k
    BY <1>1
  <2>2. /\ b \in Seq(S)
        /\ Len(b) = IF k + 1 <= Len(q) THEN Len(q) - (k + 1) + 1 ELSE 0
        /\ \A i \in 1 .. Len(q) - (k + 1) + 1 : b[i] = q[k + 1 + i - 1]
    BY <1>1, <2>1, SubSeqProperties
  <2>h. Len(q) \in Nat /\ k \in Nat /\ 1 <= k /\ k <= Len(q)
    BY <1>1, Zenon
  <2> HIDE DEF b
  <2>3. \A i \in 1 .. Len(q) - k : k + 1 + i - 1 = k + i
    BY ONLY <2>h
  <2>4. Len(b) = Len(q) - k
    BY ONLY <2>h, <2>2
  <2>5. \A i \in 1 .. Len(q) - k : b[i] = q[k + i]
    BY <2>1, <2>2, <2>3, Zenon
  <2> QED
    BY <2>2, <2>4, <2>5, Zenon
<1> HIDE DEF a, b
<1>4. a \o b \in Seq(S) /\ Len(a \o b) = Len(q) - 1
  <2>1. a \o b \in Seq(S) /\ Len(a \o b) = Len(a) + Len(b)
    BY <1>2, <1>3, ConcatProperties, Zenon
  <2> QED
    BY <1>1, <1>2, <1>3, <2>1
<1>5. ASSUME NEW i \in 1 .. Len(q) - 1
      PROVE  (a \o b)[i] = q[Moved(k, i)] /\ Moved(k, i) \in 1 .. Len(q) /\ Moved(k, i) # k
  <2>1. CASE i < k
    <3>1. (a \o b)[i] = a[i]
      BY <1>1, <1>2, <1>3, <2>1
    <3> QED
      BY <1>1, <1>2, <2>1, <3>1 DEF Moved
  <2>2. CASE ~(i < k)
    <3>1. (a \o b)[i] = b[i - Len(a)]
      BY <1>1, <1>2, <1>3, <2>2
    <3>2. i - Len(a) \in 1 .. Len(q) - k /\ k + (i - Len(a)) = i + 1
      BY <1>1, <1>2, <2>2
    <3> QED
      BY <1>1, <1>3, <2>2, <3>1, <3>2, SMTT(30), ZenonT(20) DEF Moved
  <2> QED
    BY <2>1, <2>2, Zenon
<1>6. Without(q, k) = a \o b
  BY DEF Without, a, b
<1> QED
  BY <1>4, <1>5, <1>6, Zenon

LEMMA MovedApart ==
  ASSUME NEW k \in Nat, NEW i \in Nat, NEW j \in Nat, Moved(k, i) = Moved(k, j)
  PROVE  i = j
BY DEF Moved

(* list_del_entry unlinks an entry from wherever it is.                    *)
LEMMA DeletesEntry ==
  ASSUME Counting, NEW l \in ListT, NEW q, Linked(l, q), NoneBefore(l, q), NEW k \in 1 .. Len(q),
         NEW t, t = list_del_entry(l, q[k])
  PROVE  /\ t \in ListT /\ Linked(t, Without(q, k)) /\ NoneBefore(t, Without(q, k))
         /\ t.size = l.size /\ t.data = l.data
<1> DEFINE r == Without(q, k)
           n == Place(q, k + 1)
           p == Place(q, k - 1)
           m == Len(q) - 1
<1>1. /\ q \in Seq(Entry) /\ Len(q) \in Nat /\ 1 \in 1 .. Len(q) /\ OneToOne(q)
      /\ q[k] \in Entry /\ Null \in Pointer /\ Null \notin Entry
      /\ k \in Nat /\ k \in Int /\ 1 <= k /\ k <= Len(q) /\ k + 1 \in Int /\ k - 1 \in Int
      /\ m \in Nat /\ Len(q) = m + 1
  BY EntryFacts DEF Linked, Pointer
<1>2. n \in Pointer /\ p \in Pointer
  BY <1>1, PlaceType, Zenon
<1>3. l.next[q[k]] = n /\ l.prev[q[k]] = p
  <2>1. l.next[q[k]] = n
    BY Zenon DEF Linked
  <2>2. CASE k = 1
    <3>1. p = Null /\ q # << >>
      BY <1>1, <2>2 DEF Place
    <3> QED
      BY <2>1, <2>2, <3>1, Zenon DEF NoneBefore
  <2>3. CASE k # 1
    <3>1. k \in 2 .. Len(q)
      BY <1>1, <2>3
    <3> QED
      BY <2>1, <3>1, Zenon DEF Linked
  <2> QED
    BY <2>2, <2>3, Zenon
<1>4. l.front = q[1] /\ l.back = q[m + 1]
  BY <1>1 DEF Linked, Place
<1>5. /\ t.front = (IF l.front = q[k] THEN n ELSE l.front) /\ t.back = (IF l.back = q[k] THEN p ELSE l.back)
      /\ t.size = l.size /\ t.used = l.used \ {q[k]} /\ t.data = l.data
      /\ t.prev = Point(l.prev, n, p) /\ t.next = Point(l.next, p, n)
      /\ t = [front |-> t.front, back |-> t.back, size |-> t.size, used |-> t.used,
              data |-> t.data, prev |-> t.prev, next |-> t.next]
  <2> HIDE DEF n, p
  <2> QED
    BY <1>3, Zenon DEF list_del_entry, _list_delete_entry, ListT
<1>6. /\ t.prev \in [Entry -> Pointer] /\ t.next \in [Entry -> Pointer]
      /\ \A x \in Entry : /\ t.prev[x] = IF x = n THEN p ELSE l.prev[x]
                          /\ t.next[x] = IF x = p THEN n ELSE l.next[x]
  <2> HIDE DEF n, p
  <2>1. l.prev \in [Entry -> Pointer] /\ l.next \in [Entry -> Pointer]
    BY ListFields
  <2> QED
    BY <1>2, <1>5, <2>1 DEF Point
<1>7. t \in ListT
  <2>1. t.front \in Pointer /\ t.back \in Pointer /\ t.size \in Int /\ t.used \subseteq Entry
    BY <1>2, <1>5, ListFields
  <2> QED
    BY <1>5, <1>6, <2>1, ListFields, ZenonT(40) DEF ListT
<1>8. /\ r \in Seq(Entry) /\ Len(r) = m
      /\ \A i \in 1 .. m : /\ r[i] = q[Moved(k, i)] /\ Moved(k, i) \in 1 .. Len(q) /\ Moved(k, i) # k
                           /\ q[Moved(k, i)] \in Entry
  <2>1. /\ r \in Seq(Entry) /\ Len(r) = m
        /\ \A i \in 1 .. m : r[i] = q[Moved(k, i)] /\ Moved(k, i) \in 1 .. Len(q) /\ Moved(k, i) # k
    BY <1>1, RemovedAt, ZenonT(40)
  <2>2. \A j \in 1 .. Len(q) : q[j] \in Entry
    BY <1>1
  <2> QED
    BY <2>1, <2>2, Zenon
<1> HIDE DEF r, n, p, m
<1>9. OneToOne(r)
  <2>1. SUFFICES ASSUME NEW i \in 1 .. m, NEW j \in 1 .. m, r[i] = r[j] PROVE i = j
    BY <1>8, Zenon DEF OneToOne
  <2>2. Moved(k, i) = Moved(k, j)
    BY <1>1, <1>8, <2>1, ZenonT(40) DEF OneToOne
  <2>3. i \in Nat /\ j \in Nat
    BY <1>1
  <2> QED
    BY <1>1, <2>2, <2>3, MovedApart, Zenon
<1>10. ASSUME NEW x \in Entry
       PROVE  x \in t.used <=> \E i \in 1 .. m : r[i] = x
  <2>1. x \in l.used <=> \E i \in 1 .. Len(q) : q[i] = x
    BY ZenonT(40) DEF Linked
  <2>2. x \in t.used <=> x \in l.used /\ x # q[k]
    BY <1>5, Zenon
  <2>3. x \in t.used => \E i \in 1 .. m : r[i] = x
    <3>1. SUFFICES ASSUME x \in t.used PROVE \E i \in 1 .. m : r[i] = x
      BY Zenon
    <3>2. PICK j \in 1 .. Len(q) : q[j] = x /\ j # k
      BY <2>1, <2>2, <3>1, Zenon
    <3>3. CASE j < k
      <4>1. j \in 1 .. m /\ Moved(k, j) = j
        BY <1>1, <3>3 DEF Moved
      <4> QED
        BY <1>8, <3>2, <4>1, Zenon
    <3>4. CASE j > k
      <4>1. j - 1 \in 1 .. m /\ Moved(k, j - 1) = j
        BY <1>1, <3>4 DEF Moved
      <4> QED
        BY <1>8, <3>2, <4>1, Zenon
    <3> QED
      BY <1>1, <3>2, <3>3, <3>4
  <2>4. (\E i \in 1 .. m : r[i] = x) => x \in t.used
    <3>1. SUFFICES ASSUME NEW i \in 1 .. m, r[i] = x PROVE x \in t.used
      BY Zenon
    <3>2. PICK j \in 1 .. Len(q) : q[j] = x /\ j # k
      BY <1>8, <3>1, Zenon
    <3>3. x # q[k]
      BY <1>1, <3>2 DEF OneToOne
    <3> QED
      BY <2>1, <2>2, <3>2, <3>3, Zenon
  <2> QED
    BY <2>3, <2>4
<1>11. /\ \A i \in Int : i < k => Place(r, i) = Place(q, i)
       /\ \A i \in Int : i >= k => Place(r, i) = Place(q, i + 1)
  <2>1. ASSUME NEW i \in Int, i < k PROVE Place(r, i) = Place(q, i)
    <3>1. i \in 1 .. Len(r) <=> i \in 1 .. Len(q)
      BY <1>1, <1>8, <2>1
    <3>2. Moved(k, i) = i
      BY <2>1 DEF Moved
    <3> QED
      BY <1>8, <3>1, <3>2, Zenon DEF Place
  <2>2. ASSUME NEW i \in Int, i >= k PROVE Place(r, i) = Place(q, i + 1)
    <3>1. i \in 1 .. Len(r) <=> i + 1 \in 1 .. Len(q)
      BY <1>1, <1>8, <2>2
    <3>2. Moved(k, i) = i + 1
      BY <1>1, <2>2 DEF Moved
    <3> QED
      BY <1>8, <3>1, <3>2, Zenon DEF Place
  <2> QED
    BY <2>1, <2>2, Zenon
<1>12. /\ \A j \in 1 .. Len(q) : q[j] = n <=> j = k + 1
       /\ \A j \in 1 .. Len(q) : q[j] = p <=> j = k - 1
  <2>1. ASSUME NEW j \in 1 .. Len(q), NEW i \in Int PROVE q[j] = Place(q, i) <=> j = i
    <3>1. CASE i \in 1 .. Len(q)
      BY <1>1, <3>1, Zenon DEF Place, OneToOne
    <3>2. CASE i \notin 1 .. Len(q)
      BY <1>1, <3>2 DEF Place
    <3> QED
      BY <3>1, <3>2, Zenon
  <2> QED
    BY <1>1, <2>1, Zenon DEF n, p
<1>13. t.front = Place(r, 1) /\ t.back = Place(r, m)
  <2>1. t.front = Place(r, 1)
    <3>1. CASE k = 1
      BY <1>4, <1>5, <1>11, <3>1 DEF n
    <3>2. CASE k # 1
      <4>1. q[1] # q[k]
        BY <1>1, <3>2, Zenon DEF OneToOne
      <4>2. Place(r, 1) = Place(q, 1)
        BY <1>1, <1>11, <3>2
      <4> QED
        BY <1>1, <1>4, <1>5, <4>1, <4>2, Zenon DEF Place
    <3> QED
      BY <3>1, <3>2, Zenon
  <2>2. t.back = Place(r, m)
    <3>1. CASE k = m + 1
      <4>1. Place(r, m) = Place(q, m) /\ p = Place(q, m)
        BY <1>1, <1>11, <3>1 DEF p
      <4> QED
        BY <1>4, <1>5, <3>1, <4>1, Zenon
    <3>2. CASE k # m + 1
      <4>1. m + 1 \in 1 .. Len(q) /\ m >= k
        BY <1>1, <3>2
      <4>2. q[m + 1] # q[k]
        BY <1>1, <3>2, <4>1, Zenon DEF OneToOne
      <4>3. Place(r, m) = Place(q, m + 1)
        BY <1>1, <1>11, <4>1
      <4> QED
        BY <1>4, <1>5, <4>1, <4>2, <4>3, Zenon DEF Place
    <3> QED
      BY <3>1, <3>2, Zenon
  <2> QED
    BY <2>1, <2>2, Zenon
<1>14. ASSUME NEW i \in 1 .. m
       PROVE  t.next[r[i]] = Place(r, i + 1)
  <2>1. PICK j \in 1 .. Len(q) : j = Moved(k, i) /\ r[i] = q[j] /\ q[j] \in Entry /\ j # k
    BY <1>8, ZenonT(40)
  <2>2. l.next[q[j]] = Place(q, j + 1)
    BY DEF Linked
  <2>3. t.next[r[i]] = IF j = k - 1 THEN n ELSE Place(q, j + 1)
    BY <1>6, <1>12, <2>1, <2>2, Zenon
  <2>4. CASE i < k
    <3>1. j = i /\ i \in Int /\ i + 1 \in Int
      BY <1>1, <2>1, <2>4 DEF Moved
    <3>2. CASE i = k - 1
      <4>1. i + 1 = k
        BY <1>1, <3>2
      <4> QED
        BY <1>1, <1>11, <2>3, <3>1, <3>2, <4>1 DEF n
    <3>3. CASE i # k - 1
      <4>1. i + 1 < k
        BY <1>1, <2>4, <3>1, <3>3
      <4> QED
        BY <1>11, <2>3, <3>1, <3>3, <4>1, Zenon
    <3> QED
      BY <3>2, <3>3, Zenon
  <2>5. CASE ~(i < k)
    <3>1. j = i + 1 /\ i \in Int /\ i + 1 \in Int /\ j # k - 1 /\ i + 1 >= k
      BY <1>1, <2>1, <2>5 DEF Moved
    <3> QED
      BY <1>11, <2>3, <3>1, Zenon
  <2> QED
    BY <2>4, <2>5
<1>15. ASSUME NEW i \in 1 .. m
       PROVE  t.prev[r[i]] = IF i = 1 THEN Null ELSE Place(r, i - 1)
  <2>1. PICK j \in 1 .. Len(q) : j = Moved(k, i) /\ r[i] = q[j] /\ q[j] \in Entry /\ j # k
    BY <1>8
  <2>2. l.prev[q[j]] = Place(q, j - 1)
    <3>1. CASE j = 1
      <4>1. Place(q, j - 1) = Null /\ q # << >>
        BY <1>1, <3>1 DEF Place
      <4> QED
        BY <3>1, <4>1, Zenon DEF NoneBefore
    <3>2. CASE j # 1
      <4>1. j \in 2 .. Len(q)
        BY <1>1, <3>2
      <4> QED
        BY <4>1, Zenon DEF Linked
    <3> QED
      BY <3>1, <3>2, Zenon
  <2>3. t.prev[r[i]] = IF j = k + 1 THEN p ELSE Place(q, j - 1)
    BY <1>6, <1>12, <2>1, <2>2, ZenonT(40)
  <2>4. t.prev[r[i]] = Place(r, i - 1)
    <3>1. CASE i < k
      <4>1. j = i /\ i - 1 \in Int /\ i - 1 < k /\ j # k + 1
        BY <1>1, <2>1, <3>1 DEF Moved
      <4> QED
        BY <1>11, <2>3, <4>1, ZenonT(40)
    <3>2. CASE i = k
      <4>1. j = k + 1 /\ k - 1 < k
        BY <1>1, <2>1, <3>2 DEF Moved
      <4> QED
        BY <1>1, <1>11, <2>3, <3>2, <4>1, ZenonT(40) DEF p
    <3>3. CASE i > k
      <4>1. j = i + 1 /\ i - 1 \in Int /\ i - 1 >= k /\ j # k + 1 /\ j - 1 = i - 1 + 1
        BY <1>1, <2>1, <3>3 DEF Moved
      <4> QED
        BY <1>11, <2>3, <4>1, Zenon
    <3> QED
      BY <1>1, <3>1, <3>2, <3>3
  <2>5. i = 1 => Place(r, i - 1) = Null
    BY DEF Place
  <2> QED
    BY <2>4, <2>5, ZenonT(40)
<1>16. Linked(t, r)
  <2>1. \A i \in 2 .. m : i \in 1 .. m /\ i # 1
    BY <1>1
  <2>2. \A i \in 2 .. m : t.prev[r[i]] = Place(r, i - 1)
    BY <1>15, <2>1, Zenon
  <2> QED
    BY <1>8, <1>9, <1>10, <1>13, <1>14, <2>2, Zenon DEF Linked
<1>17. NoneBefore(t, r)
  <2>1. r # << >> => 1 \in 1 .. m
    BY <1>1, <1>8, EmptySeq
  <2> QED
    BY <1>15, <2>1, Zenon DEF NoneBefore
<1> QED
  BY <1>5, <1>7, <1>16, <1>17, ZenonT(40) DEF r

(* list_destroy: after n entries are deleted, so many are gone, or all.    *)
Emptied(n) ==
  {x \in ListT : \E r \in Seq(Entry) : Linked(x, r) /\ (Len(r) + n <= Entries \/ r = << >>)}

LEMMA DestroyTurn ==
  ASSUME Counting, NEW n \in Nat, NEW x \in Emptied(n)
  PROVE  list_del_front(x) \in Emptied(n + 1)
<1>1. PICK r \in Seq(Entry) : Linked(x, r) /\ (Len(r) + n <= Entries \/ r = << >>)
  BY DEF Emptied
<1>2. x \in ListT
  BY DEF Emptied
<1>3. CASE r = << >>
  <2>1. list_del_front(x) = x
    BY <1>1, <1>3 DEF list_del_front, list_empty, Linked, Place
  <2> QED
    BY <1>1, <1>2, <1>3, <2>1, Zenon DEF Emptied
<1>4. CASE r # << >>
  <2>1. list_del_front(x) \in ListT /\ Linked(list_del_front(x), Tail(r))
    BY <1>1, <1>2, <1>4, DeletesFront
  <2>2. Len(r) \in Nat /\ Tail(r) \in Seq(Entry) /\ Len(Tail(r)) = Len(r) - 1
    BY <1>4
  <2>3. Len(Tail(r)) + (n + 1) <= Entries
    BY <1>1, <1>4, <2>2, EntryFacts
  <2> QED
    BY <2>1, <2>2, <2>3, Zenon DEF Emptied
<1> QED
  BY <1>3, <1>4

(* It deletes them all.                                                    *)
LEMMA Destroys ==
  ASSUME Counting, NEW l \in ListT, NEW q, Linked(l, q)
  PROVE  list_destroy(l) \in ListT /\ Linked(list_destroy(l), << >>)
<1> DEFINE X == [n \in 0 .. Entries |-> Emptied(n)]
           G == [n \in 1 .. Entries |-> [x \in X[n - 1] |-> list_del_front(x)]]
           F(f) == [n \in 0 .. Entries |-> IF n = 0 THEN l ELSE list_del_front(f[n - 1])]
<1>0. /\ Entries \in Nat /\ q \in Seq(Entry) /\ Len(q) \in Nat /\ Len(q) <= Entries
  BY EntryFacts, ListFits DEF Linked
<1>1. l \in X[0]
  BY <1>0 DEF Emptied
<1>2. ASSUME NEW n \in 1 .. Entries, NEW x \in X[n - 1]
      PROVE  list_del_front(x) \in X[n]
  <2>1. n - 1 \in 0 .. Entries /\ n \in 0 .. Entries /\ n - 1 + 1 = n /\ n - 1 \in Nat
    BY <1>0
  <2>2. x \in Emptied(n - 1)
    BY <2>1, Zenon
  <2>3. list_del_front(x) \in Emptied(n - 1 + 1)
    BY <2>1, <2>2, DestroyTurn
  <2> QED
    BY <2>1, <2>3
<1>3. \A n \in 1 .. Entries : \A x \in X[n - 1] : G[n][x] = list_del_front(x)
  BY Zenon
<1> HIDE DEF X, G
<1>a. \A n \in 1 .. Entries : \A x \in X[n - 1] : G[n][x] \in X[n]
  BY <1>2, <1>3
<1>4. PICK f : IsLoop(f, l, G, Entries) /\ \A n \in 0 .. Entries : f[n] \in X[n]
  BY <1>0, <1>1, <1>a, Zenon DEF Counting, LoopExists
<1>5. \E g : g = F(g)
  <2>1. \A n \in 0 .. Entries : n # 0 => n \in 1 .. Entries /\ n - 1 \in 0 .. Entries
    BY <1>0
  <2>2. \A n \in 0 .. Entries : (IF n = 0 THEN l ELSE G[n][f[n - 1]])
                                  = (IF n = 0 THEN l ELSE list_del_front(f[n - 1]))
    BY <1>3, <1>4, <2>1, Zenon
  <2>3. f = F(f)
    BY <1>4, <2>2, Zenon DEF IsLoop
  <2> QED
    BY <2>3, Zenon
<1> DEFINE loop == CHOOSE g : g = F(g)
<1>6. loop = F(loop)
  <2> HIDE DEF F
  <2> QED
    BY <1>5
<1>7. list_destroy(l) = loop[Entries]
  BY DEF list_destroy
<1> HIDE DEF loop
<1>8. loop[0] = l /\ \A n \in 1 .. Entries : loop[n] = list_del_front(loop[n - 1])
  <2>1. \A n \in 0 .. Entries : loop[n] = IF n = 0 THEN l ELSE list_del_front(loop[n - 1])
    BY <1>6, Zenon
  <2> QED
    BY <1>0, <2>1
<1>9. \A n \in 0 .. Entries : loop[n] \in X[n]
  BY <1>0, <1>1, <1>2, <1>8, Zenon DEF Counting, LoopKeeps
<1>10. loop[Entries] \in Emptied(Entries)
  BY <1>0, <1>9 DEF X
<1>11. PICK r \in Seq(Entry) : Linked(loop[Entries], r) /\ (Len(r) + Entries <= Entries \/ r = << >>)
  BY <1>10 DEF Emptied
<1>12. r = << >>
  <2>1. Len(r) \in Nat
    OBVIOUS
  <2>2. Len(r) = 0 \/ r = << >>
    BY <1>0, <1>11, <2>1
  <2> QED
    BY <2>2, EmptySeq
<1>13. loop[Entries] \in ListT
  BY <1>10, Zenon DEF Emptied
<1> QED
  BY <1>7, <1>11, <1>12, <1>13

(* The entry kmalloc returns is free.                                      *)
LEMMA NewEntryFree ==
  ASSUME Counting, NEW l \in ListT, HasRoom(l)
  PROVE  NewEntry(l) \in Entry \ l.used
<1> DEFINE S == Entry \ l.used
<1>1. S \subseteq Nat /\ S # {}
  BY EntryFacts, ListFields, Zenon DEF HasRoom
<1>2. \E e \in S : \A x \in S : e <= x
  <2> HIDE DEF S
  <2> QED
    BY <1>1 DEF Counting, LeastNumber
<1>3. NewEntry(l) \in S
  BY <1>2 DEF NewEntry
<1> QED
  BY <1>3

LEMMA ListInitial == ListInit => ListInv
<1> SUFFICES ASSUME ListInit PROVE ListInv
  OBVIOUS
<1> DEFINE e == << >>
           z == Null
<1>1. /\ list.front = z /\ list.back = z /\ list.size = 0 /\ list.used = {}
      /\ list = [front |-> z, back |-> z, size |-> 0, used |-> {},
                 data |-> [x \in Entry |-> z], prev |-> [x \in Entry |-> z], next |-> [x \in Entry |-> z]]
  BY Zenon DEF ListInit, list_create
<1>2. z \in Pointer /\ z \in Data \cup {Null}
  BY Zenon DEF Pointer
<1> HIDE DEF z
<1>3. list \in ListT
  <2>1. /\ [x \in Entry |-> z] \in [Entry -> Data \cup {Null}]
        /\ [x \in Entry |-> z] \in [Entry -> Pointer]
    BY <1>2
  <2> QED
    BY <1>1, <1>2, <2>1 DEF ListT
<1>4. e \in Seq(Entry) /\ e \in Seq(Data) /\ Len(e) = 0
  OBVIOUS
<1>5. Linked(list, e)
  BY <1>1, <1>4 DEF Linked, OneToOne, Place, z
<1>6. ListOk(list, e, user, e)
  BY <1>1, <1>4, <1>5 DEF ListOk, Holds, Counted, NoneBefore
<1>7. OneToOne(e)
  BY <1>4 DEF OneToOne
<1> QED
  BY <1>3, <1>4, <1>6, <1>7, Zenon DEF ListInv, ListInit

LEMMA ContentLength ==
  ASSUME ListInv, NEW q, ListOk(list, content, user, q)
  PROVE  /\ q \in Seq(Entry) /\ Len(q) \in Nat /\ Len(content) = Len(q) /\ list.size \in Int
         /\ \A i \in 1 .. Len(q) : /\ q[i] \in Entry /\ q[i] \in list.used /\ content[i] \in Data
                                   /\ content[i] = list.data[q[i]]
<1>1. q \in Seq(Entry) /\ Len(content) = Len(q) /\ content \in Seq(Data) /\ list \in ListT
  BY Zenon DEF ListInv, ListOk, Linked, Holds
<1>2. \A i \in 1 .. Len(q) : q[i] \in Entry /\ content[i] \in Data
  BY <1>1
<1>3. \A i \in 1 .. Len(q) : q[i] \in list.used /\ content[i] = list.data[q[i]]
  BY <1>2 DEF ListOk, Linked, Holds
<1> QED
  BY <1>1, <1>2, <1>3, ListFields

LEMMA EnqueueStep ==
  ASSUME Counting, ListInv, Enqueue
  PROVE  ListInv'
<1>1. PICK d \in NewData : list' = list_add_back(list, d) /\ content' = Append(content, d)
  BY DEF Enqueue
<1>2. PICK q \in Seq(Entry) : ListOk(list, content, user, q)
  BY DEF ListInv
<1>3. list \in ListT /\ content \in Seq(Data) /\ OneToOne(content) /\ user' = user /\ user \in Users
  BY Zenon DEF ListInv, Enqueue
<1>4. PICK e : e = NewEntry(list) /\ e \in Entry \ list.used
  BY <1>3, NewEntryFree DEF Enqueue
<1>5. d \in Data /\ \A i \in 1 .. Len(content) : content[i] # d
  <2>1. \A i \in DOMAIN content : content[i] \in Range(content)
    BY DEF Range
  <2>2. DOMAIN content = 1 .. Len(content)
    BY <1>3, SMTT(30), ZenonT(20)
  <2> QED
    BY <1>1, <2>1, <2>2, Zenon DEF NewData
<1>6. /\ list' \in ListT /\ Linked(list', Append(q, e)) /\ list'.size = list.size + 1
      /\ \A x \in Entry : list'.data[x] = IF x = e THEN d ELSE list.data[x]
      /\ NoneBefore(list, q) => NoneBefore(list', Append(q, e))
  <2>1. list' = AddBackEntry(_list_create_entry(list, e, d), e)
    BY <1>1, <1>4 DEF list_add_back
  <2>2. Linked(list, q)
    BY <1>2 DEF ListOk
  <2> QED
    BY <1>3, <1>4, <1>5, <2>1, <2>2, AddsBack, SMTT(30), ZenonT(20)
<1>7. PICK r, c : r = Append(q, e) /\ c = content'
  BY Zenon
<1>8. /\ Len(q) \in Nat /\ Len(content) = Len(q) /\ list.size \in Int
      /\ \A i \in 1 .. Len(q) : /\ q[i] \in Entry /\ q[i] \in list.used /\ content[i] \in Data
                                /\ content[i] = list.data[q[i]]
  BY <1>2, ContentLength, Zenon
<1>9. /\ r \in Seq(Entry) /\ Len(r) = Len(q) + 1 /\ r[Len(q) + 1] = e
      /\ \A i \in 1 .. Len(q) : r[i] = q[i]
      /\ c \in Seq(Data) /\ Len(c) = Len(q) + 1 /\ c[Len(q) + 1] = d
      /\ \A i \in 1 .. Len(q) : c[i] = content[i]
      /\ \A i \in 1 .. Len(r) : i \in 1 .. Len(q) \/ i = Len(q) + 1
  <2>1. r \in Seq(Entry) /\ Len(r) = Len(q) + 1 /\ r[Len(q) + 1] = e /\ \A i \in 1 .. Len(q) : r[i] = q[i]
    <3>1. /\ Append(q, e) \in Seq(Entry) /\ Len(Append(q, e)) = Len(q) + 1 /\ Append(q, e)[Len(q) + 1] = e
          /\ \A i \in 1 .. Len(q) : Append(q, e)[i] = q[i]
      <4>1. e \in Entry
        BY <1>4
      <4> QED
        BY <4>1, AppendProperties
    <3> QED
      BY <1>7, <3>1, Zenon
  <2>2. /\ c \in Seq(Data) /\ Len(c) = Len(q) + 1 /\ c[Len(q) + 1] = d
        /\ \A i \in 1 .. Len(q) : c[i] = content[i]
    <3>1. c = Append(content, d) /\ content \in Seq(Data)
      BY <1>1, <1>3, <1>7, Zenon
    <3>2. c \in Seq(Data) /\ Len(c) = Len(content) + 1 /\ c[Len(content) + 1] = d /\ \A i \in 1 .. Len(content) : c[i] = content[i]
      <4>1. /\ Append(content, d) \in Seq(Data) /\ Len(Append(content, d)) = Len(content) + 1
            /\ Append(content, d)[Len(content) + 1] = d
            /\ \A i \in 1 .. Len(content) : Append(content, d)[i] = content[i]
        BY <1>5, <3>1, AppendProperties
      <4> QED
        BY <3>1, <4>1, Zenon
    <3>3. Len(content) = Len(q)
      BY <1>8, Zenon
    <3> QED
      BY <3>2, <3>3, Zenon
  <2>3. \A i \in 1 .. Len(r) : i \in 1 .. Len(q) \/ i = Len(q) + 1
    <3>1. Len(q) \in Nat /\ Len(r) = Len(q) + 1
      BY <1>8, <2>1, ZenonT(40)
    <3> QED
      BY ONLY <3>1
  <2> QED
    BY <2>1, <2>2, <2>3, Zenon
<1>10. Holds(list', r, c)
  BY <1>4, <1>6, <1>8, <1>9, SMTT(30), ZenonT(20) DEF Holds
<1>11. Counted(list', r, user')
  BY <1>2, <1>3, <1>6, <1>8, <1>9 DEF ListOk, Counted
<1>12. ListOk(list', c, user', r)
  BY <1>2, <1>3, <1>6, <1>7, <1>10, <1>11, ZenonT(40) DEF ListOk
<1>13. OneToOne(c)
  <2>1. \A i \in 1 .. Len(c) : i \in 1 .. Len(q) \/ i = Len(q) + 1
    BY <1>9, Zenon
  <2>2. \A i, j \in 1 .. Len(q) : content[i] = content[j] => i = j
    BY <1>3, <1>8, Zenon DEF OneToOne
  <2>3. \A i \in 1 .. Len(q) : content[i] # d
    BY <1>5, <1>8, Zenon
  <2> QED
    BY <1>9, <2>1, <2>2, <2>3 DEF OneToOne
<1> QED
  BY <1>3, <1>6, <1>7, <1>9, <1>12, <1>13, Zenon DEF ListInv

LEMMA PushStep ==
  ASSUME Counting, ListInv, Push
  PROVE  ListInv'
<1>1. PICK d \in NewData : list' = list_add_front(list, d) /\ content' = <<d>> \o content
  BY Zenon DEF Push
<1>2. PICK q \in Seq(Entry) : ListOk(list, content, user, q)
  BY DEF ListInv
<1>3. /\ list \in ListT /\ content \in Seq(Data) /\ OneToOne(content) /\ user' = user /\ user \in Users
      /\ user # "registry"
  BY DEF ListInv, Push
<1>4. PICK e : e = NewEntry(list) /\ e \in Entry \ list.used
  BY <1>3, NewEntryFree, Zenon DEF Push
<1>5. d \in Data /\ \A i \in 1 .. Len(content) : content[i] # d
  <2>1. \A i \in DOMAIN content : content[i] \in Range(content)
    BY DEF Range
  <2>2. DOMAIN content = 1 .. Len(content)
    BY <1>3, SMTT(30), ZenonT(20)
  <2> QED
    BY <1>1, <2>1, <2>2, Zenon DEF NewData
<1>6. /\ list' \in ListT /\ Linked(list', <<e>> \o q) /\ list'.size = list.size + 1
      /\ \A x \in Entry : list'.data[x] = IF x = e THEN d ELSE list.data[x]
  <2>1. list' = AddFrontEntry(_list_create_entry(list, e, d), e)
    BY <1>1, <1>4, Zenon DEF list_add_front
  <2>2. Linked(list, q)
    BY <1>2 DEF ListOk
  <2> QED
    BY <1>3, <1>4, <1>5, <2>1, <2>2, AddsFront
<1>7. PICK r, c : r = <<e>> \o q /\ c = content'
  BY Zenon
<1>8. /\ Len(q) \in Nat /\ Len(content) = Len(q) /\ list.size \in Int
      /\ \A i \in 1 .. Len(q) : /\ q[i] \in Entry /\ q[i] \in list.used /\ content[i] \in Data
                                /\ content[i] = list.data[q[i]]
  BY <1>2, ContentLength, Zenon
<1>9. /\ r \in Seq(Entry) /\ Len(r) = Len(q) + 1 /\ r[1] = e
      /\ c \in Seq(Data) /\ Len(c) = Len(q) + 1 /\ c[1] = d
      /\ \A i \in 1 .. Len(q) + 1 :
           i = 1 \/ (i - 1 \in 1 .. Len(q) /\ r[i] = q[i - 1] /\ c[i] = content[i - 1])
  <2>1. /\ r \in Seq(Entry) /\ Len(r) = Len(q) + 1 /\ r[1] = e
        /\ \A i \in 1 .. Len(q) + 1 : i = 1 \/ (i - 1 \in 1 .. Len(q) /\ r[i] = q[i - 1])
    BY <1>4, <1>7, <1>8
  <2>2. /\ c \in Seq(Data) /\ Len(c) = Len(q) + 1 /\ c[1] = d
        /\ \A i \in 1 .. Len(q) + 1 : i = 1 \/ c[i] = content[i - 1]
    BY <1>1, <1>3, <1>5, <1>7, <1>8, SMTT(30), ZenonT(20)
  <2> QED
    BY <1>8, <2>1, <2>2, Zenon
<1>10. Holds(list', r, c)
  <2>1. ASSUME NEW i \in 1 .. Len(q) + 1 PROVE c[i] = list'.data[r[i]]
    <3>1. CASE i = 1
      BY <1>4, <1>6, <1>9, <3>1, Zenon
    <3>2. CASE i # 1
      <4>1. PICK j \in 1 .. Len(q) : r[i] = q[j] /\ c[i] = content[j]
        BY <1>9, <3>2, Zenon
      <4>2. q[j] # e /\ q[j] \in Entry /\ content[j] = list.data[q[j]]
        BY <1>4, <1>8, Zenon
      <4> QED
        BY <1>6, <4>1, <4>2, Zenon
    <3> QED
      BY <3>1, <3>2, Zenon
  <2> QED
    BY <1>9, <2>1, Zenon DEF Holds
<1>11. Counted(list', r, user')
  BY <1>2, <1>3, <1>6, <1>8, <1>9 DEF ListOk, Counted
<1>12. ListOk(list', c, user', r)
  BY <1>3, <1>6, <1>7, <1>10, <1>11, Zenon DEF ListOk
<1>13. OneToOne(c)
  <2>1. \A i, j \in 1 .. Len(q) : content[i] = content[j] => i = j
    BY <1>3, <1>8, Zenon DEF OneToOne
  <2>2. \A i \in 1 .. Len(q) : content[i] # d
    BY <1>5, <1>8
  <2>3. SUFFICES ASSUME NEW i \in 1 .. Len(q) + 1, NEW j \in 1 .. Len(q) + 1, c[i] = c[j] PROVE i = j
    BY <1>9 DEF OneToOne
  <2>4. CASE i = 1 \/ j = 1
    BY <1>9, <2>2, <2>3, <2>4, Zenon
  <2>5. CASE i # 1 /\ j # 1
    <3>1. /\ i - 1 \in 1 .. Len(q) /\ j - 1 \in 1 .. Len(q)
          /\ c[i] = content[i - 1] /\ c[j] = content[j - 1]
      BY <1>9, <2>5
    <3>2. i - 1 = j - 1
      BY <2>1, <2>3, <3>1, Zenon
    <3> QED
      BY <1>8, <3>2
  <2> QED
    BY <2>4, <2>5, Zenon
<1> QED
  BY <1>3, <1>6, <1>7, <1>9, <1>12, <1>13, Zenon DEF ListInv

LEMMA DequeueStep ==
  ASSUME Counting, ListInv, Dequeue
  PROVE  ListInv'
<1>1. /\ list' = list_del_front(list) /\ content' = IF content = << >> THEN content ELSE Tail(content)
      /\ user' = user /\ user # "registry"
  BY DEF Dequeue
<1>2. PICK q \in Seq(Entry) : ListOk(list, content, user, q)
  BY Zenon DEF ListInv
<1>3. list \in ListT /\ content \in Seq(Data) /\ OneToOne(content) /\ user \in Users /\ Linked(list, q)
  BY <1>2, Zenon DEF ListInv, ListOk
<1>4. /\ Len(q) \in Nat /\ Len(content) = Len(q) /\ list.size \in Int
      /\ \A i \in 1 .. Len(q) : content[i] = list.data[q[i]]
  BY <1>2, ContentLength, Zenon
<1>5. CASE q = << >>
  <2>1. content = << >>
    BY <1>3, <1>4, <1>5, EmptySeq
  <2>2. list' = list
    BY <1>1, <1>3, <1>5 DEF list_del_front, list_empty, Linked, Place
  <2> QED
    BY <1>1, <2>1, <2>2 DEF ListInv
<1>6. CASE q # << >>
  <2>1. list' \in ListT /\ Linked(list', Tail(q)) /\ list'.size = list.size - 1 /\ list'.data = list.data
    BY <1>1, <1>3, <1>6, DeletesFront
  <2>2. PICK r, c : r = Tail(q) /\ c = content'
    BY Zenon
  <2>3. content # << >> /\ c = Tail(content)
    BY <1>1, <1>3, <1>4, <1>6, <2>2, EmptySeq
  <2>4. r \in Seq(Entry) /\ Len(r) = Len(q) - 1 /\ \A i \in 1 .. Len(q) - 1 : r[i] = q[i + 1]
    BY <1>6, <2>2
  <2>5. c \in Seq(Data) /\ Len(c) = Len(q) - 1 /\ \A i \in 1 .. Len(q) - 1 : c[i] = content[i + 1]
    BY <1>3, <1>4, <2>3
  <2>6. \A i \in 1 .. Len(q) - 1 : i + 1 \in 1 .. Len(q)
    BY <1>4
  <2>7. Holds(list', r, c)
    BY <1>4, <2>1, <2>4, <2>5, <2>6 DEF Holds
  <2>8. Counted(list', r, user')
    BY <1>1, <1>2, <1>4, <2>1, <2>4 DEF ListOk, Counted
  <2>9. ListOk(list', c, user', r)
    BY <1>1, <2>1, <2>2, <2>7, <2>8 DEF ListOk
  <2>10. OneToOne(c)
    <3>1. SUFFICES ASSUME NEW i \in 1 .. Len(q) - 1, NEW j \in 1 .. Len(q) - 1, c[i] = c[j] PROVE i = j
      BY <2>5, Zenon DEF OneToOne
    <3>2. i + 1 = j + 1
      BY <1>3, <1>4, <2>5, <2>6, <3>1 DEF OneToOne
    <3> QED
      BY <3>2
  <2> QED
    BY <1>1, <1>3, <2>1, <2>2, <2>4, <2>5, <2>9, <2>10, Zenon DEF ListInv
<1> QED
  BY <1>5, <1>6

LEMMA UnregisterStep ==
  ASSUME Counting, ListInv, Unregister
  PROVE  ListInv'
<1>1. PICK q \in Seq(Entry) : ListOk(list, content, user, q)
  BY DEF ListInv
<1>2. /\ list \in ListT /\ content \in Seq(Data) /\ OneToOne(content) /\ user \in Users /\ Linked(list, q)
      /\ user = "registry" /\ user' = user /\ NoneBefore(list, q)
  BY <1>1, Zenon DEF ListInv, ListOk, Unregister
<1>3. /\ Len(q) \in Nat /\ Len(content) = Len(q) /\ list.size \in Int
      /\ \A i \in 1 .. Len(q) : content[i] = list.data[q[i]]
  BY <1>1, ContentLength
<1>4. PICK d \in Data :
        \/ UNCHANGED <<list, content>>
        \/ \E e \in Find(list, d) :
             /\ list' = list_del_entry(list, e)
             /\ \E i \in DOMAIN content : content[i] = d /\ content' = Without(content, i)
  BY Zenon DEF Unregister
<1>5. CASE UNCHANGED <<list, content>>
  BY <1>2, <1>5, Zenon DEF ListInv
<1>6. CASE \E e \in Find(list, d) :
             /\ list' = list_del_entry(list, e)
             /\ \E i \in DOMAIN content : content[i] = d /\ content' = Without(content, i)
  <2>1. PICK e \in Find(list, d) :
          /\ list' = list_del_entry(list, e)
          /\ \E i \in DOMAIN content : content[i] = d /\ content' = Without(content, i)
    BY <1>6, Zenon
  <2>2. PICK k \in DOMAIN content : content[k] = d /\ content' = Without(content, k)
    BY <2>1, ZenonT(40)
  <2>3. k \in 1 .. Len(q) /\ k \in 1 .. Len(content)
    BY <1>2, <1>3
  <2>4. e = q[k]
    <3>1. e \in list.used /\ list.data[e] = d
      BY Zenon DEF Find
    <3>2. e \in Entry
      BY <1>2, <3>1, ListFields
    <3>3. PICK j \in 1 .. Len(q) : q[j] = e
      BY <1>2, <3>1, <3>2, Zenon DEF Linked
    <3>4. content[j] = content[k]
      BY <1>3, <2>2, <3>1, <3>3, Zenon
    <3>5. j = k
      BY <1>2, <1>3, <2>3, <3>4, ZenonT(40) DEF OneToOne
    <3> QED
      BY <3>3, <3>5, Zenon
  <2>5. /\ list' \in ListT /\ Linked(list', Without(q, k)) /\ NoneBefore(list', Without(q, k))
        /\ list'.size = list.size /\ list'.data = list.data
    BY <1>2, <2>1, <2>3, <2>4, DeletesEntry
  <2>6. PICK r, c : r = Without(q, k) /\ c = content'
    OBVIOUS
  <2>7. /\ r \in Seq(Entry) /\ Len(r) = Len(q) - 1
        /\ \A i \in 1 .. Len(q) - 1 : r[i] = q[Moved(k, i)] /\ Moved(k, i) \in 1 .. Len(q)
    BY <2>3, <2>6, RemovedAt, Zenon
  <2>8. /\ c \in Seq(Data) /\ Len(c) = Len(content) - 1
        /\ \A i \in 1 .. Len(content) - 1 : c[i] = content[Moved(k, i)]
    BY <1>2, <2>2, <2>3, <2>6, RemovedAt, ZenonT(40)
  <2>9. Holds(list', r, c)
    BY <1>3, <2>5, <2>7, <2>8, ZenonT(40) DEF Holds
  <2>10. Counted(list', r, user')
    BY <1>1, <1>2, <1>3, <2>5, <2>7 DEF ListOk, Counted
  <2>11. ListOk(list', c, user', r)
    BY <2>5, <2>6, <2>9, <2>10, Zenon DEF ListOk
  <2>12. OneToOne(c)
    <3>1. SUFFICES ASSUME NEW i \in 1 .. Len(q) - 1, NEW j \in 1 .. Len(q) - 1, c[i] = c[j] PROVE i = j
      BY <1>3, <2>8, Zenon DEF OneToOne
    <3>2. Moved(k, i) = Moved(k, j)
      <4>1. /\ Moved(k, i) \in 1 .. Len(content) /\ Moved(k, j) \in 1 .. Len(content)
            /\ content[Moved(k, i)] = content[Moved(k, j)]
        BY <1>3, <2>7, <2>8, <3>1, Zenon
      <4> QED
        BY <1>2, <4>1, Zenon DEF OneToOne
    <3>3. i \in Nat /\ j \in Nat /\ k \in Nat
      BY <1>3, <2>3
    <3> QED
      BY <3>2, <3>3, MovedApart, Zenon
  <2> QED
    BY <1>2, <2>5, <2>6, <2>7, <2>8, <2>11, <2>12, Zenon DEF ListInv
<1> QED
  BY <1>4, <1>5, <1>6, Zenon

LEMMA DestroyStep ==
  ASSUME Counting, ListInv, Destroy
  PROVE  ListInv'
<1>1. PICK q \in Seq(Entry) : ListOk(list, content, user, q)
  BY DEF ListInv
<1>2. list \in ListT /\ Linked(list, q) /\ user \in Users /\ user' = user /\ user # "registry"
  BY <1>1 DEF ListInv, ListOk, Destroy
<1>3. PICK t : t = list_destroy(list) /\ list' = [t EXCEPT !.size = 0]
  BY DEF Destroy
<1>4. t \in ListT /\ Linked(t, << >>)
  BY <1>2, <1>3, Destroys
<1>5. /\ list' \in ListT /\ list'.size = 0 /\ list'.front = t.front /\ list'.back = t.back
      /\ list'.used = t.used /\ list'.next = t.next /\ list'.prev = t.prev
  BY <1>3, <1>4, SMTT(30), ZenonT(20) DEF ListT
<1> DEFINE e == << >>
<1>6. e \in Seq(Entry) /\ e \in Seq(Data) /\ Len(e) = 0 /\ OneToOne(e)
  BY DEF OneToOne
<1>7. content' = e
  BY DEF Destroy
<1>8. Linked(list', e)
  BY <1>4, <1>5 DEF Linked
<1>9. ListOk(list', e, user', e)
  BY <1>2, <1>5, <1>6, <1>8 DEF ListOk, Holds, Counted
<1> QED
  BY <1>2, <1>5, <1>6, <1>7, <1>9, Zenon DEF ListInv

LEMMA ListStep ==
  ASSUME Counting, ListInv, [ListNext]_listVars
  PROVE  ListInv'
<1>1. CASE UNCHANGED listVars
  BY <1>1, Zenon DEF listVars, ListInv
<1> QED
  BY <1>1, EnqueueStep, DequeueStep, UnregisterStep, PushStep, DestroyStep, Zenon DEF ListNext

LEMMA ListVisits ==
  ASSUME Counting
  PROVE  ListInv => VisitsContent
<1>1. SUFFICES ASSUME ListInv PROVE VisitsContent
  OBVIOUS
<1>2. PICK q \in Seq(Entry) : ListOk(list, content, user, q)
  BY <1>1, Zenon DEF ListInv
<1>3. list \in ListT /\ content \in Seq(Data) /\ Linked(list, q)
  BY <1>1, <1>2, Zenon DEF ListInv, ListOk
<1>4. /\ Len(q) \in Nat /\ Len(content) = Len(q) /\ list.size \in Int
      /\ \A i \in 1 .. Len(q) : q[i] \in Entry /\ q[i] \in list.used /\ content[i] = list.data[q[i]]
  BY <1>1, <1>2, ContentLength
<1>5. list_iterate(list) = q
  BY <1>3, Iterates, Zenon
<1>6. Datas(list) = content
  <2>1. DOMAIN q = 1 .. Len(q) /\ content = [i \in 1 .. Len(q) |-> content[i]]
    BY <1>3, <1>4
  <2>2. Datas(list) = [i \in DOMAIN q |-> list.data[q[i]]]
    BY <1>5, Zenon DEF Datas
  <2> QED
    BY <1>4, <2>1, <2>2, Zenon
<1>7. list.used = Range(list_iterate(list))
  <2>1. Range(q) = {q[i] : i \in 1 .. Len(q)}
    BY DEF Range
  <2>2. \A x \in Entry : x \in list.used <=> \E i \in 1 .. Len(q) : q[i] = x
    BY <1>3, Zenon DEF Linked
  <2>3. list.used \subseteq Entry
    BY <1>3, ListFields
  <2> QED
    BY <1>4, <1>5, <2>1, <2>2, <2>3
<1>8. list_size(list) = IF Len(q) = 0 THEN 0 ELSE list.size
  <2>1. list.front = Null <=> Len(q) = 0
    BY <1>3, <1>4, EntryFacts DEF Linked, Place
  <2> QED
    BY <2>1, Zenon DEF list_size, list_empty
<1>9. list.size >= Len(q) /\ (user # "registry" => list.size = Len(q))
  BY <1>2, Zenon DEF ListOk, Counted
<1>10. list_size(list) >= Len(content) /\ (user # "registry" => list_size(list) = Len(content))
  BY <1>4, <1>8, <1>9
<1> QED
  BY <1>6, <1>7, <1>10 DEF VisitsContent
-----------------------------------------------------------------------------
(* The theorems, from the proof of Counting.                               *)
INSTANCE Counting_proofs

(* A ring that does not override implements the bounded queue, for every   *)
(* number of elements and at every wrap-around.                            *)
THEOREM RingCorrect ==
  ASSUME override = FALSE
  PROVE  RingSpec => IsFifo
<1>1. RingInit => RingInv /\ Fifo!Init
  <2> SUFFICES ASSUME RingInit PROVE RingInv /\ Fifo!Init
    BY Zenon
  <2>1. PICK memory \in [Index -> Item] : rb = [data |-> memory, count |-> 0, ridx |-> 0, widx |-> 0]
    BY Zenon DEF RingInit, rbuf_create
  <2>2. maxcnt \in Nat \ {0}
    BY RingAssumption, Zenon
  <2>3. 0 \in Index /\ Pos(0, 0 + 1) = 0
    <3>1. 0 \in Index
      BY <2>2 DEF Index
    <3> QED
      BY <3>1, Places
  <2>4. rb \in RingT
    BY <2>1, <2>2, <2>3 DEF RingT
  <2>5. rb.count = 0 /\ rb.ridx = 0 /\ rb.widx = 0
    BY <2>1, Zenon
  <2>6. Queue = << >>
    <3>1. Queue \in [1 .. 0 -> Item]
      BY <2>5 DEF Queue
    <3> QED
      BY <3>1
  <2> QED
    BY <2>3, <2>4, <2>5, <2>6, SMTT(30), ZenonT(20) DEF RingInv, RingInit, Fifo!Init
<1>2. RingInv /\ [RingNext]_ringVars => RingInv' /\ [Fifo!Next]_Fifo!vars
  <2> SUFFICES ASSUME RingInv, [RingNext]_ringVars
               PROVE  RingInv' /\ [Fifo!Next]_Fifo!vars
    BY Zenon
  <2>1. CASE UNCHANGED ringVars
    BY <2>1 DEF ringVars, RingInv, Fifo!vars, Queue
  <2>2. CASE RbufWrite
    BY <2>2, RingWrite, CountingHolds, ZenonT(40) DEF Fifo!Next
  <2>3. CASE RbufRead
    BY <2>3, RingRead, CountingHolds DEF Fifo!Next
  <2> QED
    BY <2>1, <2>2, <2>3, ZenonT(40) DEF RingNext
<1> QED
  BY <1>1, <1>2, PTL DEF RingSpec, IsFifo, Fifo!Spec

(* Lists of any number of entries, used as the kernel uses them: iterating *)
(* visits what was put in and not taken out, in order, every other entry   *)
(* is free, and list_size does not stop a reader too early.                *)
THEOREM ListsCorrect == ListSpec => []VisitsContent
<1>1. ListInit => ListInv
  BY ListInitial, Zenon
<1>2. ListInv /\ [ListNext]_listVars => ListInv'
  BY ListStep, CountingHolds
<1>3. ListInv => VisitsContent
  BY ListVisits, CountingHolds
<1> QED
  BY <1>1, <1>2, <1>3, PTL DEF ListSpec
=============================================================================
