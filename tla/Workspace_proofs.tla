--------------------------- MODULE Workspace_proofs ---------------------------
(***************************************************************************)
(* Proofs about Workspace for any users and any number of investigations,  *)
(* changes and requests in flight: when the answers came in turn, the page *)
(* at rest shows the list and the notes that the API has.                  *)
(*                                                                         *)
(* The requests in flight are a queue whose first part is answered.  What  *)
(* the store is about to show is what it was last given whole, the list in *)
(* the store or the answer to the last request for the list (the base),    *)
(* as changed by the answers that are behind it in the queue.  That is the *)
(* API's list (ListKept).  Likewise the notes (NotesAt).                   *)
(***************************************************************************)
EXTENDS Workspace, FiniteSetTheorems, FunctionTheorems, TLAPS

Ops == {"list", "notes", "get", "create", "update", "entity", "delete", "note", "unnote"}
Subject == Nat \cup [of : Nat, n : Nat]
Answer == Seq([id : Nat, version : Nat]) \cup Seq([of : Nat, n : Nat])
Request == [op : Ops, as : User \cup {NoUser}, on : Subject,
            done : {"no", "yes", "refused"}, answer : Answer]

\* m investigations were made, and c changes
Entries(m, c) == [id : 1..m, version : 0..c]
Notes(m, c) == [of : 1..m, n : 1..c]

\* What a request is about, and its answer.
Shaped(r, m, c) ==
    /\ r.op \in {"notes", "get", "update", "entity", "delete", "note"} => r.on \in 1..m
    /\ r.op = "unnote" => r.on \in Notes(m, c)
    /\ r.done = "yes" =>
        /\ r.op = "list" => r.answer \in Seq(Entries(m, c))
        /\ r.op = "notes" => r.answer \in Seq(Notes(m, c))
        /\ r.op \in {"create", "update", "get"} =>
             Len(r.answer) = 1 /\ r.answer[1] \in Entries(m, c)
        /\ r.op \in {"update", "get"} => r.answer[1].id = r.on
        /\ r.op = "note" => Len(r.answer) = 1 /\ r.answer[1] \in Notes(m, c)

Queue(q, m, c) == q \in Seq(Request) /\ \A k \in 1..Len(q) : Shaped(q[k], m, c)

Typed ==
    /\ who \in User \cup {NoUser}
    /\ owners \in Seq(User) /\ Len(owners) <= MaxMade
    /\ alive \subseteq 1..Len(owners)
    /\ version \in Seq(0..changes) /\ Len(version) = Len(owners)
    /\ notes \subseteq Notes(Len(owners), changes) /\ IsFiniteSet(notes)
    /\ changes \in 0..MaxChanges
    /\ mounted \in BOOLEAN /\ disturbed \in BOOLEAN
    /\ mounted => who # NoUser
    /\ url \in 0..Len(owners) /\ active \in 0..Len(owners)
    /\ list \in Seq(Entries(Len(owners), changes))
    /\ shown \in Seq(Notes(Len(owners), changes))
    /\ Queue(asked, Len(owners), changes)

-----------------------------------------------------------------------------
(* The queue of requests. *)

\* r is q with p answered, with more requests, and without its head.
OneChanged(q, r, p) ==
    /\ Len(q) \in Nat /\ Len(r) = Len(q)
    /\ p \in 1..Len(q)
    /\ q[p].done = "no" /\ r[p].done \in {"yes", "refused"}
    /\ r[p].op = q[p].op /\ r[p].on = q[p].on
    /\ \A k \in 1..Len(q) : k # p => r[k] = q[k]

Extended(q, r) ==
    /\ Len(q) \in Nat /\ Len(r) \in Nat /\ Len(r) >= Len(q)
    /\ \A k \in 1..Len(q) : r[k] = q[k]
    /\ \A k \in Len(q) + 1..Len(r) : r[k].done = "no"

Popped(q, r) ==
    /\ Len(q) \in Nat \ {0} /\ Len(r) = Len(q) - 1
    /\ \A k \in 1..Len(r) : r[k] = q[k + 1]

LEMMA Joined ==
    ASSUME NEW S, NEW s \in Seq(S), NEW t \in Seq(S)
    PROVE  /\ s \o t \in Seq(S)
           /\ Len(s) \in Nat /\ Len(t) \in Nat
           /\ Len(s \o t) = Len(s) + Len(t)
           /\ \A i \in 1 .. Len(s) : (s \o t)[i] = s[i]
           /\ \A i \in 1 .. Len(t) : (s \o t)[Len(s) + i] = t[i]
           /\ \A i \in Len(s) + 1 .. Len(s) + Len(t) :
                i - Len(s) \in 1..Len(t) /\ (s \o t)[i] = t[i - Len(s)]
OBVIOUS

LEMMA Removed ==
    ASSUME NEW S, NEW s \in Seq(S), NEW k \in DOMAIN s
    PROVE  /\ RemoveAt(s, k) \in Seq(S)
           /\ \A i \in 1..Len(RemoveAt(s, k)) :
                \E j \in 1..Len(s) : RemoveAt(s, k)[i] = s[j]
           /\ k = 1 => Popped(s, RemoveAt(s, k))
<1> DEFINE front == SubSeq(s, 1, k - 1)
           back == SubSeq(s, k + 1, Len(s))
<1>1. Len(s) \in Nat /\ k \in 1..Len(s)
  OBVIOUS
<1>2. /\ front \in Seq(S) /\ Len(front) = k - 1
      /\ \A i \in 1..k - 1 : front[i] = s[i]
  BY <1>1
<1>3. /\ back \in Seq(S) /\ Len(back) = Len(s) - k
      /\ \A i \in 1..Len(s) - k : back[i] = s[k + i]
  BY <1>1
<1>4. RemoveAt(s, k) = front \o back
  BY DEF RemoveAt
<1> HIDE DEF front, back
<1>5. /\ front \o back \in Seq(S) /\ Len(front \o back) = Len(s) - 1
      /\ \A i \in 1..k - 1 : (front \o back)[i] = s[i]
      /\ \A i \in k..Len(s) - 1 : (front \o back)[i] = s[i + 1]
  <2>1. /\ front \o back \in Seq(S) /\ Len(front \o back) = Len(s) - 1
        /\ \A i \in 1..k - 1 : (front \o back)[i] = s[i]
    BY <1>1, <1>2, <1>3, Joined
  <2>2. ASSUME NEW i \in k..Len(s) - 1 PROVE (front \o back)[i] = s[i + 1]
    <3>1. i - Len(front) \in 1..Len(back) /\ (front \o back)[i] = back[i - Len(front)]
      BY <1>1, <1>2, <1>3, Joined
    <3>2. i - Len(front) = i - k + 1 /\ k + (i - k + 1) = i + 1
      BY <1>1, <1>2
    <3>3. i - k + 1 \in 1..Len(s) - k
      BY <1>1
    <3>4. back[i - k + 1] = s[k + (i - k + 1)]
      BY <1>3, <3>3
    <3> QED BY <3>1, <3>2, <3>4
  <2> QED BY <2>1, <2>2
<1>6. ASSUME NEW i \in 1..Len(front \o back)
      PROVE  \E j \in 1..Len(s) : (front \o back)[i] = s[j]
  <2>1. CASE i \in 1..k - 1
    BY <1>1, <1>5, <2>1
  <2>2. CASE i \in k..Len(s) - 1
    <3>1. i + 1 \in 1..Len(s)
      BY <1>1, <2>2
    <3> QED BY <1>5, <2>2, <3>1
  <2> QED BY <1>1, <1>5, <2>1, <2>2
<1>7. k = 1 => Popped(s, front \o back)
  BY <1>1, <1>5 DEF Popped
<1> QED BY <1>4, <1>5, <1>6, <1>7

LEMMA Put ==
    ASSUME NEW m \in Nat, NEW c \in Nat, NEW q, NEW r, Queue(q, m, c), Queue(r, m, c)
    PROVE  Queue(q \o r, m, c)
<1>1. q \in Seq(Request) /\ r \in Seq(Request)
  BY DEF Queue
<1> QED BY <1>1, Joined DEF Queue

LEMMA Taken ==
    ASSUME NEW m \in Nat, NEW c \in Nat, NEW q, Queue(q, m, c), NEW k \in DOMAIN q
    PROVE  Queue(RemoveAt(q, k), m, c)
<1>1. q \in Seq(Request)
  BY DEF Queue
<1> QED BY <1>1, Removed DEF Queue

\* Investigations are never unmade, nor changes.
LEMMA ShapeKept ==
    ASSUME NEW m \in Nat, NEW c \in Nat, NEW mm \in Nat, NEW cc \in Nat, m <= mm, c <= cc
    PROVE  /\ Entries(m, c) \subseteq Entries(mm, cc)
           /\ Notes(m, c) \subseteq Notes(mm, cc)
           /\ Seq(Entries(m, c)) \subseteq Seq(Entries(mm, cc))
           /\ Seq(Notes(m, c)) \subseteq Seq(Notes(mm, cc))
           /\ \A r : Shaped(r, m, c) => Shaped(r, mm, cc)
           /\ \A q : Queue(q, m, c) => Queue(q, mm, cc)
<1>1. /\ Entries(m, c) \subseteq Entries(mm, cc)
      /\ Notes(m, c) \subseteq Notes(mm, cc)
      /\ 1..m \subseteq 1..mm
  BY DEF Entries, Notes
<1>2. /\ Seq(Entries(m, c)) \subseteq Seq(Entries(mm, cc))
      /\ Seq(Notes(m, c)) \subseteq Seq(Notes(mm, cc))
  BY <1>1
<1>3. \A r : Shaped(r, m, c) => Shaped(r, mm, cc)
  BY <1>1, <1>2 DEF Shaped
<1> QED BY <1>1, <1>2, <1>3 DEF Queue

LEMMA SetAt ==
    ASSUME NEW S, NEW q \in Seq(S), NEW p \in 1..Len(q), NEW w \in S
    PROVE  /\ [q EXCEPT ![p] = w] \in Seq(S)
           /\ Len([q EXCEPT ![p] = w]) = Len(q)
           /\ [q EXCEPT ![p] = w][p] = w
           /\ \A k \in 1..Len(q) : k # p => [q EXCEPT ![p] = w][k] = q[k]
OBVIOUS

\* One request is done.
Marked(q, p, a) == [q EXCEPT ![p].done = "yes", ![p].as = NoUser, ![p].answer = a]

LEMMA Done ==
    ASSUME NEW m \in Nat, NEW c \in Nat, NEW q, Queue(q, m, c), NEW p \in DOMAIN q,
           q[p].done = "no", NEW a \in Answer
    PROVE  LET r == Marked(q, p, a)
           IN  /\ Shaped(r[p], m, c) => Queue(r, m, c)
               /\ OneChanged(q, r, p)
               /\ r[p].done = "yes" /\ r[p].answer = a
<1> DEFINE u == [q[p] EXCEPT !.done = "yes"]
           v == [u EXCEPT !.as = NoUser]
           w == [v EXCEPT !.answer = a]
           x == [q EXCEPT ![p].done = "yes"]
           y == [x EXCEPT ![p].as = NoUser]
           r == Marked(q, p, a)
<1>1. q \in Seq(Request) /\ Len(q) \in Nat /\ DOMAIN q = 1..Len(q)
  BY DEF Queue
<1>2. q[p] \in Request
  BY <1>1
<1>3. u \in Request /\ u.op = q[p].op /\ u.on = q[p].on /\ u.done = "yes"
  BY <1>2 DEF Request
<1>4. v \in Request /\ v.op = q[p].op /\ v.on = q[p].on /\ v.done = "yes"
  BY <1>3 DEF Request
<1>5. w \in Request /\ w.op = q[p].op /\ w.on = q[p].on /\ w.done = "yes" /\ w.answer = a
  BY <1>4 DEF Request
<1>a. x = [q EXCEPT ![p] = u] /\ r = [y EXCEPT ![p].answer = a]
  BY DEF Marked
<1> HIDE DEF r, u
<1>b. /\ x \in Seq(Request) /\ Len(x) = Len(q) /\ x[p] = u
      /\ \A k \in 1..Len(q) : k # p => x[k] = q[k]
  BY <1>1, <1>3, <1>a, SetAt
<1>c. y = [x EXCEPT ![p] = v]
  BY <1>b
<1> HIDE DEF v, x, y
<1>d. /\ y \in Seq(Request) /\ Len(y) = Len(q) /\ y[p] = v
      /\ \A k \in 1..Len(q) : k # p => y[k] = q[k]
  BY <1>1, <1>4, <1>b, <1>c, SetAt
<1>e. r = [y EXCEPT ![p] = w]
  <2>1. [y[p] EXCEPT !.answer = a] = w
    BY <1>d
  <2> QED BY <1>a, <2>1, Zenon
<1> HIDE DEF w
<1>f. /\ r \in Seq(Request) /\ Len(r) = Len(q) /\ r[p] = w
      /\ \A k \in 1..Len(q) : k # p => r[k] = q[k]
  BY <1>1, <1>5, <1>d, <1>e, SetAt
<1>6. OneChanged(q, r, p)
  BY <1>1, <1>5, <1>f DEF OneChanged
<1>7. Shaped(r[p], m, c) => Queue(r, m, c)
  BY <1>1, <1>f DEF Queue
<1>8. r[p].done = "yes" /\ r[p].answer = a
  BY <1>5, <1>f
<1> QED BY <1>6, <1>7, <1>8 DEF r

LEMMA Declined ==
    ASSUME NEW m \in Nat, NEW c \in Nat, NEW q, Queue(q, m, c), NEW p \in DOMAIN q,
           q[p].done = "no"
    PROVE  LET r == [q EXCEPT ![p].done = "refused", ![p].as = NoUser]
           IN  Queue(r, m, c) /\ OneChanged(q, r, p) /\ r[p].done = "refused"
<1> DEFINE u == [q[p] EXCEPT !.done = "refused"]
           v == [u EXCEPT !.as = NoUser]
           x == [q EXCEPT ![p].done = "refused"]
           r == [q EXCEPT ![p].done = "refused", ![p].as = NoUser]
<1>1. q \in Seq(Request) /\ Len(q) \in Nat /\ DOMAIN q = 1..Len(q)
  BY DEF Queue
<1>2. q[p] \in Request /\ Shaped(q[p], m, c)
  BY <1>1 DEF Queue
<1>3. u \in Request /\ u.op = q[p].op /\ u.on = q[p].on /\ u.done = "refused"
  BY <1>2 DEF Request
<1>4. v \in Request /\ v.op = q[p].op /\ v.on = q[p].on /\ v.done = "refused"
  BY <1>3 DEF Request
<1>5. Shaped(v, m, c)
  BY <1>2, <1>4 DEF Shaped
<1>6. x = [q EXCEPT ![p] = u] /\ r = [x EXCEPT ![p].as = NoUser]
  OBVIOUS
<1> HIDE DEF r, u
<1>7. /\ x \in Seq(Request) /\ Len(x) = Len(q) /\ x[p] = u
      /\ \A k \in 1..Len(q) : k # p => x[k] = q[k]
  BY <1>1, <1>3, <1>6, SetAt
<1>8. r = [x EXCEPT ![p] = v]
  BY <1>6, <1>7
<1> HIDE DEF v, x
<1>9. /\ r \in Seq(Request) /\ Len(r) = Len(q) /\ r[p] = v
      /\ \A k \in 1..Len(q) : k # p => r[k] = q[k]
  BY <1>1, <1>4, <1>7, <1>8, SetAt
<1>10. OneChanged(q, r, p)
  BY <1>1, <1>4, <1>9 DEF OneChanged
<1>11. Queue(r, m, c)
  BY <1>1, <1>5, <1>9 DEF Queue
<1> QED BY <1>4, <1>9, <1>10, <1>11 DEF r

-----------------------------------------------------------------------------
(* The base, and what is behind it in the queue. *)

After(q, b) == b + 1..Len(q)
Is(r, op) == r.op = op /\ r.done = "yes"
Item(r) == IF r.op = "create" THEN r.answer[1].id ELSE IF r.op = "note" THEN r.answer[1] ELSE r.on

\* b is the last request for op, or 0 if there is none.  It, if it is not answered, and
\* what is asked after it, are u's.
Since(q, b, op, u) ==
    /\ b \in 0..Len(q)
    /\ b > 0 => q[b].op = op /\ q[b].done # "refused"
    /\ \A k \in After(q, b) : q[k].op # op
    /\ \A k \in 1..Len(q) : k >= b /\ q[k].done = "no" => q[k].as = u

Waits(q, b) == b > 0 /\ q[b].done = "no"
Base(q, b, s) == IF b = 0 THEN s ELSE q[b].answer

\* The set S as the answers behind b change it is T: they add what a birth is about, and
\* take what a death is about.  What is born is new, and what is dead is not in T.
Match(q, b, S, T, birth, death) ==
    /\ \A x \in T : x \in S \/ \E k \in After(q, b) : Is(q[k], birth) /\ Item(q[k]) = x
    /\ \A x \in S : x \in T \/ \E k \in After(q, b) : Is(q[k], death) /\ Item(q[k]) = x
    /\ \A j \in After(q, b) : Is(q[j], birth) =>
         \/ Item(q[j]) \in T
         \/ \E k \in After(q, b) : Is(q[k], death) /\ Item(q[k]) = Item(q[j])
    /\ \A k \in After(q, b) : Is(q[k], death) => Item(q[k]) \notin T
    /\ \A j \in After(q, b) : Is(q[j], birth) => Item(q[j]) \notin S
    /\ \A j, k \in After(q, b) :
         k < j /\ Is(q[j], birth) /\ (Is(q[k], birth) \/ Is(q[k], death)) => Item(q[k]) # Item(q[j])

Ids(s) == {s[k].id : k \in 1..Len(s)}
Told(r, i) == r.done = "yes" /\ r.op \in {"create", "update", "get"} /\ r.answer[1].id = i
WillTell(r, i) == (Is(r, "entity") \/ (r.op = "get" /\ r.done = "no")) /\ r.on = i

\* The list s as the answers behind b change it shows version n of i, or will.
WillBeTold(q, b, i) == \E k \in After(q, b) : WillTell(q[k], i)
LastTold(q, b, i, n) ==
    \E k \in After(q, b) :
      /\ Told(q[k], i) /\ q[k].answer[1].version = n
      /\ \A j \in After(q, b) : Told(q[j], i) => j <= k
Untold(q, b, s, i, n) ==
    /\ \A k \in After(q, b) : ~Told(q[k], i)
    /\ \A k \in 1..Len(s) : s[k].id = i => s[k].version = n
Latest(q, b, s, i, n) == WillBeTold(q, b, i) \/ LastTold(q, b, i, n) \/ Untold(q, b, s, i, n)

Descending(s) == \A j, k \in 1..Len(s) : j < k => s[j].id > s[k].id

ListKept(q, b, s, O, v) ==
    /\ Match(q, b, Ids(s), O, "create", "delete")
    /\ Descending(s)
    /\ \A j \in After(q, b) : Is(q[j], "create") => \A x \in Ids(s) : x < Item(q[j])
    /\ \A j, k \in After(q, b) :
         k < j /\ Is(q[j], "create") /\ Is(q[k], "create") => Item(q[k]) < Item(q[j])
    /\ \A i \in O : Latest(q, b, s, i, v[i])

ListAt(q, b, s, u, O, v) ==
    /\ Since(q, b, "list", u)
    /\ Waits(q, b) \/ ListKept(q, b, Base(q, b, s), O, v)

Dropped(q, i) == \E k \in 1..Len(q) : Is(q[k], "delete") /\ q[k].on = i

\* Likewise for the notes T of the active investigation a, unless it was just deleted.
NotesAt(q, b, s, u, a, T) ==
    /\ Since(q, b, "notes", u)
    /\ b > 0 => q[b].on = a
    /\ \A k \in After(q, b) : q[k].op = "note" => q[k].on = a
    /\ \/ Waits(q, b)
       \/ Dropped(q, a)
       \/ /\ Match(q, b, ToSet(Base(q, b, s)), T, "note", "unnote")
          /\ IsInjective(Base(q, b, s))

-----------------------------------------------------------------------------
(* How the base and what is behind it fare as the queue changes. *)

Ordered(q) == \A j, k \in 1..Len(q) : j < k /\ q[j].done = "no" => q[k].done = "no"

\* p is the first that is not answered, and now it is.
Turn(q, r, p) ==
    /\ OneChanged(q, r, p) /\ Ordered(q)
    /\ \A j \in 1..p - 1 : q[j].done # "no"

LEMMA OrderKept ==
    ASSUME NEW q, NEW r, Ordered(q)
    PROVE  /\ Extended(q, r) => Ordered(r)
           /\ Popped(q, r) => Ordered(r)
           /\ \A p : Turn(q, r, p) => Ordered(r)
<1>1. Extended(q, r) => Ordered(r)
  BY DEF Extended, Ordered
<1>2. Popped(q, r) => Ordered(r)
  <2> SUFFICES ASSUME Popped(q, r), NEW j \in 1..Len(r), NEW k \in 1..Len(r),
                      j < k, r[j].done = "no"
               PROVE  r[k].done = "no"
    BY DEF Ordered
  <2>1. j + 1 \in 1..Len(q) /\ k + 1 \in 1..Len(q) /\ j + 1 < k + 1
    BY DEF Popped
  <2>2. r[j] = q[j + 1] /\ r[k] = q[k + 1]
    BY DEF Popped
  <2> QED BY <2>1, <2>2 DEF Ordered
<1>3. ASSUME NEW p, Turn(q, r, p) PROVE Ordered(r)
  BY <1>3 DEF Turn, Ordered, OneChanged
<1> QED BY <1>1, <1>2, <1>3

LEMMA SinceKept ==
    ASSUME NEW q, NEW r, NEW b, NEW op, NEW u, Since(q, b, op, u), Len(q) \in Nat
    PROVE  /\ Extended(q, r) /\ (\A k \in Len(q) + 1..Len(r) : r[k].op # op /\ r[k].as = u)
                => Since(r, b, op, u)
           /\ Popped(q, r) /\ b = 0 => Since(r, 0, op, u)
           /\ Popped(q, r) /\ b > 0 => Since(r, b - 1, op, u)
           /\ \A p : OneChanged(q, r, p) /\ (p = b => r[p].done = "yes") => Since(r, b, op, u)
<1>1. ASSUME Extended(q, r), \A k \in Len(q) + 1..Len(r) : r[k].op # op /\ r[k].as = u
      PROVE  Since(r, b, op, u)
  BY <1>1 DEF Since, Extended, After
<1>2. ASSUME Popped(q, r)
      PROVE  /\ b = 0 => Since(r, 0, op, u)
             /\ b > 0 => Since(r, b - 1, op, u)
  <2>1. \A k \in 1..Len(r) : k + 1 \in 1..Len(q) /\ r[k] = q[k + 1]
    BY <1>2 DEF Popped
  <2>2. Len(r) \in Nat /\ Len(r) = Len(q) - 1 /\ b \in Nat
    BY <1>2 DEF Popped, Since
  <2>3. CASE b = 0
    BY <2>1, <2>2, <2>3 DEF Since, After
  <2>4. CASE b > 0
    <3>1. b \in 1..Len(q) /\ b - 1 \in 0..Len(r)
      BY <2>2, <2>4 DEF Since
    <3>2. b - 1 > 0 => r[b - 1] = q[b]
      BY <2>1, <3>1
    <3>3. \A k \in After(r, b - 1) : k + 1 \in After(q, b) /\ r[k] = q[k + 1]
      BY <2>1, <2>2, <3>1 DEF After
    <3>4. \A k \in 1..Len(r) : k >= b - 1 => k + 1 >= b
      BY <3>1
    <3> QED BY <2>1, <2>2, <2>4, <3>1, <3>2, <3>3, <3>4 DEF Since
  <2> QED BY <2>2, <2>3, <2>4
<1>3. ASSUME NEW p, OneChanged(q, r, p), p = b => r[p].done = "yes"
      PROVE  Since(r, b, op, u)
  BY <1>3 DEF Since, After, OneChanged
<1> QED BY <1>1, <1>2, <1>3

\* A request for op that is sent is the last one.
LEMMA SinceNow ==
    ASSUME NEW q, NEW r, NEW b \in Len(q) + 1..Len(r), NEW op, NEW u, Extended(q, r), r[b].op = op,
           \A k \in Len(q) + 1..Len(r) : r[k].as = u /\ (k > b => r[k].op # op)
    PROVE  Since(r, b, op, u) /\ Waits(r, b)
BY DEF Since, Extended, After, Waits

LEMMA MatchEmpty ==
    ASSUME NEW q, NEW b, NEW T, NEW birth, NEW death,
           \A k \in After(q, b) : q[k].done = "no"
    PROVE  Match(q, b, T, T, birth, death)
BY DEF Match, Is

LEMMA MatchExtended ==
    ASSUME NEW q, NEW r, NEW b \in Nat, NEW S, NEW T, NEW birth, NEW death,
           Match(q, b, S, T, birth, death), Extended(q, r)
    PROVE  Match(r, b, S, T, birth, death)
<1>1. \A k \in After(r, b) : k \notin After(q, b) => r[k].done = "no"
  BY DEF Extended, After
<1>2. \A k \in After(q, b) : k \in After(r, b) /\ r[k] = q[k]
  BY DEF Extended, After
<1> QED BY <1>1, <1>2 DEF Match, Is

LEMMA MatchSame ==
    ASSUME NEW q, NEW r, NEW p, NEW b \in Nat, NEW S, NEW T, NEW birth, NEW death,
           Match(q, b, S, T, birth, death), OneChanged(q, r, p),
           r[p].done = "yes" => r[p].op # birth /\ r[p].op # death
    PROVE  Match(r, b, S, T, birth, death)
<1>1. After(r, b) = After(q, b) /\ \A k \in After(q, b) : k # p => r[k] = q[k]
  BY DEF OneChanged, After
<1>2. ~Is(q[p], birth) /\ ~Is(q[p], death) /\ ~Is(r[p], birth) /\ ~Is(r[p], death)
  BY DEF OneChanged, Is
<1>3. \A k \in After(q, b) :
        /\ Is(r[k], birth) <=> Is(q[k], birth)
        /\ Is(r[k], death) <=> Is(q[k], death)
        /\ Is(q[k], birth) \/ Is(q[k], death) => Item(r[k]) = Item(q[k])
  BY <1>1, <1>2
<1>4. /\ \A x \in T : x \in S \/ \E k \in After(r, b) : Is(r[k], birth) /\ Item(r[k]) = x
      /\ \A x \in S : x \in T \/ \E k \in After(r, b) : Is(r[k], death) /\ Item(r[k]) = x
      /\ \A k \in After(r, b) : Is(r[k], death) => Item(r[k]) \notin T
      /\ \A j \in After(r, b) : Is(r[j], birth) => Item(r[j]) \notin S
  BY <1>1, <1>3 DEF Match
<1>5. \A j \in After(r, b) : Is(r[j], birth) =>
        \/ Item(r[j]) \in T
        \/ \E k \in After(r, b) : Is(r[k], death) /\ Item(r[k]) = Item(r[j])
  BY <1>1, <1>3 DEF Match
<1>6. \A j, k \in After(r, b) :
        k < j /\ Is(r[j], birth) /\ (Is(r[k], birth) \/ Is(r[k], death)) => Item(r[k]) # Item(r[j])
  BY <1>1, <1>3 DEF Match
<1> QED BY <1>4, <1>5, <1>6 DEF Match

\* The p-th is done, and makes something new, or takes something away.
LEMMA MatchChanged ==
    ASSUME NEW q, NEW r, NEW p, NEW b \in Nat, NEW S, NEW T, NEW birth, NEW death, birth # death,
           Match(q, b, S, T, birth, death), Turn(q, r, p), p > b
    PROVE  /\ /\ Is(r[p], birth) /\ Item(r[p]) \notin S
              /\ \A k \in After(q, b) : Is(q[k], birth) \/ Is(q[k], death) => Item(q[k]) # Item(r[p])
              => Match(r, b, S, T \cup {Item(r[p])}, birth, death)
           /\ Is(r[p], death) => Match(r, b, S, T \ {Item(r[p])}, birth, death)
<1>1. After(r, b) = After(q, b) /\ p \in After(q, b)
  BY DEF Turn, OneChanged, After
<1>2. ~Is(q[p], birth) /\ ~Is(q[p], death) /\ \A k \in After(q, b) : k # p => r[k] = q[k]
  BY DEF Turn, OneChanged, Is, After
<1>3. \A k \in After(q, b) : k > p => ~Is(r[k], birth) /\ ~Is(r[k], death)
  BY DEF Turn, OneChanged, Ordered, Is, After
<1>5. \A k \in After(q, b) : k \in Nat /\ p \in Nat
  BY <1>1 DEF After
<1>6. \A k \in After(q, b) : k # p =>
        /\ Is(r[k], birth) <=> Is(q[k], birth)
        /\ Is(r[k], death) <=> Is(q[k], death)
        /\ Item(r[k]) = Item(q[k])
  BY <1>2
<1> DEFINE x == Item(r[p])
<1>7. ASSUME Is(r[p], birth), x \notin S,
             \A k \in After(q, b) : Is(q[k], birth) \/ Is(q[k], death) => Item(q[k]) # x
      PROVE  Match(r, b, S, T \cup {x}, birth, death)
  <2>1. ~Is(r[p], death)
    BY <1>7 DEF Is
  <2> HIDE DEF x
  <2>2. /\ \A y \in T \cup {x} : y \in S \/ \E k \in After(r, b) : Is(r[k], birth) /\ Item(r[k]) = y
        /\ \A y \in S : y \in T \cup {x} \/ \E k \in After(r, b) : Is(r[k], death) /\ Item(r[k]) = y
    BY <1>1, <1>2, <1>6, <1>7 DEF Match, x
  <2>3. \A j \in After(r, b) : Is(r[j], birth) =>
          \/ Item(r[j]) \in T \cup {x}
          \/ \E k \in After(r, b) : Is(r[k], death) /\ Item(r[k]) = Item(r[j])
    BY <1>1, <1>2, <1>6, <1>7 DEF Match, x
  <2>4. /\ \A k \in After(r, b) : Is(r[k], death) => Item(r[k]) \notin T \cup {x}
        /\ \A j \in After(r, b) : Is(r[j], birth) => Item(r[j]) \notin S
    BY <1>1, <1>6, <1>7, <2>1 DEF Match, x
  <2>5. \A j, k \in After(r, b) :
          k < j /\ Is(r[j], birth) /\ (Is(r[k], birth) \/ Is(r[k], death)) => Item(r[k]) # Item(r[j])
    BY <1>1, <1>3, <1>5, <1>6, <1>7 DEF Match, x
  <2> QED BY <2>2, <2>3, <2>4, <2>5 DEF Match
<1>8. ASSUME Is(r[p], death)
      PROVE  Match(r, b, S, T \ {x}, birth, death)
  <2>1. ~Is(r[p], birth)
    BY <1>8 DEF Is
  <2> HIDE DEF x
  <2>2. /\ \A y \in T \ {x} : y \in S \/ \E k \in After(r, b) : Is(r[k], birth) /\ Item(r[k]) = y
        /\ \A y \in S : y \in T \ {x} \/ \E k \in After(r, b) : Is(r[k], death) /\ Item(r[k]) = y
    BY <1>1, <1>2, <1>6, <1>8 DEF Match, x
  <2>3. \A j \in After(r, b) : Is(r[j], birth) =>
          \/ Item(r[j]) \in T \ {x}
          \/ \E k \in After(r, b) : Is(r[k], death) /\ Item(r[k]) = Item(r[j])
    BY <1>1, <1>2, <1>6, <1>8, <2>1 DEF Match, x
  <2>4. /\ \A k \in After(r, b) : Is(r[k], death) => Item(r[k]) \notin T \ {x}
        /\ \A j \in After(r, b) : Is(r[j], birth) => Item(r[j]) \notin S
    BY <1>1, <1>6, <1>8, <2>1 DEF Match, x
  <2>5. \A j, k \in After(r, b) :
          k < j /\ Is(r[j], birth) /\ (Is(r[k], birth) \/ Is(r[k], death)) => Item(r[k]) # Item(r[j])
    BY <1>1, <1>3, <1>5, <1>6, <2>1 DEF Match
  <2> QED BY <2>2, <2>3, <2>4, <2>5 DEF Match
<1> QED BY <1>7, <1>8

\* The head of the queue is gone: from before the base, or when the base is the store's,
\* which takes what it brings.
LEMMA MatchPopped ==
    ASSUME NEW q, NEW r, NEW b \in Nat, NEW S, NEW T, NEW birth, NEW death, birth # death,
           Match(q, b, S, T, birth, death), Popped(q, r)
    PROVE  /\ b > 0 => Match(r, b - 1, S, T, birth, death)
           /\ b = 0 /\ Is(q[1], birth) => Match(r, 0, S \cup {Item(q[1])}, T, birth, death)
           /\ b = 0 /\ Is(q[1], death) => Match(r, 0, S \ {Item(q[1])}, T, birth, death)
           /\ b = 0 /\ ~Is(q[1], birth) /\ ~Is(q[1], death) => Match(r, 0, S, T, birth, death)
<1>1. ASSUME b > 0 PROVE Match(r, b - 1, S, T, birth, death)
  <2>1. \A k \in After(r, b - 1) : k \in Nat /\ k + 1 \in After(q, b) /\ r[k] = q[k + 1]
    BY <1>1 DEF Popped, After
  <2>2. \A k \in After(q, b) : k - 1 \in After(r, b - 1) /\ r[k - 1] = q[k]
    BY <1>1 DEF Popped, After
  <2>4. \A j, k \in After(r, b - 1) :
          k < j /\ Is(r[j], birth) /\ (Is(r[k], birth) \/ Is(r[k], death)) => Item(r[k]) # Item(r[j])
    BY <2>1 DEF Match
  <2>5. \A j \in After(r, b - 1) : Is(r[j], birth) =>
          \/ Item(r[j]) \in T
          \/ \E k \in After(r, b - 1) : Is(r[k], death) /\ Item(r[k]) = Item(r[j])
    BY <2>1, <2>2 DEF Match
  <2>6. /\ \A x \in T : x \in S \/ \E k \in After(r, b - 1) : Is(r[k], birth) /\ Item(r[k]) = x
        /\ \A x \in S : x \in T \/ \E k \in After(r, b - 1) : Is(r[k], death) /\ Item(r[k]) = x
        /\ \A k \in After(r, b - 1) : Is(r[k], death) => Item(r[k]) \notin T
        /\ \A j \in After(r, b - 1) : Is(r[j], birth) => Item(r[j]) \notin S
    BY <2>1, <2>2 DEF Match
  <2> QED BY <2>4, <2>5, <2>6 DEF Match
<1>2. ASSUME b = 0 PROVE
        /\ Is(q[1], birth) => Match(r, 0, S \cup {Item(q[1])}, T, birth, death)
        /\ Is(q[1], death) => Match(r, 0, S \ {Item(q[1])}, T, birth, death)
        /\ ~Is(q[1], birth) /\ ~Is(q[1], death) => Match(r, 0, S, T, birth, death)
  <2>1. \A k \in After(r, 0) : k \in Nat /\ k + 1 \in After(q, 0) /\ 1 < k + 1 /\ r[k] = q[k + 1]
    BY DEF Popped, After
  <2>2. \A k \in After(q, 0) : k # 1 => k - 1 \in After(r, 0) /\ r[k - 1] = q[k]
    BY DEF Popped, After
  <2>4. Match(q, 0, S, T, birth, death) /\ 1 \in After(q, 0)
    BY <1>2 DEF Popped, After
  <2>5. ~(Is(q[1], birth) /\ Is(q[1], death))
    BY DEF Is
  <2>6. /\ \A j \in After(r, 0) : Is(r[j], birth) => Item(r[j]) \notin S
        /\ \A j \in After(r, 0) : Is(r[j], birth) /\ (Is(q[1], birth) \/ Is(q[1], death)) =>
             Item(q[1]) # Item(r[j])
        /\ \A k \in After(r, 0) : Is(r[k], death) => Item(r[k]) \notin T
        /\ \A j, k \in After(r, 0) :
             k < j /\ Is(r[j], birth) /\ (Is(r[k], birth) \/ Is(r[k], death)) => Item(r[k]) # Item(r[j])
    BY <2>1, <2>4 DEF Match
  <2>7. \A j \in After(r, 0) : Is(r[j], birth) =>
          \/ Item(r[j]) \in T
          \/ \E k \in After(r, 0) : Is(r[k], death) /\ Item(r[k]) = Item(r[j])
    BY <2>1, <2>2, <2>4, <2>6 DEF Match
  <2>8. /\ \A x \in T : x \in S \/ \E k \in After(q, 0) : Is(q[k], birth) /\ Item(q[k]) = x
        /\ \A x \in S : x \in T \/ \E k \in After(q, 0) : Is(q[k], death) /\ Item(q[k]) = x
        /\ Is(q[1], death) => Item(q[1]) \notin T
    BY <2>4 DEF Match
  <2>9. CASE Is(q[1], birth)
    <3> DEFINE W == S \cup {Item(q[1])}
    <3>1. /\ \A x \in T : x \in W \/ \E k \in After(r, 0) : Is(r[k], birth) /\ Item(r[k]) = x
          /\ \A x \in W : x \in T \/ \E k \in After(r, 0) : Is(r[k], death) /\ Item(r[k]) = x
          /\ \A j \in After(r, 0) : Is(r[j], birth) => Item(r[j]) \notin W
      BY <2>2, <2>4, <2>5, <2>6, <2>8, <2>9 DEF Match
    <3> HIDE DEF W
    <3>2. Match(r, 0, W, T, birth, death)
      BY <2>6, <2>7, <3>1 DEF Match
    <3> QED BY <2>5, <2>9, <3>2 DEF W
  <2>10. CASE Is(q[1], death)
    <3> DEFINE W == S \ {Item(q[1])}
    <3>1. /\ \A x \in T : x \in W \/ \E k \in After(r, 0) : Is(r[k], birth) /\ Item(r[k]) = x
          /\ \A x \in W : x \in T \/ \E k \in After(r, 0) : Is(r[k], death) /\ Item(r[k]) = x
          /\ \A j \in After(r, 0) : Is(r[j], birth) => Item(r[j]) \notin W
      BY <2>2, <2>5, <2>6, <2>8, <2>10
    <3> HIDE DEF W
    <3>2. Match(r, 0, W, T, birth, death)
      BY <2>6, <2>7, <3>1 DEF Match
    <3> QED BY <2>5, <2>10, <3>2 DEF W
  <2>11. CASE ~Is(q[1], birth) /\ ~Is(q[1], death)
    <3>1. /\ \A x \in T : x \in S \/ \E k \in After(r, 0) : Is(r[k], birth) /\ Item(r[k]) = x
          /\ \A x \in S : x \in T \/ \E k \in After(r, 0) : Is(r[k], death) /\ Item(r[k]) = x
      BY <2>2, <2>8, <2>11
    <3> QED BY <2>6, <2>7, <2>11, <3>1 DEF Match
  <2> QED BY <2>9, <2>10, <2>11
<1> QED BY <1>1, <1>2

\* S becomes T by what r adds or takes.
Changed(r, S, T, birth, death) ==
    /\ Is(r, birth) => T = S \cup {Item(r)}
    /\ Is(r, death) => T = S \ {Item(r)}
    /\ ~Is(r, birth) /\ ~Is(r, death) => T = S

\* s becomes t as r arrives.
Taking(r, s, t) ==
    /\ Changed(r, Ids(s), Ids(t), "create", "delete")
    /\ Descending(s) /\ (Is(r, "create") => \A x \in Ids(s) : x < Item(r)) => Descending(t)
    /\ (Is(r, "create") => Item(r) \notin Ids(s)) =>
         \A k \in 1..Len(t) : IF Told(r, t[k].id) THEN t[k].version = r.answer[1].version
                             ELSE \E j \in 1..Len(s) : t[k] = s[j]

LEMMA ListExtends ==
    ASSUME NEW q, NEW r, NEW b \in Nat, NEW s, NEW O, NEW v,
           ListKept(q, b, s, O, v), Extended(q, r)
    PROVE  ListKept(r, b, s, O, v)
<1>1. \A k \in After(r, b) : k \notin After(q, b) => r[k].done = "no"
  BY DEF Extended, After
<1>2. \A k \in After(q, b) : k \in After(r, b) /\ r[k] = q[k]
  BY DEF Extended, After
<1>3. Match(r, b, Ids(s), O, "create", "delete")
  BY MatchExtended DEF ListKept
<1>4. /\ \A j \in After(r, b) : Is(r[j], "create") => \A x \in Ids(s) : x < Item(r[j])
      /\ \A j, k \in After(r, b) :
           k < j /\ Is(r[j], "create") /\ Is(r[k], "create") => Item(r[k]) < Item(r[j])
  BY <1>1, <1>2 DEF ListKept, Is
<1>5. ASSUME NEW i \in O PROVE Latest(r, b, s, i, v[i])
  <2>1. Latest(q, b, s, i, v[i])
    BY DEF ListKept
  <2>2. \A k \in After(r, b) : Told(r[k], i) => k \in After(q, b)
    BY <1>1 DEF Told
  <2> QED BY <1>2, <2>1, <2>2 DEF Latest, WillBeTold, LastTold, Untold
<1> QED BY <1>3, <1>4, <1>5 DEF ListKept

LEMMA ListShifts ==
    ASSUME NEW q, NEW r, NEW b \in Nat \ {0}, NEW s, NEW O, NEW v,
           ListKept(q, b, s, O, v), Popped(q, r)
    PROVE  ListKept(r, b - 1, s, O, v)
<1>1. \A k \in After(r, b - 1) : k \in Nat /\ k + 1 \in After(q, b) /\ r[k] = q[k + 1]
  BY DEF Popped, After
<1>2. \A k \in After(q, b) : k \in Nat /\ k - 1 \in After(r, b - 1) /\ r[k - 1] = q[k]
  BY DEF Popped, After
<1>3. Match(r, b - 1, Ids(s), O, "create", "delete")
  <2>1. Match(q, b, Ids(s), O, "create", "delete") /\ b \in Nat /\ b > 0 /\ "create" # "delete"
    BY DEF ListKept
  <2> HIDE DEF ListKept
  <2> QED BY <2>1, MatchPopped
<1>4. /\ \A j \in After(r, b - 1) : Is(r[j], "create") => \A x \in Ids(s) : x < Item(r[j])
      /\ \A j, k \in After(r, b - 1) :
           k < j /\ Is(r[j], "create") /\ Is(r[k], "create") => Item(r[k]) < Item(r[j])
  <2>1. /\ \A j \in After(q, b) : Is(q[j], "create") => \A x \in Ids(s) : x < Item(q[j])
        /\ \A j, k \in After(q, b) :
             k < j /\ Is(q[j], "create") /\ Is(q[k], "create") => Item(q[k]) < Item(q[j])
    BY DEF ListKept
  <2>2. \A j, k \in After(r, b - 1) : k < j => k + 1 < j + 1
    BY <1>1
  <2> QED BY <1>1, <2>1, <2>2
<1>5. ASSUME NEW i \in O PROVE Latest(r, b - 1, s, i, v[i])
  <2>1. Latest(q, b, s, i, v[i])
    BY DEF ListKept
  <2>2. CASE WillBeTold(q, b, i)
    BY <1>2, <2>2 DEF Latest, WillBeTold
  <2>3. CASE LastTold(q, b, i, v[i])
    <3>1. PICK k \in After(q, b) :
               /\ Told(q[k], i) /\ q[k].answer[1].version = v[i]
               /\ \A j \in After(q, b) : Told(q[j], i) => j <= k
      BY <2>3 DEF LastTold
    <3>2. \A j \in After(r, b - 1) : Told(r[j], i) => j <= k - 1
      BY <1>1, <1>2, <3>1
    <3>3. k - 1 \in After(r, b - 1) /\ Told(r[k - 1], i) /\ r[k - 1].answer[1].version = v[i]
      BY <1>2, <3>1
    <3> QED BY <3>2, <3>3 DEF Latest, LastTold
  <2>4. CASE Untold(q, b, s, i, v[i])
    BY <1>1, <2>4 DEF Latest, Untold
  <2> QED BY <2>1, <2>2, <2>3, <2>4 DEF Latest
<1> QED BY <1>3, <1>4, <1>5 DEF ListKept

\* The store takes the head of the queue; an entity that was added to an investigation, or
\* taken from it, has the investigation fetched again.
LEMMA ListTakes ==
    ASSUME NEW q, NEW t, NEW r, NEW s, NEW ss, NEW O, NEW v,
           ListKept(q, 0, s, O, v), Popped(q, t), Extended(t, r),
           q[1].done # "no", Taking(q[1], s, ss),
           Is(q[1], "entity") => \E k \in After(r, 0) : WillTell(r[k], q[1].on)
    PROVE  ListKept(r, 0, ss, O, v)
<1>1. \A k \in After(t, 0) : k \in Nat /\ k + 1 \in After(q, 0) /\ 1 < k + 1 /\ t[k] = q[k + 1]
  BY DEF Popped, After
<1>2. \A k \in After(q, 0) : k # 1 => k - 1 \in After(t, 0) /\ t[k - 1] = q[k]
  BY DEF Popped, After
<1>3. 1 \in After(q, 0) /\ \A k \in After(q, 0) : k \in Nat
  BY DEF Popped, After
<1>4. \A k \in After(r, 0) : k \notin After(t, 0) => r[k].done = "no"
  BY DEF Extended, After
<1>5. \A k \in After(t, 0) : k \in After(r, 0) /\ r[k] = t[k]
  BY DEF Extended, After
<1>6. Match(r, 0, Ids(ss), O, "create", "delete")
  <2>1. Match(q, 0, Ids(s), O, "create", "delete") /\ "create" # "delete" /\ 0 \in Nat
    BY DEF ListKept
  <2>2. /\ Is(q[1], "create") => Match(t, 0, Ids(s) \cup {Item(q[1])}, O, "create", "delete")
        /\ Is(q[1], "delete") => Match(t, 0, Ids(s) \ {Item(q[1])}, O, "create", "delete")
        /\ ~Is(q[1], "create") /\ ~Is(q[1], "delete") => Match(t, 0, Ids(s), O, "create", "delete")
    <3> HIDE DEF ListKept, Match, Ids
    <3> QED BY <2>1, MatchPopped
  <2>3. Match(t, 0, Ids(ss), O, "create", "delete")
    BY <2>2 DEF Taking, Changed
  <2> QED BY <2>1, <2>3, MatchExtended
<1>7. /\ \A j \in After(q, 0) : Is(q[j], "create") => \A x \in Ids(s) : x < Item(q[j])
      /\ \A j, k \in After(q, 0) :
           k < j /\ Is(q[j], "create") /\ Is(q[k], "create") => Item(q[k]) < Item(q[j])
      /\ Descending(s)
  BY DEF ListKept
<1> Is(q[1], "create") => Item(q[1]) \notin Ids(s)
  BY <1>3 DEF ListKept, Match
<1>8. Descending(ss)
  BY <1>3, <1>7 DEF Taking
<1>9. \A j \in After(t, 0) : Is(t[j], "create") => \A x \in Ids(ss) : x < Item(t[j])
  BY <1>1, <1>3, <1>7 DEF Taking, Changed
<1>10. \A j, k \in After(t, 0) :
         k < j /\ Is(t[j], "create") /\ Is(t[k], "create") => Item(t[k]) < Item(t[j])
  <2>1. \A j, k \in After(t, 0) : k < j => k + 1 < j + 1
    BY <1>1
  <2> QED BY <1>1, <1>7, <2>1
<1>11. /\ \A j \in After(r, 0) : Is(r[j], "create") => \A x \in Ids(ss) : x < Item(r[j])
       /\ \A j, k \in After(r, 0) :
            k < j /\ Is(r[j], "create") /\ Is(r[k], "create") => Item(r[k]) < Item(r[j])
  BY <1>4, <1>5, <1>9, <1>10 DEF Is
<1>12. ASSUME NEW i \in O PROVE Latest(r, 0, ss, i, v[i])
  <2> DEFINE n == v[i]
  <2>1. Latest(q, 0, s, i, n)
    BY DEF ListKept
  <2> SUFFICES Latest(r, 0, ss, i, n)
    OBVIOUS
  <2> HIDE DEF n
  <2>2. \A k \in After(q, 0) : k # 1 => k - 1 \in After(r, 0) /\ r[k - 1] = q[k]
    BY <1>2, <1>5
  <2>3. \A j \in After(r, 0) : Told(r[j], i) => j \in Nat \ {0} /\ j + 1 \in After(q, 0) /\ r[j] = q[j + 1]
    BY <1>1, <1>4, <1>5 DEF Told
  <2>4. CASE WillBeTold(q, 0, i)
    <3>1. PICK k \in After(q, 0) : WillTell(q[k], i)
      BY <2>4 DEF WillBeTold
    <3>2. CASE k = 1
      <4>1. Is(q[1], "entity") /\ q[1].on = i
        BY <3>1, <3>2 DEF WillTell
      <4> QED BY <4>1 DEF Latest, WillBeTold
    <3>3. CASE k # 1
      BY <2>2, <3>1, <3>3 DEF Latest, WillBeTold
    <3> QED BY <3>2, <3>3
  <2>5. CASE LastTold(q, 0, i, n)
    <3>1. PICK k \in After(q, 0) :
               /\ Told(q[k], i) /\ q[k].answer[1].version = n
               /\ \A j \in After(q, 0) : Told(q[j], i) => j <= k
      BY <2>5 DEF LastTold
    <3>2. CASE k = 1
      <4>1. \A j \in After(r, 0) : ~Told(r[j], i)
        BY <2>3, <3>1, <3>2
      <4>2. \A j \in 1..Len(ss) : ss[j].id = i => ss[j].version = n
        BY <3>1, <3>2 DEF Taking
      <4> QED BY <4>1, <4>2 DEF Latest, Untold
    <3>3. CASE k # 1
      <4>1. \A j \in After(r, 0) : Told(r[j], i) => j <= k - 1
        BY <1>3, <2>3, <3>1
      <4>2. k - 1 \in After(r, 0) /\ Told(r[k - 1], i) /\ r[k - 1].answer[1].version = n
        BY <2>2, <3>1, <3>3
      <4> QED BY <4>1, <4>2 DEF Latest, LastTold
    <3> QED BY <3>2, <3>3
  <2>6. CASE Untold(q, 0, s, i, n)
    <3>1. \A k \in After(r, 0) : ~Told(r[k], i)
      BY <2>3, <2>6 DEF Untold
    <3>2. \A k \in 1..Len(ss) : ss[k].id = i => ss[k].version = n
      BY <1>3, <2>6 DEF Taking, Untold
    <3> QED BY <3>1, <3>2 DEF Latest, Untold
  <2> QED BY <2>1, <2>4, <2>5, <2>6 DEF Latest
<1> QED BY <1>6, <1>8, <1>11, <1>12 DEF ListKept

\* The API does the next request behind the base.
LEMMA ListServes ==
    ASSUME NEW q, NEW r, NEW p, NEW b \in Nat, NEW s, NEW O, NEW v, NEW OO, NEW vv,
           ListKept(q, b, s, O, v), Turn(q, r, p), p > b,
           Changed(r[p], O, OO, "create", "delete"),
           Is(r[p], "create") =>
             /\ \A x \in Ids(s) : x < Item(r[p]) /\ x # Item(r[p])
             /\ \A k \in After(q, b) : Is(q[k], "create") => Item(q[k]) < Item(r[p])
             /\ \A k \in After(q, b) : Is(q[k], "create") \/ Is(q[k], "delete") => Item(q[k]) # Item(r[p]),
           \A i \in OO : \/ WillTell(r[p], i)
                         \/ Told(r[p], i) /\ r[p].answer[1].version = vv[i]
                         \/ /\ ~Told(r[p], i) /\ ~WillTell(q[p], i)
                            /\ i \in O /\ vv[i] = v[i]
    PROVE  ListKept(r, b, s, OO, vv)
<1>1. /\ After(r, b) = After(q, b) /\ p \in After(q, b)
      /\ \A k \in After(q, b) : k \in Nat
  BY DEF Turn, OneChanged, After
<1>2. q[p].done = "no" /\ \A k \in After(q, b) : k # p => r[k] = q[k]
  BY DEF Turn, OneChanged, After
<1>3. \A k \in After(q, b) : k > p => r[k].done = "no"
  BY DEF Turn, OneChanged, Ordered, After
<1>4. Match(r, b, Ids(s), OO, "create", "delete")
  <2>1. Match(q, b, Ids(s), O, "create", "delete") /\ "create" # "delete"
    BY DEF ListKept
  <2>2. CASE Is(r[p], "create")
    <3>1. Match(r, b, Ids(s), O \cup {Item(r[p])}, "create", "delete")
      BY <2>1, <2>2, MatchChanged
    <3> QED BY <2>2, <3>1 DEF Changed
  <2>3. CASE Is(r[p], "delete")
    <3>1. Match(r, b, Ids(s), O \ {Item(r[p])}, "create", "delete")
      BY <2>1, <2>3, MatchChanged
    <3> QED BY <2>3, <3>1 DEF Changed
  <2>4. CASE ~Is(r[p], "create") /\ ~Is(r[p], "delete")
    <3>1. Match(r, b, Ids(s), O, "create", "delete")
      BY <2>1, <2>4, MatchSame DEF Turn, Is
    <3> QED BY <2>4, <3>1 DEF Changed
  <2> QED BY <2>2, <2>3, <2>4
<1>5. /\ \A j \in After(q, b) : Is(q[j], "create") => \A x \in Ids(s) : x < Item(q[j])
      /\ \A j, k \in After(q, b) :
           k < j /\ Is(q[j], "create") /\ Is(q[k], "create") => Item(q[k]) < Item(q[j])
      /\ Descending(s)
  BY DEF ListKept
<1>6. \A j \in After(r, b) : Is(r[j], "create") => \A x \in Ids(s) : x < Item(r[j])
  BY <1>1, <1>2, <1>5
<1>7. \A j, k \in After(r, b) :
        k < j /\ Is(r[j], "create") /\ Is(r[k], "create") => Item(r[k]) < Item(r[j])
  <2>1. \A j \in After(q, b) : j > p => ~Is(r[j], "create")
    BY <1>3 DEF Is
  <2>2. \A j, k \in After(q, b) : k < j /\ k = p => j > p
    BY <1>1
  <2> QED BY <1>1, <1>2, <1>5, <2>1, <2>2
<1>8. ASSUME NEW i \in OO PROVE Latest(r, b, s, i, vv[i])
  <2>1. CASE WillTell(r[p], i)
    BY <1>1, <2>1 DEF Latest, WillBeTold
  <2>2. CASE Told(r[p], i) /\ r[p].answer[1].version = vv[i]
    <3>1. \A j \in After(r, b) : Told(r[j], i) => j <= p
      BY <1>1, <1>3 DEF Told
    <3> QED BY <1>1, <2>2, <3>1 DEF Latest, LastTold
  <2>3. CASE ~Told(r[p], i) /\ ~WillTell(q[p], i) /\ i \in O /\ vv[i] = v[i]
    <3> DEFINE n == vv[i]
    <3>1. Latest(q, b, s, i, n)
      BY <2>3 DEF ListKept
    <3> HIDE DEF n
    <3>2. ~Told(q[p], i)
      BY <1>2 DEF Told
    <3>3. WillBeTold(q, b, i) => WillBeTold(r, b, i)
      BY <1>1, <1>2, <2>3 DEF WillBeTold
    <3>4. LastTold(q, b, i, n) => LastTold(r, b, i, n)
      BY <1>1, <1>2, <2>3, <3>2 DEF LastTold
    <3>5. Untold(q, b, s, i, n) => Untold(r, b, s, i, n)
      BY <1>1, <1>2, <2>3 DEF Untold
    <3>6. Latest(r, b, s, i, n)
      BY <3>1, <3>3, <3>4, <3>5 DEF Latest
    <3> QED BY <3>6 DEF n
  <2> QED BY <2>1, <2>2, <2>3
<1> QED BY <1>4, <1>5, <1>6, <1>7, <1>8 DEF ListKept

\* When it answers the base, the list is the user's, and nothing behind it is answered.
LEMMA ListAnswered ==
    ASSUME NEW q, NEW r, NEW b, NEW s, NEW O, NEW v, Turn(q, r, b),
           Ids(s) = O, Descending(s), \A k \in 1..Len(s) : s[k].version = v[s[k].id]
    PROVE  ListKept(r, b, s, O, v)
<1>1. \A k \in After(r, b) : r[k].done = "no"
  BY DEF Turn, OneChanged, Ordered, After
<1>2. Match(r, b, Ids(s), O, "create", "delete")
  BY <1>1, MatchEmpty
<1>3. \A i \in O : Latest(r, b, s, i, v[i])
  BY <1>1 DEF Latest, Untold, Told
<1> QED BY <1>1, <1>2, <1>3 DEF ListKept, Is

-----------------------------------------------------------------------------
(* Sets as sequences, and what a filter leaves of an array. *)

LEMMA Enumerated ==
    ASSUME NEW S, IsFiniteSet(S), NEW f \in [1..Cardinality(S) -> S],
           \A i, j \in 1..Cardinality(S) : i # j => f[i] # f[j]
    PROVE  f \in Seq(S) /\ Len(f) = Cardinality(S) /\ ToSet(f) = S
<1> DEFINE n == Cardinality(S)
<1>1. n \in Nat
  BY FS_CardinalityType
<1>2. IsFiniteSet(1..n) /\ Cardinality(1..n) = n
  BY <1>1, FS_Interval
<1>3. f \in Injection(1..n, S)
  BY Fun_IsInj
<1>4. f \in Surjection(1..n, S)
  BY <1>2, <1>3, FS_Injection
<1>5. \A x \in S : \E i \in 1..n : f[i] = x
  <2> HIDE DEF n
  <2> QED BY <1>4 DEF Surjection
<1>6. f \in Seq(S) /\ Len(f) = n /\ DOMAIN f = 1..n
  BY <1>1
<1> QED BY <1>5, <1>6 DEF ToSet

LEMMA Enumerates ==
    ASSUME NEW s, NEW S, s \in Seq(S), ToSet(s) = S, \A i, j \in 1..Len(s) : i # j => s[i] # s[j]
    PROVE  IsFiniteSet(S) /\ Cardinality(S) = Len(s) /\ s \in [1..Len(s) -> S]
<1>1. Len(s) \in Nat /\ s \in [1..Len(s) -> S] /\ DOMAIN s = 1..Len(s)
  OBVIOUS
<1>2. \A x \in S : \E i \in 1..Len(s) : s[i] = x
  BY <1>1 DEF ToSet
<1>3. s \in Bijection(1..Len(s), S)
  BY <1>1, <1>2, Fun_IsBij
<1>4. ExistsBijection(1..Len(s), S)
  BY <1>3, Fun_ExistsBij
<1>5. IsFiniteSet(1..Len(s)) /\ Cardinality(1..Len(s)) = Len(s)
  BY <1>1, FS_Interval
<1> QED BY <1>1, <1>4, <1>5, FS_Bijection

LEMMA AsSequence ==
    ASSUME NEW S, IsFiniteSet(S)
    PROVE  SetToSeq(S) \in Seq(S) /\ ToSet(SetToSeq(S)) = S /\ IsInjective(SetToSeq(S))
<1>1. \E f \in [1..Cardinality(S) -> S] : IsInjective(f)
  <2>1. PICK f : f \in Bijection(1..Cardinality(S), S)
    BY FS_CardinalityType, Fun_ExistsBij
  <2>2. f \in [1..Cardinality(S) -> S] /\ \A i, j \in 1..Cardinality(S) : f[i] = f[j] => i = j
    BY <2>1, Fun_BijectionProperties
  <2> QED BY <2>2 DEF IsInjective
<1>2. SetToSeq(S) \in [1..Cardinality(S) -> S] /\ IsInjective(SetToSeq(S))
  BY <1>1 DEF SetToSeq
<1>3. \A i, j \in 1..Cardinality(S) : i # j => SetToSeq(S)[i] # SetToSeq(S)[j]
  BY <1>2 DEF IsInjective
<1> QED BY <1>2, <1>3, Enumerated

\* t is what is left of s at the positions K.
LeftOf(t, s, K) ==
    /\ \A k \in K : \E i \in 1..Len(t) : t[i] = s[k]
    /\ \A i \in 1..Len(t) : \E k \in K : t[i] = s[k]
    /\ \A i, j \in 1..Len(t) : i < j => \E k, l \in K : k < l /\ t[i] = s[k] /\ t[j] = s[l]

LEMMA Filtered ==
    ASSUME NEW S, NEW s \in Seq(S), NEW K \in SUBSET (1..Len(s)), NEW t \in Kept(s, K)
    PROVE  t \in Seq(S) /\ LeftOf(t, s, K)
<1>1. PICK g \in SetToSeqs(K) : IsSorted(g, <) /\ t = [k \in DOMAIN g |-> s[g[k]]]
  BY DEF Kept
<1>2. IsFiniteSet(K)
  <2>1. IsFiniteSet(1..Len(s))
    BY FS_Interval
  <2> QED BY <2>1, FS_Subset
<1>3. g \in [1..Cardinality(K) -> K] /\ \A i, j \in 1..Cardinality(K) : i # j => g[i] # g[j]
  BY <1>1 DEF SetToSeqs
<1>4. g \in Seq(K) /\ Len(g) = Cardinality(K) /\ ToSet(g) = K /\ DOMAIN g = 1..Len(g)
  BY <1>2, <1>3, Enumerated
<1>5. Len(g) \in Nat /\ \A i \in 1..Len(g) : g[i] \in K
  BY <1>4
<1>6. t \in Seq(S) /\ Len(t) = Len(g) /\ \A i \in 1..Len(g) : t[i] = s[g[i]]
  <2>1. t = [k \in 1..Len(g) |-> s[g[k]]]
    BY <1>1, <1>4, Zenon
  <2>2. \A k \in 1..Len(s) : s[k] \in S
    OBVIOUS
  <2>3. \A k \in 1..Len(g) : s[g[k]] \in S
    BY <1>5, <2>2
  <2> QED BY <1>5, <2>1, <2>3
<1>7. \A i, j \in 1..Len(g) : i < j => g[i] < g[j]
  BY <1>1 DEF IsSorted
<1>8. \A k \in K : \E i \in 1..Len(g) : g[i] = k
  BY <1>4 DEF ToSet
<1>9. \A i, j \in 1..Len(t) : i < j => \E k, l \in K : k < l /\ t[i] = s[k] /\ t[j] = s[l]
  <2> TAKE i, j \in 1..Len(t)
  <2> HAVE i < j
  <2>1. i \in 1..Len(g) /\ j \in 1..Len(g)
    BY <1>6
  <2>2. g[i] \in K /\ g[j] \in K /\ g[i] < g[j] /\ t[i] = s[g[i]] /\ t[j] = s[g[j]]
    BY <1>5, <1>6, <1>7, <2>1
  <2> QED BY <2>2
<1>10. \A i \in 1..Len(t) : \E k \in K : t[i] = s[k]
  BY <1>5, <1>6
<1>11. \A k \in K : \E i \in 1..Len(t) : t[i] = s[k]
  BY <1>5, <1>6, <1>8
<1> QED BY <1>6, <1>9, <1>10, <1>11 DEF LeftOf

\* The API's list of u.
LEMMA OwnListIs ==
    ASSUME Typed, NEW u, NEW s
    PROVE  s \in OwnLists(u) <=>
             /\ s \in Seq(Entries(Len(owners), changes)) /\ Ids(s) = Own(u) /\ Descending(s)
             /\ \A k \in 1..Len(s) : s[k].version = version[s[k].id]
<1> DEFINE S == {Version(i) : i \in Own(u)}
<1>1. /\ Own(u) \subseteq 1..Len(owners) /\ IsFiniteSet(Own(u))
      /\ \A i \in 1..Len(owners) : version[i] \in 0..changes
  <2>1. alive \subseteq 1..Len(owners) /\ Own(u) \subseteq alive
    BY DEF Typed, Own
  <2>2. Len(owners) \in Nat
    BY DEF Typed
  <2>3. IsFiniteSet(1..Len(owners))
    BY <2>2, FS_Interval
  <2>4. IsFiniteSet(Own(u))
    BY <2>1, <2>3, FS_Subset
  <2>5. \A i \in 1..Len(owners) : version[i] \in 0..changes
    BY DEF Typed
  <2> QED BY <2>1, <2>4, <2>5
<1>2. S \subseteq Entries(Len(owners), changes) /\ IsFiniteSet(S)
  <2>1. IsFiniteSet(S)
    <3> DEFINE f == [i \in Own(u) |-> Version(i)]
    <3>1. f \in [Own(u) -> S] /\ \A x \in S : \E i \in Own(u) : f[i] = x
      OBVIOUS
    <3> HIDE DEF f, S
    <3>2. f \in Surjection(Own(u), S)
      BY <3>1, Fun_IsSurj
    <3> QED BY <1>1, <3>2, FS_Surjection
  <2> QED BY <1>1, <2>1 DEF Entries, Version
<1>3. ASSUME s \in OwnLists(u)
      PROVE  /\ s \in Seq(Entries(Len(owners), changes)) /\ Ids(s) = Own(u) /\ Descending(s)
             /\ \A k \in 1..Len(s) : s[k].version = version[s[k].id]
  <2>1. s \in SetToSeqs(S) /\ IsSorted(s, LAMBDA v, w : v.id > w.id)
    BY <1>3 DEF OwnLists
  <2>2. s \in [1..Cardinality(S) -> S] /\ \A i, j \in 1..Cardinality(S) : i # j => s[i] # s[j]
    BY <2>1 DEF SetToSeqs
  <2> HIDE DEF S
  <2>3. s \in Seq(S) /\ ToSet(s) = S
    BY <1>2, <2>2, Enumerated
  <2>4. DOMAIN s = 1..Len(s) /\ (\A k \in 1..Len(s) : s[k] \in S) /\ \A x \in S : \E k \in 1..Len(s) : s[k] = x
    BY <2>3 DEF ToSet
  <2>5. Ids(s) = Own(u) /\ \A k \in 1..Len(s) : s[k].version = version[s[k].id]
    <3>1. \A k \in 1..Len(s) : \E i \in Own(u) : s[k].id = i /\ s[k].version = version[i]
      BY <2>4 DEF S, Version
    <3>2. \A i \in Own(u) : \E k \in 1..Len(s) : s[k].id = i
      <4> TAKE i \in Own(u)
      <4>1. Version(i) \in S /\ Version(i).id = i
        BY DEF S, Version
      <4> QED BY <2>4, <4>1
    <3> QED BY <3>1, <3>2 DEF Ids
  <2>6. Descending(s)
    BY <2>1 DEF IsSorted, Descending
  <2> QED BY <1>2, <2>3, <2>5, <2>6
<1>4. ASSUME s \in Seq(Entries(Len(owners), changes)), Ids(s) = Own(u), Descending(s),
             \A k \in 1..Len(s) : s[k].version = version[s[k].id]
      PROVE  s \in OwnLists(u)
  <2>1. \A k \in 1..Len(s) : s[k] = Version(s[k].id) /\ s[k].id \in Own(u)
    <3>1. \A k \in 1..Len(s) : s[k] \in Entries(Len(owners), changes)
      BY <1>4
    <3>2. \A k \in 1..Len(s) : s[k].id \in Own(u) /\ s[k].version = version[s[k].id]
      BY <1>4 DEF Ids
    <3> QED BY <3>1, <3>2 DEF Entries, Version
  <2>2. \A i \in Own(u) : \E k \in 1..Len(s) : s[k] = Version(i)
    BY <1>4, <2>1 DEF Ids
  <2>3. DOMAIN s = 1..Len(s) /\ Len(s) \in Nat
    BY <1>4
  <2>4. s \in Seq(S) /\ ToSet(s) = S
    BY <1>4, <2>1, <2>2, <2>3 DEF ToSet
  <2>5. \A i, j \in 1..Len(s) : i # j => s[i] # s[j]
    <3>1. \A k \in 1..Len(s) : s[k].id \in Nat
      BY <1>1, <2>1
    <3> QED BY <1>4, <2>3, <3>1 DEF Descending
  <2> HIDE DEF S
  <2>6. Cardinality(S) = Len(s) /\ s \in [1..Cardinality(S) -> S]
    BY <2>4, <2>5, Enumerates
  <2>7. s \in SetToSeqs(S)
    BY <2>5, <2>6 DEF SetToSeqs
  <2>8. IsSorted(s, LAMBDA v, w : v.id > w.id)
    BY <1>4 DEF IsSorted, Descending
  <2> QED BY <2>7, <2>8 DEF OwnLists, S
<1> QED BY <1>3, <1>4

-----------------------------------------------------------------------------
(* What the user does. *)

\* Requests that u is about to send.
Fresh(w, u, m, c) ==
    /\ Queue(w, m, c)
    /\ \A k \in 1..Len(w) : w[k].done = "no" /\ w[k].as = u

LEMMA AskIs ==
    ASSUME Typed, NEW op \in Ops, NEW on \in Subject,
           op \in {"notes", "get", "update", "entity", "delete", "note"} => on \in 1..Len(owners),
           op = "unnote" => on \in Notes(Len(owners), changes)
    PROVE  /\ Fresh(<<Ask(op, on)>>, who, Len(owners), changes)
           /\ Len(<<Ask(op, on)>>) = 1
           /\ <<Ask(op, on)>>[1].op = op /\ <<Ask(op, on)>>[1].on = on
<1> DEFINE r == Ask(op, on)
<1>1. <<>> \in Answer
  BY DEF Answer
<1>2. r.op = op /\ r.on = on /\ r.done = "no" /\ r.as = who
  BY DEF Ask
<1>3. r \in Request
  BY <1>1 DEF Ask, Request, Typed
<1>4. Shaped(r, Len(owners), changes)
  BY <1>2 DEF Shaped
<1> HIDE DEF r
<1>5. <<r>> \in Seq(Request) /\ Len(<<r>>) = 1 /\ <<r>>[1] = r
  BY <1>3
<1>6. Fresh(<<r>>, who, Len(owners), changes)
  BY <1>2, <1>4, <1>5 DEF Fresh, Queue
<1> QED BY <1>2, <1>5, <1>6 DEF r

LEMMA FetchesAre ==
    ASSUME Typed, NEW ids \in Seq(1..Len(owners))
    PROVE  /\ Fresh(Fetches(ids), who, Len(owners), changes)
           /\ Len(Fetches(ids)) = Len(ids)
           /\ \A k \in 1..Len(ids) : Fetches(ids)[k].op = "notes" /\ Fetches(ids)[k].on = ids[k]
<1>1. Len(ids) \in Nat /\ DOMAIN ids = 1..Len(ids) /\ \A k \in 1..Len(ids) : ids[k] \in 1..Len(owners)
  OBVIOUS
<1>2. Len(owners) \in Nat
  BY DEF Typed
<1>3. ASSUME NEW k \in 1..Len(ids)
      PROVE  LET r == Ask("notes", ids[k])
             IN  /\ r \in Request /\ Shaped(r, Len(owners), changes)
                 /\ r.op = "notes" /\ r.on = ids[k] /\ r.done = "no" /\ r.as = who
  <2> DEFINE r == Ask("notes", ids[k])
  <2>1. "notes" \in Ops /\ ids[k] \in Subject /\ ids[k] \in 1..Len(owners)
    BY <1>1, <1>2 DEF Ops, Subject
  <2>2. <<>> \in Answer
    BY DEF Answer
  <2>3. r.op = "notes" /\ r.on = ids[k] /\ r.done = "no" /\ r.as = who
    BY DEF Ask
  <2>4. r \in Request
    BY <2>1, <2>2 DEF Ask, Request, Typed
  <2>5. Shaped(r, Len(owners), changes)
    BY <2>1, <2>3 DEF Shaped
  <2> QED BY <2>3, <2>4, <2>5
<1> DEFINE w == Fetches(ids)
<1>4. w = [k \in 1..Len(ids) |-> Ask("notes", ids[k])]
  BY <1>1 DEF Fetches
<1>5. w \in Seq(Request) /\ Len(w) = Len(ids) /\ \A k \in 1..Len(ids) : w[k] = Ask("notes", ids[k])
  BY <1>1, <1>3, <1>4
<1> HIDE DEF w
<1>6. Fresh(w, who, Len(owners), changes)
  BY <1>3, <1>5 DEF Fresh, Queue
<1> QED BY <1>3, <1>5, <1>6 DEF w

LEMMA Together ==
    ASSUME NEW m \in Nat, NEW c \in Nat, NEW u, NEW w, NEW x, Fresh(w, u, m, c), Fresh(x, u, m, c)
    PROVE  Fresh(w \o x, u, m, c)
<1>1. w \in Seq(Request) /\ x \in Seq(Request)
  BY DEF Fresh, Queue
<1> QED BY <1>1, Put, Joined DEF Fresh

\* The requests w of u are sent, and r is the queue then.
Grown(q, w, r, u) ==
    /\ Extended(q, r)
    /\ Len(q) \in Nat /\ Len(w) \in Nat /\ Len(r) = Len(q) + Len(w)
    /\ \A k \in 1..Len(w) : Len(q) + k \in Len(q) + 1..Len(r) /\ r[Len(q) + k] = w[k]
    /\ \A k \in Len(q) + 1..Len(r) :
         k - Len(q) \in 1..Len(w) /\ r[k] = w[k - Len(q)] /\ r[k].as = u

LEMMA Sent ==
    ASSUME NEW m \in Nat, NEW c \in Nat, NEW u, NEW q, Queue(q, m, c), NEW w, Fresh(w, u, m, c)
    PROVE  Queue(q \o w, m, c) /\ Grown(q, w, q \o w, u)
<1>1. q \in Seq(Request) /\ w \in Seq(Request)
  BY DEF Fresh, Queue
<1>2. Queue(q \o w, m, c)
  BY Put DEF Fresh
<1>3. /\ Len(q) \in Nat /\ Len(w) \in Nat /\ Len(q \o w) = Len(q) + Len(w)
      /\ \A i \in 1..Len(q) : (q \o w)[i] = q[i]
      /\ \A i \in 1..Len(w) : (q \o w)[Len(q) + i] = w[i]
      /\ \A i \in Len(q) + 1..Len(q) + Len(w) : i - Len(q) \in 1..Len(w) /\ (q \o w)[i] = w[i - Len(q)]
  BY <1>1, Joined
<1> DEFINE r == q \o w
<1> HIDE DEF r
<1>4. \A k \in Len(q) + 1..Len(r) : r[k].done = "no" /\ r[k].as = u
  BY <1>3 DEF Fresh, r
<1>5. Extended(q, r)
  BY <1>3, <1>4 DEF Extended, r
<1>6. \A k \in 1..Len(w) : Len(q) + k \in Len(q) + 1..Len(q) + Len(w)
  BY <1>3
<1> QED BY <1>2, <1>3, <1>4, <1>5, <1>6 DEF r, Grown

\* w fetches the notes of the one that becomes active, aa, unless it was already, or there
\* is none.
Turned(w, a, aa) ==
    /\ \A k \in 1..Len(w) : w[k].op = "notes"
    /\ \/ Len(w) = 0 /\ aa = a
       \/ aa = None
       \/ Len(w) > 0 /\ w[Len(w)].on = aa

LEMMA AtMostOne ==
    ASSUME NEW S, NEW i, NEW C, ~C => i \in S
    PROVE  LET w == IF C THEN <<>> ELSE <<i>>
           IN  /\ w \in Seq(S) /\ Len(w) \in Nat
               /\ C => w = <<>> /\ Len(w) = 0
               /\ ~C => Len(w) = 1 /\ w[1] = i
<1>1. CASE C
  <2>1. <<>> \in Seq(S) /\ Len(<<>>) = 0
    OBVIOUS
  <2> QED BY <1>1, <2>1
<1>2. CASE ~C
  <2>1. <<i>> \in Seq(S) /\ Len(<<i>>) = 1 /\ <<i>>[1] = i
    BY <1>2
  <2> QED BY <1>2, <2>1
<1> QED BY <1>1, <1>2

LEMMA BecomingIs ==
    ASSUME Typed, NEW i \in 0..Len(owners)
    PROVE  /\ Becoming(i).active \in 0..Len(owners)
           /\ Becoming(i).fetch \in Seq(1..Len(owners))
           /\ mounted => \/ Becoming(i).fetch = <<>> /\ Becoming(i).active = active /\ i # None
                         \/ Becoming(i).active = None
                         \/ /\ Len(Becoming(i).fetch) > 0
                            /\ Becoming(i).fetch[Len(Becoming(i).fetch)] = Becoming(i).active
<1>1. Len(owners) \in Nat /\ url \in 0..Len(owners) /\ active \in 0..Len(owners)
  BY DEF Typed
<1> DEFINE fetched == IF i = None THEN <<>> ELSE <<i>>
<1>2. /\ fetched \in Seq(1..Len(owners)) /\ Len(fetched) \in Nat
      /\ i # None => Len(fetched) = 1 /\ fetched[1] = i
  <2>1. i # None => i \in 1..Len(owners)
    BY <1>1 DEF None
  <2> QED BY <2>1, AtMostOne
<1>3. CASE ~mounted
  BY <1>1, <1>3 DEF Becoming
<1>4. CASE mounted /\ i = active
  <2>1. Becoming(i) = [active |-> active, fetch |-> <<>>]
    BY <1>4 DEF Becoming
  <2> QED BY <1>1, <1>4, <2>1
<1>5. CASE mounted /\ i # active /\ url \in {None, i}
  <2>1. Becoming(i) = [active |-> i, fetch |-> fetched]
    BY <1>5 DEF Becoming
  <2> HIDE DEF fetched
  <2> QED BY <1>2, <1>5, <2>1
<1>6. CASE mounted /\ i # active /\ url \notin {None, i}
  <2>1. Becoming(i) = [active |-> url, fetch |-> fetched \o <<url>>]
    BY <1>6 DEF Becoming
  <2> HIDE DEF fetched
  <2>2. <<url>> \in Seq(1..Len(owners)) /\ Len(<<url>>) = 1 /\ <<url>>[1] = url
    BY <1>1, <1>6 DEF None
  <2>3. /\ fetched \o <<url>> \in Seq(1..Len(owners))
        /\ Len(fetched \o <<url>>) = Len(fetched) + 1
        /\ (fetched \o <<url>>)[Len(fetched) + 1] = url
    BY <1>2, <2>2
  <2> QED BY <1>1, <1>2, <1>6, <2>1, <2>3
<1> QED BY <1>3, <1>4, <1>5, <1>6

LEMMA OpenDoes ==
    ASSUME Typed, Open
    PROVE  /\ active' \in 0..Len(owners) /\ url' \in 0..Len(owners)
           /\ \E w : /\ Fresh(w, who, Len(owners), changes) /\ asked' = asked \o w
                     /\ Len(w) > 0 /\ w[1].op = "list" /\ \A k \in 2..Len(w) : w[k].op = "notes"
                     /\ active' # None => Len(w) > 1 /\ w[Len(w)].on = active'
<1>1. Len(owners) \in Nat /\ changes \in Nat /\ active \in 0..Len(owners)
  BY WorkspaceAssumption DEF Typed
<1>2. PICK i \in Made \cup {None} :
         LET before == IF active = None THEN <<>> ELSE <<active>>
             after  == IF i \in {None, active} THEN <<>> ELSE <<i>>
         IN  /\ url' = i
             /\ active' = IF i = None THEN active ELSE i
             /\ asked' = asked \o (<<Ask("list", None)>> \o Fetches(before \o after))
  BY DEF Open, Asks
<1>3. i \in 0..Len(owners)
  BY <1>1 DEF Made, None
<1> DEFINE before == IF active = None THEN <<>> ELSE <<active>>
           after  == IF i \in {None, active} THEN <<>> ELSE <<i>>
           first  == <<Ask("list", None)>>
           w      == first \o Fetches(before \o after)
<1>4. /\ before \in Seq(1..Len(owners)) /\ Len(before) \in Nat
      /\ active = None => Len(before) = 0
      /\ active # None => Len(before) = 1 /\ before[1] = active
  <2>1. active # None => active \in 1..Len(owners)
    BY <1>1 DEF None
  <2> QED BY <2>1, AtMostOne
<1>5. /\ after \in Seq(1..Len(owners)) /\ Len(after) \in Nat
      /\ i \in {None, active} => Len(after) = 0
      /\ i \notin {None, active} => Len(after) = 1 /\ after[1] = i
  <2>1. i \notin {None, active} => i \in 1..Len(owners)
    BY <1>3 DEF None
  <2> QED BY <2>1, AtMostOne
<1>6. active' = (IF i = None THEN active ELSE i) /\ url' = i /\ asked' = asked \o w
  BY <1>2
<1> HIDE DEF before, after
<1>7. /\ before \o after \in Seq(1..Len(owners))
      /\ Len(before \o after) = Len(before) + Len(after)
      /\ active' # None => /\ Len(before \o after) > 0
                           /\ (before \o after)[Len(before \o after)] = active'
  <2>1. /\ before \o after \in Seq(1..Len(owners))
        /\ Len(before \o after) = Len(before) + Len(after)
        /\ \A k \in 1..Len(before) : (before \o after)[k] = before[k]
        /\ \A k \in 1..Len(after) : (before \o after)[Len(before) + k] = after[k]
    BY <1>4, <1>5, Joined
  <2>2. CASE i \in {None, active}
    BY <1>4, <1>5, <1>6, <2>1, <2>2
  <2>3. CASE i \notin {None, active}
    <3>1. active' = i /\ Len(after) = 1 /\ after[1] = i /\ Len(before) \in Nat
      BY <1>4, <1>5, <1>6, <2>3
    <3>2. (before \o after)[Len(before) + 1] = active' /\ Len(before \o after) = Len(before) + 1
      BY <2>1, <3>1
    <3> QED BY <2>1, <3>1, <3>2
  <2> QED BY <2>1, <2>2, <2>3
<1> DEFINE ids == before \o after
<1> HIDE DEF ids
<1>8. /\ Fresh(Fetches(ids), who, Len(owners), changes) /\ Len(Fetches(ids)) = Len(ids)
      /\ \A k \in 1..Len(ids) : Fetches(ids)[k].op = "notes" /\ Fetches(ids)[k].on = ids[k]
  BY <1>7, FetchesAre DEF ids
<1>9. /\ Fresh(first, who, Len(owners), changes) /\ Len(first) = 1 /\ first[1].op = "list"
  <2>1. "list" \in Ops /\ None \in Subject
    BY DEF Ops, Subject, None
  <2> QED BY <2>1, AskIs
<1> DEFINE rest == Fetches(ids)
<1>10. w = first \o rest
  BY DEF ids
<1> HIDE DEF first, rest, w
<1>11. Fresh(w, who, Len(owners), changes)
  BY <1>1, <1>8, <1>9, <1>10, Together DEF rest
<1>12. /\ Len(w) = 1 + Len(ids) /\ w[1].op = "list"
       /\ \A k \in 2..Len(w) : k - 1 \in 1..Len(ids) /\ w[k] = rest[k - 1]
  <2>0. first \in Seq(Request) /\ rest \in Seq(Request)
    BY <1>8, <1>9 DEF Fresh, Queue, rest
  <2>1. Len(first) = 1 /\ Len(rest) = Len(ids)
    BY <1>8, <1>9 DEF rest
  <2>2. /\ Len(first \o rest) = 1 + Len(ids) /\ Len(ids) \in Nat
        /\ (first \o rest)[1] = first[1]
        /\ \A k \in 1 + 1..1 + Len(ids) : k - 1 \in 1..Len(ids) /\ (first \o rest)[k] = rest[k - 1]
    <3>1. /\ Len(rest) \in Nat
          /\ Len(first \o rest) = Len(first) + Len(rest)
          /\ \A k \in 1..Len(first) : (first \o rest)[k] = first[k]
          /\ \A k \in Len(first) + 1..Len(first) + Len(rest) :
               k - Len(first) \in 1..Len(rest) /\ (first \o rest)[k] = rest[k - Len(first)]
      BY <2>0, Joined
    <3> QED BY <2>1, <3>1
  <2> QED BY <1>9, <1>10, <2>2
<1>13. \A k \in 2..Len(w) : w[k].op = "notes" /\ w[k].on = ids[k - 1]
  BY <1>8, <1>12 DEF rest
<1>14. Len(ids) \in Nat /\ (active' # None => Len(ids) > 0 /\ ids[Len(ids)] = active')
  BY <1>7 DEF ids
<1>15. active' # None => Len(w) > 1 /\ w[Len(w)].on = active'
  BY <1>12, <1>13, <1>14
<1>16. w[1].op = "list" /\ Len(w) > 0
  BY <1>6, <1>12
<1>17. \A k \in 2..Len(w) : w[k].op = "notes"
  BY <1>13
<1> HIDE DEF w
<1> QED BY <1>1, <1>3, <1>6, <1>11, <1>12, <1>15, <1>16, <1>17

LEMMA NavigateDoes ==
    ASSUME Typed, Navigate
    PROVE  /\ active' \in 0..Len(owners) /\ url' \in 0..Len(owners)
           /\ \E w : /\ Fresh(w, who, Len(owners), changes) /\ asked' = asked \o w
                     /\ Turned(w, active, active')
<1>1. Len(owners) \in Nat /\ active \in 0..Len(owners)
  BY DEF Typed
<1>2. PICK i \in Made \cup {None} :
         /\ url' = i
         /\ active' = IF i = None THEN active ELSE i
         /\ asked' = asked \o Fetches(IF i \in {None, active} THEN <<>> ELSE <<i>>)
  BY DEF Navigate, Asks
<1>3. i \in 0..Len(owners)
  BY <1>1 DEF Made, None
<1> DEFINE ids == IF i \in {None, active} THEN <<>> ELSE <<i>>
<1>4. /\ ids \in Seq(1..Len(owners)) /\ Len(ids) \in Nat
      /\ i \in {None, active} => Len(ids) = 0
      /\ i \notin {None, active} => Len(ids) = 1 /\ ids[1] = i
  <2>1. i \notin {None, active} => i \in 1..Len(owners)
    BY <1>3 DEF None
  <2> QED BY <2>1, AtMostOne
<1>5. asked' = asked \o Fetches(ids)
  BY <1>2
<1> HIDE DEF ids
<1>6. /\ Fresh(Fetches(ids), who, Len(owners), changes) /\ Len(Fetches(ids)) = Len(ids)
      /\ \A k \in 1..Len(ids) : Fetches(ids)[k].op = "notes" /\ Fetches(ids)[k].on = ids[k]
  BY <1>4, FetchesAre
<1>7. Turned(Fetches(ids), active, active')
  BY <1>2, <1>4, <1>6 DEF Turned
<1> QED BY <1>1, <1>2, <1>3, <1>5, <1>6, <1>7

LEMMA TurnedBecoming ==
    ASSUME Typed, NEW i \in 0..Len(owners), NEW w, w = Fetches(Becoming(i).fetch)
    PROVE  /\ Becoming(i).active \in 0..Len(owners)
           /\ Fresh(w, who, Len(owners), changes) /\ Len(w) \in Nat
           /\ mounted => Turned(w, active, Becoming(i).active)
           /\ mounted /\ i = None => \/ Becoming(i).active = None
                                     \/ Len(w) > 0 /\ w[Len(w)].on = Becoming(i).active
<1> DEFINE ids == Becoming(i).fetch
           next == Becoming(i).active
<1>1. /\ next \in 0..Len(owners) /\ ids \in Seq(1..Len(owners))
      /\ mounted => \/ ids = <<>> /\ next = active /\ i # None
                    \/ next = None
                    \/ Len(ids) > 0 /\ ids[Len(ids)] = next
  BY BecomingIs
<1> HIDE DEF ids, next
<1>2. /\ Fresh(Fetches(ids), who, Len(owners), changes) /\ Len(Fetches(ids)) = Len(ids)
      /\ \A k \in 1..Len(ids) : Fetches(ids)[k].op = "notes" /\ Fetches(ids)[k].on = ids[k]
  BY <1>1, FetchesAre
<1>3. w = Fetches(ids)
  BY DEF ids
<1>4. Len(ids) \in Nat /\ (ids = <<>> => Len(ids) = 0)
  BY <1>1
<1>5. Len(ids) > 0 => w[Len(w)].on = ids[Len(ids)] /\ Len(w) > 0
  BY <1>2, <1>3, <1>4
<1>6. mounted => Turned(w, active, next)
  BY <1>1, <1>2, <1>3, <1>4, <1>5 DEF Turned
<1> QED BY <1>1, <1>2, <1>3, <1>4, <1>5, <1>6 DEF next

LEMMA ListedAre ==
    ASSUME Typed
    PROVE  Listed \subseteq 1..Len(owners)
<1>1. \A k \in DOMAIN list : list[k] \in Entries(Len(owners), changes)
  BY DEF Typed
<1> QED BY <1>1 DEF Listed, Entries

LEMMA SelectDoes ==
    ASSUME Typed, Select
    PROVE  /\ active' \in 0..Len(owners)
           /\ \E w : /\ Fresh(w, who, Len(owners), changes) /\ asked' = asked \o w
                     /\ Turned(w, active, active')
<1>1. PICK i \in Listed :
         active' = Becoming(i).active /\ asked' = asked \o Fetches(Becoming(i).fetch)
  BY DEF Select, Asks
<1>2. i \in 0..Len(owners) /\ mounted
  BY ListedAre DEF Select
<1> QED BY <1>1, <1>2, TurnedBecoming

LEMMA UseDoes ==
    ASSUME Typed, Use
    PROVE  \E w : /\ Fresh(w, who, Len(owners), changes) /\ asked' = asked \o w
                  /\ Len(w) = 1 /\ w[1].op \notin {"list", "notes"}
                  /\ w[1].op = "note" => w[1].on = active
<1>1. Len(owners) \in Nat /\ active \in 0..Len(owners)
  BY DEF Typed
<1>2. \E op \in Ops \ {"list", "notes"}, on \in Subject :
         /\ asked' = asked \o <<Ask(op, on)>>
         /\ op \in {"notes", "get", "update", "entity", "delete", "note"} => on = active /\ on \in 1..Len(owners)
         /\ op = "unnote" => on \in Notes(Len(owners), changes)
  <2>1. CASE Asks(<<Ask("create", None)>>)
    <3>1. None \in Subject /\ "create" \in Ops
      BY DEF Subject, None, Ops
    <3> QED BY <2>1, <3>1 DEF Asks
  <2>2. CASE active \in Listed /\ \E op \in {"update", "entity", "delete"} : Asks(<<Ask(op, active)>>)
    <3>1. active \in Subject /\ active \in 1..Len(owners)
      BY <2>2, ListedAre DEF Subject
    <3> QED BY <2>2, <3>1 DEF Asks, Ops
  <2>3. CASE active # None /\ Asks(<<Ask("note", active)>>)
    <3>1. active \in Subject /\ active \in 1..Len(owners) /\ "note" \in Ops
      BY <1>1, <2>3 DEF Subject, None, Ops
    <3> QED BY <2>3, <3>1 DEF Asks
  <2>4. CASE active # None /\ \E k \in DOMAIN shown : Asks(<<Ask("unnote", shown[k])>>)
    <3>1. PICK k \in DOMAIN shown : Asks(<<Ask("unnote", shown[k])>>)
      BY <2>4
    <3>2. shown[k] \in Notes(Len(owners), changes)
      BY DEF Typed
    <3>3. shown[k] \in Subject /\ "unnote" \in Ops
      BY <1>1, <3>2, WorkspaceAssumption DEF Subject, Notes, Ops, Typed
    <3> QED BY <3>1, <3>2, <3>3 DEF Asks
  <2> QED BY <2>1, <2>2, <2>3, <2>4 DEF Use
<1>3. PICK op \in Ops \ {"list", "notes"}, on \in Subject :
         /\ asked' = asked \o <<Ask(op, on)>>
         /\ op \in {"notes", "get", "update", "entity", "delete", "note"} => on = active /\ on \in 1..Len(owners)
         /\ op = "unnote" => on \in Notes(Len(owners), changes)
  BY <1>2
<1>4. /\ Fresh(<<Ask(op, on)>>, who, Len(owners), changes)
      /\ Len(<<Ask(op, on)>>) = 1
      /\ <<Ask(op, on)>>[1].op = op /\ <<Ask(op, on)>>[1].on = on
  BY <1>3, AskIs
<1> DEFINE w == <<Ask(op, on)>>
<1> HIDE DEF w
<1>5. /\ Fresh(w, who, Len(owners), changes) /\ asked' = asked \o w /\ Len(w) = 1
      /\ w[1].op = op /\ w[1].on = on
  BY <1>3, <1>4 DEF w
<1>6. w[1].op = "note" => w[1].on = active
  BY <1>3, <1>5
<1> QED BY <1>5, <1>6

-----------------------------------------------------------------------------
(* What the API does. *)

LEMMA SeqOfMore == ASSUME NEW S, NEW T, S \subseteq T PROVE Seq(S) \subseteq Seq(T)
OBVIOUS

LEMMA AnswersAre ==
    ASSUME NEW m \in Nat, NEW c \in Nat
    PROVE  /\ Seq(Entries(m, c)) \subseteq Answer
           /\ Seq(Notes(m, c)) \subseteq Answer
<1>1. Entries(m, c) \subseteq [id : Nat, version : Nat] /\ Notes(m, c) \subseteq [of : Nat, n : Nat]
  BY DEF Entries, Notes
<1>2. /\ Seq(Entries(m, c)) \subseteq Seq([id : Nat, version : Nat])
      /\ Seq(Notes(m, c)) \subseteq Seq([of : Nat, n : Nat])
  BY <1>1, SeqOfMore
<1> QED BY <1>2 DEF Answer

\* The answer a suits the request r.
Suits(r, a, m, c) ==
    /\ r.op = "list" => a \in Seq(Entries(m, c))
    /\ r.op = "notes" => a \in Seq(Notes(m, c))
    /\ r.op \in {"create", "update", "get"} => Len(a) = 1 /\ a[1] \in Entries(m, c)
    /\ r.op \in {"update", "get"} => a[1].id = r.on
    /\ r.op = "note" => Len(a) = 1 /\ a[1] \in Notes(m, c)

LEMMA ServedDoes ==
    ASSUME Typed, NEW p \in DOMAIN asked, asked[p].done = "no", NEW a \in Answer, Served(p, a),
           NEW m \in Nat, NEW c \in Nat, Len(owners) <= m, changes <= c,
           Suits(asked[p], a, m, c)
    PROVE  /\ Queue(asked', m, c) /\ OneChanged(asked, asked', p)
           /\ asked'[p].done = "yes" /\ asked'[p].answer = a
<1>1. Len(owners) \in Nat /\ changes \in Nat /\ Queue(asked, Len(owners), changes)
  BY WorkspaceAssumption DEF Typed
<1>2. Queue(asked, m, c)
  BY <1>1, ShapeKept
<1>3. Shaped(asked[p], m, c)
  BY <1>2 DEF Queue
<1> DEFINE r == Marked(asked, p, a)
<1>4. asked' = r
  BY DEF Served, Marked
<1>5. /\ Shaped(r[p], m, c) => Queue(r, m, c)
      /\ OneChanged(asked, r, p)
      /\ r[p].done = "yes" /\ r[p].answer = a
  BY <1>2, Done
<1> HIDE DEF r
<1>6. Shaped(r[p], m, c)
  BY <1>3, <1>5 DEF Shaped, OneChanged, Suits
<1> QED BY <1>4, <1>5, <1>6

LEMMA RefusedDoes ==
    ASSUME Typed, NEW p \in DOMAIN asked, asked[p].done = "no", NotTheirs(p)
    PROVE  /\ Queue(asked', Len(owners), changes) /\ OneChanged(asked, asked', p)
           /\ asked'[p].done = "refused"
           /\ api' = api
           /\ \/ asked[p].as = NoUser
              \/ asked[p].op \notin {"list", "notes", "create", "unnote"} /\ asked[p].on \notin Own(asked[p].as)
              \/ asked[p].op = "unnote"
<1>1. Len(owners) \in Nat /\ changes \in Nat /\ Queue(asked, Len(owners), changes)
  BY WorkspaceAssumption DEF Typed
<1> DEFINE r == [asked EXCEPT ![p].done = "refused", ![p].as = NoUser]
<1>2. asked' = r /\ api' = api
  BY DEF NotTheirs, Refused, api
<1>3. Queue(r, Len(owners), changes) /\ OneChanged(asked, r, p) /\ r[p].done = "refused"
  BY <1>1, Declined
<1> HIDE DEF r
<1>4. \/ asked[p].as = NoUser
      \/ asked[p].op \notin {"list", "notes", "create", "unnote"} /\ asked[p].on \notin Own(asked[p].as)
      \/ asked[p].op = "unnote"
  BY DEF NotTheirs
<1> QED BY <1>2, <1>3, <1>4

\* The part of Typed that the API can change.
ApiTyped ==
    /\ owners \in Seq(User) /\ Len(owners) <= MaxMade
    /\ alive \subseteq 1..Len(owners)
    /\ version \in Seq(0..changes) /\ Len(version) = Len(owners)
    /\ notes \subseteq Notes(Len(owners), changes) /\ IsFiniteSet(notes)
    /\ changes \in 0..MaxChanges

\* The p-th request is answered, a, by an API that is then as typed.
Answers(p, a) ==
    /\ ApiTyped'
    /\ Len(owners) <= Len(owners)' /\ changes <= changes'
    /\ Queue(asked', Len(owners'), changes') /\ OneChanged(asked, asked', p)
    /\ asked'[p].done = "yes" /\ asked'[p].answer = a

LEMMA NotesOfAre ==
    ASSUME Typed, NEW i, NEW C
    PROVE  LET T == IF C THEN NotesOf(i) ELSE {}
           IN  IsFiniteSet(T) /\ T \subseteq Notes(Len(owners), changes)
<1>1. NotesOf(i) \subseteq notes /\ {} \subseteq notes
  BY DEF NotesOf
<1>2. IsFiniteSet(notes) /\ notes \subseteq Notes(Len(owners), changes)
  BY DEF Typed
<1>3. IsFiniteSet(NotesOf(i)) /\ IsFiniteSet({})
  BY <1>1, <1>2, FS_Subset
<1> QED BY <1>1, <1>2, <1>3

LEMMA VersionIs ==
    ASSUME Typed, NEW u, NEW i \in Own(u)
    PROVE  /\ i \in alive /\ i \in 1..Len(owners) /\ owners[i] = u /\ version[i] \in 0..changes
           /\ Version(i) \in Entries(Len(owners), changes) /\ Version(i).id = i
<1>1. i \in alive /\ owners[i] = u /\ i \in 1..Len(owners)
  BY DEF Typed, Own
<1>2. version[i] \in 0..changes
  BY <1>1 DEF Typed
<1> QED BY <1>1, <1>2 DEF Version, Entries

LEMMA ReadDoes ==
    ASSUME Typed, NEW p \in DOMAIN asked, asked[p].done = "no", Read(p)
    PROVE  /\ api' = api
           /\ \E a : /\ Answers(p, a)
                     /\ \/ asked[p].op = "list" /\ a \in OwnLists(asked[p].as)
                        \/ /\ asked[p].op = "notes"
                           /\ a = SetToSeq(IF asked[p].on \in Own(asked[p].as) THEN NotesOf(asked[p].on) ELSE {})
                        \/ /\ asked[p].op = "get" /\ asked[p].on \in Own(asked[p].as)
                           /\ a = <<Version(asked[p].on)>>
<1> DEFINE m == Len(owners)
           c == changes
<1>1. m \in Nat /\ c \in Nat /\ m <= m /\ c <= c
  BY WorkspaceAssumption DEF Typed
<1>2. api' = api
  BY DEF Read, api
<1>3. PICK a : /\ Served(p, a)
               /\ \/ asked[p].op = "list" /\ a \in OwnLists(asked[p].as)
                  \/ /\ asked[p].op = "notes"
                     /\ a = SetToSeq(IF asked[p].on \in Own(asked[p].as) THEN NotesOf(asked[p].on) ELSE {})
                  \/ /\ asked[p].op = "get" /\ asked[p].on \in Own(asked[p].as)
                     /\ a = <<Version(asked[p].on)>>
  BY DEF Read
<1>4. a \in Answer /\ Suits(asked[p], a, m, c)
  <2>1. CASE asked[p].op = "list" /\ a \in OwnLists(asked[p].as)
    <3>1. a \in Seq(Entries(m, c))
      BY <2>1, OwnListIs
    <3> QED BY <1>1, <2>1, <3>1, AnswersAre DEF Suits
  <2>2. CASE /\ asked[p].op = "notes"
             /\ a = SetToSeq(IF asked[p].on \in Own(asked[p].as) THEN NotesOf(asked[p].on) ELSE {})
    <3> DEFINE T == IF asked[p].on \in Own(asked[p].as) THEN NotesOf(asked[p].on) ELSE {}
    <3>1. IsFiniteSet(T) /\ T \subseteq Notes(m, c)
      BY NotesOfAre
    <3> HIDE DEF T
    <3>2. SetToSeq(T) \in Seq(Notes(m, c))
      <4>1. SetToSeq(T) \in Seq(T)
        BY <3>1, AsSequence
      <4> QED BY <3>1, <4>1
    <3>3. a = SetToSeq(T)
      BY <2>2 DEF T
    <3> QED BY <1>1, <2>2, <3>2, <3>3, AnswersAre DEF Suits
  <2>3. CASE asked[p].op = "get" /\ asked[p].on \in Own(asked[p].as) /\ a = <<Version(asked[p].on)>>
    <3>1. Version(asked[p].on) \in Entries(m, c) /\ Version(asked[p].on).id = asked[p].on
      BY <2>3, VersionIs
    <3>2. a \in Seq(Entries(m, c)) /\ Len(a) = 1 /\ a[1] = Version(asked[p].on)
      BY <2>3, <3>1
    <3> QED BY <1>1, <2>3, <3>1, <3>2, AnswersAre DEF Suits
  <2> QED BY <1>3, <2>1, <2>2, <2>3
<1>5. /\ Queue(asked', m, c) /\ OneChanged(asked, asked', p)
      /\ asked'[p].done = "yes" /\ asked'[p].answer = a
  BY <1>1, <1>3, <1>4, ServedDoes
<1>6. ApiTyped' /\ m = Len(owners)' /\ c = changes' /\ m = Len(owners')
  BY <1>2 DEF ApiTyped, Typed, api
<1> QED BY <1>1, <1>2, <1>3, <1>5, <1>6 DEF Answers

\* Of the investigations al that exist, those of u: Own(u), also of another state.
Owned(al, ow, u) == {i \in al : ow[i] = u}

LEMMA CreateDoes ==
    ASSUME Typed, NEW p \in DOMAIN asked, asked[p].done = "no", Create(p)
    PROVE  LET new == Len(owners) + 1
           IN  /\ asked[p].op = "create" /\ notes' = notes
               /\ version'[new] = 0 /\ \A i \in 1..Len(owners) : version'[i] = version[i]
               /\ Owned(alive', owners', asked[p].as) = Own(asked[p].as) \cup {new}
               /\ \A u : u # asked[p].as => Owned(alive', owners', u) = Own(u)
               /\ \E a : Answers(p, a) /\ a[1].id = new /\ a[1].version = 0
<1> DEFINE m == Len(owners)
           u0 == asked[p].as
           a == <<[id |-> m + 1, version |-> 0]>>
<1>1. /\ asked[p].op = "create" /\ u0 # NoUser /\ m < MaxMade
      /\ owners' = Append(owners, u0) /\ version' = Append(version, 0)
      /\ alive' = alive \cup {m + 1} /\ notes' = notes /\ changes' = changes
      /\ Served(p, a)
  BY DEF Create
<1>2. /\ m \in Nat /\ owners \in Seq(User) /\ alive \subseteq 1..m /\ changes \in 0..MaxChanges
      /\ changes \in Nat /\ version \in Seq(0..changes) /\ Len(version) = m
      /\ notes \subseteq Notes(m, changes) /\ IsFiniteSet(notes) /\ MaxMade \in Nat
  BY WorkspaceAssumption DEF Typed
<1>3. u0 \in User
  <2>1. asked[p] \in Request
    BY DEF Typed, Queue
  <2> QED BY <1>1, <2>1 DEF Request
<1>4. /\ owners' \in Seq(User) /\ Len(owners') = m + 1 /\ owners'[m + 1] = u0
      /\ \A i \in 1..m : owners'[i] = owners[i]
  BY <1>1, <1>2, <1>3
<1>5. /\ version' \in Seq(0..changes) /\ Len(version') = m + 1 /\ version'[m + 1] = 0
      /\ \A i \in 1..m : version'[i] = version[i]
  <2>1. 0 \in 0..changes
    BY <1>2
  <2> DEFINE S == 0..changes
  <2> HIDE DEF S, m
  <2>2. LET w == Append(version, 0)
        IN  w \in Seq(S) /\ Len(w) = m + 1 /\ w[m + 1] = 0 /\ \A i \in 1..m : w[i] = version[i]
    <3>1. version \in Seq(S) /\ 0 \in S /\ Len(version) = m
      BY <1>2, <2>1 DEF S
    <3> QED BY <3>1
  <2> QED BY <1>1, <2>2 DEF S
<1>6. ApiTyped'
  <2>1. notes \subseteq Notes(m + 1, changes)
    BY <1>2, ShapeKept
  <2> HIDE DEF m
  <2>2. alive' \subseteq 1..m + 1 /\ m + 1 <= MaxMade
    <3>1. m + 1 <= MaxMade
      BY <1>1, <1>2
    <3>2. alive \subseteq 1..m + 1 /\ m + 1 \in 1..m + 1 /\ alive' = alive \cup {m + 1}
      BY <1>1, <1>2
    <3> QED BY <3>1, <3>2
  <2> QED BY <1>1, <1>2, <1>4, <1>5, <2>1, <2>2 DEF ApiTyped
<1>7. a \in Answer /\ Suits(asked[p], a, m + 1, changes)
  <2>1. [id |-> m + 1, version |-> 0] \in Entries(m + 1, changes)
    BY <1>2 DEF Entries
  <2>2. a \in Seq(Entries(m + 1, changes)) /\ Len(a) = 1 /\ a[1] = [id |-> m + 1, version |-> 0]
    BY <2>1
  <2> HIDE DEF a
  <2>3. a \in Answer
    BY <1>2, <2>2, AnswersAre
  <2> QED BY <1>1, <2>1, <2>2, <2>3 DEF Suits
<1>8. /\ Queue(asked', m + 1, changes) /\ OneChanged(asked, asked', p)
      /\ asked'[p].done = "yes" /\ asked'[p].answer = a
  BY <1>1, <1>2, <1>7, ServedDoes
<1>9. Answers(p, a)
  BY <1>1, <1>2, <1>4, <1>6, <1>8 DEF Answers
<1>10. Owned(alive', owners', u0) = Own(u0) \cup {m + 1}
  BY <1>1, <1>2, <1>4 DEF Owned, Own
<1>11. \A u : u # u0 => Owned(alive', owners', u) = Own(u)
  BY <1>1, <1>2, <1>4 DEF Owned, Own
<1>12. a[1].id = m + 1 /\ a[1].version = 0
  OBVIOUS
<1> HIDE DEF a
<1> QED BY <1>1, <1>5, <1>9, <1>10, <1>11, <1>12

LEMMA EditDoes ==
    ASSUME Typed, NEW p \in DOMAIN asked, asked[p].done = "no", Edit(p)
    PROVE  LET i == asked[p].on
           IN  /\ asked[p].op \in {"update", "entity"} /\ notes' = notes /\ i \in Own(asked[p].as)
               /\ version'[i] = version[i] + 1
               /\ \A j \in 1..Len(owners) : j # i => version'[j] = version[j]
               /\ alive' = alive /\ owners' = owners
               /\ \E a : Answers(p, a) /\ a[1].id = i /\ a[1].version = version[i] + 1
<1> DEFINE m == Len(owners)
           i == asked[p].on
           e == [id |-> i, version |-> version[i] + 1]
           a == <<e>>
<1>1. /\ asked[p].op \in {"update", "entity"} /\ i \in Own(asked[p].as) /\ changes < MaxChanges
      /\ version' = [version EXCEPT ![i] = @ + 1] /\ changes' = changes + 1
      /\ owners' = owners /\ alive' = alive /\ notes' = notes
      /\ Served(p, a)
  BY DEF Edit
<1>2. /\ m \in Nat /\ owners \in Seq(User) /\ m <= MaxMade /\ alive \subseteq 1..m /\ changes \in 0..MaxChanges
      /\ changes \in Nat /\ version \in Seq(0..changes) /\ Len(version) = m
      /\ notes \subseteq Notes(m, changes) /\ IsFiniteSet(notes) /\ MaxChanges \in Nat
  BY WorkspaceAssumption DEF Typed
<1>3. i \in 1..m /\ version[i] \in 0..changes
  BY <1>1, VersionIs
<1>4. /\ version' \in Seq(0..changes + 1) /\ Len(version') = m /\ version'[i] = version[i] + 1
      /\ \A j \in 1..m : j # i => version'[j] = version[j]
  <2>1. version \in Seq(0..changes + 1) /\ version[i] + 1 \in 0..changes + 1
    <3>1. 0..changes \subseteq 0..changes + 1
      BY <1>2
    <3> QED BY <1>2, <1>3, <3>1, SeqOfMore
  <2>2. version' = [version EXCEPT ![i] = version[i] + 1]
    BY <1>1
  <2> QED BY <1>2, <1>3, <2>1, <2>2, SetAt
<1>5. ApiTyped'
  <2>1. notes \subseteq Notes(m, changes + 1)
    BY <1>2, ShapeKept
  <2>2. changes + 1 \in 0..MaxChanges
    BY <1>1, <1>2
  <2> QED BY <1>1, <1>2, <1>4, <2>1, <2>2 DEF ApiTyped
<1>6. a \in Answer /\ Suits(asked[p], a, m, changes + 1)
  <2>1. e \in Entries(m, changes + 1)
    BY <1>2, <1>3 DEF Entries
  <2>2. a \in Seq(Entries(m, changes + 1)) /\ Len(a) = 1 /\ a[1] = e /\ e.id = i
    BY <2>1
  <2> HIDE DEF a, e
  <2>3. a \in Answer
    BY <1>2, <2>2, AnswersAre
  <2> QED BY <1>1, <2>1, <2>2, <2>3 DEF Suits
<1>7. /\ Queue(asked', m, changes + 1) /\ OneChanged(asked, asked', p)
      /\ asked'[p].done = "yes" /\ asked'[p].answer = a
  BY <1>1, <1>2, <1>6, ServedDoes
<1>8. Answers(p, a)
  BY <1>1, <1>2, <1>4, <1>5, <1>7 DEF Answers
<1>9. a[1].id = i /\ a[1].version = version[i] + 1
  OBVIOUS
<1> HIDE DEF a
<1> QED BY <1>1, <1>4, <1>8, <1>9

LEMMA DeleteDoes ==
    ASSUME Typed, NEW p \in DOMAIN asked, asked[p].done = "no", Delete(p)
    PROVE  LET i == asked[p].on
           IN  /\ asked[p].op = "delete" /\ i \in Own(asked[p].as)
               /\ alive' = alive \ {i} /\ owners' = owners /\ version' = version
               /\ notes' = notes \ NotesOf(i)
               /\ Answers(p, <<>>)
<1> DEFINE m == Len(owners)
           i == asked[p].on
<1>1. /\ asked[p].op = "delete" /\ i \in Own(asked[p].as)
      /\ alive' = alive \ {i} /\ notes' = notes \ NotesOf(i)
      /\ owners' = owners /\ version' = version /\ changes' = changes
      /\ Served(p, <<>>)
  BY DEF Delete
<1>2. /\ m \in Nat /\ changes \in Nat /\ IsFiniteSet(notes)
  BY WorkspaceAssumption DEF Typed
<1>3. notes' \subseteq notes /\ IsFiniteSet(notes')
  <2>1. notes' \in SUBSET notes
    BY <1>1
  <2> QED BY <1>2, <2>1, FS_Subset
<1>4. ApiTyped'
  BY <1>1, <1>3 DEF ApiTyped, Typed
<1>5. <<>> \in Answer /\ Suits(asked[p], <<>>, m, changes)
  BY <1>1 DEF Suits, Answer
<1>6. /\ Queue(asked', m, changes) /\ OneChanged(asked, asked', p)
      /\ asked'[p].done = "yes" /\ asked'[p].answer = <<>>
  BY <1>1, <1>2, <1>5, ServedDoes
<1>7. Answers(p, <<>>)
  BY <1>1, <1>2, <1>4, <1>6 DEF Answers
<1> QED BY <1>1, <1>7

LEMMA AnnotateDoes ==
    ASSUME Typed, NEW p \in DOMAIN asked, asked[p].done = "no", Annotate(p)
    PROVE  LET note == [of |-> asked[p].on, n |-> changes + 1]
           IN  /\ asked[p].op = "note" /\ asked[p].on \in Own(asked[p].as)
               /\ notes' = notes \cup {note}
               /\ alive' = alive /\ owners' = owners /\ version' = version
               /\ Answers(p, <<note>>)
<1> DEFINE m == Len(owners)
           i == asked[p].on
           note == [of |-> i, n |-> changes + 1]
           a == <<note>>
<1>1. /\ asked[p].op = "note" /\ i \in Own(asked[p].as) /\ changes < MaxChanges
      /\ notes' = notes \cup {note} /\ changes' = changes + 1
      /\ owners' = owners /\ version' = version /\ alive' = alive
      /\ Served(p, a)
  BY DEF Annotate
<1>2. /\ m \in Nat /\ owners \in Seq(User) /\ m <= MaxMade /\ alive \subseteq 1..m /\ changes \in 0..MaxChanges
      /\ changes \in Nat /\ version \in Seq(0..changes) /\ Len(version) = m
      /\ notes \subseteq Notes(m, changes) /\ IsFiniteSet(notes) /\ MaxChanges \in Nat
  BY WorkspaceAssumption DEF Typed
<1>3. i \in 1..m
  BY <1>1, VersionIs
<1>4. note \in Notes(m, changes + 1)
  BY <1>2, <1>3 DEF Notes
<1>5. ApiTyped'
  <2>1. notes \subseteq Notes(m, changes + 1)
    BY <1>2, ShapeKept
  <2>2. changes + 1 \in 0..MaxChanges
    BY <1>1, <1>2
  <2>3. version \in Seq(0..changes + 1)
    <3>1. 0..changes \subseteq 0..changes + 1
      BY <1>2
    <3> QED BY <1>2, <3>1, SeqOfMore
  <2>4. IsFiniteSet(notes')
    BY <1>1, <1>2, FS_AddElement
  <2> HIDE DEF note
  <2> QED BY <1>1, <1>2, <1>4, <2>1, <2>2, <2>3, <2>4 DEF ApiTyped
<1>6. a \in Answer /\ Suits(asked[p], a, m, changes + 1)
  <2> HIDE DEF note
  <2>1. a \in Seq(Notes(m, changes + 1)) /\ Len(a) = 1 /\ a[1] = note
    BY <1>4
  <2> HIDE DEF a
  <2>2. a \in Answer
    BY <1>2, <2>1, AnswersAre
  <2> QED BY <1>1, <1>4, <2>1, <2>2 DEF Suits
<1> HIDE DEF a
<1>7. /\ Queue(asked', m, changes + 1) /\ OneChanged(asked, asked', p)
      /\ asked'[p].done = "yes" /\ asked'[p].answer = a
  BY <1>1, <1>2, <1>6, ServedDoes
<1>8. Answers(p, a)
  BY <1>1, <1>2, <1>5, <1>7 DEF Answers
<1> QED BY <1>1, <1>8 DEF a

LEMMA UnannotateDoes ==
    ASSUME Typed, NEW p \in DOMAIN asked, asked[p].done = "no", Unannotate(p)
    PROVE  /\ asked[p].op = "unnote" /\ notes' = notes \ {asked[p].on}
           /\ alive' = alive /\ owners' = owners /\ version' = version
           /\ Answers(p, <<>>)
<1> DEFINE m == Len(owners)
<1>1. /\ asked[p].op = "unnote" /\ notes' = notes \ {asked[p].on}
      /\ alive' = alive /\ owners' = owners /\ version' = version /\ changes' = changes
      /\ Served(p, <<>>)
  BY DEF Unannotate
<1>2. /\ m \in Nat /\ changes \in Nat /\ IsFiniteSet(notes)
  BY WorkspaceAssumption DEF Typed
<1>3. notes' \subseteq notes /\ IsFiniteSet(notes')
  <2>1. notes' \in SUBSET notes
    BY <1>1
  <2> QED BY <1>2, <2>1, FS_Subset
<1>4. ApiTyped'
  BY <1>1, <1>3 DEF ApiTyped, Typed
<1>5. <<>> \in Answer /\ Suits(asked[p], <<>>, m, changes)
  BY <1>1 DEF Suits, Answer
<1>6. /\ Queue(asked', m, changes) /\ OneChanged(asked, asked', p)
      /\ asked'[p].done = "yes" /\ asked'[p].answer = <<>>
  BY <1>1, <1>2, <1>5, ServedDoes
<1>7. Answers(p, <<>>)
  BY <1>1, <1>2, <1>4, <1>6 DEF Answers
<1> QED BY <1>1, <1>7

-----------------------------------------------------------------------------
(* The same for the list and the notes, wherever the base is. *)

LEMMA ListAsked ==
    ASSUME NEW q, NEW r, NEW s, NEW u, NEW O, NEW v, Extended(q, r), Len(r) > Len(q),
           r[Len(q) + 1].op = "list", \A k \in Len(q) + 2..Len(r) : r[k].op # "list",
           \A k \in Len(q) + 1..Len(r) : r[k].as = u
    PROVE  \E b \in 0..Len(r) : ListAt(r, b, s, u, O, v)
<1>1. Len(q) + 1 \in Len(q) + 1..Len(r) /\ Len(q) + 1 \in 0..Len(r)
  BY DEF Extended
<1>2. \A k \in Len(q) + 1..Len(r) : k > Len(q) + 1 => r[k].op # "list"
  BY DEF Extended
<1>3. Since(r, Len(q) + 1, "list", u) /\ Waits(r, Len(q) + 1)
  BY <1>1, <1>2, SinceNow
<1> QED BY <1>1, <1>3 DEF ListAt

LEMMA ListExtended ==
    ASSUME NEW q, NEW r, NEW b, NEW s, NEW u, NEW O, NEW v, ListAt(q, b, s, u, O, v), Extended(q, r),
           \A k \in Len(q) + 1..Len(r) : r[k].op # "list" /\ r[k].as = u
    PROVE  ListAt(r, b, s, u, O, v)
<1>1. b \in 0..Len(q) /\ Len(q) \in Nat /\ (b > 0 => r[b] = q[b])
  BY DEF ListAt, Since, Extended
<1>2. Since(r, b, "list", u)
  BY <1>1, SinceKept DEF ListAt
<1>3. Base(r, b, s) = Base(q, b, s) /\ (Waits(q, b) => Waits(r, b))
  BY <1>1 DEF Base, Waits
<1>4. ListKept(q, b, Base(q, b, s), O, v) => ListKept(r, b, Base(q, b, s), O, v)
  <2>1. b \in Nat
    BY <1>1
  <2> QED BY <2>1, ListExtends
<1> QED BY <1>2, <1>3, <1>4 DEF ListAt

LEMMA ListPopped ==
    ASSUME NEW q, NEW t, NEW r, NEW b, NEW s, NEW ss, NEW u, NEW O, NEW v,
           ListAt(q, b, s, u, O, v), Popped(q, t), Extended(t, r),
           \A k \in Len(t) + 1..Len(r) : r[k].op # "list" /\ r[k].as = u,
           q[1].done \in {"yes", "refused"},
           Is(q[1], "list") => ss = q[1].answer,
           q[1].op # "list" => Taking(q[1], s, ss),
           Is(q[1], "entity") => \E k \in Len(t) + 1..Len(r) : WillTell(r[k], q[1].on)
    PROVE  \E c \in 0..Len(r) : ListAt(r, c, ss, u, O, v)
<1>1. /\ b \in 0..Len(q) /\ Len(q) \in Nat \ {0} /\ Len(t) = Len(q) - 1 /\ Len(r) \in Nat /\ Len(r) >= Len(t)
      /\ \A k \in 1..Len(t) : t[k] = q[k + 1]
  BY DEF ListAt, Since, Popped, Extended
<1>2. Since(q, b, "list", u) /\ (Waits(q, b) \/ ListKept(q, b, Base(q, b, s), O, v))
  BY DEF ListAt
<1>3. CASE b = 0
  <2>1. Since(t, 0, "list", u)
    BY <1>1, <1>2, <1>3, SinceKept
  <2>2. Since(r, 0, "list", u)
    <3>1. Len(t) \in Nat
      BY <1>1
    <3> QED BY <2>1, <3>1, SinceKept
  <2>3. ListKept(q, 0, s, O, v)
    BY <1>2, <1>3 DEF Waits, Base
  <2>4. q[1].op # "list"
    BY <1>1, <1>2, <1>3 DEF Since, After
  <2>5. Is(q[1], "entity") => \E k \in After(r, 0) : WillTell(r[k], q[1].on)
    BY <1>1 DEF After
  <2>6. ListKept(r, 0, ss, O, v)
    BY <2>3, <2>4, <2>5, ListTakes
  <2> QED BY <1>1, <2>2, <2>6 DEF ListAt, Base
<1>4. CASE b > 0
  <2>1. Since(t, b - 1, "list", u)
    BY <1>1, <1>2, <1>4, SinceKept
  <2>2. Since(r, b - 1, "list", u) /\ b - 1 \in 0..Len(r)
    <3>1. Len(t) \in Nat /\ b - 1 \in 0..Len(r)
      BY <1>1, <1>4
    <3> QED BY <2>1, <3>1, SinceKept
  <2>3. b > 1 => r[b - 1] = q[b]
    BY <1>1, <1>4 DEF Extended
  <2>4. Base(r, b - 1, ss) = Base(q, b, s)
    <3>1. CASE b = 1
      <4>1. Is(q[1], "list")
        BY <1>2, <3>1 DEF Since, Is
      <4> QED BY <3>1, <4>1 DEF Base
    <3>2. CASE b > 1
      BY <2>3, <3>2 DEF Base
    <3> QED BY <1>1, <1>4, <3>1, <3>2
  <2>5. CASE Waits(q, b)
    <3>1. b > 1
      BY <1>1, <1>4, <2>5 DEF Waits
    <3>2. Waits(r, b - 1)
      BY <1>1, <2>3, <2>5, <3>1 DEF Waits
    <3> QED BY <2>2, <3>2 DEF ListAt
  <2>6. CASE ListKept(q, b, Base(q, b, s), O, v)
    <3>1. b \in Nat \ {0}
      BY <1>1, <1>4
    <3>2. ListKept(t, b - 1, Base(q, b, s), O, v)
      BY <2>6, <3>1, ListShifts
    <3>3. b - 1 \in Nat
      BY <3>1
    <3>4. ListKept(r, b - 1, Base(q, b, s), O, v)
      BY <3>2, <3>3, ListExtends
    <3> QED BY <2>2, <2>4, <3>4 DEF ListAt
  <2> QED BY <1>2, <2>5, <2>6
<1> QED BY <1>1, <1>3, <1>4

\* The API does the next request, the p-th, after which the user's investigations are OO.
LEMMA ListServed ==
    ASSUME NEW q, NEW r, NEW p, NEW b, NEW s, NEW u, NEW O, NEW v, NEW OO, NEW vv,
           ListAt(q, b, s, u, O, v), Turn(q, r, p),
           p = b => /\ r[p].done = "yes" /\ Ids(r[p].answer) = OO /\ Descending(r[p].answer)
                    /\ \A k \in 1..Len(r[p].answer) : r[p].answer[k].version = vv[r[p].answer[k].id],
           p > b =>
             /\ Changed(r[p], O, OO, "create", "delete")
             /\ Is(r[p], "create") =>
                  /\ \A x \in Ids(Base(q, b, s)) : x < Item(r[p]) /\ x # Item(r[p])
                  /\ \A k \in After(q, b) : Is(q[k], "create") => Item(q[k]) < Item(r[p])
                  /\ \A k \in After(q, b) :
                       Is(q[k], "create") \/ Is(q[k], "delete") => Item(q[k]) # Item(r[p])
             /\ \A i \in OO : \/ WillTell(r[p], i)
                              \/ Told(r[p], i) /\ r[p].answer[1].version = vv[i]
                              \/ /\ ~Told(r[p], i) /\ ~WillTell(q[p], i)
                                 /\ i \in O /\ vv[i] = v[i]
    PROVE  ListAt(r, b, s, u, OO, vv)
<1>1. /\ b \in 0..Len(q) /\ Len(q) \in Nat /\ p \in 1..Len(q) /\ OneChanged(q, r, p)
      /\ \A k \in 1..Len(q) : k # p => r[k] = q[k]
  BY DEF ListAt, Since, Turn, OneChanged
<1>2. Since(q, b, "list", u) /\ (Waits(q, b) \/ ListKept(q, b, Base(q, b, s), O, v))
  BY DEF ListAt
<1>3. Since(r, b, "list", u)
  BY <1>1, <1>2, SinceKept
<1>4. CASE p < b
  BY <1>1, <1>3, <1>4 DEF ListAt, Waits, Turn, Ordered, OneChanged
<1>5. CASE p = b
  <2>1. ListKept(r, b, r[p].answer, OO, vv)
    BY <1>5, ListAnswered
  <2> QED BY <1>1, <1>3, <1>5, <2>1 DEF ListAt, Base
<1>6. CASE p > b
  <2>1. ~Waits(q, b)
    BY <1>1, <1>6 DEF Waits, Turn
  <2>2. Base(r, b, s) = Base(q, b, s)
    BY <1>1, <1>6 DEF Base
  <2>3. ListKept(q, b, Base(q, b, s), O, v) /\ b \in Nat
    BY <1>1, <1>2, <2>1
  <2> DEFINE w == Base(q, b, s)
  <2> HIDE DEF w
  <2>4. ListKept(r, b, w, OO, vv)
    BY <1>6, <2>3, ListServes DEF w
  <2> QED BY <1>3, <2>2, <2>4 DEF ListAt, w
<1> QED BY <1>1, <1>4, <1>5, <1>6

\* The notes s become t as r arrives.
NotesTaking(r, s, t) ==
    /\ Is(r, "notes") => t = r.answer
    /\ r.op # "notes" =>
         /\ Changed(r, ToSet(s), ToSet(t), "note", "unnote")
         /\ IsInjective(s) /\ (Is(r, "note") => Item(r) \notin ToSet(s)) => IsInjective(t)

LEMMA NotesAsked ==
    ASSUME NEW q, NEW r, NEW s, NEW u, NEW a, NEW T, Extended(q, r), Len(r) > Len(q),
           r[Len(r)].op = "notes", r[Len(r)].on = a, \A k \in Len(q) + 1..Len(r) : r[k].as = u
    PROVE  \E b \in 0..Len(r) : NotesAt(r, b, s, u, a, T)
<1>1. Len(r) \in Len(q) + 1..Len(r) /\ Len(r) \in 0..Len(r)
  BY DEF Extended
<1>2. \A k \in Len(q) + 1..Len(r) : ~(k > Len(r))
  BY DEF Extended
<1>3. Since(r, Len(r), "notes", u) /\ Waits(r, Len(r))
  BY <1>1, <1>2, SinceNow
<1>4. \A k \in After(r, Len(r)) : FALSE
  BY <1>1 DEF After
<1> QED BY <1>1, <1>3, <1>4 DEF NotesAt

LEMMA NotesExtended ==
    ASSUME NEW q, NEW r, NEW b, NEW s, NEW u, NEW a, NEW T, NotesAt(q, b, s, u, a, T), Extended(q, r),
           \A k \in Len(q) + 1..Len(r) :
             r[k].op # "notes" /\ r[k].as = u /\ (r[k].op = "note" => r[k].on = a)
    PROVE  NotesAt(r, b, s, u, a, T)
<1>1. /\ b \in 0..Len(q) /\ b \in Nat /\ Len(q) \in Nat /\ Len(r) >= Len(q) /\ Len(r) \in Nat
      /\ \A k \in 1..Len(q) : r[k] = q[k]
  BY DEF NotesAt, Since, Extended
<1>2. Since(r, b, "notes", u)
  BY <1>1, SinceKept DEF NotesAt
<1>3. /\ Base(r, b, s) = Base(q, b, s) /\ (Waits(q, b) => Waits(r, b)) /\ (b > 0 => r[b].on = a)
  BY <1>1 DEF Base, Waits, NotesAt
<1>4. \A k \in After(r, b) : r[k].op = "note" => r[k].on = a
  BY <1>1 DEF NotesAt, After
<1>5. Dropped(q, a) => Dropped(r, a)
  BY <1>1 DEF Dropped
<1>6. Match(q, b, ToSet(Base(q, b, s)), T, "note", "unnote")
        => Match(r, b, ToSet(Base(q, b, s)), T, "note", "unnote")
  BY <1>1, MatchExtended
<1> QED BY <1>2, <1>3, <1>4, <1>5, <1>6 DEF NotesAt

LEMMA NotesPopped ==
    ASSUME NEW q, NEW r, NEW b, NEW s, NEW ss, NEW u, NEW a, NEW T,
           NotesAt(q, b, s, u, a, T), Popped(q, r),
           q[1].done \in {"yes", "refused"}, ~Is(q[1], "delete"), NotesTaking(q[1], s, ss)
    PROVE  \E c \in 0..Len(r) : NotesAt(r, c, ss, u, a, T)
<1>1. /\ b \in 0..Len(q) /\ b \in Nat /\ Len(q) \in Nat \ {0} /\ Len(r) = Len(q) - 1 /\ Len(r) \in Nat
      /\ \A k \in 1..Len(r) : k + 1 \in 1..Len(q) /\ r[k] = q[k + 1]
  BY DEF NotesAt, Since, Popped
<1>2. /\ Since(q, b, "notes", u)
      /\ b > 0 => q[b].on = a
      /\ \A k \in After(q, b) : q[k].op = "note" => q[k].on = a
  BY DEF NotesAt
<1>3. ASSUME Dropped(q, a) PROVE Dropped(r, a)
  <2>1. PICK k \in 1..Len(q) : Is(q[k], "delete") /\ q[k].on = a
    BY <1>3 DEF Dropped
  <2>2. k - 1 \in 1..Len(r) /\ r[k - 1] = q[k]
    BY <1>1, <2>1
  <2> QED BY <2>1, <2>2 DEF Dropped
<1>4. CASE b = 0
  <2>1. Since(r, 0, "notes", u)
    BY <1>1, <1>2, <1>4, SinceKept
  <2>2. q[1].op # "notes" /\ 1 \in After(q, 0)
    BY <1>1, <1>2, <1>4 DEF Since, After
  <2>3. \A k \in After(r, 0) : r[k].op = "note" => r[k].on = a
    BY <1>1, <1>2, <1>4 DEF After
  <2>4. CASE Dropped(q, a)
    BY <1>1, <1>3, <2>1, <2>3, <2>4 DEF NotesAt
  <2>5. CASE Match(q, 0, ToSet(s), T, "note", "unnote") /\ IsInjective(s)
    <3> DEFINE S == ToSet(s)
               SS == ToSet(ss)
    <3>1. Changed(q[1], S, SS, "note", "unnote")
      BY <2>2 DEF NotesTaking
    <3>2. Match(q, 0, S, T, "note", "unnote") /\ 0 \in Nat /\ "note" # "unnote"
      BY <2>5
    <3> HIDE DEF S, SS
    <3>3. /\ Is(q[1], "note") => Match(r, 0, S \cup {Item(q[1])}, T, "note", "unnote")
          /\ Is(q[1], "unnote") => Match(r, 0, S \ {Item(q[1])}, T, "note", "unnote")
          /\ ~Is(q[1], "note") /\ ~Is(q[1], "unnote") => Match(r, 0, S, T, "note", "unnote")
      BY <3>2, MatchPopped
    <3>4. Match(r, 0, SS, T, "note", "unnote")
      BY <3>1, <3>3 DEF Changed
    <3>5. Is(q[1], "note") => Item(q[1]) \notin S
      BY <2>2, <3>2 DEF Match
    <3>6. IsInjective(ss)
      BY <2>2, <2>5, <3>5 DEF NotesTaking, S
    <3> QED BY <1>1, <2>1, <2>3, <3>4, <3>6 DEF NotesAt, Base, SS
  <2> QED BY <1>4, <2>4, <2>5 DEF NotesAt, Waits, Base
<1>5. CASE b > 0
  <2> b - 1 \in 0..Len(r)
    BY <1>1, <1>5
  <2> Since(q, b, "notes", u) /\ Len(q) \in Nat
    BY <1>1, <1>2
  <2>1. Since(r, b - 1, "notes", u) /\ b - 1 \in 0..Len(r)
    BY <1>5, SinceKept
  <2>2. b > 1 => r[b - 1] = q[b]
    BY <1>1, <1>5
  <2>3. b - 1 > 0 => r[b - 1].on = a
    BY <1>1, <1>2, <2>2
  <2>4. \A k \in After(r, b - 1) : r[k].op = "note" => r[k].on = a
    <3>1. \A k \in After(r, b - 1) : k + 1 \in After(q, b) /\ r[k] = q[k + 1]
      BY <1>1, <1>5 DEF After
    <3> QED BY <1>2, <3>1
  <2>5. Base(r, b - 1, ss) = Base(q, b, s)
    <3>1. CASE b = 1
      <4>1. Is(q[1], "notes")
        BY <1>2, <3>1 DEF Since, Is
      <4> QED BY <3>1, <4>1 DEF Base, NotesTaking
    <3>2. CASE b > 1
      BY <1>1, <2>2, <3>2 DEF Base
    <3> QED BY <1>1, <1>5, <3>1, <3>2
  <2>6. CASE Waits(q, b)
    <3>1. b > 1
      BY <1>1, <1>5, <2>6 DEF Waits
    <3>2. Waits(r, b - 1)
      BY <1>1, <2>2, <2>6, <3>1 DEF Waits
    <3> QED BY <2>1, <2>3, <2>4, <3>2 DEF NotesAt
  <2>7. CASE Dropped(q, a)
    BY <1>3, <2>1, <2>3, <2>4, <2>7 DEF NotesAt
  <2>8. CASE Match(q, b, ToSet(Base(q, b, s)), T, "note", "unnote") /\ IsInjective(Base(q, b, s))
    <3> DEFINE S == ToSet(Base(q, b, s))
    <3>1. Match(q, b, S, T, "note", "unnote") /\ "note" # "unnote"
      BY <2>8
    <3> HIDE DEF S
    <3>2. Match(r, b - 1, S, T, "note", "unnote")
      BY <1>1, <1>5, <3>1, MatchPopped
    <3> QED BY <2>1, <2>3, <2>4, <2>5, <2>8, <3>2 DEF NotesAt, S
  <2> QED BY <2>6, <2>7, <2>8 DEF NotesAt
<1> QED BY <1>1, <1>4, <1>5

\* The API does the next request, the p-th, after which the notes of a are TT.
LEMMA NotesServed ==
    ASSUME NEW q, NEW r, NEW p, NEW b, NEW s, NEW u, NEW a, NEW T, NEW TT,
           NotesAt(q, b, s, u, a, T), Turn(q, r, p),
           p = b => /\ r[p].done = "yes" /\ ToSet(r[p].answer) = TT /\ IsInjective(r[p].answer),
           p > b => \/ Is(r[p], "delete") /\ r[p].on = a
                    \/ /\ Changed(r[p], T, TT, "note", "unnote")
                       /\ Is(r[p], "note") =>
                            /\ Item(r[p]) \notin ToSet(Base(q, b, s))
                            /\ \A k \in After(q, b) :
                                 Is(q[k], "note") \/ Is(q[k], "unnote") => Item(q[k]) # Item(r[p])
    PROVE  NotesAt(r, b, s, u, a, TT)
<1>1. /\ b \in 0..Len(q) /\ b \in Nat /\ Len(q) \in Nat /\ p \in 1..Len(q) /\ OneChanged(q, r, p)
      /\ Len(r) = Len(q) /\ q[p].done = "no" /\ r[p].op = q[p].op /\ r[p].on = q[p].on
      /\ \A k \in 1..Len(q) : k # p => r[k] = q[k]
  BY DEF NotesAt, Since, Turn, OneChanged
<1>2. /\ Since(q, b, "notes", u)
      /\ b > 0 => q[b].on = a
      /\ \A k \in After(q, b) : q[k].op = "note" => q[k].on = a
  BY DEF NotesAt
<1>3. Since(r, b, "notes", u)
  BY <1>1, <1>2, SinceKept
<1>4. b > 0 => r[b].on = a
  BY <1>1, <1>2
<1>5. \A k \in After(r, b) : r[k].op = "note" => r[k].on = a
  BY <1>1, <1>2 DEF After
<1>6. Dropped(q, a) => Dropped(r, a)
  BY <1>1 DEF Dropped, Is
<1>7. CASE Dropped(q, a)
  BY <1>3, <1>4, <1>5, <1>6, <1>7 DEF NotesAt
<1>8. CASE p < b
  <2>1. Waits(r, b)
    BY <1>1, <1>8 DEF Waits, Turn, Ordered
  <2> QED BY <1>3, <1>4, <1>5, <2>1 DEF NotesAt
<1>9. CASE p = b
  <2>1. \A k \in After(r, b) : r[k].done = "no"
    BY <1>1, <1>9 DEF Turn, Ordered, After
  <2>2. Match(r, b, TT, TT, "note", "unnote")
    BY <2>1, MatchEmpty
  <2>3. Base(r, b, s) = r[p].answer
    BY <1>1, <1>9 DEF Base
  <2> QED BY <1>3, <1>4, <1>5, <1>9, <2>2, <2>3 DEF NotesAt
<1>10. CASE p > b /\ ~Dropped(q, a)
  <2>1. ~Waits(q, b)
    BY <1>1, <1>10 DEF Waits, Turn
  <2>2. Base(r, b, s) = Base(q, b, s)
    BY <1>1, <1>10 DEF Base
  <2> DEFINE S == ToSet(Base(q, b, s))
  <2>3. Match(q, b, S, T, "note", "unnote") /\ IsInjective(Base(q, b, s)) /\ "note" # "unnote"
    BY <1>10, <2>1 DEF NotesAt
  <2>4. CASE Is(r[p], "delete") /\ r[p].on = a
    <3>1. Dropped(r, a)
      BY <1>1, <2>4 DEF Dropped
    <3> QED BY <1>3, <1>4, <1>5, <3>1 DEF NotesAt
  <2>5. CASE /\ Changed(r[p], T, TT, "note", "unnote")
             /\ Is(r[p], "note") =>
                  /\ Item(r[p]) \notin ToSet(Base(q, b, s))
                  /\ \A k \in After(q, b) : Is(q[k], "note") \/ Is(q[k], "unnote") => Item(q[k]) # Item(r[p])
    <3>1. Is(r[p], "note") =>
            /\ Item(r[p]) \notin S
            /\ \A k \in After(q, b) : Is(q[k], "note") \/ Is(q[k], "unnote") => Item(q[k]) # Item(r[p])
      BY <2>5
    <3> HIDE DEF S
    <3>2. Match(r, b, S, TT, "note", "unnote")
      <4>1. CASE Is(r[p], "note")
        <5>1. Match(r, b, S, T \cup {Item(r[p])}, "note", "unnote")
          BY <1>1, <1>10, <2>3, <3>1, <4>1, MatchChanged
        <5> QED BY <2>5, <4>1, <5>1 DEF Changed
      <4>2. CASE Is(r[p], "unnote")
        <5>1. Match(r, b, S, T \ {Item(r[p])}, "note", "unnote")
          BY <1>1, <1>10, <2>3, <4>2, MatchChanged
        <5> QED BY <2>5, <4>2, <5>1 DEF Changed
      <4>3. CASE ~Is(r[p], "note") /\ ~Is(r[p], "unnote")
        <5>1. Match(r, b, S, T, "note", "unnote")
          BY <1>1, <2>3, <4>3, MatchSame DEF Is
        <5> QED BY <2>5, <4>3, <5>1 DEF Changed
      <4> QED BY <4>1, <4>2, <4>3
    <3> QED BY <1>3, <1>4, <1>5, <2>2, <2>3, <3>2 DEF NotesAt, S
  <2> QED BY <1>10, <2>4, <2>5
<1> QED BY <1>1, <1>7, <1>8, <1>9, <1>10

-----------------------------------------------------------------------------
(* What the store does with an answer. *)

\* The answer of r comes in, and w are the requests that it leads to.
Takes(r, w) ==
    /\ Is(r, "list") => list' = r.answer
    /\ r.op # "list" => Taking(r, list, list')
    /\ NotesTaking(r, shown, shown')
    /\ Is(r, "entity") => \E j \in 1..Len(w) : WillTell(w[j], r.on)
    /\ mounted => \/ /\ ~Is(r, "delete") /\ active' = active
                     /\ \A j \in 1..Len(w) : w[j].op # "notes"
                  \/ active' = None
                  \/ Len(w) > 0 /\ w[Len(w)].op = "notes" /\ w[Len(w)].on = active'

\* The k-th request leaves the queue, which w joins, and the store is then as typed.
Leads(k, w) ==
    /\ Fresh(w, who, Len(owners), changes)
    /\ \A j \in 1..Len(w) : w[j].op \in {"get", "notes"}
    /\ asked' = RemoveAt(asked, k) \o w
    /\ list' \in Seq(Entries(Len(owners), changes))
    /\ shown' \in Seq(Notes(Len(owners), changes))
    /\ active' \in 0..Len(owners)

\* What Typed says of the store.
LEMMA StoreIs ==
    ASSUME Typed
    PROVE  /\ list \in Seq(Entries(Len(owners), changes)) /\ shown \in Seq(Notes(Len(owners), changes))
           /\ active \in 0..Len(owners) /\ Len(owners) \in Nat /\ changes \in Nat
           /\ asked \in Seq(Request) /\ \A k \in DOMAIN asked : Shaped(asked[k], Len(owners), changes)
           /\ Len(list) \in Nat /\ DOMAIN list = 1..Len(list)
           /\ Len(shown) \in Nat /\ DOMAIN shown = 1..Len(shown)
           /\ \A k \in 1..Len(list) : list[k] \in Entries(Len(owners), changes)
           /\ \A k \in 1..Len(shown) : shown[k] \in Notes(Len(owners), changes)
<1>1. /\ list \in Seq(Entries(Len(owners), changes)) /\ shown \in Seq(Notes(Len(owners), changes))
      /\ active \in 0..Len(owners) /\ owners \in Seq(User) /\ changes \in 0..MaxChanges
      /\ Queue(asked, Len(owners), changes)
  BY DEF Typed
<1>2. Len(owners) \in Nat /\ changes \in Nat
  BY <1>1, WorkspaceAssumption
<1>3. asked \in Seq(Request) /\ \A k \in DOMAIN asked : Shaped(asked[k], Len(owners), changes)
  BY <1>1 DEF Queue
<1>4. Len(list) \in Nat /\ DOMAIN list = 1..Len(list) /\ Len(shown) \in Nat /\ DOMAIN shown = 1..Len(shown)
  BY <1>1
<1>5. /\ \A k \in 1..Len(list) : list[k] \in Entries(Len(owners), changes)
      /\ \A k \in 1..Len(shown) : shown[k] \in Notes(Len(owners), changes)
  BY <1>1
<1> QED BY <1>1, <1>2, <1>3, <1>4, <1>5

LEMMA NoneFresh ==
    ASSUME Typed
    PROVE  Fresh(<<>>, who, Len(owners), changes) /\ Len(<<>>) = 0
  BY DEF Fresh, Queue

LEMMA SameTaken ==
    ASSUME NEW r, NEW s, ~Is(r, "create"), ~Is(r, "delete"), \A i : ~Told(r, i)
    PROVE  Taking(r, s, s)
  BY DEF Taking, Changed

LEMMA SameNotesTaken ==
    ASSUME NEW r, NEW s, ~Is(r, "note"), ~Is(r, "unnote"), ~Is(r, "notes")
    PROVE  NotesTaking(r, s, s)
  BY DEF NotesTaking, Changed

LEMMA ListArrivesDoes ==
    ASSUME Typed, NEW k \in DOMAIN asked, asked[k].done = "yes", ListArrives(k)
    PROVE  Leads(k, <<>>) /\ Takes(asked[k], <<>>)
<1>1. /\ asked[k].op = "list" /\ list' = asked[k].answer /\ active' = active /\ shown' = shown
      /\ asked' = RemoveAt(asked, k) \o <<>>
  BY DEF ListArrives, Answered
<1>2. asked[k].answer \in Seq(Entries(Len(owners), changes))
  BY <1>1, StoreIs DEF Shaped
<1>3. Leads(k, <<>>)
  BY <1>1, <1>2, StoreIs, NoneFresh DEF Leads
<1>4. NotesTaking(asked[k], shown, shown')
  BY <1>1, SameNotesTaken DEF Is
<1> QED BY <1>1, <1>3, <1>4, NoneFresh DEF Takes, Is

LEMMA NotesArriveDoes ==
    ASSUME Typed, NEW k \in DOMAIN asked, asked[k].done = "yes", NotesArrive(k)
    PROVE  Leads(k, <<>>) /\ Takes(asked[k], <<>>)
<1>1. /\ asked[k].op = "notes" /\ list' = list /\ active' = active /\ shown' = asked[k].answer
      /\ asked' = RemoveAt(asked, k) \o <<>>
  BY DEF NotesArrive, Answered
<1>2. asked[k].answer \in Seq(Notes(Len(owners), changes))
  BY <1>1, StoreIs DEF Shaped
<1>3. Leads(k, <<>>)
  BY <1>1, <1>2, StoreIs, NoneFresh DEF Leads
<1>4. NotesTaking(asked[k], shown, shown')
  BY <1>1 DEF NotesTaking
<1>5. Taking(asked[k], list, list')
  BY <1>1, SameTaken DEF Is, Told
<1> QED BY <1>1, <1>3, <1>4, <1>5, NoneFresh DEF Takes, Is

LEMMA EntityEditedDoes ==
    ASSUME Typed, NEW k \in DOMAIN asked, asked[k].done = "yes", EntityEdited(k)
    PROVE  LET w == <<Ask("get", asked[k].on)>> IN Leads(k, w) /\ Takes(asked[k], w)
<1> DEFINE w == <<Ask("get", asked[k].on)>>
<1>1. /\ asked[k].op = "entity" /\ list' = list /\ active' = active /\ shown' = shown
      /\ asked' = RemoveAt(asked, k) \o w
  BY DEF EntityEdited, Answered, screen
<1>2. asked[k].on \in 1..Len(owners) /\ asked[k].on \in Subject
  BY <1>1, StoreIs DEF Shaped, Subject
<1>3. /\ Fresh(w, who, Len(owners), changes) /\ Len(w) = 1
      /\ w[1].op = "get" /\ w[1].on = asked[k].on
  BY <1>2, AskIs DEF Ops
<1> HIDE DEF w
<1>4. Leads(k, w)
  BY <1>1, <1>3, StoreIs DEF Leads
<1>5. NotesTaking(asked[k], shown, shown')
  BY <1>1, SameNotesTaken DEF Is
<1>6. Taking(asked[k], list, list')
  BY <1>1, SameTaken DEF Is, Told
<1>7. 1 \in 1..Len(w) /\ WillTell(w[1], asked[k].on)
  BY <1>3 DEF Fresh, WillTell
<1>8. Takes(asked[k], w)
  BY <1>1, <1>3, <1>5, <1>6, <1>7 DEF Takes, Is
<1> QED BY <1>4, <1>8 DEF w

LEMMA FailedDoes ==
    ASSUME Typed, NEW k \in DOMAIN asked, Failed(k)
    PROVE  /\ Leads(k, <<>>)
           /\ asked[k].done = "refused" => Takes(asked[k], <<>>)
<1>1. /\ list' = list /\ active' = active /\ shown' = IF asked[k].op = "notes" THEN <<>> ELSE shown
      /\ asked' = RemoveAt(asked, k)
  BY DEF Failed, screen
<1>2. RemoveAt(asked, k) \in Seq(Request)
  BY StoreIs, Removed
<1>3. asked' = RemoveAt(asked, k) \o <<>>
  BY <1>1, <1>2
<1>4. shown' \in Seq(Notes(Len(owners), changes))
  BY <1>1, StoreIs
<1>5. Leads(k, <<>>)
  BY <1>1, <1>3, <1>4, StoreIs, NoneFresh DEF Leads
<1>6. ASSUME asked[k].done = "refused"
      PROVE  Takes(asked[k], <<>>)
  <2>1. Taking(asked[k], list, list')
    BY <1>1, <1>6, SameTaken DEF Is, Told
  <2>2. NotesTaking(asked[k], shown, shown')
    <3>1. CASE asked[k].op = "notes"
      BY <1>6, <3>1 DEF NotesTaking, Is
    <3>2. CASE asked[k].op # "notes"
      BY <1>1, <1>6, <3>2, SameNotesTaken DEF Is
    <3> QED BY <3>1, <3>2
  <2> QED BY <1>1, <1>6, <2>1, <2>2, NoneFresh DEF Takes, Is
<1> QED BY <1>5, <1>6

LEMMA JustOne ==
    ASSUME NEW S, NEW a \in Answer
    PROVE  Len(a) = 1 /\ a[1] \in S => a \in Seq(S)
<1>1. Len(a) \in Nat /\ a = [k \in 1..Len(a) |-> a[k]]
  BY DEF Answer
<1>2. (\A k \in 1..Len(a) : a[k] \in S) => a \in Seq(S)
  BY <1>1
<1> QED BY <1>2

LEMMA AddedLast ==
    ASSUME NEW S, NEW s \in Seq(S), NEW a \in Seq(S)
    PROVE  Len(a) = 1 =>
             /\ s \o a \in Seq(S)
             /\ ToSet(s \o a) = ToSet(s) \cup {a[1]}
             /\ IsInjective(s) /\ a[1] \notin ToSet(s) => IsInjective(s \o a)
<1> DEFINE t == s \o a
<1>0. /\ t \in Seq(S) /\ Len(s) \in Nat /\ Len(t) = Len(s) + Len(a)
      /\ \A i \in 1..Len(s) : t[i] = s[i]
      /\ \A i \in 1..Len(a) : t[Len(s) + i] = a[i]
  BY Joined
<1> HIDE DEF t
<1> SUFFICES ASSUME Len(a) = 1
             PROVE  /\ t \in Seq(S)
                    /\ ToSet(t) = ToSet(s) \cup {a[1]}
                    /\ IsInjective(s) /\ a[1] \notin ToSet(s) => IsInjective(t)
  BY DEF t
<1>1. /\ t \in Seq(S) /\ Len(s) \in Nat /\ Len(t) = Len(s) + 1
      /\ \A i \in 1..Len(s) : t[i] = s[i]
      /\ t[Len(s) + 1] = a[1]
  BY <1>0
<1>2. DOMAIN t = 1..Len(s) + 1 /\ DOMAIN s = 1..Len(s)
  BY <1>1
<1>3. ToSet(t) = ToSet(s) \cup {a[1]}
  BY <1>1, <1>2 DEF ToSet
<1>4. ASSUME IsInjective(s), a[1] \notin ToSet(s) PROVE IsInjective(t)
  BY <1>1, <1>2, <1>4 DEF ToSet, IsInjective
<1> QED BY <1>1, <1>3, <1>4

LEMMA AddedFirst ==
    ASSUME NEW S, NEW s \in Seq(S), NEW a \in Seq(S)
    PROVE  Len(a) = 1 =>
             /\ a \o s \in Seq(S) /\ Len(a \o s) = Len(s) + 1
             /\ (a \o s)[1] = a[1]
             /\ \A k \in 1..Len(s) : (a \o s)[k + 1] = s[k]
             /\ \A k \in 2..Len(s) + 1 : k - 1 \in 1..Len(s) /\ (a \o s)[k] = s[k - 1]
<1>1. /\ a \o s \in Seq(S) /\ Len(s) \in Nat /\ Len(a) \in Nat /\ Len(a \o s) = Len(a) + Len(s)
      /\ \A i \in 1..Len(a) : (a \o s)[i] = a[i]
      /\ \A i \in 1..Len(s) : (a \o s)[Len(a) + i] = s[i]
  BY Joined
<1> HAVE Len(a) = 1
<1>2. \A i \in 1..Len(s) : Len(a) + i = i + 1
  BY <1>1
<1>3. \A i \in 1..Len(s) : (a \o s)[i + 1] = s[i]
  BY <1>1, <1>2
<1>4. \A k \in 2..Len(s) + 1 : k - 1 \in 1..Len(s) /\ (k - 1) + 1 = k
  BY <1>1
<1>5. \A k \in 2..Len(s) + 1 : (a \o s)[k] = s[k - 1]
  BY <1>3, <1>4
<1>6. Len(a \o s) = Len(s) + 1 /\ (a \o s)[1] = a[1]
  BY <1>1
<1> QED BY <1>1, <1>3, <1>4, <1>5, <1>6

LEMMA NoteCreatedDoes ==
    ASSUME Typed, NEW k \in DOMAIN asked, asked[k].done = "yes", NoteCreated(k)
    PROVE  Leads(k, <<>>) /\ Takes(asked[k], <<>>)
<1> DEFINE a == asked[k].answer
<1>1. /\ asked[k].op = "note" /\ list' = list /\ active' = active /\ shown' = shown \o a
      /\ asked' = RemoveAt(asked, k) \o <<>>
  BY DEF NoteCreated, Answered
<1>2. Len(a) = 1 /\ a[1] \in Notes(Len(owners), changes)
  BY <1>1, StoreIs DEF Shaped
<1> a \in Answer
  <2>1. asked[k] \in Request
    BY StoreIs
  <2> QED BY <2>1 DEF Request
<1>3. a \in Seq(Notes(Len(owners), changes))
  BY <1>2, JustOne
<1>4. /\ shown' \in Seq(Notes(Len(owners), changes))
      /\ ToSet(shown') = ToSet(shown) \cup {a[1]}
      /\ IsInjective(shown) /\ a[1] \notin ToSet(shown) => IsInjective(shown')
  <2>1. shown \in Seq(Notes(Len(owners), changes))
    BY StoreIs
  <2> HIDE DEF a
  <2> QED BY <1>1, <1>2, <1>3, <2>1, AddedLast
<1>5. Is(asked[k], "note") /\ Item(asked[k]) = a[1]
  BY <1>1 DEF Is, Item
<1> HIDE DEF a
<1>6. Leads(k, <<>>)
  BY <1>1, <1>4, StoreIs, NoneFresh DEF Leads
<1>7. NotesTaking(asked[k], shown, shown')
  BY <1>1, <1>4, <1>5 DEF NotesTaking, Changed, Is
<1>8. Taking(asked[k], list, list')
  BY <1>1, SameTaken DEF Is, Told
<1> QED BY <1>1, <1>6, <1>7, <1>8, NoneFresh DEF Takes, Is

LEMMA NoteDeletedDoes ==
    ASSUME Typed, NEW k \in DOMAIN asked, asked[k].done = "yes", NoteDeleted(k)
    PROVE  Leads(k, <<>>) /\ Takes(asked[k], <<>>)
<1> DEFINE K == {j \in DOMAIN shown : shown[j] # asked[k].on}
<1>1. /\ asked[k].op = "unnote" /\ list' = list /\ active' = active /\ shown' \in Kept(shown, K)
      /\ asked' = RemoveAt(asked, k) \o <<>>
  BY DEF NoteDeleted, Answered
<1>2. K \in SUBSET (1..Len(shown)) /\ DOMAIN shown = 1..Len(shown)
  BY StoreIs
<1>3. \A j \in 1..Len(shown) : j \in K <=> shown[j] # asked[k].on
  BY <1>2
<1> HIDE DEF K
<1>4. shown' \in Seq(Notes(Len(owners), changes)) /\ LeftOf(shown', shown, K)
  <2>1. shown \in Seq(Notes(Len(owners), changes))
    BY StoreIs
  <2> QED BY <1>1, <1>2, <2>1, Filtered
<1>5. Leads(k, <<>>)
  BY <1>1, <1>4, StoreIs, NoneFresh DEF Leads
<1>6. DOMAIN shown' = 1..Len(shown') /\ Len(shown') \in Nat
  BY <1>4
<1>7. ToSet(shown') = ToSet(shown) \ {asked[k].on}
  <2>1. ASSUME NEW x \in ToSet(shown') PROVE x \in ToSet(shown) /\ x # asked[k].on
    <3>1. PICK i \in 1..Len(shown') : x = shown'[i]
      BY <1>6 DEF ToSet
    <3>2. PICK j \in K : shown'[i] = shown[j]
      BY <1>4 DEF LeftOf
    <3> QED BY <1>2, <1>3, <3>1, <3>2 DEF ToSet
  <2>2. ASSUME NEW x \in ToSet(shown), x # asked[k].on PROVE x \in ToSet(shown')
    <3>1. PICK j \in 1..Len(shown) : x = shown[j]
      BY <1>2 DEF ToSet
    <3>2. PICK i \in 1..Len(shown') : shown'[i] = shown[j]
      BY <1>3, <1>4, <2>2, <3>1 DEF LeftOf
    <3> QED BY <1>6, <3>1, <3>2 DEF ToSet
  <2> QED BY <2>1, <2>2
<1>8. ASSUME IsInjective(shown) PROVE IsInjective(shown')
  <2>1. \A i, j \in 1..Len(shown') : i < j => shown'[i] # shown'[j]
    <3> TAKE i, j \in 1..Len(shown')
    <3> HAVE i < j
    <3>1. PICK c, l \in K : c < l /\ shown'[i] = shown[c] /\ shown'[j] = shown[l]
      BY <1>4 DEF LeftOf
    <3>2. c \in DOMAIN shown /\ l \in DOMAIN shown /\ c # l
      BY <1>2, <3>1
    <3> QED BY <1>8, <3>1, <3>2 DEF IsInjective
  <2> QED BY <1>6, <2>1 DEF IsInjective
<1>9. NotesTaking(asked[k], shown, shown')
  <2>1. Item(asked[k]) = asked[k].on
    BY <1>1 DEF Item
  <2> QED BY <1>1, <1>7, <1>8, <2>1 DEF NotesTaking, Changed, Is
<1>10. Taking(asked[k], list, list')
  BY <1>1, SameTaken DEF Is, Told
<1> QED BY <1>1, <1>5, <1>9, <1>10, NoneFresh DEF Takes, Is

LEMMA EditedDoes ==
    ASSUME Typed, NEW k \in DOMAIN asked, asked[k].done = "yes", Edited(k)
    PROVE  Leads(k, <<>>) /\ Takes(asked[k], <<>>)
<1> DEFINE v == asked[k].answer[1]
           E == Entries(Len(owners), changes)
<1>1. /\ asked[k].op \in {"update", "get"} /\ list' = Replaced(v) /\ active' = active /\ shown' = shown
      /\ asked' = RemoveAt(asked, k) \o <<>>
  BY DEF Edited, Answered
<1>2. v \in E
  BY <1>1, StoreIs DEF Shaped
<1>3. list \in Seq(E) /\ Len(list) \in Nat /\ DOMAIN list = 1..Len(list) /\ \A j \in 1..Len(list) : list[j] \in E
  BY StoreIs
<1>4. \A i : Told(asked[k], i) <=> i = v.id
  BY <1>1 DEF Told
<1> HIDE DEF v, E
<1>5. /\ list' \in Seq(E) /\ Len(list') = Len(list)
      /\ \A j \in 1..Len(list) : list'[j] = IF list[j].id = v.id THEN v ELSE list[j]
  BY <1>1, <1>2, <1>3 DEF Replaced
<1>6. \A j \in 1..Len(list) : list'[j].id = list[j].id
  BY <1>5
<1>7. Leads(k, <<>>)
  BY <1>1, <1>5, StoreIs, NoneFresh DEF Leads, E
<1>8. NotesTaking(asked[k], shown, shown')
  BY <1>1, SameNotesTaken DEF Is
<1>9. Taking(asked[k], list, list')
  <2>1. Changed(asked[k], Ids(list), Ids(list'), "create", "delete")
    BY <1>1, <1>5, <1>6 DEF Changed, Is, Ids
  <2>2. Descending(list) => Descending(list')
    BY <1>5, <1>6 DEF Descending
  <2>3. \A j \in 1..Len(list') : IF Told(asked[k], list'[j].id) THEN list'[j].version = v.version
                                 ELSE \E l \in 1..Len(list) : list'[j] = list[l]
    BY <1>4, <1>5, <1>6
  <2> QED BY <2>1, <2>2, <2>3 DEF Taking, v
<1> QED BY <1>1, <1>7, <1>8, <1>9, NoneFresh DEF Takes, Is

LEMMA CreatedDoes ==
    ASSUME Typed, NEW k \in DOMAIN asked, asked[k].done = "yes", Created(k)
    PROVE  \E w : Leads(k, w) /\ Takes(asked[k], w)
<1> DEFINE a == asked[k].answer
           i == asked[k].answer[1].id
           w == Fetches(Becoming(i).fetch)
           E == Entries(Len(owners), changes)
<1>1. /\ asked[k].op = "create" /\ list' = a \o list /\ active' = Becoming(i).active /\ shown' = shown
      /\ asked' = RemoveAt(asked, k) \o w
  BY DEF Created, Answered
<1>2. Len(a) = 1 /\ a[1] \in E
  BY <1>1, StoreIs DEF Shaped
<1>3. i \in 0..Len(owners)
  BY <1>2, StoreIs DEF Entries
<1>4. /\ active' \in 0..Len(owners)
      /\ Fresh(w, who, Len(owners), changes)
      /\ mounted => Turned(w, active, active')
      /\ \A j \in 1..Len(w) : w[j].op = "notes"
  <2>1. /\ active' \in 0..Len(owners)
        /\ Fresh(w, who, Len(owners), changes)
        /\ mounted => Turned(w, active, active')
    BY <1>1, <1>3, TurnedBecoming
  <2>2. \A j \in 1..Len(w) : w[j].op = "notes"
    <3>1. Becoming(i).fetch \in Seq(1..Len(owners))
      BY <1>3, BecomingIs
    <3> QED BY <3>1, FetchesAre
  <2> QED BY <2>1, <2>2
<1>5. a \in Seq(E)
  <2>1. asked[k] \in Request
    BY StoreIs
  <2>2. a \in Answer
    BY <2>1 DEF Request
  <2> QED BY <1>2, <2>2, JustOne
<1>6. Is(asked[k], "create") /\ Item(asked[k]) = i /\ \A j : Told(asked[k], j) <=> j = i
  BY <1>1 DEF Is, Item, Told
<1>7. list \in Seq(E) /\ Len(list) \in Nat /\ DOMAIN list = 1..Len(list)
  BY StoreIs
<1> HIDE DEF w, E
<1>8. /\ list' \in Seq(E) /\ Len(list') = Len(list) + 1
      /\ list'[1] = a[1]
      /\ \A j \in 1..Len(list) : list'[j + 1] = list[j]
      /\ \A j \in 2..Len(list) + 1 : j - 1 \in 1..Len(list) /\ list'[j] = list[j - 1]
  BY <1>1, <1>2, <1>5, <1>7, AddedFirst
<1>9. Leads(k, w)
  BY <1>1, <1>4, <1>8, StoreIs DEF Leads, E, Turned
<1>10. NotesTaking(asked[k], shown, shown')
  BY <1>1, SameNotesTaken DEF Is
<1>11. Taking(asked[k], list, list')
  <2>1. Ids(list') = Ids(list) \cup {i}
    <3>1. \A j \in 1..Len(list) : j + 1 \in 1..Len(list')
      BY <1>7, <1>8
    <3>2. \A j \in 1..Len(list') : j = 1 \/ j \in 2..Len(list) + 1
      BY <1>7, <1>8
    <3>3. ASSUME NEW x \in Ids(list) PROVE x \in Ids(list')
      BY <1>8, <3>1 DEF Ids
    <3>4. i \in Ids(list')
      BY <1>7, <1>8 DEF Ids
    <3>5. ASSUME NEW x \in Ids(list') PROVE x \in Ids(list) \/ x = i
      BY <1>8, <3>2 DEF Ids
    <3> QED BY <3>3, <3>4, <3>5
  <2>2. ASSUME Descending(list), \A x \in Ids(list) : x < i PROVE Descending(list')
    <3> SUFFICES ASSUME NEW j \in 1..Len(list'), NEW l \in 1..Len(list'), j < l
                 PROVE  list'[j].id > list'[l].id
      BY DEF Descending
    <3>1. l \in 2..Len(list) + 1
      BY <1>7, <1>8
    <3>2. l - 1 \in 1..Len(list) /\ list'[l] = list[l - 1]
      BY <1>8, <3>1
    <3>3. CASE j = 1
      <4>1. list[l - 1].id < i
        BY <2>2, <3>2 DEF Ids
      <4>2. list[l - 1].id \in Nat /\ i \in Nat
        <5>1. list[l - 1] \in Entries(Len(owners), changes) /\ Len(owners) \in Nat
          BY <3>2, StoreIs
        <5> QED BY <1>3, <5>1 DEF Entries
      <4>3. list'[j].id = i
        BY <1>8, <3>3
      <4> QED BY <3>2, <4>1, <4>2, <4>3
    <3>4. CASE j # 1
      <4>1. j \in 2..Len(list) + 1 /\ j - 1 < l - 1
        BY <1>7, <1>8, <3>4
      <4>2. j - 1 \in 1..Len(list) /\ list'[j] = list[j - 1]
        BY <1>8, <4>1
      <4> QED BY <2>2, <3>2, <4>1, <4>2 DEF Descending
    <3> QED BY <3>3, <3>4
  <2>3. ASSUME i \notin Ids(list), NEW j \in 1..Len(list')
        PROVE  IF Told(asked[k], list'[j].id) THEN list'[j].version = a[1].version
               ELSE \E l \in 1..Len(list) : list'[j] = list[l]
    BY <1>6, <1>7, <1>8, <2>3 DEF Ids
  <2> QED BY <1>1, <1>6, <2>1, <2>2, <2>3 DEF Taking, Changed, Is
<1>12. Takes(asked[k], w)
  BY <1>1, <1>4, <1>6, <1>10, <1>11 DEF Takes, Is, Turned
<1> QED BY <1>9, <1>12

LEMMA DeletedDoes ==
    ASSUME Typed, NEW k \in DOMAIN asked, asked[k].done = "yes", Deleted(k)
    PROVE  \E w : Leads(k, w) /\ Takes(asked[k], w)
<1> DEFINE id == asked[k].on
           K == {j \in DOMAIN list : list[j].id # id}
           E == Entries(Len(owners), changes)
           again == IF active = id /\ mounted /\ url = id THEN <<url, url>> ELSE Becoming(None).fetch
           w == Fetches(again)
<1>1. /\ asked[k].op = "delete" /\ list' \in Kept(list, K) /\ active' = Becoming(None).active /\ shown' = shown
      /\ asked' = RemoveAt(asked, k) \o w
  BY DEF Deleted, Answered
<1>2. K \in SUBSET (1..Len(list)) /\ list \in Seq(E) /\ \A j \in 1..Len(list) : j \in K <=> list[j].id # id
  BY StoreIs
<1>3. /\ active' \in 0..Len(owners) /\ Fresh(w, who, Len(owners), changes)
      /\ \A j \in 1..Len(w) : w[j].op = "notes"
      /\ mounted => active' = None \/ (Len(w) > 0 /\ w[Len(w)].on = active')
  <2>1. None \in 0..Len(owners)
    BY StoreIs DEF None
  <2>2. CASE active = id /\ mounted /\ url = id
    <3>1. id \in 1..Len(owners)
      BY <1>1, StoreIs DEF Shaped
    <3>2. <<url, url>> \in Seq(1..Len(owners)) /\ Len(<<url, url>>) = 2 /\ <<url, url>>[2] = url
      BY <2>2, <3>1
    <3>3. /\ Fresh(w, who, Len(owners), changes) /\ Len(w) = Len(<<url, url>>)
          /\ \A j \in 1..Len(<<url, url>>) : w[j].op = "notes" /\ w[j].on = <<url, url>>[j]
      BY <2>2, <3>2, FetchesAre
    <3>4. Becoming(None).active \in 0..Len(owners)
      BY <2>1, BecomingIs
    <3>5. Becoming(None).active = url
      <4>1. id # None /\ url # None /\ None # active
        BY <2>2, <3>1, StoreIs DEF None
      <4>2. Becoming(None) = [active |-> url, fetch |-> <<>> \o <<url>>]
        BY <2>2, <4>1 DEF Becoming
      <4> QED BY <4>2
    <3> HIDE DEF w
    <3>6. 2 \in 1..Len(<<url, url>>) /\ Len(w) = 2
      BY <3>2, <3>3
    <3>7. \A j \in 1..Len(w) : w[j].op = "notes"
      BY <3>3
    <3>8. w[2].on = url
      BY <3>2, <3>3, <3>6
    <3> QED BY <1>1, <3>3, <3>4, <3>5, <3>6, <3>7, <3>8
  <2>3. CASE ~(active = id /\ mounted /\ url = id)
    <3>1. w = Fetches(Becoming(None).fetch)
      BY <2>3
    <3>2. /\ Becoming(None).active \in 0..Len(owners) /\ Fresh(w, who, Len(owners), changes)
          /\ mounted => Turned(w, active, Becoming(None).active)
          /\ mounted => \/ Becoming(None).active = None
                        \/ Len(w) > 0 /\ w[Len(w)].on = Becoming(None).active
      <4> HIDE DEF w
      <4> QED BY <2>1, <3>1, TurnedBecoming
    <3>3. \A j \in 1..Len(w) : w[j].op = "notes"
      <4>1. Becoming(None).fetch \in Seq(1..Len(owners))
        BY <2>1, BecomingIs
      <4> QED BY <3>1, <4>1, FetchesAre
    <3> QED BY <1>1, <3>2, <3>3
  <2> QED BY <2>2, <2>3
<1> DEFINE t == list'
<1> HIDE DEF w, again, K, E
<1>4. t \in Seq(E) /\ LeftOf(t, list, K)
  <2>1. t \in Kept(list, K) /\ K \in SUBSET (1..Len(list)) /\ list \in Seq(E)
    BY <1>1, <1>2
  <2> HIDE DEF t
  <2> QED BY <2>1, Filtered
<1>5. Leads(k, w)
  BY <1>1, <1>3, <1>4, StoreIs DEF Leads, E
<1>6. NotesTaking(asked[k], shown, shown')
  BY <1>1, SameNotesTaken DEF Is
<1>7. Taking(asked[k], list, list')
  <2>1. Is(asked[k], "delete") /\ ~Is(asked[k], "create") /\ Item(asked[k]) = id /\ \A i : ~Told(asked[k], i)
    BY <1>1 DEF Is, Item, Told
  <2> SUFFICES Taking(asked[k], list, t)
    OBVIOUS
  <2> HIDE DEF t
  <2>2. Ids(t) = Ids(list) \ {id}
    <3>1. ASSUME NEW x \in Ids(t) PROVE x \in Ids(list) /\ x # id
      <4>1. PICK i \in 1..Len(t) : x = t[i].id
        BY DEF Ids
      <4>2. PICK j \in K : t[i] = list[j]
        BY <1>4 DEF LeftOf
      <4> QED BY <1>2, <4>1, <4>2 DEF Ids
    <3>2. ASSUME NEW x \in Ids(list), x # id PROVE x \in Ids(t)
      <4>1. PICK j \in 1..Len(list) : x = list[j].id
        BY DEF Ids
      <4>2. PICK i \in 1..Len(t) : t[i] = list[j]
        BY <1>2, <1>4, <3>2, <4>1 DEF LeftOf
      <4> QED BY <4>1, <4>2 DEF Ids
    <3> QED BY <3>1, <3>2
  <2>3. ASSUME Descending(list) PROVE Descending(t)
    <3> SUFFICES ASSUME NEW i \in 1..Len(t), NEW j \in 1..Len(t), i < j PROVE t[i].id > t[j].id
      BY DEF Descending
    <3>1. PICK c, l \in K : c < l /\ t[i] = list[c] /\ t[j] = list[l]
      BY <1>4 DEF LeftOf
    <3> QED BY <1>2, <2>3, <3>1 DEF Descending
  <2>4. \A i \in 1..Len(t) : \E j \in 1..Len(list) : t[i] = list[j]
    BY <1>2, <1>4 DEF LeftOf
  <2> QED BY <2>1, <2>2, <2>3, <2>4 DEF Taking, Changed
<1>8. Takes(asked[k], w)
  BY <1>1, <1>3, <1>6, <1>7 DEF Takes, Is
<1> QED BY <1>5, <1>8

LEMMA ArriveDoes ==
    ASSUME Typed, Arrive
    PROVE  /\ \E k \in DOMAIN asked : \E w :
                /\ Leads(k, w)
                /\ ~disturbed' => ~disturbed /\ k = 1 /\ asked[1].done # "no" /\ Takes(asked[1], w)
           /\ disturbed' \in BOOLEAN
           /\ UNCHANGED <<who, api, mounted, url>>
<1>1. PICK k \in DOMAIN asked :
        \/ /\ asked[k].done = "yes"
           /\ \/ ListArrives(k) \/ Created(k) \/ Edited(k) \/ EntityEdited(k) \/ Deleted(k)
              \/ NotesArrive(k) \/ NoteCreated(k) \/ NoteDeleted(k)
        \/ asked[k].done = "refused" /\ Failed(k) /\ disturbed' = (disturbed \/ k # 1)
        \/ Failed(k) /\ disturbed' = TRUE
  BY DEF Arrive
<1>2. UNCHANGED <<who, api, mounted, url>>
  BY DEF Arrive
<1>3. CASE /\ asked[k].done = "yes"
           /\ \/ ListArrives(k) \/ Created(k) \/ Edited(k) \/ EntityEdited(k) \/ Deleted(k)
              \/ NotesArrive(k) \/ NoteCreated(k) \/ NoteDeleted(k)
  <2>1. disturbed' = (disturbed \/ k # 1)
    BY <1>3 DEF ListArrives, Created, Edited, EntityEdited, Deleted, NotesArrive, NoteCreated,
                NoteDeleted, Answered
  <2>2. \E w : Leads(k, w) /\ Takes(asked[k], w)
    BY <1>3, ListArrivesDoes, CreatedDoes, EditedDoes, EntityEditedDoes, DeletedDoes,
       NotesArriveDoes, NoteCreatedDoes, NoteDeletedDoes
  <2>3. disturbed' \in BOOLEAN /\ (~disturbed' => ~disturbed /\ k = 1)
    BY <2>1
  <2> QED BY <1>2, <1>3, <2>2, <2>3
<1>4. CASE asked[k].done = "refused" /\ Failed(k) /\ disturbed' = (disturbed \/ k # 1)
  <2>1. Leads(k, <<>>) /\ Takes(asked[k], <<>>)
    BY <1>4, FailedDoes
  <2>2. disturbed' \in BOOLEAN /\ (~disturbed' => ~disturbed /\ k = 1)
    BY <1>4
  <2> QED BY <1>2, <1>4, <2>1, <2>2
<1>5. CASE Failed(k) /\ disturbed' = TRUE
  <2>1. Leads(k, <<>>)
    BY <1>5, FailedDoes
  <2> QED BY <1>2, <1>5, <2>1
<1> QED BY <1>1, <1>3, <1>4, <1>5

\* The head of the queue was taken, and w joined.
LEMMA LeadsTo ==
    ASSUME Typed, NEW k \in DOMAIN asked, NEW w, Leads(k, w)
    PROVE  LET t == RemoveAt(asked, k)
           IN  /\ Queue(asked', Len(owners), changes)
               /\ Grown(t, w, asked', who) /\ (k = 1 => Popped(asked, t))
               /\ \A j \in Len(t) + 1..Len(asked') : asked'[j].op \in {"get", "notes"}
<1> DEFINE t == RemoveAt(asked, k)
<1>1. Queue(asked, Len(owners), changes) /\ Len(owners) \in Nat /\ changes \in Nat /\ asked \in Seq(Request)
  <2>1. Queue(asked, Len(owners), changes)
    BY DEF Typed
  <2> QED BY <2>1, StoreIs
<1>2. Queue(t, Len(owners), changes)
  BY <1>1, Taken
<1>3. k = 1 => Popped(asked, t)
  BY <1>1, Removed
<1>4. /\ Fresh(w, who, Len(owners), changes) /\ asked' = t \o w
      /\ \A j \in 1..Len(w) : w[j].op \in {"get", "notes"}
  BY DEF Leads
<1> HIDE DEF t
<1>5. Queue(asked', Len(owners), changes) /\ Grown(t, w, asked', who)
  BY <1>1, <1>2, <1>4, Sent
<1>6. \A j \in Len(t) + 1..Len(asked') : asked'[j].op \in {"get", "notes"}
  BY <1>4, <1>5 DEF Grown
<1> QED BY <1>3, <1>5, <1>6 DEF t

-----------------------------------------------------------------------------
(* The types are kept. *)

LEMMA TypedSent ==
    ASSUME Typed, NEW w, Fresh(w, who, Len(owners), changes), asked' = asked \o w,
           UNCHANGED <<who, api, list, shown>>,
           mounted' \in BOOLEAN, disturbed' \in BOOLEAN, mounted' => who # NoUser,
           active' \in 0..Len(owners), url' \in 0..Len(owners)
    PROVE  Typed'
<1>1. Queue(asked, Len(owners), changes) /\ Len(owners) \in Nat /\ changes \in Nat
  <2>1. Queue(asked, Len(owners), changes)
    BY DEF Typed
  <2> QED BY <2>1, StoreIs
<1>2. Queue(asked', Len(owners), changes)
  BY <1>1, Sent
<1> QED BY <1>2 DEF Typed, api

LEMMA OpenTyped == ASSUME Typed, Open PROVE Typed'
<1>1. /\ who # NoUser /\ mounted' = TRUE /\ disturbed' = (disturbed /\ asked # <<>>)
      /\ UNCHANGED <<who, api, list, shown>>
  BY DEF Open
<1>2. disturbed' \in BOOLEAN
  BY <1>1
<1> QED BY <1>1, <1>2, OpenDoes, TypedSent

LEMMA NavigateTyped == ASSUME Typed, Navigate PROVE Typed'
<1>1. mounted /\ UNCHANGED <<who, api, mounted, list, shown, disturbed>>
  BY DEF Navigate
<1>2. who # NoUser /\ mounted' \in BOOLEAN /\ disturbed' \in BOOLEAN
  BY <1>1 DEF Typed
<1> QED BY <1>1, <1>2, NavigateDoes, TypedSent

LEMMA SelectTyped == ASSUME Typed, Select PROVE Typed'
<1>1. mounted /\ UNCHANGED <<who, api, mounted, url, list, shown, disturbed>>
  BY DEF Select
<1>2. who # NoUser /\ mounted' \in BOOLEAN /\ disturbed' \in BOOLEAN /\ url' \in 0..Len(owners)
  BY <1>1 DEF Typed
<1> QED BY <1>1, <1>2, SelectDoes, TypedSent

LEMMA UseTyped == ASSUME Typed, Use PROVE Typed'
<1>1. mounted /\ UNCHANGED <<who, api, mounted, url, active, list, shown, disturbed>>
  BY DEF Use, screen
<1>2. /\ who # NoUser /\ mounted' \in BOOLEAN /\ disturbed' \in BOOLEAN
      /\ url' \in 0..Len(owners) /\ active' \in 0..Len(owners)
  BY <1>1 DEF Typed
<1> QED BY <1>1, <1>2, UseDoes, TypedSent

LEMMA ArriveTyped == ASSUME Typed, Arrive PROVE Typed'
<1>1. PICK k \in DOMAIN asked : \E w : Leads(k, w)
  BY ArriveDoes
<1>2. PICK w : Leads(k, w)
  BY <1>1
<1>3. disturbed' \in BOOLEAN /\ UNCHANGED <<who, api, mounted, url>>
  BY ArriveDoes
<1>4. Queue(asked', Len(owners), changes)
  BY <1>2, LeadsTo
<1>5. /\ list' \in Seq(Entries(Len(owners), changes)) /\ shown' \in Seq(Notes(Len(owners), changes))
      /\ active' \in 0..Len(owners)
  BY <1>2 DEF Leads
<1> QED BY <1>3, <1>4, <1>5 DEF Typed, api

\* The rest: who is signed in, and whether the page is shown.
LEMMA SessionTyped ==
    ASSUME Typed, Leave \/ SignIn \/ SignOut \/ Reload
    PROVE  Typed'
<1>1. Queue(<<>>, Len(owners), changes) /\ Len(owners) \in Nat
  BY StoreIs DEF Queue
<1>2. None \in 0..Len(owners)
  BY <1>1 DEF None
<1>3. CASE Leave
  BY <1>2, <1>3 DEF Leave, Typed, api, screen
<1>4. CASE SignIn
  <2>1. ~mounted /\ who' \in User
    BY <1>4 DEF SignIn, Typed
  <2> QED BY <1>4, <2>1 DEF SignIn, Typed, workspaceVars, api, screen
<1>5. CASE SignOut
  BY <1>2, <1>5 DEF SignOut, Typed, api, screen
<1>6. CASE Reload
  <2>1. /\ who' = who /\ owners' = owners /\ alive' = alive /\ version' = version
        /\ notes' = notes /\ changes' = changes
        /\ mounted' = FALSE /\ url' = None /\ active' = None /\ list' = <<>> /\ shown' = <<>>
        /\ asked' = <<>> /\ disturbed' = FALSE
    BY <1>6 DEF Reload, api
  <2>2. Queue(asked', Len(owners'), changes')
    BY <1>1, <2>1
  <2>3. list' \in Seq(Entries(Len(owners'), changes')) /\ shown' \in Seq(Notes(Len(owners'), changes'))
    BY <2>1
  <2> QED BY <1>2, <2>1, <2>2, <2>3 DEF Typed
<1> QED BY <1>3, <1>4, <1>5, <1>6

LEMMA TypedAnswered ==
    ASSUME Typed, NEW p, NEW a, Answers(p, a), UNCHANGED <<who, mounted, url, screen>>,
           disturbed' \in BOOLEAN
    PROVE  Typed'
<1>1. /\ ApiTyped' /\ Len(owners) <= Len(owners') /\ changes <= changes'
      /\ Queue(asked', Len(owners'), changes')
  BY DEF Answers
<1>2. Len(owners') \in Nat /\ changes' \in Nat /\ Len(owners) \in Nat /\ changes \in Nat
  BY <1>1, StoreIs, WorkspaceAssumption DEF ApiTyped
<1>3. /\ Seq(Entries(Len(owners), changes)) \subseteq Seq(Entries(Len(owners'), changes'))
      /\ Seq(Notes(Len(owners), changes)) \subseteq Seq(Notes(Len(owners'), changes'))
  BY <1>1, <1>2, ShapeKept
<1>4. /\ list' \in Seq(Entries(Len(owners'), changes')) /\ shown' \in Seq(Notes(Len(owners'), changes'))
      /\ active' = active /\ url' = url
  BY <1>3, StoreIs DEF screen
<1>5. url' \in 0..Len(owners') /\ active' \in 0..Len(owners')
  <2>1. url \in 0..Len(owners) /\ active \in 0..Len(owners)
    BY DEF Typed
  <2> QED BY <1>1, <1>2, <1>4, <2>1
<1>6. /\ who' \in User \cup {NoUser} /\ mounted' \in BOOLEAN /\ (mounted' => who' # NoUser)
  BY DEF Typed
<1> QED BY <1>1, <1>4, <1>5, <1>6 DEF Typed, ApiTyped

\* The API does the p-th request.
Serves(p) ==
    /\ p \in DOMAIN asked /\ asked[p].done = "no"
    /\ Read(p) \/ Create(p) \/ Edit(p) \/ Delete(p) \/ Annotate(p) \/ Unannotate(p) \/ NotTheirs(p)

LEMMA ServesDoes ==
    ASSUME Typed, NEW p, Serves(p)
    PROVE  \/ \E a : Answers(p, a)
           \/ NotTheirs(p) /\ api' = api /\ Queue(asked', Len(owners), changes) /\ OneChanged(asked, asked', p)
<1>1. p \in DOMAIN asked /\ asked[p].done = "no"
  BY DEF Serves
<1>2. CASE Read(p)
  BY <1>1, <1>2, ReadDoes
<1>3. CASE Create(p)
  BY <1>1, <1>3, CreateDoes
<1>4. CASE Edit(p)
  BY <1>1, <1>4, EditDoes
<1>5. CASE Delete(p)
  BY <1>1, <1>5, DeleteDoes
<1>6. CASE Annotate(p)
  BY <1>1, <1>6, AnnotateDoes
<1>7. CASE Unannotate(p)
  BY <1>1, <1>7, UnannotateDoes
<1>8. CASE NotTheirs(p)
  BY <1>1, <1>8, RefusedDoes
<1> QED BY <1>2, <1>3, <1>4, <1>5, <1>6, <1>7, <1>8 DEF Serves

LEMMA ServeDoes ==
    ASSUME Typed, Serve
    PROVE  /\ \E p : /\ Serves(p) /\ OneChanged(asked, asked', p)
                     /\ ~disturbed' => ~disturbed /\ \A j \in 1..p - 1 : asked[j].done # "no"
           /\ UNCHANGED <<who, mounted, url, screen>>
           /\ Typed'
<1>1. PICK p \in DOMAIN asked :
        /\ asked[p].done = "no"
        /\ Read(p) \/ Create(p) \/ Edit(p) \/ Delete(p) \/ Annotate(p) \/ Unannotate(p) \/ NotTheirs(p)
        /\ disturbed' = (disturbed \/ \E j \in 1..(p - 1) : asked[j].done = "no")
  BY DEF Serve
<1>2. UNCHANGED <<who, mounted, url, screen>>
  BY DEF Serve
<1>3. /\ disturbed' \in BOOLEAN
      /\ ~disturbed' => ~disturbed /\ \A j \in 1..p - 1 : asked[j].done # "no"
  BY <1>1
<1>4. Serves(p)
  BY <1>1 DEF Serves
<1>5. CASE \E a : Answers(p, a)
  <2>1. PICK a : Answers(p, a)
    BY <1>5
  <2>2. Typed'
    BY <1>2, <1>3, <2>1, TypedAnswered
  <2>3. OneChanged(asked, asked', p)
    BY <2>1 DEF Answers
  <2> QED BY <1>2, <1>3, <1>4, <2>2, <2>3
<1>6. CASE NotTheirs(p) /\ api' = api /\ Queue(asked', Len(owners), changes) /\ OneChanged(asked, asked', p)
  <2>1. Typed'
    BY <1>2, <1>3, <1>6 DEF Typed, api, screen
  <2> QED BY <1>2, <1>3, <1>4, <1>6, <2>1
<1> QED BY <1>4, <1>5, <1>6, ServesDoes

LEMMA InitTyped == ASSUME Init PROVE Typed
<1>1. <<>> \in Seq(User) /\ <<>> \in Seq(0..0) /\ Len(<<>>) = 0 /\ 0 \in 0..0
      /\ <<>> \in Seq(Entries(0, 0)) /\ <<>> \in Seq(Notes(0, 0)) /\ Queue(<<>>, 0, 0)
  BY DEF Queue
<1>2. IsFiniteSet({}) /\ {} \subseteq 1..0 /\ {} \subseteq Notes(0, 0)
  BY FS_EmptySet
<1>3. 0 \in 0..MaxChanges /\ 0 <= MaxMade
  BY WorkspaceAssumption
<1>4. /\ who = NoUser /\ owners = <<>> /\ alive = {} /\ version = <<>> /\ notes = {} /\ changes = 0
      /\ mounted = FALSE /\ url = 0 /\ active = 0 /\ list = <<>> /\ shown = <<>> /\ asked = <<>>
      /\ disturbed = FALSE
  BY DEF Init, None
<1> QED BY <1>1, <1>2, <1>3, <1>4 DEF Typed

LEMMA TypedStep == ASSUME Typed, [Next]_vars PROVE Typed'
<1>1. CASE Next
  <2>1. CASE Open \/ Navigate \/ Select \/ Use
    BY <2>1, OpenTyped, NavigateTyped, SelectTyped, UseTyped
  <2>2. CASE Serve \/ Arrive
    BY <2>2, ServeDoes, ArriveTyped
  <2>3. CASE Leave \/ SignIn \/ SignOut \/ Reload
    BY <2>3, SessionTyped
  <2> QED BY <1>1, <2>1, <2>2, <2>3 DEF Next
<1>2. CASE UNCHANGED vars
  BY <1>2 DEF Typed, vars, workspaceVars, api, screen
<1> QED BY <1>1, <1>2

-----------------------------------------------------------------------------
(* The order of the queue, and what the list and the notes come to. *)

Shows(i, O, N) == IF i \in O THEN {n \in N : n.of = i} ELSE {}

InOrder == ~disturbed => Ordered(asked)

ListFollows ==
    mounted /\ ~disturbed =>
      \E b \in 0..Len(asked) : ListAt(asked, b, list, who, Owned(alive, owners, who), version)

NotesFollow ==
    mounted /\ ~disturbed /\ active # None =>
      \E b \in 0..Len(asked) :
        NotesAt(asked, b, shown, who, active, Shows(active, Owned(alive, owners, who), notes))

LEMMA EmptyOrdered == Ordered(<<>>)
  BY DEF Ordered

\* What the user does: the queue grows by w.
LEMMA UserSends ==
    ASSUME Typed, Open \/ Navigate \/ Select \/ Use
    PROVE  \E w : Fresh(w, who, Len(owners), changes) /\ asked' = asked \o w
  BY OpenDoes, NavigateDoes, SelectDoes, UseDoes

LEMMA SentGrows ==
    ASSUME Typed, NEW w, Fresh(w, who, Len(owners), changes), asked' = asked \o w
    PROVE  Grown(asked, w, asked', who)
<1>1. Queue(asked, Len(owners), changes)
  BY DEF Typed
<1>2. Len(owners) \in Nat /\ changes \in Nat
  BY StoreIs
<1> QED BY <1>1, <1>2, Sent

LEMMA OrderStep == ASSUME Typed, InOrder, [Next]_vars PROVE InOrder'
<1> SUFFICES ASSUME ~disturbed' PROVE Ordered(asked')
  BY DEF InOrder
<1>1. CASE Open \/ Navigate \/ Select \/ Use
  <2>1. PICK w : Fresh(w, who, Len(owners), changes) /\ asked' = asked \o w
    BY <1>1, UserSends
  <2>2. Extended(asked, asked')
    BY <2>1, SentGrows DEF Grown
  <2>3. Ordered(asked)
    BY <1>1, EmptyOrdered DEF InOrder, Open, Navigate, Select, Use
  <2> QED BY <2>2, <2>3, OrderKept
<1>2. CASE Serve
  <2>1. PICK p : /\ Serves(p) /\ OneChanged(asked, asked', p)
                 /\ ~disturbed' => ~disturbed /\ \A j \in 1..p - 1 : asked[j].done # "no"
    BY <1>2, ServeDoes
  <2>2. Turn(asked, asked', p)
    BY <2>1 DEF Turn, InOrder
  <2> QED BY <2>1, <2>2, OrderKept DEF InOrder
<1>3. CASE Arrive
  <2>0. PICK k \in DOMAIN asked : \E w : Leads(k, w) /\ (~disturbed' => ~disturbed /\ k = 1)
    BY <1>3, ArriveDoes
  <2>1. PICK w : Leads(k, w) /\ (~disturbed' => ~disturbed /\ k = 1)
    BY <2>0
  <2>2. Popped(asked, RemoveAt(asked, k)) /\ Extended(RemoveAt(asked, k), asked')
    BY <2>1, LeadsTo DEF Grown
  <2>3. Ordered(asked)
    BY <2>1 DEF InOrder
  <2> QED BY <2>2, <2>3, OrderKept
<1>4. CASE Leave \/ SignIn \/ SignOut
  BY <1>4 DEF InOrder, Leave, SignIn, SignOut, workspaceVars
<1>5. CASE Reload
  BY <1>5, EmptyOrdered DEF Reload
<1>6. CASE UNCHANGED vars
  BY <1>6 DEF InOrder, vars, workspaceVars
<1> QED BY <1>1, <1>2, <1>3, <1>4, <1>5, <1>6 DEF Next

LEMMA OwnIsOwned == ASSUME NEW u PROVE Own(u) = Owned(alive, owners, u)
  BY DEF Own, Owned

\* The p-th request is u's.  What the API does with it, as far as u's list goes.
ListEffect(q, r, u, O, OO, v, vv, new) ==
    /\ q.op = "list" =>
         /\ r.done = "yes" /\ Ids(r.answer) = OO /\ Descending(r.answer)
         /\ \A k \in 1..Len(r.answer) : r.answer[k].version = vv[r.answer[k].id]
    /\ q.op # "list" =>
         /\ Changed(r, O, OO, "create", "delete")
         /\ Is(r, "create") => Item(r) = new
         /\ \A i \in OO : \/ WillTell(r, i)
                          \/ Told(r, i) /\ r.answer[1].version = vv[i]
                          \/ ~Told(r, i) /\ ~WillTell(q, i) /\ i \in O /\ vv[i] = v[i]

LEMMA ListEffectIs ==
    ASSUME Typed, NEW p, Serves(p), NEW u, u # NoUser, asked[p].as = u
    PROVE  ListEffect(asked[p], asked'[p], u, Owned(alive, owners, u), Owned(alive', owners', u),
                      version, version', Len(owners) + 1)
<1> DEFINE q == asked[p]
           r == asked'[p]
           O == Owned(alive, owners, u)
           OO == Owned(alive', owners', u)
           new == Len(owners) + 1
<1>1. p \in DOMAIN asked /\ asked[p].done = "no"
  BY DEF Serves
<1>2. Own(u) = O
  BY OwnIsOwned
<1>3. \A i \in O : i \in 1..Len(owners)
  BY <1>2, VersionIs
<1> SUFFICES ListEffect(q, r, u, O, OO, version, version', new)
  OBVIOUS
<1>4. \A a : Answers(p, a) => r.op = q.op /\ r.on = q.on /\ r.done = "yes" /\ r.answer = a
  BY DEF Answers, OneChanged
<1>5. CASE Read(p)
  <2>1. /\ api' = api
        /\ \E a : /\ Answers(p, a)
                  /\ \/ q.op = "list" /\ a \in OwnLists(u)
                     \/ q.op = "notes"
                     \/ q.op = "get" /\ q.on \in Own(u) /\ a = <<Version(q.on)>>
    BY <1>1, <1>5, ReadDoes
  <2>2. PICK a : /\ Answers(p, a)
                 /\ \/ q.op = "list" /\ a \in OwnLists(u)
                    \/ q.op = "notes"
                    \/ q.op = "get" /\ q.on \in Own(u) /\ a = <<Version(q.on)>>
    BY <2>1
  <2>3. OO = O /\ version' = version
    BY <2>1 DEF api
  <2>4. CASE q.op = "list" /\ a \in OwnLists(u)
    <3>1. Ids(a) = Own(u) /\ Descending(a) /\ \A k \in 1..Len(a) : a[k].version = version[a[k].id]
      BY <2>4, OwnListIs
    <3>2. r.done = "yes" /\ r.answer = a
      BY <1>4, <2>2
    <3> HIDE DEF q, r, O, OO
    <3> QED BY <1>2, <2>3, <2>4, <3>1, <3>2 DEF ListEffect
  <2>5. CASE q.op = "notes"
    <3>1. r.op = "notes"
      BY <1>4, <2>2, <2>5
    <3> HIDE DEF q, r, O, OO
    <3> QED BY <2>3, <2>5, <3>1 DEF ListEffect, Changed, Is, Told, WillTell
  <2>6. CASE q.op = "get" /\ q.on \in Own(u) /\ a = <<Version(q.on)>>
    <3>1. r.op = "get" /\ r.done = "yes" /\ r.answer[1].id = q.on /\ r.answer[1].version = version[q.on]
      BY <1>4, <2>2, <2>6 DEF Version
    <3> HIDE DEF q, r, O, OO
    <3> QED BY <2>3, <2>6, <3>1 DEF ListEffect, Changed, Is, Told, WillTell
  <2> QED BY <2>2, <2>4, <2>5, <2>6
<1>6. CASE Create(p)
  <2>1. /\ q.op = "create"
        /\ version'[new] = 0 /\ \A i \in 1..Len(owners) : version'[i] = version[i]
        /\ OO = O \cup {new}
        /\ \E a : Answers(p, a) /\ a[1].id = new /\ a[1].version = 0
    BY <1>1, <1>2, <1>6, CreateDoes
  <2>2. r.op = "create" /\ r.done = "yes" /\ r.answer[1].id = new /\ r.answer[1].version = 0
    BY <1>4, <2>1
  <2>3. \A i \in O : i # new
    BY <1>3, StoreIs
  <2> HIDE DEF q, r, O, OO, new
  <2>4. Item(r) = new
    BY <2>2 DEF Item
  <2> QED BY <1>3, <2>1, <2>2, <2>3, <2>4 DEF ListEffect, Changed, Is, Told, WillTell
<1>7. CASE Edit(p)
  <2>1. /\ q.op \in {"update", "entity"}
        /\ version'[q.on] = version[q.on] + 1
        /\ \A j \in 1..Len(owners) : j # q.on => version'[j] = version[j]
        /\ OO = O
        /\ \E a : Answers(p, a) /\ a[1].id = q.on /\ a[1].version = version[q.on] + 1
    BY <1>1, <1>7, EditDoes
  <2>2. /\ r.op = q.op /\ r.done = "yes" /\ r.on = q.on
        /\ r.answer[1].id = q.on /\ r.answer[1].version = version'[q.on]
    BY <1>4, <2>1
  <2> HIDE DEF q, r, O, OO
  <2> QED BY <1>3, <2>1, <2>2 DEF ListEffect, Changed, Is, Told, WillTell
<1>8. CASE Delete(p)
  <2>1. /\ q.op = "delete" /\ alive' = alive \ {q.on} /\ owners' = owners /\ version' = version
        /\ Answers(p, <<>>)
    BY <1>1, <1>8, DeleteDoes
  <2>2. r.op = "delete" /\ r.done = "yes" /\ r.on = q.on
    BY <1>4, <2>1
  <2>3. OO = O \ {q.on}
    BY <2>1 DEF Owned
  <2> HIDE DEF q, r, O, OO
  <2>4. Item(r) = q.on
    BY <2>2 DEF Item
  <2> QED BY <2>1, <2>2, <2>3, <2>4 DEF ListEffect, Changed, Is, Told, WillTell
<1>9. CASE Annotate(p) \/ Unannotate(p)
  <2>1. /\ q.op \in {"note", "unnote"} /\ alive' = alive /\ owners' = owners /\ version' = version
        /\ \E a : Answers(p, a)
    BY <1>1, <1>9, AnnotateDoes, UnannotateDoes
  <2>2. r.op = q.op /\ OO = O
    BY <1>4, <2>1
  <2> HIDE DEF q, r, O, OO
  <2> QED BY <2>1, <2>2 DEF ListEffect, Changed, Is, Told, WillTell
<1>10. CASE NotTheirs(p)
  <2>1. /\ api' = api /\ r.done = "refused"
        /\ \/ q.op \notin {"list", "notes", "create", "unnote"} /\ q.on \notin Own(u)
           \/ q.op = "unnote"
    BY <1>1, <1>10, RefusedDoes
  <2>2. OO = O /\ version' = version
    BY <2>1 DEF api
  <2> HIDE DEF q, r, O, OO
  <2> QED BY <1>2, <2>1, <2>2 DEF ListEffect, Changed, Is, Told, WillTell
<1> QED BY <1>5, <1>6, <1>7, <1>8, <1>9, <1>10 DEF Serves

LEMMA ItemsBelow ==
    ASSUME Typed, NEW k \in 1..Len(asked), Is(asked[k], "create") \/ Is(asked[k], "delete")
    PROVE  Item(asked[k]) \in 1..Len(owners)
<1>1. Shaped(asked[k], Len(owners), changes)
  BY StoreIs
<1>2. CASE Is(asked[k], "create")
  <2>1. asked[k].answer[1] \in Entries(Len(owners), changes)
    BY <1>1, <1>2 DEF Shaped, Is
  <2> QED BY <1>2, <2>1 DEF Item, Is, Entries
<1>3. CASE Is(asked[k], "delete")
  BY <1>1, <1>3 DEF Shaped, Is, Item
<1> QED BY <1>2, <1>3

LEMMA IdsBelow ==
    ASSUME Typed, NEW b \in 0..Len(asked), b > 0 => Is(asked[b], "list")
    PROVE  \A x \in Ids(Base(asked, b, list)) : x \in 1..Len(owners)
<1> DEFINE s == Base(asked, b, list)
<1>1. s \in Seq(Entries(Len(owners), changes))
  <2>1. CASE b = 0
    BY <2>1, StoreIs DEF Base
  <2>2. CASE b > 0
    BY <2>2, StoreIs DEF Base, Is, Shaped
  <2> QED BY <2>1, <2>2
<1> HIDE DEF s
<1>2. \A k \in 1..Len(s) : s[k] \in Entries(Len(owners), changes)
  BY <1>1
<1>3. \A x \in Ids(s) : x \in 1..Len(owners)
  BY <1>2 DEF Ids, Entries
<1> QED BY <1>3 DEF s

LEMMA ListServeStep ==
    ASSUME Typed, NEW p, Serves(p), Turn(asked, asked', p), who # NoUser,
           NEW b, ListAt(asked, b, list, who, Owned(alive, owners, who), version)
    PROVE  ListAt(asked', b, list, who, Owned(alive', owners', who), version')
<1> DEFINE q == asked
           r == asked'
           O == Owned(alive, owners, who)
           OO == Owned(alive', owners', who)
           new == Len(owners) + 1
           vv == version'
<1>1. /\ b \in 0..Len(q) /\ Len(q) \in Nat /\ p \in 1..Len(q)
      /\ b > 0 => q[b].op = "list" /\ q[b].done # "refused"
      /\ \A k \in After(q, b) : q[k].op # "list"
      /\ p >= b => q[p].as = who
      /\ \A j \in 1..p - 1 : q[j].done # "no"
  BY DEF ListAt, Since, Turn, OneChanged
<1>2. p >= b => ListEffect(q[p], r[p], who, O, OO, version, vv, new)
  BY <1>1, ListEffectIs
<1>3. new \in Nat /\ \A x \in 1..Len(owners) : x < new /\ x # new
  BY StoreIs
<1> HIDE DEF O, OO, new, vv, r
<1>4. p = b => /\ r[p].done = "yes" /\ Ids(r[p].answer) = OO /\ Descending(r[p].answer)
               /\ \A k \in 1..Len(r[p].answer) : r[p].answer[k].version = vv[r[p].answer[k].id]
  BY <1>1, <1>2 DEF ListEffect
<1>5. ASSUME p > b
      PROVE  /\ Changed(r[p], O, OO, "create", "delete")
             /\ Is(r[p], "create") =>
                  /\ \A x \in Ids(Base(q, b, list)) : x < Item(r[p]) /\ x # Item(r[p])
                  /\ \A k \in After(q, b) : Is(q[k], "create") => Item(q[k]) < Item(r[p])
                  /\ \A k \in After(q, b) :
                       Is(q[k], "create") \/ Is(q[k], "delete") => Item(q[k]) # Item(r[p])
             /\ \A i \in OO : \/ WillTell(r[p], i)
                              \/ Told(r[p], i) /\ r[p].answer[1].version = vv[i]
                              \/ /\ ~Told(r[p], i) /\ ~WillTell(q[p], i)
                                 /\ i \in O /\ vv[i] = version[i]
  <2>1. p \in After(q, b) /\ p >= b /\ (b > 0 => b \in 1..p - 1)
    BY <1>1, <1>5 DEF After
  <2>2. ListEffect(q[p], r[p], who, O, OO, version, vv, new) /\ q[p].op # "list"
    BY <1>1, <1>2, <2>1
  <2>3. b > 0 => Is(q[b], "list")
    <3>1. b > 0 => b \in DOMAIN asked /\ asked[b] \in Request
      BY <1>1, StoreIs
    <3>2. b > 0 => asked[b].done \in {"no", "yes", "refused"}
      BY <3>1 DEF Request
    <3> QED BY <1>1, <2>1, <3>2 DEF Is
  <2>4. \A x \in Ids(Base(q, b, list)) : x \in 1..Len(owners)
    BY <1>1, <2>3, IdsBelow
  <2>5. \A k \in After(q, b) : Is(q[k], "create") \/ Is(q[k], "delete") => Item(q[k]) \in 1..Len(owners)
    <3>1. \A k \in After(q, b) : k \in 1..Len(q)
      BY <1>1 DEF After
    <3> QED BY <3>1, ItemsBelow
  <2>6. Is(r[p], "create") => Item(r[p]) = new
    BY <2>2 DEF ListEffect
  <2> QED BY <1>3, <2>2, <2>4, <2>5, <2>6 DEF ListEffect
<1>6. ListAt(q, b, list, who, O, version) /\ Turn(q, r, p)
  BY DEF O, r
<1> HIDE DEF q
<1>7. ListAt(r, b, list, who, OO, vv)
  BY <1>4, <1>5, <1>6, ListServed
<1> QED BY <1>7 DEF OO, vv, r

LEMMA ListStep == ASSUME Typed, InOrder, ListFollows, [Next]_vars PROVE ListFollows'
<1> DEFINE O == Owned(alive, owners, who)
<1> SUFFICES ASSUME mounted', ~disturbed'
             PROVE  \E b \in 0..Len(asked') :
                      ListAt(asked', b, list', who', Owned(alive', owners', who'), version')
  BY DEF ListFollows
<1>1. CASE Open
  <2>1. PICK w : /\ Fresh(w, who, Len(owners), changes) /\ asked' = asked \o w
                 /\ Len(w) > 0 /\ w[1].op = "list" /\ \A k \in 2..Len(w) : w[k].op = "notes"
    BY <1>1, OpenDoes
  <2>2. Grown(asked, w, asked', who)
    BY <2>1, SentGrows
  <2>3. who' = who /\ alive' = alive /\ owners' = owners /\ version' = version /\ list' = list
    BY <1>1 DEF Open, api
  <2>4. /\ Extended(asked, asked') /\ Len(asked') > Len(asked)
        /\ asked'[Len(asked) + 1].op = "list"
        /\ \A k \in Len(asked) + 1..Len(asked') : asked'[k].as = who
    BY <2>1, <2>2 DEF Grown
  <2>5. \A k \in Len(asked) + 2..Len(asked') : asked'[k].op # "list"
    <3>1. \A k \in Len(asked) + 2..Len(asked') : k \in Len(asked) + 1..Len(asked') /\ k - Len(asked) \in 2..Len(w)
      BY <2>2 DEF Grown
    <3> QED BY <2>1, <2>2, <3>1 DEF Grown
  <2> HIDE DEF O
  <2> QED BY <2>3, <2>4, <2>5, ListAsked
<1>2. CASE Navigate \/ Select \/ Use
  <2>1. /\ mounted /\ ~disturbed
        /\ who' = who /\ alive' = alive /\ owners' = owners /\ version' = version /\ list' = list
    <3>1. CASE Navigate
      BY <3>1 DEF Navigate, api
    <3>2. CASE Select
      BY <3>2 DEF Select, api
    <3>3. CASE Use
      BY <3>3 DEF Use, api, screen
    <3> QED BY <1>2, <3>1, <3>2, <3>3
  <2>2. \E w : /\ Fresh(w, who, Len(owners), changes) /\ asked' = asked \o w
               /\ \A k \in 1..Len(w) : w[k].op # "list"
    <3>1. CASE Navigate \/ Select
      BY <3>1, NavigateDoes, SelectDoes DEF Turned
    <3>2. CASE Use
      BY <3>2, UseDoes
    <3> QED BY <1>2, <3>1, <3>2
  <2>3. PICK w : /\ Fresh(w, who, Len(owners), changes) /\ asked' = asked \o w
                 /\ \A k \in 1..Len(w) : w[k].op # "list"
    BY <2>2
  <2>4. Grown(asked, w, asked', who)
    BY <2>3, SentGrows
  <2>5. Extended(asked, asked') /\ \A k \in Len(asked) + 1..Len(asked') : asked'[k].op # "list" /\ asked'[k].as = who
    BY <2>3, <2>4 DEF Grown
  <2>6. PICK b : ListAt(asked, b, list, who, O, version)
    BY <2>1 DEF ListFollows
  <2> HIDE DEF O
  <2>7. ListAt(asked', b, list, who, O, version)
    BY <2>5, <2>6, ListExtended
  <2>8. b \in 0..Len(asked')
    BY <2>7 DEF ListAt, Since
  <2> QED BY <2>1, <2>7, <2>8 DEF O
<1>3. CASE Serve
  <2>1. PICK p : /\ Serves(p) /\ OneChanged(asked, asked', p)
                 /\ ~disturbed' => ~disturbed /\ \A j \in 1..p - 1 : asked[j].done # "no"
    BY <1>3, ServeDoes
  <2>2. who' = who /\ mounted' = mounted /\ list' = list
    BY <1>3, ServeDoes DEF screen
  <2>3. Turn(asked, asked', p)
    BY <2>1 DEF Turn, InOrder
  <2>4. PICK b : ListAt(asked, b, list, who, O, version)
    BY <2>1, <2>2 DEF ListFollows
  <2>5. who # NoUser
    BY <2>2 DEF Typed
  <2>6. ListAt(asked', b, list, who, Owned(alive', owners', who), version')
    BY <2>1, <2>3, <2>4, <2>5, ListServeStep
  <2>7. b \in 0..Len(asked')
    BY <2>6 DEF ListAt, Since
  <2> QED BY <2>2, <2>6, <2>7
<1>4. CASE Arrive
  <2>1. PICK k \in DOMAIN asked : \E w :
               /\ Leads(k, w)
               /\ ~disturbed' => ~disturbed /\ k = 1 /\ asked[1].done # "no" /\ Takes(asked[1], w)
    BY <1>4, ArriveDoes
  <2>2. PICK w : Leads(k, w) /\ ~disturbed /\ k = 1 /\ asked[1].done # "no" /\ Takes(asked[1], w)
    BY <2>1
  <2>3. /\ who' = who /\ mounted' = mounted
        /\ alive' = alive /\ owners' = owners /\ version' = version
    BY <1>4, ArriveDoes DEF api
  <2> DEFINE t == RemoveAt(asked, k)
  <2>4. /\ Grown(t, w, asked', who) /\ Popped(asked, t)
        /\ \A j \in Len(t) + 1..Len(asked') : asked'[j].op \in {"get", "notes"}
    BY <2>2, LeadsTo
  <2> HIDE DEF t
  <2>5. PICK b : ListAt(asked, b, list, who, O, version)
    BY <2>2, <2>3 DEF ListFollows
  <2>6. /\ Extended(t, asked')
        /\ \A j \in Len(t) + 1..Len(asked') : asked'[j].op # "list" /\ asked'[j].as = who
    BY <2>4 DEF Grown
  <2>7. asked[1].done \in {"yes", "refused"}
    <3>1. asked[1] \in Request
      BY <2>2, StoreIs
    <3> QED BY <2>2, <3>1 DEF Request
  <2>8. /\ Is(asked[1], "list") => list' = asked[1].answer
        /\ asked[1].op # "list" => Taking(asked[1], list, list')
    BY <2>2 DEF Takes
  <2>9. Is(asked[1], "entity") => \E j \in Len(t) + 1..Len(asked') : WillTell(asked'[j], asked[1].on)
    BY <2>2, <2>4 DEF Takes, Grown
  <2> HIDE DEF O
  <2>10. \E c \in 0..Len(asked') : ListAt(asked', c, list', who, O, version)
    BY <2>4, <2>5, <2>6, <2>7, <2>8, <2>9, ListPopped
  <2> QED BY <2>3, <2>10 DEF O
<1>5. CASE Leave \/ SignIn \/ SignOut \/ Reload
  BY <1>5 DEF Leave, SignIn, SignOut, Reload, workspaceVars, Typed
<1>6. CASE UNCHANGED vars
  BY <1>6 DEF ListFollows, vars, workspaceVars, api, screen
<1> QED BY <1>1, <1>2, <1>3, <1>4, <1>5, <1>6 DEF Next

\* Likewise as far as the notes of a go, T, which become TT; new is the number of a new note.
NotesEffect(q, r, a, T, TT, new) ==
    /\ q.op = "notes" /\ q.on = a => r.done = "yes" /\ ToSet(r.answer) = TT /\ IsInjective(r.answer)
    /\ q.op # "notes" /\ (q.op = "note" => q.on = a) =>
         \/ Is(r, "delete") /\ r.on = a
         \/ Changed(r, T, TT, "note", "unnote") /\ (Is(r, "note") => Item(r).n = new)

LEMMA NotesEffectIs ==
    ASSUME Typed, NEW p, Serves(p), NEW u, u # NoUser, asked[p].as = u, NEW a \in 0..Len(owners)
    PROVE  NotesEffect(asked[p], asked'[p], a, Shows(a, Owned(alive, owners, u), notes),
                       Shows(a, Owned(alive', owners', u), notes'), changes + 1)
<1> DEFINE q == asked[p]
           r == asked'[p]
           O == Owned(alive, owners, u)
           OO == Owned(alive', owners', u)
           T == Shows(a, O, notes)
           TT == Shows(a, OO, notes')
           new == changes + 1
<1>1. p \in DOMAIN asked /\ asked[p].done = "no"
  BY DEF Serves
<1>2. Own(u) = O
  BY OwnIsOwned
<1> SUFFICES NotesEffect(q, r, a, T, TT, new)
  OBVIOUS
<1>4. \A x : Answers(p, x) => r.op = q.op /\ r.on = q.on /\ r.done = "yes" /\ r.answer = x
  BY DEF Answers, OneChanged
<1>5. CASE Read(p)
  <2>1. /\ api' = api
        /\ \E x : /\ Answers(p, x)
                  /\ \/ q.op \in {"list", "get"}
                     \/ q.op = "notes" /\ x = SetToSeq(IF q.on \in Own(u) THEN NotesOf(q.on) ELSE {})
    BY <1>1, <1>5, ReadDoes
  <2>2. PICK x : /\ Answers(p, x)
                 /\ \/ q.op \in {"list", "get"}
                    \/ q.op = "notes" /\ x = SetToSeq(IF q.on \in Own(u) THEN NotesOf(q.on) ELSE {})
    BY <2>1
  <2>3. TT = T
    BY <2>1 DEF api
  <2>4. CASE q.op \in {"list", "get"}
    <3>1. r.op = q.op
      BY <1>4, <2>2
    <3> HIDE DEF q, r, T, TT
    <3> QED BY <2>3, <2>4, <3>1 DEF NotesEffect, Changed, Is
  <2>5. CASE q.op = "notes" /\ x = SetToSeq(IF q.on \in Own(u) THEN NotesOf(q.on) ELSE {})
    <3>1. ASSUME q.on = a PROVE ToSet(x) = T /\ IsInjective(x)
      <4>1. T = IF a \in Own(u) THEN NotesOf(a) ELSE {}
        BY <1>2 DEF Shows, NotesOf
      <4>2. IsFiniteSet(IF a \in Own(u) THEN NotesOf(a) ELSE {})
        BY NotesOfAre
      <4> HIDE DEF T, q
      <4>3. IsFiniteSet(T) /\ x = SetToSeq(T)
        BY <2>5, <3>1, <4>1, <4>2
      <4> QED BY <4>3, AsSequence
    <3>2. r.done = "yes" /\ r.answer = x
      BY <1>4, <2>2
    <3> HIDE DEF q, r, T, TT
    <3> QED BY <2>3, <2>5, <3>1, <3>2 DEF NotesEffect
  <2> QED BY <2>2, <2>4, <2>5
<1>6. CASE Create(p)
  <2>1. /\ q.op = "create" /\ notes' = notes
        /\ OO = O \cup {Len(owners) + 1}
        /\ \E x : Answers(p, x)
    BY <1>1, <1>2, <1>6, CreateDoes
  <2>2. r.op = "create"
    BY <1>4, <2>1
  <2>3. a # Len(owners) + 1
    BY StoreIs
  <2>4. TT = T
    BY <2>1, <2>3 DEF Shows
  <2> HIDE DEF q, r, T, TT
  <2> QED BY <2>1, <2>2, <2>4 DEF NotesEffect, Changed, Is
<1>7. CASE Edit(p)
  <2>1. /\ q.op \in {"update", "entity"} /\ notes' = notes /\ OO = O
        /\ \E x : Answers(p, x)
    BY <1>1, <1>7, EditDoes
  <2>2. r.op = q.op /\ TT = T
    BY <1>4, <2>1
  <2> HIDE DEF q, r, T, TT
  <2> QED BY <2>1, <2>2 DEF NotesEffect, Changed, Is
<1>8. CASE Delete(p)
  <2>1. /\ q.op = "delete" /\ alive' = alive \ {q.on} /\ owners' = owners
        /\ notes' = notes \ NotesOf(q.on)
        /\ Answers(p, <<>>)
    BY <1>1, <1>8, DeleteDoes
  <2>2. r.op = "delete" /\ r.done = "yes" /\ r.on = q.on
    BY <1>4, <2>1
  <2>3. a # q.on => TT = T
    BY <2>1 DEF Shows, Owned, NotesOf
  <2> HIDE DEF q, r, T, TT
  <2> QED BY <2>1, <2>2, <2>3 DEF NotesEffect, Changed, Is
<1>9. CASE Annotate(p)
  <2> DEFINE note == [of |-> q.on, n |-> new]
  <2>1. /\ q.op = "note" /\ q.on \in Own(u) /\ notes' = notes \cup {note}
        /\ alive' = alive /\ owners' = owners
        /\ Answers(p, <<note>>)
    BY <1>1, <1>9, AnnotateDoes
  <2>2. r.op = "note" /\ r.done = "yes" /\ r.answer[1] = note
    BY <1>4, <2>1
  <2>3. q.on = a => TT = T \cup {note}
    BY <1>2, <2>1 DEF Shows
  <2>4. Item(r) = note /\ note.n = new
    BY <2>2 DEF Item
  <2> HIDE DEF q, r, T, TT, note
  <2> QED BY <2>1, <2>2, <2>3, <2>4 DEF NotesEffect, Changed, Is
<1>10. CASE Unannotate(p)
  <2>1. /\ q.op = "unnote" /\ notes' = notes \ {q.on} /\ alive' = alive /\ owners' = owners
        /\ Answers(p, <<>>)
    BY <1>1, <1>10, UnannotateDoes
  <2>2. r.op = "unnote" /\ r.done = "yes" /\ r.on = q.on
    BY <1>4, <2>1
  <2>3. TT = T \ {q.on}
    BY <2>1 DEF Shows
  <2>4. Item(r) = q.on
    BY <2>2 DEF Item
  <2> HIDE DEF q, r, T, TT
  <2> QED BY <2>1, <2>2, <2>3, <2>4 DEF NotesEffect, Changed, Is
<1>11. CASE NotTheirs(p)
  <2>1. api' = api /\ r.done = "refused" /\ q.op # "notes"
    BY <1>1, <1>11, RefusedDoes
  <2>2. TT = T
    BY <2>1 DEF api
  <2> HIDE DEF q, r, T, TT
  <2> QED BY <2>1, <2>2 DEF NotesEffect, Changed, Is
<1> QED BY <1>5, <1>6, <1>7, <1>8, <1>9, <1>10, <1>11 DEF Serves

LEMMA NoteItems ==
    ASSUME Typed, NEW k \in 1..Len(asked), Is(asked[k], "note") \/ Is(asked[k], "unnote")
    PROVE  Item(asked[k]).n \in 1..changes
<1>1. Shaped(asked[k], Len(owners), changes)
  BY StoreIs
<1>2. CASE Is(asked[k], "note")
  <2>1. asked[k].answer[1] \in Notes(Len(owners), changes)
    BY <1>1, <1>2 DEF Shaped, Is
  <2> QED BY <1>2, <2>1 DEF Item, Is, Notes
<1>3. CASE Is(asked[k], "unnote")
  <2>1. asked[k].on \in Notes(Len(owners), changes)
    BY <1>1, <1>3 DEF Shaped, Is
  <2> QED BY <1>3, <2>1 DEF Item, Is, Notes
<1> QED BY <1>2, <1>3

LEMMA NotesBelow ==
    ASSUME Typed, NEW b \in 0..Len(asked), b > 0 => Is(asked[b], "notes")
    PROVE  \A x \in ToSet(Base(asked, b, shown)) : x.n \in 1..changes
<1> DEFINE s == Base(asked, b, shown)
<1>1. s \in Seq(Notes(Len(owners), changes))
  <2>1. CASE b = 0
    BY <2>1, StoreIs DEF Base
  <2>2. CASE b > 0
    BY <2>2, StoreIs DEF Base, Is, Shaped
  <2> QED BY <2>1, <2>2
<1> HIDE DEF s
<1>2. DOMAIN s = 1..Len(s) /\ \A k \in 1..Len(s) : s[k] \in Notes(Len(owners), changes)
  BY <1>1
<1>3. \A x \in ToSet(s) : x.n \in 1..changes
  BY <1>2 DEF ToSet, Notes
<1> QED BY <1>3 DEF s

LEMMA NotesServeStep ==
    ASSUME Typed, NEW p, Serves(p), Turn(asked, asked', p), who # NoUser,
           NEW b, NotesAt(asked, b, shown, who, active, Shows(active, Owned(alive, owners, who), notes))
    PROVE  NotesAt(asked', b, shown, who, active, Shows(active, Owned(alive', owners', who), notes'))
<1> DEFINE q == asked
           r == asked'
           T == Shows(active, Owned(alive, owners, who), notes)
           TT == Shows(active, Owned(alive', owners', who), notes')
           new == changes + 1
<1>1. /\ b \in 0..Len(q) /\ Len(q) \in Nat /\ p \in 1..Len(q)
      /\ b > 0 => q[b].op = "notes" /\ q[b].done # "refused" /\ q[b].on = active
      /\ \A k \in After(q, b) : q[k].op # "notes" /\ (q[k].op = "note" => q[k].on = active)
      /\ p >= b => q[p].as = who
      /\ \A j \in 1..p - 1 : q[j].done # "no"
  BY DEF NotesAt, Since, Turn, OneChanged
<1>2. p >= b => NotesEffect(q[p], r[p], active, T, TT, new)
  <2>1. active \in 0..Len(owners)
    BY StoreIs
  <2> QED BY <1>1, <2>1, NotesEffectIs
<1>3. new \in Nat /\ \A x \in 1..changes : x # new
  BY StoreIs
<1> HIDE DEF T, TT, new, r
<1>4. p = b => r[p].done = "yes" /\ ToSet(r[p].answer) = TT /\ IsInjective(r[p].answer)
  BY <1>1, <1>2 DEF NotesEffect
<1>5. ASSUME p > b
      PROVE  \/ Is(r[p], "delete") /\ r[p].on = active
             \/ /\ Changed(r[p], T, TT, "note", "unnote")
                /\ Is(r[p], "note") =>
                     /\ Item(r[p]) \notin ToSet(Base(q, b, shown))
                     /\ \A k \in After(q, b) :
                          Is(q[k], "note") \/ Is(q[k], "unnote") => Item(q[k]) # Item(r[p])
  <2>1. p \in After(q, b) /\ p >= b /\ (b > 0 => b \in 1..p - 1)
    BY <1>1, <1>5 DEF After
  <2>2. \/ Is(r[p], "delete") /\ r[p].on = active
        \/ Changed(r[p], T, TT, "note", "unnote") /\ (Is(r[p], "note") => Item(r[p]).n = new)
    BY <1>1, <1>2, <2>1 DEF NotesEffect
  <2>3. b > 0 => Is(q[b], "notes")
    <3>1. b > 0 => b \in DOMAIN asked /\ asked[b] \in Request
      BY <1>1, StoreIs
    <3>2. b > 0 => asked[b].done \in {"no", "yes", "refused"}
      BY <3>1 DEF Request
    <3> QED BY <1>1, <2>1, <3>2 DEF Is
  <2>4. \A x \in ToSet(Base(q, b, shown)) : x.n \in 1..changes
    BY <1>1, <2>3, NotesBelow
  <2>5. \A k \in After(q, b) : Is(q[k], "note") \/ Is(q[k], "unnote") => Item(q[k]).n \in 1..changes
    <3>1. \A k \in After(q, b) : k \in 1..Len(q)
      BY <1>1 DEF After
    <3> QED BY <3>1, NoteItems
  <2> QED BY <1>3, <2>2, <2>4, <2>5
<1>6. NotesAt(q, b, shown, who, active, T) /\ Turn(q, r, p)
  BY DEF T, r
<1> HIDE DEF q
<1>7. NotesAt(r, b, shown, who, active, TT)
  BY <1>4, <1>5, <1>6, NotesServed
<1> QED BY <1>7 DEF TT, r

LEMMA NotesStep == ASSUME Typed, InOrder, NotesFollow, [Next]_vars PROVE NotesFollow'
<1> DEFINE T == Shows(active, Owned(alive, owners, who), notes)
<1> SUFFICES ASSUME mounted', ~disturbed', active' # None
             PROVE  \E b \in 0..Len(asked') :
                      NotesAt(asked', b, shown', who', active',
                              Shows(active', Owned(alive', owners', who'), notes'))
  BY DEF NotesFollow
<1>1. ASSUME NEW w, Fresh(w, who, Len(owners), changes), asked' = asked \o w, who' = who,
             Len(w) > 0, w[Len(w)].op = "notes", w[Len(w)].on = active'
      PROVE  \E b \in 0..Len(asked') :
               NotesAt(asked', b, shown', who', active',
                       Shows(active', Owned(alive', owners', who'), notes'))
  <2>1. Grown(asked, w, asked', who)
    BY <1>1, SentGrows
  <2>2. /\ Extended(asked, asked') /\ Len(asked') > Len(asked)
        /\ \A k \in Len(asked) + 1..Len(asked') : asked'[k].as = who
        /\ Len(w) \in 1..Len(w) /\ Len(asked) + Len(w) = Len(asked')
    BY <1>1, <2>1 DEF Grown
  <2>3. asked'[Len(asked')].op = "notes" /\ asked'[Len(asked')].on = active'
    BY <1>1, <2>1, <2>2 DEF Grown
  <2> QED BY <1>1, <2>2, <2>3, NotesAsked
<1>2. ASSUME NEW w, Fresh(w, who, Len(owners), changes), asked' = asked \o w, mounted, ~disturbed,
             \A k \in 1..Len(w) : w[k].op # "notes" /\ (w[k].op = "note" => w[k].on = active),
             active' = active, shown' = shown, UNCHANGED <<who, api>>
      PROVE  \E b \in 0..Len(asked') :
               NotesAt(asked', b, shown', who', active',
                       Shows(active', Owned(alive', owners', who'), notes'))
  <2>1. PICK b : NotesAt(asked, b, shown, who, active, T)
    BY <1>2 DEF NotesFollow
  <2>2. Grown(asked, w, asked', who)
    BY <1>2, SentGrows
  <2>3. /\ Extended(asked, asked')
        /\ \A k \in Len(asked) + 1..Len(asked') :
             asked'[k].op # "notes" /\ asked'[k].as = who /\ (asked'[k].op = "note" => asked'[k].on = active)
    BY <1>2, <2>2 DEF Grown
  <2> HIDE DEF T
  <2>4. NotesAt(asked', b, shown, who, active, T)
    BY <2>1, <2>3, NotesExtended
  <2>5. b \in 0..Len(asked')
    BY <2>4 DEF NotesAt, Since
  <2> QED BY <1>2, <2>4, <2>5 DEF T, api
<1>3. CASE Open
  <2>1. PICK w : /\ Fresh(w, who, Len(owners), changes) /\ asked' = asked \o w
                 /\ Len(w) > 0 /\ w[1].op = "list" /\ \A k \in 2..Len(w) : w[k].op = "notes"
                 /\ active' # None => Len(w) > 1 /\ w[Len(w)].on = active'
    BY <1>3, OpenDoes
  <2>2. Len(w) \in Nat
    BY <2>1, SentGrows DEF Grown
  <2>3. w[Len(w)].op = "notes"
    BY <2>1, <2>2
  <2>4. who' = who
    BY <1>3 DEF Open
  <2> QED BY <1>1, <2>1, <2>2, <2>3, <2>4
<1>4. CASE Navigate \/ Select
  <2>1. mounted /\ ~disturbed /\ shown' = shown /\ UNCHANGED <<who, api>>
    <3>1. CASE Navigate
      BY <3>1 DEF Navigate
    <3>2. CASE Select
      BY <3>2 DEF Select
    <3> QED BY <1>4, <3>1, <3>2
  <2>2. PICK w : /\ Fresh(w, who, Len(owners), changes) /\ asked' = asked \o w
                 /\ Turned(w, active, active')
    BY <1>4, NavigateDoes, SelectDoes
  <2>3. Len(w) \in Nat
    BY <2>2, SentGrows DEF Grown
  <2>4. CASE Len(w) = 0 /\ active' = active
    BY <1>2, <2>1, <2>2, <2>4
  <2>5. CASE Len(w) > 0 /\ w[Len(w)].on = active'
    BY <1>1, <2>1, <2>2, <2>3, <2>5 DEF Turned
  <2> QED BY <2>2, <2>4, <2>5 DEF Turned
<1>5. CASE Use
  <2>1. mounted /\ ~disturbed /\ active' = active /\ shown' = shown /\ UNCHANGED <<who, api>>
    BY <1>5 DEF Use, screen
  <2>2. PICK w : /\ Fresh(w, who, Len(owners), changes) /\ asked' = asked \o w
                 /\ Len(w) = 1 /\ w[1].op \notin {"list", "notes"}
                 /\ w[1].op = "note" => w[1].on = active
    BY <1>5, UseDoes
  <2>3. \A k \in 1..Len(w) : w[k].op # "notes" /\ (w[k].op = "note" => w[k].on = active)
    BY <2>2
  <2> QED BY <1>2, <2>1, <2>2, <2>3
<1>6. CASE Serve
  <2>1. PICK p : /\ Serves(p) /\ OneChanged(asked, asked', p)
                 /\ ~disturbed' => ~disturbed /\ \A j \in 1..p - 1 : asked[j].done # "no"
    BY <1>6, ServeDoes
  <2>2. who' = who /\ mounted' = mounted /\ shown' = shown /\ active' = active
    BY <1>6, ServeDoes DEF screen
  <2>3. Turn(asked, asked', p)
    BY <2>1 DEF Turn, InOrder
  <2>4. PICK b : NotesAt(asked, b, shown, who, active, T)
    BY <2>1, <2>2 DEF NotesFollow
  <2>5. who # NoUser
    BY <2>2 DEF Typed
  <2>6. NotesAt(asked', b, shown, who, active, Shows(active, Owned(alive', owners', who), notes'))
    BY <2>1, <2>3, <2>4, <2>5, NotesServeStep
  <2>7. b \in 0..Len(asked')
    BY <2>6 DEF NotesAt, Since
  <2> QED BY <2>2, <2>6, <2>7
<1>7. CASE Arrive
  <2>1. PICK k \in DOMAIN asked : \E w :
               /\ Leads(k, w)
               /\ ~disturbed' => ~disturbed /\ k = 1 /\ asked[1].done # "no" /\ Takes(asked[1], w)
    BY <1>7, ArriveDoes
  <2>2. PICK w : Leads(k, w) /\ ~disturbed /\ k = 1 /\ asked[1].done # "no" /\ Takes(asked[1], w)
    BY <2>1
  <2>3. /\ who' = who /\ mounted' = mounted
        /\ alive' = alive /\ owners' = owners /\ notes' = notes
    BY <1>7, ArriveDoes DEF api
  <2> DEFINE t == RemoveAt(asked, k)
  <2>4. /\ Grown(t, w, asked', who) /\ Popped(asked, t)
        /\ \A j \in Len(t) + 1..Len(asked') : asked'[j].op \in {"get", "notes"}
    BY <2>2, LeadsTo
  <2> HIDE DEF t
  <2>5. Extended(t, asked') /\ \A j \in Len(t) + 1..Len(asked') : asked'[j].as = who
    BY <2>4 DEF Grown
  <2>6. CASE Len(w) > 0 /\ w[Len(w)].op = "notes" /\ w[Len(w)].on = active'
    <3>1. Len(w) \in 1..Len(w) /\ Len(t) + Len(w) = Len(asked') /\ Len(asked') > Len(t)
      BY <2>4, <2>6 DEF Grown
    <3>2. asked'[Len(asked')].op = "notes" /\ asked'[Len(asked')].on = active'
      BY <2>4, <2>6, <3>1 DEF Grown
    <3> QED BY <2>3, <2>5, <3>1, <3>2, NotesAsked
  <2>7. CASE ~Is(asked[1], "delete") /\ active' = active /\ \A j \in 1..Len(w) : w[j].op # "notes"
    <3>1. PICK b : NotesAt(asked, b, shown, who, active, T)
      BY <2>2, <2>3, <2>7 DEF NotesFollow
    <3>2. asked[1].done \in {"yes", "refused"}
      <4>1. asked[1] \in Request
        BY <2>2, StoreIs
      <4> QED BY <2>2, <4>1 DEF Request
    <3>3. NotesTaking(asked[1], shown, shown')
      BY <2>2 DEF Takes
    <3> HIDE DEF T
    <3>4. PICK c \in 0..Len(t) : NotesAt(t, c, shown', who, active, T)
      BY <2>4, <2>7, <3>1, <3>2, <3>3, NotesPopped
    <3>5. \A j \in Len(t) + 1..Len(asked') :
            asked'[j].op # "notes" /\ asked'[j].as = who /\ (asked'[j].op = "note" => asked'[j].on = active)
      BY <2>4, <2>5, <2>7 DEF Grown
    <3>6. NotesAt(asked', c, shown', who, active, T)
      BY <2>5, <3>4, <3>5, NotesExtended
    <3>7. c \in 0..Len(asked')
      BY <3>6 DEF NotesAt, Since
    <3> QED BY <2>3, <2>7, <3>6, <3>7 DEF T
  <2> QED BY <2>2, <2>3, <2>6, <2>7 DEF Takes
<1>8. CASE Leave \/ SignIn \/ SignOut \/ Reload
  BY <1>8 DEF Leave, SignIn, SignOut, Reload, workspaceVars, Typed
<1>9. CASE UNCHANGED vars
  BY <1>9 DEF NotesFollow, vars, workspaceVars, api, screen
<1> QED BY <1>3, <1>4, <1>5, <1>6, <1>7, <1>8, <1>9 DEF Next

-----------------------------------------------------------------------------
(* The theorems. *)

IInv == Typed /\ InOrder /\ ListFollows /\ NotesFollow

LEMMA IInvHolds == Spec => []IInv
<1>1. Init => IInv
  <2> SUFFICES ASSUME Init PROVE IInv
    OBVIOUS
  <2>1. Typed
    BY InitTyped
  <2>2. asked = <<>> /\ mounted = FALSE
    BY DEF Init
  <2> QED BY <2>1, <2>2, EmptyOrdered DEF IInv, InOrder, ListFollows, NotesFollow
<1>2. IInv /\ [Next]_vars => IInv'
  BY TypedStep, OrderStep, ListStep, NotesStep DEF IInv
<1> QED BY <1>1, <1>2, PTL DEF Spec

\* The users and the API's investigations, changes and notes, and what the store holds of
\* them, are what WorkspaceTypeOK says: an answer, however late, and whoever is signed in
\* by then, puts nothing into the store that was never made.
THEOREM WorkspaceTypeCorrect == Spec => []WorkspaceTypeOK
<1>1. Typed => WorkspaceTypeOK
  <2> SUFFICES ASSUME Typed PROVE WorkspaceTypeOK
    OBVIOUS
  <2>1. /\ who \in User \cup {NoUser} /\ owners \in Seq(User) /\ Len(owners) <= MaxMade
        /\ alive \subseteq Made /\ changes \in 0..MaxChanges
        /\ mounted \in BOOLEAN /\ disturbed \in BOOLEAN
        /\ version \in Seq(0..changes) /\ Len(version) = Len(owners)
        /\ notes \subseteq Notes(Len(owners), changes)
    BY DEF Typed, Made
  <2>2. changes \in Nat /\ MaxChanges \in Nat /\ changes <= MaxChanges
    BY <2>1, WorkspaceAssumption
  <2>3. /\ 0..changes \subseteq 0..MaxChanges
        /\ Entries(Len(owners), changes) \subseteq [id : Made, version : 0..MaxChanges]
        /\ Notes(Len(owners), changes) \subseteq [of : Made, n : 1..MaxChanges]
    BY <2>2 DEF Entries, Notes, Made
  <2>4. version \in [Made -> 0..MaxChanges]
    BY <2>1, <2>3 DEF Made
  <2>5. url \in Made \cup {None} /\ active \in Made \cup {None}
    <3>1. url \in 0..Len(owners) /\ active \in 0..Len(owners) /\ Len(owners) \in Nat
      BY DEF Typed
    <3> QED BY <3>1 DEF Made, None
  <2>6. /\ list \in Seq([id : Made, version : 0..MaxChanges])
        /\ shown \in Seq([of : Made, n : 1..MaxChanges])
    BY <2>3, StoreIs, SeqOfMore
  <2> QED BY <2>1, <2>3, <2>4, <2>5, <2>6 DEF WorkspaceTypeOK
<1> QED BY <1>1, IInvHolds, PTL DEF IInv

\* The list of a page at rest is the API's list for the user who is signed in, whatever was
\* done since the page was opened, if the requests were handled and answered in turn.
THEOREM ListStaysTheirs == Spec => []ListIsTheirs
<1>1. IInv => ListIsTheirs
  <2> SUFFICES ASSUME IInv, mounted, asked = <<>>, ~disturbed PROVE list \in OwnLists(who)
    BY DEF ListIsTheirs, Settled
  <2>1. PICK b \in 0..Len(asked) : ListAt(asked, b, list, who, Owned(alive, owners, who), version)
    BY DEF IInv, ListFollows
  <2>2. b = 0 /\ \A k : k \notin After(asked, 0)
    BY <2>1 DEF After
  <2>3. ListKept(asked, 0, list, Own(who), version)
    BY <2>1, <2>2, OwnIsOwned DEF ListAt, Waits, Base
  <2>4. /\ Ids(list) = Own(who) /\ Descending(list)
        /\ \A i \in Own(who) : \A k \in 1..Len(list) : list[k].id = i => list[k].version = version[i]
    BY <2>2, <2>3 DEF ListKept, Match, Latest, WillBeTold, LastTold, Untold
  <2>5. \A k \in 1..Len(list) : list[k].version = version[list[k].id]
    BY <2>4 DEF Ids
  <2>6. list \in Seq(Entries(Len(owners), changes)) /\ Typed
    BY StoreIs DEF IInv
  <2> QED BY <2>4, <2>5, <2>6, OwnListIs
<1> QED BY <1>1, IInvHolds, PTL

\* The notes of a page at rest are those of the active investigation, each of them once, and
\* none if it is another user's or is deleted, again if all was handled in turn.
THEOREM NotesStayOfActive == Spec => []NotesAreOfActive
<1>1. IInv => NotesAreOfActive
  <2> DEFINE T == IF active \in Own(who) THEN NotesOf(active) ELSE {}
  <2> SUFFICES ASSUME IInv, mounted, asked = <<>>, ~disturbed, active # None
               PROVE  ToSet(shown) = T /\ IsInjective(shown)
    BY DEF NotesAreOfActive, Settled
  <2>1. PICK b \in 0..Len(asked) :
          NotesAt(asked, b, shown, who, active, Shows(active, Owned(alive, owners, who), notes))
    BY DEF IInv, NotesFollow
  <2>2. b = 0 /\ (\A k : k \notin After(asked, 0)) /\ ~Dropped(asked, active)
    BY <2>1 DEF After, Dropped
  <2>3. Shows(active, Owned(alive, owners, who), notes) = T
    BY OwnIsOwned DEF Shows, NotesOf
  <2> HIDE DEF T
  <2>4. Match(asked, 0, ToSet(shown), T, "note", "unnote") /\ IsInjective(shown)
    BY <2>1, <2>2, <2>3 DEF NotesAt, Waits, Base
  <2> QED BY <2>2, <2>4 DEF Match
<1> QED BY <1>1, IInvHolds, PTL

=============================================================================
