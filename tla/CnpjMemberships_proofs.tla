----------------------- MODULE CnpjMemberships_proofs -----------------------
(***************************************************************************)
(* Proofs about CnpjMemberships for any files, processes, dates and sizes  *)
(* of batches: when no process was cut short or overlapped another, the    *)
(* view has every partner with a dated row, and is what the rebuild would  *)
(* make of the history.                                                    *)
(***************************************************************************)
EXTENDS CnpjMemberships, FiniteSetTheorems, WellFoundedInduction, TLAPS

(* The first and the last of some positions. *)
LEMMA LeastNatural ==
    ASSUME NEW T \in SUBSET Nat, T # {}
    PROVE  \E n \in T : \A m \in T : n <= m
<1>1. PICK n \in T : \A m \in T : ~(<<m, n>> \in OpToRel(<, Nat))
  BY NatLessThanWellFounded, WFMin
<1>2. ASSUME NEW m \in T PROVE n <= m
  <2>1. <<m, n>> \in OpToRel(<, Nat) <=> m < n
    BY DEF OpToRel
  <2>2. ~(m < n)
    BY <1>1, <2>1
  <2>3. m \in Nat /\ n \in Nat
    OBVIOUS
  <2> QED BY <2>2, <2>3
<1> QED BY <1>2

LEMMA LastPosition ==
    ASSUME NEW N \in Nat, NEW T \in SUBSET (1 .. N), T # {}
    PROVE  Max(T) \in T
<1> DEFINE U == {n \in Nat : \A t \in T : t <= n}
<1>1. N \in U
  OBVIOUS
<1>2. PICK n \in U : \A m \in U : n <= m
  BY <1>1, LeastNatural
<1>3. n \in T
  <2>1. PICK t \in T : TRUE
    OBVIOUS
  <2>2. CASE n \notin T
    <3>1. n - 1 \in U
      BY <1>2, <2>1, <2>2
    <3> QED BY <1>2, <3>1
  <2> QED BY <2>2
<1>4. \E x \in T : \A y \in T : x >= y
  BY <1>2, <1>3
<1> QED BY <1>4 DEF Max

-----------------------------------------------------------------------------
(* The first row of a pair in the order of the projection. *)
Ahead(rows, i, j) == Newer(rows[i], rows[j]) \/ (~Newer(rows[j], rows[i]) /\ i <= j)

LEMMA RowsAre ==
    ASSUME NEW rows \in Seq(Row)
    PROVE  \A k \in 1 .. Len(rows) :
             /\ rows[k] \in Row /\ rows[k] # NoRow
             /\ rows[k].pair \in Pair /\ rows[k].snap \in Nat /\ rows[k].entry \in Nat
<1>1. \A k \in 1 .. Len(rows) : rows[k] \in Row
  OBVIOUS
<1>2. \A x \in Row : x # NoRow /\ x.pair \in Pair /\ x.snap \in Nat /\ x.entry \in Nat
  BY CnpjAssumption DEF Row
<1> QED BY <1>1, <1>2

LEMMA AheadIsOrder ==
    ASSUME NEW rows \in Seq(Row), NEW i \in 1 .. Len(rows), NEW j \in 1 .. Len(rows)
    PROVE  /\ Ahead(rows, i, j) \/ Ahead(rows, j, i)
           /\ Ahead(rows, i, j) /\ Ahead(rows, j, i) => i = j
           /\ \A k \in 1 .. Len(rows) :
                Ahead(rows, i, j) /\ Ahead(rows, j, k) => Ahead(rows, i, k)
<1>1. \A k \in 1 .. Len(rows) : rows[k].snap \in Nat /\ rows[k].entry \in Nat
  BY RowsAre
<1>2. Len(rows) \in Nat /\ i \in Nat /\ j \in Nat
  OBVIOUS
<1>3. Ahead(rows, i, j) \/ Ahead(rows, j, i)
  BY <1>1, <1>2 DEF Ahead, Newer
<1>4. Ahead(rows, i, j) /\ Ahead(rows, j, i) => i = j
  BY <1>1, <1>2 DEF Ahead, Newer
<1>5. ASSUME NEW k \in 1 .. Len(rows), Ahead(rows, i, j), Ahead(rows, j, k)
      PROVE  Ahead(rows, i, k)
  BY <1>1, <1>2, <1>5 DEF Ahead, Newer
<1> QED BY <1>3, <1>4, <1>5

LEMMA InProjection ==
    ASSUME NEW rows, NEW k
    PROVE  k \in LatestProjection(rows) <=>
             /\ k \in 1 .. Len(rows)
             /\ \A j \in 1 .. Len(rows) : rows[j].pair = rows[k].pair => Ahead(rows, k, j)
  BY DEF LatestProjection, Ahead

\* The projection has a row of every pair of the file.
LEMMA ProjectionHasPair ==
    ASSUME NEW rows \in Seq(Row), NEW k \in 1 .. Len(rows)
    PROVE  \E i \in LatestProjection(rows) : rows[i].pair = rows[k].pair
<1> DEFINE Of(n) == {j \in 1 .. n : rows[j].pair = rows[k].pair}
           Best(n) == {i \in Of(n) : \A j \in Of(n) : Ahead(rows, i, j)}
           Without == {n \in 1 .. Len(rows) : Of(n) # {} /\ Best(n) = {}}
<1>1. Len(rows) \in Nat
  OBVIOUS
<1>2. Without = {}
  <2> SUFFICES ASSUME Without # {} PROVE FALSE
    OBVIOUS
  <2>1. PICK n \in Without : \A m \in Without : n <= m
    <3>1. Without \in SUBSET Nat
      BY <1>1
    <3> HIDE DEF Without
    <3> QED BY <3>1, LeastNatural
  <2>2. n \in 1 .. Len(rows) /\ Of(n) # {} /\ Best(n) = {} /\ n - 1 \notin Without
    <3>1. n \in 1 .. Len(rows) /\ Of(n) # {} /\ Best(n) = {}
      OBVIOUS
    <3>2. n - 1 \notin Without
      <4>1. n \in Nat
        BY <1>1, <3>1
      <4> HIDE DEF Without
      <4> QED BY <2>1, <4>1
    <3> QED BY <3>1, <3>2
  <2>3. \A j \in Of(n) : j \in 1 .. Len(rows) /\ (j = n \/ j \in Of(n - 1))
    BY <1>1, <2>2
  <2>4. \A j \in Of(n - 1) : j \in Of(n)
    BY <1>1, <2>2
  <2>5. CASE Of(n - 1) = {}
    <3>1. n \in Of(n) /\ \A j \in Of(n) : j = n
      BY <2>2, <2>3, <2>5
    <3>2. Ahead(rows, n, n)
      BY <2>2, AheadIsOrder
    <3> QED BY <2>2, <3>1, <3>2
  <2>6. CASE Of(n - 1) # {}
    <3>1. n - 1 \in 1 .. Len(rows)
      <4>1. PICK j \in Of(n - 1) : TRUE
        BY <2>6
      <4> QED BY <1>1, <2>2, <4>1
    <3>2. PICK i \in Best(n - 1) : TRUE
      BY <2>2, <2>6, <3>1
    <3>3. i \in Of(n) /\ i \in 1 .. Len(rows)
      BY <2>3, <2>4, <3>2
    <3>4. PICK l \in Of(n) : ~Ahead(rows, i, l)
      BY <2>2, <3>3
    <3>5. l = n
      BY <2>3, <3>2, <3>4
    <3>6. Ahead(rows, n, i)
      BY <2>2, <3>3, <3>4, <3>5, AheadIsOrder
    <3>7. ASSUME NEW j \in Of(n) PROVE Ahead(rows, n, j)
      <4>1. CASE j = n
        BY <2>2, <4>1, AheadIsOrder
      <4>2. CASE j \in Of(n - 1)
        <5>1. Ahead(rows, i, j) /\ j \in 1 .. Len(rows)
          BY <2>3, <3>2, <4>2
        <5> HIDE DEF Of, Best
        <5> QED BY <2>2, <3>3, <3>6, <5>1, AheadIsOrder
      <4> QED BY <2>3, <4>1, <4>2
    <3> QED BY <2>2, <3>4, <3>5, <3>7
  <2> QED BY <2>5, <2>6
<1>3. k \in Of(Len(rows)) /\ Len(rows) \in 1 .. Len(rows)
  BY <1>1
<1>4. PICK i \in Of(Len(rows)) : \A j \in Of(Len(rows)) : Ahead(rows, i, j)
  BY <1>2, <1>3
<1> QED BY <1>4, InProjection

-----------------------------------------------------------------------------
(* Where a running process is in its plan. *)
Streams(p) == p.job.history /\ p.job.streaming
Projects(p) == p.job.history /\ ~p.job.streaming
Rebuilds(p) == Streams(p) /\ p.left["rebuild"] # {}

InPlan(p) ==
    /\ p.left["socio"] \subseteq 1 .. Len(p.job.rows)
    /\ p.left["snapshot"] \subseteq 1 .. Len(p.job.rows)
    /\ Projects(p) => p.left["socio"] \subseteq LatestProjection(p.job.rows)
    /\ ~p.job.history => p.left["snapshot"] = {}
    /\ Streams(p) => p.left["socio"] = {}
    /\ p.left["snapshot"] # {} /\ Streams(p) => p.left["wipe"] # {}
    /\ p.left["wipe"] # {} => Rebuilds(p)
    /\ p.left["rebuild"] # {} => Streams(p)

Working(p) == p.job \in Jobs /\ p.left \in [Kinds -> SUBSET Nat] /\ InPlan(p)

Typed == TypeOK /\ \A r \in Running : Working(proc[r])

\* A commit of the given kind that writes ks.
Committed(p, q, kind, ks) == q.job = p.job /\ q.left = [p.left EXCEPT ![kind] = @ \ ks]
Due(p, kind) == p.left[kind] # {} /\ \A k \in Before[kind] : p.left[k] = {}

-----------------------------------------------------------------------------
(* What the view and the history are when no process was cut short or     *)
(* overlapped another.  D are the processes that are done.                 *)
Orderly == ~overlap /\ \A r \in Run : proc[r].pc # "cut"
Done == {d \in Run : proc[d].pc = "done"}

Projected(view, S) == \A x \in S : x.snap # 0 => view[x.pair] # NoRow
IsLatest(view, S) == \A x \in S : x.snap # 0 => view[x.pair] \in Rebuilt(x.pair, S)

\* A pair of the file is in the view, or will be.
FileProjected(p, view) ==
    \A k \in 1 .. Len(p.job.rows) :
      \/ view[p.job.rows[k].pair] # NoRow
      \/ \E i \in p.left["socio"] : p.job.rows[i].pair = p.job.rows[k].pair

\* What the first process has written so far.
First(p, view, S) ==
    /\ ~p.job.history => S = {}
    /\ Projects(p) =>
         /\ S = {p.job.rows[k] : k \in (1 .. Len(p.job.rows)) \ p.left["snapshot"]}
         /\ \A i \in LatestProjection(p.job.rows) \ p.left["socio"] :
              view[p.job.rows[i].pair] = p.job.rows[i]

Progress(p, view, S, b, D) ==
    /\ Projected(view, S) \/ Rebuilds(p)
    /\ b => IsLatest(view, S) \/ Rebuilds(p)
    /\ Projects(p) => FileProjected(p, view)
    /\ Projects(p) /\ b => p.left["socio"] = LatestProjection(p.job.rows)
    /\ Streams(p) => b \/ Rebuilds(p)
    /\ D = {} => First(p, view, S)

AtRest(view, S, b, D) ==
    /\ Projected(view, S)
    /\ b => IsLatest(view, S)
    /\ D = {} => view = [p \in Pair |-> NoRow] /\ S = {}
    /\ \A d \in Run : D = {d} => IsLatest(view, S)

InTurn ==
    Orderly =>
      \/ Running = {} /\ AtRest(socio, snapshots, rebuilt, Done)
      \/ \E r \in Run : /\ Running = {r}
                        /\ Progress(proc[r], socio, snapshots, rebuilt, Done)

-----------------------------------------------------------------------------
(* Every commit keeps it. *)
LEMMA Planned ==
    ASSUME NEW job \in Jobs, NEW p, p.job = job,
           p.left = IF job.streaming THEN StreamPlan(job) ELSE BatchPlan(job)
    PROVE  /\ Working(p)
           /\ Projects(p) => /\ p.left["socio"] = LatestProjection(job.rows)
                             /\ p.left["snapshot"] = 1 .. Len(job.rows)
           /\ Streams(p) => p.left["rebuild"] # {}
<1>1. job.history \in BOOLEAN /\ job.streaming \in BOOLEAN /\ job.rows \in Seq(Row)
  BY CnpjAssumption
<1>2. /\ LatestProjection(job.rows) \subseteq 1 .. Len(job.rows)
      /\ LatestProjection(job.rows) \in SUBSET Nat
      /\ 1 .. Len(job.rows) \in SUBSET Nat /\ {0} \in SUBSET Nat /\ {} \in SUBSET Nat
  BY <1>1, InProjection
<1> DEFINE L == LatestProjection(job.rows)
           N == 1 .. Len(job.rows)
<1>3. p.left \in [Kinds -> SUBSET Nat]
  BY <1>2 DEF StreamPlan, BatchPlan, Plan, Kinds
<1>4. /\ p.left["socio"] = IF job.history THEN IF job.streaming THEN {} ELSE L ELSE N
      /\ p.left["snapshot"] = IF job.history THEN N ELSE {}
      /\ p.left["wipe"] = IF job.history /\ job.streaming THEN {0} ELSE {}
      /\ p.left["rebuild"] = IF job.history /\ job.streaming THEN {0} ELSE {}
  BY <1>1 DEF StreamPlan, BatchPlan, Plan
<1> HIDE DEF L, N
<1>5. L \subseteq N
  BY <1>2 DEF L, N
<1>6. InPlan(p)
  BY <1>1, <1>4, <1>5 DEF InPlan, Projects, Streams, Rebuilds, L, N
<1> QED BY <1>1, <1>3, <1>4, <1>6 DEF Working, Projects, Streams, L, N

LEMMA CommittedIs ==
    ASSUME NEW p, Working(p), NEW kind \in Kinds, Due(p, kind), NEW ks,
           NEW q, Committed(p, q, kind, ks), kind \in {"wipe", "rebuild"} => ks = {0}
    PROVE  /\ Working(q)
           /\ Projects(q) = Projects(p) /\ Streams(q) = Streams(p)
           /\ q.left[kind] = p.left[kind] \ ks
           /\ \A k \in Kinds \ {kind} : q.left[k] = p.left[k]
<1>1. /\ p.left \in [Kinds -> SUBSET Nat] /\ q.job = p.job
      /\ q.left = [p.left EXCEPT ![kind] = @ \ ks]
  BY DEF Working, Committed
<1>2. /\ q.left \in [Kinds -> SUBSET Nat]
      /\ q.left[kind] = p.left[kind] \ ks
      /\ \A k \in Kinds \ {kind} : q.left[k] = p.left[k]
  BY <1>1
<1>3. Projects(q) = Projects(p) /\ Streams(q) = Streams(p)
  BY <1>1 DEF Projects, Streams
<1>4. InPlan(q)
  <2>1. CASE kind = "socio"
    BY <1>1, <1>2, <1>3, <2>1 DEF Working, InPlan, Rebuilds, Kinds
  <2>2. CASE kind = "snapshot"
    BY <1>1, <1>2, <1>3, <2>2 DEF Working, InPlan, Rebuilds, Kinds
  <2>3. CASE kind = "wipe"
    BY <1>1, <1>2, <1>3, <2>3 DEF Working, InPlan, Rebuilds, Kinds, Due, Before
  <2>4. CASE kind = "rebuild"
    BY <1>1, <1>2, <1>3, <2>4 DEF Working, InPlan, Rebuilds, Kinds, Due, Before
  <2> QED BY <2>1, <2>2, <2>3, <2>4 DEF Kinds
<1> QED BY <1>1, <1>2, <1>3, <1>4 DEF Working

\* The view w is view after the rows at ks.
Overwritten(w, view, rows, ks) ==
    /\ w \in [Pair -> Row \cup {NoRow}]
    /\ \A c \in Pair : \/ \E k \in ks : rows[k].pair = c /\ w[c] = rows[k]
                       \/ w[c] = view[c] /\ \A k \in ks : rows[k].pair # c

LEMMA Overwrites ==
    ASSUME NEW rows \in Seq(Row), NEW ks \in SUBSET (1 .. Len(rows)),
           NEW view \in [Pair -> Row \cup {NoRow}]
    PROVE  LET of(c) == {k \in ks : rows[k].pair = c}
           IN  Overwritten([c \in Pair |-> IF of(c) = {} THEN view[c] ELSE rows[Max(of(c))]],
                           view, rows, ks)
<1> DEFINE of(c) == {k \in ks : rows[k].pair = c}
           w == [c \in Pair |-> IF of(c) = {} THEN view[c] ELSE rows[Max(of(c))]]
<1>1. ASSUME NEW c \in Pair, of(c) # {} PROVE Max(of(c)) \in of(c)
  <2>1. Len(rows) \in Nat
    OBVIOUS
  <2>2. of(c) \in SUBSET (1 .. Len(rows))
    OBVIOUS
  <2> HIDE DEF of
  <2> QED BY <1>1, <2>1, <2>2, LastPosition
<1>2. \A k \in ks : rows[k] \in Row
  BY RowsAre
<1>3. ASSUME NEW c \in Pair
      PROVE  /\ w[c] \in Row \cup {NoRow}
             /\ \/ \E k \in ks : rows[k].pair = c /\ w[c] = rows[k]
                \/ w[c] = view[c] /\ \A k \in ks : rows[k].pair # c
  <2>1. CASE of(c) = {}
    BY <2>1
  <2>2. CASE of(c) # {}
    <3>1. Max(of(c)) \in of(c)
      BY <1>1, <2>2
    <3>2. w[c] = rows[Max(of(c))]
      BY <2>2
    <3> QED BY <1>2, <3>1, <3>2
  <2> QED BY <2>1, <2>2
<1> QED BY <1>3 DEF Overwritten

\* A load of SOCIO_DE: no partner is lost, and a projection's row is the view's.
LEMMA SocioKeeps ==
    ASSUME NEW p, Working(p), NEW ks \in SUBSET p.left["socio"], Due(p, "socio"),
           NEW q, Committed(p, q, "socio", ks),
           NEW view \in [Pair -> Row \cup {NoRow}], NEW S \in SUBSET Row, NEW b, NEW D,
           NEW w, Overwritten(w, view, p.job.rows, ks), Progress(p, view, S, b, D)
    PROVE  Progress(q, w, S, FALSE, D)
<1> DEFINE rows == p.job.rows
<1>1. /\ Working(q) /\ q.job = p.job
      /\ Projects(q) = Projects(p) /\ Streams(q) = Streams(p)
      /\ q.left["socio"] = p.left["socio"] \ ks
      /\ q.left["snapshot"] = p.left["snapshot"] /\ q.left["rebuild"] = p.left["rebuild"]
  BY CommittedIs DEF Kinds, Committed
<1>2. rows \in Seq(Row) /\ ks \subseteq 1 .. Len(rows) /\ ~Streams(p)
  <2>1. p.job \in Jobs /\ p.left["socio"] \subseteq 1 .. Len(rows) /\ p.left["socio"] # {}
    BY DEF Working, InPlan, Due
  <2> QED BY <2>1, CnpjAssumption DEF Working, InPlan
<1>3. /\ \A k \in 1 .. Len(rows) : rows[k] # NoRow /\ rows[k].pair \in Pair
      /\ \A x \in S : x.pair \in Pair
  BY <1>2, RowsAre DEF Row
<1>4. ASSUME NEW c \in Pair, view[c] # NoRow PROVE w[c] # NoRow
  BY <1>2, <1>3, <1>4 DEF Overwritten
<1>5. Projected(w, S)
  BY <1>2, <1>3, <1>4 DEF Progress, Projected, Rebuilds
<1>6. ASSUME Projects(p) PROVE FileProjected(q, w)
  <2>1. FileProjected(p, view)
    BY <1>6 DEF Progress
  <2>2. ASSUME NEW k \in 1 .. Len(rows)
        PROVE  \/ w[rows[k].pair] # NoRow
               \/ \E i \in q.left["socio"] : rows[i].pair = rows[k].pair
    <3>1. CASE view[rows[k].pair] # NoRow
      BY <1>3, <1>4, <3>1
    <3>2. CASE \E i \in ks : rows[i].pair = rows[k].pair
      BY <1>2, <1>3, <3>2 DEF Overwritten
    <3> QED BY <1>1, <2>1, <3>1, <3>2 DEF FileProjected
  <2> QED BY <1>1, <2>2 DEF FileProjected
<1>7. ASSUME D = {} PROVE First(q, w, S)
  <2>1. First(p, view, S)
    BY <1>7 DEF Progress
  <2>2. ASSUME Projects(p), NEW i \in LatestProjection(rows) \ q.left["socio"]
        PROVE  w[rows[i].pair] = rows[i]
    <3>1. \A k \in ks : k \in LatestProjection(rows)
      BY <2>2 DEF Working, InPlan
    <3>2. ASSUME NEW k \in ks, rows[k].pair = rows[i].pair PROVE k = i
      <4>1. i \in 1 .. Len(rows) /\ k \in 1 .. Len(rows)
        BY <1>2, <2>2, InProjection
      <4>2. Ahead(rows, i, k) /\ Ahead(rows, k, i)
        BY <2>2, <3>1, <3>2, <4>1, InProjection
      <4> HIDE DEF rows
      <4> QED BY <1>2, <4>1, <4>2, AheadIsOrder
    <3>3. rows[i].pair \in Pair
      BY <1>3, <2>2, InProjection
    <3>4. CASE i \in ks
      BY <3>2, <3>3, <3>4 DEF Overwritten
    <3>5. CASE i \notin ks
      <4>1. view[rows[i].pair] = rows[i]
        BY <1>1, <2>1, <2>2, <3>5 DEF First
      <4> QED BY <3>2, <3>3, <3>5, <4>1 DEF Overwritten
    <3> QED BY <3>4, <3>5
  <2> QED BY <1>1, <2>1, <2>2 DEF First
<1> QED BY <1>1, <1>2, <1>5, <1>6, <1>7 DEF Progress

\* The history T is S and the rows at ks.
Joined(T, S, rows, ks) == T = S \cup {rows[k] : k \in ks}

\* A load of SOCIO_DE_SNAPSHOT: its partners are in the view, or it is to be rebuilt.
LEMMA SnapshotKeeps ==
    ASSUME NEW p, Working(p), NEW ks \in SUBSET p.left["snapshot"], Due(p, "snapshot"),
           NEW q, Committed(p, q, "snapshot", ks),
           NEW view \in [Pair -> Row \cup {NoRow}], NEW S \in SUBSET Row,
           NEW b \in BOOLEAN, NEW D, Progress(p, view, S, b, D),
           NEW T, Joined(T, S, p.job.rows, ks)
    PROVE  Progress(q, view, T, b, D)
<1> DEFINE rows == p.job.rows
<1> USE DEF Joined
<1>1. /\ Working(q) /\ q.job = p.job
      /\ Projects(q) = Projects(p) /\ Streams(q) = Streams(p)
      /\ q.left["snapshot"] = p.left["snapshot"] \ ks
      /\ q.left["socio"] = p.left["socio"] /\ q.left["rebuild"] = p.left["rebuild"]
  BY CommittedIs DEF Kinds, Committed
<1>2. /\ rows \in Seq(Row) /\ ks \subseteq 1 .. Len(rows) /\ p.left["socio"] = {}
      /\ p.job.history \in BOOLEAN /\ p.job.streaming \in BOOLEAN
      /\ p.left["snapshot"] # {} /\ p.left["snapshot"] \subseteq 1 .. Len(rows)
  <2>1. p.job \in Jobs
    BY DEF Working
  <2> QED BY <2>1, CnpjAssumption DEF Working, InPlan, Due, Before
<1>3. p.job.history
  BY <1>2 DEF Working, InPlan
<1>4. CASE Streams(p)
  <2>1. Rebuilds(p) /\ Rebuilds(q) /\ ~Projects(p)
    BY <1>1, <1>2, <1>4 DEF Working, InPlan, Rebuilds, Streams, Projects
  <2> QED BY <1>1, <1>3, <1>4, <2>1 DEF Progress, First
<1>5. CASE Projects(p)
  <2>1. ~Streams(p) /\ ~Rebuilds(p) /\ ~Rebuilds(q)
    BY <1>1, <1>5 DEF Streams, Projects, Rebuilds
  <2>2. FileProjected(p, view)
    BY <1>5 DEF Progress
  <2>3. Projected(view, T)
    BY <1>2, <2>1, <2>2 DEF Progress, Projected, FileProjected
  <2>4. ~b
    <3>1. PICK k \in 1 .. Len(rows) : TRUE
      BY <1>2
    <3>2. LatestProjection(rows) # {}
      BY <1>2, <3>1, ProjectionHasPair
    <3> QED BY <1>2, <1>5, <3>2 DEF Progress
  <2>5. FileProjected(q, view)
    BY <1>1, <2>2 DEF FileProjected
  <2>6. ASSUME D = {} PROVE First(q, view, T)
    <3>1. First(p, view, S)
      BY <2>6 DEF Progress
    <3>2. T = {rows[k] : k \in (1 .. Len(rows)) \ q.left["snapshot"]}
      BY <1>1, <1>2, <1>5, <3>1 DEF First
    <3>3. \A i \in LatestProjection(rows) \ q.left["socio"] : view[rows[i].pair] = rows[i]
      BY <1>1, <1>5, <3>1 DEF First
    <3>4. q.job.history /\ q.job.rows = rows
      BY <1>1, <1>3
    <3>5. T = {q.job.rows[k] : k \in (1 .. Len(q.job.rows)) \ q.left["snapshot"]}
      BY <3>2, <3>4
    <3>6. \A i \in LatestProjection(q.job.rows) \ q.left["socio"] :
            view[q.job.rows[i].pair] = q.job.rows[i]
      BY <3>3, <3>4
    <3> QED BY <3>4, <3>5, <3>6 DEF First
  <2> QED BY <1>1, <2>1, <2>3, <2>4, <2>5, <2>6 DEF Progress
<1> QED BY <1>2, <1>3, <1>4, <1>5 DEF Streams, Projects

LEMMA WipeKeeps ==
    ASSUME NEW p, Working(p), Due(p, "wipe"), NEW q, Committed(p, q, "wipe", {0}),
           NEW view, NEW S, NEW b, NEW D, NEW w, Progress(p, view, S, b, D)
    PROVE  Progress(q, w, S, FALSE, D)
<1>1. /\ Working(q) /\ q.job = p.job /\ Streams(q) = Streams(p)
      /\ q.left["rebuild"] = p.left["rebuild"]
  <2>1. "wipe" \in Kinds /\ "rebuild" \in Kinds \ {"wipe"}
    BY DEF Kinds
  <2>2. q.job = p.job
    BY DEF Committed
  <2> QED BY <2>1, <2>2, CommittedIs
<1>2. Rebuilds(p)
  BY DEF Working, InPlan, Due
<1>3. Rebuilds(q) /\ Streams(q) /\ ~Projects(q) /\ q.job.history
  BY <1>1, <1>2 DEF Rebuilds, Streams, Projects
<1> QED BY <1>3 DEF Progress, First

\* The rebuild gives every pair with a dated row one of its latest.
LEMMA RebuildKeeps ==
    ASSUME NEW p, Working(p), Due(p, "rebuild"), NEW q, Committed(p, q, "rebuild", {0}),
           NEW view, NEW S \in SUBSET Row, NEW b, NEW D, NEW w, Progress(p, view, S, b, D),
           \A c \in Pair : IF Rebuilt(c, S) = {NoRow} THEN w[c] = view[c]
                           ELSE w[c] \in Rebuilt(c, S)
    PROVE  Progress(q, w, S, TRUE, D)
<1>1. Working(q) /\ q.job = p.job /\ Streams(q) = Streams(p)
  BY CommittedIs DEF Kinds, Committed
<1>2. Streams(q) /\ ~Projects(q) /\ q.job.history
  BY <1>1 DEF Working, InPlan, Due, Streams, Projects
<1>3. ASSUME NEW x \in S, x.snap # 0
      PROVE  w[x.pair] \in Rebuilt(x.pair, S) /\ w[x.pair] # NoRow
  <2> DEFINE dated == {y \in S : y.pair = x.pair /\ y.snap # 0}
  <2>1. x \in dated /\ x.pair \in Pair /\ NoRow \notin dated
    BY <1>3, CnpjAssumption DEF Row
  <2>2. Rebuilt(x.pair, S) = {y \in dated : \A z \in dated : ~Newer(z, y)}
    BY <2>1 DEF Rebuilt
  <2> HIDE DEF dated
  <2>3. NoRow \notin Rebuilt(x.pair, S)
    BY <2>1, <2>2
  <2> QED BY <2>1, <2>3
<1>4. Projected(w, S) /\ IsLatest(w, S)
  BY <1>3 DEF Projected, IsLatest
<1> QED BY <1>2, <1>4 DEF Progress, First

\* What pandas projects from a file is what the rebuild would make of its rows.
LEMMA ProjectionIsRebuilt ==
    ASSUME NEW rows \in Seq(Row), NEW i \in LatestProjection(rows),
           NEW k \in 1 .. Len(rows), rows[k].pair = rows[i].pair, rows[k].snap # 0
    PROVE  rows[i] \in Rebuilt(rows[i].pair, {rows[j] : j \in 1 .. Len(rows)})
<1> DEFINE S == {rows[j] : j \in 1 .. Len(rows)}
           dated == {x \in S : x.pair = rows[i].pair /\ x.snap # 0}
<1>1. i \in 1 .. Len(rows)
  BY InProjection
<1>2. \A j \in 1 .. Len(rows) : rows[j].pair = rows[i].pair => ~Newer(rows[j], rows[i])
  <2> SUFFICES ASSUME NEW j \in 1 .. Len(rows), rows[j].pair = rows[i].pair
               PROVE  ~Newer(rows[j], rows[i])
    OBVIOUS
  <2>1. Ahead(rows, i, j)
    BY InProjection
  <2>2. /\ rows[i].snap \in Nat /\ rows[i].entry \in Nat
        /\ rows[j].snap \in Nat /\ rows[j].entry \in Nat
    BY <1>1, RowsAre
  <2> QED BY <2>1, <2>2 DEF Ahead, Newer
<1>3. rows[i].snap # 0
  <2>1. rows[i].snap \in Nat /\ rows[k].snap \in Nat
    BY <1>1, RowsAre
  <2>2. ~Newer(rows[k], rows[i])
    BY <1>2
  <2> QED BY <2>1, <2>2 DEF Newer
<1>4. rows[i] \in dated /\ \A y \in dated : ~Newer(y, rows[i])
  BY <1>1, <1>2, <1>3
<1>5. Rebuilt(rows[i].pair, S) = {x \in dated : \A y \in dated : ~Newer(y, x)}
  BY <1>4 DEF Rebuilt
<1> HIDE DEF dated
<1> QED BY <1>4, <1>5

LEMMA StartKeeps ==
    ASSUME NEW job \in Jobs, NEW p, p.job = job,
           p.left = IF job.streaming THEN StreamPlan(job) ELSE BatchPlan(job),
           NEW S, NEW view, NEW b, NEW D, AtRest(view, S, b, D),
           view \in [Pair -> Row \cup {NoRow}]
    PROVE  Working(p) /\ Progress(p, view, S, b, D)
<1>1. /\ Working(p)
      /\ Projects(p) => /\ p.left["socio"] = LatestProjection(job.rows)
                        /\ p.left["snapshot"] = 1 .. Len(job.rows)
      /\ Streams(p) => Rebuilds(p)
  BY Planned DEF Rebuilds
<1>2. job.rows \in Seq(Row)
  BY CnpjAssumption
<1>3. Projects(p) => FileProjected(p, view)
  BY <1>1, <1>2, ProjectionHasPair DEF FileProjected
<1>4. D = {} => First(p, view, S)
  BY <1>1 DEF First, AtRest
<1> QED BY <1>1, <1>3, <1>4 DEF Progress, AtRest

LEMMA FinishKeeps ==
    ASSUME NEW p, Working(p), \A kind \in Kinds : p.left[kind] = {},
           NEW S, NEW view, NEW b, NEW D, NEW r, r \notin D, Progress(p, view, S, b, D)
    PROVE  AtRest(view, S, b, D \cup {r})
<1>1. ~Rebuilds(p) /\ p.left["socio"] = {} /\ p.left["snapshot"] = {}
  BY DEF Rebuilds, Kinds
<1>2. p.job.rows \in Seq(Row) /\ p.job.history \in BOOLEAN /\ p.job.streaming \in BOOLEAN
  BY CnpjAssumption DEF Working
<1>3. ASSUME D = {} PROVE IsLatest(view, S)
  <2>1. First(p, view, S)
    BY <1>3 DEF Progress
  <2>2. CASE ~p.job.history
    BY <2>1, <2>2 DEF First, IsLatest
  <2>3. CASE Streams(p)
    BY <1>1, <2>3 DEF Progress
  <2>4. CASE Projects(p)
    <3>1. S = {p.job.rows[k] : k \in 1 .. Len(p.job.rows)}
      BY <1>1, <2>1, <2>4 DEF First
    <3>2. ASSUME NEW k \in 1 .. Len(p.job.rows), p.job.rows[k].snap # 0
          PROVE  view[p.job.rows[k].pair] \in Rebuilt(p.job.rows[k].pair, S)
      <4>1. PICK i \in LatestProjection(p.job.rows) :
              p.job.rows[i].pair = p.job.rows[k].pair
        BY <1>2, ProjectionHasPair
      <4>2. view[p.job.rows[i].pair] = p.job.rows[i]
        BY <1>1, <2>1, <2>4 DEF First
      <4>3. p.job.rows[i] \in Rebuilt(p.job.rows[i].pair, S)
        BY <1>2, <3>1, <3>2, <4>1, ProjectionIsRebuilt
      <4> QED BY <4>1, <4>2, <4>3
    <3> QED BY <3>1, <3>2 DEF IsLatest
  <2> QED BY <1>2, <2>2, <2>3, <2>4 DEF Streams, Projects
<1>4. \A d : D \cup {r} = {d} => D = {}
  OBVIOUS
<1> QED BY <1>1, <1>3, <1>4 DEF Progress, AtRest

-----------------------------------------------------------------------------
(* The steps. *)

\* A process that commits is the only one that runs, and stays it.
LEMMA CommitIs ==
    ASSUME Typed, InTurn, NEW r \in Run, NEW kind \in Kinds, NEW ks, Commits(r, kind, ks)
    PROVE  /\ Working(proc[r]) /\ Due(proc[r], kind)
           /\ Committed(proc[r], proc'[r], kind, ks)
           /\ proc' \in [Run -> Proc] /\ proc'[r].pc = "running"
           /\ \A s \in Run \ {r} : proc'[s] = proc[s]
           /\ Running' = Running /\ Done' = Done
           /\ Orderly' => /\ Running = {r}
                          /\ Progress(proc[r], socio, snapshots, rebuilt, Done)
<1>1. /\ r \in Running /\ proc \in [Run -> Proc] /\ proc[r] \in Proc
      /\ proc[r].left \in [Kinds -> SUBSET Nat]
  BY DEF Typed, TypeOK, Commits, Running, Proc
<1>2. /\ proc' = [proc EXCEPT ![r].left[kind] = @ \ ks] /\ overlap' = overlap
      /\ proc[r].pc = "running" /\ Due(proc[r], kind)
  BY DEF Commits, Due
<1>3. /\ proc'[r] = [proc[r] EXCEPT !.left = [proc[r].left EXCEPT ![kind] = @ \ ks]]
      /\ \A s \in Run \ {r} : proc'[s] = proc[s]
  BY <1>1, <1>2
<1>4. [proc[r].left EXCEPT ![kind] = @ \ ks] \in [Kinds -> SUBSET Nat]
  BY <1>1
<1>5. proc'[r] \in Proc /\ proc'[r].pc = "running" /\ Committed(proc[r], proc'[r], kind, ks)
  BY <1>1, <1>2, <1>3, <1>4 DEF Proc, Committed
<1>6. proc' \in [Run -> Proc]
  BY <1>1, <1>2, <1>3, <1>5
<1>7. \A s \in Run : proc'[s].pc = proc[s].pc
  BY <1>2, <1>3, <1>5
<1>8. Running' = Running /\ Done' = Done
  BY <1>7 DEF Running, Done
<1>9. Orderly' => Orderly
  BY <1>2, <1>7 DEF Orderly
<1>10. ASSUME Orderly'
       PROVE  Running = {r} /\ Progress(proc[r], socio, snapshots, rebuilt, Done)
  BY <1>1, <1>9, <1>10 DEF InTurn
<1> QED BY <1>1, <1>2, <1>3, <1>5, <1>6, <1>8, <1>10 DEF Typed

\* After a commit that keeps what is claimed of its process.
LEMMA Committing ==
    ASSUME Typed, InTurn, NEW r \in Run, NEW kind \in Kinds, NEW ks, Commits(r, kind, ks),
           kind \in {"wipe", "rebuild"} => ks = {0},
           socio' \in [Pair -> Row \cup {NoRow}], snapshots' \subseteq Row, rebuilt' \in BOOLEAN,
           Progress(proc[r], socio, snapshots, rebuilt, Done)
             => Progress(proc'[r], socio', snapshots', rebuilt', Done)
    PROVE  Typed' /\ InTurn'
<1>1. /\ Working(proc[r]) /\ Due(proc[r], kind)
      /\ Committed(proc[r], proc'[r], kind, ks)
      /\ proc' \in [Run -> Proc]
      /\ \A s \in Run \ {r} : proc'[s] = proc[s]
      /\ Running' = Running /\ Done' = Done
      /\ Orderly' => /\ Running = {r}
                     /\ Progress(proc[r], socio, snapshots, rebuilt, Done)
  BY CommitIs
<1>2. Working(proc'[r])
  BY <1>1, CommittedIs
<1>3. \A s \in Running' : Working(proc'[s])
  BY <1>1, <1>2 DEF Typed, Running
<1>4. overlap' \in BOOLEAN
  BY DEF Commits, Typed, TypeOK
<1>5. Typed'
  BY <1>1, <1>3, <1>4 DEF Typed, TypeOK
<1>6. InTurn'
  BY <1>1 DEF InTurn
<1> QED BY <1>5, <1>6

LEMMA StepKeeps ==
    ASSUME Typed, InTurn, NEW r \in Run,
           WriteSocio(r) \/ WriteSnapshots(r) \/ WipeSocio(r) \/ RebuildSocio(r)
    PROVE  Typed' /\ InTurn'
<1> DEFINE p == proc[r]
           rows == p.job.rows
<1>1. /\ socio \in [Pair -> Row \cup {NoRow}] /\ snapshots \in SUBSET Row
      /\ rebuilt \in BOOLEAN
  BY DEF Typed, TypeOK
<1>2. "socio" \in Kinds /\ "snapshot" \in Kinds /\ "wipe" \in Kinds /\ "rebuild" \in Kinds
  BY DEF Kinds
<1>3. Working(p) /\ rows \in Seq(Row)
  <2>1. r \in Running
    BY DEF WriteSocio, WriteSnapshots, WipeSocio, RebuildSocio, Commits, Running
  <2> QED BY <2>1, CnpjAssumption DEF Typed, Working
<1>4. \A kind \in Kinds : Batch(p.job, p.left[kind]) \in SUBSET p.left[kind]
  BY DEF Batch
<1>5. CASE WriteSocio(r)
  <2> DEFINE ks == Batch(p.job, p.left["socio"])
  <2>1. /\ Commits(r, "socio", ks) /\ rebuilt' = FALSE /\ snapshots' = snapshots
        /\ socio' = [c \in Pair |-> IF {k \in ks : rows[k].pair = c} = {} THEN socio[c]
                                    ELSE rows[Max({k \in ks : rows[k].pair = c})]]
    BY <1>5 DEF WriteSocio
  <2>2. ks \in SUBSET p.left["socio"] /\ ks \in SUBSET (1 .. Len(rows))
    BY <1>2, <1>3, <1>4 DEF Working, InPlan
  <2> HIDE DEF ks
  <2>3. Overwritten(socio', socio, rows, ks)
    BY <1>1, <1>3, <2>1, <2>2, Overwrites
  <2>4. Due(p, "socio") /\ Committed(p, proc'[r], "socio", ks)
    BY <1>2, <2>1, CommitIs
  <2>5. Progress(p, socio, snapshots, rebuilt, Done)
          => Progress(proc'[r], socio', snapshots', rebuilt', Done)
    BY <1>1, <1>3, <2>1, <2>2, <2>3, <2>4, SocioKeeps
  <2> QED BY <1>1, <1>2, <2>1, <2>3, <2>5, Committing DEF Overwritten
<1>6. CASE WriteSnapshots(r)
  <2> DEFINE ks == Batch(p.job, p.left["snapshot"])
  <2>1. /\ Commits(r, "snapshot", ks) /\ rebuilt' = rebuilt /\ socio' = socio
        /\ snapshots' = snapshots \cup {rows[k] : k \in ks}
    BY <1>6 DEF WriteSnapshots
  <2>2. ks \in SUBSET p.left["snapshot"] /\ ks \in SUBSET (1 .. Len(rows))
    BY <1>2, <1>3, <1>4 DEF Working, InPlan
  <2> HIDE DEF ks
  <2>3. snapshots' \subseteq Row
    BY <1>1, <1>3, <2>1, <2>2, RowsAre
  <2>4. Due(p, "snapshot") /\ Committed(p, proc'[r], "snapshot", ks)
    BY <1>2, <2>1, CommitIs
  <2>5. Progress(p, socio, snapshots, rebuilt, Done)
          => Progress(proc'[r], socio, snapshots', rebuilt, Done)
    <3>1. Joined(snapshots', snapshots, rows, ks)
      BY <2>1 DEF Joined
    <3> QED BY <1>1, <1>3, <2>2, <2>4, <3>1, SnapshotKeeps
  <2> QED BY <1>1, <1>2, <2>1, <2>3, <2>5, Committing
<1>7. CASE WipeSocio(r)
  <2>1. /\ Commits(r, "wipe", {0}) /\ rebuilt' = FALSE /\ snapshots' = snapshots
        /\ socio' \in [Pair -> Row \cup {NoRow}]
    BY <1>7 DEF WipeSocio
  <2>2. Due(p, "wipe") /\ Committed(p, proc'[r], "wipe", {0})
    BY <1>2, <2>1, CommitIs
  <2>3. Progress(p, socio, snapshots, rebuilt, Done)
          => Progress(proc'[r], socio', snapshots', rebuilt', Done)
    BY <1>3, <2>1, <2>2, WipeKeeps
  <2> QED BY <1>1, <1>2, <2>1, <2>3, Committing
<1>8. CASE RebuildSocio(r)
  <2>1. /\ Commits(r, "rebuild", {0}) /\ rebuilt' = TRUE /\ snapshots' = snapshots
        /\ socio' \in [Pair -> snapshots \cup {socio[c] : c \in Pair}]
        /\ \A c \in Pair : IF Rebuilt(c, snapshots) = {NoRow} THEN socio'[c] = socio[c]
                           ELSE socio'[c] \in Rebuilt(c, snapshots)
    BY <1>8 DEF RebuildSocio
  <2>2. Due(p, "rebuild") /\ Committed(p, proc'[r], "rebuild", {0})
    BY <1>2, <2>1, CommitIs
  <2>3. Progress(p, socio, snapshots, rebuilt, Done)
          => Progress(proc'[r], socio', snapshots', rebuilt', Done)
    BY <1>1, <1>3, <2>1, <2>2, RebuildKeeps
  <2>4. socio' \in [Pair -> Row \cup {NoRow}]
    BY <1>1, <2>1
  <2> QED BY <1>1, <1>2, <2>1, <2>3, <2>4, Committing
<1> QED BY <1>5, <1>6, <1>7, <1>8

LEMMA TurnKeeps ==
    ASSUME Typed, InTurn, NEW r \in Run, Start(r) \/ Finish(r) \/ Cut(r)
    PROVE  Typed' /\ InTurn'
<1>1. /\ socio \in [Pair -> Row \cup {NoRow}] /\ snapshots \in SUBSET Row
      /\ rebuilt \in BOOLEAN /\ overlap \in BOOLEAN
      /\ proc \in [Run -> Proc] /\ \A s \in Running : Working(proc[s])
  BY DEF Typed, TypeOK
<1>2. socio' = socio /\ snapshots' = snapshots /\ rebuilt' = rebuilt
  BY DEF Start, Finish, Cut
<1>3. ASSUME NEW pc \in {"done", "cut"} PROVE Ended(pc) \in Proc
  <2>1. Ended(pc).left \in [Kinds -> SUBSET Nat]
    BY DEF Ended, Plan, Kinds
  <2> QED BY <2>1 DEF Ended, Proc
<1>4. CASE Start(r)
  <2>1. PICK job \in Jobs :
          proc' = [proc EXCEPT ![r] =
                     [pc |-> "running", job |-> job,
                      left |-> IF job.streaming THEN StreamPlan(job) ELSE BatchPlan(job)]]
    BY <1>4 DEF Start
  <2> DEFINE q == [pc |-> "running", job |-> job,
                   left |-> IF job.streaming THEN StreamPlan(job) ELSE BatchPlan(job)]
  <2>2. /\ proc'[r] = q /\ \A s \in Run \ {r} : proc'[s] = proc[s]
        /\ proc[r].pc = "idle" /\ overlap' = (overlap \/ Running # {})
    BY <1>1, <1>4, <2>1 DEF Start
  <2>3. /\ q.pc = "running" /\ q.job = job
        /\ q.left = IF job.streaming THEN StreamPlan(job) ELSE BatchPlan(job)
    OBVIOUS
  <2>4. Working(q)
    <3> HIDE DEF q
    <3> QED BY <2>3, Planned
  <2>5. q \in Proc
    BY <2>4 DEF Proc, Working
  <2> HIDE DEF q
  <2>6. proc' \in [Run -> Proc]
    BY <1>1, <2>1, <2>5 DEF q
  <2>7. Running' = Running \cup {r} /\ Done' = Done
    BY <2>2, <2>3 DEF Running, Done
  <2>8. Typed'
    BY <1>1, <1>2, <2>2, <2>4, <2>6, <2>7 DEF Typed, TypeOK, Running
  <2>9. ASSUME Orderly' PROVE Running' = {r} /\ Progress(q, socio, snapshots, rebuilt, Done)
    <3>1. Orderly /\ Running = {}
      BY <2>2, <2>9 DEF Orderly
    <3>2. AtRest(socio, snapshots, rebuilt, Done)
      BY <3>1 DEF InTurn
    <3> QED BY <1>1, <2>3, <2>7, <3>1, <3>2, StartKeeps
  <2>10. InTurn'
    BY <1>2, <2>2, <2>7, <2>9 DEF InTurn
  <2> QED BY <2>8, <2>10
<1>5. CASE Finish(r)
  <2>1. /\ proc' = [proc EXCEPT ![r] = Ended("done")] /\ overlap' = overlap
        /\ proc[r].pc = "running" /\ \A kind \in Kinds : proc[r].left[kind] = {}
    BY <1>5 DEF Finish
  <2>2. /\ proc'[r].pc = "done" /\ \A s \in Run \ {r} : proc'[s] = proc[s]
        /\ proc' \in [Run -> Proc]
    BY <1>1, <1>3, <2>1 DEF Ended
  <2>3. Running' = Running \ {r} /\ Done' = Done \cup {r} /\ r \in Running /\ r \notin Done
    BY <2>1, <2>2 DEF Running, Done
  <2>4. Typed'
    BY <1>1, <1>2, <2>1, <2>2, <2>3 DEF Typed, TypeOK
  <2>5. ASSUME Orderly'
        PROVE  Running' = {} /\ AtRest(socio, snapshots, rebuilt, Done \cup {r})
    <3>1. Orderly
      BY <2>1, <2>2, <2>5 DEF Orderly
    <3>2. Running = {r} /\ Progress(proc[r], socio, snapshots, rebuilt, Done)
      BY <2>3, <3>1 DEF InTurn
    <3> QED BY <1>1, <2>1, <2>3, <3>2, FinishKeeps
  <2>6. InTurn'
    BY <1>2, <2>3, <2>5 DEF InTurn
  <2> QED BY <2>4, <2>6
<1>6. CASE Cut(r)
  <2>1. /\ proc' = [proc EXCEPT ![r] = Ended("cut")] /\ overlap' = overlap
        /\ proc[r].pc = "running"
    BY <1>6 DEF Cut
  <2>2. /\ proc'[r].pc = "cut" /\ \A s \in Run \ {r} : proc'[s] = proc[s]
        /\ proc' \in [Run -> Proc]
    BY <1>1, <1>3, <2>1 DEF Ended
  <2>3. Running' = Running \ {r}
    BY <2>2 DEF Running
  <2>4. Typed'
    BY <1>1, <1>2, <2>1, <2>2, <2>3 DEF Typed, TypeOK
  <2>5. ~Orderly'
    BY <2>2 DEF Orderly
  <2> QED BY <2>4, <2>5 DEF InTurn
<1> QED BY <1>4, <1>5, <1>6

IInv == Typed /\ InTurn

LEMMA IInvHolds == Spec => []IInv
<1>1. Init => IInv
  <2> SUFFICES ASSUME Init PROVE IInv
    OBVIOUS
  <2>1. \A r \in Run : proc[r] = Ended("idle")
    BY DEF Init
  <2>2. Ended("idle") \in Proc /\ Ended("idle").pc = "idle"
    <3>1. Ended("idle").left \in [Kinds -> SUBSET Nat]
      BY DEF Ended, Plan, Kinds
    <3> QED BY <3>1 DEF Ended, Proc
  <2>3. Running = {} /\ Done = {}
    BY <2>1, <2>2 DEF Running, Done
  <2>4. Typed
    BY <2>2, <2>3 DEF Typed, TypeOK, Init
  <2>5. AtRest(socio, snapshots, rebuilt, Done)
    BY <2>3 DEF Init, AtRest, Projected, IsLatest
  <2> QED BY <2>3, <2>4, <2>5 DEF IInv, InTurn
<1>2. IInv /\ [Next]_vars => IInv'
  <2> SUFFICES ASSUME IInv, [Next]_vars PROVE IInv'
    OBVIOUS
  <2>1. CASE UNCHANGED vars
    BY <2>1 DEF vars, IInv, Typed, TypeOK, Running, InTurn, Orderly, Done, AtRest, Progress
  <2>2. CASE Next
    BY <2>2, StepKeeps, TurnKeeps DEF Next, Step, IInv
  <2> QED BY <2>1, <2>2
<1> QED BY <1>1, <1>2, PTL DEF Spec

\* The view has at most one row of every pair, the history rows of files, and every
\* process writes what its job has left.
THEOREM CnpjTypeCorrect == Spec => []TypeOK
<1>1. IInv => TypeOK
  BY DEF IInv, Typed
<1> QED BY <1>1, IInvHolds, PTL

\* While no process was cut short or overlapped another, a partner with a dated row in the
\* history is in the view whenever no process is running: wiping the view and rebuilding it
\* from the history loses nobody, and a batch run gives the view every pair of its file.
THEOREM DatedStaysProjected == Spec => []DatedIsProjected
<1>1. IInv => DatedIsProjected
  <2> SUFFICES ASSUME IInv, Quiet PROVE Projected(socio, snapshots)
    BY DEF DatedIsProjected, Projected
  <2>1. Orderly /\ Running = {}
    BY DEF Quiet, Orderly, Running
  <2> QED BY <2>1 DEF IInv, InTurn, AtRest
<1> QED BY <1>1, IInvHolds, PTL

\* Under the same condition, the view that pandas projects from the file of the first run
\* is what the rebuild would make of the history, and so is the view after any number
\* of runs whose last write of it was a rebuild.
THEOREM ViewsAgree == Spec => []ImplementationsAgree
<1>1. IInv => ImplementationsAgree
  <2> SUFFICES ASSUME IInv, Quiet, rebuilt \/ \E r \in Run : Done = {r}
               PROVE  IsLatest(socio, snapshots)
    BY DEF ImplementationsAgree, IsLatest, Done
  <2>1. Orderly /\ Running = {}
    BY DEF Quiet, Orderly, Running
  <2> QED BY <2>1 DEF IInv, InTurn, AtRest
<1> QED BY <1>1, IInvHolds, PTL

=============================================================================
