------------------------- MODULE SourceLoads_proofs -------------------------
(***************************************************************************)
(* Proofs about SourceLoads, for any histories of files, registry and      *)
(* number of failures.  What the rows that the pipelines prepare write,    *)
(* look for and link decides what the graph holds, after any of its batches *)
(* and however often a pipeline failed and was started again.              *)
(*                                                                         *)
(* A node is named by what the MERGE looked for that created it.  The      *)
(* invariant says of it that it has that label and those properties, where *)
(* nothing changes them, and that whatever closed set of writes its name is *)
(* of (one that no write outside of it can reach a node of, Closed), it    *)
(* holds only what those wrote (NodeGood).  A link goes to nodes that its  *)
(* rows point to (LinkGood), the writes that were made have their nodes    *)
(* (There), and rows of links are only lost where an end is not among them. *)
(* What a pipeline prepares is fixed, so each row keeps this, from the     *)
(* first of a file to its last, and again from the first after a failure.  *)
(* A property then asks for the right closed set: the writes of one id,    *)
(* about one person, or those that a row points to.                        *)
(*                                                                         *)
(* That a failure leaves no trace is another invariant (NoTrace): after a  *)
(* restart the graph holds what the load wrote before it failed, so it is  *)
(* ahead of the load that does not fail.  It is Between the graph that one *)
(* has now and those it has later, and where every row finds what it will  *)
(* find later (Steady of every history, which RowsAreFit checks), the row  *)
(* goes to the same nodes in both.  At the end nothing is later, and the   *)
(* two are the same.                                                       *)
(***************************************************************************)
EXTENDS SourceLoads, FiniteSetTheorems, WellFoundedInduction, TLAPS

-----------------------------------------------------------------------------
(* The invariant. *)

\* What a node holds was written by writes of P.
MadeBy(n, node, P) ==
    /\ \A k \in DOMAIN node.props :
          \E w \in P : w.label = n.label /\ k \in DOMAIN w.set /\ w.set[k] = node.props[k]
    /\ \A r \in node.records : \E w \in P : w.label = n.label /\ r \in w.records
    /\ \A x \in node.who : \E w \in P : w.label = n.label /\ x \in w.who
NameOf(w) == [label |-> w.label, by |-> w.match]
NodeGood(W, n, node) ==
    /\ \E w \in W : n = NameOf(w)
    /\ \A k \in DOMAIN n.by :
          Settled(W, n.label, k) => k \in DOMAIN node.props /\ node.props[k] = n.by[k]
    /\ \A P \in SUBSET W : \A w \in P : Closed(W, P) /\ n = NameOf(w) => MadeBy(n, node, P)

EndGood(W, e, n) ==
    \E p \in ToSet(e) :
        /\ ~Absent(p) /\ n.label = p.label
        /\ \A P \in SUBSET W : Closed(W, P) /\ Points(W, p, P) => \E v \in P : n = NameOf(v)
LinkGood(W, R, nodes, l, records) ==
    /\ l[2] \in DOMAIN nodes /\ l[3] \in DOMAIN nodes
    /\ \A r \in records : \E row \in R :
          row.record = r /\ EndGood(W, row.from, l[2]) /\ EndGood(W, row.to, l[3])

\* Where w says what its node is known by, there is such a node.
There(W, nodes, w) ==
    (\A k \in DOMAIN w.match : Settled(W, w.label, k)) => Matching(nodes, w) # {}

NodesGood(W, nodes) == \A n \in DOMAIN nodes : NodeGood(W, n, nodes[n])
LinksGood(W, R, g) == \A l \in DOMAIN g.links : LinkGood(W, R, g.nodes, l, g.links[l].records)
Good(W, R, L, D, g) ==
    /\ NodesGood(W, g.nodes) /\ LinksGood(W, R, g) /\ g.lost \subseteq L
    /\ \A w \in D : There(W, g.nodes, w)

Loading(h, k) ==
    LET B == Batches(h[k])
    IN  /\ k \in 1 .. Len(h) /\ files = SubSeq(h, k, Len(h))
        /\ \E j \in 0 .. Len(B) :
              /\ todo = SubSeq(B, j + 1, Len(B))
              /\ Good(Writes(h, k), RowsOf(h, k), UnfoundOf(h, k), Before(B, j + 1), graph)
Waiting(h, k) ==
    /\ k \in 0 .. Len(h) /\ files = SubSeq(h, k + 1, Len(h))
    /\ Good(Writes(h, k), RowsOf(h, k), UnfoundOf(h, k), {}, graph)
IInv ==
    \E h \in Histories : \E k \in 0 .. Len(h) :
        /\ loaded = SubSeq(h, 1, k)
        /\ IF running THEN Loading(h, k) ELSE Waiting(h, k)

-----------------------------------------------------------------------------
(* Loading row by row. *)

(* The least of some numbers. *)
LEMMA LeastNatural ==
    ASSUME NEW T \in SUBSET Nat, T # {}
    PROVE  \E n \in T : \A m \in T : n <= m
<1>1. PICK n \in T : \A m \in T : ~(<<m, n>> \in OpToRel(<, Nat))
  BY NatLessThanWellFounded, WFMin
<1>2. ASSUME NEW m \in T PROVE n <= m
  <2>1. <<m, n>> \in OpToRel(<, Nat) <=> m < n
    BY DEF OpToRel
  <2>2. ~(m < n)
    BY <1>1, <2>1
  <2>3. m \in Nat /\ n \in Nat
    OBVIOUS
  <2> QED BY <2>2, <2>3
<1> QED BY <1>2

\* The graphs after each of the first k rows of a part, or parts of a batch.
RowSteps(a, g, part, k) ==
    a = [i \in 0 .. k |-> IF i = 0 THEN g ELSE LoadRow(a[i - 1], part, part.rows[i])]
PartSteps(a, g, batch, k) ==
    a = [i \in 0 .. k |-> IF i = 0 THEN g ELSE LoadPart(a[i - 1], Parts(batch)[i])]

LEMMA RowStepsExist ==
    ASSUME NEW g, NEW part, NEW n \in Nat
    PROVE  \E a : RowSteps(a, g, part, n)
<1> DEFINE T == {k \in Nat : ~ \E a : RowSteps(a, g, part, k)}
<1>1. ASSUME T # {} PROVE FALSE
  <2>1. PICK k \in T : \A m \in T : k <= m
    <3>1. T \in SUBSET Nat
      OBVIOUS
    <3> HIDE DEF T
    <3> QED BY <1>1, <3>1, LeastNatural
  <2>2. k \in Nat /\ ~ \E a : RowSteps(a, g, part, k)
    OBVIOUS
  <2>3. CASE k = 0
    <3> DEFINE a == [i \in 0 .. 0 |-> g]
    <3>1. a = [i \in 0 .. 0 |-> IF i = 0 THEN g ELSE LoadRow(a[i - 1], part, part.rows[i])]
      OBVIOUS
    <3>2. RowSteps(a, g, part, 0)
      BY <3>1 DEF RowSteps
    <3> QED BY <2>2, <2>3, <3>2
  <2>4. CASE k # 0
    <3>1. k - 1 \in Nat /\ k - 1 \notin T
      BY <2>1, <2>2, <2>4
    <3>2. PICK a : RowSteps(a, g, part, k - 1)
      BY <3>1
    <3> DEFINE b == [i \in 0 .. k |-> IF i = 0 THEN g ELSE LoadRow(a[i - 1], part, part.rows[i])]
    <3>3. ASSUME NEW i \in 0 .. k
          PROVE  b[i] = IF i = 0 THEN g ELSE LoadRow(b[i - 1], part, part.rows[i])
      <4>1. CASE i = 0
        BY <4>1
      <4>2. CASE i # 0
        <5>1. i - 1 \in 0 .. k - 1 /\ i - 1 \in 0 .. k
          BY <2>2, <4>2
        <5>2. a[i - 1] = b[i - 1]
          BY <3>2, <5>1 DEF RowSteps
        <5> QED BY <4>2, <5>2
      <4> QED BY <4>1, <4>2
    <3>4. RowSteps(b, g, part, k)
      BY <3>3 DEF RowSteps
    <3> QED BY <2>2, <3>4
  <2> QED BY <2>3, <2>4
<1> QED BY <1>1

LEMMA PartStepsExist ==
    ASSUME NEW g, NEW batch, NEW n \in Nat
    PROVE  \E a : PartSteps(a, g, batch, n)
<1> DEFINE T == {k \in Nat : ~ \E a : PartSteps(a, g, batch, k)}
<1>1. ASSUME T # {} PROVE FALSE
  <2>1. PICK k \in T : \A m \in T : k <= m
    <3>1. T \in SUBSET Nat
      OBVIOUS
    <3> HIDE DEF T
    <3> QED BY <1>1, <3>1, LeastNatural
  <2>2. k \in Nat /\ ~ \E a : PartSteps(a, g, batch, k)
    OBVIOUS
  <2>3. CASE k = 0
    <3> DEFINE a == [i \in 0 .. 0 |-> g]
    <3>1. a = [i \in 0 .. 0 |-> IF i = 0 THEN g ELSE LoadPart(a[i - 1], Parts(batch)[i])]
      OBVIOUS
    <3>2. PartSteps(a, g, batch, 0)
      BY <3>1 DEF PartSteps
    <3> QED BY <2>2, <2>3, <3>2
  <2>4. CASE k # 0
    <3>1. k - 1 \in Nat /\ k - 1 \notin T
      BY <2>1, <2>2, <2>4
    <3>2. PICK a : PartSteps(a, g, batch, k - 1)
      BY <3>1
    <3> DEFINE b == [i \in 0 .. k |-> IF i = 0 THEN g ELSE LoadPart(a[i - 1], Parts(batch)[i])]
    <3>3. ASSUME NEW i \in 0 .. k
          PROVE  b[i] = IF i = 0 THEN g ELSE LoadPart(b[i - 1], Parts(batch)[i])
      <4>1. CASE i = 0
        BY <4>1
      <4>2. CASE i # 0
        <5>1. i - 1 \in 0 .. k - 1 /\ i - 1 \in 0 .. k
          BY <2>2, <4>2
        <5>2. a[i - 1] = b[i - 1]
          BY <3>2, <5>1 DEF PartSteps
        <5> QED BY <4>2, <5>2
      <4> QED BY <4>1, <4>2
    <3>4. PartSteps(b, g, batch, k)
      BY <3>3 DEF PartSteps
    <3> QED BY <2>2, <3>4
  <2> QED BY <2>3, <2>4
<1> QED BY <1>1

LEMMA LoadPartSteps ==
    ASSUME NEW g, NEW part, Len(part.rows) \in Nat
    PROVE  \E a : /\ a[0] = g /\ a[Len(part.rows)] = LoadPart(g, part)
                  /\ \A i \in 1 .. Len(part.rows) : a[i] = LoadRow(a[i - 1], part, part.rows[i])
<1> DEFINE a == CHOOSE a : RowSteps(a, g, part, Len(part.rows))
<1>1. RowSteps(a, g, part, Len(part.rows))
  BY RowStepsExist
<1>2. a[Len(part.rows)] = LoadPart(g, part)
  BY DEF LoadPart, RowGraphs, RowSteps
<1> HIDE DEF a
<1>3. a[0] = g
  BY <1>1 DEF RowSteps
<1>4. \A i \in 1 .. Len(part.rows) : a[i] = LoadRow(a[i - 1], part, part.rows[i])
  BY <1>1 DEF RowSteps
<1> QED BY <1>2, <1>3, <1>4

LEMMA ApplySteps ==
    ASSUME NEW g, NEW batch, Len(Parts(batch)) \in Nat
    PROVE  \E a : /\ a[0] = g /\ a[Len(Parts(batch))] = Apply(g, batch)
                  /\ \A i \in 1 .. Len(Parts(batch)) : a[i] = LoadPart(a[i - 1], Parts(batch)[i])
<1> DEFINE a == CHOOSE a : PartSteps(a, g, batch, Len(Parts(batch)))
<1>1. PartSteps(a, g, batch, Len(Parts(batch)))
  BY PartStepsExist
<1>2. a[Len(Parts(batch))] = Apply(g, batch)
  BY DEF Apply, PartGraphs, PartSteps
<1> HIDE DEF a
<1>3. a[0] = g
  BY <1>1 DEF PartSteps
<1>4. \A i \in 1 .. Len(Parts(batch)) : a[i] = LoadPart(a[i - 1], Parts(batch)[i])
  BY <1>1 DEF PartSteps
<1> QED BY <1>2, <1>3, <1>4

-----------------------------------------------------------------------------
(* What MERGE does to the nodes. *)

LEMMA OverIs ==
    ASSUME NEW f, NEW g
    PROVE  /\ DOMAIN Over(f, g) = DOMAIN f \cup DOMAIN g
           /\ \A x \in DOMAIN f : Over(f, g)[x] = f[x]
           /\ \A x \in DOMAIN g : x \notin DOMAIN f => Over(f, g)[x] = g[x]
BY DEF Over

LEMMA MatchingIs ==
    ASSUME NEW nodes, NEW p, NEW n
    PROVE  n \in Matching(nodes, p) <=>
               /\ n \in DOMAIN nodes /\ n.label = p.label
               /\ \A k \in DOMAIN p.match :
                     /\ p.match[k] # None
                     /\ k \in DOMAIN nodes[n].props /\ nodes[n].props[k] = p.match[k]
BY DEF Matching

\* What a node was before the row, and what it is after it.
Was(nodes, p, n) ==
    IF n \in DOMAIN nodes THEN nodes[n] ELSE [NoNode EXCEPT !.props = p.match]
Becomes(row, old, new) ==
    /\ new.props = Over(row.props, old.props)
    /\ new.records = old.records \cup row.records /\ new.who = old.who \cup row.who
    /\ new.shown = IF row.shown = {} THEN old.shown ELSE row.shown

LEMMA MergeIs ==
    ASSUME NEW nodes, NEW p, NEW row
    PROVE  LET new == Merge(nodes, p, row)
               hits == Matching(nodes, p)
               targets == IF hits # {} THEN hits ELSE {NameOf(p)}
           IN  /\ DOMAIN new = targets \cup DOMAIN nodes
               /\ \A n \in targets : Becomes(row, Was(nodes, p, n), new[n])
               /\ \A n \in DOMAIN nodes : n \notin targets => new[n] = nodes[n]
<1> DEFINE hits == Matching(nodes, p)
           targets == IF hits # {} THEN hits ELSE {NameOf(p)}
           Old(n) == IF n \in DOMAIN nodes THEN nodes[n] ELSE [NoNode EXCEPT !.props = p.match]
           Written(n) == [props   |-> Over(row.props, Old(n).props),
                          records |-> Old(n).records \cup row.records,
                          shown   |-> IF row.shown = {} THEN Old(n).shown ELSE row.shown,
                          who     |-> Old(n).who \cup row.who]
           written == [n \in targets |-> Written(n)]
<1>1. Merge(nodes, p, row) = Over(written, nodes)
  BY DEF Merge, NameOf
<1>2. DOMAIN written = targets
  OBVIOUS
<1> HIDE DEF written
<1>3. DOMAIN Merge(nodes, p, row) = targets \cup DOMAIN nodes
  BY <1>1, <1>2 DEF Over
<1>4. ASSUME NEW n \in targets PROVE Becomes(row, Was(nodes, p, n), Merge(nodes, p, row)[n])
  <2>1. Merge(nodes, p, row)[n] = written[n]
    BY <1>1, <1>2 DEF Over
  <2>2. Old(n) = Was(nodes, p, n)
    BY DEF Was
  <2>3. written[n] = Written(n)
    BY DEF written
  <2> HIDE DEF Old, targets
  <2> QED BY <2>1, <2>2, <2>3 DEF Becomes
<1>5. ASSUME NEW n \in DOMAIN nodes, n \notin targets PROVE Merge(nodes, p, row)[n] = nodes[n]
  BY <1>1, <1>2, <1>5 DEF Over
<1> QED BY <1>3, <1>4, <1>5

\* The row writes nothing but what w, a write of W, says.
Within(row, w) ==
    /\ \A k \in DOMAIN row.props : k \in DOMAIN w.set /\ w.set[k] = row.props[k]
    /\ row.records \subseteq w.records /\ row.who \subseteq w.who

\* The writes that node n may come from, for the name of which there is a write.
LEMMA AddedBy ==
    ASSUME NEW P, NEW w \in P, NEW n, NEW row, NEW old, NEW new,
           w.label = n.label, Within(row, w), Becomes(row, old, new), MadeBy(n, old, P)
    PROVE  MadeBy(n, new, P)
<1>1. ASSUME NEW k \in DOMAIN new.props
      PROVE  \E v \in P : v.label = n.label /\ k \in DOMAIN v.set /\ v.set[k] = new.props[k]
  <2>1. CASE k \in DOMAIN row.props
    <3>1. new.props[k] = row.props[k]
      BY <2>1 DEF Becomes, Over
    <3> QED BY <2>1, <3>1 DEF Within
  <2>2. CASE k \notin DOMAIN row.props
    <3>1. k \in DOMAIN old.props /\ new.props[k] = old.props[k]
      BY <1>1, <2>2 DEF Becomes, Over
    <3> QED BY <3>1 DEF MadeBy
  <2> QED BY <2>1, <2>2
<1>2. ASSUME NEW r \in new.records PROVE \E v \in P : v.label = n.label /\ r \in v.records
  <2>1. r \in old.records \/ r \in row.records
    BY <1>2 DEF Becomes
  <2>2. CASE r \in old.records
    BY <2>2 DEF MadeBy
  <2>3. CASE r \in row.records
    BY <2>3 DEF Within
  <2> QED BY <2>1, <2>2, <2>3
<1>3. ASSUME NEW x \in new.who PROVE \E v \in P : v.label = n.label /\ x \in v.who
  <2>1. x \in old.who \/ x \in row.who
    BY <1>3 DEF Becomes
  <2>2. CASE x \in old.who
    BY <2>2 DEF MadeBy
  <2>3. CASE x \in row.who
    BY <2>3 DEF Within
  <2> QED BY <2>1, <2>2, <2>3
<1> QED BY <1>1, <1>2, <1>3 DEF MadeBy

LEMMA MadeByMore ==
    ASSUME NEW P, NEW Q, P \subseteq Q, NEW n, NEW node, MadeBy(n, node, P)
    PROVE  MadeBy(n, node, Q)
<1>1. \A k \in DOMAIN node.props :
          \E w \in Q : w.label = n.label /\ k \in DOMAIN w.set /\ w.set[k] = node.props[k]
  BY DEF MadeBy
<1>2. \A r \in node.records : \E w \in Q : w.label = n.label /\ r \in w.records
  BY DEF MadeBy
<1>3. \A x \in node.who : \E w \in Q : w.label = n.label /\ x \in w.who
  BY DEF MadeBy
<1> QED BY <1>1, <1>2, <1>3 DEF MadeBy

-----------------------------------------------------------------------------
(* A write leaves the nodes good, and what is known of a node known of it. *)

Shaped(W) == \A w \in W : WriteShape(w)
\* Nodes stay, and so do the properties that only those write who look for them.
Later(W, a, b) ==
    \A n \in DOMAIN a :
        /\ n \in DOMAIN b
        /\ \A k \in DOMAIN a[n].props : Settled(W, n.label, k) =>
              k \in DOMAIN b[n].props /\ b[n].props[k] = a[n].props[k]

LEMMA LaterSelf == ASSUME NEW W, NEW a PROVE Later(W, a, a)
BY DEF Later

LEMMA LaterTwice ==
    ASSUME NEW W, NEW a, NEW b, NEW c, Later(W, a, b), Later(W, b, c)
    PROVE  Later(W, a, c)
<1>1. ASSUME NEW n \in DOMAIN a
      PROVE  /\ n \in DOMAIN c
             /\ \A k \in DOMAIN a[n].props : Settled(W, n.label, k) =>
                   k \in DOMAIN c[n].props /\ c[n].props[k] = a[n].props[k]
  BY DEF Later
<1> QED BY <1>1 DEF Later

LEMMA StillMatches ==
    ASSUME NEW W, NEW a, NEW b, NEW p, Later(W, a, b), Matching(a, p) # {},
           \A k \in DOMAIN p.match : Settled(W, p.label, k)
    PROVE  Matching(b, p) # {}
<1>1. PICK n : n \in Matching(a, p)
  OBVIOUS
<1>2. n \in DOMAIN a /\ n.label = p.label
  BY <1>1, MatchingIs
<1>3. ASSUME NEW k \in DOMAIN p.match
      PROVE  p.match[k] # None /\ k \in DOMAIN b[n].props /\ b[n].props[k] = p.match[k]
  <2>1. p.match[k] # None /\ k \in DOMAIN a[n].props /\ a[n].props[k] = p.match[k]
    BY <1>1, MatchingIs
  <2> QED BY <1>2, <2>1 DEF Later
<1>4. n \in DOMAIN b
  BY <1>2 DEF Later
<1>5. n \in Matching(b, p)
  BY <1>2, <1>3, <1>4, MatchingIs
<1> QED BY <1>5

LEMMA StillThere ==
    ASSUME NEW W, NEW a, NEW b, NEW w, Later(W, a, b), There(W, a, w)
    PROVE  There(W, b, w)
BY StillMatches DEF There

\* What a node says of its own name, if that name is only written by who looks for it.
NamesItself(W, n, node) ==
    \A k \in DOMAIN n.by :
        Settled(W, n.label, k) => k \in DOMAIN node.props /\ node.props[k] = n.by[k]
\* The sets of writes that a node may come from.
MadeByNames(W, n, node) ==
    \A P \in SUBSET W : \A v \in P : Closed(W, P) /\ n = NameOf(v) => MadeBy(n, node, P)

LEMMA NodeGoodIs ==
    ASSUME NEW W, NEW n, NEW node
    PROVE  NodeGood(W, n, node) <=>
               (\E w \in W : n = NameOf(w)) /\ NamesItself(W, n, node) /\ MadeByNames(W, n, node)
BY DEF NodeGood, NamesItself, MadeByNames

\* Two writes of one name meet.
LEMMA NamesakesMeet ==
    ASSUME NEW v, NEW w, WriteShape(v), WriteShape(w), NameOf(v) = NameOf(w)
    PROVE  Meets(v, w)
<1>1. v.label = w.label /\ v.match = w.match
  BY DEF NameOf
<1>2. PICK k : k \in DOMAIN w.match
  BY DEF WriteShape
<1>3. k \in DOMAIN w.set /\ w.set[k] = v.match[k] /\ k \in DOMAIN v.match
  BY <1>1, <1>2 DEF WriteShape
<1> QED BY <1>1, <1>3 DEF Meets

\* The row is that of w, a write of W, and merged into the nodes that p matches.
Carries(W, p, row, w) ==
    Shaped(W) /\ w \in W /\ p.label = w.label /\ p.match = w.match /\ Within(row, w)
Targets(nodes, p) == IF Matching(nodes, p) # {} THEN Matching(nodes, p) ELSE {NameOf(p)}

LEMMA SettledRow ==
    ASSUME NEW W, NEW p, NEW row, NEW w, Carries(W, p, row, w),
           NEW k \in DOMAIN row.props, Settled(W, w.label, k)
    PROVE  k \in DOMAIN p.match /\ row.props[k] = p.match[k]
<1>1. k \in DOMAIN w.set /\ w.set[k] = row.props[k]
  BY DEF Carries, Within
<1>2. k \in DOMAIN w.match
  BY <1>1 DEF Settled, Carries
<1>3. WriteShape(w)
  BY DEF Carries, Shaped
<1>4. w.set[k] = w.match[k]
  BY <1>2, <1>3 DEF WriteShape
<1> QED BY <1>1, <1>2, <1>4 DEF Carries

\* What holds of a node that the row is merged into, as it was.
Ready(W, n, was, row, w) ==
    /\ n.label = w.label
    /\ \E v \in W : n = NameOf(v)
    /\ NamesItself(W, n, was)
    /\ \A P \in SUBSET W : \A v \in P :
          Closed(W, P) /\ n = NameOf(v) => w \in P /\ MadeBy(n, was, P)
    /\ \A k \in DOMAIN row.props : Settled(W, n.label, k) =>
          k \in DOMAIN was.props /\ was.props[k] = row.props[k]

LEMMA HitReady ==
    ASSUME NEW W, NEW nodes, NEW p, NEW row, NEW w, Carries(W, p, row, w), NodesGood(W, nodes),
           NEW n \in Matching(nodes, p)
    PROVE  Ready(W, n, nodes[n], row, w)
<1>1. n \in DOMAIN nodes /\ n.label = w.label
  BY MatchingIs DEF Carries
<1>2. NodeGood(W, n, nodes[n])
  BY <1>1 DEF NodesGood
<1>3. (\E v \in W : n = NameOf(v)) /\ NamesItself(W, n, nodes[n]) /\ MadeByNames(W, n, nodes[n])
  BY <1>2, NodeGoodIs
<1>4. \A k \in DOMAIN p.match : k \in DOMAIN nodes[n].props /\ nodes[n].props[k] = p.match[k]
  BY MatchingIs
<1>5. ASSUME NEW P \in SUBSET W, NEW v \in P, Closed(W, P), n = NameOf(v)
      PROVE  w \in P /\ MadeBy(n, nodes[n], P)
  <2>1. MadeBy(n, nodes[n], P)
    BY <1>3, <1>5 DEF MadeByNames
  <2>2. PICK k : k \in DOMAIN w.match
    BY DEF Carries, Shaped, WriteShape
  <2>3. k \in DOMAIN nodes[n].props /\ nodes[n].props[k] = w.match[k]
    BY <1>4, <2>2 DEF Carries
  <2>4. PICK u \in P : u.label = n.label /\ k \in DOMAIN u.set /\ u.set[k] = nodes[n].props[k]
    BY <2>1, <2>3 DEF MadeBy
  <2>5. Meets(w, u)
    BY <1>1, <2>2, <2>3, <2>4 DEF Meets
  <2>6. w \in W
    BY DEF Carries
  <2>7. w \in P
    BY <1>5, <2>5, <2>6 DEF Closed
  <2> QED BY <2>1, <2>7
<1>6. ASSUME NEW k \in DOMAIN row.props, Settled(W, n.label, k)
      PROVE  k \in DOMAIN nodes[n].props /\ nodes[n].props[k] = row.props[k]
  <2>1. k \in DOMAIN p.match /\ row.props[k] = p.match[k]
    BY <1>1, <1>6, SettledRow
  <2> QED BY <1>4, <2>1
<1> QED BY <1>1, <1>3, <1>5, <1>6 DEF Ready

LEMMA NamedReady ==
    ASSUME NEW W, NEW nodes, NEW p, NEW row, NEW w, Carries(W, p, row, w), NodesGood(W, nodes)
    PROVE  Ready(W, NameOf(p), Was(nodes, p, NameOf(p)), row, w)
<1> DEFINE n == NameOf(p)
           was == Was(nodes, p, n)
<1>1. n = NameOf(w) /\ n.label = w.label /\ n.by = w.match /\ w \in W /\ n.by = p.match
  BY DEF Carries, NameOf
<1>2. n \in DOMAIN nodes => was = nodes[n]
  BY DEF Was
<1>3. n \notin DOMAIN nodes => was.props = p.match /\ was.records = {} /\ was.who = {}
  BY DEF Was, NoNode
<1> HIDE DEF n, was
<1>4. ASSUME NEW P \in SUBSET W, NEW v \in P, Closed(W, P), n = NameOf(v) PROVE w \in P
  <2>1. WriteShape(v) /\ WriteShape(w)
    BY <1>1 DEF Carries, Shaped
  <2>2. Meets(v, w)
    BY <1>1, <1>4, <2>1, NamesakesMeet
  <2> QED BY <1>1, <1>4, <2>2 DEF Closed
<1>5. NamesItself(W, n, was)
  <2>1. CASE n \in DOMAIN nodes
    BY <1>2, <2>1, NodeGoodIs DEF NodesGood
  <2>2. CASE n \notin DOMAIN nodes
    BY <1>1, <1>3, <2>2 DEF NamesItself
  <2> QED BY <2>1, <2>2
<1>6. ASSUME NEW P \in SUBSET W, NEW v \in P, Closed(W, P), n = NameOf(v) PROVE MadeBy(n, was, P)
  <2>1. CASE n \in DOMAIN nodes
    <3>1. MadeByNames(W, n, nodes[n])
      BY <2>1, NodeGoodIs DEF NodesGood
    <3> QED BY <1>2, <1>6, <2>1, <3>1 DEF MadeByNames
  <2>2. CASE n \notin DOMAIN nodes
    <3>1. w \in P
      BY <1>4, <1>6
    <3>2. \A k \in DOMAIN w.match : k \in DOMAIN w.set /\ w.set[k] = w.match[k]
      BY <1>1 DEF Carries, Shaped, WriteShape
    <3>3. DOMAIN was.props = DOMAIN w.match /\ \A k \in DOMAIN w.match : was.props[k] = w.match[k]
      BY <1>1, <1>3, <2>2
    <3>4. \A k \in DOMAIN was.props :
             w.label = n.label /\ k \in DOMAIN w.set /\ w.set[k] = was.props[k]
      BY <1>1, <3>2, <3>3
    <3>5. was.records = {} /\ was.who = {}
      BY <1>3, <2>2
    <3> QED BY <3>1, <3>4, <3>5 DEF MadeBy
  <2> QED BY <2>1, <2>2
<1>7. ASSUME NEW k \in DOMAIN row.props, Settled(W, n.label, k)
      PROVE  k \in DOMAIN was.props /\ was.props[k] = row.props[k]
  <2>1. k \in DOMAIN p.match /\ row.props[k] = p.match[k]
    BY <1>1, <1>7, SettledRow
  <2> QED BY <1>1, <1>5, <1>7, <2>1 DEF NamesItself
<1>8. \E v \in W : n = NameOf(v)
  BY <1>1
<1> QED BY <1>1, <1>4, <1>5, <1>6, <1>7, <1>8 DEF Ready, n, was

LEMMA TargetReady ==
    ASSUME NEW W, NEW nodes, NEW p, NEW row, NEW w, Carries(W, p, row, w), NodesGood(W, nodes),
           NEW n \in Targets(nodes, p)
    PROVE  Ready(W, n, Was(nodes, p, n), row, w)
<1>1. CASE Matching(nodes, p) # {}
  <2>1. n \in Matching(nodes, p)
    BY <1>1 DEF Targets
  <2>2. Ready(W, n, nodes[n], row, w)
    BY <2>1, HitReady
  <2>3. n \in DOMAIN nodes
    BY <2>1, MatchingIs
  <2> QED BY <2>2, <2>3 DEF Was
<1>2. CASE Matching(nodes, p) = {}
  <2>1. n = NameOf(p)
    BY <1>2 DEF Targets
  <2> QED BY <2>1, NamedReady
<1> QED BY <1>1, <1>2

LEMMA WrittenGood ==
    ASSUME NEW W, NEW n, NEW was, NEW row, NEW w, NEW new,
           w \in W, Within(row, w), Ready(W, n, was, row, w), Becomes(row, was, new)
    PROVE  /\ NodeGood(W, n, new)
           /\ \A k \in DOMAIN was.props : Settled(W, n.label, k) =>
                 k \in DOMAIN new.props /\ new.props[k] = was.props[k]
<1>1. ASSUME NEW k \in DOMAIN was.props, Settled(W, n.label, k)
      PROVE  k \in DOMAIN new.props /\ new.props[k] = was.props[k]
  <2>1. CASE k \in DOMAIN row.props
    <3>1. was.props[k] = row.props[k]
      BY <1>1, <2>1 DEF Ready
    <3> QED BY <2>1, <3>1 DEF Becomes, Over
  <2>2. CASE k \notin DOMAIN row.props
    BY <2>2 DEF Becomes, Over
  <2> QED BY <2>1, <2>2
<1>2. NamesItself(W, n, new)
  <2>1. NamesItself(W, n, was)
    BY DEF Ready
  <2> QED BY <1>1, <2>1 DEF NamesItself
<1>3. MadeByNames(W, n, new)
  <2>1. ASSUME NEW P \in SUBSET W, NEW v \in P, Closed(W, P), n = NameOf(v) PROVE MadeBy(n, new, P)
    <3>1. w \in P /\ MadeBy(n, was, P) /\ w.label = n.label
      BY <2>1 DEF Ready
    <3> QED BY <3>1, AddedBy
  <2> QED BY <2>1 DEF MadeByNames
<1>4. \E v \in W : n = NameOf(v)
  BY DEF Ready
<1> QED BY <1>1, <1>2, <1>3, <1>4, NodeGoodIs

LEMMA MergeTargets ==
    ASSUME NEW nodes, NEW p, NEW row
    PROVE  /\ DOMAIN Merge(nodes, p, row) = Targets(nodes, p) \cup DOMAIN nodes
           /\ \A n \in Targets(nodes, p) : Becomes(row, Was(nodes, p, n), Merge(nodes, p, row)[n])
           /\ \A n \in DOMAIN nodes :
                 n \notin Targets(nodes, p) => Merge(nodes, p, row)[n] = nodes[n]
BY MergeIs DEF Targets

LEMMA MergeGood ==
    ASSUME NEW W, NEW nodes, NEW p, NEW row, NEW w, Carries(W, p, row, w), NodesGood(W, nodes)
    PROVE  NodesGood(W, Merge(nodes, p, row)) /\ Later(W, nodes, Merge(nodes, p, row))
<1> DEFINE new == Merge(nodes, p, row)
           targets == Targets(nodes, p)
<1>1. /\ DOMAIN new = targets \cup DOMAIN nodes
      /\ \A n \in targets : Becomes(row, Was(nodes, p, n), new[n])
      /\ \A n \in DOMAIN nodes : n \notin targets => new[n] = nodes[n]
  BY MergeTargets
<1>2. w \in W /\ Within(row, w)
  BY DEF Carries
<1>3. \A n \in targets : Ready(W, n, Was(nodes, p, n), row, w)
  BY TargetReady
<1> HIDE DEF new, targets
<1>4. ASSUME NEW n \in targets
      PROVE  /\ NodeGood(W, n, new[n])
             /\ \A k \in DOMAIN Was(nodes, p, n).props : Settled(W, n.label, k) =>
                   k \in DOMAIN new[n].props /\ new[n].props[k] = Was(nodes, p, n).props[k]
  BY <1>1, <1>2, <1>3, WrittenGood
<1>5. ASSUME NEW n \in DOMAIN new PROVE NodeGood(W, n, new[n])
  <2>1. CASE n \in targets
    BY <1>4, <2>1
  <2>2. CASE n \notin targets
    BY <1>1, <2>2 DEF NodesGood
  <2> QED BY <2>1, <2>2
<1>6. ASSUME NEW n \in DOMAIN nodes, NEW k \in DOMAIN nodes[n].props, Settled(W, n.label, k)
      PROVE  k \in DOMAIN new[n].props /\ new[n].props[k] = nodes[n].props[k]
  <2>1. CASE n \in targets
    <3>1. Was(nodes, p, n) = nodes[n]
      BY DEF Was
    <3> QED BY <1>4, <1>6, <2>1, <3>1
  <2>2. CASE n \notin targets
    BY <1>1, <2>2
  <2> QED BY <2>1, <2>2
<1> QED BY <1>1, <1>5, <1>6 DEF NodesGood, Later, new

LEMMA MergeThere ==
    ASSUME NEW W, NEW nodes, NEW p, NEW row, NEW w, Carries(W, p, row, w), NodesGood(W, nodes)
    PROVE  There(W, Merge(nodes, p, row), w)
<1> DEFINE new == Merge(nodes, p, row)
<1>1. SUFFICES ASSUME \A k \in DOMAIN w.match : Settled(W, w.label, k)
               PROVE  Matching(new, w) # {}
  BY DEF There
<1>2. PICK n : n \in Targets(nodes, p)
  BY DEF Targets
<1>3. n \in DOMAIN new /\ Becomes(row, Was(nodes, p, n), new[n])
  BY <1>2, MergeTargets
<1>4. Ready(W, n, Was(nodes, p, n), row, w)
  BY <1>2, TargetReady
<1>5. w \in W /\ Within(row, w) /\ p.match = w.match /\ p.label = w.label
  BY DEF Carries
<1> HIDE DEF new
<1>6. \A k \in DOMAIN Was(nodes, p, n).props : Settled(W, n.label, k) =>
         k \in DOMAIN new[n].props /\ new[n].props[k] = Was(nodes, p, n).props[k]
  BY <1>3, <1>4, <1>5, WrittenGood
<1>7. n.label = w.label
  BY <1>4 DEF Ready
<1>8. ASSUME NEW k \in DOMAIN w.match
      PROVE  k \in DOMAIN Was(nodes, p, n).props /\ Was(nodes, p, n).props[k] = w.match[k]
  <2>1. CASE Matching(nodes, p) # {}
    <3>1. n \in Matching(nodes, p)
      BY <1>2, <2>1 DEF Targets
    <3>2. n \in DOMAIN nodes /\ k \in DOMAIN nodes[n].props /\ nodes[n].props[k] = w.match[k]
      BY <1>5, <3>1, MatchingIs
    <3> QED BY <3>2 DEF Was
  <2>2. CASE Matching(nodes, p) = {}
    <3>1. n = NameOf(p)
      BY <1>2, <2>2 DEF Targets
    <3>2. n.by = w.match
      BY <1>5, <3>1 DEF NameOf
    <3> QED BY <1>1, <1>4, <1>7, <3>2 DEF Ready, NamesItself
  <2> QED BY <2>1, <2>2
<1>9. ASSUME NEW k \in DOMAIN w.match
      PROVE  w.match[k] # None /\ k \in DOMAIN new[n].props /\ new[n].props[k] = w.match[k]
  <2>1. w.match[k] # None
    BY DEF Carries, Shaped, WriteShape, Absent
  <2> QED BY <1>1, <1>6, <1>7, <1>8, <2>1
<1>10. n \in Matching(new, w)
  BY <1>3, <1>7, <1>9, MatchingIs
<1> QED BY <1>10

-----------------------------------------------------------------------------
(* A row of nodes, and a row of links. *)

LEMMA WriteCarries ==
    ASSUME NEW W, Shaped(W), NEW p, NEW row, NEW new, Write(p, row) \in W,
           \/ new = row
           \/ DOMAIN new.props = {} /\ new.records = row.records /\ new.who = row.who
    PROVE  Carries(W, p, new, Write(p, row))
<1> DEFINE w == Write(p, row)
<1>1. w.label = p.label /\ w.match = p.match /\ w.set = Over(row.props, p.match)
      /\ w.records = row.records /\ w.who = row.who
  BY DEF Write
<1> HIDE DEF w
<1>2. \A k \in DOMAIN row.props : k \in DOMAIN w.set /\ w.set[k] = row.props[k]
  BY <1>1 DEF Over
<1>3. Within(new, w)
  BY <1>1, <1>2 DEF Within
<1> QED BY <1>1, <1>3 DEF Carries, w

LEMMA SamePattern ==
    ASSUME NEW nodes, NEW p, NEW q, p.label = q.label, p.match = q.match
    PROVE  Matching(nodes, p) = Matching(nodes, q)
BY DEF Matching

LEMMA LinksStay ==
    ASSUME NEW W, NEW R, NEW a, NEW b, LinksGood(W, R, a), b.links = a.links,
           Later(W, a.nodes, b.nodes)
    PROVE  LinksGood(W, R, b)
<1>1. ASSUME NEW l \in DOMAIN b.links PROVE LinkGood(W, R, b.nodes, l, b.links[l].records)
  <2>1. LinkGood(W, R, a.nodes, l, b.links[l].records)
    BY DEF LinksGood
  <2>2. l[2] \in DOMAIN b.nodes /\ l[3] \in DOMAIN b.nodes
    BY <2>1 DEF LinkGood, Later
  <2> QED BY <2>1, <2>2 DEF LinkGood
<1> QED BY <1>1 DEF LinksGood

LEMMA LoadNodeGood ==
    ASSUME NEW W, NEW R, NEW L, NEW D, NEW g, NEW part, NEW row, Shaped(W), Good(W, R, L, D, g),
           ~Absent(KeyOf(part, row)) => Write(KeyOf(part, row), row) \in W
    PROVE  /\ Good(W, R, L, D, LoadNode(g, part, row))
           /\ Later(W, g.nodes, LoadNode(g, part, row).nodes)
           /\ ~Absent(KeyOf(part, row)) =>
                 There(W, LoadNode(g, part, row).nodes, Write(KeyOf(part, row), row))
<1> DEFINE p == KeyOf(part, row)
           w == Write(p, row)
           new == LoadNode(g, part, row)
<1>1. CASE Absent(p)
  BY <1>1, LaterSelf DEF LoadNode
<1>2. CASE ~Absent(p)
  <2>1. new.nodes = Merge(g.nodes, p, row) /\ new.links = g.links /\ new.lost = g.lost
    BY <1>2 DEF LoadNode
  <2>2. w \in W
    BY <1>2
  <2> HIDE DEF p, new
  <2>3. Carries(W, p, row, w)
    BY <2>2, WriteCarries
  <2> HIDE DEF w
  <2>4. NodesGood(W, g.nodes)
    BY DEF Good
  <2>5. NodesGood(W, new.nodes) /\ Later(W, g.nodes, new.nodes) /\ There(W, new.nodes, w)
    BY <2>1, <2>3, <2>4, MergeGood, MergeThere
  <2>6. LinksGood(W, R, new)
    BY <2>1, <2>5, LinksStay DEF Good
  <2>7. new.lost \subseteq L
    BY <2>1 DEF Good
  <2>8. \A v \in D : There(W, new.nodes, v)
    BY <2>5, StillThere DEF Good
  <2>9. Good(W, R, L, D, new)
    BY <2>5, <2>6, <2>7, <2>8 DEF Good
  <2> QED BY <2>5, <2>9 DEF p, w, new
<1> QED BY <1>1, <1>2

LEMMA CreateEndGood ==
    ASSUME NEW W, NEW nodes, NEW e, Shaped(W), NodesGood(W, nodes),
           e[1].creates /\ ~Absent(e[1]) => Write(e[1], e[1]) \in W
    PROVE  /\ NodesGood(W, CreateEnd(nodes, e))
           /\ Later(W, nodes, CreateEnd(nodes, e))
           /\ e[1].creates /\ ~Absent(e[1]) => There(W, CreateEnd(nodes, e), e[1])
<1> DEFINE p == e[1]
           w == Write(p, p)
           row == [props |-> IF Matching(nodes, p) # {} THEN <<>> ELSE p.props,
                   records |-> p.records, shown |-> p.records, who |-> p.who]
           new == CreateEnd(nodes, e)
<1>1. CASE ~(p.creates /\ ~Absent(p))
  <2>1. new = nodes
    BY <1>1 DEF CreateEnd
  <2> QED BY <1>1, <2>1, LaterSelf
<1>2. CASE p.creates /\ ~Absent(p)
  <2>1. new = Merge(nodes, p, row)
    BY <1>2 DEF CreateEnd
  <2>2. w \in W
    BY <1>2
  <2>3. row.records = p.records /\ row.who = p.who
        /\ (DOMAIN row.props = {} \/ row.props = p.props)
    OBVIOUS
  <2>4. w.label = p.label /\ w.match = p.match
    BY DEF Write
  <2>5. Within(row, w)
    <3>1. w.set = Over(p.props, p.match) /\ w.records = p.records /\ w.who = p.who
      BY DEF Write
    <3> HIDE DEF w, row
    <3>2. \A k \in DOMAIN p.props : k \in DOMAIN w.set /\ w.set[k] = p.props[k]
      BY <3>1 DEF Over
    <3>3. \A k \in DOMAIN row.props : k \in DOMAIN w.set /\ w.set[k] = row.props[k]
      BY <2>3, <3>2
    <3> QED BY <2>3, <3>1, <3>3 DEF Within
  <2> HIDE DEF w, row, new, p
  <2>6. Carries(W, p, row, w)
    BY <2>2, <2>4, <2>5 DEF Carries
  <2>7. NodesGood(W, new) /\ Later(W, nodes, new) /\ There(W, new, w)
    BY <2>1, <2>6, MergeGood, MergeThere
  <2>8. There(W, new, p)
    BY <2>4, <2>7, SamePattern DEF There
  <2> QED BY <2>7, <2>8 DEF new, p
<1> QED BY <1>1, <1>2

\* The nodes that an end is, are those of one of its patterns, and none only if none has any.
LEMMA EndNodesAre ==
    ASSUME NEW nodes, NEW e, IsSequence(e)
    PROVE  /\ \A n \in EndNodes(nodes, e) : \E i \in DOMAIN e : n \in Matching(nodes, e[i])
           /\ \A i \in DOMAIN e : Matching(nodes, e[i]) # {} => EndNodes(nodes, e) # {}
<1> DEFINE found == {i \in DOMAIN e : Matching(nodes, e[i]) # {}}
           first == CHOOSE i \in found : \A j \in found : i <= j
<1>1. EndNodes(nodes, e) = IF found = {} THEN {} ELSE Matching(nodes, e[first])
  BY DEF EndNodes
<1>2. found \in SUBSET Nat
  BY DEF IsSequence
<1>3. \A i \in found : i \in DOMAIN e /\ Matching(nodes, e[i]) # {}
  OBVIOUS
<1>4. \A i \in DOMAIN e : Matching(nodes, e[i]) # {} => i \in found
  OBVIOUS
<1>5. ASSUME found # {} PROVE first \in found
  <2> HIDE DEF found
  <2>1. \E i \in found : \A j \in found : i <= j
    BY <1>2, <1>5, LeastNatural
  <2> QED BY <2>1
<1> HIDE DEF found, first
<1>6. ASSUME NEW n \in EndNodes(nodes, e) PROVE \E i \in DOMAIN e : n \in Matching(nodes, e[i])
  BY <1>1, <1>3, <1>5
<1>7. ASSUME NEW i \in DOMAIN e, Matching(nodes, e[i]) # {} PROVE EndNodes(nodes, e) # {}
  BY <1>1, <1>3, <1>4, <1>5, <1>7
<1> QED BY <1>6, <1>7

LEMMA ClosedRest ==
    ASSUME NEW W, NEW P \in SUBSET W, Closed(W, P)
    PROVE  Closed(W, W \ P)
<1>1. ASSUME NEW v \in W \ P, NEW w \in W, Meets(v, w) \/ Meets(w, v) PROVE w \in W \ P
  <2>1. ASSUME w \in P PROVE FALSE
    <3>1. v \in P
      BY <1>1, <2>1 DEF Closed
    <3> QED BY <3>1
  <2> QED BY <2>1
<1> QED BY <1>1 DEF Closed

\* A node that a pattern of the end matches comes from the writes that the pattern looks for.
LEMMA EndIsGood ==
    ASSUME NEW W, NEW nodes, NEW e, NodesGood(W, nodes), NEW i \in DOMAIN e,
           NEW n \in Matching(nodes, e[i]), IsSequence(e)
    PROVE  n \in DOMAIN nodes /\ EndGood(W, e, n)
<1> DEFINE p == e[i]
<1>1. p \in ToSet(e)
  BY DEF ToSet
<1>2. /\ n \in DOMAIN nodes /\ n.label = p.label
      /\ \A k \in DOMAIN p.match :
            p.match[k] # None /\ k \in DOMAIN nodes[n].props /\ nodes[n].props[k] = p.match[k]
  BY MatchingIs
<1> HIDE DEF p
<1>3. ~Absent(p)
  BY <1>2 DEF Absent
<1>4. (\E v \in W : n = NameOf(v)) /\ MadeByNames(W, n, nodes[n])
  BY <1>2, NodeGoodIs DEF NodesGood
<1>5. ASSUME NEW P \in SUBSET W, Closed(W, P), Points(W, p, P) PROVE \E v \in P : n = NameOf(v)
  <2>1. PICK k \in DOMAIN p.match : \A w \in W :
            w.label = p.label /\ k \in DOMAIN w.set /\ w.set[k] = p.match[k] => w \in P
    BY <1>5 DEF Points
  <2>2. PICK v \in W : n = NameOf(v)
    BY <1>4
  <2>3. ASSUME v \notin P PROVE FALSE
    <3>1. v \in W \ P /\ W \ P \in SUBSET W
      BY <2>3
    <3>2. Closed(W, W \ P)
      BY <1>5, ClosedRest
    <3>3. MadeBy(n, nodes[n], W \ P)
      BY <1>4, <2>2, <3>1, <3>2 DEF MadeByNames
    <3>4. k \in DOMAIN nodes[n].props /\ nodes[n].props[k] = p.match[k]
      BY <1>2
    <3>5. PICK u \in W \ P : u.label = n.label /\ k \in DOMAIN u.set /\ u.set[k] = nodes[n].props[k]
      BY <3>3, <3>4 DEF MadeBy
    <3> QED BY <1>2, <2>1, <3>4, <3>5
  <2> QED BY <2>2, <2>3
<1>6. EndGood(W, e, n)
  BY <1>1, <1>2, <1>3, <1>5 DEF EndGood
<1> QED BY <1>2, <1>6

\* The nodes after the ends of a row of links are merged.
EndsOf(g, row) == EndNodes(NodesOf(g, row), row.from) \X EndNodes(NodesOf(g, row), row.to)

LostRow(part, row) ==
    [type |-> part.type, from |-> row.from, to |-> row.to, record |-> row.record]

LEMMA LoadLinkIs ==
    ASSUME NEW g, NEW part, NEW row
    PROVE  LET new == LoadLink(g, part, row)
               ids == {<<part.type, e[1], e[2], row.key>> : e \in EndsOf(g, row)}
           IN  /\ new.nodes = NodesOf(g, row)
               /\ DOMAIN new.links = ids \cup DOMAIN g.links
               /\ \A l \in ids : new.links[l].records =
                     (IF l \in DOMAIN g.links THEN g.links[l].records ELSE {}) \cup {row.record}
               /\ \A l \in DOMAIN g.links : l \notin ids => new.links[l] = g.links[l]
               /\ \A x \in new.lost :
                     x \in g.lost \/ (x = LostRow(part, row) /\ EndsOf(g, row) = {} /\ ~Blank(row))
<1> DEFINE new == LoadLink(g, part, row)
           ids == {<<part.type, e[1], e[2], row.key>> : e \in EndsOf(g, row)}
           Old(l) == IF l \in DOMAIN g.links THEN g.links[l].records ELSE {}
           added == [l \in ids |-> [records |-> Old(l) \cup {row.record}, last |-> row.record]]
           x0 == LostRow(part, row)
<1>1. new.nodes = NodesOf(g, row)
  BY DEF LoadLink, Linked, LinkEnds
<1>2. new.links = Over(added, g.links)
  BY DEF LoadLink, Linked, LinkEnds, EndsOf
<1>3. new.lost = IF EndsOf(g, row) = {} /\ ~Blank(row) THEN g.lost \cup {x0} ELSE g.lost
  BY DEF LoadLink, Linked, LinkEnds, EndsOf, LostRow
<1>4. DOMAIN added = ids /\ \A l \in ids : added[l].records = Old(l) \cup {row.record}
  OBVIOUS
<1> HIDE DEF new, ids, added
<1>5. /\ DOMAIN new.links = ids \cup DOMAIN g.links
      /\ \A l \in ids : new.links[l] = added[l]
      /\ \A l \in DOMAIN g.links : l \notin ids => new.links[l] = g.links[l]
  BY <1>2, <1>4 DEF Over
<1>6. \A l \in ids : new.links[l].records = Old(l) \cup {row.record}
  BY <1>4, <1>5
<1>7. ASSUME NEW x \in new.lost
      PROVE  x \in g.lost \/ (x = x0 /\ EndsOf(g, row) = {} /\ ~Blank(row))
  <2> HIDE DEF x0
  <2>1. CASE EndsOf(g, row) = {} /\ ~Blank(row)
    <3>1. x \in g.lost \/ x = x0
      BY <1>3, <2>1
    <3> QED BY <2>1, <3>1
  <2>2. CASE ~(EndsOf(g, row) = {} /\ ~Blank(row))
    BY <1>3, <2>2
  <2> QED BY <2>1, <2>2
<1> QED BY <1>1, <1>5, <1>6, <1>7 DEF new, ids

\* The row's ends are sequences of patterns, and what it merges is written by W.
RowFits(W, R, row) ==
    /\ row \in R /\ IsSequence(row.from) /\ IsSequence(row.to)
    /\ \A e \in {row.from, row.to} : e[1].creates /\ ~Absent(e[1]) => Write(e[1], e[1]) \in W

LEMMA NodesOfGood ==
    ASSUME NEW W, NEW R, NEW g, NEW row, Shaped(W), NodesGood(W, g.nodes), RowFits(W, R, row)
    PROVE  /\ NodesGood(W, NodesOf(g, row)) /\ Later(W, g.nodes, NodesOf(g, row))
           /\ row.from[1].creates /\ ~Absent(row.from[1]) =>
                 There(W, CreateEnd(g.nodes, row.from), row.from[1])
           /\ Later(W, CreateEnd(g.nodes, row.from), NodesOf(g, row))
           /\ EndNodes(CreateEnd(g.nodes, row.from), row.from) # {} =>
                 (row.to[1].creates /\ ~Absent(row.to[1]) =>
                      There(W, NodesOf(g, row), row.to[1]))
<1> DEFINE first == CreateEnd(g.nodes, row.from)
           second == CreateEnd(first, row.to)
<1>1. /\ NodesGood(W, first) /\ Later(W, g.nodes, first)
      /\ row.from[1].creates /\ ~Absent(row.from[1]) => There(W, first, row.from[1])
  BY CreateEndGood DEF RowFits
<1>2. NodesOf(g, row) = IF EndNodes(first, row.from) = {} THEN first ELSE second
  BY DEF NodesOf, SecondEnd
<1>3. row.to[1].creates /\ ~Absent(row.to[1]) => Write(row.to[1], row.to[1]) \in W
  BY DEF RowFits
<1> HIDE DEF first
<1>4. /\ NodesGood(W, second) /\ Later(W, first, second)
      /\ row.to[1].creates /\ ~Absent(row.to[1]) => There(W, second, row.to[1])
  BY <1>1, <1>3, CreateEndGood
<1> HIDE DEF second
<1>5. Later(W, first, first) /\ Later(W, g.nodes, second)
  BY <1>1, <1>4, LaterSelf, LaterTwice
<1>6. CASE EndNodes(first, row.from) = {}
  BY <1>1, <1>2, <1>5, <1>6 DEF first
<1>7. CASE EndNodes(first, row.from) # {}
  BY <1>1, <1>2, <1>4, <1>5, <1>7 DEF first
<1> QED BY <1>6, <1>7

\* A pattern whose node is there, or the first one when it is merged, finds it.
LEMMA PatternFound ==
    ASSUME NEW W, NEW D, NEW nodes, NEW e, NEW i,
           ~Absent(e[i]), \A k \in DOMAIN e[i].match : Settled(W, e[i].label, k),
           \/ There(W, nodes, e[i])
           \/ \E w \in D : w.label = e[i].label /\ w.match = e[i].match,
           \A w \in D : There(W, nodes, w)
    PROVE  Matching(nodes, e[i]) # {}
<1>1. CASE There(W, nodes, e[i])
  BY <1>1 DEF There
<1>2. ASSUME NEW w \in D, w.label = e[i].label, w.match = e[i].match
      PROVE  Matching(nodes, e[i]) # {}
  <2>1. Matching(nodes, w) # {}
    BY <1>2 DEF There
  <2> QED BY <1>2, <2>1, SamePattern
<1> QED BY <1>1, <1>2

LEMMA EndsFound ==
    ASSUME NEW W, NEW R, NEW L, NEW D, NEW g, NEW row, Shaped(W), Good(W, R, L, D, g), RowFits(W, R, row),
           EndFound(W, D, row.from), EndFound(W, D, row.to), ~Blank(row)
    PROVE  EndsOf(g, row) # {}
<1> DEFINE first == CreateEnd(g.nodes, row.from)
           nodes == NodesOf(g, row)
<1>1. NodesGood(W, g.nodes) /\ \A w \in D : There(W, g.nodes, w)
  BY DEF Good
<1>2. /\ Later(W, g.nodes, first)
      /\ row.from[1].creates /\ ~Absent(row.from[1]) => There(W, first, row.from[1])
  BY <1>1, CreateEndGood DEF RowFits
<1>3. /\ Later(W, g.nodes, nodes) /\ Later(W, first, nodes)
      /\ EndNodes(first, row.from) # {} =>
            (row.to[1].creates /\ ~Absent(row.to[1]) => There(W, nodes, row.to[1]))
  BY <1>1, NodesOfGood
<1> HIDE DEF first, nodes
<1>4. (\A w \in D : There(W, first, w)) /\ (\A w \in D : There(W, nodes, w))
  BY <1>1, <1>2, <1>3, StillThere
<1>5. PICK i \in DOMAIN row.from :
          /\ ~Absent(row.from[i])
          /\ \A k \in DOMAIN row.from[i].match : Settled(W, row.from[i].label, k)
          /\ \/ i = 1 /\ row.from[i].creates
             \/ \E w \in D : w.label = row.from[i].label /\ w.match = row.from[i].match
  BY DEF EndFound, Blank
<1>6. Matching(first, row.from[i]) # {}
  <2>1. \/ There(W, first, row.from[i])
        \/ \E w \in D : w.label = row.from[i].label /\ w.match = row.from[i].match
    BY <1>2, <1>5
  <2> QED BY <1>4, <1>5, <2>1, PatternFound
<1>7. EndNodes(first, row.from) # {}
  BY <1>6, EndNodesAre DEF RowFits
<1>8. EndNodes(nodes, row.from) # {}
  <2>1. Matching(nodes, row.from[i]) # {}
    BY <1>3, <1>5, <1>6, StillMatches
  <2> QED BY <2>1, EndNodesAre DEF RowFits
<1>9. PICK j \in DOMAIN row.to :
          /\ ~Absent(row.to[j]) /\ \A k \in DOMAIN row.to[j].match : Settled(W, row.to[j].label, k)
          /\ \/ j = 1 /\ row.to[j].creates
             \/ \E w \in D : w.label = row.to[j].label /\ w.match = row.to[j].match
  BY DEF EndFound, Blank
<1>10. Matching(nodes, row.to[j]) # {}
  <2>1. \/ There(W, nodes, row.to[j])
        \/ \E w \in D : w.label = row.to[j].label /\ w.match = row.to[j].match
    BY <1>3, <1>7, <1>9
  <2> QED BY <1>4, <1>9, <2>1, PatternFound
<1>11. EndNodes(nodes, row.to) # {}
  BY <1>10, EndNodesAre DEF RowFits
<1>12. PICK a, b : a \in EndNodes(nodes, row.from) /\ b \in EndNodes(nodes, row.to)
  BY <1>8, <1>11
<1>13. <<a, b>> \in EndsOf(g, row)
  BY <1>12 DEF EndsOf, nodes
<1> QED BY <1>13

LEMMA LoadLinkGood ==
    ASSUME NEW W, NEW R, NEW L, NEW D, NEW g, NEW part, NEW row, Shaped(W), Good(W, R, L, D, g),
           RowFits(W, R, row),
           LostRow(part, row) \in L \/ (EndFound(W, D, row.from) /\ EndFound(W, D, row.to))
    PROVE  Good(W, R, L, D, LoadLink(g, part, row)) /\ Later(W, g.nodes, LoadLink(g, part, row).nodes)
<1> DEFINE new == LoadLink(g, part, row)
           ids == {<<part.type, e[1], e[2], row.key>> : e \in EndsOf(g, row)}
           nodes == NodesOf(g, row)
<1>1. /\ new.nodes = nodes
      /\ DOMAIN new.links = ids \cup DOMAIN g.links
      /\ \A l \in ids : new.links[l].records =
            (IF l \in DOMAIN g.links THEN g.links[l].records ELSE {}) \cup {row.record}
      /\ \A l \in DOMAIN g.links : l \notin ids => new.links[l] = g.links[l]
      /\ \A x \in new.lost :
            x \in g.lost \/ (x = LostRow(part, row) /\ EndsOf(g, row) = {} /\ ~Blank(row))
  BY LoadLinkIs
<1> HIDE DEF new
<1>2. NodesGood(W, g.nodes) /\ LinksGood(W, R, g) /\ g.lost \subseteq L
      /\ \A w \in D : There(W, g.nodes, w)
  BY DEF Good
<1>3. NodesGood(W, nodes) /\ Later(W, g.nodes, nodes)
  BY <1>2, NodesOfGood
<1>4. ASSUME NEW l \in ids
      PROVE  /\ l[2] \in DOMAIN nodes /\ EndGood(W, row.from, l[2])
             /\ l[3] \in DOMAIN nodes /\ EndGood(W, row.to, l[3])
  <2>1. PICK e \in EndsOf(g, row) : l = <<part.type, e[1], e[2], row.key>>
    OBVIOUS
  <2>2. l[2] = e[1] /\ l[3] = e[2] /\ e[1] \in EndNodes(nodes, row.from)
        /\ e[2] \in EndNodes(nodes, row.to)
    BY <2>1 DEF EndsOf
  <2> HIDE DEF nodes, ids
  <2>3. PICK i \in DOMAIN row.from : l[2] \in Matching(nodes, row.from[i])
    BY <2>2, EndNodesAre DEF RowFits
  <2>4. PICK j \in DOMAIN row.to : l[3] \in Matching(nodes, row.to[j])
    BY <2>2, EndNodesAre DEF RowFits
  <2>5. l[2] \in DOMAIN nodes /\ EndGood(W, row.from, l[2])
    BY <1>3, <2>3, EndIsGood DEF RowFits
  <2>6. l[3] \in DOMAIN nodes /\ EndGood(W, row.to, l[3])
    BY <1>3, <2>4, EndIsGood DEF RowFits
  <2> QED BY <2>5, <2>6
<1> HIDE DEF ids, nodes
<1>5. ASSUME NEW l \in DOMAIN new.links PROVE LinkGood(W, R, nodes, l, new.links[l].records)
  <2>1. CASE l \in DOMAIN g.links
    <3>1. LinkGood(W, R, g.nodes, l, g.links[l].records)
      BY <1>2, <2>1 DEF LinksGood
    <3>2. l[2] \in DOMAIN nodes /\ l[3] \in DOMAIN nodes
      BY <1>3, <3>1 DEF LinkGood, Later
    <3>3. ASSUME NEW r \in new.links[l].records
          PROVE  \E q \in R : q.record = r /\ EndGood(W, q.from, l[2]) /\ EndGood(W, q.to, l[3])
      <4>1. CASE r \in g.links[l].records
        BY <3>1, <4>1 DEF LinkGood
      <4>2. CASE r \notin g.links[l].records
        <5>1. l \in ids /\ r = row.record
          BY <1>1, <2>1, <4>2
        <5> QED BY <1>4, <5>1 DEF RowFits
      <4> QED BY <4>1, <4>2
    <3> QED BY <3>2, <3>3 DEF LinkGood
  <2>2. CASE l \notin DOMAIN g.links
    <3>1. l \in ids /\ new.links[l].records = {row.record}
      BY <1>1, <2>2
    <3>2. \A r \in new.links[l].records : r = row.record
      BY <3>1
    <3>3. row \in R
      BY DEF RowFits
    <3> QED BY <1>4, <3>1, <3>2, <3>3 DEF LinkGood
  <2> QED BY <2>1, <2>2
<1>6. LinksGood(W, R, new)
  BY <1>1, <1>5 DEF LinksGood
<1>7. new.lost \subseteq L
  <2>1. ASSUME NEW x \in new.lost, x \notin g.lost PROVE x \in L
    <3>1. x = LostRow(part, row) /\ EndsOf(g, row) = {} /\ ~Blank(row)
      BY <1>1, <2>1
    <3>2. CASE LostRow(part, row) \in L
      BY <3>1, <3>2
    <3>3. CASE EndFound(W, D, row.from) /\ EndFound(W, D, row.to)
      BY <3>1, <3>3, EndsFound
    <3> QED BY <3>2, <3>3
  <2> QED BY <1>2, <2>1
<1>8. \A w \in D : There(W, nodes, w)
  BY <1>2, <1>3, StillThere
<1>9. Good(W, R, L, D, new)
  BY <1>1, <1>3, <1>6, <1>7, <1>8 DEF Good
<1> QED BY <1>1, <1>3, <1>9 DEF new

-----------------------------------------------------------------------------
(* What a node is called. *)

NamesStay(a, b) == \A n \in DOMAIN a : Called(a[n]) => Called(b[n])

LEMMA NamesStayTwice ==
    ASSUME NEW W, NEW a, NEW b, NEW c, Later(W, a, b), NamesStay(a, b), NamesStay(b, c)
    PROVE  NamesStay(a, c)
BY DEF NamesStay, Later

LEMMA OffTarget ==
    ASSUME NEW nodes, NEW p, NEW row, NEW n \in DOMAIN nodes, n \notin Targets(nodes, p)
    PROVE  Merge(nodes, p, row)[n] = nodes[n]
<1>1. \A m \in DOMAIN nodes : m \notin Targets(nodes, p) => Merge(nodes, p, row)[m] = nodes[m]
  BY MergeTargets
<1> QED BY <1>1

LEMMA MergeKeepsNames ==
    ASSUME NEW W, NEW nodes, NEW p, NEW row, NEW w, Carries(W, p, row, w), NodesGood(W, nodes),
           DocumentsSettled(W), NamesAreNames(W, w)
    PROVE  NamesStay(nodes, Merge(nodes, p, row))
<1> DEFINE new == Merge(nodes, p, row)
<1>1. ASSUME NEW n \in DOMAIN nodes, Called(nodes[n]) PROVE Called(new[n])
  <2>1. CASE n \notin Targets(nodes, p)
    <3>1. new[n] = nodes[n]
      BY <2>1, OffTarget
    <3> QED BY <1>1, <3>1
  <2>2. CASE n \in Targets(nodes, p)
    <3>1. Becomes(row, Was(nodes, p, n), new[n]) /\ Was(nodes, p, n) = nodes[n]
      BY <2>2, MergeTargets DEF Was
    <3>2. Ready(W, n, nodes[n], row, w)
      BY <2>2, <3>1, TargetReady
    <3>3. w \in W /\ Within(row, w)
      BY DEF Carries
    <3> DEFINE old == nodes[n]
               now == new[n]
    <3>4. Becomes(row, old, now) /\ Ready(W, n, old, row, w)
      BY <3>1, <3>2
    <3> HIDE DEF old, now, new
    <3>5. NodeGood(W, n, now) /\ n.label = w.label
      BY <3>3, <3>4, WrittenGood DEF Ready
    <3>6. MadeBy(n, now, W)
      <4>1. Closed(W, W)
        BY DEF Closed
      <4>2. W \in SUBSET W /\ \E v \in W : n = NameOf(v)
        BY <3>4 DEF Ready
      <4> QED BY <3>5, <4>1, <4>2 DEF NodeGood
    <3>7. \A d \in DocumentKeys : Settled(W, n.label, d)
      BY <3>3, <3>5 DEF DocumentsSettled
    <3>8. DOMAIN now.props = DOMAIN row.props \cup DOMAIN old.props
          /\ (\A k \in DOMAIN row.props : now.props[k] = row.props[k])
          /\ (\A k \in DOMAIN old.props : k \notin DOMAIN row.props => now.props[k] = old.props[k])
      BY <3>4 DEF Becomes, Over
    <3>9. \A d \in DocumentKeys \cap DOMAIN now.props :
             d \in DOMAIN old.props /\ now.props[d] = old.props[d]
      <4>1. ASSUME NEW d \in DocumentKeys \cap DOMAIN now.props
            PROVE  d \in DOMAIN old.props /\ now.props[d] = old.props[d]
        <5>1. CASE d \in DOMAIN row.props
          <6>1. d \in DOMAIN old.props /\ old.props[d] = row.props[d]
            BY <3>4, <3>7, <5>1 DEF Ready
          <6> QED BY <3>8, <5>1, <6>1
        <5>2. CASE d \notin DOMAIN row.props
          BY <3>8, <5>2
        <5> QED BY <5>1, <5>2
      <4> QED BY <4>1
    <3>10. PICK k \in NameKeys \cap DOMAIN old.props :
              /\ old.props[k] # None
              /\ \A d \in DocumentKeys \cap DOMAIN old.props : old.props[k] # old.props[d]
      BY <1>1 DEF Called, old
    <3>11. CASE k \in DOMAIN row.props
      <4>1. k \in DOMAIN w.set /\ w.set[k] = now.props[k]
        BY <3>3, <3>8, <3>11 DEF Within
      <4>2. w.set[k] # None
            /\ \A v \in W : v.label = w.label =>
                  \A d \in DocumentKeys \cap DOMAIN v.set : w.set[k] # v.set[d]
        BY <3>10, <4>1 DEF NamesAreNames
      <4>3. \A d \in DocumentKeys \cap DOMAIN now.props :
               \E v \in W : v.label = w.label /\ d \in DOMAIN v.set /\ v.set[d] = now.props[d]
        BY <3>5, <3>6 DEF MadeBy
      <4>4. \A d \in DocumentKeys \cap DOMAIN now.props : now.props[k] # now.props[d]
        BY <4>1, <4>2, <4>3
      <4>5. k \in NameKeys \cap DOMAIN now.props
        BY <3>8, <3>10
      <4> QED BY <4>1, <4>2, <4>4, <4>5 DEF Called, now
    <3>12. CASE k \notin DOMAIN row.props
      <4>1. k \in NameKeys \cap DOMAIN now.props /\ now.props[k] = old.props[k]
        BY <3>8, <3>10, <3>12
      <4>2. \A d \in DocumentKeys \cap DOMAIN now.props : now.props[k] # now.props[d]
        BY <3>9, <3>10, <4>1
      <4> QED BY <3>10, <4>1, <4>2 DEF Called, now
    <3> QED BY <3>11, <3>12 DEF now
  <2> QED BY <2>1, <2>2
<1> QED BY <1>1 DEF NamesStay

\* A row without properties writes no name.
LEMMA NothingWritten ==
    ASSUME NEW nodes, NEW p, NEW row, DOMAIN row.props = {}
    PROVE  NamesStay(nodes, Merge(nodes, p, row))
<1> DEFINE new == Merge(nodes, p, row)
<1>1. ASSUME NEW n \in DOMAIN nodes, Called(nodes[n]) PROVE Called(new[n])
  <2>1. CASE n \notin Targets(nodes, p)
    <3>1. new[n] = nodes[n]
      BY <2>1, OffTarget
    <3> QED BY <1>1, <3>1
  <2>2. CASE n \in Targets(nodes, p)
    <3>1. Becomes(row, nodes[n], new[n])
      BY <2>2, MergeTargets DEF Was
    <3> HIDE DEF new
    <3>2. DOMAIN new[n].props = DOMAIN nodes[n].props
          /\ \A k \in DOMAIN nodes[n].props : new[n].props[k] = nodes[n].props[k]
      BY <3>1 DEF Becomes, Over
    <3> QED BY <1>1, <3>2 DEF Called
  <2> QED BY <2>1, <2>2
<1> QED BY <1>1 DEF NamesStay

LEMMA EndKeepsNames ==
    ASSUME NEW W, NEW nodes, NEW e, Shaped(W), NodesGood(W, nodes), DocumentsSettled(W),
           e[1].creates /\ ~Absent(e[1]) =>
               /\ Write(e[1], e[1]) \in W
               /\ \/ NamesAreNames(W, Write(e[1], e[1]))
                  \/ \A k \in DOMAIN e[1].match : Settled(W, e[1].label, k)
    PROVE  NamesStay(nodes, CreateEnd(nodes, e))
<1> DEFINE p == e[1]
           w == Write(p, p)
           row == [props |-> IF Matching(nodes, p) # {} THEN <<>> ELSE p.props,
                   records |-> p.records, shown |-> p.records, who |-> p.who]
           new == CreateEnd(nodes, e)
<1>1. CASE ~(p.creates /\ ~Absent(p))
  <2>1. new = nodes
    BY <1>1 DEF CreateEnd
  <2> QED BY <2>1 DEF NamesStay
<1>2. CASE p.creates /\ ~Absent(p)
  <2>1. new = Merge(nodes, p, row)
    BY <1>2 DEF CreateEnd
  <2>2. CASE Matching(nodes, p) # {}
    <3>1. DOMAIN row.props = {}
      BY <2>2
    <3> HIDE DEF row, p
    <3> QED BY <2>1, <3>1, NothingWritten
  <2>3. CASE Matching(nodes, p) = {} /\ NamesAreNames(W, w)
    <3>1. row.props = p.props /\ row.records = p.records /\ row.who = p.who
      BY <2>3
    <3>2. w \in W /\ w.label = p.label /\ w.match = p.match
      BY <1>2 DEF Write
    <3>3. Within(row, w)
      <4>1. w.set = Over(p.props, p.match) /\ w.records = p.records /\ w.who = p.who
        BY DEF Write
      <4> HIDE DEF w, row, p
      <4>2. \A k \in DOMAIN p.props : k \in DOMAIN w.set /\ w.set[k] = p.props[k]
        BY <4>1 DEF Over
      <4> QED BY <3>1, <4>1, <4>2 DEF Within
    <3> HIDE DEF row, w, p, new
    <3>4. Carries(W, p, row, w)
      BY <3>2, <3>3 DEF Carries
    <3> QED BY <2>1, <2>3, <3>4, MergeKeepsNames DEF new
  <2>4. CASE Matching(nodes, p) = {} /\ \A k \in DOMAIN p.match : Settled(W, p.label, k)
    <3>1. ASSUME NEW n \in DOMAIN nodes, n = NameOf(p) PROVE FALSE
      <4>1. NamesItself(W, n, nodes[n]) /\ n.by = p.match /\ n.label = p.label
        BY <3>1, NodeGoodIs DEF NodesGood, NameOf
      <4>2. \A k \in DOMAIN p.match : k \in DOMAIN nodes[n].props /\ nodes[n].props[k] = p.match[k]
        BY <2>4, <4>1 DEF NamesItself
      <4>3. \A k \in DOMAIN p.match : p.match[k] # None
        BY <1>2 DEF Absent
      <4> HIDE DEF p
      <4>4. n \in Matching(nodes, p)
        BY <4>1, <4>2, <4>3, MatchingIs
      <4> QED BY <2>4, <4>4
    <3>2. Targets(nodes, p) = {NameOf(p)}
      BY <2>4 DEF Targets
    <3> HIDE DEF p, row
    <3>3. ASSUME NEW n \in DOMAIN nodes PROVE Merge(nodes, p, row)[n] = nodes[n]
      <4>1. n \notin Targets(nodes, p)
        BY <3>1, <3>2
      <4> QED BY <4>1, OffTarget
    <3> QED BY <2>1, <3>3 DEF NamesStay
  <2> QED BY <1>2, <2>2, <2>3, <2>4
<1> QED BY <1>1, <1>2

-----------------------------------------------------------------------------
(* Parts and batches. *)

PartFits(W, R, part) ==
    /\ PartShape(part)
    /\ NodeWrites(part) \subseteq W /\ EndWrites(part) \subseteq W /\ LinkRows(part) \subseteq R
PartFound(W, L, D, part) == Unfound(W, D, part) \subseteq L
NamesGiven(W, part) == DocumentsSettled(W) /\ NamesAreGiven(W, part)

LEMMA FoundWithMore ==
    ASSUME NEW W, NEW L, NEW D, NEW E, D \subseteq E, NEW part, PartFound(W, L, D, part)
    PROVE  PartFound(W, L, E, part)
<1>1. ASSUME NEW e, EndFound(W, D, e) PROVE EndFound(W, E, e)
  BY <1>1 DEF EndFound
<1>2. ASSUME NEW x \in Unfound(W, E, part) PROVE x \in Unfound(W, D, part)
  BY <1>1 DEF Unfound
<1> QED BY <1>2 DEF PartFound

LEMMA NodeRow ==
    ASSUME NEW part, part.act = "nodes", NEW row \in ToSet(part.rows), ~Absent(KeyOf(part, row))
    PROVE  Write(KeyOf(part, row), row) \in NodeWrites(part)
<1> DEFINE w == Write(KeyOf(part, row), row)
<1>1. w.match = KeyOf(part, row).match
  BY DEF Write
<1>2. ~Absent(w)
  BY <1>1 DEF Absent
<1> HIDE DEF w
<1>3. w \in {Write(KeyOf(part, q), q) : q \in ToSet(part.rows)}
  BY DEF w
<1>4. part.act # "links"
  OBVIOUS
<1> QED BY <1>2, <1>3, <1>4 DEF NodeWrites, w

LEMMA LinkRow ==
    ASSUME NEW part, part.act = "links", NEW row \in ToSet(part.rows)
    PROVE  /\ row \in LinkRows(part)
           /\ \A e \in {row.from, row.to} :
                 e[1].creates /\ ~Absent(e[1]) => Write(e[1], e[1]) \in EndWrites(part)
<1>1. row \in LinkRows(part)
  BY DEF LinkRows
<1>2. ASSUME NEW e \in {row.from, row.to}, e[1].creates, ~Absent(e[1])
      PROVE  Write(e[1], e[1]) \in EndWrites(part)
  <2>1. e \in Merged(row)
    BY <1>2 DEF Merged
  <2>2. Write(e[1], e[1]) \in {Write(d[1], d[1]) : d \in Merged(row)}
    BY <2>1
  <2> QED BY <1>1, <2>2 DEF EndWrites
<1> QED BY <1>1, <1>2

LEMMA LoadRowGood ==
    ASSUME NEW W, NEW R, NEW L, NEW D, NEW g, NEW part, NEW row \in ToSet(part.rows),
           Shaped(W), Good(W, R, L, D, g), PartFits(W, R, part), PartFound(W, L, D, part)
    PROVE  /\ Good(W, R, L, D, LoadRow(g, part, row))
           /\ Later(W, g.nodes, LoadRow(g, part, row).nodes)
           /\ NamesGiven(W, part) => NamesStay(g.nodes, LoadRow(g, part, row).nodes)
           /\ part.act = "nodes" /\ ~Absent(KeyOf(part, row)) =>
                 There(W, LoadRow(g, part, row).nodes, Write(KeyOf(part, row), row))
<1>1. CASE part.act = "nodes"
  <2>1. LoadRow(g, part, row) = LoadNode(g, part, row)
    BY <1>1 DEF LoadRow
  <2>2. ~Absent(KeyOf(part, row)) => Write(KeyOf(part, row), row) \in W
    BY <1>1, NodeRow DEF PartFits
  <2>3. /\ Good(W, R, L, D, LoadNode(g, part, row))
        /\ Later(W, g.nodes, LoadNode(g, part, row).nodes)
        /\ ~Absent(KeyOf(part, row)) =>
              There(W, LoadNode(g, part, row).nodes, Write(KeyOf(part, row), row))
    BY <2>2, LoadNodeGood
  <2>4. ASSUME NamesGiven(W, part) PROVE NamesStay(g.nodes, LoadNode(g, part, row).nodes)
    <3> DEFINE p == KeyOf(part, row)
               w == Write(p, row)
    <3>1. CASE Absent(p)
      BY <3>1 DEF LoadNode, NamesStay
    <3>2. CASE ~Absent(p)
      <4>1. LoadNode(g, part, row).nodes = Merge(g.nodes, p, row)
        BY <3>2 DEF LoadNode
      <4>2. w \in NodeWrites(part)
        BY <1>1, <3>2, NodeRow
      <4>3. NamesAreNames(W, w) /\ DocumentsSettled(W) /\ w \in W
        BY <2>2, <2>4, <3>2, <4>2 DEF NamesGiven, NamesAreGiven
      <4> HIDE DEF p
      <4>4. Carries(W, p, row, w)
        BY <4>3, WriteCarries
      <4> HIDE DEF w
      <4>5. NodesGood(W, g.nodes)
        BY DEF Good
      <4> QED BY <4>1, <4>3, <4>4, <4>5, MergeKeepsNames
    <3> QED BY <3>1, <3>2
  <2> QED BY <2>1, <2>3, <2>4
<1>2. CASE part.act = "links"
  <2>1. LoadRow(g, part, row) = LoadLink(g, part, row)
    BY <1>2 DEF LoadRow
  <2>2. row \in R /\ IsSequence(row.from) /\ IsSequence(row.to)
    BY <1>2, LinkRow DEF PartFits, PartShape
  <2>3. \A e \in {row.from, row.to} :
           e[1].creates /\ ~Absent(e[1]) => Write(e[1], e[1]) \in EndWrites(part)
    BY <1>2, LinkRow
  <2>4. RowFits(W, R, row)
    BY <2>2, <2>3 DEF RowFits, PartFits
  <2>5. LostRow(part, row) \in L \/ (EndFound(W, D, row.from) /\ EndFound(W, D, row.to))
    <3>1. row \in LinkRows(part)
      BY <1>2, LinkRow
    <3> QED BY <3>1 DEF PartFound, Unfound, LostRow
  <2>6. Good(W, R, L, D, LoadLink(g, part, row)) /\ Later(W, g.nodes, LoadLink(g, part, row).nodes)
    BY <2>4, <2>5, LoadLinkGood
  <2>7. ASSUME NamesGiven(W, part) PROVE NamesStay(g.nodes, LoadLink(g, part, row).nodes)
    <3> DEFINE first == CreateEnd(g.nodes, row.from)
               second == CreateEnd(first, row.to)
    <3>1. LoadLink(g, part, row).nodes = NodesOf(g, row)
      BY LoadLinkIs
    <3>2. NodesGood(W, g.nodes)
      BY DEF Good
    <3>3. \A e \in {row.from, row.to} : e[1].creates /\ ~Absent(e[1]) =>
             /\ Write(e[1], e[1]) \in W
             /\ \/ NamesAreNames(W, Write(e[1], e[1]))
                \/ \A k \in DOMAIN e[1].match : Settled(W, e[1].label, k)
      <4>1. ASSUME NEW e \in {row.from, row.to}, e[1].creates, ~Absent(e[1])
            PROVE  /\ Write(e[1], e[1]) \in W
                   /\ \/ NamesAreNames(W, Write(e[1], e[1]))
                      \/ \A k \in DOMAIN e[1].match : Settled(W, e[1].label, k)
        <5> DEFINE w == Write(e[1], e[1])
        <5>1. w \in EndWrites(part) /\ w \in W
          BY <2>3, <4>1 DEF PartFits
        <5>2. w.label = e[1].label /\ w.match = e[1].match
          BY DEF Write
        <5>3. NamesAreNames(W, w) \/ \A k \in DOMAIN w.match : Settled(W, w.label, k)
          BY <2>7, <5>1 DEF NamesGiven, NamesAreGiven
        <5> HIDE DEF w
        <5> QED BY <5>1, <5>2, <5>3 DEF w
      <4> QED BY <4>1
    <3>4. DocumentsSettled(W)
      BY <2>7 DEF NamesGiven
    <3>5. NodesGood(W, first) /\ Later(W, g.nodes, first)
      BY <3>2, <3>3, CreateEndGood
    <3>6. NamesStay(g.nodes, first)
      BY <3>2, <3>3, <3>4, EndKeepsNames
    <3> HIDE DEF first
    <3>7. NamesStay(first, second)
      BY <3>3, <3>4, <3>5, EndKeepsNames
    <3> HIDE DEF second
    <3>8. NamesStay(g.nodes, second)
      BY <3>5, <3>6, <3>7, NamesStayTwice
    <3>9. NodesOf(g, row) = first \/ NodesOf(g, row) = second
      BY DEF NodesOf, SecondEnd, first, second
    <3> QED BY <3>1, <3>6, <3>8, <3>9
  <2> QED BY <1>2, <2>1, <2>6, <2>7
<1> QED BY <1>1, <1>2 DEF PartFits, PartShape

\* What the first i rows of a part write.
Written(part, i) ==
    {w \in NodeWrites(part) : \E j \in 1 .. i :
        ~Absent(KeyOf(part, part.rows[j])) /\ w = Write(KeyOf(part, part.rows[j]), part.rows[j])}

LEMMA WrittenAll ==
    ASSUME NEW part, PartShape(part)
    PROVE  NodeWrites(part) \subseteq Written(part, Len(part.rows))
<1>1. ASSUME NEW w \in NodeWrites(part)
      PROVE  \E j \in 1 .. Len(part.rows) :
                ~Absent(KeyOf(part, part.rows[j]))
                /\ w = Write(KeyOf(part, part.rows[j]), part.rows[j])
  <2>1. ~Absent(w) /\ w \in {Write(KeyOf(part, row), row) : row \in ToSet(part.rows)}
    BY DEF NodeWrites
  <2>2. PICK row \in ToSet(part.rows) : w = Write(KeyOf(part, row), row)
    BY <2>1
  <2>3. PICK j \in DOMAIN part.rows : row = part.rows[j]
    BY DEF ToSet
  <2>4. j \in 1 .. Len(part.rows)
    BY DEF PartShape, IsSequence
  <2>5. w.match = KeyOf(part, row).match
    BY <2>2 DEF Write
  <2>6. ~Absent(KeyOf(part, row))
    BY <2>1, <2>5 DEF Absent
  <2> QED BY <2>2, <2>3, <2>4, <2>6
<1> QED BY <1>1 DEF Written

LEMMA LoadPartGood ==
    ASSUME NEW W, NEW R, NEW L, NEW D, NEW g, NEW part,
           Shaped(W), Good(W, R, L, D, g), PartFits(W, R, part), PartFound(W, L, D, part)
    PROVE  /\ Good(W, R, L, D \cup NodeWrites(part), LoadPart(g, part))
           /\ Later(W, g.nodes, LoadPart(g, part).nodes)
           /\ NamesGiven(W, part) => NamesStay(g.nodes, LoadPart(g, part).nodes)
<1> DEFINE n == Len(part.rows)
<1>1. n \in Nat /\ \A i \in 1 .. n : part.rows[i] \in ToSet(part.rows)
  BY DEF PartFits, PartShape, IsSequence, ToSet
<1>2. PICK a : /\ a[0] = g /\ a[n] = LoadPart(g, part)
               /\ \A i \in 1 .. n : a[i] = LoadRow(a[i - 1], part, part.rows[i])
  BY <1>1, LoadPartSteps
<1> HIDE DEF n
<1> DEFINE Ok(i) == /\ Good(W, R, L, D \cup Written(part, i), a[i])
                    /\ Later(W, g.nodes, a[i].nodes)
                    /\ NamesGiven(W, part) => NamesStay(g.nodes, a[i].nodes)
           T == {i \in 0 .. n : ~Ok(i)}
<1>3. Ok(0)
  <2>1. Written(part, 0) = {}
    BY DEF Written
  <2>2. D \cup Written(part, 0) = D
    BY <2>1
  <2>3. NamesStay(g.nodes, g.nodes)
    BY DEF NamesStay
  <2> QED BY <1>2, <2>2, <2>3, LaterSelf
<1>4. ASSUME NEW i \in 1 .. n, Ok(i - 1) PROVE Ok(i)
  <2> DEFINE E == D \cup Written(part, i - 1)
             old == a[i - 1]
             new == a[i]
             row == part.rows[i]
  <2>1. Good(W, R, L, E, old) /\ Later(W, g.nodes, old.nodes)
        /\ (NamesGiven(W, part) => NamesStay(g.nodes, old.nodes))
    BY <1>4
  <2>2. new = LoadRow(old, part, row) /\ row \in ToSet(part.rows)
    BY <1>1, <1>2
  <2>3. PartFound(W, L, E, part)
    BY FoundWithMore
  <2> HIDE DEF E, old, new, row
  <2>4. /\ Good(W, R, L, E, new) /\ Later(W, old.nodes, new.nodes)
        /\ NamesGiven(W, part) => NamesStay(old.nodes, new.nodes)
        /\ part.act = "nodes" /\ ~Absent(KeyOf(part, row)) =>
              There(W, new.nodes, Write(KeyOf(part, row), row))
    BY <2>1, <2>2, <2>3, LoadRowGood
  <2>5. Later(W, g.nodes, new.nodes)
    BY <2>1, <2>4, LaterTwice
  <2>6. NamesGiven(W, part) => NamesStay(g.nodes, new.nodes)
    BY <2>1, <2>4, NamesStayTwice
  <2>7. ASSUME NEW w \in D \cup Written(part, i) PROVE There(W, new.nodes, w)
    <3>1. CASE w \in E
      BY <2>4, <3>1 DEF Good
    <3>2. CASE w \notin E
      <4>1. w \in Written(part, i) /\ w \notin Written(part, i - 1)
        BY <2>7, <3>2 DEF E
      <4>2. PICK j \in 1 .. i :
                ~Absent(KeyOf(part, part.rows[j]))
                /\ w = Write(KeyOf(part, part.rows[j]), part.rows[j])
        BY <4>1 DEF Written
      <4>3. w \in NodeWrites(part) /\ j \notin 1 .. i - 1
        BY <4>1, <4>2 DEF Written
      <4>4. j = i
        BY <1>1, <4>3
      <4>5. part.act = "nodes"
        BY <4>3 DEF NodeWrites, PartFits, PartShape
      <4> QED BY <2>4, <4>2, <4>4, <4>5 DEF row
    <3> QED BY <3>1, <3>2
  <2>8. Good(W, R, L, D \cup Written(part, i), new)
    BY <2>4, <2>7 DEF Good
  <2> QED BY <2>5, <2>6, <2>8 DEF new
<1> HIDE DEF Ok
<1>5. ASSUME T # {} PROVE FALSE
  <2>1. T \in SUBSET Nat
    BY <1>1
  <2>2. PICK i \in T : \A j \in T : i <= j
    <3> HIDE DEF T
    <3> QED BY <1>5, <2>1, LeastNatural
  <2>3. i \in 0 .. n /\ ~Ok(i)
    OBVIOUS
  <2>4. i # 0
    BY <1>3, <2>3
  <2>5. i \in 1 .. n /\ i - 1 \in 0 .. n /\ ~(i <= i - 1)
    BY <1>1, <2>3, <2>4
  <2>6. Ok(i - 1)
    BY <2>2, <2>5
  <2> QED BY <1>4, <2>3, <2>5, <2>6
<1>6. n \in 0 .. n
  BY <1>1
<1>7. Ok(n)
  BY <1>5, <1>6
<1>8. /\ Good(W, R, L, D \cup Written(part, n), LoadPart(g, part))
      /\ Later(W, g.nodes, LoadPart(g, part).nodes)
      /\ NamesGiven(W, part) => NamesStay(g.nodes, LoadPart(g, part).nodes)
  BY <1>2, <1>7 DEF Ok
<1>9. NodeWrites(part) \subseteq Written(part, n)
  BY WrittenAll DEF PartFits, n
<1>10. Good(W, R, L, D \cup NodeWrites(part), LoadPart(g, part))
  BY <1>8, <1>9 DEF Good
<1> QED BY <1>8, <1>10

\* What the first i parts of a batch write.
WrittenParts(b, i) == UNION {NodeWrites(Parts(b)[j]) : j \in 1 .. i}
BatchFits(W, R, b) == IsSequence(Parts(b)) /\ \A part \in BatchParts(b) : PartFits(W, R, part)
BatchFound(W, L, D, b) ==
    \A q \in DOMAIN Parts(b) : PartFound(W, L, D \cup WrittenParts(b, q - 1), Parts(b)[q])
BatchNamesGiven(W, b) == \A part \in BatchParts(b) : NamesGiven(W, part)

LEMMA ApplyGood ==
    ASSUME NEW W, NEW R, NEW L, NEW D, NEW g, NEW b,
           Shaped(W), Good(W, R, L, D, g), BatchFits(W, R, b), BatchFound(W, L, D, b)
    PROVE  /\ Good(W, R, L, D \cup BatchWrites(b), Apply(g, b))
           /\ Later(W, g.nodes, Apply(g, b).nodes)
           /\ BatchNamesGiven(W, b) => NamesStay(g.nodes, Apply(g, b).nodes)
<1> DEFINE n == Len(Parts(b))
<1>1. n \in Nat /\ DOMAIN Parts(b) = 1 .. n
      /\ \A i \in 1 .. n : Parts(b)[i] \in BatchParts(b)
  BY DEF BatchFits, IsSequence, BatchParts, ToSet
<1>2. PICK a : /\ a[0] = g /\ a[n] = Apply(g, b)
               /\ \A i \in 1 .. n : a[i] = LoadPart(a[i - 1], Parts(b)[i])
  BY <1>1, ApplySteps
<1> HIDE DEF n
<1> DEFINE Ok(i) == /\ Good(W, R, L, D \cup WrittenParts(b, i), a[i])
                    /\ Later(W, g.nodes, a[i].nodes)
                    /\ BatchNamesGiven(W, b) => NamesStay(g.nodes, a[i].nodes)
           T == {i \in 0 .. n : ~Ok(i)}
<1>3. Ok(0)
  <2>1. WrittenParts(b, 0) = {}
    BY DEF WrittenParts
  <2>2. D \cup WrittenParts(b, 0) = D
    BY <2>1
  <2>3. NamesStay(g.nodes, g.nodes)
    BY DEF NamesStay
  <2> QED BY <1>2, <2>2, <2>3, LaterSelf
<1>4. ASSUME NEW i \in 1 .. n, Ok(i - 1) PROVE Ok(i)
  <2> DEFINE E == D \cup WrittenParts(b, i - 1)
             old == a[i - 1]
             new == a[i]
             part == Parts(b)[i]
  <2>1. Good(W, R, L, E, old) /\ Later(W, g.nodes, old.nodes)
        /\ (BatchNamesGiven(W, b) => NamesStay(g.nodes, old.nodes))
    BY <1>4
  <2>2. new = LoadPart(old, part) /\ part \in BatchParts(b)
    BY <1>1, <1>2
  <2>3. PartFound(W, L, E, part) /\ PartFits(W, R, part)
    BY <1>1, <2>2 DEF BatchFound, BatchFits
  <2>4. D \cup WrittenParts(b, i) \subseteq E \cup NodeWrites(part)
    <3>1. ASSUME NEW w \in WrittenParts(b, i) PROVE w \in E \cup NodeWrites(part)
      <4>1. PICK j \in 1 .. i : w \in NodeWrites(Parts(b)[j])
        BY DEF WrittenParts
      <4>2. CASE j = i
        BY <4>1, <4>2
      <4>3. CASE j # i
        <5>1. j \in 1 .. i - 1
          BY <1>1, <4>3
        <5> QED BY <4>1, <5>1 DEF WrittenParts
      <4> QED BY <4>2, <4>3
    <3> QED BY <3>1
  <2> HIDE DEF E, old, new, part
  <2>5. /\ Good(W, R, L, E \cup NodeWrites(part), new) /\ Later(W, old.nodes, new.nodes)
        /\ NamesGiven(W, part) => NamesStay(old.nodes, new.nodes)
    BY <2>1, <2>2, <2>3, LoadPartGood
  <2>6. Later(W, g.nodes, new.nodes)
    BY <2>1, <2>5, LaterTwice
  <2>7. BatchNamesGiven(W, b) => NamesStay(g.nodes, new.nodes)
    <3>1. BatchNamesGiven(W, b) => NamesGiven(W, part)
      BY <2>2 DEF BatchNamesGiven
    <3> QED BY <2>1, <2>5, <3>1, NamesStayTwice
  <2>8. Good(W, R, L, D \cup WrittenParts(b, i), new)
    BY <2>4, <2>5 DEF Good
  <2> QED BY <2>6, <2>7, <2>8 DEF new
<1> HIDE DEF Ok
<1>5. ASSUME T # {} PROVE FALSE
  <2>1. T \in SUBSET Nat
    BY <1>1
  <2>2. PICK i \in T : \A j \in T : i <= j
    <3> HIDE DEF T
    <3> QED BY <1>5, <2>1, LeastNatural
  <2>3. i \in 0 .. n /\ ~Ok(i)
    OBVIOUS
  <2>4. i # 0
    BY <1>3, <2>3
  <2>5. i \in 1 .. n /\ i - 1 \in 0 .. n /\ ~(i <= i - 1)
    BY <1>1, <2>3, <2>4
  <2>6. Ok(i - 1)
    BY <2>2, <2>5
  <2> QED BY <1>4, <2>3, <2>5, <2>6
<1>6. n \in 0 .. n
  BY <1>1
<1>7. Ok(n)
  BY <1>5, <1>6
<1>8. /\ Good(W, R, L, D \cup WrittenParts(b, n), Apply(g, b))
      /\ Later(W, g.nodes, Apply(g, b).nodes)
      /\ BatchNamesGiven(W, b) => NamesStay(g.nodes, Apply(g, b).nodes)
  BY <1>2, <1>7 DEF Ok
<1>9. BatchWrites(b) \subseteq WrittenParts(b, n)
  <2>1. ASSUME NEW w \in BatchWrites(b) PROVE w \in WrittenParts(b, n)
    <3>1. PICK part \in BatchParts(b) : w \in NodeWrites(part)
      BY DEF BatchWrites
    <3>2. PICK j \in 1 .. n : part = Parts(b)[j]
      BY <1>1 DEF BatchParts, ToSet
    <3> QED BY <3>1, <3>2 DEF WrittenParts
  <2> QED BY <2>1
<1>10. Good(W, R, L, D \cup BatchWrites(b), Apply(g, b))
  BY <1>8, <1>9 DEF Good
<1> QED BY <1>8, <1>10

-----------------------------------------------------------------------------
(* More writes, and less that is asked of the graph. *)

LEMMA GoodWithMore ==
    ASSUME NEW W, NEW V, W \subseteq V, NEW R, NEW Q, R \subseteq Q,
           NEW L, NEW M, L \subseteq M, NEW D, NEW g, Shaped(V), Good(W, R, L, D, g)
    PROVE  Good(V, Q, M, {}, g)
<1>1. \A label, k : Settled(V, label, k) => Settled(W, label, k)
  BY DEF Settled
<1>2. ASSUME NEW P \in SUBSET V, Closed(V, P) PROVE Closed(W, P \cap W) /\ P \cap W \in SUBSET W
  BY <1>2 DEF Closed
<1>3. ASSUME NEW n \in DOMAIN g.nodes PROVE NodeGood(V, n, g.nodes[n])
  <2>1. NodeGood(W, n, g.nodes[n])
    BY DEF Good, NodesGood
  <2>2. (\E w \in W : n = NameOf(w)) /\ NamesItself(W, n, g.nodes[n])
        /\ MadeByNames(W, n, g.nodes[n])
    BY <2>1, NodeGoodIs
  <2>3. NamesItself(V, n, g.nodes[n])
    BY <1>1, <2>2 DEF NamesItself
  <2>4. ASSUME NEW P \in SUBSET V, NEW v \in P, Closed(V, P), n = NameOf(v)
        PROVE  MadeBy(n, g.nodes[n], P)
    <3>1. PICK w \in W : n = NameOf(w)
      BY <2>2
    <3>2. WriteShape(v) /\ WriteShape(w)
      BY DEF Shaped
    <3>3. w \in P
      BY <2>4, <3>1, <3>2, NamesakesMeet DEF Closed
    <3>4. w \in P \cap W
      BY <3>3
    <3>5. MadeBy(n, g.nodes[n], P \cap W)
      BY <1>2, <2>2, <2>4, <3>1, <3>4 DEF MadeByNames
    <3> QED BY <3>5, MadeByMore
  <2>5. MadeByNames(V, n, g.nodes[n])
    BY <2>4 DEF MadeByNames
  <2> QED BY <2>2, <2>3, <2>5, NodeGoodIs
<1>4. ASSUME NEW e, NEW n, EndGood(W, e, n) PROVE EndGood(V, e, n)
  <2>1. PICK p \in ToSet(e) :
            /\ ~Absent(p) /\ n.label = p.label
            /\ \A P \in SUBSET W : Closed(W, P) /\ Points(W, p, P) => \E v \in P : n = NameOf(v)
    BY <1>4 DEF EndGood
  <2>2. ASSUME NEW P \in SUBSET V, Closed(V, P), Points(V, p, P) PROVE \E v \in P : n = NameOf(v)
    <3>1. Points(W, p, P \cap W)
      <4>1. PICK k \in DOMAIN p.match : \A w \in V :
                w.label = p.label /\ k \in DOMAIN w.set /\ w.set[k] = p.match[k] => w \in P
        BY <2>2 DEF Points
      <4>2. \A w \in W :
                w.label = p.label /\ k \in DOMAIN w.set /\ w.set[k] = p.match[k] => w \in P \cap W
        BY <4>1
      <4> QED BY <4>2 DEF Points
    <3>2. PICK v \in P \cap W : n = NameOf(v)
      BY <1>2, <2>1, <2>2, <3>1
    <3> QED BY <3>2
  <2> QED BY <2>1, <2>2 DEF EndGood
<1>5. LinksGood(V, Q, g)
  <2>1. ASSUME NEW l \in DOMAIN g.links PROVE LinkGood(V, Q, g.nodes, l, g.links[l].records)
    <3>1. LinkGood(W, R, g.nodes, l, g.links[l].records)
      BY DEF Good, LinksGood
    <3>2. ASSUME NEW r \in g.links[l].records
          PROVE  \E q \in Q : q.record = r /\ EndGood(V, q.from, l[2]) /\ EndGood(V, q.to, l[3])
      <4>1. PICK q \in R : q.record = r /\ EndGood(W, q.from, l[2]) /\ EndGood(W, q.to, l[3])
        BY <3>1 DEF LinkGood
      <4>2. EndGood(V, q.from, l[2]) /\ EndGood(V, q.to, l[3]) /\ q \in Q
        BY <1>4, <4>1
      <4> QED BY <4>1, <4>2
    <3> QED BY <3>1, <3>2 DEF LinkGood
  <2> QED BY <2>1 DEF LinksGood
<1>6. NodesGood(V, g.nodes)
  BY <1>3 DEF NodesGood
<1>7. g.lost \subseteq M
  BY DEF Good
<1> QED BY <1>5, <1>6, <1>7 DEF Good

-----------------------------------------------------------------------------
(* Histories. *)

LEMMA SuffixIs ==
    ASSUME NEW s, IsSequence(s), NEW k \in 0 .. Len(s)
    PROVE  /\ SubSeq(s, k + 1, Len(s)) = <<>> <=> k = Len(s)
           /\ k # Len(s) => /\ Head(SubSeq(s, k + 1, Len(s))) = s[k + 1]
                            /\ Tail(SubSeq(s, k + 1, Len(s))) = SubSeq(s, k + 2, Len(s))
                            /\ k + 1 \in 1 .. Len(s)
<1> DEFINE S == ToSet(s)
           t == SubSeq(s, k + 1, Len(s))
<1>1. s \in Seq(S) /\ Len(s) \in Nat
  BY DEF IsSequence
<1> HIDE DEF S
<1>2. t \in Seq(S) /\ Len(t) = Len(s) - k /\ \A i \in 1 .. Len(s) - k : t[i] = s[k + i]
  BY <1>1
<1>3. SubSeq(s, k + 2, Len(s)) \in Seq(S)
  BY <1>1
<1>4. k # Len(s) => /\ Len(SubSeq(s, k + 2, Len(s))) = Len(s) - k - 1
                    /\ \A i \in 1 .. Len(s) - k - 1 : SubSeq(s, k + 2, Len(s))[i] = s[k + 1 + i]
  BY <1>1
<1> HIDE DEF t
<1>5. t = <<>> <=> k = Len(s)
  BY <1>1, <1>2
<1>6. ASSUME k # Len(s) PROVE /\ Head(t) = s[k + 1]
                              /\ Tail(t) = SubSeq(s, k + 2, Len(s))
                              /\ k + 1 \in 1 .. Len(s)
  <2>1. Head(t) = s[k + 1]
    BY <1>1, <1>2, <1>6
  <2>2. Tail(t) \in Seq(S) /\ Len(Tail(t)) = Len(s) - k - 1
        /\ \A i \in 1 .. Len(s) - k - 1 : Tail(t)[i] = t[i + 1]
    BY <1>1, <1>2, <1>6
  <2>3. \A i \in 1 .. Len(s) - k - 1 : Tail(t)[i] = s[k + 1 + i]
    BY <1>1, <1>2, <2>2
  <2>4. Tail(t) = SubSeq(s, k + 2, Len(s))
    <3> DEFINE u == SubSeq(s, k + 2, Len(s))
               v == Tail(t)
    <3>1. u \in Seq(S) /\ v \in Seq(S) /\ Len(u) = Len(v)
      BY <1>3, <1>4, <1>6, <2>2
    <3>2. \A i \in 1 .. Len(v) : v[i] = u[i]
      BY <1>4, <1>6, <2>2, <2>3
    <3> HIDE DEF u, v
    <3>3. u = v
      BY <3>1, <3>2
    <3> QED BY <3>3 DEF u, v
  <2> QED BY <1>1, <1>6, <2>1, <2>4
<1> QED BY <1>5, <1>6 DEF t

LEMMA WholeIs ==
    ASSUME NEW s, IsSequence(s)
    PROVE  SubSeq(s, 1, Len(s)) = s /\ Len(s) \in Nat
<1>1. s \in Seq(ToSet(s))
  BY DEF IsSequence
<1> QED BY <1>1

LEMMA HistoryShape ==
    ASSUME NEW h \in Histories
    PROVE  /\ IsSequence(h) /\ Len(h) \in Nat
           /\ \A k \in 1 .. Len(h) : h[k] \in ToSet(h) /\ IsSequence(Batches(h[k]))
<1>1. IsSequence(h) /\ \A f \in ToSet(h) : IsSequence(Batches(f))
  BY HistoriesAssumption
<1>2. \A k \in 1 .. Len(h) : h[k] \in ToSet(h)
  BY <1>1 DEF IsSequence, ToSet
<1>3. Len(h) \in Nat
  BY <1>1, WholeIs
<1> QED BY <1>1, <1>2, <1>3

LEMMA WritesGrow ==
    ASSUME NEW h, Len(h) \in Nat, NEW i \in Nat, NEW k \in Nat, i <= k
    PROVE  /\ PartsOf(h, i) \subseteq PartsOf(h, k)
           /\ Writes(h, i) \subseteq Writes(h, k) /\ RowsOf(h, i) \subseteq RowsOf(h, k)
           /\ UnfoundOf(h, i) \subseteq UnfoundOf(h, k)
<1>1. PartsOf(h, i) \subseteq PartsOf(h, k)
  <2>1. 1 .. i \subseteq 1 .. k
    OBVIOUS
  <2>2. ASSUME NEW part \in PartsOf(h, i) PROVE part \in PartsOf(h, k)
    BY <2>1 DEF PartsOf
  <2> QED BY <2>2
<1>2. Writes(h, i) \subseteq Writes(h, k)
  <2>1. ASSUME NEW w \in Writes(h, i) PROVE w \in Writes(h, k)
    BY <1>1 DEF Writes
  <2> QED BY <2>1
<1>3. RowsOf(h, i) \subseteq RowsOf(h, k)
  <2>1. ASSUME NEW r \in RowsOf(h, i) PROVE r \in RowsOf(h, k)
    BY <1>1 DEF RowsOf
  <2> QED BY <2>1
<1>4. UnfoundOf(h, i) \subseteq UnfoundOf(h, k)
  <2>1. 1 .. i \subseteq 1 .. k
    OBVIOUS
  <2>2. ASSUME NEW x \in UnfoundOf(h, i) PROVE x \in UnfoundOf(h, k)
    BY <2>1 DEF UnfoundOf
  <2> QED BY <2>2
<1> QED BY <1>1, <1>2, <1>3, <1>4

\* What is loaded of a history is a prefix of it, and says as much of the first files.
LEMMA PrefixIs ==
    ASSUME NEW h \in Histories, NEW k \in 0 .. Len(h)
    PROVE  LET f == SubSeq(h, 1, k)
           IN  /\ Len(f) = k /\ \A i \in 1 .. k : f[i] = h[i]
               /\ k # Len(h) => Append(f, h[k + 1]) = SubSeq(h, 1, k + 1)
<1> DEFINE f == SubSeq(h, 1, k)
<1>1. IsSequence(h) /\ Len(h) \in Nat
  BY HistoryShape
<1> DEFINE S == ToSet(h)
<1>2. h \in Seq(S)
  BY <1>1 DEF IsSequence
<1> HIDE DEF S
<1>3. f \in Seq(S) /\ Len(f) = k /\ \A i \in 1 .. k : f[i] = h[i]
  BY <1>1, <1>2
<1>4. ASSUME k # Len(h) PROVE Append(f, h[k + 1]) = SubSeq(h, 1, k + 1)
  <2> DEFINE u == Append(f, h[k + 1])
             v == SubSeq(h, 1, k + 1)
  <2>1. h[k + 1] \in S
    BY <1>1, <1>2, <1>4
  <2>2. v \in Seq(S) /\ Len(v) = k + 1 /\ \A i \in 1 .. k + 1 : v[i] = h[i]
    BY <1>1, <1>2, <1>4
  <2> HIDE DEF f
  <2>3. u \in Seq(S) /\ Len(u) = k + 1 /\ \A i \in 1 .. k + 1 : u[i] = h[i]
    BY <1>3, <2>1
  <2> HIDE DEF u, v
  <2>4. \A i \in 1 .. Len(u) : u[i] = v[i]
    BY <2>2, <2>3
  <2>5. u = v
    BY <2>2, <2>3, <2>4
  <2> QED BY <2>5 DEF u, v, f
<1> QED BY <1>3, <1>4 DEF f

LEMMA LoadedIs ==
    ASSUME NEW h \in Histories, NEW k \in 0 .. Len(h), loaded = SubSeq(h, 1, k)
    PROVE  /\ Done = Writes(h, k) /\ DoneRows = RowsOf(h, k)
           /\ UnfoundOf(loaded, Len(loaded)) = UnfoundOf(h, k)
           /\ sources = {h[i].source : i \in 1 .. k}
<1>1. Len(loaded) = k /\ \A i \in 1 .. k : loaded[i] = h[i]
  BY PrefixIs
<1>2. k \in Nat
  BY HistoryShape
<1>3. ASSUME NEW i \in 0 .. k
      PROVE  Writes(loaded, i) = Writes(h, i) /\ RowsOf(loaded, i) = RowsOf(h, i)
  <2>1. \A m \in 1 .. i : loaded[m] = h[m]
    BY <1>1, <1>2
  <2>2. PartsOf(loaded, i) = PartsOf(h, i)
    BY <2>1 DEF PartsOf
  <2> QED BY <2>2 DEF Writes, RowsOf
<1>4. \A i \in 1 .. k : FileUnfound(Writes(loaded, i), Batches(loaded[i])) =
                             FileUnfound(Writes(h, i), Batches(h[i]))
  BY <1>1, <1>2, <1>3
<1>5. UnfoundOf(loaded, k) = UnfoundOf(h, k)
  BY <1>4 DEF UnfoundOf
<1>6. DOMAIN loaded = 1 .. k
  <2>1. loaded \in Seq(ToSet(h))
    BY HistoryShape DEF IsSequence
  <2> QED BY <1>1, <2>1
<1>7. sources = {h[i].source : i \in 1 .. k}
  BY <1>1, <1>6 DEF sources, SourcesOf
<1>8. Done = Writes(h, k) /\ DoneRows = RowsOf(h, k)
  BY <1>1, <1>2, <1>3 DEF Done, DoneRows
<1> QED BY <1>1, <1>5, <1>7, <1>8

LEMMA WritesShaped ==
    ASSUME NEW h \in Histories, NEW k \in 0 .. Len(h)
    PROVE  Shaped(Writes(h, k))
<1>1. \A w \in Writes(h, Len(h)) : WriteShape(w)
  BY HistoriesAssumption
<1>2. Len(h) \in Nat /\ k \in Nat /\ k <= Len(h)
  BY HistoryShape
<1>3. Writes(h, k) \subseteq Writes(h, Len(h))
  BY <1>2, WritesGrow
<1> QED BY <1>1, <1>3 DEF Shaped

LEMMA BatchesFit ==
    ASSUME NEW h \in Histories, NEW k \in 1 .. Len(h), NEW b \in ToSet(Batches(h[k]))
    PROVE  BatchFits(Writes(h, k), RowsOf(h, k), b)
<1>1. h[k] \in ToSet(h)
  BY HistoryShape
<1>2. IsSequence(Parts(b)) /\ \A part \in BatchParts(b) : PartShape(part)
  BY <1>1, HistoriesAssumption
<1>3. ASSUME NEW part \in BatchParts(b)
      PROVE  /\ NodeWrites(part) \subseteq Writes(h, k) /\ EndWrites(part) \subseteq Writes(h, k)
             /\ LinkRows(part) \subseteq RowsOf(h, k)
  <2>1. part \in FileParts(h[k])
    BY DEF FileParts
  <2>2. part \in PartsOf(h, k)
    <3>1. k \in 1 .. k
      BY HistoryShape
    <3> QED BY <2>1, <3>1 DEF PartsOf
  <2>3. NodeWrites(part) \cup EndWrites(part) \subseteq Writes(h, k)
    BY <2>2 DEF Writes
  <2>4. LinkRows(part) \subseteq RowsOf(h, k)
    BY <2>2 DEF RowsOf
  <2> QED BY <2>3, <2>4
<1> QED BY <1>2, <1>3 DEF BatchFits, PartFits

\* Of the j-th batch of a file, the rows whose ends the file does not write before may be lost.
LEMMA BatchesFound ==
    ASSUME NEW h \in Histories, NEW k \in 1 .. Len(h), NEW j \in 1 .. Len(Batches(h[k]))
    PROVE  BatchFound(Writes(h, k), UnfoundOf(h, k), Before(Batches(h[k]), j), Batches(h[k])[j])
<1> DEFINE B == Batches(h[k])
           W == Writes(h, k)
<1>1. j \in DOMAIN B /\ k \in 1 .. k
  BY HistoryShape DEF IsSequence
<1>2. FileUnfound(W, B) \subseteq UnfoundOf(h, k)
  BY <1>1 DEF UnfoundOf
<1> HIDE DEF B, W
<1>3. ASSUME NEW q \in DOMAIN Parts(B[j])
      PROVE  Unfound(W, Before(B, j) \cup WrittenParts(B[j], q - 1), Parts(B[j])[q])
                 \subseteq FileUnfound(W, B)
  <2>1. BeforePart(B, j, q) = Before(B, j) \cup WrittenParts(B[j], q - 1)
    BY DEF BeforePart, WrittenParts
  <2>2. Unfound(W, BeforePart(B, j, q), Parts(B[j])[q]) \subseteq FileUnfound(W, B)
    BY <1>1 DEF FileUnfound
  <2> QED BY <2>1, <2>2
<1> QED BY <1>2, <1>3 DEF BatchFound, PartFound, B, W

LEMMA BeforeGrows ==
    ASSUME NEW batches, NEW j \in Nat
    PROVE  Before(batches, j + 2) \subseteq Before(batches, j + 1) \cup BatchWrites(batches[j + 1])
<1>1. ASSUME NEW w \in Before(batches, j + 2)
      PROVE  w \in Before(batches, j + 1) \cup BatchWrites(batches[j + 1])
  <2>1. PICK i \in 1 .. j + 2 - 1 : w \in BatchWrites(batches[i])
    BY DEF Before
  <2>2. CASE i = j + 1
    BY <2>1, <2>2
  <2>3. CASE i # j + 1
    <3>1. i \in 1 .. j + 1 - 1
      BY <2>3
    <3> QED BY <2>1, <3>1 DEF Before
  <2> QED BY <2>2, <2>3
<1> QED BY <1>1

LEMMA NoneBefore == ASSUME NEW batches PROVE Before(batches, 1) = {}
<1>1. 1 .. 1 - 1 = {}
  OBVIOUS
<1> QED BY <1>1 DEF Before

\* The next batch of a file that is loaded.
LEMMA NextBatch ==
    ASSUME NEW h \in Histories, NEW k \in 1 .. Len(h), NEW g,
           NEW j \in 0 .. Len(Batches(h[k])), j # Len(Batches(h[k])),
           Good(Writes(h, k), RowsOf(h, k), UnfoundOf(h, k), Before(Batches(h[k]), j + 1), g)
    PROVE  LET b == Batches(h[k])[j + 1]
           IN  /\ Good(Writes(h, k), RowsOf(h, k), UnfoundOf(h, k), Before(Batches(h[k]), j + 2), Apply(g, b))
               /\ BatchNamesGiven(Writes(h, k), b) => NamesStay(g.nodes, Apply(g, b).nodes)
               /\ b \in ToSet(Batches(h[k]))
<1> DEFINE B == Batches(h[k])
           b == B[j + 1]
           W == Writes(h, k)
           R == RowsOf(h, k)
           L == UnfoundOf(h, k)
<1>1. IsSequence(B) /\ Len(h) \in Nat
  BY HistoryShape
<1>2. j + 1 \in 1 .. Len(B) /\ j \in Nat
  BY <1>1, WholeIs
<1>3. b \in ToSet(B)
  BY <1>1, <1>2 DEF IsSequence, ToSet
<1>4. Shaped(W)
  BY <1>1, WritesShaped
<1>5. BatchFits(W, R, b)
  BY <1>3, BatchesFit
<1>6. BatchFound(W, L, Before(B, j + 1), b)
  BY <1>2, BatchesFound
<1>7. Before(B, j + 2) \subseteq Before(B, j + 1) \cup BatchWrites(b)
  BY <1>2, BeforeGrows
<1>8. Good(W, R, L, Before(B, j + 1), g)
  OBVIOUS
<1> HIDE DEF B, b, W, R, L
<1>9. /\ Good(W, R, L, Before(B, j + 1) \cup BatchWrites(b), Apply(g, b))
      /\ BatchNamesGiven(W, b) => NamesStay(g.nodes, Apply(g, b).nodes)
  BY <1>4, <1>5, <1>6, <1>8, ApplyGood
<1>10. Good(W, R, L, Before(B, j + 2), Apply(g, b))
  BY <1>7, <1>9 DEF Good
<1> QED BY <1>3, <1>9, <1>10 DEF B, b, W, R, L

-----------------------------------------------------------------------------
(* The invariant holds in the initial state and every step keeps it. *)

\* the hypothesis of the theorems about people, companies and names
AllIdentified == \A h \in Histories : Identified(h)

LEMMA RegistryGood ==
    ASSUME NEW h \in Histories
    PROVE  Good(Writes(h, 0), RowsOf(h, 0), UnfoundOf(h, 0), {}, Registry)
<1> DEFINE W == Writes(h, 0)
           At(n) == [label |-> n.label, match |-> n.by, set |-> Registry.nodes[n].props,
                     records |-> Registry.nodes[n].records, who |-> Registry.nodes[n].who]
<1>1. \A n \in DOMAIN Registry.nodes : At(n) \in W
  BY DEF Writes, RegistryWrites
<1>2. 0 \in 0 .. Len(h)
  BY HistoryShape
<1>3. Shaped(W)
  BY <1>2, WritesShaped
<1> HIDE DEF W
<1>4. ASSUME NEW n \in DOMAIN Registry.nodes PROVE NodeGood(W, n, Registry.nodes[n])
  <2> DEFINE w == At(n)
             node == Registry.nodes[n]
  <2>1. w.label = n.label /\ w.match = n.by /\ w.set = node.props /\ w.records = node.records
        /\ w.who = node.who
    OBVIOUS
  <2>2. n = [label |-> n.label, by |-> n.by]
    BY RegistryAssumption
  <2>3. w \in W
    BY <1>1
  <2> HIDE DEF w, node
  <2>4. n = NameOf(w)
    BY <2>1, <2>2 DEF NameOf
  <2>5. WriteShape(w)
    BY <1>3, <2>3 DEF Shaped
  <2>6. NamesItself(W, n, node)
    BY <2>1, <2>5 DEF NamesItself, WriteShape
  <2>7. ASSUME NEW P \in SUBSET W, NEW v \in P, Closed(W, P), n = NameOf(v) PROVE MadeBy(n, node, P)
    <3>1. WriteShape(v)
      BY <1>3 DEF Shaped
    <3>2. Meets(v, w)
      BY <2>4, <2>5, <2>7, <3>1, NamesakesMeet
    <3>3. w \in P
      BY <2>3, <2>7, <3>2 DEF Closed
    <3> QED BY <2>1, <3>3 DEF MadeBy
  <2>8. MadeByNames(W, n, node)
    BY <2>7 DEF MadeByNames
  <2>9. \E v \in W : n = NameOf(v)
    BY <2>3, <2>4
  <2> QED BY <2>6, <2>8, <2>9, NodeGoodIs DEF node
<1>5. NodesGood(W, Registry.nodes)
  BY <1>4 DEF NodesGood
<1>6. DOMAIN Registry.links = {} /\ Registry.lost = {}
  BY RegistryAssumption
<1> QED BY <1>5, <1>6 DEF Good, LinksGood, W

LEMMA InitGood == Init => IInv
<1> SUFFICES ASSUME Init PROVE IInv
  OBVIOUS
<1>1. files \in Histories /\ graph = Registry /\ ~running /\ loaded = <<>>
  BY DEF Init
<1>2. IsSequence(files) /\ Len(files) \in Nat
  BY <1>1, HistoryShape
<1>3. SubSeq(files, 0 + 1, Len(files)) = files
  BY <1>2, WholeIs
<1>4. Good(Writes(files, 0), RowsOf(files, 0), UnfoundOf(files, 0), {}, graph)
  BY <1>1, RegistryGood
<1>5. 0 \in 0 .. Len(files)
  BY <1>2
<1>6. Waiting(files, 0)
  BY <1>3, <1>4, <1>5 DEF Waiting
<1>7. loaded = SubSeq(files, 1, 0)
  <2>1. files \in Seq(ToSet(files))
    BY <1>2 DEF IsSequence
  <2> QED BY <1>1, <2>1
<1> QED BY <1>1, <1>5, <1>6, <1>7 DEF IInv

\* The history that is loaded, and the number of its files that are or are being loaded.
At(h, k) ==
    /\ h \in Histories /\ k \in 0 .. Len(h) /\ loaded = SubSeq(h, 1, k)
    /\ IF running THEN Loading(h, k) ELSE Waiting(h, k)

LEMMA BeginGood == ASSUME NEW h, NEW k, At(h, k), Begin PROVE IInv'
<1>1. ~running /\ files # <<>> /\ running' /\ todo' = Batches(Head(files))
      /\ loaded' = Append(loaded, Head(files)) /\ files' = files /\ graph' = graph
  BY DEF Begin
<1>2. /\ h \in Histories /\ k \in 0 .. Len(h)
      /\ loaded = SubSeq(h, 1, k) /\ Waiting(h, k)
  BY <1>1 DEF At
<1>3. IsSequence(h) /\ Len(h) \in Nat
  BY <1>2, HistoryShape
<1>4. files = SubSeq(h, k + 1, Len(h)) /\ Good(Writes(h, k), RowsOf(h, k), UnfoundOf(h, k), {}, graph)
  BY <1>2 DEF Waiting
<1>5. k # Len(h) /\ Head(files) = h[k + 1] /\ k + 1 \in 1 .. Len(h)
  BY <1>1, <1>2, <1>3, <1>4, SuffixIs
<1> DEFINE m == k + 1
           B == Batches(h[m])
<1>6. m \in 1 .. Len(h) /\ m \in 0 .. Len(h) /\ k <= m /\ m \in Nat /\ k \in Nat
  BY <1>2, <1>3, <1>5
<1>7. IsSequence(B)
  BY <1>2, <1>6, HistoryShape
<1>8. todo' = SubSeq(B, 0 + 1, Len(B)) /\ 0 \in 0 .. Len(B)
  BY <1>1, <1>5, <1>7, WholeIs
<1>9. /\ Writes(h, k) \subseteq Writes(h, m) /\ RowsOf(h, k) \subseteq RowsOf(h, m)
      /\ UnfoundOf(h, k) \subseteq UnfoundOf(h, m)
  BY <1>3, <1>6, WritesGrow
<1>10. Shaped(Writes(h, m))
  BY <1>2, <1>6, WritesShaped
<1>11. Good(Writes(h, m), RowsOf(h, m), UnfoundOf(h, m), {}, graph')
  BY <1>1, <1>4, <1>9, <1>10, GoodWithMore
<1>12. Before(B, 0 + 1) = {}
  BY NoneBefore
<1>13. files' = SubSeq(h, m, Len(h))
  BY <1>1, <1>4
<1>14. loaded' = SubSeq(h, 1, m)
  BY <1>1, <1>2, <1>5, PrefixIs
<1> HIDE DEF B, m
<1>15. \E j \in 0 .. Len(B) :
          /\ todo' = SubSeq(B, j + 1, Len(B))
          /\ Good(Writes(h, m), RowsOf(h, m), UnfoundOf(h, m), Before(B, j + 1), graph')
  BY <1>8, <1>11, <1>12
<1>16. Loading(h, m)'
  BY <1>6, <1>13, <1>15 DEF Loading, B
<1> QED BY <1>1, <1>2, <1>6, <1>14, <1>16 DEF IInv

LEMMA LoadBatchGood ==
    ASSUME NEW h, NEW k, At(h, k), LoadBatch
    PROVE  /\ IInv'
           /\ k \in 1 .. Len(h) /\ Head(files) = h[k]
           /\ (\A b \in ToSet(Batches(h[k])) : BatchNamesGiven(Writes(h, k), b)) =>
                  NamesStay(graph.nodes, graph'.nodes)
<1>1. running /\ todo # <<>> /\ graph' = Apply(graph, Head(todo)) /\ todo' = Tail(todo)
      /\ files' = files /\ running' = running /\ loaded' = loaded
  BY DEF LoadBatch
<1>2. h \in Histories /\ loaded = SubSeq(h, 1, k) /\ Loading(h, k)
      /\ k \in 0 .. Len(h)
  BY <1>1 DEF At
<1> DEFINE B == Batches(h[k])
<1>3. k \in 1 .. Len(h) /\ files = SubSeq(h, k, Len(h))
  BY <1>2 DEF Loading
<1>4. PICK j \in 0 .. Len(B) :
          /\ todo = SubSeq(B, j + 1, Len(B))
          /\ Good(Writes(h, k), RowsOf(h, k), UnfoundOf(h, k), Before(B, j + 1), graph)
  BY <1>2 DEF Loading
<1>5. IsSequence(B) /\ IsSequence(h) /\ Len(B) \in Nat /\ Len(h) \in Nat
  BY <1>2, <1>3, HistoryShape, WholeIs
<1>6. j # Len(B) /\ Head(todo) = B[j + 1] /\ Tail(todo) = SubSeq(B, j + 2, Len(B))
  BY <1>1, <1>4, <1>5, SuffixIs
<1>8. /\ Good(Writes(h, k), RowsOf(h, k), UnfoundOf(h, k), Before(B, j + 2), graph')
      /\ BatchNamesGiven(Writes(h, k), Head(todo)) => NamesStay(graph.nodes, graph'.nodes)
      /\ Head(todo) \in ToSet(B)
  <2>1. /\ Good(Writes(h, k), RowsOf(h, k), UnfoundOf(h, k), Before(B, j + 2), Apply(graph, B[j + 1]))
        /\ BatchNamesGiven(Writes(h, k), B[j + 1]) =>
               NamesStay(graph.nodes, Apply(graph, B[j + 1]).nodes)
        /\ B[j + 1] \in ToSet(B)
    BY <1>2, <1>3, <1>4, <1>6, NextBatch
  <2>2. Head(todo) = B[j + 1] /\ graph' = Apply(graph, B[j + 1])
    BY <1>1, <1>6
  <2> HIDE DEF B
  <2> QED BY <2>1, <2>2
<1>9. j + 1 \in 0 .. Len(B) /\ (j + 1) + 1 = j + 2
  BY <1>5, <1>6
<1>10. Head(files) = h[k]
  <2>1. k - 1 \in 0 .. Len(h) /\ k - 1 # Len(h) /\ (k - 1) + 1 = k
    BY <1>3, <1>5
  <2> QED BY <1>3, <1>5, <2>1, SuffixIs
<1> HIDE DEF B
<1>11. \E i \in 0 .. Len(B) :
          /\ todo' = SubSeq(B, i + 1, Len(B))
          /\ Good(Writes(h, k), RowsOf(h, k), UnfoundOf(h, k), Before(B, i + 1), graph')
  BY <1>1, <1>6, <1>8, <1>9
<1>12. Loading(h, k)'
  BY <1>1, <1>3, <1>11 DEF Loading, B
<1>13. IInv'
  BY <1>1, <1>2, <1>12 DEF IInv
<1> QED BY <1>3, <1>8, <1>10, <1>13 DEF B

LEMMA FinishGood == ASSUME NEW h, NEW k, At(h, k), Finish PROVE IInv'
<1>1. running /\ todo = <<>> /\ ~running' /\ files' = Tail(files) /\ graph' = graph
      /\ loaded' = loaded
  BY DEF Finish
<1>2. h \in Histories /\ loaded = SubSeq(h, 1, k) /\ Loading(h, k)
      /\ k \in 0 .. Len(h)
  BY <1>1 DEF At
<1>3. k \in 1 .. Len(h) /\ files = SubSeq(h, k, Len(h))
  BY <1>2 DEF Loading
<1>4. IsSequence(h) /\ Len(h) \in Nat
  BY <1>2, HistoryShape
<1>5. Tail(files) = SubSeq(h, k + 1, Len(h))
  <2>1. k - 1 \in 0 .. Len(h) /\ k - 1 # Len(h) /\ (k - 1) + 1 = k /\ (k - 1) + 2 = k + 1
    BY <1>3, <1>4
  <2> QED BY <1>3, <1>4, <2>1, SuffixIs
<1>6. PICK D : Good(Writes(h, k), RowsOf(h, k), UnfoundOf(h, k), D, graph)
  BY <1>2 DEF Loading
<1>7. Good(Writes(h, k), RowsOf(h, k), UnfoundOf(h, k), {}, graph')
  BY <1>1, <1>6 DEF Good
<1>8. Waiting(h, k)'
  BY <1>1, <1>2, <1>5, <1>7 DEF Waiting
<1> QED BY <1>1, <1>2, <1>8 DEF IInv

LEMMA RestartGood == ASSUME NEW h, NEW k, At(h, k), Restart PROVE IInv'
<1>1. running /\ todo' = Batches(Head(files)) /\ files' = files /\ graph' = graph
      /\ loaded' = loaded /\ running' = running
  BY DEF Restart
<1>2. h \in Histories /\ loaded = SubSeq(h, 1, k) /\ Loading(h, k)
      /\ k \in 0 .. Len(h)
  BY <1>1 DEF At
<1> DEFINE B == Batches(h[k])
<1>3. k \in 1 .. Len(h) /\ files = SubSeq(h, k, Len(h))
  BY <1>2 DEF Loading
<1>4. IsSequence(h) /\ Len(h) \in Nat /\ IsSequence(B)
  BY <1>2, <1>3, HistoryShape
<1>5. Head(files) = h[k]
  <2>1. k - 1 \in 0 .. Len(h) /\ k - 1 # Len(h) /\ (k - 1) + 1 = k
    BY <1>3, <1>4
  <2> QED BY <1>3, <1>4, <2>1, SuffixIs
<1>6. todo' = SubSeq(B, 0 + 1, Len(B)) /\ 0 \in 0 .. Len(B)
  BY <1>1, <1>4, <1>5, WholeIs
<1>7. PICK D : Good(Writes(h, k), RowsOf(h, k), UnfoundOf(h, k), D, graph)
  BY <1>2 DEF Loading
<1>8. Good(Writes(h, k), RowsOf(h, k), UnfoundOf(h, k), Before(B, 0 + 1), graph')
  BY <1>1, <1>7, NoneBefore DEF Good
<1> HIDE DEF B
<1>9. \E j \in 0 .. Len(B) :
          /\ todo' = SubSeq(B, j + 1, Len(B))
          /\ Good(Writes(h, k), RowsOf(h, k), UnfoundOf(h, k), Before(B, j + 1), graph')
  BY <1>6, <1>8
<1>10. Loading(h, k)'
  BY <1>1, <1>3, <1>9 DEF Loading, B
<1> QED BY <1>1, <1>2, <1>10 DEF IInv

LEMMA IInvIs == IInv <=> \E h, k : At(h, k)
BY DEF IInv, At

LEMMA StepGood == IInv /\ [Next]_vars => IInv'
<1> SUFFICES ASSUME IInv, [Next]_vars PROVE IInv'
  OBVIOUS
<1>1. PICK h, k : At(h, k)
  BY IInvIs
<1>3. CASE Begin
  BY <1>1, <1>3, BeginGood
<1>4. CASE LoadBatch
  BY <1>1, <1>4, LoadBatchGood
<1>5. CASE Finish
  BY <1>1, <1>5, FinishGood
<1>6. CASE Restart
  BY <1>1, <1>6, RestartGood
<1>7. CASE UNCHANGED vars
  <2>1. files' = files /\ todo' = todo /\ running' = running /\ graph' = graph /\ loaded' = loaded
    BY <1>7 DEF vars
  <2> QED BY <2>1 DEF IInv, Loading, Waiting
<1> QED BY <1>3, <1>4, <1>5, <1>6, <1>7 DEF Next

\* The invariant: there is a history of which the graph holds what the files that are
\* loaded, and the batches of the one that is being loaded, write; every node comes from
\* the writes that may reach the one that named it.
THEOREM Invariance == Spec => []IInv
<1>1. Init => IInv
  BY InitGood
<1>2. IInv /\ [Next]_vars => IInv'
  BY StepGood
<1> QED BY <1>1, <1>2, PTL DEF Spec

-----------------------------------------------------------------------------
(* What the invariant says of the graph when nothing is being loaded. *)

LEMMA KeyedMeet ==
    ASSUME NEW a, NEW b, WriteShape(a), WriteShape(b), Meets(a, b),
           NEW key, DOMAIN a.match = {key}, DOMAIN b.match = {key}
    PROVE  a.label = b.label /\ a.match = b.match
<1>1. a.label = b.label /\ b.set[key] = a.match[key]
  BY DEF Meets
<1>2. b.set[key] = b.match[key]
  BY DEF WriteShape
<1>3. a.match = [k \in {key} |-> a.match[k]] /\ b.match = [k \in {key} |-> b.match[k]]
  BY DEF WriteShape
<1>4. \A k \in {key} : a.match[k] = b.match[k]
  BY <1>1, <1>2
<1> QED BY <1>1, <1>3, <1>4

\* Where every write to the label looks for one key, what a node holds was written under
\* its own name.
LEMMA KeyedNode ==
    ASSUME NEW W, Shaped(W), NEW n, NEW node, NodeGood(W, n, node),
           NEW key, Keyed(W, n.label, key)
    PROVE  /\ \A r \in node.records : \E w \in W : NameOf(w) = n /\ r \in w.records
           /\ \A x \in node.who : \E w \in W : NameOf(w) = n /\ x \in w.who
<1>1. PICK v \in W : n = NameOf(v)
  BY NodeGoodIs
<1> DEFINE P == {w \in W : w.label = v.label /\ w.match = v.match}
<1>2. \A w \in P : NameOf(w) = n /\ w \in W /\ w.label = v.label /\ w.match = v.match
  BY <1>1 DEF NameOf
<1>3. n.label = v.label /\ v \in P /\ P \in SUBSET W
  BY <1>1 DEF NameOf
<1>4. \A w \in W : w.label = v.label => DOMAIN w.match = {key} /\ WriteShape(w)
  BY <1>3 DEF Keyed, Shaped
<1>5. \A w \in W : w.label = v.label /\ w.match = v.match => w \in P
  OBVIOUS
<1> HIDE DEF P
<1>6. Closed(W, P)
  <2>1. ASSUME NEW u \in P, NEW w \in W, Meets(u, w) \/ Meets(w, u) PROVE w \in P
    <3>1. u.label = v.label /\ u.match = v.match /\ u \in W
      BY <1>2
    <3>2. w.label = v.label
      BY <2>1, <3>1 DEF Meets
    <3>3. WriteShape(u) /\ WriteShape(w) /\ DOMAIN u.match = {key} /\ DOMAIN w.match = {key}
      BY <1>4, <3>1, <3>2
    <3>4. w.match = v.match
      BY <2>1, <3>1, <3>3, KeyedMeet
    <3> QED BY <1>5, <3>2, <3>4
  <2> QED BY <2>1 DEF Closed
<1>7. MadeBy(n, node, P)
  BY <1>1, <1>3, <1>6, NodeGoodIs DEF MadeByNames
<1>8. ASSUME NEW r \in node.records PROVE \E w \in W : NameOf(w) = n /\ r \in w.records
  BY <1>2, <1>7 DEF MadeBy
<1>9. ASSUME NEW x \in node.who PROVE \E w \in W : NameOf(w) = n /\ x \in w.who
  BY <1>2, <1>7 DEF MadeBy
<1> QED BY <1>8, <1>9

\* A record in a node was written under the node's name.
LEMMA FactWritten ==
    ASSUME NEW W, Shaped(W), FactsKeyed(W), NEW n, NEW node, NodeGood(W, n, node),
           NEW r \in node.records
    PROVE  \E w \in W : NameOf(w) = n /\ r \in w.records
<1>1. Closed(W, W)
  BY DEF Closed
<1>2. (\E v \in W : n = NameOf(v)) /\ MadeByNames(W, n, node) /\ W \in SUBSET W
  BY NodeGoodIs
<1>3. MadeBy(n, node, W)
  BY <1>1, <1>2 DEF MadeByNames
<1>4. PICK w \in W : w.label = n.label /\ r \in w.records
  BY <1>3 DEF MadeBy
<1>5. PICK key : Keyed(W, n.label, key)
  BY <1>4 DEF FactsKeyed
<1> QED BY <1>5, KeyedNode

LEMMA NamesEqual ==
    ASSUME NEW v, NEW w, v.label = w.label, v.match = w.match
    PROVE  NameOf(v) = NameOf(w)
BY DEF NameOf

\* The graph, by the writes and rows of the files whose load was begun.
LEMMA GraphIs ==
    ASSUME IInv
    PROVE  /\ Shaped(Done) /\ NodesGood(Done, graph.nodes) /\ LinksGood(Done, DoneRows, graph)
           /\ graph.lost \subseteq UnfoundOf(loaded, Len(loaded))
           /\ AllIdentified /\ Without(OwnKeys \cup Masked) => PartiesKeyed(Done)
<1>1. PICK h, k : At(h, k)
  BY IInvIs
<1>2. h \in Histories /\ k \in 0 .. Len(h) /\ loaded = SubSeq(h, 1, k)
  BY <1>1 DEF At
<1>3. /\ Done = Writes(h, k) /\ DoneRows = RowsOf(h, k)
      /\ UnfoundOf(loaded, Len(loaded)) = UnfoundOf(h, k)
      /\ sources = {h[i].source : i \in 1 .. k}
  BY <1>2, LoadedIs
<1>4. Shaped(Writes(h, k))
  BY <1>2, WritesShaped
<1>5. PICK D : Good(Writes(h, k), RowsOf(h, k), UnfoundOf(h, k), D, graph)
  BY <1>1 DEF At, Loading, Waiting
<1>6. /\ NodesGood(Writes(h, k), graph.nodes) /\ LinksGood(Writes(h, k), RowsOf(h, k), graph)
      /\ graph.lost \subseteq UnfoundOf(h, k)
  BY <1>5 DEF Good
<1>7. ASSUME AllIdentified, Without(OwnKeys \cup Masked) PROVE PartiesKeyed(Writes(h, k))
  <2>1. {h[i].source : i \in 1 .. k} \cap (OwnKeys \cup Masked) = {}
    BY <1>3, <1>7 DEF Without
  <2>2. MeantBy(Writes(h, k), {h[i].source : i \in 1 .. k})
    BY <1>2, <1>7 DEF AllIdentified, Identified, Meant
  <2> QED BY <2>1, <2>2 DEF MeantBy
<1> QED BY <1>3, <1>4, <1>6, <1>7

\* A record is in the node that the id of its row names.
LEMMA UnderTheirIds == IInv => RecordsAreUnderTheirIds
<1> SUFFICES ASSUME IInv, FactsKeyed(Done), NEW n \in FactNodes,
                    NEW r \in graph.nodes[n].records
             PROVE  \E w \in Done : w.label = n.label /\ w.match = n.by /\ r \in w.records
  BY DEF RecordsAreUnderTheirIds
<1>1. Shaped(Done) /\ NodeGood(Done, n, graph.nodes[n])
  BY GraphIs DEF NodesGood, FactNodes
<1>2. PICK w \in Done : NameOf(w) = n /\ r \in w.records
  BY <1>1, FactWritten
<1>3. w.label = n.label /\ w.match = n.by
  BY <1>2 DEF NameOf
<1> QED BY <1>2, <1>3

LEMMA PartiesAreOne == ASSUME AllIdentified PROVE IInv => OneNodePerParty
<1> SUFFICES ASSUME IInv, Loaded, Without(OwnKeys \cup Masked),
                    NEW n \in PartyNodes, NEW m \in PartyNodes, n.label = m.label,
                    NEW x \in graph.nodes[n].who, x \in graph.nodes[m].who
             PROVE  n = m
  BY DEF OneNodePerParty
<1> DEFINE W == Done
<1>1. Shaped(W) /\ NodesGood(W, graph.nodes) /\ PartiesKeyed(W)
  BY GraphIs
<1> HIDE DEF W
<1>2. NodeGood(W, n, graph.nodes[n]) /\ NodeGood(W, m, graph.nodes[m]) /\ n.label \in PartyLabels
  BY <1>1 DEF NodesGood, PartyNodes
<1>3. PICK u \in W : n = NameOf(u)
  BY <1>2, NodeGoodIs
<1>4. PICK key : Keyed(W, n.label, key)
  <2>1. u.label = n.label
    BY <1>3 DEF NameOf
  <2> QED BY <1>1, <1>2, <2>1 DEF PartiesKeyed
<1>5. PICK v \in W : NameOf(v) = n /\ x \in v.who
  BY <1>1, <1>2, <1>4, KeyedNode
<1>6. Keyed(W, m.label, key)
  BY <1>4
<1>7. PICK w \in W : NameOf(w) = m /\ x \in w.who
  BY <1>1, <1>2, <1>6, KeyedNode
<1>8. v.label = n.label /\ v.label = w.label
  BY <1>5, <1>7 DEF NameOf
<1>9. v.match = w.match
  BY <1>1, <1>2, <1>5, <1>7, <1>8 DEF PartiesKeyed
<1> QED BY <1>5, <1>7, <1>8, <1>9, NamesEqual

\* Whom a node stands for was written by the writes that an end which leads to it points to.
LEMMA EndLeads ==
    ASSUME NodesGood(Done, graph.nodes), NEW e, NEW n \in DOMAIN graph.nodes, EndGood(Done, e, n)
    PROVE  Leads(e, n)
<1>1. PICK p \in ToSet(e) :
          /\ ~Absent(p) /\ n.label = p.label
          /\ \A P \in SUBSET Done : Closed(Done, P) /\ Points(Done, p, P) => \E v \in P : n = NameOf(v)
  BY DEF EndGood
<1>2. MadeByNames(Done, n, graph.nodes[n])
  BY NodeGoodIs DEF NodesGood
<1>3. ASSUME NEW P \in SUBSET Done, Closed(Done, P), Points(Done, p, P)
      PROVE  graph.nodes[n].who \subseteq UNION {w.who : w \in P}
  <2>1. PICK v \in P : n = NameOf(v)
    BY <1>1, <1>3
  <2>2. MadeBy(n, graph.nodes[n], P)
    BY <1>2, <1>3, <2>1 DEF MadeByNames
  <2>3. \A x \in graph.nodes[n].who : \E w \in P : x \in w.who
    BY <2>2 DEF MadeBy
  <2> QED BY <2>3
<1> QED BY <1>1, <1>3 DEF Leads

LEMMA RowsPoint == IInv => LinksGoWhereRowsPoint
<1> SUFFICES ASSUME IInv, NEW l \in DOMAIN graph.links, NEW r \in graph.links[l].records
             PROVE  \E row \in DoneRows :
                        row.record = r /\ Leads(row.from, l[2]) /\ Leads(row.to, l[3])
  BY DEF LinksGoWhereRowsPoint
<1>1. NodesGood(Done, graph.nodes) /\ LinkGood(Done, DoneRows, graph.nodes, l, graph.links[l].records)
  BY GraphIs DEF LinksGood
<1>2. PICK row \in DoneRows :
          row.record = r /\ EndGood(Done, row.from, l[2]) /\ EndGood(Done, row.to, l[3])
  BY <1>1 DEF LinkGood
<1>3. l[2] \in DOMAIN graph.nodes /\ l[3] \in DOMAIN graph.nodes
  BY <1>1 DEF LinkGood
<1> QED BY <1>1, <1>2, <1>3, EndLeads

LEMMA StepKeepsNames ==
    ASSUME AllIdentified, IInv, [Next]_vars, running,
           Head(files).source \notin NoName \cup DocumentNames
    PROVE  NamesStay(graph.nodes, graph'.nodes)
<1>1. CASE LoadBatch
  <2>1. PICK h, k : At(h, k)
    BY IInvIs
  <2>2. h \in Histories /\ Identified(h)
    BY <2>1 DEF AllIdentified, At
  <2>3. /\ k \in 1 .. Len(h) /\ Head(files) = h[k]
        /\ (\A b \in ToSet(Batches(h[k])) : BatchNamesGiven(Writes(h, k), b)) =>
               NamesStay(graph.nodes, graph'.nodes)
    BY <1>1, <2>1, <2>2, LoadBatchGood
  <2>4. k \in 0 .. Len(h)
    BY <2>1 DEF At
  <2>5. DocumentsSettled(Writes(h, k))
    <3>1. MeantBy(Writes(h, k), {h[i].source : i \in 1 .. k})
      BY <2>2, <2>4 DEF Identified, Meant
    <3> QED BY <3>1 DEF MeantBy
  <2>6. \A part \in FileParts(h[k]) : NamesAreGiven(Writes(h, k), part)
    BY <2>2, <2>3 DEF Identified, Given, GivenBy
  <2>7. \A b \in ToSet(Batches(h[k])) : BatchNamesGiven(Writes(h, k), b)
    <3>1. ASSUME NEW b \in ToSet(Batches(h[k])), NEW part \in BatchParts(b)
          PROVE  part \in FileParts(h[k])
      BY DEF FileParts
    <3> QED BY <2>5, <2>6, <3>1 DEF BatchNamesGiven, NamesGiven
  <2> QED BY <2>3, <2>7
<1>2. CASE ~LoadBatch
  <2>1. graph' = graph
    BY <1>2 DEF Next, Begin, Finish, Restart, vars
  <2> QED BY <2>1 DEF NamesStay
<1> QED BY <1>1, <1>2

-----------------------------------------------------------------------------
(* A load that failed on its way.  The nodes x of a graph are between those *)
(* of a load that did not fail, a, and those that it has later, F: they are *)
(* at least those of a, and whatever they hold is from a or from F.         *)

Below(a, x) ==
    /\ DOMAIN a \subseteq DOMAIN x
    /\ \A n \in DOMAIN a :
          /\ DOMAIN a[n].props \subseteq DOMAIN x[n].props
          /\ a[n].records \subseteq x[n].records /\ a[n].who \subseteq x[n].who
PropFrom(F, n, k, value) ==
    \E q \in F : n \in DOMAIN q /\ k \in DOMAIN q[n].props /\ q[n].props[k] = value
RecordFrom(F, n, r) == \E q \in F : n \in DOMAIN q /\ r \in q[n].records
WhoFrom(F, n, y) == \E q \in F : n \in DOMAIN q /\ y \in q[n].who
NodeFrom(F, n, node) ==
    /\ \E q \in F : n \in DOMAIN q /\ DOMAIN q[n].props \subseteq DOMAIN node.props
    /\ \A k \in DOMAIN node.props : PropFrom(F, n, k, node.props[k])
    /\ \A r \in node.records : RecordFrom(F, n, r)
    /\ \A y \in node.who : WhoFrom(F, n, y)
    /\ \E q \in F : n \in DOMAIN q /\ q[n].shown = node.shown
NodesFrom(F, x) == \A n \in DOMAIN x : NodeFrom(F, n, x[n])

\* What is decided of n in the load that did not fail is so in x.
LEMMA DecidedAlike ==
    ASSUME NEW a, NEW x, NEW F, NEW p, NEW n, Below(a, x), NodesFrom({a} \cup F, x),
           n.label = p.label, Decided(p, n, {a} \cup F)
    PROVE  n \in Matching(x, p) <=> n \in Matching(a, p)
<1>1. ASSUME n \in Matching(a, p) PROVE n \in Matching(x, p)
  <2>1. n \in DOMAIN a /\ \A k \in DOMAIN p.match :
            p.match[k] # None /\ k \in DOMAIN a[n].props /\ a[n].props[k] = p.match[k]
    BY <1>1, MatchingIs
  <2>2. \A q \in {a} \cup F : n \in Matching(q, p)
    BY <2>1 DEF Decided, Found
  <2>3. n \in DOMAIN x
    BY <2>1 DEF Below
  <2>4. ASSUME NEW k \in DOMAIN p.match
        PROVE  k \in DOMAIN x[n].props /\ x[n].props[k] = p.match[k]
    <3>1. k \in DOMAIN x[n].props
      BY <2>1 DEF Below
    <3>2. PICK q \in {a} \cup F : n \in DOMAIN q /\ k \in DOMAIN q[n].props
                                  /\ q[n].props[k] = x[n].props[k]
      BY <2>3, <3>1 DEF NodesFrom, NodeFrom, PropFrom
    <3>3. n \in Matching(q, p)
      BY <2>2
    <3>4. q[n].props[k] = p.match[k]
      BY <3>3, MatchingIs
    <3> QED BY <3>1, <3>2, <3>4
  <2> QED BY <2>1, <2>3, <2>4, MatchingIs
<1>2. ASSUME n \in Matching(x, p) PROVE n \in Matching(a, p)
  <2>1. n \in DOMAIN x /\ \A k \in DOMAIN p.match :
            p.match[k] # None /\ k \in DOMAIN x[n].props /\ x[n].props[k] = p.match[k]
    BY <1>2, MatchingIs
  <2>2. ASSUME NEW k \in DOMAIN p.match, \A q \in {a} \cup F : ~Found(q, n, p, k) PROVE FALSE
    <3>1. PICK q \in {a} \cup F : n \in DOMAIN q /\ k \in DOMAIN q[n].props
                                  /\ q[n].props[k] = x[n].props[k]
      BY <2>1 DEF NodesFrom, NodeFrom, PropFrom
    <3>2. Found(q, n, p, k)
      BY <2>1, <3>1 DEF Found
    <3> QED BY <2>2, <3>2
  <2> QED BY <2>2 DEF Decided
<1> QED BY <1>1, <1>2

LEMMA MatchedIsLabelled ==
    ASSUME NEW a, NEW x, NEW F, NEW p, NEW n, Below(a, x), NodesFrom({a} \cup F, x),
           n \in Matching(x, p) \cup Matching(a, p)
    PROVE  n.label = p.label /\ n \in Labelled(p, {a} \cup F)
<1>1. n.label = p.label /\ n \in DOMAIN x
  BY MatchingIs DEF Below
<1>2. \E q \in {a} \cup F : n \in DOMAIN q
  BY <1>1 DEF NodesFrom, NodeFrom
<1> QED BY <1>1, <1>2 DEF Labelled

\* A steady MATCH finds in x what it finds in a.
LEMMA MatchesAlike ==
    ASSUME NEW a, NEW x, NEW F, NEW p, Below(a, x), NodesFrom({a} \cup F, x),
           SteadyMatch(p, {a} \cup F)
    PROVE  Matching(x, p) = Matching(a, p)
<1>1. ASSUME NEW n, n \in Matching(x, p) \cup Matching(a, p)
      PROVE  n \in Matching(x, p) <=> n \in Matching(a, p)
  <2>1. n.label = p.label /\ n \in Labelled(p, {a} \cup F)
    BY <1>1, MatchedIsLabelled
  <2> QED BY <2>1, DecidedAlike DEF SteadyMatch
<1> QED BY <1>1

\* So does a steady MERGE, unless it creates the node in a and an earlier try created it in x.
CreatedBefore(a, x, p) ==
    /\ Matching(a, p) = {} /\ Matching(x, p) = {NameOf(p)}
    /\ NameOf(p) \in DOMAIN x /\ NameOf(p) \notin DOMAIN a

LEMMA MergesAlike ==
    ASSUME NEW a, NEW x, NEW F, NEW p, Below(a, x), NodesFrom({a} \cup F, x),
           SteadyMerge(p, a, F)
    PROVE  Matching(x, p) = Matching(a, p) \/ CreatedBefore(a, x, p)
<1>1. ASSUME NEW n, n \in Matching(x, p) \cup Matching(a, p)
      PROVE  \/ n \in Matching(x, p) <=> n \in Matching(a, p)
             \/ n = NameOf(p) /\ n \notin DOMAIN a /\ Matching(a, p) = {}
  <2>1. n.label = p.label /\ n \in Labelled(p, {a} \cup F)
    BY <1>1, MatchedIsLabelled
  <2> QED BY <2>1, DecidedAlike DEF SteadyMerge, NameOf
<1>2. CASE \A n \in Matching(x, p) \cup Matching(a, p) :
              n \in Matching(x, p) <=> n \in Matching(a, p)
  BY <1>2
<1>3. CASE \E n \in Matching(x, p) \cup Matching(a, p) :
              ~(n \in Matching(x, p) <=> n \in Matching(a, p))
  <2>1. Matching(a, p) = {} /\ NameOf(p) \notin DOMAIN a /\ NameOf(p) \in Matching(x, p)
    BY <1>1, <1>3
  <2>2. Matching(x, p) = {NameOf(p)}
    BY <1>1, <2>1
  <2>3. NameOf(p) \in DOMAIN x
    BY <2>1, MatchingIs
  <2> QED BY <2>1, <2>2, <2>3 DEF CreatedBefore
<1> QED BY <1>2, <1>3

-----------------------------------------------------------------------------
(* One MERGE, of a load that did not fail and of one that did. *)

\* a becomes aa and x becomes xx, by rows that say the same, but that of x sets no property
\* where an earlier try created the node.
BothWrite(a, aa, ra, x, xx, rx, p, T) ==
    /\ DOMAIN aa = T \cup DOMAIN a /\ DOMAIN xx = T \cup DOMAIN x
    /\ \A n \in T : Becomes(ra, Was(a, p, n), aa[n]) /\ Becomes(rx, Was(x, p, n), xx[n])
    /\ \A n \in DOMAIN a : n \notin T => aa[n] = a[n]
    /\ \A n \in DOMAIN x : n \notin T => xx[n] = x[n]
    /\ rx.records = ra.records /\ rx.who = ra.who /\ rx.shown = ra.shown
    /\ \/ rx.props = ra.props
       \/ DOMAIN rx.props = {} /\ \A n \in T : n \in DOMAIN x /\ n \notin DOMAIN a

LEMMA OffTargetFrom ==
    ASSUME NEW a, NEW aa, NEW x, NEW F, NEW n \in DOMAIN x, NodesFrom({a} \cup F, x),
           n \in DOMAIN a => n \in DOMAIN aa /\ aa[n] = a[n]
    PROVE  NodeFrom({aa} \cup F, n, x[n])
BY DEF NodesFrom, NodeFrom, PropFrom, RecordFrom, WhoFrom

\* The node that a creates was created in x before, or in neither.
LEMMA KeysOfNew ==
    ASSUME NEW a, NEW aa, NEW x, NEW F, NEW n, n \in DOMAIN x, n \notin DOMAIN a, n \in DOMAIN aa,
           NodesFrom({a} \cup F, x), \A q \in F : Below(aa, q)
    PROVE  DOMAIN aa[n].props \subseteq DOMAIN x[n].props
<1>1. PICK q \in F : n \in DOMAIN q /\ DOMAIN q[n].props \subseteq DOMAIN x[n].props
  BY DEF NodesFrom, NodeFrom
<1>2. DOMAIN aa[n].props \subseteq DOMAIN q[n].props
  BY <1>1 DEF Below
<1> QED BY <1>1, <1>2

LEMMA WrittenBelow ==
    ASSUME NEW a, NEW aa, NEW ra, NEW x, NEW xx, NEW rx, NEW p, NEW T, NEW F,
           BothWrite(a, aa, ra, x, xx, rx, p, T), Below(a, x), NodesFrom({a} \cup F, x),
           \A q \in F : Below(aa, q)
    PROVE  Below(aa, xx)
<1>1. DOMAIN aa \subseteq DOMAIN xx
  BY DEF BothWrite, Below
<1>2. ASSUME NEW n \in DOMAIN aa, n \notin T
      PROVE  /\ DOMAIN aa[n].props \subseteq DOMAIN xx[n].props
             /\ aa[n].records \subseteq xx[n].records /\ aa[n].who \subseteq xx[n].who
  BY <1>2 DEF BothWrite, Below
<1>3. ASSUME NEW n \in T
      PROVE  /\ DOMAIN aa[n].props \subseteq DOMAIN xx[n].props
             /\ aa[n].records \subseteq xx[n].records /\ aa[n].who \subseteq xx[n].who
  <2> DEFINE was == Was(a, p, n)
             old == Was(x, p, n)
  <2>1. Becomes(ra, was, aa[n]) /\ Becomes(rx, old, xx[n]) /\ n \in DOMAIN aa
    BY DEF BothWrite
  <2>2. was.records \subseteq old.records /\ was.who \subseteq old.who
    BY DEF Was, Below, NoNode
  <2>3. DOMAIN aa[n].props = DOMAIN ra.props \cup DOMAIN was.props
        /\ DOMAIN xx[n].props = DOMAIN rx.props \cup DOMAIN old.props
    BY <2>1 DEF Becomes, Over
  <2>4. n \in DOMAIN x => old = x[n]
    BY DEF Was
  <2>5. CASE n \in DOMAIN a
    <3>1. DOMAIN was.props \subseteq DOMAIN old.props /\ rx.props = ra.props
      BY <2>5 DEF Was, Below, BothWrite
    <3> HIDE DEF was, old
    <3> QED BY <2>1, <2>2, <2>3, <3>1 DEF Becomes, BothWrite
  <2>6. CASE n \notin DOMAIN a /\ n \in DOMAIN x
    <3>1. DOMAIN aa[n].props \subseteq DOMAIN x[n].props
      BY <2>1, <2>6, KeysOfNew
    <3> HIDE DEF was, old
    <3> QED BY <2>1, <2>2, <2>3, <2>4, <2>6, <3>1 DEF Becomes, BothWrite
  <2>7. CASE n \notin DOMAIN a /\ n \notin DOMAIN x
    <3>1. was = old /\ rx.props = ra.props
      BY <2>7 DEF Was, BothWrite
    <3> HIDE DEF was, old
    <3> QED BY <2>1, <2>2, <2>3, <3>1 DEF Becomes, BothWrite
  <2> QED BY <2>5, <2>6, <2>7
<1> QED BY <1>1, <1>2, <1>3 DEF Below

LEMMA WrittenFrom ==
    ASSUME NEW a, NEW aa, NEW ra, NEW x, NEW xx, NEW rx, NEW p, NEW T, NEW F,
           BothWrite(a, aa, ra, x, xx, rx, p, T), Below(a, x), NodesFrom({a} \cup F, x),
           \A q \in F : Below(aa, q)
    PROVE  NodesFrom({aa} \cup F, xx)
<1> DEFINE FF == {aa} \cup F
<1>1. ASSUME NEW n \in DOMAIN xx, n \notin T PROVE NodeFrom(FF, n, xx[n])
  <2>1. n \in DOMAIN x /\ xx[n] = x[n]
    BY <1>1 DEF BothWrite
  <2>2. n \in DOMAIN a => n \in DOMAIN aa /\ aa[n] = a[n]
    BY <1>1 DEF BothWrite
  <2> QED BY <2>1, <2>2, OffTargetFrom
<1>2. ASSUME NEW n \in T PROVE NodeFrom(FF, n, xx[n])
  <2> DEFINE was == Was(a, p, n)
             old == Was(x, p, n)
  <2>1. Becomes(ra, was, aa[n]) /\ Becomes(rx, old, xx[n]) /\ n \in DOMAIN aa
    BY DEF BothWrite
  <2>2. Below(aa, xx)
    BY WrittenBelow
  <2>3. \/ rx.props = ra.props
        \/ DOMAIN rx.props = {} /\ n \in DOMAIN x /\ n \notin DOMAIN a
    BY DEF BothWrite
  <2>4. rx.records = ra.records /\ rx.who = ra.who /\ rx.shown = ra.shown
    BY DEF BothWrite
  <2>5. \E q \in FF : n \in DOMAIN q /\ DOMAIN q[n].props \subseteq DOMAIN xx[n].props
    BY <2>1, <2>2 DEF Below
  <2>6. n \in DOMAIN a => n \in DOMAIN x /\ was = a[n]
    BY DEF Was, Below
  <2>7. n \in DOMAIN x => NodeFrom({a} \cup F, n, old)
    BY DEF Was, NodesFrom
  <2>8. n \notin DOMAIN x => was = old
    BY DEF Was, Below
  <2> HIDE DEF was, old
  <2>9. /\ DOMAIN aa[n].props = DOMAIN ra.props \cup DOMAIN was.props
        /\ \A k \in DOMAIN ra.props : aa[n].props[k] = ra.props[k]
        /\ \A k \in DOMAIN was.props \ DOMAIN ra.props : aa[n].props[k] = was.props[k]
    BY <2>1 DEF Becomes, Over
  <2>10. /\ DOMAIN xx[n].props = DOMAIN rx.props \cup DOMAIN old.props
         /\ \A k \in DOMAIN rx.props : xx[n].props[k] = rx.props[k]
         /\ \A k \in DOMAIN old.props \ DOMAIN rx.props : xx[n].props[k] = old.props[k]
    BY <2>1 DEF Becomes, Over
  <2>11. ASSUME NEW k \in DOMAIN xx[n].props PROVE PropFrom(FF, n, k, xx[n].props[k])
    <3>1. CASE k \in DOMAIN rx.props
      BY <2>1, <2>3, <2>9, <2>10, <3>1 DEF PropFrom
    <3>2. CASE k \notin DOMAIN rx.props /\ n \notin DOMAIN x
      BY <2>1, <2>3, <2>8, <2>9, <2>10, <3>2 DEF PropFrom
    <3>3. CASE k \notin DOMAIN rx.props /\ n \in DOMAIN x
      <4>1. PICK q \in {a} \cup F : n \in DOMAIN q /\ k \in DOMAIN q[n].props
                                    /\ q[n].props[k] = xx[n].props[k]
        BY <2>7, <2>10, <3>3 DEF NodeFrom, PropFrom
      <4>2. CASE q \in F
        BY <4>1, <4>2 DEF PropFrom
      <4>3. CASE q = a
        BY <2>1, <2>3, <2>6, <2>9, <3>3, <4>1, <4>3 DEF PropFrom
      <4> QED BY <4>2, <4>3
    <3> QED BY <3>1, <3>2, <3>3
  <2>12. ASSUME NEW r \in xx[n].records PROVE RecordFrom(FF, n, r)
    <3>1. r \in old.records \cup rx.records /\ aa[n].records = was.records \cup ra.records
      BY <2>1 DEF Becomes
    <3>2. CASE r \in rx.records \/ n \notin DOMAIN x
      BY <2>1, <2>4, <2>8, <3>1, <3>2 DEF RecordFrom
    <3>3. CASE r \notin rx.records /\ n \in DOMAIN x
      <4>1. PICK q \in {a} \cup F : n \in DOMAIN q /\ r \in q[n].records
        BY <2>7, <3>1, <3>3 DEF NodeFrom, RecordFrom
      <4> QED BY <2>1, <2>6, <3>1, <4>1 DEF RecordFrom
    <3> QED BY <3>2, <3>3
  <2>13. ASSUME NEW y \in xx[n].who PROVE WhoFrom(FF, n, y)
    <3>1. y \in old.who \cup rx.who /\ aa[n].who = was.who \cup ra.who
      BY <2>1 DEF Becomes
    <3>2. CASE y \in rx.who \/ n \notin DOMAIN x
      BY <2>1, <2>4, <2>8, <3>1, <3>2 DEF WhoFrom
    <3>3. CASE y \notin rx.who /\ n \in DOMAIN x
      <4>1. PICK q \in {a} \cup F : n \in DOMAIN q /\ y \in q[n].who
        BY <2>7, <3>1, <3>3 DEF NodeFrom, WhoFrom
      <4> QED BY <2>1, <2>6, <3>1, <4>1 DEF WhoFrom
    <3> QED BY <3>2, <3>3
  <2>14. \E q \in FF : n \in DOMAIN q /\ q[n].shown = xx[n].shown
    <3>1. /\ xx[n].shown = IF rx.shown = {} THEN old.shown ELSE rx.shown
          /\ aa[n].shown = IF ra.shown = {} THEN was.shown ELSE ra.shown
      BY <2>1 DEF Becomes
    <3>2. CASE rx.shown # {} \/ n \notin DOMAIN x
      BY <2>1, <2>4, <2>8, <3>1, <3>2
    <3>3. CASE rx.shown = {} /\ n \in DOMAIN x
      <4>1. PICK q \in {a} \cup F : n \in DOMAIN q /\ q[n].shown = old.shown
        BY <2>7, <3>3 DEF NodeFrom
      <4> QED BY <2>1, <2>4, <2>6, <3>1, <3>3, <4>1
    <3> QED BY <3>2, <3>3
  <2> QED BY <2>5, <2>11, <2>12, <2>13, <2>14 DEF NodeFrom
<1>3. DOMAIN xx = T \cup DOMAIN x
  BY DEF BothWrite
<1> QED BY <1>1, <1>2, <1>3 DEF NodesFrom

LEMMA BelowSelf == ASSUME NEW a PROVE Below(a, a)
BY DEF Below

LEMMA BelowTwice ==
    ASSUME NEW a, NEW b, NEW c, Below(a, b), Below(b, c)
    PROVE  Below(a, c)
<1>1. ASSUME NEW n \in DOMAIN a
      PROVE  /\ DOMAIN a[n].props \subseteq DOMAIN c[n].props
             /\ a[n].records \subseteq c[n].records /\ a[n].who \subseteq c[n].who
  <2>1. n \in DOMAIN b
    BY DEF Below
  <2> QED BY <2>1 DEF Below
<1> QED BY <1>1 DEF Below

LEMMA MergeGrows == ASSUME NEW a, NEW p, NEW row PROVE Below(a, Merge(a, p, row))
<1> DEFINE new == Merge(a, p, row)
<1>1. /\ DOMAIN new = Targets(a, p) \cup DOMAIN a
      /\ \A n \in Targets(a, p) : Becomes(row, Was(a, p, n), new[n])
      /\ \A n \in DOMAIN a : n \notin Targets(a, p) => new[n] = a[n]
  BY MergeTargets
<1> HIDE DEF new
<1>2. ASSUME NEW n \in DOMAIN a
      PROVE  /\ DOMAIN a[n].props \subseteq DOMAIN new[n].props
             /\ a[n].records \subseteq new[n].records /\ a[n].who \subseteq new[n].who
  <2>1. CASE n \in Targets(a, p)
    <3>1. Becomes(row, a[n], new[n])
      BY <1>1, <2>1 DEF Was
    <3> QED BY <3>1 DEF Becomes, Over
  <2>2. CASE n \notin Targets(a, p)
    BY <1>1, <2>2
  <2> QED BY <2>1, <2>2
<1> QED BY <1>1, <1>2 DEF Below, new

LEMMA EndGrows == ASSUME NEW a, NEW e PROVE Below(a, CreateEnd(a, e))
BY MergeGrows, BelowSelf DEF CreateEnd

LEMMA TargetsAlike ==
    ASSUME NEW a, NEW x, NEW p, Matching(x, p) = Matching(a, p) \/ CreatedBefore(a, x, p)
    PROVE  Targets(x, p) = Targets(a, p)
BY DEF Targets, CreatedBefore

LEMMA MergeBoth ==
    ASSUME NEW a, NEW x, NEW F, NEW p, NEW row, Below(a, x), NodesFrom({a} \cup F, x),
           SteadyMerge(p, a, F), \A q \in F : Below(Merge(a, p, row), q)
    PROVE  /\ Below(Merge(a, p, row), Merge(x, p, row))
           /\ NodesFrom({Merge(a, p, row)} \cup F, Merge(x, p, row))
<1> DEFINE aa == Merge(a, p, row)
           xx == Merge(x, p, row)
           T == Targets(a, p)
<1>1. Targets(x, p) = T
  BY MergesAlike, TargetsAlike
<1>2. /\ DOMAIN aa = T \cup DOMAIN a
      /\ \A n \in T : Becomes(row, Was(a, p, n), aa[n])
      /\ \A n \in DOMAIN a : n \notin T => aa[n] = a[n]
  BY MergeTargets
<1>3. /\ DOMAIN xx = T \cup DOMAIN x
      /\ \A n \in T : Becomes(row, Was(x, p, n), xx[n])
      /\ \A n \in DOMAIN x : n \notin T => xx[n] = x[n]
  <2>1. /\ DOMAIN xx = Targets(x, p) \cup DOMAIN x
        /\ \A n \in Targets(x, p) : Becomes(row, Was(x, p, n), xx[n])
        /\ \A n \in DOMAIN x : n \notin Targets(x, p) => xx[n] = x[n]
    BY MergeTargets
  <2> HIDE DEF xx, T
  <2> QED BY <1>1, <2>1
<1>4. \A q \in F : Below(aa, q)
  OBVIOUS
<1> HIDE DEF aa, xx, T
<1>5. BothWrite(a, aa, row, x, xx, row, p, T)
  BY <1>2, <1>3 DEF BothWrite
<1>6. Below(aa, xx) /\ NodesFrom({aa} \cup F, xx)
  BY <1>4, <1>5, WrittenBelow, WrittenFrom
<1> QED BY <1>6 DEF aa, xx

\* What CREATE of an end sets.
EndRow(nodes, p) ==
    [props |-> IF Matching(nodes, p) # {} THEN <<>> ELSE p.props,
     records |-> p.records, shown |-> p.records, who |-> p.who]

LEMMA CreateEndBoth ==
    ASSUME NEW a, NEW x, NEW F, NEW e, Below(a, x), NodesFrom({a} \cup F, x),
           SteadyEnd(e, a, F), \A q \in F : Below(CreateEnd(a, e), q)
    PROVE  /\ Below(CreateEnd(a, e), CreateEnd(x, e))
           /\ NodesFrom({CreateEnd(a, e)} \cup F, CreateEnd(x, e))
<1> DEFINE p == e[1]
           aa == CreateEnd(a, e)
           xx == CreateEnd(x, e)
           ra == EndRow(a, p)
           rx == EndRow(x, p)
           T == Targets(a, p)
<1>1. CASE ~(p.creates /\ ~Absent(p))
  BY <1>1 DEF CreateEnd
<1>2. CASE p.creates /\ ~Absent(p)
  <2>1. SteadyMerge(p, a, F)
    BY <1>2 DEF SteadyEnd
  <2>2. Matching(x, p) = Matching(a, p) \/ CreatedBefore(a, x, p)
    BY <2>1, MergesAlike
  <2>3. Targets(x, p) = T
    BY <2>2, TargetsAlike
  <2>4. aa = Merge(a, p, ra) /\ xx = Merge(x, p, rx)
    BY <1>2 DEF CreateEnd, EndRow
  <2>5. /\ DOMAIN aa = T \cup DOMAIN a
        /\ \A n \in T : Becomes(ra, Was(a, p, n), aa[n])
        /\ \A n \in DOMAIN a : n \notin T => aa[n] = a[n]
    <3>1. /\ DOMAIN Merge(a, p, ra) = Targets(a, p) \cup DOMAIN a
          /\ \A n \in Targets(a, p) : Becomes(ra, Was(a, p, n), Merge(a, p, ra)[n])
          /\ \A n \in DOMAIN a : n \notin Targets(a, p) => Merge(a, p, ra)[n] = a[n]
      BY MergeTargets
    <3>2. Targets(a, p) = T
      BY <2>3
    <3> HIDE DEF aa, xx, ra, rx, T, p
    <3> QED BY <2>4, <3>1, <3>2
  <2>6. /\ DOMAIN xx = T \cup DOMAIN x
        /\ \A n \in T : Becomes(rx, Was(x, p, n), xx[n])
        /\ \A n \in DOMAIN x : n \notin T => xx[n] = x[n]
    <3>1. /\ DOMAIN Merge(x, p, rx) = Targets(x, p) \cup DOMAIN x
          /\ \A n \in Targets(x, p) : Becomes(rx, Was(x, p, n), Merge(x, p, rx)[n])
          /\ \A n \in DOMAIN x : n \notin Targets(x, p) => Merge(x, p, rx)[n] = x[n]
      BY MergeTargets
    <3>2. Targets(x, p) = T
      BY <2>3
    <3> HIDE DEF aa, xx, ra, rx, T, p
    <3> QED BY <2>4, <3>1, <3>2
  <2>7. rx.records = ra.records /\ rx.who = ra.who /\ rx.shown = ra.shown
    BY DEF EndRow
  <2>8. \/ rx.props = ra.props
        \/ DOMAIN rx.props = {} /\ \A n \in T : n \in DOMAIN x /\ n \notin DOMAIN a
    <3>1. CASE Matching(x, p) = Matching(a, p)
      BY <3>1 DEF EndRow
    <3>2. CASE CreatedBefore(a, x, p)
      <4>1. rx.props = <<>> /\ T = {NameOf(p)}
        BY <3>2 DEF EndRow, CreatedBefore, Targets
      <4>2. DOMAIN <<>> = {}
        OBVIOUS
      <4> HIDE DEF rx, T
      <4> QED BY <3>2, <4>1, <4>2 DEF CreatedBefore
    <3> QED BY <2>2, <3>1, <3>2
  <2>9. \A q \in F : Below(aa, q)
    OBVIOUS
  <2> HIDE DEF aa, xx, ra, rx, T, p
  <2>10. BothWrite(a, aa, ra, x, xx, rx, p, T)
    BY <2>5, <2>6, <2>7, <2>8 DEF BothWrite
  <2>11. Below(aa, xx) /\ NodesFrom({aa} \cup F, xx)
    BY <2>9, <2>10, WrittenBelow, WrittenFrom
  <2> QED BY <2>11 DEF aa, xx
<1> QED BY <1>1, <1>2

\* A row of links goes to the same ends.
LEMMA EndsAlike ==
    ASSUME NEW a, NEW x, NEW F, NEW e, Below(a, x), NodesFrom({a} \cup F, x),
           IsSequence(e), \A p \in ToSet(e) : SteadyMatch(p, {a} \cup F)
    PROVE  EndNodes(x, e) = EndNodes(a, e)
<1>1. \A i \in DOMAIN e : Matching(x, e[i]) = Matching(a, e[i])
  <2> TAKE i \in DOMAIN e
  <2>1. e[i] \in ToSet(e)
    BY DEF ToSet
  <2> QED BY <2>1, MatchesAlike
<1> DEFINE fx == {i \in DOMAIN e : Matching(x, e[i]) # {}}
           fa == {i \in DOMAIN e : Matching(a, e[i]) # {}}
<1>2. fx = fa
  BY <1>1
<1>3. CASE fa = {}
  BY <1>2, <1>3 DEF EndNodes
<1>4. CASE fa # {}
  <2> DEFINE i == CHOOSE i \in fa : \A j \in fa : i <= j
  <2>1. EndNodes(x, e) = Matching(x, e[i]) /\ EndNodes(a, e) = Matching(a, e[i])
    BY <1>2, <1>4 DEF EndNodes
  <2>2. fa \in SUBSET Nat
    BY DEF IsSequence
  <2> HIDE DEF fx, fa
  <2>3. \E m \in fa : \A j \in fa : m <= j
    BY <1>4, <2>2, LeastNatural
  <2>4. i \in fa
    BY <2>3
  <2> HIDE DEF i
  <2>5. i \in DOMAIN e
    BY <2>4 DEF fa
  <2> QED BY <1>1, <2>1, <2>5
<1> QED BY <1>3, <1>4

-----------------------------------------------------------------------------
(* One row, of a load that did not fail and of one that did. *)

LinksBelow(a, x) ==
    DOMAIN a \subseteq DOMAIN x /\ \A l \in DOMAIN a : a[l].records \subseteq x[l].records
LinksFrom(F, x) ==
    \A l \in DOMAIN x :
        /\ \A r \in x[l].records : \E q \in F : l \in DOMAIN q /\ r \in q[l].records
        /\ \E q \in F : l \in DOMAIN q /\ q[l].last = x[l].last

NodesIn(F) == {q.nodes : q \in F}
LinksIn(F) == {q.links : q \in F}
Grows(a, b) == Below(a.nodes, b.nodes) /\ LinksBelow(a.links, b.links)
\* Graph x is between graph a, of the load that did not fail, and those it has later.
Between(a, x, F) ==
    /\ Grows(a, x)
    /\ NodesFrom({a.nodes} \cup NodesIn(F), x.nodes)
    /\ LinksFrom({a.links} \cup LinksIn(F), x.links)

LEMMA GrowsSelf == ASSUME NEW a PROVE Grows(a, a)
BY BelowSelf DEF Grows, LinksBelow

LEMMA GrowsTwice == ASSUME NEW a, NEW b, NEW c, Grows(a, b), Grows(b, c) PROVE Grows(a, c)
<1>1. Below(a.nodes, c.nodes)
  BY BelowTwice DEF Grows
<1>2. LinksBelow(a.links, c.links)
  <2>1. DOMAIN a.links \subseteq DOMAIN b.links /\ DOMAIN b.links \subseteq DOMAIN c.links
    BY DEF Grows, LinksBelow
  <2>2. ASSUME NEW l \in DOMAIN a.links PROVE a.links[l].records \subseteq c.links[l].records
    <3>1. a.links[l].records \subseteq b.links[l].records /\ l \in DOMAIN b.links
      BY <2>1 DEF Grows, LinksBelow
    <3>2. b.links[l].records \subseteq c.links[l].records
      BY <3>1 DEF Grows, LinksBelow
    <3> QED BY <3>1, <3>2
  <2> QED BY <2>1, <2>2 DEF LinksBelow
<1> QED BY <1>1, <1>2 DEF Grows

LEMMA NodesOfGrows ==
    ASSUME NEW g, NEW row
    PROVE  Below(g.nodes, NodesOf(g, row)) /\ Below(CreateEnd(g.nodes, row.from), NodesOf(g, row))
<1> DEFINE first == CreateEnd(g.nodes, row.from)
<1>1. Below(g.nodes, first) /\ Below(first, first) /\ Below(first, CreateEnd(first, row.to))
  BY EndGrows, BelowSelf
<1>2. NodesOf(g, row) = first \/ NodesOf(g, row) = CreateEnd(first, row.to)
  BY DEF NodesOf, SecondEnd
<1>3. Below(first, NodesOf(g, row))
  BY <1>1, <1>2
<1> HIDE DEF first
<1>4. Below(g.nodes, NodesOf(g, row))
  BY <1>1, <1>3, BelowTwice
<1> QED BY <1>3, <1>4 DEF first

LEMMA LoadLinkNodes ==
    ASSUME NEW g, NEW part, NEW row
    PROVE  LoadLink(g, part, row).nodes = NodesOf(g, row)
BY DEF LoadLink, Linked, LinkEnds

LinkIds(g, part, row) == {<<part.type, e[1], e[2], row.key>> : e \in EndsOf(g, row)}
\* Links a become aa by a row that states those of ids.
LinksWritten(a, aa, ids, r) ==
    /\ DOMAIN aa = ids \cup DOMAIN a
    /\ \A l \in ids : /\ aa[l].last = r
                      /\ l \in DOMAIN a => aa[l].records = a[l].records \cup {r}
                      /\ l \notin DOMAIN a => aa[l].records = {r}
    /\ \A l \in DOMAIN a : l \notin ids => aa[l] = a[l]

LinkShape(link) == link = [records |-> link.records, last |-> link.last]
LinksShape(links) ==
    links = [l \in DOMAIN links |-> links[l]] /\ \A l \in DOMAIN links : LinkShape(links[l])

LEMMA LoadLinkLinks ==
    ASSUME NEW g, NEW part, NEW row
    PROVE  /\ LinksWritten(g.links, LoadLink(g, part, row).links, LinkIds(g, part, row), row.record)
           /\ LinksShape(g.links) => LinksShape(LoadLink(g, part, row).links)
<1> DEFINE new == LoadLink(g, part, row).links
           links == g.links
           r == row.record
           ids == LinkIds(g, part, row)
           Old(l) == IF l \in DOMAIN links THEN links[l].records ELSE {}
           added == [l \in ids |-> [records |-> Old(l) \cup {r}, last |-> r]]
<1>1. new = Over(added, links)
  BY DEF LoadLink, Linked, LinkEnds, EndsOf, LinkIds
<1>2. DOMAIN added = ids
      /\ \A l \in ids : added[l] = [records |-> Old(l) \cup {r}, last |-> r]
  OBVIOUS
<1>3. \A l : /\ l \in DOMAIN links => Old(l) = links[l].records
             /\ l \notin DOMAIN links => Old(l) = {}
  OBVIOUS
<1> HIDE DEF new, links, r, ids, Old, added
<1>4. /\ new = [l \in DOMAIN new |-> new[l]] /\ DOMAIN new = ids \cup DOMAIN links
      /\ \A l \in ids : new[l] = added[l]
      /\ \A l \in DOMAIN links : l \notin ids => new[l] = links[l]
  BY <1>1, <1>2 DEF Over
<1>5. ASSUME NEW l \in ids
      PROVE  /\ new[l].last = r /\ LinkShape(new[l])
             /\ l \in DOMAIN links => new[l].records = links[l].records \cup {r}
             /\ l \notin DOMAIN links => new[l].records = {r}
  <2>1. new[l] = [records |-> Old(l) \cup {r}, last |-> r]
    BY <1>2, <1>4
  <2>2. new[l].records = Old(l) \cup {r} /\ new[l].last = r /\ LinkShape(new[l])
    BY <2>1 DEF LinkShape
  <2> QED BY <1>3, <2>2
<1>6. LinksWritten(links, new, ids, r)
  BY <1>4, <1>5 DEF LinksWritten
<1>7. ASSUME LinksShape(links) PROVE LinksShape(new)
  <2>1. \A l \in DOMAIN new : LinkShape(new[l])
    BY <1>4, <1>5, <1>7 DEF LinksShape
  <2> QED BY <1>4, <2>1 DEF LinksShape
<1> QED BY <1>6, <1>7 DEF new, links, r, ids

LEMMA LinksGrow ==
    ASSUME NEW a, NEW aa, NEW ids, NEW r, LinksWritten(a, aa, ids, r)
    PROVE  LinksBelow(a, aa)
<1>1. ASSUME NEW l \in DOMAIN a PROVE a[l].records \subseteq aa[l].records
  <2>1. CASE l \in ids
    BY <2>1 DEF LinksWritten
  <2>2. CASE l \notin ids
    BY <2>2 DEF LinksWritten
  <2> QED BY <2>1, <2>2
<1> QED BY <1>1 DEF LinksBelow, LinksWritten

LEMMA LinksBoth ==
    ASSUME NEW a, NEW aa, NEW x, NEW xx, NEW ids, NEW r, NEW F,
           LinksWritten(a, aa, ids, r), LinksWritten(x, xx, ids, r),
           LinksBelow(a, x), LinksFrom({a} \cup F, x)
    PROVE  LinksBelow(aa, xx) /\ LinksFrom({aa} \cup F, xx)
<1>1. ASSUME NEW l \in DOMAIN aa PROVE l \in DOMAIN xx /\ aa[l].records \subseteq xx[l].records
  <2>1. l \in DOMAIN a => l \in DOMAIN x /\ a[l].records \subseteq x[l].records
    BY DEF LinksBelow
  <2>2. CASE l \in ids
    <3>1. CASE l \in DOMAIN a
      BY <2>1, <2>2, <3>1 DEF LinksWritten
    <3>2. CASE l \notin DOMAIN a
      <4>1. aa[l].records = {r} /\ l \in DOMAIN xx /\ r \in xx[l].records
        BY <2>2, <3>2 DEF LinksWritten
      <4> QED BY <4>1
    <3> QED BY <3>1, <3>2
  <2>3. CASE l \notin ids
    BY <2>1, <2>3 DEF LinksWritten
  <2> QED BY <2>2, <2>3
<1>2. ASSUME NEW l \in DOMAIN a
      PROVE  /\ l \in DOMAIN aa /\ a[l].records \subseteq aa[l].records
             /\ l \notin ids => aa[l] = a[l]
  BY LinksGrow DEF LinksBelow, LinksWritten
<1>3. ASSUME NEW l \in DOMAIN xx, NEW s \in xx[l].records
      PROVE  \E q \in {aa} \cup F : l \in DOMAIN q /\ s \in q[l].records
  <2>1. CASE l \in ids /\ s = r
    <3>1. l \in DOMAIN aa /\ r \in aa[l].records
      BY <2>1 DEF LinksWritten
    <3> QED BY <2>1, <3>1
  <2>2. CASE ~(l \in ids /\ s = r)
    <3>1. l \in DOMAIN x /\ s \in x[l].records
      BY <2>2, <1>3 DEF LinksWritten
    <3>2. PICK q \in {a} \cup F : l \in DOMAIN q /\ s \in q[l].records
      BY <3>1 DEF LinksFrom
    <3> QED BY <1>2, <3>2
  <2> QED BY <2>1, <2>2
<1>4. ASSUME NEW l \in DOMAIN xx
      PROVE  \E q \in {aa} \cup F : l \in DOMAIN q /\ q[l].last = xx[l].last
  <2>1. CASE l \in ids
    <3>1. l \in DOMAIN aa /\ aa[l].last = r /\ xx[l].last = r
      BY <2>1 DEF LinksWritten
    <3> QED BY <3>1
  <2>2. CASE l \notin ids
    <3>1. l \in DOMAIN x /\ xx[l] = x[l]
      BY <2>2 DEF LinksWritten
    <3>2. PICK q \in {a} \cup F : l \in DOMAIN q /\ q[l].last = x[l].last
      BY <3>1 DEF LinksFrom
    <3> QED BY <1>2, <2>2, <3>1, <3>2
  <2> QED BY <2>1, <2>2
<1> QED BY <1>1, <1>3, <1>4 DEF LinksBelow, LinksFrom

LEMMA LoadLinkGrows ==
    ASSUME NEW g, NEW part, NEW row
    PROVE  Grows(g, LoadLink(g, part, row))
<1>1. Below(g.nodes, LoadLink(g, part, row).nodes)
  BY LoadLinkNodes, NodesOfGrows
<1>2. LinksBelow(g.links, LoadLink(g, part, row).links)
  BY LoadLinkLinks, LinksGrow
<1> QED BY <1>1, <1>2 DEF Grows

LEMMA LoadNodeGrows ==
    ASSUME NEW g, NEW part, NEW row
    PROVE  Grows(g, LoadNode(g, part, row))
<1>1. CASE Absent(KeyOf(part, row))
  BY <1>1, GrowsSelf DEF LoadNode
<1>2. CASE ~Absent(KeyOf(part, row))
  <2> DEFINE new == Merge(g.nodes, KeyOf(part, row), row)
  <2>1. LoadNode(g, part, row) = [nodes |-> new, links |-> g.links, lost |-> g.lost]
    BY <1>2 DEF LoadNode
  <2>2. Below(g.nodes, new)
    BY MergeGrows
  <2> HIDE DEF new
  <2> QED BY <2>1, <2>2 DEF Grows, LinksBelow
<1> QED BY <1>1, <1>2

LEMMA LoadRowGrows ==
    ASSUME NEW g, NEW part, NEW row
    PROVE  Grows(g, LoadRow(g, part, row))
BY LoadNodeGrows, LoadLinkGrows DEF LoadRow

LEMMA LoadNodeBoth ==
    ASSUME NEW a, NEW x, NEW F, NEW part, NEW row, Between(a, x, F),
           ~Absent(KeyOf(part, row)) => SteadyMerge(KeyOf(part, row), a.nodes, NodesIn(F)),
           \A q \in F : Grows(LoadNode(a, part, row), q)
    PROVE  Between(LoadNode(a, part, row), LoadNode(x, part, row), F)
<1> DEFINE p == KeyOf(part, row)
           aa == LoadNode(a, part, row)
           xx == LoadNode(x, part, row)
<1>1. CASE Absent(p)
  BY <1>1 DEF LoadNode
<1>2. CASE ~Absent(p)
  <2>1. aa = [nodes |-> Merge(a.nodes, p, row), links |-> a.links, lost |-> a.lost]
        /\ xx = [nodes |-> Merge(x.nodes, p, row), links |-> x.links, lost |-> x.lost]
    BY <1>2 DEF LoadNode
  <2>2. aa.nodes = Merge(a.nodes, p, row) /\ aa.links = a.links
        /\ xx.nodes = Merge(x.nodes, p, row) /\ xx.links = x.links
    BY <2>1
  <2>3. SteadyMerge(p, a.nodes, NodesIn(F)) /\ \A q \in F : Grows(aa, q)
    BY <1>2
  <2> HIDE DEF aa, xx, p
  <2>4. \A q \in NodesIn(F) : Below(Merge(a.nodes, p, row), q)
    BY <2>2, <2>3 DEF NodesIn, Grows
  <2>5. Below(aa.nodes, xx.nodes) /\ NodesFrom({aa.nodes} \cup NodesIn(F), xx.nodes)
    BY <2>2, <2>3, <2>4, MergeBoth DEF Between, Grows
  <2> QED BY <2>2, <2>5 DEF Between, Grows, aa, xx
<1> QED BY <1>1, <1>2

LEMMA NodesOfBoth ==
    ASSUME NEW a, NEW x, NEW E, NEW row,
           Below(a.nodes, x.nodes), NodesFrom({a.nodes} \cup E, x.nodes),
           IsSequence(row.from), SteadyEnd(row.from, a.nodes, E),
           \A p \in ToSet(row.from) : SteadyMatch(p, {CreateEnd(a.nodes, row.from)} \cup E),
           EndNodes(CreateEnd(a.nodes, row.from), row.from) # {} =>
               SteadyEnd(row.to, CreateEnd(a.nodes, row.from), E),
           \A q \in E : Below(NodesOf(a, row), q)
    PROVE  Below(NodesOf(a, row), NodesOf(x, row))
           /\ NodesFrom({NodesOf(a, row)} \cup E, NodesOf(x, row))
<1> DEFINE first == CreateEnd(a.nodes, row.from)
           xfirst == CreateEnd(x.nodes, row.from)
<1>1. \A q \in E : Below(first, q)
  <2>1. Below(first, NodesOf(a, row))
    BY NodesOfGrows
  <2> HIDE DEF first
  <2> QED BY <2>1, BelowTwice
<1>2. Below(first, xfirst) /\ NodesFrom({first} \cup E, xfirst)
  BY <1>1, CreateEndBoth
<1>3. EndNodes(xfirst, row.from) = EndNodes(first, row.from)
  <2>1. \A p \in ToSet(row.from) : SteadyMatch(p, {first} \cup E)
    OBVIOUS
  <2> HIDE DEF first, xfirst
  <2> QED BY <1>2, <2>1, EndsAlike
<1>4. CASE EndNodes(first, row.from) = {}
  <2>1. NodesOf(a, row) = first /\ NodesOf(x, row) = xfirst
    BY <1>3, <1>4 DEF NodesOf, SecondEnd
  <2> QED BY <1>2, <2>1
<1>5. CASE EndNodes(first, row.from) # {}
  <2>1. NodesOf(a, row) = CreateEnd(first, row.to) /\ NodesOf(x, row) = CreateEnd(xfirst, row.to)
    BY <1>3, <1>5 DEF NodesOf, SecondEnd
  <2>2. SteadyEnd(row.to, first, E)
    BY <1>5
  <2> HIDE DEF first, xfirst
  <2>3. \A q \in E : Below(CreateEnd(first, row.to), q)
    BY <2>1
  <2> QED BY <1>2, <2>1, <2>2, <2>3, CreateEndBoth
<1> QED BY <1>4, <1>5

LEMMA LoadLinkBoth ==
    ASSUME NEW a, NEW x, NEW F, NEW part, NEW row, Between(a, x, F),
           part.act # "nodes", IsSequence(row.from), IsSequence(row.to),
           SteadyRow(a, part, row, NodesIn(F)),
           \A q \in F : Grows(LoadLink(a, part, row), q)
    PROVE  Between(LoadLink(a, part, row), LoadLink(x, part, row), F)
<1> DEFINE aa == LoadLink(a, part, row)
           xx == LoadLink(x, part, row)
           E == NodesIn(F)
           first == CreateEnd(a.nodes, row.from)
<1>1. aa.nodes = NodesOf(a, row) /\ xx.nodes = NodesOf(x, row)
  BY LoadLinkNodes
<1>2. /\ SteadyEnd(row.from, a.nodes, E)
      /\ \A p \in ToSet(row.from) : SteadyMatch(p, {first} \cup E)
      /\ EndNodes(first, row.from) # {} => SteadyEnd(row.to, first, E)
      /\ \A p \in ToSet(row.from) \cup ToSet(row.to) : SteadyMatch(p, {aa.nodes} \cup E)
  BY <1>1 DEF SteadyRow
<1>3. \A q \in E : Below(aa.nodes, q)
  BY DEF NodesIn, Grows
<1>4. Below(aa.nodes, xx.nodes) /\ NodesFrom({aa.nodes} \cup E, xx.nodes)
  <2>1. Below(a.nodes, x.nodes) /\ NodesFrom({a.nodes} \cup E, x.nodes)
    BY DEF Between, Grows
  <2> HIDE DEF aa, xx, E
  <2> QED BY <1>1, <1>2, <1>3, <2>1, NodesOfBoth
<1>5. EndsOf(x, row) = EndsOf(a, row)
  <2>1. EndNodes(xx.nodes, row.from) = EndNodes(aa.nodes, row.from)
        /\ EndNodes(xx.nodes, row.to) = EndNodes(aa.nodes, row.to)
    <3> HIDE DEF aa, xx, E
    <3> QED BY <1>2, <1>4, EndsAlike
  <2> QED BY <1>1, <2>1 DEF EndsOf
<1>6. LinkIds(x, part, row) = LinkIds(a, part, row)
  BY <1>5 DEF LinkIds
<1>7. LinksBelow(aa.links, xx.links) /\ LinksFrom({aa.links} \cup LinksIn(F), xx.links)
  <2>1. LinksBelow(a.links, x.links) /\ LinksFrom({a.links} \cup LinksIn(F), x.links)
    BY DEF Between, Grows
  <2>2. /\ LinksWritten(a.links, aa.links, LinkIds(a, part, row), row.record)
        /\ LinksWritten(x.links, xx.links, LinkIds(a, part, row), row.record)
    BY <1>6, LoadLinkLinks
  <2> HIDE DEF aa, xx, E
  <2> QED BY <2>1, <2>2, LinksBoth
<1> HIDE DEF aa, xx
<1> QED BY <1>4, <1>7 DEF Between, Grows, aa, xx

LEMMA LoadRowBoth ==
    ASSUME NEW a, NEW x, NEW F, NEW part, NEW row, Between(a, x, F),
           part.act # "nodes" => IsSequence(row.from) /\ IsSequence(row.to),
           SteadyRow(a, part, row, NodesIn(F)),
           \A q \in F : Grows(LoadRow(a, part, row), q)
    PROVE  Between(LoadRow(a, part, row), LoadRow(x, part, row), F)
<1>1. CASE part.act = "nodes"
  <2>1. /\ LoadRow(a, part, row) = LoadNode(a, part, row)
        /\ LoadRow(x, part, row) = LoadNode(x, part, row)
    BY <1>1 DEF LoadRow
  <2>2. ~Absent(KeyOf(part, row)) => SteadyMerge(KeyOf(part, row), a.nodes, NodesIn(F))
    BY <1>1 DEF SteadyRow
  <2>3. \A q \in F : Grows(LoadNode(a, part, row), q)
    BY <2>1
  <2> QED BY <2>1, <2>2, <2>3, LoadNodeBoth
<1>2. CASE part.act # "nodes"
  <2>1. /\ LoadRow(a, part, row) = LoadLink(a, part, row)
        /\ LoadRow(x, part, row) = LoadLink(x, part, row)
    BY <1>2 DEF LoadRow
  <2>2. \A q \in F : Grows(LoadLink(a, part, row), q)
    BY <2>1
  <2> QED BY <1>2, <2>1, <2>2, LoadLinkBoth
<1> QED BY <1>1, <1>2

-----------------------------------------------------------------------------
(* Nodes and links are records, so that graphs that hold the same are the same. *)

NodesShape(nodes) ==
    nodes = [n \in DOMAIN nodes |-> nodes[n]] /\ \A n \in DOMAIN nodes : NodeShape(nodes[n])
GraphShape(g) == NodesShape(g.nodes) /\ LinksShape(g.links)

LEMMA MergeShape ==
    ASSUME NEW nodes, NEW p, NEW row, NodesShape(nodes)
    PROVE  NodesShape(Merge(nodes, p, row))
<1> DEFINE new == Merge(nodes, p, row)
           targets == Targets(nodes, p)
           Old(n) == IF n \in DOMAIN nodes THEN nodes[n] ELSE [NoNode EXCEPT !.props = p.match]
           Shown(n) == IF row.shown = {} THEN Old(n).shown ELSE row.shown
           written == [n \in targets |->
                          [props |-> Over(row.props, Old(n).props),
                           records |-> Old(n).records \cup row.records,
                           shown |-> Shown(n), who |-> Old(n).who \cup row.who]]
<1>1. new = Over(written, nodes)
  BY DEF Merge, Targets, NameOf
<1>2. DOMAIN written = targets
  OBVIOUS
<1>3. ASSUME NEW n \in targets PROVE NodeShape(written[n])
  <2>1. written[n] = [props |-> Over(row.props, Old(n).props),
                      records |-> Old(n).records \cup row.records,
                      shown |-> Shown(n), who |-> Old(n).who \cup row.who]
    OBVIOUS
  <2>2. \A f, g : Over(f, g) = [k \in DOMAIN Over(f, g) |-> Over(f, g)[k]]
    BY DEF Over
  <2> HIDE DEF Old, Shown, written
  <2> QED BY <2>1, <2>2 DEF NodeShape
<1> HIDE DEF written, targets, new
<1>4. new = [n \in DOMAIN new |-> new[n]]
  BY <1>1 DEF Over
<1>5. ASSUME NEW n \in DOMAIN new PROVE NodeShape(new[n])
  <2>1. CASE n \in targets
    <3>1. new[n] = written[n]
      BY <1>1, <1>2, <2>1 DEF Over
    <3> QED BY <1>3, <2>1, <3>1
  <2>2. CASE n \notin targets
    <3>1. n \in DOMAIN nodes /\ new[n] = nodes[n]
      BY <1>1, <1>2, <1>5, <2>2 DEF Over
    <3> QED BY <3>1 DEF NodesShape
  <2> QED BY <2>1, <2>2
<1> QED BY <1>4, <1>5 DEF NodesShape, new

LEMMA EndShape ==
    ASSUME NEW nodes, NEW e, NodesShape(nodes)
    PROVE  NodesShape(CreateEnd(nodes, e))
BY MergeShape DEF CreateEnd

LEMMA LoadRowShape ==
    ASSUME NEW g, NEW part, NEW row, GraphShape(g)
    PROVE  GraphShape(LoadRow(g, part, row))
<1>1. CASE part.act = "nodes" /\ Absent(KeyOf(part, row))
  BY <1>1 DEF LoadRow, LoadNode
<1>2. CASE part.act = "nodes" /\ ~Absent(KeyOf(part, row))
  <2> DEFINE new == Merge(g.nodes, KeyOf(part, row), row)
  <2>1. LoadRow(g, part, row) = [nodes |-> new, links |-> g.links, lost |-> g.lost]
    BY <1>2 DEF LoadRow, LoadNode
  <2>2. NodesShape(new)
    BY MergeShape DEF GraphShape
  <2> HIDE DEF new
  <2> QED BY <2>1, <2>2 DEF GraphShape
<1>3. CASE part.act # "nodes"
  <2>1. LoadRow(g, part, row) = LoadLink(g, part, row)
    BY <1>3 DEF LoadRow
  <2>2. LinksShape(LoadLink(g, part, row).links)
    BY LoadLinkLinks DEF GraphShape
  <2>3. NodesShape(CreateEnd(g.nodes, row.from))
        /\ NodesShape(CreateEnd(CreateEnd(g.nodes, row.from), row.to))
    BY EndShape DEF GraphShape
  <2>4. NodesShape(NodesOf(g, row))
    BY <2>3 DEF NodesOf, SecondEnd
  <2> QED BY <2>1, <2>2, <2>4, LoadLinkNodes DEF GraphShape
<1> QED BY <1>1, <1>2, <1>3

\* Graphs of a shape that hold the same.
LEMMA SameGraph ==
    ASSUME NEW a, NEW x, GraphShape(a), GraphShape(x), Between(a, x, {})
    PROVE  x.nodes = a.nodes /\ x.links = a.links
<1>1. {a.nodes} \cup NodesIn({}) = {a.nodes} /\ {a.links} \cup LinksIn({}) = {a.links}
  BY DEF NodesIn, LinksIn
<1>2. /\ Below(a.nodes, x.nodes) /\ LinksBelow(a.links, x.links)
      /\ NodesFrom({a.nodes}, x.nodes) /\ LinksFrom({a.links}, x.links)
  BY <1>1 DEF Between, Grows
<1>3. DOMAIN x.nodes = DOMAIN a.nodes
  BY <1>2 DEF Below, NodesFrom, NodeFrom
<1>4. ASSUME NEW n \in DOMAIN x.nodes PROVE x.nodes[n] = a.nodes[n]
  <2> DEFINE s == x.nodes[n]
             t == a.nodes[n]
  <2>1. NodeFrom({a.nodes}, n, s) /\ n \in DOMAIN a.nodes
    BY <1>2, <1>3 DEF NodesFrom
  <2>2. /\ DOMAIN t.props \subseteq DOMAIN s.props /\ t.records \subseteq s.records
        /\ t.who \subseteq s.who
    BY <1>2, <2>1 DEF Below
  <2>3. \A k \in DOMAIN s.props : k \in DOMAIN t.props /\ s.props[k] = t.props[k]
    BY <2>1 DEF NodeFrom, PropFrom
  <2>4. s.records \subseteq t.records /\ s.who \subseteq t.who /\ s.shown = t.shown
    BY <2>1 DEF NodeFrom, RecordFrom, WhoFrom
  <2>5. NodeShape(s) /\ NodeShape(t)
    BY <2>1 DEF GraphShape, NodesShape
  <2> HIDE DEF s, t
  <2>6. s.records = t.records /\ s.who = t.who /\ s.shown = t.shown
    BY <2>2, <2>4
  <2>7. s.props = t.props
    <3>1. DOMAIN s.props = DOMAIN t.props
      BY <2>2, <2>3
    <3>2. s.props = [k \in DOMAIN s.props |-> s.props[k]]
          /\ t.props = [k \in DOMAIN t.props |-> t.props[k]]
      BY <2>5 DEF NodeShape
    <3> QED BY <2>3, <3>1, <3>2
  <2>8. s = t
    BY <2>5, <2>6, <2>7 DEF NodeShape
  <2> QED BY <2>8 DEF s, t
<1>5. x.nodes = a.nodes
  <2>1. x.nodes = [n \in DOMAIN x.nodes |-> x.nodes[n]]
        /\ a.nodes = [n \in DOMAIN a.nodes |-> a.nodes[n]]
    BY DEF GraphShape, NodesShape
  <2> QED BY <1>3, <1>4, <2>1
<1>6. DOMAIN x.links = DOMAIN a.links
  BY <1>2 DEF LinksBelow, LinksFrom
<1>7. ASSUME NEW l \in DOMAIN x.links PROVE x.links[l] = a.links[l]
  <2> DEFINE s == x.links[l]
             t == a.links[l]
  <2>1. s.records = t.records
    <3>1. t.records \subseteq s.records
      BY <1>2, <1>6 DEF LinksBelow
    <3>2. ASSUME NEW r \in s.records PROVE r \in t.records
      BY <1>2 DEF LinksFrom
    <3> QED BY <3>1, <3>2
  <2>2. s.last = t.last
    BY <1>2, <1>6 DEF LinksFrom
  <2>3. LinkShape(s) /\ LinkShape(t)
    BY <1>6 DEF GraphShape, LinksShape
  <2> HIDE DEF s, t
  <2>4. s = t
    BY <2>1, <2>2, <2>3 DEF LinkShape
  <2> QED BY <2>4 DEF s, t
<1>8. x.links = a.links
  <2>1. x.links = [l \in DOMAIN x.links |-> x.links[l]]
        /\ a.links = [l \in DOMAIN a.links |-> a.links[l]]
    BY DEF GraphShape, LinksShape
  <2> QED BY <1>6, <1>7, <2>1
<1> QED BY <1>5, <1>8

-----------------------------------------------------------------------------
(* From rows to parts, batches and loads. *)

LEMMA ChainGrows ==
    ASSUME NEW c, NEW n \in Nat, \A i \in 1 .. n : Grows(c[i - 1], c[i])
    PROVE  \A i \in 0 .. n : \A j \in i .. n : Grows(c[i], c[j])
<1> TAKE i \in 0 .. n
<1> DEFINE T == {j \in i .. n : ~Grows(c[i], c[j])}
<1>1. ASSUME T # {} PROVE FALSE
  <2>1. PICK k \in T : \A m \in T : k <= m
    <3>1. T \in SUBSET Nat
      OBVIOUS
    <3> HIDE DEF T
    <3> QED BY <1>1, <3>1, LeastNatural
  <2>2. k \in i .. n /\ ~Grows(c[i], c[k])
    OBVIOUS
  <2>3. k # i
    BY <2>2, GrowsSelf
  <2>4. k - 1 \in i .. n /\ k - 1 \notin T /\ k \in 1 .. n
    BY <2>1, <2>2, <2>3
  <2>5. Grows(c[i], c[k - 1]) /\ Grows(c[k - 1], c[k])
    BY <2>4
  <2> QED BY <2>2, <2>5, GrowsTwice
<1> QED BY <1>1

LEMMA ChainBetween ==
    ASSUME NEW c, NEW d, NEW F, NEW n \in Nat, Between(c[0], d[0], F),
           \A i \in 1 .. n : Between(c[i - 1], d[i - 1], F) => Between(c[i], d[i], F)
    PROVE  Between(c[n], d[n], F)
<1> DEFINE T == {j \in 0 .. n : ~Between(c[j], d[j], F)}
<1>1. ASSUME T # {} PROVE FALSE
  <2>1. PICK k \in T : \A m \in T : k <= m
    <3>1. T \in SUBSET Nat
      OBVIOUS
    <3> HIDE DEF T
    <3> QED BY <1>1, <3>1, LeastNatural
  <2>2. k \in 0 .. n /\ ~Between(c[k], d[k], F)
    OBVIOUS
  <2>3. k # 0
    BY <2>2
  <2>4. k - 1 \in 0 .. n /\ k - 1 \notin T /\ k \in 1 .. n
    BY <2>1, <2>2, <2>3
  <2>5. Between(c[k - 1], d[k - 1], F)
    BY <2>4
  <2> QED BY <2>2, <2>4, <2>5
<1> QED BY <1>1

LEMMA ChainShape ==
    ASSUME NEW c, NEW n \in Nat, GraphShape(c[0]),
           \A i \in 1 .. n : GraphShape(c[i - 1]) => GraphShape(c[i])
    PROVE  \A i \in 0 .. n : GraphShape(c[i])
<1> DEFINE T == {j \in 0 .. n : ~GraphShape(c[j])}
<1>1. ASSUME T # {} PROVE FALSE
  <2>1. PICK k \in T : \A m \in T : k <= m
    <3>1. T \in SUBSET Nat
      OBVIOUS
    <3> HIDE DEF T
    <3> QED BY <1>1, <3>1, LeastNatural
  <2>2. k \in 0 .. n /\ ~GraphShape(c[k])
    OBVIOUS
  <2>3. k # 0
    BY <2>2
  <2>4. k - 1 \in 0 .. n /\ k - 1 \notin T /\ k \in 1 .. n
    BY <2>1, <2>2, <2>3
  <2> QED BY <2>2, <2>4
<1> QED BY <1>1

LEMMA RowGraphsAre ==
    ASSUME NEW g, NEW part, Len(part.rows) \in Nat
    PROVE  /\ RowGraphs(g, part)[0] = g
           /\ RowGraphs(g, part)[Len(part.rows)] = LoadPart(g, part)
           /\ \A i \in 1 .. Len(part.rows) : RowGraphs(g, part)[i] =
                  LoadRow(RowGraphs(g, part)[i - 1], part, part.rows[i])
<1> DEFINE a == RowGraphs(g, part)
<1>1. RowSteps(a, g, part, Len(part.rows))
  BY RowStepsExist DEF RowGraphs, RowSteps
<1>2. a[Len(part.rows)] = LoadPart(g, part)
  BY DEF LoadPart
<1> HIDE DEF a
<1>3. a[0] = g
  BY <1>1 DEF RowSteps
<1>4. \A i \in 1 .. Len(part.rows) : a[i] = LoadRow(a[i - 1], part, part.rows[i])
  BY <1>1 DEF RowSteps
<1> QED BY <1>2, <1>3, <1>4 DEF a

LEMMA PartGraphsAre ==
    ASSUME NEW g, NEW b, Len(Parts(b)) \in Nat
    PROVE  /\ PartGraphs(g, b)[0] = g /\ PartGraphs(g, b)[Len(Parts(b))] = Apply(g, b)
           /\ \A i \in 1 .. Len(Parts(b)) : PartGraphs(g, b)[i] =
                  LoadPart(PartGraphs(g, b)[i - 1], Parts(b)[i])
<1> DEFINE a == PartGraphs(g, b)
<1>1. PartSteps(a, g, b, Len(Parts(b)))
  BY PartStepsExist DEF PartGraphs, PartSteps
<1>2. a[Len(Parts(b))] = Apply(g, b)
  BY DEF Apply
<1> HIDE DEF a
<1>3. a[0] = g
  BY <1>1 DEF PartSteps
<1>4. \A i \in 1 .. Len(Parts(b)) : a[i] = LoadPart(a[i - 1], Parts(b)[i])
  BY <1>1 DEF PartSteps
<1> QED BY <1>2, <1>3, <1>4 DEF a

LEMMA IndexIs ==
    ASSUME NEW s, IsSequence(s)
    PROVE  Len(s) \in Nat /\ DOMAIN s = 1 .. Len(s) /\ \A i \in 1 .. Len(s) : s[i] \in ToSet(s)
BY DEF IsSequence, ToSet

LEMMA LoadPartAll ==
    ASSUME NEW g, NEW part, IsSequence(part.rows)
    PROVE  /\ \A i \in 0 .. Len(part.rows) : Grows(RowGraphs(g, part)[i], LoadPart(g, part))
           /\ Grows(g, LoadPart(g, part))
           /\ GraphShape(g) => GraphShape(LoadPart(g, part))
<1> DEFINE c == RowGraphs(g, part)
           n == Len(part.rows)
           new == LoadPart(g, part)
<1>1. n \in Nat
  BY IndexIs
<1>2. c[0] = g /\ c[n] = new /\ \A i \in 1 .. n : c[i] = LoadRow(c[i - 1], part, part.rows[i])
  BY <1>1, RowGraphsAre
<1> HIDE DEF c, n, new
<1>3. \A i \in 1 .. n : Grows(c[i - 1], c[i])
  BY <1>2, LoadRowGrows
<1>4. \A i \in 0 .. n : Grows(c[i], c[n])
  <2>1. \A i \in 0 .. n : \A j \in i .. n : Grows(c[i], c[j])
    BY <1>1, <1>3, ChainGrows
  <2> QED BY <1>1, <2>1
<1>5. ASSUME GraphShape(g) PROVE GraphShape(new)
  <2>1. \A i \in 1 .. n : GraphShape(c[i - 1]) => GraphShape(c[i])
    BY <1>2, LoadRowShape
  <2> QED BY <1>1, <1>2, <1>5, <2>1, ChainShape
<1>6. Grows(c[0], c[n])
  BY <1>1, <1>4
<1> QED BY <1>2, <1>4, <1>5, <1>6 DEF c, n, new

LEMMA LoadPartBoth ==
    ASSUME NEW a, NEW x, NEW F, NEW part, PartShape(part), Between(a, x, F),
           SteadyPart(a, part, NodesIn(F)), \A q \in F : Grows(LoadPart(a, part), q)
    PROVE  Between(LoadPart(a, part), LoadPart(x, part), F)
<1> DEFINE c == RowGraphs(a, part)
           d == RowGraphs(x, part)
           n == Len(part.rows)
<1>1. IsSequence(part.rows)
  BY DEF PartShape
<1>2. n \in Nat /\ DOMAIN part.rows = 1 .. n /\ \A i \in 1 .. n : part.rows[i] \in ToSet(part.rows)
  BY <1>1, IndexIs
<1>3. /\ c[0] = a /\ c[n] = LoadPart(a, part)
      /\ \A i \in 1 .. n : c[i] = LoadRow(c[i - 1], part, part.rows[i])
  BY <1>2, RowGraphsAre
<1>4. /\ d[0] = x /\ d[n] = LoadPart(x, part)
      /\ \A i \in 1 .. n : d[i] = LoadRow(d[i - 1], part, part.rows[i])
  BY <1>2, RowGraphsAre
<1>5. \A i \in 1 .. n : SteadyRow(c[i - 1], part, part.rows[i], NodesIn(F))
  BY <1>2 DEF SteadyPart
<1>6. \A i \in 0 .. n : Grows(c[i], LoadPart(a, part))
  BY <1>1, LoadPartAll
<1>7. ASSUME NEW i \in 1 .. n, part.act # "nodes"
      PROVE  IsSequence(part.rows[i].from) /\ IsSequence(part.rows[i].to)
  BY <1>2, <1>7 DEF PartShape, LinkRows
<1> HIDE DEF c, d, n
<1>8. ASSUME NEW i \in 1 .. n, Between(c[i - 1], d[i - 1], F) PROVE Between(c[i], d[i], F)
  <2> DEFINE row == part.rows[i]
             s == c[i - 1]
             t == d[i - 1]
  <2>1. i \in 0 .. n
    BY <1>2
  <2>2. \A q \in F : Grows(c[i], q)
    BY <1>6, <2>1, GrowsTwice
  <2>3. c[i] = LoadRow(s, part, row) /\ d[i] = LoadRow(t, part, row)
    BY <1>3, <1>4
  <2>4. SteadyRow(s, part, row, NodesIn(F)) /\ Between(s, t, F)
    BY <1>5, <1>8
  <2>5. part.act # "nodes" => IsSequence(row.from) /\ IsSequence(row.to)
    BY <1>7
  <2> HIDE DEF row, s, t
  <2> QED BY <2>2, <2>3, <2>4, <2>5, LoadRowBoth
<1>9. Between(c[n], d[n], F)
  BY <1>2, <1>3, <1>4, <1>8, ChainBetween
<1> QED BY <1>3, <1>4, <1>9

BatchShape(b) == IsSequence(Parts(b)) /\ \A part \in BatchParts(b) : PartShape(part)

LEMMA ApplyAlso ==
    ASSUME NEW g, NEW b, BatchShape(b)
    PROVE  /\ \A i \in 0 .. Len(Parts(b)) : Grows(PartGraphs(g, b)[i], Apply(g, b))
           /\ Grows(g, Apply(g, b))
           /\ GraphShape(g) => GraphShape(Apply(g, b))
<1> DEFINE c == PartGraphs(g, b)
           parts == Parts(b)
           n == Len(parts)
           new == Apply(g, b)
<1>1. n \in Nat /\ \A i \in 1 .. n : parts[i] \in ToSet(parts)
  BY IndexIs DEF BatchShape
<1>2. \A i \in 1 .. n : IsSequence(parts[i].rows)
  BY <1>1 DEF BatchShape, BatchParts, PartShape
<1>3. c[0] = g /\ c[n] = new /\ \A i \in 1 .. n : c[i] = LoadPart(c[i - 1], parts[i])
  BY <1>1, PartGraphsAre
<1> HIDE DEF c, n, new, parts
<1>4. \A i \in 1 .. n : Grows(c[i - 1], c[i])
  BY <1>2, <1>3, LoadPartAll
<1>5. \A i \in 0 .. n : Grows(c[i], c[n])
  <2>1. \A i \in 0 .. n : \A j \in i .. n : Grows(c[i], c[j])
    BY <1>1, <1>4, ChainGrows
  <2> QED BY <1>1, <2>1
<1>6. ASSUME GraphShape(g) PROVE GraphShape(new)
  <2>1. \A i \in 1 .. n : GraphShape(c[i - 1]) => GraphShape(c[i])
    BY <1>2, <1>3, LoadPartAll
  <2> QED BY <1>1, <1>3, <1>6, <2>1, ChainShape
<1>7. Grows(c[0], c[n])
  BY <1>1, <1>5
<1> QED BY <1>3, <1>5, <1>6, <1>7 DEF c, n, new, parts

LEMMA ApplyBoth ==
    ASSUME NEW a, NEW x, NEW F, NEW b, BatchShape(b), Between(a, x, F),
           SteadyBatch(a, b, NodesIn(F)), \A q \in F : Grows(Apply(a, b), q)
    PROVE  Between(Apply(a, b), Apply(x, b), F)
<1> DEFINE c == PartGraphs(a, b)
           d == PartGraphs(x, b)
           parts == Parts(b)
           n == Len(parts)
<1>1. n \in Nat /\ DOMAIN parts = 1 .. n /\ \A i \in 1 .. n : parts[i] \in ToSet(parts)
  BY IndexIs DEF BatchShape
<1>2. \A i \in 1 .. n : PartShape(parts[i])
  BY <1>1 DEF BatchShape, BatchParts
<1>3. c[0] = a /\ c[n] = Apply(a, b) /\ \A i \in 1 .. n : c[i] = LoadPart(c[i - 1], parts[i])
  BY <1>1, PartGraphsAre
<1>4. d[0] = x /\ d[n] = Apply(x, b) /\ \A i \in 1 .. n : d[i] = LoadPart(d[i - 1], parts[i])
  BY <1>1, PartGraphsAre
<1>5. \A i \in 1 .. n : SteadyPart(c[i - 1], parts[i], NodesIn(F))
  BY <1>1 DEF SteadyBatch
<1>6. \A i \in 0 .. n : Grows(c[i], Apply(a, b))
  BY ApplyAlso
<1> HIDE DEF c, d, n, parts
<1>7. ASSUME NEW i \in 1 .. n, Between(c[i - 1], d[i - 1], F) PROVE Between(c[i], d[i], F)
  <2> DEFINE part == parts[i]
             s == c[i - 1]
             t == d[i - 1]
  <2>1. i \in 0 .. n
    BY <1>1
  <2>2. \A q \in F : Grows(c[i], q)
    BY <1>6, <2>1, GrowsTwice
  <2>3. c[i] = LoadPart(s, part) /\ d[i] = LoadPart(t, part)
    BY <1>3, <1>4
  <2>4. SteadyPart(s, part, NodesIn(F)) /\ Between(s, t, F) /\ PartShape(part)
    BY <1>2, <1>5, <1>7
  <2> HIDE DEF part, s, t
  <2> QED BY <2>2, <2>3, <2>4, LoadPartBoth
<1>8. Between(c[n], d[n], F)
  BY <1>1, <1>3, <1>4, <1>7, ChainBetween
<1> QED BY <1>3, <1>4, <1>8

-----------------------------------------------------------------------------
(* The graphs of a history without failures. *)

BatchSteps(a, g, batches, k) ==
    a = [i \in 0 .. k |-> IF i = 0 THEN g ELSE Apply(a[i - 1], batches[i])]
FileSteps(a, h, k) ==
    a = [i \in 0 .. k |-> IF i = 0 THEN Registry ELSE ApplyAll(a[i - 1], Batches(h[i]))]

LEMMA BatchStepsExist ==
    ASSUME NEW g, NEW batches, NEW n \in Nat
    PROVE  \E a : BatchSteps(a, g, batches, n)
<1> DEFINE T == {k \in Nat : ~ \E a : BatchSteps(a, g, batches, k)}
<1>1. ASSUME T # {} PROVE FALSE
  <2>1. PICK k \in T : \A m \in T : k <= m
    <3>1. T \in SUBSET Nat
      OBVIOUS
    <3> HIDE DEF T
    <3> QED BY <1>1, <3>1, LeastNatural
  <2>2. k \in Nat /\ ~ \E a : BatchSteps(a, g, batches, k)
    OBVIOUS
  <2>3. CASE k = 0
    <3> DEFINE a == [i \in 0 .. 0 |-> g]
    <3>1. a = [i \in 0 .. 0 |-> IF i = 0 THEN g ELSE Apply(a[i - 1], batches[i])]
      OBVIOUS
    <3>2. BatchSteps(a, g, batches, 0)
      BY <3>1 DEF BatchSteps
    <3> QED BY <2>2, <2>3, <3>2
  <2>4. CASE k # 0
    <3>1. k - 1 \in Nat /\ k - 1 \notin T
      BY <2>1, <2>2, <2>4
    <3>2. PICK a : BatchSteps(a, g, batches, k - 1)
      BY <3>1
    <3> DEFINE b == [i \in 0 .. k |-> IF i = 0 THEN g ELSE Apply(a[i - 1], batches[i])]
    <3>3. ASSUME NEW i \in 0 .. k
          PROVE  b[i] = IF i = 0 THEN g ELSE Apply(b[i - 1], batches[i])
      <4>1. CASE i = 0
        BY <4>1
      <4>2. CASE i # 0
        <5>1. i - 1 \in 0 .. k - 1 /\ i - 1 \in 0 .. k
          BY <2>2, <4>2
        <5>2. a[i - 1] = b[i - 1]
          BY <3>2, <5>1 DEF BatchSteps
        <5> QED BY <4>2, <5>2
      <4> QED BY <4>1, <4>2
    <3>4. BatchSteps(b, g, batches, k)
      BY <3>3 DEF BatchSteps
    <3> QED BY <2>2, <3>4
  <2> QED BY <2>3, <2>4
<1> QED BY <1>1

LEMMA FileStepsExist ==
    ASSUME NEW h, NEW n \in Nat
    PROVE  \E a : FileSteps(a, h, n)
<1> DEFINE T == {k \in Nat : ~ \E a : FileSteps(a, h, k)}
<1>1. ASSUME T # {} PROVE FALSE
  <2>1. PICK k \in T : \A m \in T : k <= m
    <3>1. T \in SUBSET Nat
      OBVIOUS
    <3> HIDE DEF T
    <3> QED BY <1>1, <3>1, LeastNatural
  <2>2. k \in Nat /\ ~ \E a : FileSteps(a, h, k)
    OBVIOUS
  <2>3. CASE k = 0
    <3> DEFINE a == [i \in 0 .. 0 |-> Registry]
    <3>1. a = [i \in 0 .. 0 |-> IF i = 0 THEN Registry ELSE ApplyAll(a[i - 1], Batches(h[i]))]
      OBVIOUS
    <3>2. FileSteps(a, h, 0)
      BY <3>1 DEF FileSteps
    <3> QED BY <2>2, <2>3, <3>2
  <2>4. CASE k # 0
    <3>1. k - 1 \in Nat /\ k - 1 \notin T
      BY <2>1, <2>2, <2>4
    <3>2. PICK a : FileSteps(a, h, k - 1)
      BY <3>1
    <3> DEFINE b == [i \in 0 .. k |-> IF i = 0 THEN Registry ELSE ApplyAll(a[i - 1], Batches(h[i]))]
    <3>3. ASSUME NEW i \in 0 .. k
          PROVE  b[i] = IF i = 0 THEN Registry ELSE ApplyAll(b[i - 1], Batches(h[i]))
      <4>1. CASE i = 0
        BY <4>1
      <4>2. CASE i # 0
        <5>1. i - 1 \in 0 .. k - 1 /\ i - 1 \in 0 .. k
          BY <2>2, <4>2
        <5>2. a[i - 1] = b[i - 1]
          BY <3>2, <5>1 DEF FileSteps
        <5> QED BY <4>2, <5>2
      <4> QED BY <4>1, <4>2
    <3>4. FileSteps(b, h, k)
      BY <3>3 DEF FileSteps
    <3> QED BY <2>2, <3>4
  <2> QED BY <2>3, <2>4
<1> QED BY <1>1

LEMMA BatchGraphsAre ==
    ASSUME NEW g, NEW B, Len(B) \in Nat
    PROVE  /\ BatchGraphs(g, B)[0] = g /\ BatchGraphs(g, B)[Len(B)] = ApplyAll(g, B)
           /\ \A i \in 1 .. Len(B) : BatchGraphs(g, B)[i] = Apply(BatchGraphs(g, B)[i - 1], B[i])
<1> DEFINE a == BatchGraphs(g, B)
<1>1. BatchSteps(a, g, B, Len(B))
  BY BatchStepsExist DEF BatchGraphs, BatchSteps
<1>2. a[Len(B)] = ApplyAll(g, B)
  BY DEF ApplyAll
<1> HIDE DEF a
<1>3. a[0] = g
  BY <1>1 DEF BatchSteps
<1>4. \A i \in 1 .. Len(B) : a[i] = Apply(a[i - 1], B[i])
  BY <1>1 DEF BatchSteps
<1> QED BY <1>2, <1>3, <1>4 DEF a

LEMMA FileGraphsAre ==
    ASSUME NEW h, Len(h) \in Nat
    PROVE  /\ FileGraphs(h)[0] = Registry
           /\ \A i \in 1 .. Len(h) :
                 FileGraphs(h)[i] = ApplyAll(FileGraphs(h)[i - 1], Batches(h[i]))
<1> DEFINE a == FileGraphs(h)
<1>1. FileSteps(a, h, Len(h))
  BY FileStepsExist DEF FileGraphs, FileSteps
<1> HIDE DEF a
<1>2. a[0] = Registry
  BY <1>1 DEF FileSteps
<1>3. \A i \in 1 .. Len(h) : a[i] = ApplyAll(a[i - 1], Batches(h[i]))
  BY <1>1 DEF FileSteps
<1> QED BY <1>2, <1>3 DEF a

\* The graphs of the load of the k-th file of a history, after each of its batches.
LoadGraphs(h, k) == BatchGraphs(FileGraphs(h)[k - 1], Batches(h[k]))
LaterGraphs(h, k, j) == {LoadGraphs(h, k)[m] : m \in j + 1 .. Len(Batches(h[k]))}

LEMMA LoadGraphsAre ==
    ASSUME NEW h \in Histories, NEW k \in 1 .. Len(h)
    PROVE  LET B == Batches(h[k])
               c == LoadGraphs(h, k)
           IN  /\ Len(B) \in Nat /\ c[0] = FileGraphs(h)[k - 1] /\ c[Len(B)] = FileGraphs(h)[k]
               /\ \A i \in 1 .. Len(B) : c[i] = Apply(c[i - 1], B[i]) /\ BatchShape(B[i])
               /\ \A i \in 0 .. Len(B) : \A j \in i .. Len(B) : Grows(c[i], c[j])
               /\ GraphShape(c[0]) => \A i \in 0 .. Len(B) : GraphShape(c[i])
<1> DEFINE B == Batches(h[k])
           c == LoadGraphs(h, k)
           g == FileGraphs(h)[k - 1]
<1>1. Len(h) \in Nat /\ h[k] \in ToSet(h) /\ IsSequence(B)
  BY HistoryShape
<1>2. Len(B) \in Nat /\ \A i \in 1 .. Len(B) : B[i] \in ToSet(B)
  BY <1>1, IndexIs
<1>3. \A i \in 1 .. Len(B) : BatchShape(B[i])
  BY <1>1, <1>2, HistoriesAssumption DEF BatchShape
<1>4. FileGraphs(h)[k] = ApplyAll(g, B)
  BY <1>1, FileGraphsAre
<1>5. c[0] = g /\ c[Len(B)] = ApplyAll(g, B) /\ \A i \in 1 .. Len(B) : c[i] = Apply(c[i - 1], B[i])
  BY <1>2, BatchGraphsAre DEF LoadGraphs
<1> HIDE DEF B, c, g
<1>6. \A i \in 1 .. Len(B) : Grows(c[i - 1], c[i]) /\ (GraphShape(c[i - 1]) => GraphShape(c[i]))
  BY <1>3, <1>5, ApplyAlso
<1>7. \A i \in 0 .. Len(B) : \A j \in i .. Len(B) : Grows(c[i], c[j])
  BY <1>2, <1>6, ChainGrows
<1>8. GraphShape(c[0]) => \A i \in 0 .. Len(B) : GraphShape(c[i])
  BY <1>2, <1>6, ChainShape
<1> QED BY <1>2, <1>3, <1>4, <1>5, <1>7, <1>8 DEF B, c, g

LEMMA RegistryShape == GraphShape(Registry)
<1>1. DOMAIN <<>> = {} /\ <<>> = [l \in {} |-> <<>>[l]]
  OBVIOUS
<1>2. LinksShape(<<>>)
  BY <1>1 DEF LinksShape
<1> QED BY <1>2, RegistryAssumption DEF GraphShape, NodesShape

-----------------------------------------------------------------------------
(* The graph of a history with failures is between those of one without. *)

BetweenLoads(h, k) ==
    /\ k \in 1 .. Len(h) /\ files = SubSeq(h, k, Len(h))
    /\ clean = FileGraphs(h)[k] /\ GraphShape(FileGraphs(h)[k - 1])
    /\ \E j \in 0 .. Len(Batches(h[k])) :
          /\ todo = SubSeq(Batches(h[k]), j + 1, Len(Batches(h[k])))
          /\ Between(LoadGraphs(h, k)[j], graph, LaterGraphs(h, k, j))
SameAsClean(h, k) ==
    /\ files = SubSeq(h, k + 1, Len(h))
    /\ clean = FileGraphs(h)[k] /\ GraphShape(clean) /\ Between(clean, graph, {})
Traceless(h, k) ==
    /\ h \in Histories /\ k \in 0 .. Len(h) /\ GraphShape(graph)
    /\ IF running THEN BetweenLoads(h, k) ELSE SameAsClean(h, k)
NoTrace == \E h \in Histories : \E k \in 0 .. Len(h) : Traceless(h, k)

\* The hypothesis of the theorem.
AllSteady == \A h \in Histories : Steady(h)

LEMMA BetweenMore ==
    ASSUME NEW a, NEW b, NEW x, NEW F, NEW G, Grows(a, b), Between(b, x, F),
           {b} \cup F \subseteq {a} \cup G
    PROVE  Between(a, x, G)
<1>1. Grows(a, x)
  BY GrowsTwice DEF Between
<1>2. /\ {b.nodes} \cup NodesIn(F) \subseteq {a.nodes} \cup NodesIn(G)
      /\ {b.links} \cup LinksIn(F) \subseteq {a.links} \cup LinksIn(G)
  BY DEF NodesIn, LinksIn
<1>3. NodesFrom({a.nodes} \cup NodesIn(G), x.nodes)
  <2>1. ASSUME NEW n \in DOMAIN x.nodes
        PROVE  NodeFrom({a.nodes} \cup NodesIn(G), n, x.nodes[n])
    <3>1. NodeFrom({b.nodes} \cup NodesIn(F), n, x.nodes[n])
      BY DEF Between, NodesFrom
    <3> QED BY <1>2, <3>1 DEF NodeFrom, PropFrom, RecordFrom, WhoFrom
  <2> QED BY <2>1 DEF NodesFrom
<1>4. LinksFrom({a.links} \cup LinksIn(G), x.links)
  <2>1. LinksFrom({b.links} \cup LinksIn(F), x.links)
    BY DEF Between
  <2> QED BY <1>2, <2>1 DEF LinksFrom
<1> QED BY <1>1, <1>3, <1>4 DEF Between

LEMMA BetweenSelf == ASSUME NEW a PROVE Between(a, a, {})
<1>1. NodesFrom({a.nodes} \cup NodesIn({}), a.nodes)
  BY DEF NodesFrom, NodeFrom, PropFrom, RecordFrom, WhoFrom
<1>2. LinksFrom({a.links} \cup LinksIn({}), a.links)
  BY DEF LinksFrom
<1> QED BY <1>1, <1>2, GrowsSelf DEF Between

LEMMA NoTraceInit == Init => NoTrace
<1> SUFFICES ASSUME Init PROVE NoTrace
  OBVIOUS
<1>1. files \in Histories /\ graph = Registry /\ clean = Registry /\ ~running
  BY DEF Init
<1>2. IsSequence(files) /\ Len(files) \in Nat
  BY <1>1, HistoryShape
<1>3. SubSeq(files, 0 + 1, Len(files)) = files
  BY <1>2, WholeIs
<1>4. FileGraphs(files)[0] = Registry
  BY <1>2, FileGraphsAre
<1>5. SameAsClean(files, 0)
  BY <1>1, <1>2, <1>3, <1>4, RegistryShape, BetweenSelf DEF SameAsClean
<1>6. 0 \in 0 .. Len(files)
  BY <1>2
<1> QED BY <1>1, <1>5, <1>6, RegistryShape DEF NoTrace, Traceless

LEMMA NoTraceBegin == ASSUME NEW h, NEW k, Traceless(h, k), Begin PROVE NoTrace'
<1>1. ~running /\ files # <<>> /\ running' /\ todo' = Batches(Head(files))
      /\ clean' = ApplyAll(clean, Batches(Head(files))) /\ files' = files /\ graph' = graph
  BY DEF Begin
<1>2. /\ h \in Histories /\ GraphShape(graph) /\ k \in 0 .. Len(h)
      /\ files = SubSeq(h, k + 1, Len(h)) /\ clean = FileGraphs(h)[k] /\ GraphShape(clean)
      /\ Between(clean, graph, {})
  BY <1>1 DEF Traceless, SameAsClean
<1>3. IsSequence(h) /\ Len(h) \in Nat
  BY <1>2, HistoryShape
<1>4. k # Len(h) /\ Head(files) = h[k + 1] /\ k + 1 \in 1 .. Len(h)
  BY <1>1, <1>2, <1>3, SuffixIs
<1> DEFINE m == k + 1
           B == Batches(h[m])
           c == LoadGraphs(h, m)
<1>5. m \in 1 .. Len(h) /\ m \in 0 .. Len(h) /\ m - 1 = k
  BY <1>2, <1>3, <1>4
<1>6. IsSequence(B)
  BY <1>2, <1>5, HistoryShape
<1>7. todo' = SubSeq(B, 0 + 1, Len(B)) /\ Len(B) \in Nat
  BY <1>1, <1>4, <1>6, WholeIs
<1>8. clean' = FileGraphs(h)[m]
  BY <1>1, <1>2, <1>3, <1>4, <1>5, FileGraphsAre
<1>9. c[0] = clean
  BY <1>2, <1>5, LoadGraphsAre
<1>10. Between(c[0], graph, LaterGraphs(h, m, 0))
  BY <1>2, <1>9, GrowsSelf, BetweenMore
<1>11. files' = SubSeq(h, m, Len(h)) /\ GraphShape(FileGraphs(h)[m - 1])
  BY <1>1, <1>2, <1>5
<1> HIDE DEF m, c, B
<1>12. \E j \in 0 .. Len(B) :
          todo' = SubSeq(B, j + 1, Len(B)) /\ Between(c[j], graph', LaterGraphs(h, m, j))
  BY <1>1, <1>7, <1>10
<1>13. BetweenLoads(h, m)'
  BY <1>5, <1>8, <1>11, <1>12 DEF BetweenLoads, B, c
<1> QED BY <1>1, <1>2, <1>5, <1>13 DEF NoTrace, Traceless

LEMMA NoTraceLoad ==
    ASSUME NEW h, NEW k, Traceless(h, k), Steady(h), LoadBatch
    PROVE  NoTrace'
<1>1. running /\ todo # <<>> /\ graph' = Apply(graph, Head(todo)) /\ todo' = Tail(todo)
      /\ files' = files /\ running' = running /\ clean' = clean
  BY DEF LoadBatch
<1>2. h \in Histories /\ k \in 0 .. Len(h) /\ GraphShape(graph) /\ BetweenLoads(h, k)
  BY <1>1 DEF Traceless
<1> DEFINE B == Batches(h[k])
           c == LoadGraphs(h, k)
           Ends(j) == LaterGraphs(h, k, j)
<1>3. k \in 1 .. Len(h) /\ files = SubSeq(h, k, Len(h)) /\ clean = FileGraphs(h)[k]
      /\ GraphShape(FileGraphs(h)[k - 1])
  BY <1>2 DEF BetweenLoads
<1>4. PICK j \in 0 .. Len(B) :
          todo = SubSeq(B, j + 1, Len(B)) /\ Between(c[j], graph, Ends(j))
  BY <1>2 DEF BetweenLoads
<1>5. IsSequence(B) /\ IsSequence(h) /\ Len(B) \in Nat /\ Len(h) \in Nat
  BY <1>2, <1>3, HistoryShape, WholeIs
<1>6. j # Len(B) /\ Head(todo) = B[j + 1] /\ Tail(todo) = SubSeq(B, (j + 1) + 1, Len(B))
  <2>1. (j + 1) + 1 = j + 2
    BY <1>5
  <2> QED BY <1>1, <1>4, <1>5, <2>1, SuffixIs
<1>7. j + 1 \in 1 .. Len(B) /\ j + 1 \in 0 .. Len(B) /\ (j + 1) - 1 = j
  BY <1>5, <1>6
<1>8. /\ c[j + 1] = Apply(c[j], B[j + 1]) /\ BatchShape(B[j + 1])
      /\ \A m \in j + 1 .. Len(B) : Grows(c[j + 1], c[m])
  BY <1>2, <1>3, <1>7, LoadGraphsAre
<1>9. SteadyBatch(c[j], B[j + 1], NodesIn(Ends(j)))
  <2>1. k \in DOMAIN h /\ j + 1 \in DOMAIN B
    BY <1>3, <1>5, <1>7, IndexIs
  <2>2. SteadyLoad(FileGraphs(h)[k - 1], B)
    BY <2>1 DEF Steady
  <2>3. SteadyBatch(c[(j + 1) - 1], B[j + 1], {c[m].nodes : m \in j + 1 .. Len(B)})
    BY <2>1, <2>2 DEF SteadyLoad, LoadGraphs
  <2>4. NodesIn(Ends(j)) = {c[m].nodes : m \in j + 1 .. Len(B)}
    BY DEF NodesIn, LaterGraphs
  <2> HIDE DEF B, c, Ends
  <2> QED BY <1>7, <2>3, <2>4
<1>10. \A q \in Ends(j) : Grows(c[j + 1], q)
  BY <1>8 DEF LaterGraphs
<1>11. {c[j + 1]} \cup Ends(j) \subseteq {c[j + 1]} \cup Ends(j + 1)
  <2>1. ASSUME NEW m \in j + 1 .. Len(B) PROVE c[m] \in {c[j + 1]} \cup Ends(j + 1)
    <3>1. m = j + 1 \/ m \in (j + 1) + 1 .. Len(B)
      BY <1>5, <1>7
    <3> QED BY <3>1 DEF LaterGraphs
  <2> QED BY <2>1 DEF LaterGraphs
<1> HIDE DEF B, c, Ends
<1>12. Between(Apply(c[j], B[j + 1]), Apply(graph, B[j + 1]), Ends(j))
  BY <1>4, <1>8, <1>9, <1>10, ApplyBoth
<1>13. graph' = Apply(graph, B[j + 1])
  BY <1>1, <1>6
<1>14. Between(c[j + 1], graph', Ends(j))
  BY <1>8, <1>12, <1>13
<1>15. Between(c[j + 1], graph', Ends(j + 1))
  BY <1>11, <1>14, GrowsSelf, BetweenMore
<1>16. GraphShape(graph')
  BY <1>2, <1>8, <1>13, ApplyAlso
<1>17. \E i \in 0 .. Len(B) : todo' = SubSeq(B, i + 1, Len(B)) /\ Between(c[i], graph', Ends(i))
  BY <1>1, <1>6, <1>7, <1>15
<1>18. BetweenLoads(h, k)'
  BY <1>1, <1>3, <1>17 DEF BetweenLoads, B, c, Ends
<1> QED BY <1>1, <1>2, <1>16, <1>18 DEF NoTrace, Traceless

LEMMA NoTraceFinish == ASSUME NEW h, NEW k, Traceless(h, k), Finish PROVE NoTrace'
<1>1. running /\ todo = <<>> /\ ~running' /\ files' = Tail(files) /\ graph' = graph
      /\ clean' = clean
  BY DEF Finish
<1>2. h \in Histories /\ k \in 0 .. Len(h) /\ GraphShape(graph) /\ BetweenLoads(h, k)
  BY <1>1 DEF Traceless
<1> DEFINE B == Batches(h[k])
           c == LoadGraphs(h, k)
<1>3. k \in 1 .. Len(h) /\ files = SubSeq(h, k, Len(h)) /\ clean = FileGraphs(h)[k]
      /\ GraphShape(FileGraphs(h)[k - 1])
  BY <1>2 DEF BetweenLoads
<1>4. PICK j \in 0 .. Len(B) :
          todo = SubSeq(B, j + 1, Len(B)) /\ Between(c[j], graph, LaterGraphs(h, k, j))
  BY <1>2 DEF BetweenLoads
<1>5. IsSequence(B) /\ IsSequence(h) /\ Len(B) \in Nat /\ Len(h) \in Nat
  BY <1>2, <1>3, HistoryShape, WholeIs
<1>6. j = Len(B)
  BY <1>1, <1>4, <1>5, SuffixIs
<1>7. c[Len(B)] = clean /\ GraphShape(c[Len(B)])
  <2>1. Len(B) \in 0 .. Len(B)
    BY <1>5
  <2> QED BY <1>2, <1>3, <2>1, LoadGraphsAre
<1>8. LaterGraphs(h, k, j) = {}
  <2>1. j + 1 .. Len(B) = {}
    BY <1>5, <1>6
  <2> QED BY <2>1 DEF LaterGraphs
<1>9. Tail(files) = SubSeq(h, k + 1, Len(h))
  <2>1. k - 1 \in 0 .. Len(h) /\ k - 1 # Len(h) /\ (k - 1) + 1 = k /\ (k - 1) + 2 = k + 1
    BY <1>3, <1>5
  <2> QED BY <1>3, <1>5, <2>1, SuffixIs
<1>10. Between(clean, graph, {})
  BY <1>4, <1>6, <1>7, <1>8
<1> HIDE DEF B, c
<1>11. SameAsClean(h, k)'
  BY <1>1, <1>3, <1>7, <1>9, <1>10 DEF SameAsClean
<1> QED BY <1>1, <1>2, <1>11 DEF NoTrace, Traceless

LEMMA NoTraceRestart == ASSUME NEW h, NEW k, Traceless(h, k), Restart PROVE NoTrace'
<1>1. running /\ todo' = Batches(Head(files)) /\ files' = files /\ graph' = graph
      /\ clean' = clean /\ running' = running
  BY DEF Restart
<1>2. h \in Histories /\ k \in 0 .. Len(h) /\ GraphShape(graph) /\ BetweenLoads(h, k)
  BY <1>1 DEF Traceless
<1> DEFINE B == Batches(h[k])
           c == LoadGraphs(h, k)
<1>3. k \in 1 .. Len(h) /\ files = SubSeq(h, k, Len(h)) /\ clean = FileGraphs(h)[k]
      /\ GraphShape(FileGraphs(h)[k - 1])
  BY <1>2 DEF BetweenLoads
<1>4. PICK j \in 0 .. Len(B) : Between(c[j], graph, LaterGraphs(h, k, j))
  BY <1>2 DEF BetweenLoads
<1>5. IsSequence(B) /\ IsSequence(h) /\ Len(B) \in Nat /\ Len(h) \in Nat
  BY <1>2, <1>3, HistoryShape, WholeIs
<1>6. Head(files) = h[k]
  <2>1. k - 1 \in 0 .. Len(h) /\ k - 1 # Len(h) /\ (k - 1) + 1 = k
    BY <1>3, <1>5
  <2> QED BY <1>3, <1>5, <2>1, SuffixIs
<1>7. todo' = SubSeq(B, 0 + 1, Len(B)) /\ 0 \in 0 .. Len(B)
  BY <1>1, <1>5, <1>6, WholeIs
<1>8. Grows(c[0], c[j])
  BY <1>2, <1>3, <1>4, <1>5, <1>7, LoadGraphsAre
<1>9. {c[j]} \cup LaterGraphs(h, k, j) \subseteq {c[0]} \cup LaterGraphs(h, k, 0)
  <2>1. ASSUME NEW m \in {j} \cup (j + 1 .. Len(B))
        PROVE  c[m] \in {c[0]} \cup LaterGraphs(h, k, 0)
    <3>1. m = 0 \/ m \in 0 + 1 .. Len(B)
      BY <1>4, <1>5
    <3> QED BY <3>1 DEF LaterGraphs
  <2> QED BY <2>1 DEF LaterGraphs
<1> HIDE DEF B, c
<1>10. Between(c[0], graph, LaterGraphs(h, k, 0))
  BY <1>4, <1>8, <1>9, BetweenMore
<1>11. \E i \in 0 .. Len(B) :
          todo' = SubSeq(B, i + 1, Len(B)) /\ Between(c[i], graph', LaterGraphs(h, k, i))
  BY <1>1, <1>7, <1>10
<1>12. BetweenLoads(h, k)'
  BY <1>1, <1>3, <1>11 DEF BetweenLoads, B, c
<1> QED BY <1>1, <1>2, <1>12 DEF NoTrace, Traceless

LEMMA NoTraceStep == ASSUME AllSteady PROVE NoTrace /\ [Next]_vars => NoTrace'
<1> SUFFICES ASSUME NoTrace, [Next]_vars PROVE NoTrace'
  OBVIOUS
<1>1. PICK h, k : Traceless(h, k)
  BY DEF NoTrace
<1>2. Steady(h)
  BY <1>1 DEF AllSteady, Traceless
<1>3. CASE Begin
  BY <1>1, <1>3, NoTraceBegin
<1>4. CASE LoadBatch
  BY <1>1, <1>2, <1>4, NoTraceLoad
<1>5. CASE Finish
  BY <1>1, <1>5, NoTraceFinish
<1>6. CASE Restart
  BY <1>1, <1>6, NoTraceRestart
<1>7. CASE UNCHANGED vars
  <2>1. files' = files /\ todo' = todo /\ running' = running /\ graph' = graph /\ clean' = clean
    BY <1>7 DEF vars
  <2> QED BY <2>1 DEF NoTrace, Traceless, BetweenLoads, SameAsClean
<1> QED BY <1>3, <1>4, <1>5, <1>6, <1>7 DEF Next

LEMMA NoTraceLeft == NoTrace => FailureLeavesNoTrace
<1> SUFFICES ASSUME NoTrace, Loaded PROVE graph.nodes = clean.nodes /\ graph.links = clean.links
  BY DEF FailureLeavesNoTrace
<1>1. PICK h, k : Traceless(h, k)
  BY DEF NoTrace
<1>2. GraphShape(graph) /\ GraphShape(clean) /\ Between(clean, graph, {})
  BY <1>1 DEF Traceless, SameAsClean, Loaded
<1> QED BY <1>2, SameGraph

-----------------------------------------------------------------------------
(* The theorems. *)

\* A record is in the node that its own id names, whichever sources were loaded, in whichever
\* order and however often one failed: no MERGE reaches the node of another id, nor a node by a
\* property that some SET wrote there.
THEOREM RecordsKeepToTheirIds == Spec => []RecordsAreUnderTheirIds
BY UnderTheirIds, Invariance, PTL

\* A person or company is one node, whichever sources wrote it and in whichever order,
\* where all of them know people and companies by their whole documents.
THEOREM PartiesAreOneNode == ASSUME AllIdentified PROVE Spec => []OneNodePerParty
BY PartiesAreOne, Invariance, PTL

\* A link goes to the nodes that a row of each of its records points to: the MATCH or MERGE of
\* its ends finds nobody but those whom the writes that set what it looks for stand for.
THEOREM LinksAreToThosePointedTo == Spec => []LinksGoWhereRowsPoint
BY RowsPoint, Invariance, PTL

\* A row of a link is only lost where the batches before it of its own file write none of its
\* ends: no failure, and no other source, loses one whose ends were loaded.
THEOREM OnlyMissingEndsLoseRows == Spec => []LostRowsHadNoEnd
<1>1. IInv => LostRowsHadNoEnd
  BY GraphIs DEF LostRowsHadNoEnd
<1> QED BY <1>1, Invariance, PTL

\* No batch takes the name of a person or company away, for every source that does not
\* SET a missing name or the document in the place of one.
THEOREM NamesDoStay == ASSUME AllIdentified PROVE Spec => NamesAreKept
<1>1. IInv /\ [Next]_vars =>
          [running /\ Head(files).source \notin NoName \cup DocumentNames =>
              \A n \in DOMAIN graph.nodes : Called(graph.nodes[n]) => Called(graph'.nodes[n])]_vars
  BY StepKeepsNames DEF NamesStay
<1> QED BY <1>1, Invariance, PTL DEF Spec, NamesAreKept

\* Wherever a pipeline fails, and as often as it does, loading its file again leaves the nodes
\* and links of a history without failures, if every row of a load that does not fail finds
\* what it would find later in that load.
THEOREM FailuresLeaveNoTrace == ASSUME AllSteady PROVE Spec => []FailureLeavesNoTrace
<1>1. Init => NoTrace
  BY NoTraceInit
<1>2. NoTrace /\ [Next]_vars => NoTrace'
  BY NoTraceStep
<1>3. NoTrace => FailureLeavesNoTrace
  BY NoTraceLeft
<1> QED BY <1>1, <1>2, <1>3, PTL DEF Spec

=============================================================================
