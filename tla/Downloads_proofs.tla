-------------------------- MODULE Downloads_proofs --------------------------
(***************************************************************************)
(* Proofs about Downloads, for any plans, dates and file sizes: which      *)
(* files a later run may take for done.                                    *)
(***************************************************************************)
EXTENDS Downloads, WellFoundedInduction, TLAPS

-----------------------------------------------------------------------------
(* Sequences. *)

(* The least of some numbers. *)
LEMMA LeastNatural ==
    ASSUME NEW T \in SUBSET Nat, T # {}
    PROVE  \E n \in T : \A m \in T : n <= m
<1>1. PICK n \in T : \A m \in T : ~(<<m, n>> \in OpToRel(<, Nat))
  BY NatLessThanWellFounded, WFMin
<1>2. ASSUME NEW m \in T PROVE n <= m
  <2>1. <<m, n>> \in OpToRel(<, Nat) <=> m < n
    BY DEF OpToRel
  <2>2. ~(m < n)
    BY <1>1, <2>1
  <2>3. m \in Nat /\ n \in Nat
    OBVIOUS
  <2> QED BY <2>2, <2>3
<1> QED BY <1>2

\* What FlattenSeq computes, up to the k-th sequence.
Flattens(g, ss, k) == g = [i \in 1 .. k |-> IF i = 1 THEN ss[i] ELSE g[i - 1] \o ss[i]]

LEMMA FlattenExists ==
    ASSUME NEW ss, NEW n \in Nat
    PROVE  \E g : Flattens(g, ss, n)
<1> DEFINE T == {k \in Nat : ~ \E g : Flattens(g, ss, k)}
<1>1. ASSUME T # {} PROVE FALSE
  <2>1. PICK k \in T : \A m \in T : k <= m
    <3>1. T \in SUBSET Nat
      OBVIOUS
    <3> HIDE DEF T
    <3> QED BY <1>1, <3>1, LeastNatural
  <2>2. k \in Nat /\ ~ \E g : Flattens(g, ss, k)
    OBVIOUS
  <2>3. CASE k = 0
    <3>1. Flattens(<<>>, ss, 0)
      BY DEF Flattens
    <3> QED BY <2>2, <2>3, <3>1
  <2>4. CASE k # 0
    <3>1. k - 1 \in Nat /\ k - 1 \notin T
      BY <2>1, <2>2, <2>4
    <3>2. PICK g : Flattens(g, ss, k - 1)
      BY <3>1
    <3> DEFINE h == [i \in 1 .. k |-> IF i = 1 THEN ss[i] ELSE g[i - 1] \o ss[i]]
    <3>3. ASSUME NEW i \in 1 .. k PROVE h[i] = IF i = 1 THEN ss[i] ELSE h[i - 1] \o ss[i]
      <4>1. CASE i = 1
        BY <4>1
      <4>2. CASE i # 1
        <5>1. i - 1 \in 1 .. k - 1 /\ i - 1 \in 1 .. k
          BY <2>2, <4>2
        <5>2. g[i - 1] = h[i - 1]
          BY <3>2, <5>1 DEF Flattens
        <5> QED BY <4>2, <5>2
      <4> QED BY <4>1, <4>2
    <3>4. Flattens(h, ss, k)
      BY <3>3 DEF Flattens
    <3> QED BY <2>2, <3>4
  <2> QED BY <2>3, <2>4
<1> QED BY <1>1

LEMMA FlattenIs ==
    ASSUME NEW ss, Len(ss) \in Nat, Len(ss) # 0
    PROVE  \E g : Flattens(g, ss, Len(ss)) /\ FlattenSeq(ss) = g[Len(ss)]
<1> DEFINE g == CHOOSE g : Flattens(g, ss, Len(ss))
<1>1. Flattens(g, ss, Len(ss))
  BY FlattenExists
<1>2. FlattenSeq(ss) = g[Len(ss)]
  BY DEF FlattenSeq, Flattens
<1> QED BY <1>1, <1>2

LEMMA FlattenOne == ASSUME NEW s PROVE FlattenSeq(<<s>>) = s
<1> DEFINE ss == <<s>>
<1>1. Len(ss) = 1 /\ ss[1] = s
  OBVIOUS
<1> HIDE DEF ss
<1>2. Len(ss) \in Nat /\ Len(ss) # 0
  BY <1>1
<1>3. PICK g : Flattens(g, ss, 1) /\ FlattenSeq(ss) = g[1]
  BY <1>1, <1>2, FlattenIs, Zenon
<1>4. FlattenSeq(ss) = s
  BY <1>1, <1>3 DEF Flattens
<1> QED BY <1>4 DEF ss

LEMMA FlattenType ==
    ASSUME NEW E, NEW ss \in Seq(Seq(E))
    PROVE  FlattenSeq(ss) \in Seq(E)
<1>1. CASE Len(ss) = 0
  BY <1>1 DEF FlattenSeq
<1>2. CASE Len(ss) # 0
  <2>1. PICK g : Flattens(g, ss, Len(ss)) /\ FlattenSeq(ss) = g[Len(ss)]
    BY <1>2, FlattenIs
  <2> DEFINE T == {i \in 1 .. Len(ss) : g[i] \notin Seq(E)}
  <2>2. ASSUME T # {} PROVE FALSE
    <3>1. PICK i \in T : \A m \in T : i <= m
      <4>1. T \in SUBSET Nat
        OBVIOUS
      <4> HIDE DEF T
      <4> QED BY <2>2, <4>1, LeastNatural
    <3>2. i \in 1 .. Len(ss) /\ ss[i] \in Seq(E) /\ i \in Nat /\ g[i] \notin Seq(E)
      OBVIOUS
    <3>3. CASE i = 1
      <4>1. g[i] = ss[i]
        BY <2>1, <3>2, <3>3 DEF Flattens
      <4> QED BY <3>2, <4>1
    <3>4. CASE i # 1
      <4>1. i - 1 \in 1 .. Len(ss) /\ i - 1 \notin T
        BY <3>1, <3>2, <3>4
      <4>2. g[i - 1] \in Seq(E)
        BY <4>1
      <4>3. g[i] = g[i - 1] \o ss[i]
        BY <2>1, <3>2, <3>4 DEF Flattens
      <4> QED BY <3>2, <4>2, <4>3
    <3> QED BY <3>3, <3>4
  <2>3. Len(ss) \in 1 .. Len(ss)
    BY <1>2
  <2> QED BY <2>1, <2>2, <2>3
<1> QED BY <1>1, <1>2
-----------------------------------------------------------------------------
(* The invariant, of the scripts whose plans are sound and while the       *)
(* publisher has the first version of every file.                          *)

First(d) == Content(d, 1)
Whole(content) == \E d \in Dataset : content = First(d)
Beginning(content, d) == \E k \in 0 .. Size[1] : content = SubSeq(First(d), 1, k)

PartOf == [of : Dataset, ver : {1}, part : Nat]
AnyFile == Name \cup {Partial(f) : f \in Name}
WriteTo(F) == [to : F, open : BOOLEAN, add : Seq(PartOf)]
Own(s) == ToSet(s.to) \cup {Partial(f) : f \in ToSet(s.to)}

Process ==
    [pc : Nat \ {0}, busy : BOOLEAN, todo : Seq(WriteTo(AnyFile)), held : Seq(PartOf),
     got : SUBSET Name, tries : Nat,
     done : SUBSET STRING, skipped : SUBSET STRING, failed : SUBSET STRING]

Ordered ==
    /\ order.asked \in DOMAIN PlanOf[script]
    /\ order.plan = PlanOf[script][order.asked]

Typed ==
    /\ script \in DOMAIN PlanOf
    /\ exit # "none" => Ordered
    /\ \A f \in DOMAIN disk : disk[f] \in Seq(PartOf)
    /\ run \in Process

\* What is left to write makes f, of which `there` is there, a whole file of d.
Writing(f, d, todo, there) ==
    \/ todo = <<Open(f)>> \o Adds(f, First(d))
    \/ \E k \in 0 .. Size[1] :
          /\ there = SubSeq(First(d), 1, k)
          /\ todo = Adds(f, SubSeq(First(d), k + 1, Size[1]))

VouchedWhole == \A f \in Vouching(script) : Exists(f) => Whole(disk[f])

PartialsBegin ==
    \A s \in Steps(script) :
        Brings(s) /\ Exists(Partial(s.to[1])) => Beginning(disk[Partial(s.to[1])], s.of)

WritesInPlace ==
    exit = "running" /\ run.busy =>
        /\ run.pc <= Len(Plan) /\ Now.op \in {"fetch", "extract", "derive", "save"}
        /\ run.todo \in Seq(WriteTo(Own(Now)))
        /\ Brings(Now) => Writing(Partial(Now.to[1]), Now.of, run.todo, Holds(Partial(Now.to[1])))
        /\ Feeds(Plan, run.pc) => \E d \in Dataset : Writing(Now.to[1], d, run.todo, Holds(Now.to[1]))

\* Before a file is renamed or marked, what it is made of is whole.
FedIsWhole ==
    exit = "running" /\ run.pc <= Len(Plan) /\ Feeds(Plan, run.pc - 1) => Whole(Holds(Now.from[1]))

AfterHold(p, i) == i - 1 \in DOMAIN p /\ i \in DOMAIN p /\ p[i - 1].op = "hold"
KeepsAll(p) == \A i \in DOMAIN p : p[i].op = "hold" => Keeps(p, i)

HeldIsAsked ==
    exit = "running" /\ KeepsAll(Plan) =>
        run.held = IF AfterHold(Plan, run.pc) /\ ~run.busy THEN First(Plan[run.pc - 1].of) ELSE <<>>

Good ==
    Typed /\ VouchedWhole /\ PartialsBegin /\ WritesInPlace /\ FedIsWhole /\ HeldIsAsked

IInv ==
    /\ script \in DOMAIN PlanOf
    /\ server = 1 /\ Sound(script) /\ script \notin Compressed => Good

-----------------------------------------------------------------------------
(* Names, and the steps of a plan. *)

LEMMA Triples ==
    ASSUME NEW S, NEW T, NEW h \in S \X S \X T
    PROVE  h = <<h[1], h[2], h[3]>>
OBVIOUS

LEMMA PartialApart ==
    ASSUME NEW f \in Name
    PROVE  /\ Partial(f) \notin Name
           /\ \A g \in Name : Partial(f) = Partial(g) => f = g
<1>1. \A h \in Name : h = <<h[1], h[2], "">>
  <2> TAKE h \in Name
  <2>1. h = <<h[1], h[2], h[3]>>
    BY Triples DEF Name
  <2>2. h[3] = ""
    BY DEF Name
  <2> QED BY <2>1, <2>2
<1>2. Partial(f)[3] = "partial"
  BY DEF Partial
<1>3. \A h \in Name : h[3] = ""
  BY DEF Name
<1>4. ASSUME NEW g \in Name, Partial(f) = Partial(g) PROVE f = g
  <2>1. f[1] = g[1] /\ f[2] = g[2]
    BY <1>4 DEF Partial
  <2> QED BY <1>1, <2>1
<1> QED BY <1>2, <1>3, <1>4

LEMMA StepsAre ==
    ASSUME NEW name \in DOMAIN PlanOf
    PROVE  /\ \A p \in PlansOf(name) : p \in Seq(PlanStep) /\ \A i \in 1 .. Len(p) : p[i] \in Steps(name)
           /\ Steps(name) \subseteq PlanStep
<1>1. \A p \in PlansOf(name) : p \in Seq(PlanStep)
  BY PlansAssumption DEF PlansOf
<1>2. \A p \in PlansOf(name) : DOMAIN p = 1 .. Len(p) /\ \A i \in 1 .. Len(p) : p[i] \in PlanStep
  BY <1>1
<1> QED BY <1>1, <1>2 DEF Steps, ToSet

LEMMA StepIs ==
    ASSUME NEW s \in PlanStep
    PROVE  /\ s.op \in {"fetch", "derive", "extract", "hold", "save", "move", "mark", "unlink"}
           /\ s.how \in Ways[s.op]
           /\ s.group \in STRING /\ s.to \in Seq(Name) /\ s.from \in Seq(Name) /\ s.unless \in Seq(Name)
           /\ s.skips \in {"step", "group", "run"} /\ s.orElse \in {"go on", "group", "stop"}
           /\ s.ends \in BOOLEAN
           /\ s.op # "hold" => s.to # <<>> /\ s.to[1] \in Name /\ s.to[1] \in ToSet(s.to)
           /\ s.op \in {"fetch", "move", "mark", "unlink"} => Len(s.to) = 1
           /\ s.op \in {"fetch", "hold"} => s.of \in Dataset
           /\ ToSet(s.to) \subseteq Name
<1>0. s.to \in Seq(Name)
  BY DEF PlanStep
<1>1. /\ s.op \in DOMAIN Ways /\ s.how \in Ways[s.op] /\ s.group \in STRING
      /\ s.to \in Seq(Name) /\ s.from \in Seq(Name) /\ s.unless \in Seq(Name)
      /\ s.skips \in {"step", "group", "run"} /\ s.orElse \in {"go on", "group", "stop"}
      /\ s.ends \in BOOLEAN
      /\ s.to = <<>> <=> s.op = "hold"
      /\ s.op \in {"fetch", "move", "mark", "unlink"} => Len(s.to) = 1
      /\ s.op \in {"fetch", "hold"} => s.of \in Dataset
  BY DEF PlanStep
<1>2. s.op \in {"fetch", "derive", "extract", "hold", "save", "move", "mark", "unlink"}
  BY <1>1 DEF Ways
<1>3. s.to # <<>> => 1 \in 1 .. Len(s.to)
  BY <1>0
<1>4. \A i \in 1 .. Len(s.to) : s.to[i] \in Name
  BY <1>0
<1>5. DOMAIN s.to = 1 .. Len(s.to)
  BY <1>0
<1> QED BY <1>1, <1>2, <1>3, <1>4, <1>5 DEF ToSet

LEMMA FetchHow ==
    ASSUME NEW s \in PlanStep, s.how \in {"resume", "attempts", "collect"}
    PROVE  s.op = "fetch"
<1> DEFINE op == s.op
           how == s.how
<1>1. op \in {"fetch", "derive", "extract", "hold", "save", "move", "mark", "unlink"} /\ how \in Ways[op]
  BY StepIs
<1>2. /\ \A o \in {"save", "move", "mark", "unlink"} : Ways[o] = {""}
      /\ Ways["hold"] = {"", "list", "details"}
      /\ Ways["derive"] = {"found", "any", "listed", "parsed"}
      /\ Ways["extract"] = {"", "list", "glob", "raise"}
  BY DEF Ways
<1> HIDE DEF op
<1>3. op # "derive" /\ op # "extract"
  BY <1>1, <1>2
<1>4. op \notin {"hold", "save", "move", "mark", "unlink"}
  BY <1>1, <1>2
<1> QED BY <1>1, <1>3, <1>4 DEF op

LEMMA VouchingAreNames ==
    ASSUME NEW name \in DOMAIN PlanOf
    PROVE  /\ Vouching(name) \subseteq Name
           /\ \A s \in Steps(name) : Brings(s) =>
                s.to[1] \in Vouching(name) /\ s.to[1] \in Name /\ s.to = <<s.to[1]>> /\ s.of \in Dataset
<1>1. \A s \in Steps(name) : Brings(s) =>
        s.to[1] \in Vouching(name) /\ s.to[1] \in Name /\ s.to = <<s.to[1]>> /\ s.of \in Dataset
  <2> TAKE s \in Steps(name)
  <2> HAVE Brings(s)
  <2>1. s \in PlanStep
    BY StepsAre
  <2>2. s.op = "fetch"
    BY DEF Brings
  <2>3. s.to \in Seq(Name) /\ Len(s.to) = 1 /\ s.to[1] \in Name /\ s.of \in Dataset
    BY <2>1, <2>2, StepIs
  <2>4. s.to = <<s.to[1]>>
    BY <2>3
  <2> QED BY <2>3, <2>4 DEF Vouching, Brought
<1>2. ASSUME NEW p \in PlansOf(name), NEW i \in DOMAIN p, Feeds(p, i)
      PROVE  p[i + 1].to[1] \in Name
  <2>0. p \in Seq(PlanStep) /\ i + 1 \in DOMAIN p
    BY <1>2, StepsAre DEF Feeds
  <2>1. \A k \in DOMAIN p : p[k] \in PlanStep
    BY <2>0
  <2>2. p[i + 1].op \in {"move", "mark"}
    BY <1>2 DEF Feeds
  <2> QED BY <2>0, <2>1, <2>2, StepIs
<1> QED BY <1>1, <1>2 DEF Vouching, Brought

LEMMA NowIs ==
    ASSUME Typed, exit = "running", run.pc <= Len(Plan)
    PROVE  /\ Plan \in PlansOf(script) /\ Plan \in Seq(PlanStep) /\ Len(Plan) \in Nat
           /\ run.pc \in 1 .. Len(Plan) /\ DOMAIN Plan = 1 .. Len(Plan)
           /\ Now \in PlanStep /\ Now \in Steps(script)
<1>1. Plan \in PlansOf(script) /\ run.pc \in Nat \ {0}
  BY DEF Typed, Ordered, Plan, PlansOf, Process
<1>2. Plan \in Seq(PlanStep) /\ \A i \in 1 .. Len(Plan) : Plan[i] \in Steps(script)
  BY <1>1, StepsAre DEF Typed
<1>3. Len(Plan) \in Nat /\ run.pc \in 1 .. Len(Plan) /\ DOMAIN Plan = 1 .. Len(Plan)
  BY <1>1, <1>2
<1> QED BY <1>1, <1>2, <1>3 DEF Now

\* the next step of another group, or the end
LEMMA AfterGroupIs ==
    ASSUME Typed, exit = "running", run.pc <= Len(Plan)
    PROVE  /\ AfterGroup \in run.pc + 1 .. Len(Plan) + 1
           /\ AfterGroup <= Len(Plan) => Plan[AfterGroup].group # Plan[AfterGroup - 1].group
<1> DEFINE Ends(j) == j <= Len(Plan) => Plan[j].group # Now.group
           T == {j \in run.pc + 1 .. Len(Plan) + 1 : Ends(j)}
<1>1. Len(Plan) \in Nat /\ run.pc \in 1 .. Len(Plan)
  BY NowIs
<1>2. \E j \in T : \A k \in T : j <= k
  <2>1. Len(Plan) + 1 \in T /\ T \in SUBSET Nat
    BY <1>1
  <2> HIDE DEF T
  <2> QED BY <2>1, LeastNatural
<1>3. PICK j \in T : \A k \in T : j <= k
  BY <1>2
<1>4. \A k \in run.pc + 1 .. j - 1 : Plan[k].group = Now.group
  BY <1>1, <1>3
<1>5. \E i \in run.pc + 1 .. Len(Plan) + 1 :
        /\ i <= Len(Plan) => Plan[i].group # Now.group
        /\ \A k \in run.pc + 1 .. i - 1 : Plan[k].group = Now.group
  BY <1>3, <1>4
<1>6. /\ AfterGroup \in run.pc + 1 .. Len(Plan) + 1
      /\ AfterGroup <= Len(Plan) => Plan[AfterGroup].group # Now.group
      /\ \A k \in run.pc + 1 .. AfterGroup - 1 : Plan[k].group = Now.group
  <2> HIDE DEF T, Ends
  <2> QED BY <1>5 DEF AfterGroup
<1>7. Plan[AfterGroup - 1].group = Now.group
  <2>1. CASE AfterGroup = run.pc + 1
    BY <1>1, <2>1 DEF Now
  <2>2. CASE AfterGroup # run.pc + 1
    <3>1. AfterGroup - 1 \in run.pc + 1 .. AfterGroup - 1
      BY <1>1, <1>6, <2>2
    <3> QED BY <1>6, <3>1
  <2> QED BY <2>1, <2>2
<1> QED BY <1>6, <1>7

-----------------------------------------------------------------------------
(* Contents and writes. *)

LEMMA FirstIs ==
    ASSUME NEW d \in Dataset
    PROVE  /\ Size[1] \in Nat /\ Size[1] >= 1
           /\ First(d) \in Seq(PartOf) /\ Len(First(d)) = Size[1] /\ First(d) # <<>>
           /\ First(d) = [i \in 1 .. Size[1] |-> Part(d, 1, i)]
<1>1. Size \in Seq(Nat \ {0}) /\ Size # <<>>
  BY SizeAssumption
<1>2. 1 \in 1 .. Len(Size)
  BY <1>1
<1>3. Size[1] \in Nat /\ Size[1] >= 1
  BY <1>1, <1>2
<1>4. First(d) = [i \in 1 .. Size[1] |-> Part(d, 1, i)]
  BY DEF First, Content
<1>5. \A i \in 1 .. Size[1] : Part(d, 1, i) \in PartOf
  BY <1>3 DEF Part, PartOf
<1>6. First(d) \in Seq(PartOf) /\ Len(First(d)) = Size[1]
  BY <1>3, <1>4, <1>5
<1>7. First(d) # <<>>
  BY <1>3, <1>6
<1> QED BY <1>3, <1>4, <1>6, <1>7

LEMMA AddsAre ==
    ASSUME NEW F, NEW f \in F, NEW parts \in Seq(PartOf)
    PROVE  /\ Adds(f, parts) \in Seq(WriteTo(F)) /\ Len(Adds(f, parts)) = Len(parts)
           /\ \A i \in 1 .. Len(parts) : Adds(f, parts)[i] = Add(f, parts[i])
<1>1. \A i \in 1 .. Len(parts) : Add(f, parts[i]) \in WriteTo(F)
  <2> TAKE i \in 1 .. Len(parts)
  <2>1. <<parts[i]>> \in Seq(PartOf)
    OBVIOUS
  <2> QED BY <2>1 DEF Add, WriteTo
<1>2. Adds(f, parts) = [i \in 1 .. Len(parts) |-> Add(f, parts[i])]
  BY DEF Adds
<1>3. Len(parts) \in Nat
  OBVIOUS
<1> QED BY <1>1, <1>2, <1>3

LEMMA OpenIs == ASSUME NEW F, NEW f \in F PROVE Open(f) \in WriteTo(F)
<1>1. <<>> \in Seq(PartOf)
  OBVIOUS
<1> QED BY <1>1 DEF Open, WriteTo

LEMMA ShareIs ==
    ASSUME NEW files, NEW content \in Seq(PartOf), NEW i
    PROVE  Share(files, content, i) \in Seq(PartOf)
<1> DEFINE K == {k \in DOMAIN content :
                   content[k].part = i \/ (i = Len(files) /\ content[k].part > i)}
           ss == [k \in DOMAIN content |-> IF k \in K THEN <<content[k]>> ELSE <<>>]
<1>1. ss \in Seq(Seq(PartOf))
  <2>1. \A k \in 1 .. Len(content) : content[k] \in PartOf
    OBVIOUS
  <2>2. \A k \in 1 .. Len(content) : <<content[k]>> \in Seq(PartOf) /\ <<>> \in Seq(PartOf)
    BY <2>1
  <2>3. \A k \in 1 .. Len(content) : (IF k \in K THEN <<content[k]>> ELSE <<>>) \in Seq(PartOf)
    BY <2>2
  <2>4. DOMAIN content = 1 .. Len(content) /\ Len(content) \in Nat
    OBVIOUS
  <2> HIDE DEF K
  <2> QED BY <2>3, <2>4
<1>2. Share(files, content, i) = FlattenSeq(ss)
  BY DEF Share, Only
<1> HIDE DEF ss
<1> QED BY <1>1, <1>2, FlattenType

LEMMA SpreadIs ==
    ASSUME NEW F, NEW files \in Seq(F), NEW content \in Seq(PartOf)
    PROVE  Spread(files, content) \in Seq(WriteTo(F))
<1> DEFINE parts(i) == IF Len(files) = 1 THEN content ELSE Share(files, content, i)
           ss == [i \in DOMAIN files |-> <<Open(files[i])>> \o Adds(files[i], parts(i))]
<1>1. \A i \in 1 .. Len(files) : <<Open(files[i])>> \o Adds(files[i], parts(i)) \in Seq(WriteTo(F))
  <2> TAKE i \in 1 .. Len(files)
  <2>1. files[i] \in F /\ parts(i) \in Seq(PartOf)
    BY ShareIs
  <2> HIDE DEF parts
  <2>2. Adds(files[i], parts(i)) \in Seq(WriteTo(F)) /\ Open(files[i]) \in WriteTo(F)
    BY <2>1, AddsAre, OpenIs
  <2> QED BY <2>2
<1>2. DOMAIN files = 1 .. Len(files) /\ Len(files) \in Nat
  OBVIOUS
<1>3. Spread(files, content) = FlattenSeq(ss)
  BY DEF Spread
<1>4. ss \in Seq(Seq(WriteTo(F)))
  <2> HIDE DEF parts
  <2> QED BY <1>1, <1>2
<1> HIDE DEF ss
<1> QED BY <1>3, <1>4, FlattenType

LEMMA SpreadOne ==
    ASSUME NEW f, NEW content
    PROVE  Spread(<<f>>, content) = <<Open(f)>> \o Adds(f, content)
<1> DEFINE s == <<Open(f)>> \o Adds(f, content)
           ss == [i \in DOMAIN <<f>> |-> <<Open(<<f>>[i])>>
                    \o Adds(<<f>>[i], IF Len(<<f>>) = 1 THEN content ELSE Share(<<f>>, content, i))]
<1>1. ss = <<s>>
  <2>1. DOMAIN <<f>> = 1 .. 1 /\ Len(<<f>>) = 1 /\ <<f>>[1] = f
    OBVIOUS
  <2>2. ss = [i \in 1 .. 1 |-> s]
    BY <2>1
  <2> HIDE DEF s, ss
  <2> QED BY <2>2
<1>2. Spread(<<f>>, content) = FlattenSeq(ss)
  BY DEF Spread
<1> HIDE DEF ss, s
<1>3. Spread(<<f>>, content) = s
  BY <1>1, <1>2, FlattenOne
<1> QED BY <1>3 DEF s

LEMMA ConcatIs ==
    ASSUME \A f \in DOMAIN disk : disk[f] \in Seq(PartOf), NEW F, NEW files \in Seq(F)
    PROVE  Concat(files) \in Seq(PartOf)
<1> DEFINE ss == [i \in DOMAIN files |-> Holds(files[i])]
<1>1. \A i \in 1 .. Len(files) : Holds(files[i]) \in Seq(PartOf)
  BY DEF Holds, Exists
<1>2. DOMAIN files = 1 .. Len(files) /\ Len(files) \in Nat
  OBVIOUS
<1>3. ss \in Seq(Seq(PartOf))
  BY <1>1, <1>2
<1>4. Concat(files) = FlattenSeq(ss)
  BY DEF Concat
<1> HIDE DEF ss
<1> QED BY <1>3, <1>4, FlattenType

LEMMA ConcatOne == ASSUME NEW f PROVE Concat(<<f>>) = Holds(f)
<1> DEFINE ss == [i \in DOMAIN <<f>> |-> Holds(<<f>>[i])]
<1>1. ss = <<Holds(f)>>
  <2>1. DOMAIN <<f>> = 1 .. 1 /\ <<f>>[1] = f
    OBVIOUS
  <2> DEFINE c == Holds(f)
  <2>2. ss = [i \in 1 .. 1 |-> c]
    BY <2>1
  <2> HIDE DEF c, ss
  <2>3. ss = <<c>>
    BY <2>2
  <2> QED BY <2>3 DEF c
<1>2. Concat(<<f>>) = FlattenSeq(ss)
  BY DEF Concat
<1> HIDE DEF ss
<1> QED BY <1>1, <1>2, FlattenOne

LEMMA Cut ==
    ASSUME NEW S, NEW c \in Seq(S), NEW k \in 0 .. Len(c)
    PROVE  /\ SubSeq(c, 1, 0) = <<>> /\ SubSeq(c, 1, Len(c)) = c
           /\ SubSeq(c, 1, k) \in Seq(S) /\ Len(SubSeq(c, 1, k)) = k
           /\ SubSeq(c, k + 1, Len(c)) \in Seq(S) /\ Len(SubSeq(c, k + 1, Len(c))) = Len(c) - k
           /\ k < Len(c) =>
                /\ SubSeq(c, k + 1, Len(c))[1] = c[k + 1]
                /\ SubSeq(c, 1, k) \o <<c[k + 1]>> = SubSeq(c, 1, k + 1)
                /\ Tail(SubSeq(c, k + 1, Len(c))) = SubSeq(c, k + 2, Len(c))
<1>1. SubSeq(c, 1, 0) = <<>> /\ SubSeq(c, 1, Len(c)) = c
  OBVIOUS
<1>2. SubSeq(c, 1, k) \in Seq(S) /\ Len(SubSeq(c, 1, k)) = k
  OBVIOUS
<1>3. SubSeq(c, k + 1, Len(c)) \in Seq(S) /\ Len(SubSeq(c, k + 1, Len(c))) = Len(c) - k
  OBVIOUS
<1>4. ASSUME k < Len(c) PROVE SubSeq(c, 1, k) \o <<c[k + 1]>> = SubSeq(c, 1, k + 1)
  BY <1>4
<1>5. ASSUME k < Len(c)
      PROVE  /\ SubSeq(c, k + 1, Len(c))[1] = c[k + 1]
             /\ Tail(SubSeq(c, k + 1, Len(c))) = SubSeq(c, k + 2, Len(c))
  BY <1>5
<1> QED BY <1>1, <1>2, <1>3, <1>4, <1>5

LEMMA TailOfAdds ==
    ASSUME NEW f, NEW parts \in Seq(PartOf), parts # <<>>
    PROVE  /\ Adds(f, parts) # <<>> /\ Head(Adds(f, parts)) = Add(f, parts[1])
           /\ Tail(Adds(f, parts)) = Adds(f, Tail(parts))
<1> DEFINE F == {f}
           a == Adds(f, parts)
           t == Tail(parts)
           b == Adds(f, t)
<1>1. /\ a \in Seq(WriteTo(F)) /\ Len(a) = Len(parts)
      /\ \A i \in 1 .. Len(parts) : a[i] = Add(f, parts[i])
  BY AddsAre
<1>2. t \in Seq(PartOf) /\ Len(t) = Len(parts) - 1 /\ Len(parts) >= 1
      /\ \A i \in 1 .. Len(parts) - 1 : t[i] = parts[i + 1]
  OBVIOUS
<1> HIDE DEF t
<1>0. f \in F
  OBVIOUS
<1> HIDE DEF F
<1>3. /\ b \in Seq(WriteTo(F)) /\ Len(b) = Len(parts) - 1
      /\ \A i \in 1 .. Len(parts) - 1 : b[i] = Add(f, parts[i + 1])
  <2>1. b \in Seq(WriteTo(F)) /\ Len(b) = Len(t) /\ \A i \in 1 .. Len(t) : b[i] = Add(f, t[i])
    BY <1>0, <1>2, AddsAre
  <2> HIDE DEF b
  <2> QED BY <1>2, <2>1
<1> HIDE DEF a, b
<1>4. a # <<>> /\ Head(a) = Add(f, parts[1])
  BY <1>1, <1>2
<1>5. Tail(a) = b
  BY <1>1, <1>2, <1>3
<1> QED BY <1>4, <1>5 DEF a, b, t

\* One write of a file, and the last one.
LEMMA WritingStep ==
    ASSUME NEW f, NEW d \in Dataset, NEW todo, NEW there, Writing(f, d, todo, there), todo # <<>>
    PROVE  LET w == Head(todo)
               next == IF w.open THEN <<>> ELSE there \o w.add
           IN  w.to = f /\ Beginning(next, d) /\ Writing(f, d, Tail(todo), next)
<1> DEFINE c == First(d)
           n == Size[1]
           w == Head(todo)
           next == IF w.open THEN <<>> ELSE there \o w.add
<1>1. c \in Seq(PartOf) /\ Len(c) = n /\ n \in Nat /\ n >= 1
  BY FirstIs
<1>2. CASE todo = <<Open(f)>> \o Adds(f, c)
  <2>1. Adds(f, c) \in Seq(WriteTo({f}))
    BY <1>1, AddsAre
  <2>2. w = Open(f) /\ Tail(todo) = Adds(f, c)
    <3> DEFINE o == Open(f)
               a == Adds(f, c)
    <3> HIDE DEF o, a, c
    <3>1. a \in Seq(WriteTo({f}))
      BY <2>1 DEF a
    <3>2. todo = <<o>> \o a
      BY <1>2 DEF o, a
    <3>3. Head(todo) = o /\ Tail(todo) = a
      BY <3>1, <3>2
    <3> QED BY <3>3 DEF o, a
  <2>3. w.to = f /\ next = <<>>
    BY <2>2 DEF Open
  <2>4. <<>> = SubSeq(c, 1, 0) /\ SubSeq(c, 0 + 1, n) = c /\ 0 \in 0 .. n
    BY <1>1, Cut
  <2>5. Beginning(next, d) /\ Writing(f, d, Tail(todo), next)
    <3> HIDE DEF next, w, n, c
    <3>1. next = SubSeq(c, 1, 0) /\ Tail(todo) = Adds(f, SubSeq(c, 0 + 1, n))
      BY <2>2, <2>3, <2>4
    <3> QED BY <2>4, <3>1 DEF Beginning, Writing, n, c
  <2> QED BY <2>3, <2>5
<1>3. ASSUME NEW k \in 0 .. n, there = SubSeq(c, 1, k), todo = Adds(f, SubSeq(c, k + 1, n))
      PROVE  w.to = f /\ Beginning(next, d) /\ Writing(f, d, Tail(todo), next)
  <2> DEFINE rest == SubSeq(c, k + 1, n)
  <2>1. rest \in Seq(PartOf) /\ Len(rest) = n - k
    BY <1>1, Cut
  <2> HIDE DEF rest
  <2>2. k < n
    <3>1. CASE k = n
      <4>0. f \in {f} /\ Len(rest) = 0
        BY <1>1, <2>1, <3>1
      <4>1. Adds(f, rest) \in Seq(WriteTo({f})) /\ Len(Adds(f, rest)) = 0
        BY <2>1, <4>0, AddsAre
      <4>2. Adds(f, rest) = <<>>
        <5> DEFINE a == Adds(f, rest)
        <5> HIDE DEF a
        <5>1. a \in Seq(WriteTo({f})) /\ Len(a) = 0
          BY <4>1 DEF a
        <5>2. a = <<>>
          BY <5>1
        <5> QED BY <5>2 DEF a
      <4> QED BY <1>3, <4>2 DEF rest
    <3> QED BY <1>1, <3>1
  <2>3. /\ rest[1] = c[k + 1] /\ Tail(rest) = SubSeq(c, k + 2, n)
        /\ SubSeq(c, 1, k) \o <<c[k + 1]>> = SubSeq(c, 1, k + 1)
    BY <1>1, <2>2, Cut DEF rest
  <2>4. rest # <<>>
    BY <1>1, <2>1, <2>2
  <2> HIDE DEF c
  <2>5. Head(Adds(f, rest)) = Add(f, rest[1]) /\ Tail(Adds(f, rest)) = Adds(f, Tail(rest))
    BY <2>1, <2>4, TailOfAdds
  <2>6. w = Add(f, c[k + 1]) /\ Tail(todo) = Adds(f, SubSeq(c, k + 2, n))
    BY <1>3, <2>3, <2>5 DEF rest
  <2>7. w.to = f /\ next = SubSeq(c, 1, k + 1)
    <3>1. w.to = f /\ w.open = FALSE /\ w.add = <<c[k + 1]>>
      BY <2>6 DEF Add
    <3> HIDE DEF w
    <3>2. next = there \o <<c[k + 1]>>
      BY <3>1
    <3> QED BY <1>3, <2>3, <3>1, <3>2
  <2>8. k + 1 \in 0 .. n /\ (k + 1) + 1 = k + 2
    BY <1>1, <2>2
  <2>9. Beginning(next, d) /\ Writing(f, d, Tail(todo), next)
    <3> HIDE DEF next, w, n
    <3>1. Tail(todo) = Adds(f, SubSeq(c, (k + 1) + 1, n))
      BY <2>6, <2>8
    <3> QED BY <2>7, <2>8, <3>1 DEF Beginning, Writing, n, c
  <2> QED BY <2>7, <2>9
<1> QED BY <1>2, <1>3 DEF Writing

LEMMA WritingEnds ==
    ASSUME NEW f, NEW d \in Dataset, NEW there, Writing(f, d, <<>>, there)
    PROVE  there = First(d)
<1> DEFINE c == First(d)
           n == Size[1]
<1>1. c \in Seq(PartOf) /\ Len(c) = n /\ n \in Nat /\ n >= 1
  BY FirstIs
<1>2. <<>> # <<Open(f)>> \o Adds(f, c)
  <2> DEFINE o == Open(f)
             a == Adds(f, c)
  <2>1. a \in Seq(WriteTo({f}))
    BY <1>1, AddsAre
  <2> HIDE DEF o, a
  <2> DEFINE x == <<o>> \o a
  <2>2. Len(x) = 1 + Len(a) /\ Len(a) \in Nat
    BY <2>1
  <2> HIDE DEF x
  <2>3. x # <<>>
    BY <2>2
  <2> QED BY <2>3 DEF o, a, x
<1>3. ASSUME NEW k \in 0 .. n, there = SubSeq(c, 1, k), <<>> = Adds(f, SubSeq(c, k + 1, n))
      PROVE  there = c
  <2> DEFINE rest == SubSeq(c, k + 1, n)
  <2>1. rest \in Seq(PartOf) /\ Len(rest) = n - k
    BY <1>1, Cut
  <2>2. rest = <<>>
    <3> HIDE DEF rest
    <3>1. CASE rest # <<>>
      <4>1. Adds(f, rest) # <<>>
        BY <2>1, <3>1, TailOfAdds
      <4> QED BY <1>3, <4>1 DEF rest
    <3> QED BY <3>1
  <2>3. k = n
    <3> HIDE DEF rest
    <3>1. Len(rest) = 0
      BY <2>2
    <3> QED BY <1>1, <2>1, <3>1
  <2> QED BY <1>1, <1>3, <2>3, Cut
<1> QED BY <1>2, <1>3 DEF Writing

-----------------------------------------------------------------------------
(* What a step of the script does to the process and to the disk. *)

\* The step takes nothing of f but the whole file.
Spares(f) == f \in DOMAIN disk' => f \in DOMAIN disk /\ disk'[f] = disk[f]
Then(f) == IF f \in DOMAIN disk' THEN disk'[f] ELSE <<>>

Working == exit = "running" /\ run.pc <= Len(Plan)

\* The step of the plan is over; the next one follows only if ok.
Onward(ok) ==
    /\ exit' = "running" /\ run' \in Process /\ ~run'.busy
    /\ \/ run'.pc = Len(Plan) + 1
       \/ run'.pc = AfterGroup
       \/ ok /\ run'.pc = run.pc + 1

LEMMA NowHas ==
    ASSUME Typed, Working
    PROVE  /\ Now.group \in STRING /\ Now.skips \in {"step", "group", "run"}
           /\ Now.orElse \in {"go on", "group", "stop"}
           /\ AfterGroup \in Nat \ {0} /\ Len(Plan) + 1 \in Nat \ {0} /\ run.pc + 1 \in Nat \ {0}
<1>1. Now \in PlanStep
  BY NowIs DEF Working
<1>2. /\ Now.group \in STRING /\ Now.skips \in {"step", "group", "run"}
      /\ Now.orElse \in {"go on", "group", "stop"}
  BY <1>1, StepIs
<1>3. Len(Plan) \in Nat /\ run.pc \in 1 .. Len(Plan)
  BY NowIs DEF Working
<1>4. AfterGroup \in run.pc + 1 .. Len(Plan) + 1
  BY AfterGroupIs DEF Working
<1>5. AfterGroup \in Nat \ {0}
  BY <1>3, <1>4
<1>6. Len(Plan) + 1 \in Nat \ {0} /\ run.pc + 1 \in Nat \ {0}
  BY <1>3
<1> QED BY <1>2, <1>5, <1>6

LEMMA EmptySeqs == <<>> \in Seq(PartOf) /\ <<>> \in Seq(WriteTo(AnyFile))
OBVIOUS

LEMMA FreshIs == Fresh \in Process
BY EmptySeqs DEF Fresh, Process

LEMMA ToIs ==
    ASSUME Typed, NEW n \in Nat \ {0}
    PROVE  To(n) \in Process /\ To(n).pc = n /\ ~To(n).busy /\ To(n).held = run.held
BY EmptySeqs DEF Typed, Process, To

LEMMA Next1Is ==
    ASSUME Typed, Working, NEW r \in Process
    PROVE  /\ Next1(r) \in Process /\ ~Next1(r).busy /\ Next1(r).held = r.held
           /\ Next1(r).pc = IF Now.ends THEN Len(Plan) + 1 ELSE run.pc + 1
<1>1. Len(Plan) + 1 \in Nat \ {0} /\ run.pc + 1 \in Nat \ {0} /\ Now.group \in STRING
  BY NowHas
<1> DEFINE pc == IF Now.ends THEN Len(Plan) + 1 ELSE run.pc + 1
           done == IF GroupEnds THEN r.done \cup {Now.group} ELSE r.done
<1>2. pc \in Nat \ {0}
  BY <1>1
<1>3. r.done \in SUBSET STRING
  BY DEF Process
<1>4. done \in SUBSET STRING
  BY <1>1, <1>3
<1>5. Next1(r) = [r EXCEPT !.pc = pc, !.busy = FALSE, !.todo = <<>>, !.tries = 1, !.done = done]
  BY DEF Next1
<1> HIDE DEF pc, done
<1> DEFINE q == Next1(r)
<1>6. q = [r EXCEPT !.pc = pc, !.busy = FALSE, !.todo = <<>>, !.tries = 1, !.done = done]
  BY <1>5
<1> HIDE DEF q
<1>7. q \in Process
  BY <1>2, <1>4, <1>6, EmptySeqs DEF Process
<1>8. q.pc = pc /\ ~q.busy /\ q.held = r.held
  BY <1>6 DEF Process
<1> QED BY <1>7, <1>8 DEF q, pc

LEMMA SkipIs ==
    ASSUME Typed, Skip
    PROVE  /\ Working /\ ~run.busy /\ Now.unless # <<>> /\ disk' = disk /\ run'.held = run.held
           /\ Onward(Now.skips = "step")
<1>1. Working /\ ~run.busy /\ Now.unless # <<>> /\ disk' = disk /\ exit' = "running"
  BY DEF Skip, MaySkip, Enough, Working
<1>2. /\ Now.skips \in {"step", "group", "run"} /\ Now.group \in STRING
      /\ AfterGroup \in Nat \ {0} /\ Len(Plan) + 1 \in Nat \ {0}
  BY <1>1, NowHas
<1>3. run \in Process
  BY DEF Typed
<1>4. CASE Now.skips = "step"
  <2>1. run' = Next1(run)
    BY <1>4 DEF Skip
  <2> QED BY <1>1, <1>3, <1>4, <2>1, Next1Is DEF Onward
<1>5. CASE Now.skips = "group"
  <2> DEFINE t == To(AfterGroup)
  <2>1. t \in Process /\ t.pc = AfterGroup /\ ~t.busy /\ t.held = run.held
    BY <1>2, ToIs
  <2>2. run' = [t EXCEPT !.done = t.done \cup {Now.group}, !.skipped = t.skipped \cup {Now.group}]
    BY <1>5 DEF Skip
  <2> HIDE DEF t
  <2>3. run' \in Process /\ run'.pc = AfterGroup /\ ~run'.busy /\ run'.held = run.held
    BY <1>2, <2>1, <2>2 DEF Process
  <2> QED BY <1>1, <2>3 DEF Onward
<1>6. CASE Now.skips = "run"
  <2> DEFINE t == To(Len(Plan) + 1)
  <2>1. t \in Process /\ t.pc = Len(Plan) + 1 /\ ~t.busy /\ t.held = run.held
    BY <1>2, ToIs
  <2>2. run' = [t EXCEPT !.done = t.done \cup {Now.group}, !.skipped = t.skipped \cup {Now.group}]
    BY <1>6 DEF Skip
  <2> HIDE DEF t
  <2>3. run' \in Process /\ run'.pc = Len(Plan) + 1 /\ ~run'.busy /\ run'.held = run.held
    BY <1>2, <2>1, <2>2 DEF Process
  <2> QED BY <1>1, <2>3 DEF Onward
<1> QED BY <1>2, <1>4, <1>5, <1>6

LEMMA GiveUpIs ==
    ASSUME Typed, Working, GiveUp
    PROVE  \/ Onward(Now.orElse = "go on") /\ run'.held = run.held
           \/ exit' = "failed" /\ run' \in Process
<1>1. /\ Now.orElse \in {"go on", "group", "stop"} /\ Now.group \in STRING
      /\ AfterGroup \in Nat \ {0}
  BY NowHas
<1>2. CASE Now.orElse = "go on"
  <2>1. run' = Next1(run) /\ exit' = exit
    BY <1>2 DEF GiveUp, Done
  <2> QED BY <1>2, <2>1, Next1Is DEF Onward, Working, Typed
<1>3. CASE Now.orElse = "group"
  <2> DEFINE t == To(AfterGroup)
  <2>1. t \in Process /\ t.pc = AfterGroup /\ ~t.busy /\ t.held = run.held
    BY <1>1, ToIs
  <2>2. run' = [t EXCEPT !.failed = t.failed \cup {Now.group}] /\ exit' = exit
    BY <1>3 DEF GiveUp
  <2> HIDE DEF t
  <2>3. run' \in Process /\ run'.pc = AfterGroup /\ ~run'.busy /\ run'.held = run.held
    BY <1>1, <2>1, <2>2 DEF Process
  <2> QED BY <2>2, <2>3 DEF Onward, Working
<1>4. CASE Now.orElse = "stop"
  BY <1>4, FreshIs DEF GiveUp
<1> QED BY <1>1, <1>2, <1>3, <1>4

LEMMA DoneIs ==
    ASSUME Typed, Working, Done
    PROVE  Onward(TRUE) /\ run'.held = run.held
BY Next1Is DEF Done, Onward, Working, Typed

LEMMA BusyIs ==
    ASSUME Typed, NEW writes \in Seq(WriteTo(AnyFile)), Busy(writes)
    PROVE  run' \in Process /\ run'.pc = run.pc /\ run'.busy /\ run'.todo = writes /\ run'.held = run.held
BY DEF Typed, Busy, Process

-----------------------------------------------------------------------------
(* What that means for the invariant. *)

LEMMA DiskKeeps ==
    ASSUME VouchedWhole, PartialsBegin, script' = script,
           \A f \in Vouching(script) : Spares(f) \/ Whole(disk'[f]),
           \A s \in Steps(script) : Brings(s) =>
               Spares(Partial(s.to[1])) \/ Beginning(disk'[Partial(s.to[1])], s.of)
    PROVE  VouchedWhole' /\ PartialsBegin'
<1>1. VouchedWhole'
  BY DEF VouchedWhole, Spares, Exists
<1>2. PartialsBegin'
  BY DEF PartialsBegin, Spares, Exists
<1> QED BY <1>1, <1>2

LEMMA StoppedKeeps ==
    ASSUME exit' # "running"
    PROVE  WritesInPlace' /\ FedIsWhole' /\ HeldIsAsked'
BY DEF WritesInPlace, FedIsWhole, HeldIsAsked

LEMMA NothingHeld ==
    ASSUME Typed, HeldIsAsked, Working, KeepsAll(Plan),
           run.busy \/ Now.op # "save" \/ Now.unless # <<>>
    PROVE  run.held = <<>>
<1>1. CASE AfterHold(Plan, run.pc) /\ ~run.busy
  <2>1. run.pc - 1 \in DOMAIN Plan /\ Plan[run.pc - 1].op = "hold"
    BY <1>1 DEF AfterHold
  <2>2. Keeps(Plan, run.pc - 1)
    BY <2>1 DEF KeepsAll
  <2>3. (run.pc - 1) + 1 = run.pc
    BY NowIs DEF Working
  <2>4. Now.op = "save" /\ Now.unless = <<>>
    BY <2>2, <2>3 DEF Keeps, Now
  <2> QED BY <1>1, <2>4
<1>2. CASE ~(AfterHold(Plan, run.pc) /\ ~run.busy)
  BY <1>2 DEF HeldIsAsked, Working
<1> QED BY <1>1, <1>2

LEMMA OnwardKeeps ==
    ASSUME Typed, Working, UNCHANGED <<script, order>>, NEW ok \in BOOLEAN, Onward(ok),
           ok /\ Feeds(Plan, run.pc) => Whole(Then(Now.to[1])),
           KeepsAll(Plan) =>
               run'.held = IF ok /\ run'.pc = run.pc + 1 /\ Now.op = "hold" THEN First(Now.of) ELSE <<>>
    PROVE  WritesInPlace' /\ FedIsWhole' /\ HeldIsAsked'
<1> DEFINE n == run'.pc
<1>1. /\ Len(Plan) \in Nat /\ run.pc \in 1 .. Len(Plan) /\ DOMAIN Plan = 1 .. Len(Plan)
      /\ AfterGroup \in run.pc + 1 .. Len(Plan) + 1
      /\ AfterGroup <= Len(Plan) => Plan[AfterGroup].group # Plan[AfterGroup - 1].group
  BY NowIs, AfterGroupIs DEF Working
<1>2. Plan' = Plan /\ exit' = "running" /\ n \in Nat
  BY DEF Plan, Onward, Process
<1>3. ASSUME n \in DOMAIN Plan, n - 1 \in DOMAIN Plan, Plan[n].group = Plan[n - 1].group
      PROVE  ok /\ n = run.pc + 1
  BY <1>1, <1>3 DEF Onward
<1>4. WritesInPlace'
  BY DEF Onward, WritesInPlace
<1>5. FedIsWhole'
  <2> SUFFICES ASSUME n <= Len(Plan), Feeds(Plan, n - 1)
               PROVE  Whole(Then(Plan[n].from[1]))
    BY <1>2 DEF FedIsWhole, Then, Holds, Exists, Now
  <2>1. (n - 1) + 1 = n
    BY <1>2
  <2>2. /\ n \in DOMAIN Plan /\ n - 1 \in DOMAIN Plan /\ Plan[n].group = Plan[n - 1].group
        /\ Plan[n - 1].to = Plan[n].from
    BY <2>1 DEF Feeds
  <2>3. ok /\ n = run.pc + 1
    BY <1>3, <2>2
  <2>4. n - 1 = run.pc
    BY <1>1, <2>3
  <2> QED BY <2>2, <2>3, <2>4 DEF Now
<1>6. HeldIsAsked'
  <2> SUFFICES ASSUME KeepsAll(Plan)
               PROVE  run'.held = IF AfterHold(Plan, n) THEN First(Plan[n - 1].of) ELSE <<>>
    BY <1>2 DEF HeldIsAsked, Onward
  <2>1. ASSUME AfterHold(Plan, n)
        PROVE  ok /\ n = run.pc + 1 /\ Now.op = "hold" /\ Plan[n - 1] = Now
    <3>1. n - 1 \in DOMAIN Plan /\ n \in DOMAIN Plan /\ Plan[n - 1].op = "hold"
      BY <2>1 DEF AfterHold
    <3>2. Keeps(Plan, n - 1) /\ (n - 1) + 1 = n
      BY <1>2, <3>1 DEF KeepsAll
    <3>3. Plan[n].group = Plan[n - 1].group
      BY <3>2 DEF Keeps
    <3>4. ok /\ n = run.pc + 1 /\ n - 1 = run.pc
      BY <1>1, <1>3, <3>1, <3>3
    <3> QED BY <3>1, <3>4 DEF Now
  <2>2. ASSUME ok, n = run.pc + 1, Now.op = "hold"
        PROVE  AfterHold(Plan, n)
    <3>1. run.pc \in DOMAIN Plan /\ Plan[run.pc].op = "hold" /\ n - 1 = run.pc
      BY <1>1, <2>2 DEF Now
    <3>2. Keeps(Plan, run.pc)
      BY <3>1 DEF KeepsAll
    <3>3. n \in DOMAIN Plan
      BY <2>2, <3>2 DEF Keeps
    <3> QED BY <3>1, <3>3 DEF AfterHold
  <2> QED BY <2>1, <2>2
<1> QED BY <1>4, <1>5, <1>6

\* the plan goes on after a step that asks for nothing and feeds nothing
LEMMA LeavingKeeps ==
    ASSUME Typed, HeldIsAsked, Working, UNCHANGED <<script, order>>, NEW ok \in BOOLEAN, Onward(ok),
           run'.held = run.held, ~(ok /\ Feeds(Plan, run.pc)),
           ~(ok /\ Now.op = "hold" /\ KeepsAll(Plan)),
           run.busy \/ Now.op # "save" \/ Now.unless # <<>>
    PROVE  WritesInPlace' /\ FedIsWhole' /\ HeldIsAsked'
<1>1. KeepsAll(Plan) => run.held = <<>>
  BY NothingHeld
<1>2. KeepsAll(Plan) =>
        run'.held = IF ok /\ run'.pc = run.pc + 1 /\ Now.op = "hold" THEN First(Now.of) ELSE <<>>
  BY <1>1
<1> QED BY <1>2, OnwardKeeps

LEMMA BusyKeeps ==
    ASSUME Typed, Working, UNCHANGED <<script, order, exit>>, run'.pc = run.pc,
           Now.op \in {"fetch", "extract", "derive", "save"},
           run'.todo \in Seq(WriteTo(Own(Now))), KeepsAll(Plan) => run'.held = <<>>,
           run'.busy,
           Brings(Now) => Writing(Partial(Now.to[1]), Now.of, run'.todo, Then(Partial(Now.to[1]))),
           Feeds(Plan, run.pc) => \E d \in Dataset : Writing(Now.to[1], d, run'.todo, Then(Now.to[1]))
    PROVE  WritesInPlace' /\ FedIsWhole' /\ HeldIsAsked'
<1>1. Plan' = Plan /\ Now' = Now
  BY DEF Plan, Now
<1>2. WritesInPlace'
  BY <1>1 DEF WritesInPlace, Working, Then, Holds, Exists
<1>3. FedIsWhole'
  <2>1. ~Feeds(Plan, run.pc - 1)
    <3>1. (run.pc - 1) + 1 = run.pc
      BY NowIs DEF Working
    <3> QED BY <3>1 DEF Feeds, Now
  <2> QED BY <1>1, <2>1 DEF FedIsWhole
<1>4. HeldIsAsked'
  BY <1>1 DEF HeldIsAsked
<1> QED BY <1>2, <1>3, <1>4

\* the process asks for the same step again
LEMMA StayKeeps ==
    ASSUME Typed, HeldIsAsked, Working, UNCHANGED <<script, order, exit>>, run'.pc = run.pc,
           Now.op \in {"fetch", "extract", "derive"}, ~run'.busy, run'.held = run.held
    PROVE  WritesInPlace' /\ FedIsWhole' /\ HeldIsAsked'
<1>1. Plan' = Plan /\ Now' = Now /\ (run.pc - 1) + 1 = run.pc
  BY NowIs DEF Plan, Now, Working
<1>2. WritesInPlace'
  BY DEF WritesInPlace
<1>3. FedIsWhole'
  <2>1. ~Feeds(Plan, run.pc - 1)
    BY <1>1 DEF Feeds, Now
  <2> QED BY <1>1, <2>1 DEF FedIsWhole
<1>4. HeldIsAsked'
  <2> SUFFICES ASSUME KeepsAll(Plan)
               PROVE  run'.held = IF AfterHold(Plan, run.pc) THEN First(Plan[run.pc - 1].of) ELSE <<>>
    BY <1>1 DEF HeldIsAsked
  <2>1. run.held = <<>>
    BY NothingHeld
  <2>2. ~AfterHold(Plan, run.pc)
    <3> SUFFICES ASSUME AfterHold(Plan, run.pc)
                 PROVE  FALSE
      OBVIOUS
    <3>1. Keeps(Plan, run.pc - 1)
      BY DEF AfterHold, KeepsAll
    <3> QED BY <1>1, <3>1 DEF Keeps, Now
  <2> QED BY <2>1, <2>2
<1> QED BY <1>2, <1>3, <1>4

-----------------------------------------------------------------------------
(* What soundness says of the files a step writes. *)

LEMMA OwnIs ==
    ASSUME Typed, Working
    PROVE  /\ Own(Now) \subseteq AnyFile
           /\ Seq(WriteTo(Own(Now))) \subseteq Seq(WriteTo(AnyFile))
           /\ ToSet(Now.to) \subseteq Name /\ Now.to \in Seq(ToSet(Now.to)) /\ ToSet(Now.to) \subseteq Own(Now)
           /\ Now.op # "hold" =>
                /\ Now.to # <<>> /\ Now.to[1] \in Name
                /\ Now.to[1] \in Own(Now) /\ Partial(Now.to[1]) \in Own(Now)
           /\ Now.op \in {"fetch", "hold"} => Now.of \in Dataset
<1>1. Now \in PlanStep
  BY NowIs DEF Working
<1>2. /\ ToSet(Now.to) \subseteq Name /\ Now.to \in Seq(Name)
      /\ Now.op # "hold" => Now.to # <<>> /\ Now.to[1] \in Name /\ Now.to[1] \in ToSet(Now.to)
      /\ Now.op \in {"fetch", "hold"} => Now.of \in Dataset
  BY <1>1, StepIs
<1>3. Own(Now) \subseteq AnyFile
  BY <1>2 DEF Own, AnyFile
<1>4. WriteTo(Own(Now)) \subseteq WriteTo(AnyFile)
  BY <1>3 DEF WriteTo
<1>5. Now.to \in Seq(ToSet(Now.to))
  <2> DEFINE t == Now.to
  <2> HIDE DEF t
  <2>1. t \in Seq(Name) => t \in Seq(ToSet(t))
    BY DEF ToSet
  <2> QED BY <1>2, <2>1 DEF t
<1>6. Seq(WriteTo(Own(Now))) \subseteq Seq(WriteTo(AnyFile))
  <2> DEFINE A == WriteTo(Own(Now))
             B == WriteTo(AnyFile)
  <2> HIDE DEF A, B
  <2>1. A \subseteq B => Seq(A) \subseteq Seq(B)
    OBVIOUS
  <2> QED BY <1>4, <2>1 DEF A, B
<1> QED BY <1>2, <1>3, <1>5, <1>6 DEF Own

LEMMA Untouched ==
    ASSUME Typed, Working, Sound(script), ~Brings(Now), Now.op \notin {"move", "mark"}
    PROVE  \A f \in Own(Now) :
             /\ f \notin Vouching(script)
             /\ \A s \in Steps(script) : Brings(s) => f # Partial(s.to[1])
<1>1. /\ Plan \in PlansOf(script) /\ run.pc \in DOMAIN Plan /\ (run.pc - 1) + 1 = run.pc
  BY NowIs DEF Working
<1>2. ~Feeds(Plan, run.pc - 1)
  BY <1>1 DEF Feeds, Now
<1>3. ToSet(Now.to) \cap Vouching(script) = {}
  BY <1>1, <1>2 DEF Sound, Now
<1>4. ToSet(Now.to) \subseteq Name
  BY OwnIs
<1>5. /\ Vouching(script) \subseteq Name
      /\ \A s \in Steps(script) : Brings(s) => s.to[1] \in Vouching(script) /\ s.to[1] \in Name
  BY VouchingAreNames DEF Typed
<1>6. ASSUME NEW f \in ToSet(Now.to)
      PROVE  /\ f \notin Vouching(script)
             /\ \A s \in Steps(script) : Brings(s) => f # Partial(s.to[1])
  BY <1>3, <1>4, <1>5, <1>6, PartialApart
<1>7. ASSUME NEW g \in ToSet(Now.to)
      PROVE  /\ Partial(g) \notin Vouching(script)
             /\ \A s \in Steps(script) : Brings(s) => Partial(g) # Partial(s.to[1])
  BY <1>3, <1>4, <1>5, <1>7, PartialApart
<1> QED BY <1>6, <1>7 DEF Own

LEMMA Bringing ==
    ASSUME Typed, Working, Sound(script), Brings(Now)
    PROVE  /\ Now.to[1] \in Vouching(script) /\ Now.of \in Dataset /\ Now.op = "fetch"
           /\ Partial(Now.to[1]) \notin Vouching(script)
           /\ \A s \in Steps(script) : Brings(s) =>
                /\ Now.to[1] # Partial(s.to[1])
                /\ Partial(s.to[1]) = Partial(Now.to[1]) => s.of = Now.of
           /\ ~Feeds(Plan, run.pc)
<1>1. Now \in Steps(script)
  BY NowIs DEF Working
<1>2. /\ Vouching(script) \subseteq Name
      /\ \A s \in Steps(script) : Brings(s) =>
           s.to[1] \in Vouching(script) /\ s.to[1] \in Name /\ s.to = <<s.to[1]>> /\ s.of \in Dataset
  BY VouchingAreNames DEF Typed
<1>3. Now.to[1] \in Vouching(script) /\ Now.to[1] \in Name /\ Now.to = <<Now.to[1]>> /\ Now.of \in Dataset
  BY <1>1, <1>2
<1>4. Partial(Now.to[1]) \notin Vouching(script)
  BY <1>2, <1>3, PartialApart
<1>5. ASSUME NEW s \in Steps(script), Brings(s)
      PROVE  /\ Now.to[1] # Partial(s.to[1])
             /\ Partial(s.to[1]) = Partial(Now.to[1]) => s.of = Now.of
  <2>1. Now.to[1] # Partial(s.to[1])
    BY <1>2, <1>3, <1>5, PartialApart
  <2>2. ASSUME Partial(s.to[1]) = Partial(Now.to[1])
        PROVE  s.of = Now.of
    <3>1. s.to[1] = Now.to[1]
      BY <1>2, <1>3, <1>5, <2>2, PartialApart
    <3>2. s.to = Now.to
      BY <1>2, <1>3, <1>5, <3>1
    <3> QED BY <1>1, <1>5, <3>2 DEF Sound
  <2> QED BY <2>1, <2>2
<1>6. Now.op = "fetch"
  BY DEF Brings
<1>7. ~Feeds(Plan, run.pc)
  BY <1>6 DEF Feeds, Now
<1> QED BY <1>3, <1>4, <1>5, <1>6, <1>7

LEMMA TypedKeeps ==
    ASSUME Typed, exit = "running", UNCHANGED <<script, order>>, run' \in Process,
           \A f \in DOMAIN disk' : disk'[f] \in Seq(PartOf)
    PROVE  Typed'
BY DEF Typed, Ordered

LEMMA SparedKeeps ==
    ASSUME Typed, VouchedWhole, PartialsBegin, script' = script, \A f : Spares(f)
    PROVE  /\ VouchedWhole' /\ PartialsBegin'
           /\ \A f \in DOMAIN disk' : disk'[f] \in Seq(PartOf)
<1>1. VouchedWhole' /\ PartialsBegin'
  BY DiskKeeps
<1>2. \A f \in DOMAIN disk' : disk'[f] \in Seq(PartOf)
  BY DEF Spares, Typed
<1> QED BY <1>1, <1>2

LEMMA ElsewhereKeeps ==
    ASSUME Typed, Working, Sound(script), VouchedWhole, PartialsBegin, script' = script,
           ~Brings(Now), Now.op \notin {"move", "mark"}, \A f : f \in Own(Now) \/ Spares(f)
    PROVE  VouchedWhole' /\ PartialsBegin'
<1>1. \A f \in Vouching(script) : Spares(f)
  BY Untouched
<1>2. \A s \in Steps(script) : Brings(s) => Spares(Partial(s.to[1]))
  BY Untouched
<1> QED BY <1>1, <1>2, DiskKeeps

\* a partial file that is whole gets its name
LEMMA RenameKeeps ==
    ASSUME Typed, Working, Sound(script), VouchedWhole, PartialsBegin, script' = script, Brings(Now),
           Exists(Partial(Now.to[1])), disk[Partial(Now.to[1])] = First(Now.of),
           disk' = Renamed(Partial(Now.to[1]), Now.to[1])
    PROVE  VouchedWhole' /\ PartialsBegin'
<1> DEFINE f == Now.to[1]
           P == Partial(f)
<1>1. /\ DOMAIN disk' = (DOMAIN disk \ {P}) \cup {f}
      /\ \A h \in DOMAIN disk' : disk'[h] = IF h = f THEN disk[P] ELSE disk[h]
  BY DEF Renamed
<1>2. Whole(disk'[f])
  <2>1. disk'[f] = First(Now.of) /\ Now.of \in Dataset
    BY <1>1, Bringing
  <2> QED BY <2>1 DEF Whole
<1>3. ASSUME NEW g, g # f
      PROVE  Spares(g)
  BY <1>1, <1>3 DEF Spares
<1>4. \A s \in Steps(script) : Brings(s) => Partial(s.to[1]) # f
  BY Bringing
<1> HIDE DEF f, P
<1>5. \A g \in Vouching(script) : Spares(g) \/ Whole(disk'[g])
  BY <1>2, <1>3
<1>6. \A s \in Steps(script) : Brings(s) => Spares(Partial(s.to[1]))
  BY <1>3, <1>4
<1> QED BY <1>5, <1>6, DiskKeeps

-----------------------------------------------------------------------------
(* The actions. *)

LEMMA BeginKeeps ==
    ASSUME Good, Begin, Ordered'
    PROVE  Good'
<1>1. run' = Fresh /\ exit' = "running" /\ script' = script /\ disk' = disk
  BY DEF Begin
<1>2. /\ Plan' \in PlansOf(script) /\ 0 \notin DOMAIN Plan'
  <2>1. Plan' \in PlansOf(script)
    BY <1>1 DEF Ordered, Plan, PlansOf
  <2>2. Plan' \in Seq(PlanStep)
    BY <2>1, StepsAre DEF Good, Typed
  <2> QED BY <2>1, <2>2
<1>3. Typed'
  BY <1>1, FreshIs DEF Good, Typed
<1>4. VouchedWhole' /\ PartialsBegin'
  BY <1>1, SparedKeeps DEF Good, Spares
<1>5. run'.pc = 1 /\ run'.busy = FALSE /\ run'.held = <<>> /\ 1 - 1 = 0
  BY <1>1 DEF Fresh
<1>6. WritesInPlace' /\ FedIsWhole' /\ HeldIsAsked'
  BY <1>2, <1>5 DEF WritesInPlace, FedIsWhole, HeldIsAsked, Feeds, AfterHold
<1> QED BY <1>3, <1>4, <1>6 DEF Good

LEMMA StartKeeps ==
    ASSUME Good, NEW asked \in DOMAIN PlanOf[script], NEW skip \in BOOLEAN, Start(asked, skip)
    PROVE  Good'
<1>1. Begin /\ Ordered'
  BY DEF Start, Begin, Ordered
<1> QED BY <1>1, BeginKeeps

LEMMA AgainKeeps ==
    ASSUME Good, Again
    PROVE  Good'
<1>1. Begin /\ Ordered'
  BY DEF Again, Begin, Ordered, Good, Typed
<1> QED BY <1>1, BeginKeeps

LEMMA EndKeeps ==
    ASSUME Good, exit = "running", exit' # "running", run' \in Process, \A f : Spares(f),
           UNCHANGED <<script, order>>
    PROVE  Good'
<1>1. VouchedWhole' /\ PartialsBegin' /\ \A f \in DOMAIN disk' : disk'[f] \in Seq(PartOf)
  BY SparedKeeps DEF Good
<1>2. Typed'
  BY <1>1, TypedKeeps DEF Good
<1> QED BY <1>1, <1>2, StoppedKeeps DEF Good

LEMMA SkipKeeps ==
    ASSUME Good, Skip
    PROVE  Good'
<1>1. /\ Working /\ ~run.busy /\ Now.unless # <<>> /\ disk' = disk /\ run'.held = run.held
      /\ Onward(Now.skips = "step") /\ UNCHANGED <<script, order>> /\ exit' = exit
  BY SkipIs DEF Good, Skip, Fine, Quiet
<1>2. VouchedWhole' /\ PartialsBegin' /\ \A f \in DOMAIN disk' : disk'[f] \in Seq(PartOf)
  BY <1>1, SparedKeeps DEF Good, Spares
<1>3. Typed'
  BY <1>1, <1>2, TypedKeeps DEF Good, Onward, Working
<1>4. ~Feeds(Plan, run.pc)
  BY <1>1 DEF Feeds, Now
<1>5. ~(Now.skips = "step" /\ Now.op = "hold" /\ KeepsAll(Plan))
  <2> SUFFICES ASSUME Now.skips = "step", Now.op = "hold", KeepsAll(Plan)
               PROVE  FALSE
    OBVIOUS
  <2>1. run.pc \in DOMAIN Plan
    BY <1>1, NowIs DEF Good, Working
  <2>2. Keeps(Plan, run.pc)
    BY <2>1 DEF KeepsAll, Now
  <2> QED BY <1>1, <2>2 DEF Keeps, Now
<1>6. (Now.skips = "step") \in BOOLEAN
  OBVIOUS
<1>7. WritesInPlace' /\ FedIsWhole' /\ HeldIsAsked'
  BY <1>1, <1>4, <1>5, <1>6, LeavingKeeps DEF Good
<1> QED BY <1>2, <1>3, <1>7 DEF Good

LEMMA AnswerIs ==
    ASSUME Typed, Working, server = 1, Now.op = "hold", Now.of \in Dataset
    PROVE  Answer \in Seq(PartOf)
<1> DEFINE all == First(Now.of)
<1>1. all \in Seq(PartOf) /\ Len(all) \in Nat \ {0}
  BY FirstIs, SizeAssumption
<1>2. Part(Now.of, 1, 1) \in PartOf
  BY DEF Part, PartOf
<1>3. Now.how \in {"", "list", "details"}
  <2>1. Now.how \in Ways["hold"]
    BY NowIs, StepIs DEF Working
  <2> QED BY <2>1 DEF Ways
<1>4. Content(Now.of, server) = all
  BY DEF First
<1> HIDE DEF all
<1>5. Tail(all) \in Seq(PartOf) /\ <<>> \in Seq(PartOf) /\ <<Part(Now.of, 1, 1)>> \in Seq(PartOf)
  BY <1>1, <1>2
<1> QED BY <1>1, <1>3, <1>4, <1>5 DEF Answer

LEMMA AskKeeps ==
    ASSUME Good, server = 1, Ask
    PROVE  Good'
<1>1. /\ Working /\ ~run.busy /\ Now.op = "hold" /\ disk' = disk /\ exit' = exit
      /\ UNCHANGED <<script, order>>
      /\ run' = [Next1(run) EXCEPT !.held = run.held \o Answer]
  BY DEF Ask, Ready, At, Working, Fine, Quiet, Next1
<1>2. Now.of \in Dataset
  BY <1>1, OwnIs DEF Good
<1> DEFINE q == Next1(run)
<1>3. /\ q \in Process /\ ~q.busy /\ q.held = run.held
      /\ q.pc = IF Now.ends THEN Len(Plan) + 1 ELSE run.pc + 1
  BY <1>1, Next1Is DEF Good, Typed
<1>4. run.held \o Answer \in Seq(PartOf)
  <2>1. run.held \in Seq(PartOf) /\ First(Now.of) \in Seq(PartOf)
    BY <1>2, FirstIs DEF Good, Typed, Process
  <2>2. Answer \in Seq(PartOf)
    BY <1>1, <1>2, AnswerIs DEF Good
  <2> QED BY <2>1, <2>2
<1> HIDE DEF q
<1>5. run' = [q EXCEPT !.held = run.held \o Answer]
  BY <1>1 DEF q
<1>6. /\ run' \in Process /\ ~run'.busy /\ run'.held = run.held \o Answer
      /\ run'.pc = IF Now.ends THEN Len(Plan) + 1 ELSE run.pc + 1
  BY <1>3, <1>4, <1>5 DEF Process
<1>7. Onward(TRUE)
  BY <1>1, <1>6 DEF Onward, Working
<1>8. VouchedWhole' /\ PartialsBegin' /\ \A f \in DOMAIN disk' : disk'[f] \in Seq(PartOf)
  BY <1>1, SparedKeeps DEF Good, Spares
<1>9. Typed'
  BY <1>1, <1>6, <1>8, TypedKeeps DEF Good, Working
<1>10. ~Feeds(Plan, run.pc)
  BY <1>1 DEF Feeds, Now
<1>11. ASSUME KeepsAll(Plan)
       PROVE  run'.held = IF TRUE /\ run'.pc = run.pc + 1 /\ Now.op = "hold" THEN First(Now.of) ELSE <<>>
  <2>1. run.held = <<>>
    BY <1>1, <1>11, NothingHeld DEF Good
  <2>2. <<>> \o First(Now.of) = First(Now.of)
    <3>1. First(Now.of) \in Seq(PartOf)
      BY <1>2, FirstIs
    <3> QED BY <3>1
  <2>3. run'.pc = run.pc + 1 /\ Answer = First(Now.of)
    <3>1. run.pc \in DOMAIN Plan /\ Len(Plan) \in Nat /\ DOMAIN Plan = 1 .. Len(Plan)
      BY <1>1, NowIs DEF Good, Working
    <3>2. Keeps(Plan, run.pc)
      BY <1>1, <1>11, <3>1 DEF KeepsAll, Now
    <3>3. ~Now.ends /\ Now.how = ""
      BY <3>2 DEF Keeps, Now
    <3> QED BY <1>6, <3>3 DEF Answer, First
  <2> QED BY <1>1, <1>6, <2>1, <2>2, <2>3
<1>12. WritesInPlace' /\ FedIsWhole' /\ HeldIsAsked'
  BY <1>1, <1>7, <1>10, <1>11, OnwardKeeps DEF Good
<1> QED BY <1>8, <1>9, <1>12 DEF Good

\* A step that begins to write, in files of its own.
LEMMA BeginsToWrite ==
    ASSUME Good, Working, UNCHANGED <<script, order, exit, disk>>, run' \in Process, run'.pc = run.pc,
           Now.op \in {"fetch", "extract", "derive", "save"}, run'.busy,
           run'.todo \in Seq(WriteTo(Own(Now))), KeepsAll(Plan) => run'.held = <<>>,
           Brings(Now) =>
               Writing(Partial(Now.to[1]), Now.of, run'.todo, Holds(Partial(Now.to[1]))),
           Feeds(Plan, run.pc) => \E d \in Dataset : Writing(Now.to[1], d, run'.todo, Holds(Now.to[1]))
    PROVE  Good'
<1>1. VouchedWhole' /\ PartialsBegin' /\ \A f \in DOMAIN disk' : disk'[f] \in Seq(PartOf)
  BY SparedKeeps DEF Good, Spares
<1>2. Typed'
  BY <1>1, TypedKeeps DEF Good, Working
<1>3. \A f : Then(f) = Holds(f)
  BY DEF Then, Holds, Exists
<1>4. Brings(Now) => Writing(Partial(Now.to[1]), Now.of, run'.todo, Then(Partial(Now.to[1])))
  BY <1>3
<1>5. Feeds(Plan, run.pc) => \E d \in Dataset : Writing(Now.to[1], d, run'.todo, Then(Now.to[1]))
  BY <1>3
<1>6. WritesInPlace' /\ FedIsWhole' /\ HeldIsAsked'
  BY <1>4, <1>5, BusyKeeps DEF Good
<1> QED BY <1>1, <1>2, <1>6 DEF Good

LEMMA SpreadInPlace ==
    ASSUME Typed, Working, NEW content \in Seq(PartOf)
    PROVE  /\ Spread(Now.to, content) \in Seq(WriteTo(Own(Now)))
           /\ Spread(Now.to, content) \in Seq(WriteTo(AnyFile))
<1>1. /\ Now.to \in Seq(ToSet(Now.to)) /\ ToSet(Now.to) \subseteq Own(Now)
      /\ Seq(WriteTo(Own(Now))) \subseteq Seq(WriteTo(AnyFile))
  BY OwnIs
<1>2. Now.to \in Seq(Own(Now))
  <2> DEFINE t == Now.to
             A == ToSet(Now.to)
             B == Own(Now)
  <2> HIDE DEF t, A, B
  <2>1. t \in Seq(A) /\ A \subseteq B => t \in Seq(B)
    OBVIOUS
  <2> QED BY <1>1, <2>1 DEF t, A, B
<1> QED BY <1>1, <1>2, SpreadIs

LEMMA StoreKeeps ==
    ASSUME Good, Sound(script), Store
    PROVE  Good'
<1>1. /\ Working /\ ~run.busy /\ Now.op = "save" /\ UNCHANGED <<script, order, exit, disk>>
      /\ run' = [run EXCEPT !.busy = TRUE, !.todo = Spread(Now.to, run.held), !.held = <<>>]
  BY DEF Store, Ready, At, Working, Fine, Quiet
<1>3. run.held \in Seq(PartOf)
  BY DEF Good, Typed, Process
<1> DEFINE writes == Spread(Now.to, run.held)
<1>5. writes \in Seq(WriteTo(AnyFile)) /\ writes \in Seq(WriteTo(Own(Now)))
  BY <1>1, <1>3, SpreadInPlace DEF Good
<1> HIDE DEF writes
<1>6. /\ run' \in Process /\ run'.pc = run.pc /\ run'.busy /\ run'.todo = writes /\ run'.held = <<>>
  <2>1. run' = [run EXCEPT !.busy = TRUE, !.todo = writes, !.held = <<>>]
    BY <1>1 DEF writes
  <2> QED BY <1>5, <2>1, EmptySeqs DEF Good, Typed, Process
<1>7. ~Brings(Now)
  BY <1>1 DEF Brings
<1>8. ASSUME Feeds(Plan, run.pc)
      PROVE  \E d \in Dataset : Writing(Now.to[1], d, writes, Holds(Now.to[1]))
  <2>1. /\ Plan \in PlansOf(script) /\ run.pc \in DOMAIN Plan /\ DOMAIN Plan = 1 .. Len(Plan)
        /\ Plan \in Seq(PlanStep)
    BY <1>1, NowIs DEF Good, Working
  <2>2. Now.to \in Seq(Name) /\ Len(Now.to) = 1 /\ AfterHold(Plan, run.pc)
    <3>1. Now \in PlanStep
      BY <1>1, NowIs DEF Good, Working
    <3>2. Now.to \in Seq(Name)
      BY <3>1, StepIs
    <3>3. Len(Now.to) = 1
      BY <1>8 DEF Feeds, Now
    <3>4. run.pc - 1 \in DOMAIN Plan /\ Plan[run.pc - 1].op = "hold"
      BY <1>1, <1>8 DEF Feeds, Now
    <3> QED BY <2>1, <3>2, <3>3, <3>4 DEF AfterHold
  <2>3. Plan[run.pc - 1] \in PlanStep /\ Plan[run.pc - 1].op = "hold"
    BY <2>1, <2>2 DEF AfterHold
  <2>4. Plan[run.pc - 1].of \in Dataset
    BY <2>3, StepIs
  <2>5. run.held = First(Plan[run.pc - 1].of)
    <3>1. KeepsAll(Plan)
      BY <1>1, <1>8, <2>1 DEF Sound, KeepsAll, Now
    <3> QED BY <1>1, <2>2, <3>1 DEF Good, HeldIsAsked, Working
  <2>6. Now.to = <<Now.to[1]>>
    BY <2>2
  <2>7. writes = <<Open(Now.to[1])>> \o Adds(Now.to[1], First(Plan[run.pc - 1].of))
    BY <2>5, <2>6, SpreadOne DEF writes
  <2> QED BY <2>4, <2>7 DEF Writing
<1> QED BY <1>1, <1>5, <1>6, <1>7, <1>8, BeginsToWrite

\* While the publisher has the first version, no file is of two.
LEMMA OneVersion ==
    ASSUME Typed, NEW f
    PROVE  ~Joined(Holds(f))
<1>1. Holds(f) \in Seq(PartOf)
  BY EmptySeqs DEF Typed, Holds, Exists
<1>2. \A i \in DOMAIN Holds(f) : Holds(f)[i] \in PartOf
  BY <1>1
<1> QED BY <1>2 DEF Joined, PartOf

LEMMA SpoilKeeps ==
    ASSUME Good, Spoil
    PROVE  Good'
BY OneVersion DEF Good, Spoil, Corrupt

LEMMA UnpackKeeps ==
    ASSUME Good, Sound(script), server = 1, Unpack
    PROVE  Good'
<1>1. /\ Working /\ ~run.busy /\ Now.op = "extract" /\ UNCHANGED <<script, order>>
  BY DEF Unpack, Ready, At, Working, Fine, Quiet
<1>2. ~Brings(Now)
  BY <1>1 DEF Brings
<1>3. CASE Intact(Holds(Now.from[1]))
  <2> DEFINE c == Holds(Now.from[1])
             writes == Spread(Now.to, c)
  <2>1. PICK d \in Dataset : c = First(d)
    BY <1>3 DEF Intact, First
  <2>2. c \in Seq(PartOf)
    BY <2>1, FirstIs
  <2>3. Busy(writes) /\ UNCHANGED <<disk, exit>>
    BY <1>3 DEF Unpack
  <2> HIDE DEF c
  <2>6. writes \in Seq(WriteTo(Own(Now))) /\ writes \in Seq(WriteTo(AnyFile))
    BY <1>1, <2>2, SpreadInPlace DEF Good
  <2>7. Feeds(Plan, run.pc) => Writing(Now.to[1], d, writes, Holds(Now.to[1]))
    <3> SUFFICES ASSUME Feeds(Plan, run.pc)
                 PROVE  Writing(Now.to[1], d, writes, Holds(Now.to[1]))
      OBVIOUS
    <3>1. Now.to \in Seq(Name) /\ Len(Now.to) = 1
      BY <1>1, NowIs, StepIs DEF Good, Working, Feeds, Now
    <3>2. Now.to = <<Now.to[1]>>
      BY <3>1
    <3> QED BY <2>1, <3>2, SpreadOne DEF Writing
  <2> HIDE DEF writes
  <2>8. /\ run' \in Process /\ run'.pc = run.pc /\ run'.busy /\ run'.todo = writes
        /\ run'.held = run.held
    BY <2>3, <2>6, BusyIs DEF Good
  <2>9. KeepsAll(Plan) => run'.held = <<>>
    BY <1>1, <2>8, NothingHeld DEF Good
  <2> QED BY <1>1, <1>2, <2>3, <2>6, <2>7, <2>8, <2>9, BeginsToWrite
<1>4. ~Joined(Holds(Now.from[1]))
  BY OneVersion DEF Good
<1>5. CASE ~Intact(Holds(Now.from[1]))
  <2>1. BadArchive
    BY <1>4, <1>5 DEF Unpack
  <2>2. CASE Now.how = "raise"
    <3>1. run' = Fresh /\ exit' = "failed" /\ disk' = disk
      BY <2>1, <2>2 DEF BadArchive
    <3> QED BY <1>1, <3>1, EndKeeps, FreshIs DEF Spares, Working
  <2>3. CASE Now.how # "raise"
    <3>1. disk' = Without(Now.from[1])
      BY <2>1, <2>3 DEF BadArchive
    <3>2. \A f : Spares(f)
      BY <3>1 DEF Spares, Without
    <3>3. VouchedWhole' /\ PartialsBegin' /\ \A f \in DOMAIN disk' : disk'[f] \in Seq(PartOf)
      BY <1>1, <3>2, SparedKeeps DEF Good
    <3>4. ASSUME NEW ok \in BOOLEAN, Onward(ok), run'.held = run.held, ~(ok /\ Feeds(Plan, run.pc))
          PROVE  Good'
      <4>1. Typed'
        BY <1>1, <3>3, <3>4, TypedKeeps DEF Good, Onward, Working
      <4>2. WritesInPlace' /\ FedIsWhole' /\ HeldIsAsked'
        BY <1>1, <3>4, LeavingKeeps DEF Good
      <4> QED BY <3>3, <4>1, <4>2 DEF Good
    <3>5. ASSUME GiveUp, Now.how # "glob"
          PROVE  Good'
      <4>1. CASE Onward(Now.orElse = "go on") /\ run'.held = run.held
        <5>1. ~(Now.orElse = "go on" /\ Feeds(Plan, run.pc))
          BY <1>1 DEF Feeds, Now
        <5>2. (Now.orElse = "go on") \in BOOLEAN
          OBVIOUS
        <5> QED BY <3>4, <4>1, <5>1, <5>2
      <4>2. CASE exit' = "failed" /\ run' \in Process
        BY <1>1, <3>2, <4>2, EndKeeps DEF Working
      <4> QED BY <1>1, <3>5, <4>1, <4>2, GiveUpIs DEF Good
    <3>6. CASE Now.how = "glob"
      <4> DEFINE found == {f \in ToSet(Now.to) : Exists(f)}
      <4>1. ~Feeds(Plan, run.pc)
        BY <1>1, <3>6 DEF Feeds, Now
      <4>2. CASE found # {}
        <5> DEFINE q == Next1(run)
        <5>1. q \in Process /\ ~q.busy /\ q.held = run.held
              /\ q.pc = IF Now.ends THEN Len(Plan) + 1 ELSE run.pc + 1
          BY <1>1, Next1Is DEF Good, Typed
        <5>2. q.got \cup found \in SUBSET Name
          <6>1. found \subseteq Name
            BY <1>1, OwnIs DEF Good
          <6> HIDE DEF q, found
          <6> QED BY <5>1, <6>1 DEF Process
        <5>3. run' = [q EXCEPT !.got = q.got \cup found] /\ exit' = exit
          BY <2>1, <2>3, <3>6, <4>2 DEF BadArchive
        <5> HIDE DEF q, found
        <5>4. run' \in Process /\ ~run'.busy /\ run'.held = run.held
              /\ run'.pc = IF Now.ends THEN Len(Plan) + 1 ELSE run.pc + 1
          BY <5>1, <5>2, <5>3 DEF Process
        <5>5. Onward(TRUE)
          BY <1>1, <5>3, <5>4 DEF Onward, Working
        <5> QED BY <3>4, <4>1, <5>4, <5>5
      <4>3. CASE found = {}
        <5>1. GiveUp
          BY <2>1, <2>3, <3>6, <4>3 DEF BadArchive
        <5>2. CASE Onward(Now.orElse = "go on") /\ run'.held = run.held
          <6>1. (Now.orElse = "go on") \in BOOLEAN
            OBVIOUS
          <6> QED BY <3>4, <4>1, <5>2, <6>1
        <5>3. CASE exit' = "failed" /\ run' \in Process
          BY <1>1, <3>2, <5>3, EndKeeps DEF Working
        <5> QED BY <1>1, <5>1, <5>2, <5>3, GiveUpIs DEF Good
      <4> QED BY <4>2, <4>3
    <3>7. CASE Now.how # "glob"
      BY <2>1, <2>3, <3>5, <3>7 DEF BadArchive
    <3> QED BY <3>6, <3>7
  <2> QED BY <2>2, <2>3
<1> QED BY <1>3, <1>4, <1>5

LEMMA MissingIs ==
    ASSUME NEW f, server = 1, Now.of \in Dataset
    PROVE  Missing(f) \in Seq(PartOf)
<1> DEFINE c == First(Now.of)
           K == {k \in DOMAIN c : \A i \in DOMAIN Holds(Partial(f)) : Holds(Partial(f))[i].part # c[k].part}
           ss == [k \in DOMAIN c |-> IF k \in K THEN <<c[k]>> ELSE <<>>]
<1>1. c \in Seq(PartOf)
  BY FirstIs
<1>2. Missing(f) = FlattenSeq(ss)
  BY DEF Missing, Only, First
<1> HIDE DEF c, K
<1>3. ss \in Seq(Seq(PartOf))
  <2>1. \A k \in 1 .. Len(c) : c[k] \in PartOf
    BY <1>1
  <2>2. \A k \in 1 .. Len(c) : <<c[k]>> \in Seq(PartOf) /\ <<>> \in Seq(PartOf)
    BY <2>1
  <2>3. \A k \in 1 .. Len(c) : (IF k \in K THEN <<c[k]>> ELSE <<>>) \in Seq(PartOf)
    BY <2>2
  <2>4. DOMAIN c = 1 .. Len(c) /\ Len(c) \in Nat
    BY <1>1
  <2> QED BY <2>3, <2>4
<1> HIDE DEF ss
<1> QED BY <1>2, <1>3, FlattenType

LEMMA RequestKeeps ==
    ASSUME Good, Sound(script), script \notin Compressed, server = 1, Request
    PROVE  Good'
<1> DEFINE f == Now.to[1]
           all == First(Now.of)
<1>1. /\ Working /\ ~run.busy /\ Now.op = "fetch" /\ UNCHANGED <<script, order>>
  BY DEF Request, Ready, At, Working, Fine, Quiet
<1>2. /\ Now.of \in Dataset /\ f \in Name /\ f \in Own(Now) /\ Partial(f) \in Own(Now)
      /\ Seq(WriteTo(Own(Now))) \subseteq Seq(WriteTo(AnyFile))
  BY <1>1, OwnIs DEF Good
<1>3. all \in Seq(PartOf) /\ Len(all) = Size[1] /\ Size[1] \in Nat /\ Size[1] >= 1
  BY <1>2, FirstIs
<1>4. ~Feeds(Plan, run.pc)
  BY <1>1 DEF Feeds, Now
<1>5. Content(Now.of, server) = all
  BY DEF First
<1> HIDE DEF f, all
<1>6. ASSUME NEW writes, writes \in Seq(WriteTo(Own(Now))), Busy(writes), disk' = disk, exit' = exit,
             Brings(Now) => Writing(Partial(f), Now.of, writes, Holds(Partial(f)))
      PROVE  Good'
  <2>0. writes \in Seq(WriteTo(AnyFile))
    BY <1>2, <1>6
  <2>1. /\ run' \in Process /\ run'.pc = run.pc /\ run'.busy /\ run'.todo = writes
        /\ run'.held = run.held
    BY <1>6, <2>0, BusyIs DEF Good
  <2>2. KeepsAll(Plan) => run'.held = <<>>
    BY <1>1, <2>1, NothingHeld DEF Good
  <2> QED BY <1>1, <1>4, <1>6, <2>1, <2>2, BeginsToWrite DEF f
<1>7. ASSUME NEW F, F \in Own(Now)
      PROVE  /\ Spread(<<F>>, all) \in Seq(WriteTo(Own(Now)))
             /\ Writing(F, Now.of, Spread(<<F>>, all), Holds(F))
  <2>1. <<F>> \in Seq(Own(Now))
    BY <1>7
  <2>2. Spread(<<F>>, all) = <<Open(F)>> \o Adds(F, all)
    BY SpreadOne
  <2> QED BY <1>3, <2>1, <2>2, SpreadIs DEF Writing, all
<1>8. CASE Now.how = "resume"
  <2>0. Brings(Now)
    BY <1>1, <1>8 DEF Brings
  <2>1. Resume(f) /\ ~Miscounted(f)
    BY <1>8 DEF Request, f, Miscounted
  <2> DEFINE P == Partial(f)
             there == Holds(P)
  <2>2. PICK k \in 0 .. Size[1] : there = SubSeq(all, 1, k) /\ Len(there) = k
    <3>1. CASE Exists(P)
      <4>1. Beginning(disk[P], Now.of)
        BY <1>1, <2>0, <3>1, NowIs DEF Good, PartialsBegin, Working, f
      <4>2. there = disk[P]
        BY <3>1 DEF Holds
      <4> HIDE DEF P, there
      <4>3. PICK k \in 0 .. Size[1] : there = SubSeq(all, 1, k)
        BY <4>1, <4>2 DEF Beginning, all
      <4>4. Len(there) = k
        BY <1>3, <4>3, Cut
      <4> QED BY <4>3, <4>4
    <3>2. CASE ~Exists(P)
      <4>1. there = <<>>
        BY <3>2 DEF Holds
      <4>2. SubSeq(all, 1, 0) = <<>> /\ 0 \in 0 .. Size[1] /\ 0 \in 0 .. Len(all)
        BY <1>3, Cut
      <4> HIDE DEF P, there
      <4>3. Len(there) = 0
        BY <4>1
      <4> QED BY <4>1, <4>2, <4>3
    <3> QED BY <3>1, <3>2
  <2>3. Ranged(f) = k
    BY <2>2 DEF Ranged
  <2>4. CASE TooFar(f)
    <3>1. Done /\ disk' = Renamed(P, f)
      BY <2>1, <2>4 DEF Resume
    <3>2. k = Size[1] /\ k > 0
      BY <1>3, <2>2, <2>3, <2>4 DEF TooFar
    <3>3. Exists(P) /\ disk[P] = all
      <4>1. there = all
        BY <1>3, <2>2, <3>2, Cut
      <4>2. Exists(P)
        <5>1. CASE ~Exists(P)
          <6>1. there = <<>>
            BY <5>1 DEF Holds
          <6> HIDE DEF there
          <6>2. Len(there) = 0
            BY <6>1
          <6> QED BY <2>2, <3>2, <6>2
        <5> QED BY <5>1
      <4> QED BY <4>1, <4>2 DEF Holds
    <3>4. VouchedWhole' /\ PartialsBegin'
      BY <1>1, <2>0, <3>1, <3>3, RenameKeeps DEF Good, f, all
    <3>5. \A g \in DOMAIN disk' : disk'[g] \in Seq(PartOf)
      BY <3>1, <3>3 DEF Renamed, Good, Typed, Exists
    <3>6. Onward(TRUE) /\ run'.held = run.held
      BY <1>1, <3>1, DoneIs DEF Good
    <3>7. Typed'
      BY <1>1, <3>5, <3>6, TypedKeeps DEF Good, Onward, Working
    <3>8. WritesInPlace' /\ FedIsWhole' /\ HeldIsAsked'
      BY <1>1, <1>4, <3>6, LeavingKeeps DEF Good
    <3> QED BY <3>4, <3>7, <3>8 DEF Good
  <2>5. ASSUME ~TooFar(f), Busy(Restarted(f)), disk' = disk, exit' = exit
        PROVE  Good'
    <3>1. Restarted(f) = Spread(<<P>>, all)
      BY <1>5 DEF Restarted
    <3> HIDE DEF P, there
    <3>2. P \in Own(Now)
      BY <1>2 DEF P
    <3>3. Spread(<<P>>, all) \in Seq(WriteTo(Own(Now))) /\ Writing(P, Now.of, Spread(<<P>>, all), Holds(P))
      BY <1>7, <3>2
    <3> QED BY <1>6, <2>5, <3>1, <3>3 DEF P
  <2>6. ASSUME ~TooFar(f), Busy(Continued(f)), disk' = disk, exit' = exit
        PROVE  Good'
    <3>1. CASE k = 0
      <4>1. Continued(f) = Restarted(f)
        BY <2>3, <3>1 DEF Continued, Restarted
      <4> QED BY <2>5, <2>6, <4>1
    <3>2. CASE k # 0
      <4> DEFINE rest == SubSeq(all, k + 1, Size[1])
      <4>1. Continued(f) = Adds(P, rest)
        BY <1>5, <2>3, <3>2 DEF Continued
      <4>2. rest \in Seq(PartOf)
        BY <1>3, <2>2, Cut
      <4> HIDE DEF rest
      <4>3. Adds(P, rest) \in Seq(WriteTo(Own(Now)))
        BY <1>2, <4>2, AddsAre
      <4>4. Writing(P, Now.of, Adds(P, rest), there)
        BY <2>2 DEF Writing, rest, all
      <4> QED BY <1>6, <2>6, <4>1, <4>3, <4>4
    <3> QED BY <3>1, <3>2
  <2> QED BY <2>1, <2>4, <2>5, <2>6 DEF Resume
<1>9. CASE Now.how # "resume"
  <2> DEFINE writes == CASE Now.how = "direct" -> Spread(<<f>>, all)
                         [] Now.how = "append" -> Adds(f, all)
                         [] Now.how = "attempts" -> Spread(<<Partial(f)>>, all)
                         [] Now.how = "collect" -> Adds(Partial(f), Missing(f))
  <2>1. Busy(writes) /\ disk' = disk /\ exit' = exit
    BY <1>5, <1>9 DEF Request, f
  <2>2. Now.how \in {"direct", "append", "attempts", "collect"}
    <3>1. Now.how \in Ways[Now.op]
      BY <1>1, NowIs, StepIs DEF Good, Working
    <3> QED BY <1>1, <1>9, <3>1 DEF Ways
  <2>3. CASE Now.how = "direct"
    <3>1. writes = Spread(<<f>>, all)
      BY <2>3
    <3>2. ~Brings(Now)
      BY <2>3 DEF Brings
    <3>3. Spread(<<f>>, all) \in Seq(WriteTo(Own(Now)))
      BY <1>2, <1>7
    <3> QED BY <1>6, <2>1, <3>1, <3>2, <3>3
  <2>4. CASE Now.how = "append"
    <3>1. writes = Adds(f, all)
      BY <2>4
    <3>2. ~Brings(Now)
      BY <2>4 DEF Brings
    <3>3. Adds(f, all) \in Seq(WriteTo(Own(Now)))
      BY <1>2, <1>3, AddsAre
    <3> QED BY <1>6, <2>1, <3>1, <3>2, <3>3
  <2>5. CASE Now.how = "attempts"
    <3>1. writes = Spread(<<Partial(f)>>, all)
      BY <2>5
    <3> DEFINE P == Partial(f)
    <3>2. P \in Own(Now)
      BY <1>2
    <3> HIDE DEF P
    <3>3. Spread(<<P>>, all) \in Seq(WriteTo(Own(Now))) /\ Writing(P, Now.of, Spread(<<P>>, all), Holds(P))
      BY <1>7, <3>2
    <3> QED BY <1>6, <2>1, <3>1, <3>3 DEF P
  <2>6. CASE Now.how = "collect"
    <3>1. writes = Adds(Partial(f), Missing(f))
      BY <2>6
    <3>2. ~Brings(Now)
      BY <2>6 DEF Brings
    <3>3. Adds(Partial(f), Missing(f)) \in Seq(WriteTo(Own(Now)))
      <4>1. Missing(f) \in Seq(PartOf)
        BY <1>2, MissingIs
      <4> QED BY <1>2, <4>1, AddsAre
    <3> QED BY <1>6, <2>1, <3>1, <3>2, <3>3
  <2> QED BY <2>2, <2>3, <2>4, <2>5, <2>6
<1> QED BY <1>8, <1>9

LEMMA FilterIs ==
    ASSUME NEW c \in Seq(Name), NEW K
    PROVE  FlattenSeq([k \in DOMAIN c |-> IF k \in K THEN <<c[k]>> ELSE <<>>]) \in Seq(Name)
<1> DEFINE ss == [k \in DOMAIN c |-> IF k \in K THEN <<c[k]>> ELSE <<>>]
<1>1. ss \in Seq(Seq(Name))
  <2>1. \A k \in 1 .. Len(c) : c[k] \in Name
    OBVIOUS
  <2>2. \A k \in 1 .. Len(c) : <<c[k]>> \in Seq(Name) /\ <<>> \in Seq(Name)
    BY <2>1
  <2>3. \A k \in 1 .. Len(c) : (IF k \in K THEN <<c[k]>> ELSE <<>>) \in Seq(Name)
    BY <2>2
  <2>4. DOMAIN c = 1 .. Len(c) /\ Len(c) \in Nat
    OBVIOUS
  <2> QED BY <2>3, <2>4
<1> HIDE DEF ss
<1>2. FlattenSeq(ss) \in Seq(Name)
  BY <1>1, FlattenType
<1> QED BY <1>2 DEF ss

LEMMA ReadableIs ==
    ASSUME Typed, Working
    PROVE  Readable \in Seq(Name)
<1> DEFINE c == Now.from
           K == {k \in DOMAIN c : IF Now.how = "listed" THEN c[k] \in run.got ELSE Exists(c[k])}
<1>1. c \in Seq(Name)
  BY NowIs, StepIs DEF Working
<1>2. Readable = FlattenSeq([k \in DOMAIN c |-> IF k \in K THEN <<c[k]>> ELSE <<>>])
  BY DEF Readable, Only
<1> HIDE DEF c, K
<1> QED BY <1>1, <1>2, FilterIs

LEMMA ChosenIs ==
    ASSUME Typed, Working, NEW files \in Chosen
    PROVE  files \in Seq(Name)
<1>1. Readable \in Seq(Name)
  BY ReadableIs
<1>2. files \in Seq(Name)
  <2> DEFINE r == Readable
  <2>1. files = r \/ \E f \in ToSet(r) : files = <<f>>
    BY DEF Chosen
  <2>2. r \in Seq(Name)
    BY <1>1
  <2> HIDE DEF r
  <2>3. \A f \in ToSet(r) : <<f>> \in Seq(Name)
    BY <2>2 DEF ToSet
  <2> QED BY <2>1, <2>2, <2>3
<1> QED BY <1>2

LEMMA ReadIs ==
    ASSUME Typed, Working, NEW chosen \in Chosen, NEW files \in Read(chosen)
    PROVE  Concat(files) \in Seq(PartOf)
<1>1. PICK bad : files = AllBut(chosen, bad)
  BY DEF Read
<1> DEFINE K == {k \in DOMAIN chosen : chosen[k] \notin bad}
<1>2. files = FlattenSeq([k \in DOMAIN chosen |-> IF k \in K THEN <<chosen[k]>> ELSE <<>>])
  BY <1>1 DEF AllBut, Only
<1>3. chosen \in Seq(Name)
  BY ChosenIs
<1> HIDE DEF K
<1>4. files \in Seq(Name)
  BY <1>2, <1>3, FilterIs
<1> QED BY <1>4, ConcatIs DEF Typed

LEMMA ConvertKeeps ==
    ASSUME Good, Convert
    PROVE  Good'
<1>1. /\ Working /\ ~run.busy /\ Now.op = "derive" /\ UNCHANGED <<script, order, disk>>
  BY DEF Convert, Ready, At, Working, Fine, Quiet
<1>2. ~Brings(Now) /\ ~Feeds(Plan, run.pc)
  BY <1>1 DEF Brings, Feeds, Now
<1>3. CASE GiveUp
  <2>1. \A f : Spares(f)
    BY <1>1 DEF Spares
  <2>2. VouchedWhole' /\ PartialsBegin' /\ \A f \in DOMAIN disk' : disk'[f] \in Seq(PartOf)
    BY <1>1, <2>1, SparedKeeps DEF Good
  <2>3. CASE Onward(Now.orElse = "go on") /\ run'.held = run.held
    <3>1. (Now.orElse = "go on") \in BOOLEAN
      OBVIOUS
    <3>2. Typed'
      BY <1>1, <2>2, <2>3, TypedKeeps DEF Good, Onward, Working
    <3>3. WritesInPlace' /\ FedIsWhole' /\ HeldIsAsked'
      BY <1>1, <1>2, <2>3, <3>1, LeavingKeeps DEF Good
    <3> QED BY <2>2, <3>2, <3>3 DEF Good
  <2>4. CASE exit' = "failed" /\ run' \in Process
    BY <1>1, <2>1, <2>4, EndKeeps DEF Working
  <2> QED BY <1>1, <1>3, <2>3, <2>4, GiveUpIs DEF Good
<1>4. ASSUME NEW chosen \in Chosen, NEW files \in Read(chosen),
             Busy(Spread(Now.to, Concat(files))), exit' = exit
      PROVE  Good'
  <2> DEFINE writes == Spread(Now.to, Concat(files))
  <2>1. Concat(files) \in Seq(PartOf)
    BY <1>1, ReadIs DEF Good
  <2>2. writes \in Seq(WriteTo(Own(Now))) /\ writes \in Seq(WriteTo(AnyFile))
    BY <1>1, <2>1, SpreadInPlace DEF Good
  <2>3. Busy(writes)
    BY <1>4
  <2> HIDE DEF writes
  <2>4. /\ run' \in Process /\ run'.pc = run.pc /\ run'.busy /\ run'.todo = writes
        /\ run'.held = run.held
    BY <2>2, <2>3, BusyIs DEF Good
  <2>5. KeepsAll(Plan) => run'.held = <<>>
    BY <1>1, <2>4, NothingHeld DEF Good
  <2> QED BY <1>1, <1>2, <1>4, <2>2, <2>4, <2>5, BeginsToWrite
<1> QED BY <1>3, <1>4 DEF Convert

LEMMA WriteKeeps ==
    ASSUME Good, Sound(script), Write, Working
    PROVE  Good'
<1> DEFINE w == Head(run.todo)
           content == IF w.open THEN <<>> ELSE Holds(w.to) \o w.add
<1>1. /\ run.busy /\ run.todo # <<>> /\ UNCHANGED <<script, order, exit>>
      /\ disk' = Put(w.to, content) /\ run' = [run EXCEPT !.todo = Tail(run.todo)]
  BY DEF Write, Fine, Quiet
<1>2. /\ Now.op \in {"fetch", "extract", "derive", "save"}
      /\ run.todo \in Seq(WriteTo(Own(Now)))
      /\ Brings(Now) => Writing(Partial(Now.to[1]), Now.of, run.todo, Holds(Partial(Now.to[1])))
      /\ Feeds(Plan, run.pc) => \E d \in Dataset : Writing(Now.to[1], d, run.todo, Holds(Now.to[1]))
  BY <1>1 DEF Good, WritesInPlace, Working
<1>3. w \in WriteTo(Own(Now)) /\ Tail(run.todo) \in Seq(WriteTo(Own(Now)))
  BY <1>1, <1>2
<1>4. w.to \in Own(Now) /\ w.add \in Seq(PartOf)
  BY <1>3 DEF WriteTo
<1>5. content \in Seq(PartOf)
  <2>1. Holds(w.to) \in Seq(PartOf)
    BY DEF Holds, Exists, Good, Typed
  <2> HIDE DEF w
  <2> QED BY <1>4, <2>1
<1> HIDE DEF w, content
<1>6. DOMAIN disk' = DOMAIN disk \cup {w.to} /\ disk'[w.to] = content
      /\ \A g \in DOMAIN disk : g # w.to => disk'[g] = disk[g]
  BY <1>1 DEF Put
<1>7. \A g \in DOMAIN disk' : disk'[g] \in Seq(PartOf)
  BY <1>5, <1>6 DEF Good, Typed
<1>8. \A g : g # w.to => Spares(g) /\ Then(g) = Holds(g)
  BY <1>6 DEF Spares, Then, Holds, Exists
<1>9. Then(w.to) = content
  BY <1>6 DEF Then
<1>10. /\ run' \in Process /\ run'.pc = run.pc /\ run'.busy /\ run'.todo = Tail(run.todo)
       /\ run'.held = run.held
  <2>1. Tail(run.todo) \in Seq(WriteTo(AnyFile))
    BY <1>3, OwnIs DEF Good
  <2> QED BY <1>1, <2>1 DEF Good, Typed, Process
<1>11. Typed'
  BY <1>1, <1>7, <1>10, TypedKeeps DEF Good, Working
<1>12. KeepsAll(Plan) => run'.held = <<>>
  BY <1>1, <1>10, NothingHeld DEF Good
<1>13. CASE Brings(Now)
  <2> DEFINE P == Partial(Now.to[1])
  <2>1. Now.of \in Dataset /\ ~Feeds(Plan, run.pc)
    BY <1>13, Bringing DEF Good
  <2>2. Writing(P, Now.of, run.todo, Holds(P))
    BY <1>2, <1>13
  <2> HIDE DEF P
  <2>3. LET v == Head(run.todo)
            next == IF v.open THEN <<>> ELSE Holds(P) \o v.add
        IN  v.to = P /\ Beginning(next, Now.of) /\ Writing(P, Now.of, Tail(run.todo), next)
    BY <1>1, <2>1, <2>2, WritingStep
  <2>4. w.to = P /\ Beginning(content, Now.of) /\ Writing(P, Now.of, Tail(run.todo), content)
    BY <2>3 DEF w, content
  <2>5. VouchedWhole' /\ PartialsBegin'
    <3>1. \A f \in Vouching(script) : Spares(f)
      BY <1>8, <1>13, <2>4, Bringing DEF Good, P
    <3>2. ASSUME NEW s \in Steps(script), Brings(s)
          PROVE  Spares(Partial(s.to[1])) \/ Beginning(disk'[Partial(s.to[1])], s.of)
      <4>1. CASE Partial(s.to[1]) = P
        <5>1. s.of = Now.of
          BY <1>13, <3>2, <4>1, Bringing DEF Good, P
        <5> QED BY <1>6, <2>4, <4>1, <5>1
      <4>2. CASE Partial(s.to[1]) # P
        BY <1>8, <2>4, <4>2
      <4> QED BY <4>1, <4>2
    <3> QED BY <1>1, <3>1, <3>2, DiskKeeps DEF Good
  <2>6. Writing(P, Now.of, run'.todo, Then(P))
    BY <1>9, <1>10, <2>4
  <2>7. WritesInPlace' /\ FedIsWhole' /\ HeldIsAsked'
    BY <1>1, <1>2, <1>3, <1>10, <1>12, <2>1, <2>6, BusyKeeps DEF Good, P
  <2> QED BY <1>11, <2>5, <2>7 DEF Good
<1>14. CASE ~Brings(Now)
  <2>1. VouchedWhole' /\ PartialsBegin'
    BY <1>1, <1>2, <1>4, <1>8, <1>14, ElsewhereKeeps DEF Good
  <2>2. ASSUME Feeds(Plan, run.pc)
        PROVE  \E d \in Dataset : Writing(Now.to[1], d, run'.todo, Then(Now.to[1]))
    <3> DEFINE F == Now.to[1]
    <3>1. PICK d \in Dataset : Writing(F, d, run.todo, Holds(F))
      BY <1>2, <2>2
    <3> HIDE DEF F
    <3>2. LET v == Head(run.todo)
              next == IF v.open THEN <<>> ELSE Holds(F) \o v.add
          IN  v.to = F /\ Beginning(next, d) /\ Writing(F, d, Tail(run.todo), next)
      BY <1>1, <3>1, WritingStep
    <3>3. w.to = F /\ Writing(F, d, Tail(run.todo), content)
      BY <3>2 DEF w, content
    <3> QED BY <1>9, <1>10, <3>3 DEF F
  <2>3. WritesInPlace' /\ FedIsWhole' /\ HeldIsAsked'
    BY <1>1, <1>2, <1>3, <1>10, <1>12, <1>14, <2>2, BusyKeeps DEF Good
  <2> QED BY <1>11, <2>1, <2>3 DEF Good
<1> QED BY <1>13, <1>14

LEMMA CloseKeeps ==
    ASSUME Good, Sound(script), Close, Working
    PROVE  Good'
<1> DEFINE f == Now.to[1]
           P == Partial(f)
           q == Next1(run)
<1>1. /\ run.busy /\ run.todo = <<>> /\ UNCHANGED <<script, order, exit>>
      /\ disk' = IF Now.how \in {"resume", "attempts", "collect"} /\ Ranged(f) > 0
                 THEN Renamed(P, f) ELSE disk
      /\ run' = [q EXCEPT !.got = IF Now.op = "extract" THEN q.got \cup ToSet(Now.to) ELSE q.got]
  BY DEF Close, Fine, Quiet
<1>2. /\ Now.op \in {"fetch", "extract", "derive", "save"}
      /\ Brings(Now) => Writing(P, Now.of, <<>>, Holds(P))
      /\ Feeds(Plan, run.pc) => \E d \in Dataset : Writing(f, d, <<>>, Holds(f))
  BY <1>1 DEF Good, WritesInPlace, Working
<1>3. f \in Own(Now) /\ P \in Own(Now) /\ ToSet(Now.to) \subseteq Name
  BY <1>2, OwnIs DEF Good
<1>4. /\ q \in Process /\ ~q.busy /\ q.held = run.held
      /\ q.pc = IF Now.ends THEN Len(Plan) + 1 ELSE run.pc + 1
  BY Next1Is DEF Good, Typed
<1> HIDE DEF f, P, q
<1>5. /\ run' \in Process /\ ~run'.busy /\ run'.held = run.held
      /\ run'.pc = IF Now.ends THEN Len(Plan) + 1 ELSE run.pc + 1
  <2> DEFINE got == IF Now.op = "extract" THEN q.got \cup ToSet(Now.to) ELSE q.got
  <2>1. got \in SUBSET Name
    <3>1. q.got \in SUBSET Name
      BY <1>4 DEF Process
    <3> QED BY <1>3, <3>1
  <2>2. run' = [q EXCEPT !.got = got]
    BY <1>1
  <2> HIDE DEF got
  <2> QED BY <1>4, <2>1, <2>2 DEF Process
<1>6. Onward(TRUE)
  BY <1>1, <1>5 DEF Onward, Working
<1>7. \A g \in DOMAIN disk' : disk'[g] \in Seq(PartOf)
  <2>1. ASSUME Ranged(f) > 0
        PROVE  Exists(P)
    <3>1. CASE ~Exists(P)
      <4>1. Ranged(f) = 0
        BY <3>1 DEF Ranged, Holds, P
      <4> QED BY <2>1, <4>1
    <3> QED BY <3>1
  <2>2. CASE disk' = disk
    BY <2>2 DEF Good, Typed
  <2>3. CASE disk' = Renamed(P, f) /\ Ranged(f) > 0
    BY <2>1, <2>3 DEF Renamed, Good, Typed, Exists
  <2> QED BY <1>1, <2>2, <2>3
<1>8. Typed'
  BY <1>1, <1>5, <1>7, TypedKeeps DEF Good, Working
<1>9. \A g : g # f => Spares(g)
  <2>1. CASE disk' = disk
    BY <2>1 DEF Spares
  <2>2. CASE disk' = Renamed(P, f)
    BY <2>2 DEF Spares, Renamed
  <2> QED BY <1>1, <2>1, <2>2
<1>10. VouchedWhole' /\ PartialsBegin'
  <2>1. CASE Brings(Now)
    <3>1. Now.of \in Dataset
      BY <2>1, Bringing DEF Good
    <3>2. Holds(P) = First(Now.of)
      BY <1>2, <2>1, <3>1, WritingEnds
    <3>3. Holds(P) # <<>> /\ Len(Holds(P)) > 0
      <4>1. First(Now.of) # <<>> /\ Len(First(Now.of)) = Size[1] /\ Size[1] \in Nat /\ Size[1] >= 1
        BY <3>1, FirstIs
      <4> QED BY <3>2, <4>1
    <3>4. Exists(P) /\ disk[P] = First(Now.of)
      BY <3>2, <3>3 DEF Holds
    <3>5. Now.how \in {"resume", "attempts"} /\ Ranged(f) > 0
      BY <2>1, <3>3 DEF Brings, Ranged, P
    <3>6. disk' = Renamed(P, f)
      BY <1>1, <3>5
    <3> QED BY <1>1, <2>1, <3>4, <3>6, RenameKeeps DEF Good, P, f
  <2>2. CASE ~Brings(Now)
    BY <1>1, <1>2, <1>3, <1>9, <2>2, ElsewhereKeeps DEF Good
  <2> QED BY <2>1, <2>2
<1>11. ASSUME Feeds(Plan, run.pc)
       PROVE  Whole(Then(f))
  <2>1. PICK d \in Dataset : Writing(f, d, <<>>, Holds(f))
    BY <1>2, <1>11
  <2>2. Holds(f) = First(d)
    BY <2>1, WritingEnds
  <2>3. Now.op \in {"extract", "save"}
    BY <1>11 DEF Feeds, Now
  <2>4. Now \in PlanStep
    BY NowIs DEF Good, Working
  <2>5. Now.how \notin {"resume", "attempts", "collect"}
    BY <2>3, <2>4, FetchHow
  <2>6. disk' = disk
    BY <1>1, <2>5
  <2>7. Then(f) = Holds(f)
    BY <2>6 DEF Then, Holds, Exists
  <2> QED BY <2>2, <2>7 DEF Whole
<1>12. KeepsAll(Plan) => run'.held = <<>>
  BY <1>1, <1>5, NothingHeld DEF Good
<1>13. Now.op # "hold"
  BY <1>2
<1>14. WritesInPlace' /\ FedIsWhole' /\ HeldIsAsked'
  BY <1>1, <1>6, <1>11, <1>12, <1>13, OnwardKeeps DEF Good, f
<1> QED BY <1>8, <1>10, <1>14 DEF Good

\* a step that is over and changes nothing of what it leaves on the disk
LEMMA OverKeeps ==
    ASSUME Good, Working, UNCHANGED <<script, order>>, NEW ok \in BOOLEAN, Onward(ok),
           run'.held = run.held, ~(ok /\ Feeds(Plan, run.pc)), ~(ok /\ Now.op = "hold" /\ KeepsAll(Plan)),
           run.busy \/ Now.op # "save" \/ Now.unless # <<>>, \A f : Spares(f)
    PROVE  Good'
<1>1. VouchedWhole' /\ PartialsBegin' /\ \A f \in DOMAIN disk' : disk'[f] \in Seq(PartOf)
  BY SparedKeeps DEF Good
<1>2. Typed'
  BY <1>1, TypedKeeps DEF Good, Onward, Working
<1>3. WritesInPlace' /\ FedIsWhole' /\ HeldIsAsked'
  BY LeavingKeeps DEF Good
<1> QED BY <1>1, <1>2, <1>3 DEF Good

\* a file gets a name, or a marker is set
LEMMA NamedKeeps ==
    ASSUME Good, Sound(script), Working, UNCHANGED <<script, order>>, Done,
           Now.op \in {"move", "mark"}, \A f : f # Now.to[1] => Spares(f),
           Now.to[1] \in Vouching(script) => Whole(disk'[Now.to[1]]),
           \A f \in DOMAIN disk' : disk'[f] \in Seq(PartOf)
    PROVE  Good'
<1>1. Onward(TRUE) /\ run'.held = run.held
  BY DoneIs DEF Good
<1>2. Now.to[1] \in Name
  BY OwnIs DEF Good
<1>3. \A s \in Steps(script) : Brings(s) => Partial(s.to[1]) # Now.to[1]
  BY <1>2, VouchingAreNames, PartialApart DEF Good, Typed
<1>4. \A f \in Vouching(script) : Spares(f) \/ Whole(disk'[f])
  OBVIOUS
<1>5. \A s \in Steps(script) : Brings(s) => Spares(Partial(s.to[1]))
  BY <1>3
<1>6. VouchedWhole' /\ PartialsBegin'
  BY <1>4, <1>5, DiskKeeps DEF Good
<1>7. Typed'
  BY <1>1, TypedKeeps DEF Good, Onward, Working
<1>8. ~Feeds(Plan, run.pc)
  BY DEF Feeds, Now
<1>9. WritesInPlace' /\ FedIsWhole' /\ HeldIsAsked'
  BY <1>1, <1>8, LeavingKeeps DEF Good
<1> QED BY <1>6, <1>7, <1>9 DEF Good

LEMMA MoveKeeps ==
    ASSUME Good, Sound(script), MoveFile
    PROVE  Good'
<1> DEFINE g == Now.from[1]
           f == Now.to[1]
<1>1. /\ Working /\ Now.op = "move" /\ UNCHANGED <<script, order>> /\ Done
      /\ disk' = Renamed(g, f)
  BY DEF MoveFile, Ready, At, Working, Fine, Quiet
<1>2. Feeds(Plan, run.pc - 1)
  BY <1>1, NowIs DEF Good, Sound, Working, Now
<1>3. Whole(Holds(g))
  BY <1>1, <1>2 DEF Good, FedIsWhole, Working
<1>4. Exists(g) /\ Whole(disk[g])
  <2>1. PICK d \in Dataset : Holds(g) = First(d)
    BY <1>3 DEF Whole
  <2>2. Holds(g) # <<>>
    BY <2>1, FirstIs
  <2> QED BY <1>3, <2>2 DEF Holds
<1> HIDE DEF f, g
<1>5. /\ DOMAIN disk' = (DOMAIN disk \ {g}) \cup {f} /\ disk'[f] = disk[g]
      /\ \A h \in DOMAIN disk' : h # f => disk'[h] = disk[h]
  BY <1>1 DEF Renamed
<1>6. \A h : h # f => Spares(h)
  BY <1>5 DEF Spares
<1>7. \A h \in DOMAIN disk' : disk'[h] \in Seq(PartOf)
  BY <1>4, <1>5 DEF Good, Typed, Exists
<1>8. Whole(disk'[f])
  BY <1>4, <1>5
<1> QED BY <1>1, <1>6, <1>7, <1>8, NamedKeeps DEF f

LEMMA MarkKeeps ==
    ASSUME Good, Sound(script), MarkDone
    PROVE  Good'
<1> DEFINE g == Now.from[1]
           f == Now.to[1]
<1>1. /\ Working /\ Now.op = "mark" /\ UNCHANGED <<script, order>> /\ Done
      /\ disk' = Put(f, Holds(g))
  BY DEF MarkDone, Ready, At, Working, Fine, Quiet
<1>2. f \in Vouching(script) => Whole(Holds(g))
  <2> SUFFICES ASSUME f \in Vouching(script)
               PROVE  Whole(Holds(g))
    OBVIOUS
  <2>1. ~Brings(Now)
    BY <1>1 DEF Brings
  <2>2. f \in ToSet(Now.to)
    BY <1>1, NowIs, StepIs DEF Good, Working
  <2>3. Feeds(Plan, run.pc - 1)
    BY <1>1, <2>1, <2>2, NowIs DEF Good, Sound, Working, Now
  <2> QED BY <1>1, <2>3 DEF Good, FedIsWhole, Working
<1>3. Holds(g) \in Seq(PartOf)
  BY DEF Holds, Exists, Good, Typed
<1> HIDE DEF f, g
<1>4. /\ DOMAIN disk' = DOMAIN disk \cup {f} /\ disk'[f] = Holds(g)
      /\ \A h \in DOMAIN disk : h # f => disk'[h] = disk[h]
  BY <1>1 DEF Put
<1>5. \A h : h # f => Spares(h)
  BY <1>4 DEF Spares
<1>6. \A h \in DOMAIN disk' : disk'[h] \in Seq(PartOf)
  BY <1>3, <1>4 DEF Good, Typed
<1>7. f \in Vouching(script) => Whole(disk'[f])
  BY <1>2, <1>4
<1> QED BY <1>1, <1>5, <1>6, <1>7, NamedKeeps DEF f

LEMMA UnlinkKeeps ==
    ASSUME Good, UnlinkFile
    PROVE  Good'
<1>1. /\ Working /\ Now.op = "unlink" /\ UNCHANGED <<script, order>> /\ Done
      /\ disk' = Without(Now.to[1])
  BY DEF UnlinkFile, Ready, At, Working, Fine, Quiet
<1>2. \A f : Spares(f)
  BY <1>1 DEF Spares, Without
<1>3. Onward(TRUE) /\ run'.held = run.held
  BY <1>1, DoneIs DEF Good
<1>4. ~Feeds(Plan, run.pc)
  BY <1>1 DEF Feeds, Now
<1> QED BY <1>1, <1>2, <1>3, <1>4, OverKeeps

LEMMA FailKeeps ==
    ASSUME Good, Fail
    PROVE  Good'
<1>1. /\ Working /\ Now.op \in {"fetch", "hold"} /\ UNCHANGED <<script, order, disk>>
      /\ run.busy => run.todo # <<>>
  BY DEF Fail, Working, Quiet
<1>2. \A f : Spares(f)
  BY <1>1 DEF Spares
<1>3. VouchedWhole' /\ PartialsBegin' /\ \A f \in DOMAIN disk' : disk'[f] \in Seq(PartOf)
  BY <1>1, <1>2, SparedKeeps DEF Good
<1>4. ~Feeds(Plan, run.pc)
  BY <1>1 DEF Feeds, Now
<1>5. Now \in PlanStep
  BY <1>1, NowIs DEF Good, Working
<1>6. CASE Now.how = "attempts" /\ run.tries < MaxAttempts
  <2>1. exit' = exit /\ run' = [run EXCEPT !.tries = run.tries + 1, !.busy = FALSE, !.todo = <<>>]
    BY <1>6 DEF Fail
  <2>2. Now.op = "fetch"
    BY <1>5, <1>6, FetchHow
  <2>3. /\ run' \in Process /\ run'.pc = run.pc /\ ~run'.busy /\ run'.held = run.held
    <3>1. run.tries + 1 \in Nat
      BY DEF Good, Typed, Process
    <3> DEFINE tries == run.tries + 1
    <3>2. run' = [run EXCEPT !.tries = tries, !.busy = FALSE, !.todo = <<>>]
      BY <2>1
    <3> HIDE DEF tries
    <3>3. tries \in Nat
      BY <3>1 DEF tries
    <3> QED BY <3>2, <3>3, EmptySeqs DEF Good, Typed, Process
  <2>4. WritesInPlace' /\ FedIsWhole' /\ HeldIsAsked'
    BY <1>1, <2>1, <2>2, <2>3, StayKeeps DEF Good
  <2>5. Typed'
    BY <1>1, <1>3, <2>3, TypedKeeps DEF Good, Working
  <2> QED BY <1>3, <2>4, <2>5 DEF Good
<1>7. CASE Now.how = "collect" /\ run.busy
  <2>1. exit' = exit /\ run' = [run EXCEPT !.todo = Tail(run.todo)]
    BY <1>7 DEF Fail
  <2>2. Now.op = "fetch" /\ ~Brings(Now)
    BY <1>5, <1>7, FetchHow DEF Brings
  <2>3. Tail(run.todo) \in Seq(WriteTo(Own(Now))) /\ Tail(run.todo) \in Seq(WriteTo(AnyFile))
    <3>1. run.todo \in Seq(WriteTo(Own(Now))) /\ run.todo # <<>>
      BY <1>1, <1>7 DEF Good, WritesInPlace, Working
    <3>2. Tail(run.todo) \in Seq(WriteTo(Own(Now)))
      BY <3>1
    <3> QED BY <1>1, <3>2, OwnIs DEF Good
  <2>4. /\ run' \in Process /\ run'.pc = run.pc /\ run'.busy /\ run'.held = run.held
        /\ run'.todo = Tail(run.todo)
    BY <1>7, <2>1, <2>3 DEF Good, Typed, Process
  <2>5. KeepsAll(Plan) => run'.held = <<>>
    BY <1>1, <2>4, <1>7, NothingHeld DEF Good
  <2> QED BY <1>1, <1>4, <2>1, <2>2, <2>3, <2>4, <2>5, BeginsToWrite
<1>8. CASE /\ ~(Now.how = "attempts" /\ run.tries < MaxAttempts)
           /\ ~(Now.how = "collect" /\ run.busy)
  <2>1. GiveUp
    BY <1>8 DEF Fail
  <2>2. CASE Onward(Now.orElse = "go on") /\ run'.held = run.held
    <3>1. (Now.orElse = "go on") \in BOOLEAN
      OBVIOUS
    <3>2. ~(Now.orElse = "go on" /\ Now.op = "hold" /\ KeepsAll(Plan))
      <4> SUFFICES ASSUME Now.orElse = "go on", Now.op = "hold", KeepsAll(Plan)
                   PROVE  FALSE
        OBVIOUS
      <4>1. run.pc \in DOMAIN Plan
        BY <1>1, NowIs DEF Good, Working
      <4>2. Keeps(Plan, run.pc)
        BY <4>1 DEF KeepsAll, Now
      <4> QED BY <4>2 DEF Keeps, Now
    <3> QED BY <1>1, <1>2, <1>4, <2>2, <3>1, <3>2, OverKeeps
  <2>3. CASE exit' = "failed" /\ run' \in Process
    BY <1>1, <1>2, <2>3, EndKeeps DEF Working
  <2> QED BY <1>1, <2>1, <2>2, <2>3, GiveUpIs DEF Good
<1> QED BY <1>6, <1>7, <1>8

LEMMA EndingKeeps ==
    ASSUME Good, Exit \/ Kill
    PROVE  Good'
<1>1. /\ exit = "running" /\ exit' # "running" /\ run' = Fresh
      /\ UNCHANGED <<script, order, disk>>
  <2>1. CASE Exit
    BY <2>1 DEF Exit
  <2>2. CASE Kill
    BY <2>2 DEF Kill
  <2> QED BY <2>1, <2>2
<1>2. \A f : Spares(f)
  BY <1>1 DEF Spares
<1> QED BY <1>1, <1>2, FreshIs, EndKeeps

-----------------------------------------------------------------------------
(* The theorem. *)

LEMMA StartsWell == Init => IInv
<1> SUFFICES ASSUME Init
             PROVE  Good /\ script \in DOMAIN PlanOf
  BY DEF IInv
<1>1. Typed
  BY FreshIs DEF Init, Typed
<1>2. VouchedWhole /\ PartialsBegin
  BY DEF Init, VouchedWhole, PartialsBegin, Exists
<1>3. WritesInPlace /\ FedIsWhole /\ HeldIsAsked
  BY DEF Init, WritesInPlace, FedIsWhole, HeldIsAsked
<1> QED BY <1>1, <1>2, <1>3 DEF Good, Init

LEMMA StepKeeps ==
    ASSUME Good, Sound(script), script \notin Compressed, server = 1, Next, server' = 1
    PROVE  Good'
<1>1. ASSUME NEW asked \in DOMAIN PlanOf[script], NEW skip \in BOOLEAN, Start(asked, skip)
      PROVE  Good'
  BY <1>1, StartKeeps
<1>2. CASE Again
  BY <1>2, AgainKeeps
<1>3. CASE Skip
  BY <1>3, SkipKeeps
<1>4. CASE Request
  BY <1>4, RequestKeeps
<1>5. CASE Ask
  BY <1>5, AskKeeps
<1>6. CASE Store
  BY <1>6, StoreKeeps
<1>7. CASE Unpack
  BY <1>7, UnpackKeeps
<1>8. CASE Convert
  BY <1>8, ConvertKeeps
<1>18. CASE Spoil
  BY <1>18, SpoilKeeps
<1>9. ASSUME exit = "running", run.busy
      PROVE  Working
  BY <1>9 DEF Good, WritesInPlace, Working
<1>10. CASE Write
  BY <1>9, <1>10, WriteKeeps DEF Write
<1>11. CASE Close
  BY <1>9, <1>11, CloseKeeps DEF Close
<1>12. CASE MoveFile
  BY <1>12, MoveKeeps
<1>13. CASE MarkDone
  BY <1>13, MarkKeeps
<1>14. CASE UnlinkFile
  BY <1>14, UnlinkKeeps
<1>15. CASE Exit \/ Kill
  BY <1>15, EndingKeeps
<1>16. CASE Fail
  BY <1>16, FailKeeps
<1>17. CASE Publish
  <2>1. server' \in 2 .. Len(Size)
    BY <1>17 DEF Publish
  <2> QED BY <2>1
<1> QED BY <1>1, <1>2, <1>3, <1>4, <1>5, <1>6, <1>7, <1>8, <1>10, <1>11, <1>12, <1>13, <1>14, <1>15,
           <1>16, <1>17, <1>18 DEF Next, Work

LEMMA SameScript ==
    ASSUME Next
    PROVE  script' = script /\ (server' = 1 => server = 1)
<1>1. CASE Publish
  BY <1>1 DEF Publish
<1>2. CASE Kill \/ Exit
  BY <1>2 DEF Kill, Exit
<1>3. ASSUME NEW asked \in DOMAIN PlanOf[script], NEW skip \in BOOLEAN, Start(asked, skip)
      PROVE  script' = script /\ server' = server
  BY <1>3 DEF Start, Begin
<1>4. CASE Again
  BY <1>4 DEF Again, Begin
<1>5. CASE Fail
  BY <1>5 DEF Fail, Quiet
<1>6. CASE Skip \/ Request \/ Ask \/ Store \/ Unpack \/ Spoil \/ Convert
  BY <1>6 DEF Skip, Request, Ask, Store, Unpack, Spoil, Convert, Fine, Quiet
<1>7. CASE Write \/ Close \/ MoveFile \/ MarkDone \/ UnlinkFile
  BY <1>7 DEF Write, Close, MoveFile, MarkDone, UnlinkFile, Fine, Quiet
<1> QED BY <1>1, <1>2, <1>3, <1>4, <1>5, <1>6, <1>7 DEF Next, Work

LEMMA Inductive ==
    ASSUME IInv, [Next]_vars
    PROVE  IInv'
<1>1. CASE Next
  BY <1>1, StepKeeps, SameScript DEF IInv
<1>2. CASE UNCHANGED vars
  BY <1>2 DEF vars, IInv, Good, Typed, Ordered, VouchedWhole, PartialsBegin, WritesInPlace,
              FedIsWhole, HeldIsAsked, Holds, Exists, Now, Plan
<1> QED BY <1>1, <1>2

LEMMA SkippedFollows == IInv => SkippedIsWhole
<1> SUFFICES ASSUME IInv, server = 1, script \notin CutShortIsKept \cup SharedPartial \cup Compressed,
                    NEW asked \in DOMAIN PlanOf[script], NEW s \in ToSet(PlanOf[script][asked]),
                    Enough(s)
             PROVE  Intact(Concat(s.unless))
  BY DEF SkippedIsWhole
<1>1. Sound(script) /\ Good
  BY SoundAssumption DEF IInv
<1>2. PlanOf[script][asked] \in PlansOf(script) /\ s \in PlanStep
  <2>1. PlanOf[script][asked] \in PlansOf(script)
    BY DEF PlansOf
  <2>2. s \in Steps(script)
    BY <2>1 DEF Steps
  <2> QED BY <1>1, <2>1, <2>2, StepsAre DEF Good, Typed
<1>3. s.unless # <<>>
  BY DEF Enough
<1>4. \E i \in DOMAIN PlanOf[script][asked] : s = PlanOf[script][asked][i]
  BY DEF ToSet
<1> DEFINE f == s.unless[1]
<1>5. Len(s.unless) = 1 /\ f \in Vouching(script)
  BY <1>1, <1>2, <1>3, <1>4 DEF Sound
<1>6. s.unless = <<f>>
  <2>1. s.unless \in Seq(Name)
    BY <1>2, StepIs
  <2> QED BY <1>5, <2>1
<1> HIDE DEF f
<1>7. Exists(f)
  <2>1. \E i \in DOMAIN s.unless : Exists(s.unless[i])
    BY <1>6 DEF Enough
  <2> QED BY <1>6, <2>1
<1>8. Whole(Holds(f))
  BY <1>1, <1>5, <1>7 DEF Good, VouchedWhole, Holds
<1>9. Concat(s.unless) = Holds(f)
  BY <1>6, ConcatOne
<1> QED BY <1>8, <1>9 DEF Whole, Intact, First

(* A file for which a later run skips a download is whole, for any plans that are  *)
(* sound, any dates and versions, and however often a run is killed or a           *)
(* connection breaks: what download_file, descargar, the renames of camara and     *)
(* cpgf and the .done marker of dou are there for.                                 *)
THEOREM SkippedStaysWhole == Spec => []SkippedIsWhole
<1>1. Init => IInv
  BY StartsWell
<1>2. IInv /\ [Next]_vars => IInv'
  BY Inductive
<1>3. IInv => SkippedIsWhole
  BY SkippedFollows
<1> QED BY <1>1, <1>2, <1>3, PTL DEF Spec

=============================================================================
