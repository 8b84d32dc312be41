-------------------------- MODULE Bootstrap_proofs --------------------------
(***************************************************************************)
(* Proofs about EtlRun, and about Bootstrap, which runs it.                *)
(*                                                                         *)
(* The first part is about EtlRun alone, for any number of processes,      *)
(* sources, plans and retries.  The second is about Bootstrap, for any     *)
(* contract, number of processes and of invocations: what a row "loaded",  *)
(* an IngestionRun "loaded", an exit code and a report mean, although      *)
(* containers outlive the invocation that started them and the graph may   *)
(* be wiped under them.                                                    *)
(*                                                                         *)
(* A wipe breaks what the first part knows of the processes that are       *)
(* running.  The inductive invariant of the second keeps it for the        *)
(* processes started since the last wipe only, and of the others just      *)
(* their place in the plan, which no wipe changes.                         *)
(***************************************************************************)
EXTENDS Bootstrap, FiniteSetTheorems, TLAPS

-----------------------------------------------------------------------------
(* EtlRun. *)

(* What the provers need to know of the constants, in one place. *)
LEMMA PlanFacts ==
    ASSUME NEW r \in Run
    PROVE  /\ SourceOf[r] \in Source
           /\ Len(PlanOf(r)) \in Nat
           /\ \A i \in 1 .. Len(PlanOf(r)) :
                /\ KeyedNodes(PlanOf(r)[i]) \subseteq Node
                /\ KeyedRels(PlanOf(r)[i]) \subseteq Node \X Node
<1>1. PlanOf(r) \in Seq(Batch)
  BY ConstantsAssumption DEF PlanOf
<1>2. ASSUME NEW i \in 1 .. Len(PlanOf(r))
      PROVE  /\ KeyedNodes(PlanOf(r)[i]) \subseteq Node
             /\ KeyedRels(PlanOf(r)[i]) \subseteq Node \X Node
  <2> DEFINE b == PlanOf(r)[i]
  <2>1. b \in Batch
    BY <1>1
  <2>2. /\ b.nodes \subseteq Node \cup {NoKey}
        /\ b.rels \subseteq (Node \cup {NoKey}) \X (Node \cup {NoKey})
    BY <2>1 DEF Batch
  <2> HIDE DEF b
  <2>3. KeyedNodes(b) \subseteq Node
    BY <2>2 DEF KeyedNodes
  <2>4. KeyedRels(b) \subseteq Node \X Node
    BY <2>2 DEF KeyedRels
  <2> QED BY <2>3, <2>4 DEF b
<1>3. Len(PlanOf(r)) \in Nat
  BY <1>1
<1>4. SourceOf[r] \in Source
  BY ConstantsAssumption
<1> QED BY <1>2, <1>3, <1>4

(* A batch between the first and the last one of the plan. *)
LEMMA InLoadFacts ==
    ASSUME TypeOK, NEW r \in Run, InLoad(r)
    PROVE  /\ proc[r].i \in 1 .. Len(PlanOf(r))
           /\ KeyedNodes(Current(r)) \subseteq Node
           /\ KeyedRels(Current(r)) \subseteq Node \X Node
<1>1. proc[r].i \in Nat \ {0}
  BY DEF TypeOK, Process
<1>2. proc[r].i \in 1 .. Len(PlanOf(r))
  BY <1>1, PlanFacts DEF InLoad
<1> QED BY <1>2, PlanFacts DEF Current

(* The graph only grows, and a committed batch keeps it well formed. *)
LEMMA CommitFacts ==
    ASSUME TypeOK, GraphWellFormed, NEW r \in Run, InLoad(r),
           Commit(Current(r))
    PROVE  /\ nodes' \subseteq Node
           /\ rels' \subseteq Node \X Node
           /\ nodes \subseteq nodes'
           /\ rels \subseteq rels'
           /\ GraphWellFormed'
<1> DEFINE b == Current(r)
<1>1. KeyedNodes(b) \subseteq Node /\ KeyedRels(b) \subseteq Node \X Node
  BY InLoadFacts
<1>2. nodes' = nodes \cup KeyedNodes(b) /\ rels' = rels \cup Matched(b, nodes')
  BY DEF Commit
<1>3. NoKey \notin KeyedNodes(b)
  BY DEF KeyedNodes
<1> HIDE DEF b
<1>4. Matched(b, nodes') \subseteq KeyedRels(b)
  BY DEF Matched
<1>5. Matched(b, nodes') \subseteq nodes' \X nodes'
  BY <1>1 DEF Matched
<1>6. nodes \subseteq Node /\ rels \subseteq Node \X Node
  BY DEF TypeOK
<1>7. rels \subseteq nodes \X nodes /\ NoKey \notin nodes
  BY DEF GraphWellFormed
<1>8. GraphWellFormed'
  BY <1>2, <1>3, <1>5, <1>7 DEF GraphWellFormed
<1> QED BY <1>1, <1>2, <1>4, <1>6, <1>8

-----------------------------------------------------------------------------
(* Every step, seen as: the graph grows and one process moves.             *)

Typed == TypeOK /\ GraphWellFormed

LEMMA UpsertType ==
    ASSUME TypeOK, NEW k \in RunId, NEW st \in Status, NEW f \in BOOLEAN,
           NEW e \in BOOLEAN, UpsertIngestionRun(k, st, f, e)
    PROVE  log' \in [RunId -> Entry]
BY DEF TypeOK, UpsertIngestionRun, Entry

LEMMA IdType == ASSUME TypeOK, NEW r \in Run PROVE IdOf(r) \in RunId
BY PlanFacts DEF TypeOK, Process, IdOf, RunId

(* Type correctness and well-formedness of the graph are preserved together. *)
LEMMA TypedStep == Typed /\ [Next]_vars => Typed'
<1> SUFFICES ASSUME TypeOK, GraphWellFormed, [Next]_vars
             PROVE  TypeOK' /\ GraphWellFormed'
  BY DEF Typed
<1> USE DEF TypeOK
<1>1. CASE Tick
  BY <1>1, ConstantsAssumption DEF Tick, Second, GraphWellFormed
<1>2. ASSUME NEW r \in Run, Start(r) PROVE TypeOK' /\ GraphWellFormed'
  <2>1. proc' \in [Run -> Process]
    BY <1>2 DEF Start, Process
  <2>2. <<SourceOf[r], now>> \in RunId
    BY PlanFacts DEF RunId
  <2>3. log' \in [RunId -> Entry]
    BY <1>2, <2>2, UpsertType DEF Start, Status
  <2> QED BY <1>2, <2>1, <2>3 DEF Start, GraphWellFormed
<1>3. ASSUME NEW r \in Run, Prepare(r) PROVE TypeOK' /\ GraphWellFormed'
  BY <1>3 DEF Prepare, Process, GraphWellFormed
<1>4. ASSUME NEW r \in Run, WriteBatch(r) PROVE TypeOK' /\ GraphWellFormed'
  <2>1. proc[r].i + 1 \in Nat \ {0}
    BY DEF Process
  <2>2. proc' \in [Run -> Process]
    BY <1>4, <2>1 DEF WriteBatch, Process
  <2> QED BY <1>4, <2>2, CommitFacts DEF WriteBatch
<1>5. ASSUME NEW r \in Run, TransientError(r) PROVE TypeOK' /\ GraphWellFormed'
  <2>1. proc' \in [Run -> Process]
    <3>1. CASE proc' = [proc EXCEPT ![r].attempt = @ + 1]
      BY <3>1 DEF Process
    <3>2. CASE proc' = [proc EXCEPT ![r].i = @ + 1, ![r].attempt = 0,
                                    ![r].skipped = @ \cup {proc[r].i}]
      <4>1. /\ proc[r].i + 1 \in Nat \ {0}
            /\ proc[r].skipped \cup {proc[r].i} \in SUBSET Nat
        BY DEF Process
      <4> DEFINE p == [proc[r] EXCEPT !.i = proc[r].i + 1, !.attempt = 0,
                                      !.skipped = proc[r].skipped \cup {proc[r].i}]
      <4>2. p \in Process
        BY <4>1 DEF Process
      <4>3. proc' = [proc EXCEPT ![r] = p]
        BY <3>2
      <4> QED BY <4>2, <4>3
    <3>3. CASE proc' = [proc EXCEPT ![r].pc = "failing"]
      BY <3>3 DEF Process
    <3> QED BY <1>5, <3>1, <3>2, <3>3 DEF TransientError
  <2> QED BY <1>5, <2>1 DEF TransientError, GraphWellFormed
<1>6. ASSUME NEW r \in Run, DriverError(r) PROVE TypeOK' /\ GraphWellFormed'
  <2>1. proc' \in [Run -> Process]
    BY <1>6 DEF DriverError, Process
  <2>2. CASE Commit(Current(r))
    BY <1>6, <2>1, <2>2, CommitFacts DEF DriverError
  <2>3. CASE UNCHANGED <<nodes, rels>>
    BY <1>6, <2>1, <2>3 DEF DriverError, GraphWellFormed
  <2> QED BY <1>6, <2>2, <2>3 DEF DriverError
<1>7. ASSUME NEW r \in Run, Finish(r) PROVE TypeOK' /\ GraphWellFormed'
  <2>1. proc' \in [Run -> Process]
    BY <1>7 DEF Finish, Process
  <2>2. log' \in [RunId -> Entry]
    BY <1>7, IdType, UpsertType DEF Finish, Status
  <2> QED BY <1>7, <2>1, <2>2 DEF Finish, GraphWellFormed
<1>8. ASSUME NEW r \in Run, Fail(r) PROVE TypeOK' /\ GraphWellFormed'
  <2>1. proc' \in [Run -> Process]
    BY <1>8 DEF Fail, Process, Exit
  <2>2. log' \in [RunId -> Entry]
    BY <1>8, IdType, UpsertType DEF Fail, Status
  <2> QED BY <1>8, <2>1, <2>2 DEF Fail, GraphWellFormed
<1>9. ASSUME NEW r \in Run, Hooks(r) PROVE TypeOK' /\ GraphWellFormed'
  <2>1. PICK e \in {"ok", "hook_error"} :
            proc' = [proc EXCEPT ![r].pc = "done", ![r].exit = e]
    BY <1>9 DEF Hooks
  <2>2. proc' \in [Run -> Process]
    BY <2>1 DEF Process, Exit
  <2> QED BY <1>9, <2>2 DEF Hooks, GraphWellFormed
<1>10. ASSUME NEW r \in Run, Kill(r) PROVE TypeOK' /\ GraphWellFormed'
  <2>1. proc' = [proc EXCEPT ![r] = [@ EXCEPT !.pc = "done", !.exit = "killed"]]
    BY <1>10 DEF Kill
  <2>2. [proc[r] EXCEPT !.pc = "done", !.exit = "killed"] \in Process
    BY DEF Process, Exit
  <2>3. proc' \in [Run -> Process]
    BY <2>1, <2>2
  <2> QED BY <1>10, <2>3 DEF Kill, GraphWellFormed
<1>11. CASE UNCHANGED vars
  BY <1>11 DEF vars, GraphWellFormed
<1> HIDE DEF TypeOK
<1>12. ASSUME NEW r \in Run, Step(r) PROVE TypeOK' /\ GraphWellFormed'
  BY <1>12, <1>3, <1>4, <1>5, <1>6, <1>7, <1>8, <1>9 DEF Step
<1> QED
  BY <1>1, <1>2, <1>10, <1>11, <1>12 DEF Next

LEMMA TypedInit == Init => Typed
BY ConstantsAssumption
   DEF Init, Typed, TypeOK, GraphWellFormed, Second, RunId, Entry, Status,
       Process, Exit

(* Type correctness: every reachable state of the runs, their records and    *)
(* the graph has its type, whatever the plans of the sources.                *)
THEOREM TypeCorrect == Spec => []TypeOK
<1>1. Typed => TypeOK
  BY DEF Typed
<1> QED BY TypedInit, TypedStep, <1>1, PTL DEF Spec

(* No committed batch leaves a dangling relationship or a node without key.  *)
THEOREM GraphStaysWellFormed == Spec => []GraphWellFormed
<1>1. Typed => GraphWellFormed
  BY DEF Typed
<1> QED BY TypedInit, TypedStep, <1>1, PTL DEF Spec

-----------------------------------------------------------------------------
(* The inductive invariant: how far each process is, and who wrote what the *)
(* IngestionRun nodes say.                                                 *)

ProcessInv(r) ==
    /\ proc[r].i <= Len(PlanOf(r)) + 1
    /\ proc[r].seen \subseteq nodes
    /\ \A j \in proc[r].skipped : j < proc[r].i /\ PlanOf(r)[j].kind = "retry"
    /\ Applied(r, proc[r].i)
    /\ proc[r].pc = "hooks" \/ proc[r].exit \in {"ok", "hook_error"}
         => proc[r].i = Len(PlanOf(r)) + 1
    /\ proc[r].exit # "none" => proc[r].pc = "done"
    /\ proc[r].pc \in {"idle", "prepare"} => proc[r].i = 1

\* r has left load() by its end.
Loaded(r) ==
    /\ proc[r].pc \in {"hooks", "done"}
    /\ proc[r].exit # "error"
    /\ proc[r].i = Len(PlanOf(r)) + 1

LogInv(k) ==
    /\ log[k].status = "loaded" => \E r \in Run : IdOf(r) = k /\ Loaded(r)
    /\ log[k].status = "quality_fail" \/ log[k].error =>
         \E r \in Run : IdOf(r) = k /\ proc[r].exit = "error"

Inv ==
    /\ Typed
    /\ \A r \in Run : ProcessInv(r)
    /\ \A k \in RunId : LogInv(k)

(* What a process has applied stays applied while the graph grows.          *)
LEMMA AppliedMonotone ==
    ASSUME NEW r \in Run, NEW i, Applied(r, i),
           nodes \subseteq nodes', rels \subseteq rels',
           proc'[r].skipped = proc[r].skipped, proc'[r].seen = proc[r].seen
    PROVE  Applied(r, i)'
<1> SUFFICES ASSUME NEW j \in (1 .. i - 1) \ proc[r].skipped
             PROVE  /\ KeyedNodes(PlanOf(r)[j]) \subseteq nodes'
                    /\ Matched(PlanOf(r)[j], proc[r].seen \cup OwnNodes(r, j + 1))
                         \subseteq rels'
  BY DEF Applied, OwnNodes, PlanOf
<1> QED BY DEF Applied

(* Writing the i-th batch extends what has been applied.                    *)
LEMMA AppliedNext ==
    ASSUME Typed, NEW r \in Run, InLoad(r), ProcessInv(r), WriteBatch(r),
           NEW i, i = proc[r].i
    PROVE  Applied(r, i + 1)'
<1> DEFINE b == PlanOf(r)[i]
<1>1. i \in 1 .. Len(PlanOf(r)) /\ i \in Nat /\ i + 1 - 1 = i
  BY InLoadFacts, PlanFacts DEF Typed
<1>2. /\ nodes \subseteq nodes' /\ rels \subseteq rels'
      /\ KeyedNodes(b) \subseteq nodes'
      /\ Matched(b, nodes') \subseteq rels'
  BY CommitFacts DEF Typed, WriteBatch, Commit, Current
<1>3. proc'[r].skipped = proc[r].skipped /\ proc'[r].seen = proc[r].seen
  BY DEF WriteBatch, Typed, TypeOK
<1>4. i \notin proc[r].skipped
  BY <1>1 DEF ProcessInv
<1>5. proc[r].seen \cup OwnNodes(r, i + 1) \subseteq nodes'
  <2>1. ASSUME NEW j \in (1 .. i) \ proc[r].skipped
        PROVE  KeyedNodes(PlanOf(r)[j]) \subseteq nodes'
    <3>1. CASE j = i
      BY <3>1, <1>2
    <3>2. CASE j \in (1 .. i - 1) \ proc[r].skipped
      BY <3>2, <1>2 DEF ProcessInv, Applied
    <3>3. j = i \/ j \in (1 .. i - 1) \ proc[r].skipped
      BY <1>1
    <3> QED BY <3>1, <3>2, <3>3
  <2> QED BY <2>1, <1>1, <1>2 DEF OwnNodes, ProcessInv
<1>6. Matched(b, proc[r].seen \cup OwnNodes(r, i + 1)) \subseteq rels'
  BY <1>5, <1>2 DEF Matched
<1>7. Applied(r, i)'
  BY <1>2, <1>3, AppliedMonotone DEF ProcessInv
<1> SUFFICES ASSUME NEW j \in (1 .. i) \ proc[r].skipped
             PROVE  /\ KeyedNodes(PlanOf(r)[j]) \subseteq nodes'
                    /\ Matched(PlanOf(r)[j], proc[r].seen \cup OwnNodes(r, j + 1))
                         \subseteq rels'
  <2>1. 1 .. (i + 1) - 1 = 1 .. i
    BY <1>1
  <2>2. \A j : OwnNodes(r, j + 1)' = OwnNodes(r, j + 1)
    BY <1>3 DEF OwnNodes, PlanOf
  <2> QED BY <1>3, <2>1, <2>2 DEF Applied, PlanOf
<1>8. CASE j = i
  BY <1>8, <1>2, <1>6
<1>9. CASE j \in (1 .. i - 1) \ proc[r].skipped
  BY <1>9, <1>7, <1>3 DEF Applied, OwnNodes, PlanOf
<1>10. j = i \/ j \in (1 .. i - 1) \ proc[r].skipped
  BY <1>1
<1> QED BY <1>8, <1>9, <1>10

(* Skipping the i-th batch promises nothing about it.                       *)
LEMMA AppliedSkip ==
    ASSUME NEW r \in Run, proc[r].i \in Nat, Applied(r, proc[r].i),
           \A j \in proc[r].skipped : j < proc[r].i,
           proc[r].skipped \subseteq Nat,
           nodes' = nodes, rels' = rels, proc'[r].i = proc[r].i + 1,
           proc'[r].skipped = proc[r].skipped \cup {proc[r].i},
           proc'[r].seen = proc[r].seen
    PROVE  Applied(r, proc[r].i)'
<1> SUFFICES ASSUME NEW j \in (1 .. proc'[r].i - 1) \ proc'[r].skipped
             PROVE  /\ KeyedNodes(PlanOf(r)[j]) \subseteq nodes
                    /\ Matched(PlanOf(r)[j],
                               proc[r].seen \cup OwnNodes(r, j + 1)') \subseteq rels
  BY DEF Applied, PlanOf
<1>1. j \in (1 .. proc[r].i - 1) \ proc[r].skipped
  OBVIOUS
<1>2. (1 .. (j + 1) - 1) \ proc'[r].skipped = (1 .. (j + 1) - 1) \ proc[r].skipped
  BY <1>1
<1>3. OwnNodes(r, j + 1)' = OwnNodes(r, j + 1)
  BY <1>2 DEF OwnNodes, PlanOf
<1> QED BY <1>1, <1>3 DEF Applied

(* A process whose place in the plan does not change keeps its invariant.    *)
LEMMA ProcessMoved ==
    ASSUME NEW r \in Run, ProcessInv(r),
           nodes \subseteq nodes', rels \subseteq rels',
           proc'[r].i = proc[r].i, proc'[r].seen = proc[r].seen,
           proc'[r].skipped = proc[r].skipped,
           proc'[r].pc = "hooks" \/ proc'[r].exit \in {"ok", "hook_error"}
             => proc[r].i = Len(PlanOf(r)) + 1,
           proc'[r].exit # "none" => proc'[r].pc = "done",
           proc'[r].pc \in {"idle", "prepare"} => proc[r].i = 1
    PROVE  ProcessInv(r)'
<1> DEFINE n == proc[r].i
<1>1. \A i : Applied(r, i) => Applied(r, i)'
  BY AppliedMonotone
<1>2. \A i : i = proc[r].i /\ Applied(r, i)' => Applied(r, proc[r].i)'
  BY DEF Applied, OwnNodes, PlanOf
<1>3. Applied(r, proc[r].i)'
  BY <1>1, <1>2 DEF ProcessInv
<1> QED BY <1>3 DEF ProcessInv, PlanOf

LEMMA ProcessStep ==
    ASSUME Typed, Next, NEW r \in Run, ProcessInv(r)
    PROVE  ProcessInv(r)'
<1> USE DEF Typed
<1>0. ProcessInv(r) /\ proc[r] \in Process
  BY DEF TypeOK
<1>1. ASSUME proc'[r] = proc[r], nodes \subseteq nodes', rels \subseteq rels'
      PROVE  ProcessInv(r)'
  BY <1>0, <1>1, ProcessMoved DEF ProcessInv
<1>2. CASE Tick
  BY <1>1, <1>2 DEF Tick
<1>3. ASSUME NEW q \in Run, Start(q) PROVE ProcessInv(r)'
  <2>1. CASE q # r
    BY <1>1, <1>3, <2>1 DEF Start, TypeOK
  <2>2. CASE q = r
    <3>1. proc[r].exit = "none"
      BY <1>0, <1>3, <2>2 DEF Start, ProcessInv
    <3> QED BY <1>0, <1>3, <2>2, <3>1, ProcessMoved DEF Start, TypeOK, ProcessInv
  <2> QED BY <2>1, <2>2
<1>4. ASSUME NEW q \in Run, Step(q) \/ Kill(q), q # r PROVE ProcessInv(r)'
  <2>1. proc'[r] = proc[r]
    BY <1>4 DEF Step, Prepare, WriteBatch, TransientError, DriverError,
                Finish, Fail, Hooks, Kill, TypeOK
  <2>2. nodes \subseteq nodes' /\ rels \subseteq rels'
    BY <1>4 DEF Step, Prepare, WriteBatch, TransientError, DriverError,
                Finish, Fail, Hooks, Kill, Commit
  <2> QED BY <1>1, <2>1, <2>2
<1>5. CASE Prepare(r)
  <2>1. CASE proc' = [proc EXCEPT ![r].pc = "failing"]
    BY <1>0, <1>5, <2>1, ProcessMoved DEF Prepare, TypeOK, ProcessInv
  <2>2. CASE proc' = [proc EXCEPT ![r].pc = "load", ![r].seen = nodes]
    <3>1. proc[r].i = 1 /\ proc'[r].i = 1
      BY <1>0, <1>5, <2>2 DEF Prepare, TypeOK, ProcessInv
    <3>2. Applied(r, proc[r].i)'
      BY <3>1 DEF Applied
    <3> QED BY <1>0, <1>5, <2>2, <3>1, <3>2
            DEF Prepare, TypeOK, ProcessInv, PlanOf
  <2> QED BY <1>5, <2>1, <2>2 DEF Prepare
<1>6. CASE WriteBatch(r)
  <2>1. InLoad(r) /\ proc[r].i \in 1 .. Len(PlanOf(r))
    BY <1>6, InLoadFacts DEF WriteBatch
  <2>2. /\ proc'[r].i = proc[r].i + 1
        /\ proc'[r].skipped = proc[r].skipped
        /\ proc'[r].seen = proc[r].seen
        /\ proc'[r].exit = proc[r].exit
        /\ proc'[r].pc = "load"
    BY <1>6 DEF WriteBatch, InLoad, TypeOK, Process
  <2>3. Applied(r, proc[r].i)'
    <3>1. \A i : i = proc[r].i => Applied(r, i + 1)'
      BY <1>0, <1>6, <2>1, AppliedNext
    <3>2. \A i : i = proc[r].i /\ Applied(r, i + 1)' => Applied(r, proc[r].i)'
      BY <2>2 DEF Applied
    <3> QED BY <3>1, <3>2
  <2>4. nodes \subseteq nodes'
    BY <1>6 DEF WriteBatch, Commit
  <2>5. PlanOf(r)' = PlanOf(r) /\ Len(PlanOf(r)) \in Nat
    BY PlanFacts DEF PlanOf
  <2>6. \A j \in proc[r].skipped : j \in Nat
    BY <1>0 DEF Process
  <2>7. proc[r].i \in Nat /\ proc[r].exit = "none"
    BY <1>0, <2>1 DEF Process, ProcessInv, InLoad
  <2>8. /\ proc[r].seen \subseteq nodes
        /\ \A j \in proc[r].skipped : j < proc[r].i /\ PlanOf(r)[j].kind = "retry"
    BY <1>0 DEF ProcessInv
  <2>9. /\ proc'[r].i <= Len(PlanOf(r)) + 1
        /\ proc'[r].seen \subseteq nodes'
        /\ \A j \in proc'[r].skipped : j < proc'[r].i /\ PlanOf(r)[j].kind = "retry"
    BY <2>1, <2>2, <2>4, <2>5, <2>6, <2>7, <2>8
  <2> HIDE DEF Typed
  <2> QED BY <2>2, <2>3, <2>5, <2>7, <2>9 DEF ProcessInv
<1>7. CASE TransientError(r)
  <2>1. InLoad(r) /\ proc[r].i \in 1 .. Len(PlanOf(r)) /\ Len(PlanOf(r)) \in Nat
    BY <1>7, InLoadFacts, PlanFacts DEF TransientError
  <2>2. proc[r].pc = "load" /\ proc[r].exit = "none" /\ proc[r].i \in Nat
    BY <1>0, <2>1 DEF ProcessInv, InLoad, Process
  <2>3. CASE proc' = [proc EXCEPT ![r].attempt = @ + 1]
    BY <1>0, <1>7, <2>2, <2>3, ProcessMoved DEF TransientError, TypeOK
  <2>4. CASE proc' = [proc EXCEPT ![r].pc = "failing"]
    BY <1>0, <1>7, <2>2, <2>4, ProcessMoved DEF TransientError, TypeOK
  <2>5. CASE /\ Current(r).kind = "retry"
             /\ proc' = [proc EXCEPT ![r].i = @ + 1, ![r].attempt = 0,
                                     ![r].skipped = @ \cup {proc[r].i}]
    <3>1. /\ proc'[r].i = proc[r].i + 1
          /\ proc'[r].skipped = proc[r].skipped \cup {proc[r].i}
          /\ proc'[r].seen = proc[r].seen
          /\ proc'[r].exit = "none"
          /\ proc'[r].pc = "load"
      BY <2>2, <2>5 DEF TypeOK
    <3>2. nodes' = nodes /\ rels' = rels /\ PlanOf(r)' = PlanOf(r)
      BY <1>7 DEF TransientError, PlanOf
    <3>3. Applied(r, proc[r].i)'
      BY <1>0, <2>2, <3>1, <3>2, AppliedSkip DEF ProcessInv, Process
    <3>4. \A j \in proc[r].skipped : j \in Nat
      BY <1>0 DEF Process
    <3>5. /\ proc[r].seen \subseteq nodes
          /\ \A j \in proc[r].skipped :
               j < proc[r].i /\ PlanOf(r)[j].kind = "retry"
      BY <1>0 DEF ProcessInv
    <3>6. /\ proc'[r].i <= Len(PlanOf(r)) + 1
          /\ proc'[r].seen \subseteq nodes'
          /\ \A j \in proc'[r].skipped :
               j < proc'[r].i /\ PlanOf(r)[j].kind = "retry"
      <4>1. PlanOf(r)[proc[r].i].kind = "retry"
        BY <2>5 DEF Current
      <4>2. ASSUME NEW j \in proc'[r].skipped
            PROVE  j < proc'[r].i /\ PlanOf(r)[j].kind = "retry"
        <5>1. CASE j = proc[r].i
          BY <2>2, <3>1, <4>1, <5>1
        <5>2. CASE j \in proc[r].skipped
          BY <2>2, <3>1, <3>4, <3>5, <5>2
        <5> QED BY <3>1, <5>1, <5>2
      <4>3. proc'[r].i <= Len(PlanOf(r)) + 1
        BY <2>1, <3>1
      <4> QED BY <3>1, <3>2, <3>5, <4>2, <4>3
    <3> HIDE DEF Typed
    <3> QED BY <3>1, <3>2, <3>3, <3>6 DEF ProcessInv
  <2> QED BY <1>7, <2>3, <2>4, <2>5 DEF TransientError
<1>8. CASE DriverError(r)
  <2>1. proc[r].pc = "load" /\ proc[r].exit = "none"
    BY <1>0, <1>8 DEF DriverError, InLoad, ProcessInv
  <2>2. nodes \subseteq nodes' /\ rels \subseteq rels'
    BY <1>8 DEF DriverError, Commit
  <2>3. /\ proc'[r].i = proc[r].i /\ proc'[r].seen = proc[r].seen
        /\ proc'[r].skipped = proc[r].skipped /\ proc'[r].pc = "failing"
        /\ proc'[r].exit = "none"
    BY <1>8, <2>1 DEF DriverError, TypeOK
  <2> QED BY <1>0, <2>2, <2>3, ProcessMoved
<1>9. CASE Finish(r)
  <2>1. proc[r].i = Len(PlanOf(r)) + 1 /\ proc[r].exit = "none"
    BY <1>0, <1>9, PlanFacts DEF Finish, ProcessInv, Process
  <2> QED BY <1>0, <1>9, <2>1, ProcessMoved DEF Finish, TypeOK
<1>10. CASE Fail(r)
  BY <1>0, <1>10, ProcessMoved DEF Fail, TypeOK
<1>11. CASE Hooks(r)
  <2>1. proc[r].i = Len(PlanOf(r)) + 1
    BY <1>0, <1>11 DEF Hooks, ProcessInv
  <2> QED BY <1>0, <1>11, <2>1, ProcessMoved DEF Hooks, TypeOK
<1>12. CASE Kill(r)
  BY <1>0, <1>12, ProcessMoved DEF Kill, TypeOK
<1> QED
  BY <1>2, <1>3, <1>4, <1>5, <1>6, <1>7, <1>8, <1>9, <1>10, <1>11, <1>12
     DEF Next, Step

\* The part of ProcessInv that does not depend on the graph.
InPlan(r) ==
    /\ proc[r].i <= Len(PlanOf(r)) + 1
    /\ proc[r].exit # "none" => proc[r].pc = "done"

(* A process that ended its load, or failed, is a witness for ever.          *)
LEMMA WitnessKept ==
    ASSUME Typed, Next, NEW r \in Run, InPlan(r)
    PROVE  /\ Loaded(r) => Loaded(r)' /\ IdOf(r)' = IdOf(r)
           /\ proc[r].exit = "error" =>
                proc'[r].exit = "error" /\ IdOf(r)' = IdOf(r)
<1>1. proc \in [Run -> Process]
  BY DEF Typed, TypeOK
<1>2. ASSUME proc'[r] = proc[r]
      PROVE  Loaded(r) = Loaded(r)' /\ IdOf(r)' = IdOf(r)
  BY <1>2 DEF Loaded, IdOf, PlanOf
<1>3. CASE Tick
  BY <1>2, <1>3 DEF Tick
<1>4. ASSUME NEW q \in Run, Start(q) \/ Step(q) \/ Kill(q), q # r
      PROVE  proc'[r] = proc[r]
  BY <1>1, <1>4 DEF Start, Step, Prepare, WriteBatch, TransientError,
                    DriverError, Finish, Fail, Hooks, Kill
<1>5. CASE Start(r) \/ Prepare(r) \/ WriteBatch(r) \/ TransientError(r)
           \/ DriverError(r) \/ Finish(r) \/ Fail(r)
  BY <1>1, <1>5 DEF Start, Prepare, WriteBatch, TransientError, DriverError,
                    InLoad, Finish, Fail, Loaded, InPlan
<1>6. CASE Hooks(r) \/ Kill(r)
  <2>1. /\ proc'[r].i = proc[r].i /\ proc'[r].sec = proc[r].sec
        /\ proc'[r].pc = "done" /\ proc'[r].exit # "error"
        /\ proc[r].pc # "done"
    <3>1. CASE Hooks(r)
      <4>1. PICK e \in {"ok", "hook_error"} :
                proc' = [proc EXCEPT ![r].pc = "done", ![r].exit = e]
        BY <3>1 DEF Hooks
      <4> QED BY <1>1, <3>1, <4>1 DEF Hooks
    <3>2. CASE Kill(r)
      BY <1>1, <3>2 DEF Kill
    <3> QED BY <1>6, <3>1, <3>2
  <2> QED BY <1>1, <2>1 DEF Loaded, IdOf, PlanOf, InPlan
<1> QED
  BY <1>2, <1>3, <1>4, <1>5, <1>6 DEF Next, Step

LEMMA LogStep ==
    ASSUME Typed, Next, \A r \in Run : InPlan(r), NEW k \in RunId, LogInv(k)
    PROVE  LogInv(k)'
<1> DEFINE Kept == log'[k] = log[k]
<1>0. log \in [RunId -> Entry] /\ proc \in [Run -> Process]
  BY DEF Typed, TypeOK
<1>1. CASE log'[k] = log[k]
  BY <1>0, <1>1, WitnessKept DEF LogInv
<1>2. ASSUME NEW q \in Run, Start(q), log'[k] # log[k] PROVE LogInv(k)'
  <2>1. log'[k].status = "running" /\ log'[k].error = log[k].error
    BY <1>0, <1>2 DEF Start, UpsertIngestionRun, Entry
  <2> QED BY <1>0, <2>1, WitnessKept DEF LogInv
<1>3. ASSUME NEW q \in Run, Finish(q), log'[k] # log[k] PROVE LogInv(k)'
  <2>1. /\ k = IdOf(q) /\ log'[k].status = "loaded"
        /\ log'[k].error = log[k].error
    BY <1>0, <1>3 DEF Finish, UpsertIngestionRun, Entry
  <2>2. Loaded(q)' /\ IdOf(q)' = k
    <3>1. /\ proc'[q].pc = "hooks" /\ proc'[q].i = proc[q].i
          /\ proc'[q].exit = proc[q].exit /\ proc'[q].sec = proc[q].sec
      BY <1>0, <1>3 DEF Finish
    <3>2. proc[q].exit = "none" /\ proc[q].i = Len(PlanOf(q)) + 1
      BY <1>3, PlanFacts DEF Finish, InPlan, Typed, TypeOK, Process
    <3> QED BY <2>1, <3>1, <3>2 DEF Loaded, IdOf, PlanOf
  <2> QED BY <1>0, <2>1, <2>2, WitnessKept DEF LogInv
<1>4. ASSUME NEW q \in Run, Fail(q), log'[k] # log[k] PROVE LogInv(k)'
  <2>1. k = IdOf(q) /\ log'[k].status = "quality_fail"
    BY <1>0, <1>4 DEF Fail, UpsertIngestionRun, Entry
  <2>2. proc'[q].exit = "error" /\ IdOf(q)' = k
    BY <1>0, <1>4, <2>1 DEF Fail, IdOf
  <2> QED BY <2>1, <2>2 DEF LogInv
<1>5. log'[k] # log[k] => \E q \in Run : Start(q) \/ Finish(q) \/ Fail(q)
  BY DEF Next, Step, Tick, Prepare, WriteBatch, TransientError, DriverError,
         Hooks, Kill
<1> QED BY <1>1, <1>2, <1>3, <1>4, <1>5

LEMMA InvInit == Init => Inv
<1> SUFFICES ASSUME Init PROVE Inv
  OBVIOUS
<1>1. ASSUME NEW r \in Run PROVE ProcessInv(r)
  BY PlanFacts DEF Init, ProcessInv, Applied
<1>2. ASSUME NEW k \in RunId PROVE LogInv(k)
  BY DEF Init, LogInv
<1> QED BY <1>1, <1>2, TypedInit DEF Inv

LEMMA InvStep == Inv /\ [Next]_vars => Inv'
<1> SUFFICES ASSUME Inv, [Next]_vars PROVE Inv'
  OBVIOUS
<1>1. CASE Next
  <2>1. Typed'
    BY <1>1, TypedStep DEF Inv
  <2>2. RunId' = RunId
    BY DEF RunId, Second
  <2>3. \A r \in Run : InPlan(r)
    BY DEF Inv, ProcessInv, InPlan
  <2> QED BY <1>1, <2>1, <2>2, <2>3, ProcessStep, LogStep DEF Inv
<1>2. CASE UNCHANGED vars
  BY <1>2 DEF vars, Inv, Typed, TypeOK, GraphWellFormed, ProcessInv, LogInv,
              Applied, OwnNodes, PlanOf, Loaded, IdOf, RunId, Second
<1> QED BY <1>1, <1>2

LEMMA InvAlways == Spec => []Inv
BY InvInit, InvStep, PTL DEF Spec

LEMMA LoadedComplete ==
    ASSUME NEW r \in Run, ProcessInv(r), proc[r].i = Len(PlanOf(r)) + 1
    PROVE  Complete(r)
BY DEF ProcessInv, Complete

(* Whatever an IngestionRun says of a finished run is true of a process that *)
(* has its run_id: "loaded" means its whole plan is in the graph.            *)
THEOREM StatusIsTruthful == Spec => []StatusHasWitness
<1>1. Inv => StatusHasWitness
  <2> SUFFICES ASSUME Inv PROVE StatusHasWitness
    OBVIOUS
  <2>1. \A r \in Run : ProcessInv(r)
    BY DEF Inv
  <2>2. \A k \in RunId : LogInv(k)
    BY DEF Inv
  <2>3. \A r \in Run : Loaded(r) => /\ proc[r].pc \in {"hooks", "done"}
                                   /\ proc[r].exit # "error"
                                   /\ Complete(r)
    BY <2>1, LoadedComplete DEF Loaded
  <2> QED BY <2>2, <2>3 DEF StatusHasWitness, LogInv
<1> QED BY <1>1, InvAlways, PTL

(* Exit code 0 means that the plan is in the graph up to the batches that    *)
(* run_query_with_retry gave up on.                                          *)
THEOREM ExitIsTruthful == Spec => []ExitOkIsComplete
<1>1. Inv => ExitOkIsComplete
  <2> SUFFICES ASSUME Inv, NEW r \in Run
               PROVE  /\ proc[r].exit = "ok" => Complete(r)
                      /\ \A j \in proc[r].skipped : PlanOf(r)[j].kind = "retry"
    BY DEF ExitOkIsComplete
  <2>1. ProcessInv(r)
    BY DEF Inv
  <2> QED BY <2>1, LoadedComplete DEF ProcessInv
<1> QED BY <1>1, InvAlways, PTL

(* The witnesses of "loaded" and of an error are different processes.        *)
LEMMA TwoWitnesses ==
    ASSUME NEW k \in RunId, NEW r1 \in Run, NEW r2 \in Run,
           IdOf(r1) = k, IdOf(r2) = k, r1 # r2,
           proc[r1].pc # "idle", proc[r2].pc # "idle"
    PROVE  Shared(k)
BY DEF Shared

(* An error on a loaded run is the trace of a second process with its run_id. *)
THEOREM StaleErrorMeansShared == Spec => []StaleErrorOnlyIfShared
<1>1. Inv => StaleErrorOnlyIfShared
  <2> SUFFICES ASSUME Inv, NEW k \in RunId, log[k].status = "loaded", log[k].error
               PROVE  Shared(k)
    BY DEF StaleErrorOnlyIfShared
  <2>1. PICK r1 \in Run : IdOf(r1) = k /\ Loaded(r1)
    BY DEF Inv, LogInv
  <2>2. PICK r2 \in Run : IdOf(r2) = k /\ proc[r2].exit = "error"
    BY DEF Inv, LogInv
  <2>3. proc[r2].pc = "done"
    BY <2>2 DEF Inv, ProcessInv
  <2> QED BY <2>1, <2>2, <2>3, TwoWitnesses DEF Loaded
<1> QED BY <1>1, InvAlways, PTL

(* A final status is overwritten only through a shared run_id.               *)
THEOREM FinalStatusIsKept == Spec => FinalStatusKept
<1> DEFINE Kept == \A k \in RunId :
             /\ log[k].status \in {"loaded", "quality_fail"}
             /\ log'[k].status # log[k].status
             => Shared(k)'
<1>1. Inv /\ [Next]_vars => [Kept]_vars
  <2> SUFFICES ASSUME Inv, Next, NEW k \in RunId,
                      log[k].status \in {"loaded", "quality_fail"},
                      log'[k].status # log[k].status
               PROVE  Shared(k)'
    OBVIOUS
  <2>1. PICK w \in Run : IdOf(w) = k /\ (Loaded(w) \/ proc[w].exit = "error")
    BY DEF Inv, LogInv
  <2>2. proc[w].pc \in {"hooks", "done"}
    BY <2>1 DEF Inv, ProcessInv, Loaded
  <2>3. proc \in [Run -> Process] /\ log \in [RunId -> Entry]
    BY DEF Inv, Typed, TypeOK
  <2>4. PICK q \in Run : Start(q) \/ Finish(q) \/ Fail(q)
    BY DEF Next, Step, Tick, Prepare, WriteBatch, TransientError, DriverError,
           Hooks, Kill
  <2>5. q # w /\ proc'[w] = proc[w]
    BY <2>2, <2>3, <2>4 DEF Start, Finish, Fail
  <2>6. IdOf(q)' = k /\ proc'[q].pc # "idle"
    <3>1. CASE Start(q)
      <4>1. k = <<SourceOf[q], now>>
        BY <2>3, <3>1 DEF Start, UpsertIngestionRun
      <4>2. proc'[q].sec = now /\ proc'[q].pc = "prepare"
        BY <2>3, <3>1 DEF Start
      <4> QED BY <4>1, <4>2 DEF IdOf
    <3>2. CASE Finish(q)
      <4>1. k = IdOf(q)
        BY <2>3, <3>2 DEF Finish, UpsertIngestionRun
      <4>2. proc'[q].sec = proc[q].sec /\ proc'[q].pc = "hooks"
        BY <2>3, <3>2 DEF Finish
      <4> QED BY <4>1, <4>2 DEF IdOf
    <3>3. CASE Fail(q)
      <4>1. k = IdOf(q)
        BY <2>3, <3>3 DEF Fail, UpsertIngestionRun
      <4>2. proc'[q].sec = proc[q].sec /\ proc'[q].pc = "done"
        BY <2>3, <3>3 DEF Fail
      <4> QED BY <4>1, <4>2 DEF IdOf
    <3> QED BY <2>4, <3>1, <3>2, <3>3
  <2>7. IdOf(w)' = k /\ proc'[w].pc # "idle"
    <3>1. IdOf(w)' = IdOf(w)
      BY <2>5 DEF IdOf
    <3>2. proc'[w].pc # "idle"
      BY <2>2, <2>5
    <3>3. IdOf(w) = k
      BY <2>1, Zenon
    <3> QED BY <3>1, <3>2, <3>3
  <2> QED BY <2>5, <2>6, <2>7 DEF Shared
<1> HIDE DEF Kept
<1>2. Spec => [][Kept]_vars
  BY <1>1, InvAlways, PTL DEF Spec
<1> QED BY <1>2 DEF FinalStatusKept, Kept

-----------------------------------------------------------------------------
(* Bootstrap. *)

\* What holds of a process whatever happened to the graph.
Placed(r) ==
    /\ proc[r].i <= Len(PlanOf(r)) + 1
    /\ proc[r].exit # "none" => proc[r].pc = "done"
    /\ proc[r].pc = "hooks" \/ proc[r].exit \in {"ok", "hook_error"}
         => proc[r].i = Len(PlanOf(r)) + 1
    /\ proc[r].pc = "idle" => proc[r].i = 1 /\ proc[r].skipped = {} /\ proc[r].seen = {}

SinceWipe ==
    \A r \in since : proc[r].pc # "idle" /\ ProcessInv(r)

LoadedLog == \A k \in RunId : LogInv(k)

\* A process of the source has exited 0 since the wipe.
Ran(source) == \E r \in since : SourceOf[r] = source /\ proc[r].exit = "ok"

Rows ==
    /\ boot.pc = "up" => boot.rows = <<>>
    /\ boot.pc = "ingest" =>
          Pending /\ boot.run \in since /\ SourceOf[boot.run] = Due
    /\ boot.pc \in {"loop", "ingest", "published"} =>
          \A i \in 1 .. Len(boot.rows) :
              boot.rows[i].status = "loaded" => Ran(boot.rows[i].source)

Report ==
    /\ boot.pc # "exited" => boot.code = "none"
    /\ Len(boot.rows) <= Len(boot.todo)
    /\ \A i \in 1 .. Len(boot.rows) : boot.rows[i].source = boot.todo[i]
    /\ boot.pc = "published" => Len(boot.rows) = Len(boot.todo)
    /\ ExitPolicy

BootInv ==
    /\ Typed /\ BootTypeOK
    /\ \A r \in Run : Placed(r)
    /\ SinceWipe /\ LoadedLog /\ Rows /\ Report

-----------------------------------------------------------------------------
(* The steps, by what they change.                                         *)

RowAdded(status) == Pending /\ AddRow(status)

Started(r) ==
    /\ SourceOf[r] = Due
    /\ Start(r)
    /\ boot' = [boot EXCEPT !.pc = "ingest", !.run = r]
    /\ since' = since \cup {r}

Wiped ==
    /\ boot.pc = "up" /\ boot' = [boot EXCEPT !.pc = "loop"]
    /\ nodes' = {} /\ rels' = {}
    /\ log' = [k \in RunId |-> [status |-> "none", finished |-> FALSE, error |-> FALSE]]
    /\ since' = {}
    /\ UNCHANGED <<now, proc, files, latest>>

LEMMA PrepareCases ==
    ASSUME PrepareSource, BootTypeOK
    PROVE  /\ Pending /\ boot.pc = "loop"
           /\ files' \subseteq Source /\ UNCHANGED latest
           /\ \/ /\ \E status \in RowStatus \ {"loaded"} : RowAdded(status)
                 /\ UNCHANGED <<vars, since>>
              \/ \E r \in Run : Started(r)
<1>1. Pending /\ boot.pc = "loop" /\ UNCHANGED latest
    BY DEF PrepareSource
<1>2. Due \in Source
    BY <1>1 DEF BootTypeOK, Invocation, Pending, Due
<1>3. files' \subseteq Source
    BY <1>2 DEF PrepareSource, ScriptDownload, FileManifest, Unavailable, BootTypeOK
<1>4. Ingest => \/ RowAdded("failed_pipeline") /\ UNCHANGED <<vars, since>>
                \/ \E r \in Run : Started(r)
    BY <1>1 DEF Ingest, Started, RowAdded
<1>5. \/ \E status \in RowStatus \ {"loaded"} : AddRow(status) /\ UNCHANGED <<vars, since>>
      \/ Ingest
    BY DEF PrepareSource, ScriptDownload, FileManifest, Unavailable, RowStatus
<1> QED
    BY <1>1, <1>3, <1>4, <1>5 DEF RowAdded, RowStatus

\* A step of the script, of a container, or of both at once.
LEMMA StepCases ==
    ASSUME BootTypeOK, BootNext
    PROVE  \/ Wiped
           \/ \E r \in Run : Started(r) /\ PrepareSource
           \/ UNCHANGED since /\ [Next]_vars
<1>1. Launch \/ KillBoot \/ KeepGraph \/ RemoveLatest \/ CopyLatest \/ IngestDone
        => UNCHANGED since /\ UNCHANGED vars
    BY DEF Launch, KillBoot, KeepGraph, RemoveLatest, CopyLatest, IngestDone
<1>2. Reset => Wiped \/ (UNCHANGED since /\ UNCHANGED vars)
    BY DEF Reset, Wiped, vars
<1>3. PrepareSource => \/ \E r \in Run : Started(r) /\ PrepareSource
                       \/ UNCHANGED since /\ UNCHANGED vars
    BY PrepareCases
<1>4. Container => UNCHANGED since /\ Next
    BY DEF Container, bootVars, Next
<1> QED
    BY <1>1, <1>2, <1>3, <1>4 DEF BootNext, BootStep

LEMMA RowEffect ==
    ASSUME BootTypeOK, NEW status \in RowStatus, RowAdded(status)
    PROVE  /\ boot' \in Invocation
           /\ boot'.pc = "loop" /\ boot'.todo = boot.todo /\ boot'.code = boot.code
           /\ Len(boot'.rows) = Len(boot.rows) + 1 /\ Len(boot'.rows) <= Len(boot'.todo)
           /\ \A i \in 1 .. Len(boot.rows) : boot'.rows[i] = boot.rows[i]
           /\ boot'.rows[Len(boot'.rows)] = [source |-> Due, status |-> status]
           /\ Due = boot.todo[Len(boot'.rows)]
<1> DEFINE row == [source |-> Due, status |-> status]
<1>1. /\ boot \in Invocation /\ boot.rows \in Seq(Row) /\ boot.todo \in Seq(Source)
      /\ Len(boot.rows) \in Nat /\ Len(boot.todo) \in Nat
    BY DEF BootTypeOK, Invocation
<1>2. Len(boot.rows) < Len(boot.todo)
    BY DEF RowAdded, Pending
<1>3. Due \in Source
    BY <1>1, <1>2 DEF Due
<1>4. row \in Row
    BY <1>3 DEF Row
<1> HIDE DEF row
<1>5. boot' = [boot EXCEPT !.pc = "loop", !.run = NoRun, !.rows = Append(boot.rows, row)]
    BY DEF RowAdded, AddRow, row
<1>6. Append(boot.rows, row) \in Seq(Row)
    BY <1>1, <1>4
<1>7. /\ boot' \in Invocation /\ boot'.rows = Append(boot.rows, row)
      /\ boot'.pc = "loop" /\ boot'.todo = boot.todo /\ boot'.code = boot.code
    BY <1>1, <1>5, <1>6 DEF Invocation
<1>8. /\ Len(boot'.rows) = Len(boot.rows) + 1
      /\ \A i \in 1 .. Len(boot.rows) : boot'.rows[i] = boot.rows[i]
      /\ boot'.rows[Len(boot.rows) + 1] = row
    BY <1>1, <1>4, <1>7
<1>9. Due = boot.todo[Len(boot.rows) + 1]
    BY DEF Due
<1> QED
    BY <1>1, <1>2, <1>7, <1>8, <1>9 DEF row

-----------------------------------------------------------------------------
(* Types.                                                                  *)

\* What --sources leaves of the contract is a sequence of sources.
LEMMA Chosen ==
    ASSUME NEW chosen, NEW todo \in InOrder(chosen)
    PROVE  todo \in Seq(Source)
<1> DEFINE at == {k \in DOMAIN Contract : Contract[k] \in chosen}
<1>1. PICK g \in SetToSeqs(at) : todo = [i \in DOMAIN g |-> Contract[g[i]]]
    BY DEF InOrder
<1>2. Contract \in Seq(Source) /\ DOMAIN Contract = 1 .. Len(Contract)
      /\ Len(Contract) \in Nat /\ \A k \in at : Contract[k] \in Source
    BY BootstrapAssumption
<1>3. IsFiniteSet(at)
    <2>1. IsFiniteSet(1 .. Len(Contract)) /\ at \subseteq 1 .. Len(Contract)
        BY <1>2, FS_Interval
    <2> HIDE DEF at
    <2> QED
        BY <2>1, FS_Subset
<1> HIDE DEF at
<1>4. Cardinality(at) \in Nat
    BY <1>3, FS_CardinalityType
<1>5. g \in [1 .. Cardinality(at) -> at]
    BY <1>1 DEF SetToSeqs
<1>6. todo \in [1 .. Cardinality(at) -> Source]
    BY <1>1, <1>2, <1>5
<1> QED
    BY <1>4, <1>6

LEMMA LaunchEffect ==
    ASSUME BootTypeOK, Launch
    PROVE  /\ boot' \in Invocation /\ boot'.rows = <<>> /\ boot'.run = NoRun
           /\ \/ boot'.pc = "up" /\ boot'.code = "none"
              \/ boot'.pc = "exited" /\ boot'.code = "fail" /\ boot'.todo = <<>>
<1>1. /\ boot.count \in 0 .. MaxInvocations /\ boot.count < MaxInvocations
      /\ MaxInvocations \in Nat
    BY BootstrapAssumption DEF BootTypeOK, Invocation, Launch
<1>2. boot.count + 1 \in 0 .. MaxInvocations
    BY <1>1
<1>3. /\ <<>> \in Seq(Row) /\ <<>> \in Seq(Source) /\ MayReset \subseteq BOOLEAN
      /\ \A chosen \in Selected : \A todo \in InOrder(chosen) : todo \in Seq(Source)
    BY BootstrapAssumption, Chosen
<1>4. CASE \E reset \in MayReset, chosen \in Selected : \E todo \in InOrder(chosen) :
              boot' = [pc |-> "up", reset |-> reset, todo |-> todo,
                       rows |-> <<>>, run |-> NoRun, code |-> "none",
                       count |-> boot.count + 1]
    BY <1>2, <1>3, <1>4 DEF Invocation
<1>5. CASE boot' = [pc |-> "exited", reset |-> FALSE, todo |-> <<>>, rows |-> <<>>,
                    run |-> NoRun, code |-> "fail", count |-> boot.count + 1]
    BY <1>2, <1>3, <1>5 DEF Invocation
<1> QED
    BY <1>4, <1>5 DEF Launch

\* run_cmd returned: the row says what the process's exit code was.
LEMMA IngestCases ==
    ASSUME IngestDone, Rows
    PROVE  /\ boot.pc = "ingest" /\ UNCHANGED <<vars, files, latest, since>>
           /\ \E status \in RowStatus :
                /\ RowAdded(status)
                /\ status = "loaded" => proc[boot.run].exit = "ok"
<1> DEFINE status == IF proc[boot.run].exit = "ok" THEN "loaded" ELSE "failed_pipeline"
<1>1. status \in RowStatus /\ (status = "loaded" => proc[boot.run].exit = "ok")
    BY DEF RowStatus
<1>2. RowAdded(status)
    BY DEF IngestDone, Rows, RowAdded
<1> QED
    BY <1>1, <1>2 DEF IngestDone

LEMMA BootTypeStep ==
    ASSUME BootTypeOK, Rows, [BootNext]_allVars
    PROVE  BootTypeOK'
<1> USE DEF BootTypeOK
<1>1. CASE Launch
    BY <1>1, LaunchEffect DEF Launch
<1>2. CASE Reset \/ KeepGraph \/ KillBoot
    BY <1>2 DEF Reset, KeepGraph, KillBoot, ExitWith, Invocation
<1>3. CASE PrepareSource
    <2>1. CASE /\ \E status \in RowStatus \ {"loaded"} : RowAdded(status)
               /\ UNCHANGED <<vars, since>>
        BY <1>3, <2>1, PrepareCases, RowEffect
    <2>2. ASSUME NEW r \in Run, Started(r)
          PROVE  BootTypeOK'
        <3>1. boot' \in Invocation
            BY <2>2 DEF Started, Invocation
        <3> QED
            BY <1>3, <2>2, <3>1, PrepareCases DEF Started
    <2> QED
        BY <1>3, <2>1, <2>2, PrepareCases
<1>4. CASE IngestDone
    BY <1>4, IngestCases, RowEffect
<1>5. CASE RemoveLatest
    BY <1>5 DEF RemoveLatest, Invocation
<1>6. CASE CopyLatest
    BY <1>6 DEF CopyLatest, ExitWith, Invocation
<1>7. CASE Container
    BY <1>7 DEF Container, bootVars
<1>8. CASE UNCHANGED allVars
    BY <1>8 DEF allVars, bootVars
<1> QED
    BY <1>1, <1>2, <1>3, <1>4, <1>5, <1>6, <1>7, <1>8 DEF BootNext, BootStep

\* Of the graph and the processes, a step is one of EtlRun or a wipe.
LEMMA RunSteps ==
    ASSUME BootTypeOK, [BootNext]_allVars
    PROVE  Wiped \/ [Next]_vars
<1>1. CASE UNCHANGED allVars
    BY <1>1 DEF allVars
<1>2. ASSUME NEW r \in Run, Started(r)
      PROVE  Next
    BY <1>2 DEF Started, Next
<1> QED
    BY <1>1, <1>2, StepCases

LEMMA TypedBoot ==
    ASSUME BootTypeOK, Typed, [BootNext]_allVars
    PROVE  Typed'
<1>1. CASE Wiped
    BY <1>1 DEF Wiped, Typed, TypeOK, GraphWellFormed, RunId, Entry, Status, Second
<1> QED
    BY <1>1, RunSteps, TypedStep

-----------------------------------------------------------------------------
(* The processes, those of earlier invocations included.                   *)

LEMMA TransientCases ==
    ASSUME TypeOK, NEW r \in Run, TransientError(r)
    PROVE  /\ proc'[r].i \in {proc[r].i, proc[r].i + 1}
           /\ proc'[r].pc \in {"load", "failing"} /\ proc'[r].exit = proc[r].exit
<1>1. proc \in [Run -> Process] /\ proc[r].pc = "load"
    BY DEF TypeOK, TransientError, InLoad
<1>2. CASE proc' = [proc EXCEPT ![r].attempt = @ + 1]
    BY <1>1, <1>2 DEF Process
<1>3. CASE proc' = [proc EXCEPT ![r].i = @ + 1, ![r].attempt = 0,
                                ![r].skipped = @ \cup {proc[r].i}]
    BY <1>1, <1>3 DEF Process
<1>4. CASE proc' = [proc EXCEPT ![r].pc = "failing"]
    BY <1>1, <1>4 DEF Process
<1> QED
    BY <1>2, <1>3, <1>4 DEF TransientError

LEMMA Extracted ==
    ASSUME TypeOK, NEW r \in Run, Prepare(r)
    PROVE  /\ proc'[r].i = proc[r].i
           /\ proc'[r].pc \in {"load", "failing"} /\ proc'[r].exit = proc[r].exit
           /\ \A q \in Run \ {r} : proc'[q] = proc[q]
<1>1. proc \in [Run -> Process]
    BY DEF TypeOK
<1>2. CASE proc' = [proc EXCEPT ![r].pc = "load", ![r].seen = nodes]
    BY <1>1, <1>2 DEF Process
<1>3. CASE proc' = [proc EXCEPT ![r].pc = "failing"]
    BY <1>1, <1>3 DEF Process
<1> QED
    BY <1>2, <1>3 DEF Prepare

LEMMA PlacedStep ==
    ASSUME TypeOK, NEW r \in Run, Placed(r), [Next]_vars
    PROVE  Placed(r)'
<1>1. proc \in [Run -> Process] /\ Len(PlanOf(r)) \in Nat /\ proc[r].i \in Nat
    BY PlanFacts DEF TypeOK, Process
<1>2. ASSUME proc'[r] = proc[r]
      PROVE  Placed(r)'
    BY <1>2 DEF Placed, PlanOf
<1>3. ASSUME NEW q \in Run, Start(q) \/ Step(q) \/ Kill(q), q # r
      PROVE  proc'[r] = proc[r]
    BY <1>1, <1>3 DEF Start, Step, Prepare, WriteBatch, TransientError, DriverError, Finish,
       Fail, Hooks, Kill
<1>4. CASE Start(r) \/ Prepare(r) \/ Fail(r) \/ Kill(r)
    <2>2. /\ proc'[r].i = proc[r].i
          /\ \/ proc'[r].pc \in {"prepare", "load", "failing"} /\ proc'[r].exit = proc[r].exit
             \/ proc'[r].pc = "done" /\ proc'[r].exit \in {"error", "killed"}
        <3>1. CASE Start(r)
            BY <1>1, <3>1 DEF Start
        <3>2. CASE Prepare(r)
            BY <3>2, Extracted
        <3>3. CASE Fail(r)
            BY <1>1, <3>3 DEF Fail
        <3>4. CASE Kill(r)
            BY <1>1, <3>4 DEF Kill
        <3> QED
            BY <1>4, <3>1, <3>2, <3>3, <3>4
    <2>3. proc[r].pc # "done"
        BY <1>4 DEF Start, Prepare, Fail, Kill
    <2> QED
        BY <2>2, <2>3 DEF Placed, PlanOf
<1>5. CASE WriteBatch(r) \/ TransientError(r) \/ DriverError(r)
    <2>1. proc[r].pc = "load" /\ proc[r].i <= Len(PlanOf(r)) /\ proc[r].exit = "none"
        BY <1>5 DEF WriteBatch, TransientError, DriverError, InLoad, Placed
    <2>2. /\ proc'[r].i \in {proc[r].i, proc[r].i + 1}
          /\ proc'[r].pc \in {"load", "failing"} /\ proc'[r].exit = "none"
        <3>1. CASE WriteBatch(r)
            BY <1>1, <2>1, <3>1 DEF WriteBatch
        <3>2. CASE TransientError(r)
            BY <1>1, <2>1, <3>2, TransientCases
        <3>3. CASE DriverError(r)
            BY <1>1, <2>1, <3>3 DEF DriverError
        <3> QED
            BY <1>5, <3>1, <3>2, <3>3
    <2>3. proc'[r].i <= Len(PlanOf(r)) + 1
        BY <1>1, <2>1, <2>2
    <2> QED
        BY <2>2, <2>3 DEF Placed, PlanOf
<1>6. CASE Finish(r)
    <2>1. proc[r].i = Len(PlanOf(r)) + 1
        BY <1>1, <1>6 DEF Finish, Placed
    <2> QED
        BY <1>1, <1>6, <2>1 DEF Finish, Placed, PlanOf
<1>7. CASE Hooks(r)
    <2>1. proc'[r].i = Len(PlanOf(r)) + 1 /\ proc'[r].pc = "done"
        BY <1>1, <1>7 DEF Hooks, Placed
    <2> QED
        BY <1>1, <2>1 DEF Placed, PlanOf
<1>8. CASE Tick \/ UNCHANGED vars
    BY <1>2, <1>8 DEF Tick, vars
<1> QED
    BY <1>2, <1>3, <1>4, <1>5, <1>6, <1>7, <1>8 DEF Next, Step

\* A process that has not started has nothing to show, on whatever graph.
LEMMA IdleIsFine ==
    ASSUME NEW r \in Run, Placed(r), proc[r].pc = "idle"
    PROVE  ProcessInv(r)
<1>1. proc[r].i = 1 /\ proc[r].skipped = {} /\ proc[r].seen = {}
    BY DEF Placed
<1>2. Applied(r, proc[r].i)
    BY <1>1 DEF Applied
<1> QED
    BY <1>1, <1>2 DEF Placed, ProcessInv

LEMMA StillRunning ==
    ASSUME TypeOK, NEW r \in Run, proc[r].pc # "idle", [Next]_vars
    PROVE  proc'[r].pc # "idle"
<1>1. proc \in [Run -> Process]
    BY DEF TypeOK
<1>2. ASSUME NEW q \in Run, Start(q) \/ Step(q) \/ Kill(q)
      PROVE  proc'[r].pc # "idle"
    <2>1. CASE Start(q)
        BY <1>1, <2>1 DEF Start
    <2>2. CASE Prepare(q)
        BY <2>2, Extracted
    <2>3. CASE WriteBatch(q)
        BY <1>1, <2>3 DEF WriteBatch
    <2>9. CASE DriverError(q)
        BY <1>1, <2>9 DEF DriverError
    <2>4. CASE TransientError(q)
        <3>1. CASE q = r
            BY <1>1, <2>4, <3>1, TransientCases DEF TransientError, InLoad
        <3>2. CASE q # r
            BY <1>1, <2>4, <3>2 DEF TransientError
        <3> QED
            BY <3>1, <3>2
    <2>5. CASE Finish(q)
        BY <1>1, <2>5 DEF Finish
    <2>6. CASE Fail(q)
        BY <1>1, <2>6 DEF Fail
    <2>7. CASE Hooks(q)
        BY <1>1, <2>7 DEF Hooks
    <2>8. CASE Kill(q)
        BY <1>1, <2>8 DEF Kill
    <2> QED
        BY <1>2, <2>1, <2>2, <2>3, <2>4, <2>5, <2>6, <2>7, <2>8, <2>9 DEF Step
<1>3. CASE Tick \/ UNCHANGED vars
    BY <1>3 DEF Tick, vars
<1> QED
    BY <1>2, <1>3 DEF Next

LEMMA ProcessKept ==
    ASSUME Typed, NEW r \in Run, ProcessInv(r), [Next]_vars
    PROVE  ProcessInv(r)'
<1>1. CASE UNCHANGED vars
    BY <1>1 DEF vars, ProcessInv, Applied, OwnNodes, PlanOf
<1> QED
    BY <1>1, ProcessStep

LEMMA SinceStep ==
    ASSUME BootInv, [BootNext]_allVars
    PROVE  SinceWipe'
<1> USE DEF BootInv
<1>1. CASE Wiped
    BY <1>1 DEF Wiped, SinceWipe
<1>2. ASSUME UNCHANGED since, [Next]_vars
      PROVE  SinceWipe'
    <2> SUFFICES ASSUME NEW r \in since
                 PROVE  proc'[r].pc # "idle" /\ ProcessInv(r)'
        BY <1>2 DEF SinceWipe
    <2> QED
        BY <1>2, ProcessKept, StillRunning DEF SinceWipe, Typed, BootTypeOK
<1>3. ASSUME NEW q \in Run, Started(q)
      PROVE  SinceWipe'
    <2>1. Start(q) /\ [Next]_vars /\ since' = since \cup {q}
        BY <1>3 DEF Started, Next
    <2>2. ASSUME NEW r \in since
          PROVE  proc'[r].pc # "idle" /\ ProcessInv(r)'
        BY <2>1, ProcessKept, StillRunning DEF SinceWipe, Typed, BootTypeOK
    <2>3. ProcessInv(q)
        BY <2>1, IdleIsFine DEF Start
    <2>4. proc'[q].pc # "idle" /\ ProcessInv(q)'
        BY <2>1, <2>3, ProcessKept DEF Start, Typed, TypeOK
    <2> QED
        BY <2>1, <2>2, <2>4 DEF SinceWipe
<1>4. CASE UNCHANGED allVars
    BY <1>2, <1>4 DEF allVars, bootVars
<1> QED
    BY <1>1, <1>2, <1>3, <1>4, StepCases

-----------------------------------------------------------------------------
(* What the IngestionRuns, the rows and the report say.                    *)

LEMMA LogKept ==
    ASSUME BootInv, [BootNext]_allVars
    PROVE  LoadedLog'
<1> SUFFICES ASSUME NEW k \in RunId
             PROVE  LogInv(k)'
    BY DEF LoadedLog, RunId, Second
<1>1. CASE Wiped
    BY <1>1 DEF Wiped, LogInv
<1>2. CASE Next
    <2>1. \A r \in Run : InPlan(r)
        BY DEF BootInv, Placed, InPlan
    <2> QED
        BY <1>2, <2>1, LogStep DEF BootInv, LoadedLog
<1>3. CASE UNCHANGED vars
    BY <1>3 DEF vars, BootInv, LoadedLog, LogInv, Loaded, IdOf, PlanOf
<1> QED
    BY <1>1, <1>2, <1>3, RunSteps DEF BootInv

\* A process that exited 0 is done for ever.
LEMMA OkStays ==
    ASSUME TypeOK, NEW r \in Run, Placed(r), proc[r].exit = "ok", [Next]_vars
    PROVE  proc'[r] = proc[r]
<1>1. proc[r].pc = "done" /\ proc \in [Run -> Process]
    BY DEF Placed, TypeOK
<1>2. ASSUME NEW q \in Run, Start(q) \/ Step(q) \/ Kill(q)
      PROVE  proc'[r] = proc[r]
    <2>1. q # r
        BY <1>1, <1>2 DEF Start, Step, Prepare, WriteBatch, TransientError, DriverError,
           InLoad, Finish, Fail, Hooks, Kill
    <2> QED
        BY <1>1, <1>2, <2>1 DEF Start, Step, Prepare, WriteBatch, TransientError, DriverError,
           Finish, Fail, Hooks, Kill
<1> QED
    BY <1>2 DEF Next, Tick, vars

\* A row keeps its process as long as the graph is not wiped.
LEMMA RanStays ==
    ASSUME BootInv, [Next]_vars, since \subseteq since', NEW source, Ran(source)
    PROVE  \E r \in since' : SourceOf[r] = source /\ proc'[r].exit = "ok"
<1>1. PICK r \in since : SourceOf[r] = source /\ proc[r].exit = "ok"
    BY DEF Ran
<1>2. proc'[r] = proc[r]
    BY <1>1, OkStays DEF BootInv, Typed, BootTypeOK
<1> QED
    BY <1>1, <1>2

LEMMA RowsStep ==
    ASSUME BootInv, BootTypeOK', [BootNext]_allVars
    PROVE  Rows'
<1> USE DEF BootInv
<1>0. /\ boot.rows \in Seq(Row) /\ boot.todo \in Seq(Source) /\ boot \in Invocation
      /\ Len(boot.rows) \in Nat /\ Len(boot'.rows) \in Nat
    BY DEF BootTypeOK, Invocation
<1> DEFINE Backed == \A i \in 1 .. Len(boot.rows) :
                        boot.rows[i].status = "loaded" => Ran(boot.rows[i].source)
<1>1. CASE Launch
    <2>1. boot'.rows = <<>> /\ boot'.pc \in {"up", "exited"}
        BY <1>1, LaunchEffect
    <2> QED
        BY <2>1 DEF Rows
<1>2. CASE Wiped \/ KeepGraph
    <2>1. boot'.pc = "loop" /\ boot'.rows = <<>>
        BY <1>0, <1>2 DEF Wiped, KeepGraph, Rows, Invocation
    <2> QED
        BY <2>1 DEF Rows
<1>3. CASE (Reset /\ ~Wiped) \/ KillBoot \/ CopyLatest
    <2>1. boot'.pc = "exited"
        BY <1>0, <1>3 DEF Reset, Wiped, KillBoot, CopyLatest, ExitWith, Invocation
    <2> QED
        BY <2>1 DEF Rows
<1>4. ASSUME boot.pc \in {"loop", "ingest"}, NEW status \in RowStatus, RowAdded(status),
             UNCHANGED <<vars, since>>,
             status = "loaded" => \E r \in since : SourceOf[r] = Due /\ proc[r].exit = "ok"
      PROVE  Rows'
    <2>1. /\ boot'.pc = "loop" /\ Len(boot'.rows) = Len(boot.rows) + 1
          /\ \A i \in 1 .. Len(boot.rows) : boot'.rows[i] = boot.rows[i]
          /\ boot'.rows[Len(boot'.rows)] = [source |-> Due, status |-> status]
        BY <1>4, RowEffect
    <2>2. Backed
        BY <1>4 DEF Rows
    <2>3. [Next]_vars /\ since \subseteq since'
        BY <1>4
    <2>4. ASSUME NEW i \in 1 .. Len(boot'.rows), boot'.rows[i].status = "loaded"
          PROVE  \E r \in since' : SourceOf[r] = boot'.rows[i].source /\ proc'[r].exit = "ok"
        <3>1. CASE i \in 1 .. Len(boot.rows)
            BY <2>1, <2>2, <2>3, <2>4, <3>1, RanStays
        <3>2. CASE i = Len(boot'.rows)
            BY <1>4, <2>1, <2>4, <3>2 DEF vars
        <3> QED
            BY <1>0, <2>1, <3>1, <3>2
    <2> QED
        BY <2>1, <2>4 DEF Rows, Ran
<1>5. CASE IngestDone
    <2>1. boot.run \in since /\ SourceOf[boot.run] = Due
        BY <1>5 DEF IngestDone, Rows
    <2>2. PICK status \in RowStatus :
             RowAdded(status) /\ (status = "loaded" => proc[boot.run].exit = "ok")
        BY <1>5, IngestCases
    <2> QED
        BY <1>4, <1>5, <2>1, <2>2, IngestCases
<1>6. CASE PrepareSource
    <2>1. CASE /\ \E status \in RowStatus \ {"loaded"} : RowAdded(status)
               /\ UNCHANGED <<vars, since>>
        BY <1>4, <1>6, <2>1, PrepareCases
    <2>2. ASSUME NEW r \in Run, Started(r)
          PROVE  Rows'
        <3>1. /\ boot'.pc = "ingest" /\ boot'.run = r
              /\ boot'.rows = boot.rows /\ boot'.todo = boot.todo
              /\ r \in since' /\ SourceOf[r] = Due /\ [Next]_vars /\ since \subseteq since'
            BY <1>0, <2>2 DEF Started, Invocation, Next
        <3>2. Pending /\ Backed
            BY <1>6, PrepareCases DEF Rows
        <3>3. ASSUME NEW i \in 1 .. Len(boot'.rows), boot'.rows[i].status = "loaded"
              PROVE  \E q \in since' : SourceOf[q] = boot'.rows[i].source /\ proc'[q].exit = "ok"
            BY <3>1, <3>2, <3>3, RanStays
        <3> QED
            BY <3>1, <3>2, <3>3 DEF Rows, Pending, Due, Ran
    <2> QED
        BY <1>6, <2>1, <2>2, PrepareCases
<1>7. CASE RemoveLatest
    <2>1. /\ boot'.pc = "published" /\ boot'.rows = boot.rows /\ UNCHANGED <<vars, since>>
        BY <1>0, <1>7 DEF RemoveLatest, Invocation
    <2>2. Backed
        BY <1>7 DEF RemoveLatest, Rows
    <2> QED
        BY <2>1, <2>2 DEF Rows, Ran, vars
<1>8. CASE Container \/ UNCHANGED allVars
    <2>1. /\ UNCHANGED <<boot, since>> /\ [Next]_vars
        BY <1>8 DEF Container, bootVars, allVars, Next
    <2>2. ASSUME NEW source, Ran(source)
          PROVE  \E r \in since' : SourceOf[r] = source /\ proc'[r].exit = "ok"
        BY <2>1, <2>2, RanStays
    <2>3. boot' = boot /\ since' = since /\ Pending' = Pending /\ Due' = Due
        BY <2>1 DEF Pending, Due
    <2>4. ASSUME boot.pc \in {"loop", "ingest", "published"},
                 NEW i \in 1 .. Len(boot.rows), boot.rows[i].status = "loaded"
          PROVE  \E r \in since' : SourceOf[r] = boot.rows[i].source /\ proc'[r].exit = "ok"
        BY <2>2, <2>4 DEF Rows
    <2>5. (boot.pc = "up" => boot.rows = <<>>)
          /\ (boot.pc = "ingest" => Pending /\ boot.run \in since /\ SourceOf[boot.run] = Due)
        BY DEF Rows
    <2> HIDE DEF BootInv
    <2> QED
        BY <2>3, <2>4, <2>5 DEF Rows, Ran
<1> QED
    BY <1>1, <1>2, <1>3, <1>5, <1>6, <1>7, <1>8 DEF BootNext, BootStep

LEMMA ReportStep ==
    ASSUME BootInv, BootTypeOK', [BootNext]_allVars
    PROVE  Report'
<1> USE DEF BootInv
<1>0. /\ boot \in Invocation /\ boot.rows \in Seq(Row) /\ boot.todo \in Seq(Source)
      /\ Len(boot.rows) \in Nat /\ Len(boot.todo) \in Nat
      /\ latest \in [exists : BOOLEAN, rows : Seq(Row)]
    BY DEF BootTypeOK, Invocation
<1>1. CASE Launch
    <2>1. boot'.rows = <<>> /\ boot'.code # "ok" /\ (boot'.pc # "exited" => boot'.code = "none")
          /\ boot'.pc # "published" /\ boot'.todo \in Seq(Source)
        BY <1>1, LaunchEffect DEF Invocation
    <2>2. Len(boot'.rows) = 0 /\ Len(boot'.todo) \in Nat
        BY <2>1
    <2> QED
        BY <2>1, <2>2 DEF Report, ExitPolicy
<1>2. CASE Reset \/ KeepGraph \/ KillBoot
    <2>1. /\ boot'.rows = boot.rows /\ boot'.todo = boot.todo /\ boot.pc # "exited"
          /\ \/ boot'.pc = "loop" /\ boot'.code = boot.code
             \/ boot'.pc = "exited" /\ boot'.code # "ok"
        <3>1. CASE Reset
            BY <1>0, <3>1 DEF Reset, ExitWith, Invocation
        <3>2. CASE KeepGraph
            BY <1>0, <3>2 DEF KeepGraph, Invocation
        <3>3. CASE KillBoot
            BY <1>0, <3>3 DEF KillBoot, ExitWith, Invocation
        <3> QED
            BY <1>2, <3>1, <3>2, <3>3
    <2>2. boot'.code # "ok" /\ (boot'.pc # "exited" => boot'.code = "none")
        BY <2>1 DEF Report
    <2>3. ExitPolicy' /\ boot'.pc # "published"
        BY <2>1, <2>2 DEF ExitPolicy
    <2>4. /\ Len(boot.rows) <= Len(boot.todo)
          /\ \A i \in 1 .. Len(boot.rows) : boot.rows[i].source = boot.todo[i]
        BY DEF Report
    <2> HIDE DEF BootInv
    <2> QED
        BY <2>1, <2>2, <2>3, <2>4 DEF Report
<1>3. ASSUME boot.pc # "exited", NEW status \in RowStatus, RowAdded(status)
      PROVE  Report'
    <2>1. /\ boot'.pc = "loop" /\ boot'.todo = boot.todo /\ boot'.code = boot.code
          /\ Len(boot'.rows) = Len(boot.rows) + 1 /\ Len(boot'.rows) <= Len(boot'.todo)
          /\ \A i \in 1 .. Len(boot.rows) : boot'.rows[i] = boot.rows[i]
          /\ boot'.rows[Len(boot'.rows)].source = boot.todo[Len(boot'.rows)]
        <3>1. /\ boot'.rows[Len(boot'.rows)] = [source |-> Due, status |-> status]
              /\ Due = boot.todo[Len(boot'.rows)]
            BY <1>3, RowEffect
        <3>2. boot'.rows[Len(boot'.rows)].source = boot.todo[Len(boot'.rows)]
            BY <3>1
        <3> QED
            BY <1>3, <3>2, RowEffect
    <2>2. ASSUME NEW i \in 1 .. Len(boot'.rows)
          PROVE  boot'.rows[i].source = boot'.todo[i]
        <3>1. i \in 1 .. Len(boot.rows) \/ i = Len(boot'.rows)
            BY <1>0, <2>1
        <3> QED
            BY <2>1, <3>1 DEF Report
    <2>3. boot'.code = "none"
        BY <1>3, <2>1 DEF Report
    <2> QED
        BY <2>1, <2>2, <2>3 DEF Report, ExitPolicy
<1>4. CASE IngestDone
    BY <1>3, <1>4, IngestCases
<1>5. CASE PrepareSource
    <2>1. ASSUME NEW r \in Run, Started(r)
          PROVE  Report'
        <3>1. /\ boot'.pc = "ingest" /\ boot'.code = boot.code
              /\ boot'.rows = boot.rows /\ boot'.todo = boot.todo
            BY <1>0, <2>1 DEF Started, Invocation
        <3>2. boot.code = "none"
            BY <1>5, PrepareCases DEF Report
        <3> QED
            BY <3>1, <3>2 DEF Report, ExitPolicy
    <2> QED
        BY <1>3, <1>5, <2>1, PrepareCases
<1>6. CASE RemoveLatest
    <2>1. /\ boot'.pc = "published" /\ boot'.code = boot.code /\ boot.pc = "loop" /\ ~Pending
          /\ boot'.rows = boot.rows /\ boot'.todo = boot.todo
        BY <1>0, <1>6 DEF RemoveLatest, Invocation
    <2>2. Len(boot.rows) = Len(boot.todo)
        BY <1>0, <2>1 DEF Report, Pending
    <2> QED
        BY <2>1, <2>2 DEF Report, ExitPolicy
<1>7. CASE CopyLatest
    <2>1. /\ boot'.pc = "exited" /\ boot'.rows = boot.rows /\ boot'.todo = boot.todo
          /\ boot'.code = (IF CoreFailures = {} THEN "ok" ELSE "fail")
          /\ latest'.exists /\ latest'.rows = boot.rows
        BY <1>0, <1>7 DEF CopyLatest, ExitWith, Invocation
    <2>2. boot.pc = "published" /\ Len(boot.rows) = Len(boot.todo)
        BY <1>7 DEF CopyLatest, Report
    <2>3. ASSUME CoreFailures = {}, NEW i \in 1 .. Len(boot.todo), boot.todo[i] \in Core
          PROVE  boot.rows[i].status \in {"loaded"} \cup CoreAllow
        <3>1. i \in 1 .. Len(boot.rows) /\ boot.rows[i].source \in Core
            BY <2>2, <2>3 DEF Report
        <3> QED
            BY <2>3, <3>1 DEF CoreFailures
    <2>4. ExitPolicy'
        BY <2>1, <2>3 DEF ExitPolicy
    <2> QED
        BY <2>1, <2>4 DEF Report
<1>8. CASE Container \/ UNCHANGED allVars
    <2>1. UNCHANGED <<boot, latest>>
        BY <1>8 DEF Container, bootVars, allVars
    <2> QED
        BY <2>1 DEF Report, ExitPolicy
<1> QED
    BY <1>1, <1>2, <1>4, <1>5, <1>6, <1>7, <1>8 DEF BootNext, BootStep

-----------------------------------------------------------------------------
(* The theorems.                                                           *)

LEMMA BootInitially == BootInit => BootInv
<1> SUFFICES ASSUME BootInit
             PROVE  BootInv
    OBVIOUS
<1>1. Typed
    BY TypedInit DEF BootInit
<1>2. BootTypeOK
    <2>1. /\ <<>> \in Seq(Row) /\ <<>> \in Seq(Source) /\ 0 \in 0 .. MaxInvocations
        BY BootstrapAssumption
    <2>2. boot \in Invocation
        BY <2>1 DEF BootInit, Invocation
    <2>3. latest \in [exists : BOOLEAN, rows : Seq(Row)]
        BY <2>1 DEF BootInit
    <2> QED
        BY <2>2, <2>3 DEF BootInit, BootTypeOK
<1>3. ASSUME NEW r \in Run
      PROVE  Placed(r)
    BY PlanFacts DEF BootInit, Init, Placed
<1>4. SinceWipe /\ LoadedLog
    BY DEF BootInit, Init, SinceWipe, LoadedLog, LogInv
<1>5. Rows /\ Report
    BY DEF BootInit, Rows, Report, ExitPolicy
<1> QED
    BY <1>1, <1>2, <1>3, <1>4, <1>5 DEF BootInv

LEMMA BootInductive == BootInv /\ [BootNext]_allVars => BootInv'
<1> SUFFICES ASSUME BootInv, [BootNext]_allVars
             PROVE  BootInv'
    OBVIOUS
<1>1. BootTypeOK'
    BY BootTypeStep DEF BootInv
<1>2. Typed'
    BY TypedBoot DEF BootInv
<1>3. ASSUME NEW r \in Run
      PROVE  Placed(r)'
    <2>1. CASE Wiped
        BY <2>1 DEF Wiped, BootInv, Placed, PlanOf
    <2> QED
        BY <2>1, RunSteps, PlacedStep DEF BootInv, Typed
<1> QED
    BY <1>1, <1>2, <1>3, SinceStep, LogKept, RowsStep, ReportStep DEF BootInv

LEMMA BootInvariant == BootSpec => []BootInv
<1> QED
    BY BootInitially, BootInductive, PTL DEF BootSpec

\* The invocation, the report, the input files and the processes are well typed.
THEOREM BootTypeCorrect == BootSpec => []BootTypeOK
<1>1. BootInv => BootTypeOK
    BY DEF BootInv
<1> QED
    BY <1>1, BootInvariant, PTL

\* For any contract and however many containers outlive their invocation: a row
\* "loaded" has its source's whole plan in the graph, wiped before it or not.
THEOREM LoadedRowsAreComplete == BootSpec => []LoadedRowComplete
<1>1. ASSUME BootInv, boot.pc \in {"loop", "ingest", "published"},
             NEW i \in 1 .. Len(boot.rows), boot.rows[i].status = "loaded"
      PROVE  \E r \in since : /\ SourceOf[r] = boot.rows[i].source
                              /\ proc[r].exit = "ok"
                              /\ Complete(r)
    <2>1. PICK r \in since : SourceOf[r] = boot.rows[i].source /\ proc[r].exit = "ok"
        BY <1>1 DEF BootInv, Rows, Ran
    <2>2. r \in Run /\ ProcessInv(r)
        BY <1>1 DEF BootInv, BootTypeOK, SinceWipe
    <2>3. Complete(r)
        BY <2>1, <2>2, LoadedComplete DEF ProcessInv
    <2> QED
        BY <2>1, <2>3
<1>2. BootInv => LoadedRowComplete
    BY <1>1 DEF LoadedRowComplete
<1> QED
    BY <1>2, BootInvariant, PTL

\* An IngestionRun "loaded" names a process that finished its load, and its plan
\* is in the graph unless it was started before the graph was wiped.
THEOREM LoadedLogIsTruthful == BootSpec => []LoadedSinceReset
<1>1. ASSUME BootInv, NEW k \in RunId, log[k].status = "loaded"
      PROVE  \E r \in Run : /\ IdOf(r) = k
                            /\ proc[r].pc \in {"hooks", "done"}
                            /\ (r \in since => Complete(r))
    <2>1. PICK r \in Run : IdOf(r) = k /\ Loaded(r)
        BY <1>1 DEF BootInv, LoadedLog, LogInv
    <2>2. r \in since => ProcessInv(r)
        BY <1>1 DEF BootInv, SinceWipe
    <2>3. r \in since => Complete(r)
        BY <2>1, <2>2, LoadedComplete DEF Loaded
    <2> QED
        BY <2>1, <2>3 DEF Loaded
<1>2. BootInv => LoadedSinceReset
    BY <1>1 DEF LoadedSinceReset
<1> QED
    BY <1>2, BootInvariant, PTL

\* Exit code 0 means that every core source that was asked for is loaded or
\* excused, and that the published report says so.
THEOREM ExitCodeIsTruthful == BootSpec => []ExitPolicy
<1>1. BootInv => ExitPolicy
    BY DEF BootInv, Report
<1> QED
    BY <1>1, BootInvariant, PTL

\* Once the sources have begun, the script exits 1 only behind its own report.
THEOREM FailuresAreReported == BootSpec => FailureIsReported
<1> DEFINE Reported ==
        /\ boot.pc \in {"loop", "ingest", "published"}
        /\ boot'.code = "fail"
        => /\ latest'.exists
           /\ latest'.rows = boot'.rows
           /\ Len(boot'.rows) = Len(boot'.todo)
<1>1. ASSUME BootInv, [BootNext]_allVars
      PROVE  Reported
    <2> SUFFICES ASSUME boot.pc \in {"loop", "ingest", "published"}, boot'.code = "fail"
                 PROVE  /\ latest'.exists
                        /\ latest'.rows = boot'.rows
                        /\ Len(boot'.rows) = Len(boot'.todo)
        OBVIOUS
    <2>1. boot.code = "none" /\ BootTypeOK /\ boot \in Invocation /\ Rows
        BY <1>1 DEF BootInv, Report, BootTypeOK
    <2>2. ~Launch /\ ~Reset /\ ~KeepGraph
        BY DEF Launch, Reset, KeepGraph
    <2>3. ~PrepareSource
        <3>1. ASSUME NEW status \in RowStatus, RowAdded(status)
              PROVE  FALSE
            BY <2>1, <3>1, RowEffect
        <3>2. ASSUME NEW r \in Run, Started(r)
              PROVE  FALSE
            BY <2>1, <3>2 DEF Started, Invocation
        <3> QED
            BY <2>1, <3>1, <3>2, PrepareCases
    <2>4. ~IngestDone
        BY <2>1, IngestCases, RowEffect
    <2>5. ~RemoveLatest /\ ~Container /\ ~UNCHANGED allVars
        BY <2>1 DEF RemoveLatest, Container, bootVars, allVars, Invocation
    <2>6. ~KillBoot
        BY <2>1 DEF KillBoot, ExitWith, Invocation
    <2>7. CopyLatest
        BY <1>1, <2>2, <2>3, <2>4, <2>5, <2>6 DEF BootNext, BootStep
    <2>8. boot'.rows = boot.rows /\ boot'.todo = boot.todo /\ latest'.exists /\ latest'.rows = boot.rows
        BY <2>1, <2>7 DEF CopyLatest, ExitWith, Invocation
    <2> QED
        BY <1>1, <2>7, <2>8 DEF CopyLatest, BootInv, Report
<1>2. BootInv /\ [BootNext]_allVars => [Reported]_allVars
    BY <1>1
<1> QED
    BY <1>2, BootInvariant, PTL DEF BootSpec, FailureIsReported
=============================================================================
