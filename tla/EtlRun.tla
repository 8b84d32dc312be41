------------------------------- MODULE EtlRun -------------------------------
(***************************************************************************)
(* `bracc-etl run --source S`: operating-system processes that each build  *)
(* a Pipeline, extract, transform and load it batch by batch into the      *)
(* shared Neo4j graph, and record their progress in one IngestionRun node. *)
(*                                                                         *)
(* Several processes may run at once (an operator's shells, a cron job, the *)
(* bootstrap orchestrator), of the same or of different sources, and any of *)
(* them may be killed between two statements.  Every session.run of the    *)
(* code is an auto-commit transaction, hence one action here.              *)
(*                                                                         *)
(* A source's load() is abstracted to a plan: the sequence of batches it   *)
(* hands to Neo4jBatchLoader.  A batch carries the node keys it MERGEs and *)
(* the relationships it MERGEs between nodes it MATCHes.                   *)
(***************************************************************************)
EXTENDS Naturals, Sequences

CONSTANTS
    Run,         \* processes
    Source,      \* source ids (PIPELINES of runner.py)
    SourceOf,    \* the --source each process was started with
    Node,        \* node keys a row may carry
    NoKey,       \* the falsy key (None, "") of a row without its key
    Plan,        \* for each source, the batches its load() writes, in order
    MaxRetries,  \* _MAX_RETRIES of loader.py
    MaxNow       \* bound: last second of the wall clock

\* "nodes" is load_nodes, "rels" is load_relationships and run_query (both
\* through _run_batches), "retry" is run_query_with_retry.
BatchKind == {"nodes", "rels", "retry"}

Batch == [kind : BatchKind,
          nodes : SUBSET (Node \cup {NoKey}),
          rels : SUBSET ((Node \cup {NoKey}) \X (Node \cup {NoKey}))]

ASSUME ConstantsAssumption ==
    /\ SourceOf \in [Run -> Source]
    /\ Plan \in [Source -> Seq(Batch)]
    /\ NoKey \notin Node
    /\ MaxRetries \in Nat \ {0}
    /\ MaxNow \in Nat

Second == 0..MaxNow

Status == {"none", "running", "loaded", "quality_fail"}

\* How the command ended: "error" and "hook_error" are an exception out of
\* Pipeline.run and out of the post-load hooks, both exit code 1.
Exit == {"none", "ok", "error", "hook_error", "killed"}

VARIABLES
    now,    \* wall clock in seconds, the resolution of run_id
    nodes,  \* nodes of the graph
    rels,   \* relationships of the graph
    log,    \* the IngestionRun nodes, by <<source, second>> (their run_id)
    proc    \* the processes

vars == <<now, nodes, rels, log, proc>>

RunId == Source \X Second

Entry == [status : Status, finished : BOOLEAN, error : BOOLEAN]

\* A process between two statements.  `seen` is a history field: the nodes
\* that were in the graph when load() began.
Process == [pc : {"idle", "prepare", "load", "failing", "hooks", "done"},
            sec : Second,
            i : Nat \ {0},
            attempt : Nat,
            skipped : SUBSET Nat,
            seen : SUBSET Node,
            exit : Exit]

TypeOK ==
    /\ now \in Second
    /\ nodes \subseteq Node
    /\ rels \subseteq Node \X Node
    /\ log \in [RunId -> Entry]
    /\ proc \in [Run -> Process]

Init ==
    /\ now = 0
    /\ nodes = {}
    /\ rels = {}
    /\ log = [k \in RunId |-> [status |-> "none", finished |-> FALSE,
                               error |-> FALSE]]
    /\ proc = [r \in Run |-> [pc |-> "idle", sec |-> 0, i |-> 1, attempt |-> 0,
                              skipped |-> {}, seen |-> {}, exit |-> "none"]]

-----------------------------------------------------------------------------
(* The run and its batches.                                                *)

PlanOf(r) == Plan[SourceOf[r]]

IdOf(r) == <<SourceOf[r], proc[r].sec>>

\* load_nodes and load_relationships drop the rows whose key is falsy.
KeyedNodes(b) == b.nodes \ {NoKey}

KeyedRels(b) == {e \in b.rels : e[1] # NoKey /\ e[2] # NoKey}

\* MATCH finds no row whose endpoint is absent, so MERGE never sees it.
Matched(b, present) ==
    {e \in KeyedRels(b) : e[1] \in present /\ e[2] \in present}

Current(r) == PlanOf(r)[proc[r].i]

\* The committed effect of one batch; a query that MERGEs its own endpoint
\* (bndes.py) sees it when it MATCHes the other one.
Commit(b) ==
    /\ nodes' = nodes \cup KeyedNodes(b)
    /\ rels' = rels \cup Matched(b, nodes')

\* Pipeline._upsert_ingestion_run: one MERGE by run_id; coalesce keeps the
\* finished_at and error an earlier write left; an exception is only logged,
\* so the write may be lost.
UpsertIngestionRun(k, status, finished, error) ==
    \/ log' = [log EXCEPT ![k] =
                 [status |-> status,
                  finished |-> finished \/ @.finished,
                  error |-> error \/ @.error]]
    \/ UNCHANGED log

-----------------------------------------------------------------------------
(* Steps of a process.                                                     *)

\* Pipeline.__init__ takes run_id from the clock; run() then records "running".
Start(r) ==
    /\ proc[r].pc = "idle"
    /\ proc' = [proc EXCEPT ![r].pc = "prepare", ![r].sec = now]
    /\ UpsertIngestionRun(<<SourceOf[r], now>>, "running", FALSE, FALSE)
    /\ UNCHANGED <<now, nodes, rels>>

\* extract() and transform() work on memory only; either may raise.
Prepare(r) ==
    /\ proc[r].pc = "prepare"
    /\ \/ proc' = [proc EXCEPT ![r].pc = "load", ![r].seen = nodes]
       \/ proc' = [proc EXCEPT ![r].pc = "failing"]
    /\ UNCHANGED <<now, nodes, rels, log>>

InLoad(r) ==
    /\ proc[r].pc = "load"
    /\ proc[r].i <= Len(PlanOf(r))

WriteBatch(r) ==
    /\ InLoad(r)
    /\ Commit(Current(r))
    /\ proc' = [proc EXCEPT ![r].i = @ + 1, ![r].attempt = 0]
    /\ UNCHANGED <<now, log>>

\* Mutant: every batch is skipped after its retries, not only the retried ones.
MutSkipAnyBatch(r) ==
    /\ InLoad(r)
    /\ proc' = [proc EXCEPT ![r].i = @ + 1, ![r].attempt = 0,
                            ![r].skipped = @ \cup {proc[r].i}]
    /\ UNCHANGED <<now, nodes, rels, log>>

\* Mutant: the retry loop does not count its attempts.
MutRetryForever(r) ==
    /\ InLoad(r)
    /\ Current(r).kind = "retry"
    /\ proc' = [proc EXCEPT ![r].attempt = 1 - @]
    /\ UNCHANGED <<now, nodes, rels, log>>

\* A TransientError rolls the batch back.  Only run_query_with_retry catches
\* it: it tries _MAX_RETRIES times and then skips the batch.
TransientError(r) ==
    /\ InLoad(r)
    /\ \/ /\ Current(r).kind = "retry"
          /\ proc[r].attempt + 1 < MaxRetries
          /\ proc' = [proc EXCEPT ![r].attempt = @ + 1]
       \/ /\ Current(r).kind = "retry"
          /\ proc[r].attempt + 1 >= MaxRetries
          /\ proc' = [proc EXCEPT ![r].i = @ + 1, ![r].attempt = 0,
                                  ![r].skipped = @ \cup {proc[r].i}]
       \/ /\ Current(r).kind # "retry"
          /\ proc' = [proc EXCEPT ![r].pc = "failing"]
    /\ UNCHANGED <<now, nodes, rels, log>>

\* Mutant: a failed batch is logged and load() goes on.
MutDriverError(r) ==
    /\ InLoad(r)
    /\ proc' = [proc EXCEPT ![r].i = @ + 1, ![r].attempt = 0]
    /\ UNCHANGED <<now, nodes, rels, log>>

\* Any other driver error leaves load().  When the connection is lost the
\* server may already have committed the batch.
DriverError(r) ==
    /\ InLoad(r)
    /\ \/ Commit(Current(r))
       \/ UNCHANGED <<nodes, rels>>
    /\ proc' = [proc EXCEPT ![r].pc = "failing"]
    /\ UNCHANGED <<now, log>>

\* load() has returned: record "loaded".
Finish(r) ==
    /\ proc[r].pc = "load"
    /\ proc[r].i > Len(PlanOf(r))
    /\ proc' = [proc EXCEPT ![r].pc = "hooks"]
    /\ UpsertIngestionRun(IdOf(r), "loaded", TRUE, FALSE)
    /\ UNCHANGED <<now, nodes, rels>>

\* Mutant: after recording the failure the same Pipeline object is run again.
MutFail(r) ==
    /\ proc[r].pc = "failing"
    /\ proc' = [proc EXCEPT ![r].pc = "prepare", ![r].i = 1, ![r].attempt = 0]
    /\ UpsertIngestionRun(IdOf(r), "quality_fail", TRUE, TRUE)
    /\ UNCHANGED <<now, nodes, rels>>

\* except Exception: record "quality_fail", re-raise, the command exits 1.
Fail(r) ==
    /\ proc[r].pc = "failing"
    /\ proc' = [proc EXCEPT ![r].pc = "done", ![r].exit = "error"]
    /\ UpsertIngestionRun(IdOf(r), "quality_fail", TRUE, TRUE)
    /\ UNCHANGED <<now, nodes, rels>>

\* Mutant: the hooks run inside the try block of Pipeline.run.
MutHooks(r) ==
    /\ proc[r].pc = "hooks"
    /\ \E e \in {"ok", "hook_error"} :
         /\ proc' = [proc EXCEPT ![r].pc = "done", ![r].exit = e]
         /\ IF e = "ok" THEN UNCHANGED log
            ELSE UpsertIngestionRun(IdOf(r), "quality_fail", TRUE, TRUE)
    /\ UNCHANGED <<now, nodes, rels>>

\* run_post_load_hooks: a linking script is absent, skipped by tier, applied,
\* or it raises; the IngestionRun is not touched any more.
Hooks(r) ==
    /\ proc[r].pc = "hooks"
    /\ \E e \in {"ok", "hook_error"} :
         proc' = [proc EXCEPT ![r].pc = "done", ![r].exit = e]
    /\ UNCHANGED <<now, nodes, rels, log>>

\* SIGKILL, the machine, the container: nothing is written any more.
Kill(r) ==
    /\ proc[r].pc \notin {"idle", "done"}
    /\ proc' = [proc EXCEPT ![r].pc = "done", ![r].exit = "killed"]
    /\ UNCHANGED <<now, nodes, rels, log>>

Tick ==
    /\ now < MaxNow
    /\ now' = now + 1
    /\ UNCHANGED <<nodes, rels, log, proc>>

Step(r) ==
    \/ Prepare(r)
    \/ WriteBatch(r)
    \/ TransientError(r)
    \/ DriverError(r)
    \/ Finish(r)
    \/ Fail(r)
    \/ Hooks(r)

Next ==
    \/ Tick
    \/ \E r \in Run : Start(r) \/ Step(r) \/ Kill(r)

Spec == Init /\ [][Next]_vars

\* A process that was started keeps running: fairness on its own steps only,
\* neither on being started nor on the clock nor on being killed.
FairSpec == Spec /\ \A r \in Run : WF_vars(Step(r))

-----------------------------------------------------------------------------
(* What a run promises.                                                    *)

\* Node keys that the batches of r before the i-th have written.
OwnNodes(r, i) ==
    UNION {KeyedNodes(PlanOf(r)[j]) : j \in (1 .. i - 1) \ proc[r].skipped}

\* Every batch of r before the i-th that was not skipped is in the graph: its
\* nodes, and those of its relationships whose endpoints were there when
\* load() began or were written by that batch of r or an earlier one.
Applied(r, i) ==
    \A j \in (1 .. i - 1) \ proc[r].skipped :
        /\ KeyedNodes(PlanOf(r)[j]) \subseteq nodes
        /\ Matched(PlanOf(r)[j], proc[r].seen \cup OwnNodes(r, j + 1)) \subseteq rels

Complete(r) == Applied(r, Len(PlanOf(r)) + 1)

\* Two processes that took the same run_id: same source, same second.
Shared(k) ==
    \E r1, r2 \in Run :
        /\ r1 # r2
        /\ \A r \in {r1, r2} : proc[r].pc # "idle" /\ IdOf(r) = k

\* No relationship dangles: both endpoints of whatever the batches committed
\* are nodes of the graph, and no row without a key became a node, whatever
\* processes interleave, fail or are killed (loader.py 88, 115, 120-126).
GraphWellFormed ==
    /\ NoKey \notin nodes
    /\ rels \subseteq nodes \X nodes

\* An IngestionRun that says "loaded" is the run of a process whose whole plan
\* is in the graph, the batches skipped after _MAX_RETRIES excepted; one that
\* says "quality_fail" is the run of a process that exits with an error.
StatusHasWitness ==
    \A k \in RunId :
        /\ log[k].status = "loaded" =>
             \E r \in Run : /\ IdOf(r) = k
                            /\ proc[r].pc \in {"hooks", "done"}
                            /\ proc[r].exit # "error"
                            /\ Complete(r)
        /\ log[k].status = "quality_fail" =>
             \E r \in Run : IdOf(r) = k /\ proc[r].exit = "error"

\* The command exits 0 only when its whole plan is in the graph, again up to
\* the skipped batches, and only batches of run_query_with_retry are skipped.
ExitOkIsComplete ==
    \A r \in Run :
        /\ proc[r].exit = "ok" => Complete(r)
        /\ \A j \in proc[r].skipped : PlanOf(r)[j].kind = "retry"

\* An IngestionRun keeps its final status, unless two processes of the same
\* source were started in the same second and so share the run_id.
FinalStatusKept ==
    [][\A k \in RunId :
         /\ log[k].status \in {"loaded", "quality_fail"}
         /\ log'[k].status # log[k].status
         => Shared(k)']_vars

\* A "loaded" run shows an error, the one coalesce kept from an earlier write,
\* only when two processes share its run_id.
StaleErrorOnlyIfShared ==
    \A k \in RunId : log[k].status = "loaded" /\ log[k].error => Shared(k)

\* Every process that was started ends: the retries of a batch are bounded.
EveryRunEnds ==
    \A r \in Run : (proc[r].pc # "idle") ~> (proc[r].pc = "done")
=============================================================================
