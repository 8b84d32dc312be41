--------------------------- MODULE CnpjMemberships ---------------------------
(***************************************************************************)
(* How etl/src/bracc_etl/pipelines/cnpj.py keeps the partners of companies: *)
(* SOCIO_DE, one relationship per partner and company, is the current view; *)
(* SOCIO_DE_SNAPSHOT, one per membership_id, is the history behind it.     *)
(*                                                                         *)
(* Two implementations compute the view.  run() projects the rows of its   *)
(* own file with pandas and loads the view before the history;             *)
(* run_streaming() loads the history chunk by chunk, then deletes the view *)
(* and rebuilds it in Cypher from all the history in the graph, in two     *)
(* transactions.  Processes may overlap, fail or be killed at any commit.  *)
(* The nodes at both ends exist: EtlRun models how they get there.         *)
(***************************************************************************)
EXTENDS Integers, Sequences, FiniteSetsExt

CONSTANTS
    Run,        \* processes, each of which runs once
    Pair,       \* a partner and a company
    LabelOf,    \* the partner's label, which splits the load: Person, Partner, Company
    Snapshot,   \* snapshot dates; 0 is the empty string
    Entry,      \* entry dates; 0 is the empty string
    Role,       \* tipo_socio and qualificacao
    NoRow,      \* no relationship
    Jobs,       \* what a process may be started with
    NoJob,      \* the job of a process that is not running
    ChunkSize   \* rows per commit

\* A row of socios: its membership_id is the hash of all of it.
Row == [pair : Pair, snap : Snapshot, entry : Entry, role : Role]

ASSUME CnpjAssumption ==
    /\ LabelOf \in [Pair -> 1 .. 3]
    /\ NoRow \notin Row
    /\ Snapshot \subseteq Nat
    /\ Entry \subseteq Nat
    /\ NoJob \notin Jobs
    /\ Jobs \subseteq [streaming : BOOLEAN, history : BOOLEAN, rows : Seq(Row)]
    /\ ChunkSize \in Nat \ {0}

VARIABLES
    socio,     \* SOCIO_DE, with the row its properties come from
    snapshots, \* SOCIO_DE_SNAPSHOT
    proc,      \* the processes
    overlap,   \* history: two processes were once running together
    rebuilt    \* history: the last write of the view was a rebuild

vars == <<socio, snapshots, proc, overlap, rebuilt>>

Kinds == {"socio", "snapshot", "wipe", "rebuild"}

\* left: the rows of the job's file, by their position, that SOCIO_DE or SOCIO_DE_SNAPSHOT
\* is still to be loaded with; {0} while a query of the rebuild is to come.
Proc == [pc : {"idle", "running", "done", "cut"}, job : Jobs \cup {NoJob},
         left : [Kinds -> SUBSET Nat]]

TypeOK ==
    /\ socio \in [Pair -> Row \cup {NoRow}]
    /\ snapshots \subseteq Row
    /\ proc \in [Run -> Proc]
    /\ overlap \in BOOLEAN
    /\ rebuilt \in BOOLEAN

Running == {r \in Run : proc[r].pc = "running"}

-----------------------------------------------------------------------------
\* The order of two rows of a pair: the snapshot, then the entry date.
Newer(x, y) ==
    \/ x.snap > y.snap
    \/ x.snap = y.snap /\ x.entry > y.entry

\* Mutant: the entry dates are sorted the other way round.
MutLatestProjection(rows) ==
    LET Ahead(x, y) == x.snap > y.snap \/ (x.snap = y.snap /\ x.entry < y.entry)
    IN  {k \in 1 .. Len(rows) : \A j \in 1 .. Len(rows) : rows[j].pair = rows[k].pair =>
           Ahead(rows[k], rows[j]) \/ (~Ahead(rows[j], rows[k]) /\ k <= j)}

\* _latest_projection: a stable sort, newest first, and the first row of every
\* pair; an empty date is the oldest.
LatestProjection(rows) ==
    {k \in 1 .. Len(rows) : \A j \in 1 .. Len(rows) : rows[j].pair = rows[k].pair =>
       Newer(rows[k], rows[j]) \/ (~Newer(rows[j], rows[k]) /\ k <= j)}

\* _rebuild_latest_projection_from_snapshots, per pair: the rows of the latest
\* date that have the latest entry date, any of them; none without a date.
Rebuilt(pair, rows) ==
    LET dated == {x \in rows : x.pair = pair /\ x.snap # 0}
    IN  IF dated = {} THEN {NoRow}
        ELSE {x \in dated : \A y \in dated : ~Newer(y, x)}

-----------------------------------------------------------------------------
\* What a run has to write: positions for SOCIO_DE and for SOCIO_DE_SNAPSHOT, and whether
\* it rebuilds.
Plan(socios, history, queries) ==
    [socio |-> socios, snapshot |-> history, wipe |-> queries, rebuild |-> queries]

\* transform and load: with history, the view of the file and then its rows.
BatchPlan(job) ==
    IF job.history THEN Plan(LatestProjection(job.rows), 1 .. Len(job.rows), {})
    ELSE Plan(1 .. Len(job.rows), {}, {})

\* run_streaming
StreamPlan(job) ==
    IF job.history THEN Plan({}, 1 .. Len(job.rows), {0})
    ELSE Plan(1 .. Len(job.rows), {}, {})

\* Mutant: the view is rebuilt first.
MutBefore == [socio |-> {}, snapshot |-> {"socio", "wipe", "rebuild"},
              wipe |-> {"socio"}, rebuild |-> {"socio", "wipe"}]

\* What is written before the first of each kind.
Before == [socio |-> {}, snapshot |-> {"socio"}, wipe |-> {"socio", "snapshot"},
           rebuild |-> {"socio", "snapshot", "wipe"}]

\* One load per label, and per chunk of the file when streaming.
LoadOf(job, k) ==
    LabelOf[job.rows[k].pair] + IF job.streaming THEN 3 * ((k - 1) \div ChunkSize) ELSE 0

\* The next batch of the next load.  That of a projection, whose rows are of different
\* pairs, takes them in the order of the file and not of the pairs' keys.
Batch(job, ks) ==
    LET load == {k \in ks : \A j \in ks : LoadOf(job, k) <= LoadOf(job, j)}
    IN  {k \in load : Cardinality({j \in load : j < k}) < ChunkSize}

-----------------------------------------------------------------------------
Ended(pc) == [pc |-> pc, job |-> NoJob, left |-> Plan({}, {}, {})]

Init ==
    /\ socio = [p \in Pair |-> NoRow]
    /\ snapshots = {}
    /\ proc = [r \in Run |-> Ended("idle")]
    /\ overlap = FALSE
    /\ rebuilt = FALSE

Start(r) ==
    /\ proc[r].pc = "idle"
    /\ \E job \in Jobs :
         proc' = [proc EXCEPT ![r] =
                    [pc |-> "running", job |-> job,
                     left |-> IF job.streaming THEN StreamPlan(job) ELSE BatchPlan(job)]]
    /\ overlap' = (overlap \/ Running # {})
    /\ UNCHANGED <<socio, snapshots, rebuilt>>

\* The next commit of a process is of the given kind and writes ks.
Commits(r, kind, ks) ==
    /\ proc[r].pc = "running"
    /\ proc[r].left[kind] # {}
    /\ \A k \in Before[kind] : proc[r].left[k] = {}
    /\ proc' = [proc EXCEPT ![r].left[kind] = @ \ ks]
    /\ UNCHANGED overlap

\* MERGE (a)-[r:SOCIO_DE]->(b) SET r...: the last row of a pair wins.
WriteSocio(r) ==
    LET rows == proc[r].job.rows
        batch == Batch(proc[r].job, proc[r].left["socio"])
        of(p) == {k \in batch : rows[k].pair = p}
    IN  /\ Commits(r, "socio", batch)
        /\ socio' = [p \in Pair |-> IF of(p) = {} THEN socio[p] ELSE rows[Max(of(p))]]
        /\ rebuilt' = FALSE
        /\ UNCHANGED snapshots

WriteSnapshots(r) ==
    LET batch == Batch(proc[r].job, proc[r].left["snapshot"])
    IN  /\ Commits(r, "snapshot", batch)
        /\ snapshots' = snapshots \cup {proc[r].job.rows[k] : k \in batch}
        /\ UNCHANGED <<socio, rebuilt>>

\* MATCH ()-[r:SOCIO_DE]->() DELETE r, whoever wrote it.
WipeSocio(r) ==
    /\ Commits(r, "wipe", {0})
    /\ socio' = [p \in Pair |-> NoRow]
    /\ rebuilt' = FALSE
    /\ UNCHANGED snapshots

RebuildSocio(r) ==
    /\ Commits(r, "rebuild", {0})
    /\ socio' \in {f \in [Pair -> snapshots \cup {socio[p] : p \in Pair}] :
                     \A p \in Pair :
                        IF Rebuilt(p, snapshots) = {NoRow} THEN f[p] = socio[p]
                        ELSE f[p] \in Rebuilt(p, snapshots)}
    /\ rebuilt' = TRUE
    /\ UNCHANGED snapshots

Finish(r) ==
    /\ proc[r].pc = "running"
    /\ \A kind \in Kinds : proc[r].left[kind] = {}
    /\ proc' = [proc EXCEPT ![r] = Ended("done")]
    /\ UNCHANGED <<socio, snapshots, overlap, rebuilt>>

\* A commit fails or the process is killed: what is committed stays.
Cut(r) ==
    /\ proc[r].pc = "running"
    /\ proc' = [proc EXCEPT ![r] = Ended("cut")]
    /\ UNCHANGED <<socio, snapshots, overlap, rebuilt>>

Step(r) ==
    \/ WriteSocio(r)
    \/ WriteSnapshots(r)
    \/ WipeSocio(r)
    \/ RebuildSocio(r)
    \/ Finish(r)

Next == \E r \in Run : Start(r) \/ Step(r) \/ Cut(r)

Spec == Init /\ [][Next]_vars

-----------------------------------------------------------------------------
\* No process is running and none was cut short or overlapped another.
Quiet ==
    /\ \A r \in Run : proc[r].pc \in {"idle", "done"}
    /\ ~overlap

\* A partner with a dated row in the history is a partner in the view: the view
\* loses it only while a rebuild is under way, or when a process was cut short
\* or overlapped another (cnpj.py 939-963, 1254-1256).
DatedIsProjected ==
    Quiet => \A x \in snapshots : x.snap # 0 => socio[x.pair] # NoRow

\* The view is the latest of the history, as the rebuild of Cypher computes it
\* (cnpj.py 946-962), for every pair with a dated row: after one run with
\* history, also when pandas computed it (870-908), and after any number when
\* the last one to write the view rebuilt it. A batch run over an older file
\* that comes later puts the older row back (999-1003).
ImplementationsAgree ==
    Quiet /\ (rebuilt \/ \E r \in Run : {d \in Run : proc[d].pc = "done"} = {r}) =>
        \A x \in snapshots :
            x.snap # 0 => socio[x.pair] \in Rebuilt(x.pair, snapshots)

=============================================================================
