# Verification of br/acc

TLA+ modules, model-checking runs and machine-checked proofs about the program
in this repository: an open graph of Brazilian (and, in `aracc/`, Argentine)
public data, the scripts that download it, the pipelines that load it, the API
that serves it and the browser application on top.

    cd tla
    tlc -workers 2 -config MCEtlRun.cfg MCEtlRun     # one run
    tlapm Bootstrap_proofs.tla                       # one module of proofs

`PROJECT.json` lists the components, the runs with their properties, a mutation
of the code for every property, the source lines behind every definition, the
hazards and the theorems.

Contents: 1 the system, 2 the modules, 3 the runs, 4 fairness, 5 the proofs,
6 disagreements between the code and its documentation, 7 what is not modelled,
8 the plan.


## 1. The system

```
   downloaders ──files──> ETL pipelines ──Cypher──> Neo4j <──Cypher── API <──HTTP── browser
        ^                     ^                       ^                              application
        └──── bootstrap orchestrator ────reset────────┘
```

Everything meets in the Neo4j graph, which is shared by processes that know
nothing of one another: several `bracc-etl` processes, the containers of the
bootstrap orchestrator, and the asynchronous workers of the API. Nothing takes a
lock across two statements, and almost every statement is a transaction of its
own. That is where much of what is hard about this system comes from; the rest
comes from files that outlive the process that was writing them, and from answers
that reach the browser when it is no longer where it asked.

| Component | State it keeps | Operations | What makes it correct | Module |
|---|---|---|---|---|
| ETL pipeline base, batch loader, linking hooks (`etl/src/bracc_etl/base.py`, `loader.py`, `linking_hooks.py`) | nodes and relationships of the graph; one `IngestionRun` node per run | start, extract/transform, one commit per batch, retries, final status, hooks | the status of an `IngestionRun` and the exit code are true of the graph; retries end | EtlRun |
| Bootstrap orchestrator (`scripts/run_bootstrap_all.py`) | list of rows, files on disk, `latest/` report | reset the graph, prepare a source, ingest it in a container, publish the report | `loaded` rows are true, the exit code follows the exit policy, one failure does not stop the rest | Bootstrap |
| The source pipelines (49 of them: `etl/src/bracc_etl/pipelines/`, `aracc/aracc_etl/pipelines/`), transforms | the nodes and links of each source | transform a file into batches, load them, again and again | one node per fact and per party, loaded again without a trace, links to whom is meant, names kept | GraphLoad, six modules of sources, SourceLoads |
| CNPJ pipeline (`pipelines/cnpj.py`) | `SOCIO_DE` (the current view) and `SOCIO_DE_SNAPSHOT` (the history) | batch run, streaming run, rebuild of the view | the view is the latest row of the history, whichever implementation computed it | CnpjMemberships |
| PNCP downloader (`etl/scripts/download_pncp.py`) | a JSON file per month, a checkpoint file | windows, pages with retries, merging, checkpointing, resuming | nothing checkpointed is lost, nothing is there twice, a finished crawl is complete, resuming makes progress | PncpDownload |
| Other downloaders (44 scripts, `_download_utils.py`, `runner.py download`, `aracc_etl/download.py`) | an output directory with archives, partial files, markers | fetch, resume, extract, convert, rename, mark | a file that counts as done is whole; success means complete; retries succeed | DownloadScripts, Downloads |
| Investigation API (`routers/investigation.py`, `services/investigation_service.py`, its queries), user lookup | investigations with owner, title, entities, annotations, tags, share token; `User` nodes | register, authenticate, create, update, delete, add/remove entity, notes, share, revoke, open by token | operations look atomic; only the owner writes; a token opens one investigation and never again after it is revoked | InvestigationBook, InvestigationService |
| Session store (`stores/auth.ts`, `App.tsx`), the session cookie | token, user, flags; the cookie | log in, register, log out, restore, reload | the user shown is the one whose cookie is sent; a sign-out lasts | SessionStore |
| Investigation screens (`stores/investigation.ts`, pages and panels) | list, active investigation, its notes, URL | fetch, create, edit, delete, notes, effects on the URL | what is shown is what the API has, of the user and the investigation at hand | Workspace |
| Entity timeline (`useEntityTimeline.ts`, `EntityAnalysis.tsx`, `TimelineView.tsx`, `entity_timeline.cypher`) | list, cursor and flags of the hook; requests in flight | open and leave the tab, navigate, scroll, answers | every event once, in order, of the entity shown; loading ends | EntityTimeline |
| Graph and statistics caches; aracc linker; search, patterns, score, public endpoints; middleware; PDF export; infrastructure and repository scripts; Streamlit prototype | none, or that of one request, or a cache | read queries, rewrites, sequences of commands | see section 7 | |

How they interact: the orchestrator starts ETL processes and reads their exit
code only (`Bootstrap` EXTENDS `EtlRun`); its graph reset deletes users and
investigations too (`Wipe` of `InvestigationService`); downloaders hand files to
pipelines (the outputs of `Downloads` are what the pipelines read); the pipelines
meet in the nodes they share (`SourceLoads` loads every pair of them into one
graph); the browser carries a cookie that `SessionStore` gives it to the API that
`Workspace` talks to, and applies answers in whatever order they arrive.

The behaviours that are hard, and where they are modelled: interleaved
auto-commit statements of several processes (EtlRun, Bootstrap, CnpjMemberships);
an orchestrator killed while its container lives on (Bootstrap); loads that fail
halfway and are started again, files with corrected, moved and dropped records
(SourceLoads); a transaction for authentication and another for the query,
two-phase deletes, lost answers (InvestigationService); kills in the middle of a
file write, connections that break off, files that change on the server between a
partial download and its continuation, retries (PncpDownload, Downloads); answers
out of order and effects that run after other effects (EntityTimeline,
SessionStore, Workspace).


## 2. The modules

Constants are parameters with a named assumption; an action is an atomic step of
the code: one auto-commit transaction, one file-system call, one synchronous
piece of JavaScript between two awaits. Variables called "history" in their
module record something about the past for a property and no action reads them.
Operators named `Mut...` are the mutations the properties are tested with; no
action uses them.

### EtlRun

`bracc-etl run --source S` as a set of processes over one graph.

| Model | Code |
|---|---|
| `nodes`, `rels` | the graph, by node key |
| `log[<<source, second>>]` | the `IngestionRun` with that `run_id` (`base.py:35`: source and the clock in seconds) |
| `proc[r]` | a process between two statements: where it is, its next batch, its failed attempts, the batches it skipped |
| `Start`, `Prepare`, `Finish`, `Fail` | `Pipeline.run` with `_upsert_ingestion_run`, whose write may fail and is only logged, and whose `coalesce` keeps earlier `finished_at` and `error` |
| `WriteBatch` | `_run_batches`: rows without their key are dropped, relationships MATCH their ends |
| `TransientError`, `DriverError` | `run_query_with_retry` (only it retries, and then skips the batch); a lost connection after which the batch may be committed or not |
| `Hooks` | `run_post_load_hooks`, after the status is final |
| `Kill`, `Tick` | the environment |

A source's `load()` is a *plan*, the sequence of batches it writes; properties
and proofs hold for any plan.

### Bootstrap

EXTENDS EtlRun: ingesting a source is EtlRun's `Start`, and `IngestDone` reads
`proc[r].exit` only. `Launch` has the checks that can end the script before
anything happens; `Reset` deletes everything, `IngestionRun`s included;
`PrepareSource` is one iteration of the loop up to a terminal row or the ingest
command, with one disjunct per acquisition mode of `registry.py`; `RemoveLatest`
and `CopyLatest` are the two steps that replace the report. `KillBoot` leaves the
container running, under the next invocation.

### GraphLoad, the sources, SourceLoads

`GraphLoad` has what the pipelines share: records, documents that are whole or
masked, deduplication, and the effect of a batch on the graph (`load_nodes`,
`load_relationships`, the Cypher of `run_query`). `SanctionSources`,
`FinanceSources`, `ServiceSources`, `ProcurementSources`, `PoliticalSources` and
`ArgentineSources` have one operator per pipeline: the batches its `transform` and
`load` make of the records of its files, in the order of `load`, with the ids it
computes. `SourceLoads` loads histories of files: the next file of the same source
with records corrected, moved, dropped and added, or a file of another source; a
pipeline may fail between two batches and is then started again on the same file.

A record is one value which each source reads with its own names for the fields.
Three of its fields are not in the file: `who` and `who2` are the people or
companies meant and `fact` is the sanction, contract or payment meant. The
properties speak of them; the pipelines cannot read them.

The sources that break a property are named in a set beside it, each with its reason
(`ByPosition`, `ByContent`, `ByNumber`, `Indistinct`, `ByName`, `Masked`, `OwnKeys`,
`OthersEnds`, `FirstFile`, `NoName` ...): these sets are a result, the properties are checked of
all other sources, and the sets were found by taking them as empty first. They are no
wider than they have to be: `ByNumber` excepts the records without a number and not the
source, `ByName` is of pairs of a source and a type of link, `FirstFile` of the records
that are not in the first file.

A batch is applied row by row (`LoadNode`, `LoadLink`, where `NodesOf` merges the ends of a
row and `LinkEnds` the links between them), in a function on the number of rows
(`RowGraphs`, `PartGraphs`, `BatchGraphs`). The end of `SourceLoads` has three things that the
proofs are about. A write is what a row of nodes, or the end of a link that is merged,
looks for and sets (`Writes`); `Identified` says of a history's writes that no label with
records is looked for by two keys, that documents are set by whoever looks for them, that a
party's writes look for the same, and that a name that is set is one. What the graph owes to the writes of the
files whose load was begun, `Done`, are three statements about records, links and lost
rows. `Steady` looks at loads that do not fail: what a row finds it would find again at the
end of its batch or any later one. `RowsAreFit` checks `Identified` and `Steady` of every
history.

### CnpjMemberships

The commits of a batch run (`BatchPlan`: view first, then history) and of a
streaming run (`StreamPlan`: history by chunk, then the view is deleted and
rebuilt), of any number of processes. What a process has `left` is, for each kind of
commit, the positions in its file still to be written; `Batch` takes the next of the
chunk and the label at hand, and `Before` orders the kinds. `LatestProjection` is the pandas
computation, `Rebuilt` the Cypher one; a sequence of rows is a file. `rebuilt` is
history: who wrote the view last.

### PncpDownload

One invocation is `Start`, then `TakeCombo` for a window and modalidade, pages
(`Answer`, `PageError`, `PageRefused`), `Group`, `OpenFile`/`CloseFile` per month,
`SaveCheckpoint`, and after the loop `Report`. Opening and writing are two steps
because `write_text` truncates first; what a kill leaves is `Torn`: "cut" is not
JSON, "split" is not UTF-8 either. `Publish` and `NextDay` are the world, which does
not wait for the crawl; they happen while it runs, so pages of one window may be
of different moments. The code does not say how the API sorts: `newestFirst` is
either. Sorted newest first, a publication moves the others back, and a page asked
for later brings a record again or, with workers, misses one; `moved` remembers which
records that concerns, and `got` counts how often each came, because `_flush_to_disk`
looks for a new record in the file only and not among the new ones. `Crash` is the
`UnicodeDecodeError` nobody catches; the end of the process by another exception (a
page that is no JSON, a full disk) is a `Kill`. Appending one line to the checkpoint
file is one step.

### DownloadScripts and Downloads

`DownloadScripts` has one operator per script: the plan of its steps (fetch, hold,
save, extract, derive, move, mark, unlink), each with the files whose presence skips
it, what a failure of it gives up, and how a fetch behaves: "resume" is
`download_file` with its `.partial` file, its Range header and its answers 200, 206
and 416; others write under the final name, or rename at the end. `Downloads` takes
the steps of one script's plan, writes file by file and part by part, and lets
requests fail or break off (`Fail`), the process be killed (`Kill`), the publisher
put another version under the same address (`Publish`), and the operator start it
again (`Again`, `Start`). A file is a sequence of parts, each of a version of the data of
a date, so a file that is half old and half new can be told from either. An archive that
breaks off has no directory, and `BadArchive` deletes it. One that was joined from two
versions has the second one's: it is extracted up to somewhere (`Spoil`), and then the checksum is
wrong, which deletes it, or `zlib` raises what nobody catches, which keeps it. A CSV of two
versions, or a part of one, may be more than `read_csv` can parse, and is then left out (`Read`).
The size of a partial file counts decoded bytes and the Range header those that are sent; with a
publisher that compresses (`Compressed`) a part is then answered by 416, by an error, or from the beginning (`Miscounted`).
A list that comes without details is held as its first part, and the requests for the rest may fail one by one (`Answer`).

### InvestigationBook and InvestigationService

`InvestigationBook` is what a client may believe: a book of pages changed by one
atomic operation at a time, with ids drawn once. `InvestigationService` is the
code: a request is authenticated in one transaction (`Authenticate`) and runs its
query in another, one action per query (`CreateInvestigation` ... `Revoke`),
except that `investigation_delete.cypher` collects tags and annotations
(`DeleteCollect`) before it deletes (`DeleteCommit`). `Answer` may lose the answer
of what was committed; `QueryFails` rolls back; `Wipe` is the orchestrator's reset.
`Book == INSTANCE InvestigationBook WITH page <- inv, spent <- used` is the
refinement: stray notes, unowned nodes and requests are invisible.

### SessionStore

The store, the cookie, the requests in flight in the order they were sent and the
guards of the routes, which decide what can be called when. `Login` is a request
whose answer sets the cookie and the token and sends `/me` at once
(`LoginAnswered`, `MeAnswered`); `Logout` clears the store before its request is
answered; `Reload` keeps the cookie only; `Expire` is the cookie's age. `late` is
history: an answer overtook another one, came after the sign-out of the one it was
for, or did not come.

### Workspace

The store, the page's effects and the API they talk to, of two users who sign in
one after the other in one browser. A request is handled by the API (`Served`,
`Read`, `Create` ...) and answered later, in any order, or is lost; effects send
requests of their own when the active investigation changes (`Becoming`, `Fetches`).
The store outlives the page and the session, as in the code. `disturbed` is history:
a request was handled out of turn or got lost since the page was last opened with
nothing in flight.

### EntityTimeline

The hook's state, the page's effects and the requests in flight. A request is
old when the hook's effect has run since it was sent. `Navigate` is two effects
in React's order: the hook's runs first, for the new entity with the timeline
still enabled, and sends a request; the page's then disables the timeline.
`Respond` applies an answer to whatever the hook shows, as the code does. `Answers`
is `entity_timeline.cypher`: events of one date come in any order.

### MC modules and proofs

`MC*.tla` give the constants their values for TLC. `Bootstrap_proofs` (which proves about
`EtlRun` first), `InvestigationService_proofs`, `PncpDownload_proofs`, `Downloads_proofs`,
`SourceLoads_proofs`, `CnpjMemberships_proofs`, `Workspace_proofs` and `Browser_proofs` (about
`EntityTimeline`, then `SessionStore`) hold the theorems.


## 3. The runs

Every run is exhaustive over its instance and takes less than four
minutes with two workers. Every property of a passing run is violated when one
definition of the model is mutated the way a bug in that code would (`PROJECT.json`
"mutants").

| Run | Instance | Question |
|---|---|---|
| `etl_run` | 2 processes of one source, a plan of 4 batches of all kinds with a row without key and a relationship whose end only a later batch writes, 3 attempts, 2 seconds; 0.37 M states | is the status and the exit code true, whatever interleaves, fails or is killed; do runs end |
| `bootstrap` | 2 invocations over 5 sources, one per acquisition mode, 3 processes, with and without reset; 0.77 M states | do rows, report and exit code say what happened; does an invocation end |
| `source_loads` | 20,154 histories: each of the 49 sources with two files of up to two records, and each pair of sources with one file each; two facts that differ in everything or in one thing, a correction of any field, records without a number, without a reference or missing from one of the source's files, namesakes with and without a document; 1 failure; 0.68 M states | what loading again, after a failure, a correction or another source leaves in the graph |
| `cnpj_memberships` | 3 processes, files with two roles, two dates, empty dates and a tie; 0.25 M states | does the view have every dated pair, do both implementations agree |
| `pncp_download` | 3 records in 2 months, 5 days, windows of 3 days, pages of 1, either order, 2 attempts, 1 kill or interrupt; 2.5 M states | what is lost, doubled or left out; do reruns finish |
| `pncp_progress` | the same, files cut into no JSON | is progress never lost (it is) |
| `downloads` | each script, for one date or year or for two, files of 2, 3 and 1 parts, 2 runs, 2 troubles, retries without bound; 1.4 M states | what a run skips, what success means, what is left of other dates, do retries succeed |
| `investigations` | 2 users, 2 investigations, 2 requests, 1 annotation, 1 tag, 2 tokens, 2 entities behind one id, 2 hours; 1.7 M states | is the service the atomic book; are notes, owners and tokens consistent |
| `share_link_ttl` | 1 of each, 2 tokens | does a link expire (it does not) |
| `session` | 2 users, 4 requests in flight, 2 reloads; 0.16 M states | is the user shown the one of the cookie; does a sign-out last |
| `workspace` | 2 users, 2 investigations, 1 edit or note, 3 requests in flight | are the list and the notes those of the API |
| `timeline` | entities with 5 and 2 events, 3 of one date, pages of 2, 3 requests; 0.11 M states | is the list right whatever order answers come in; does loading end |

What the properties say, and what they had to admit:

- *EtlRun.* `StatusHasWitness`: an `IngestionRun` that says `loaded` belongs to a
  process whose whole plan is in the graph, the batches skipped after
  `_MAX_RETRIES` excepted; measured by the relationships whose ends were there when load()
  began or were written by the process itself, because the loader
  MATCHes ends and silently creates nothing otherwise. `ExitOkIsComplete`: the same
  of exit code 0. `FinalStatusKept` and `StaleErrorOnlyIfShared`: a final status
  changes, or `loaded` comes with an error, only when two processes of one source
  started in the same second, since they then share a `run_id`. `EveryRunEnds`.
- *Bootstrap.* `LoadedRowComplete` (a `loaded` row is true of
  the graph as it is since the last reset), `LoadedSinceReset` (an `IngestionRun`
  that says `loaded` may be untrue only of a process that outlived the invocation
  before a reset), `ExitPolicy` (`docs/bootstrap_all.md`), `FailureIsReported`,
  `BootstrapEnds`.
- *Sources.* `FailureLeavesNoTrace`: a load that failed anywhere and was started again
  gives the nodes and links of a load that did not fail, in all 49 sources.
  `RecordsStay` (`MovedRecordStays`, `CorrectedInPlace`), `FactsApart`: which ids survive a row more
  at the top of the file, which survive a correction of date, amount, kind, reference or name, and
  which leave out what tells two facts apart. Eleven sources give a record without a number an id made of
  such fields (`ByNumber`); the properties then speak of their numbered records.
  `LinkedToWhoIsMeant`: nine types of links go to everyone of a name (`ByName`), masked documents are
  keys; all other links go to who is meant, namesakes or not. `OneNodePerParty`: keys of a
  source's own. `RowsFindTheirEnds`: the types of links that are lost for good when the other
  source is loaded later, and the three that are lost when a record is missing from the
  source's first file. `NamesAreKept`: who overwrites a name by nothing or by a document.
  `RowsAreFit`: the labels, keys and names of the rows are what the proofs of section 5 ask for, and no row of
  a load looks for what a later row of it changes.
- *CNPJ.* `DatedIsProjected` and `ImplementationsAgree` when no process was cut short
  or overlapped another; otherwise partners may be missing, since the rebuild deletes
  the view in one transaction and writes it in the next. Pairs without a date and
  batch runs over older files are the exceptions in their definitions.
- *PNCP.* `LostOnlyByTornWrite`: a checkpointed record is in its file unless a kill or
  an interrupt once caught that file half written. `FinishedRunIsComplete`: a run that
  ends has every record published before its last day, but those of given-up pages, of
  torn months, those that moved to another page meanwhile, and those published on the
  last day of a full window after that window had been asked for. `ResumeCompletes`:
  reruns check every window off unless a file is no UTF-8. `NoDuplicates`: no file has a
  record twice that did not move to another page while its window was being fetched.
  Without that exception TLC violates this property and `FinishedRunIsComplete`.
- *Downloads.* `SkippedIsWhole`: what makes a later run skip a download is a whole
  version of it at every moment, as long as the publisher changes nothing; `CutShortIsKept` names the
  scripts that write under the final name, so that a cut file is kept. `SuccessIsComplete`:
  exit code 0 means that the output has all of one version for every date asked for and
  not logged as failed; without an archive's checksum (`NoChecksum`) only while the
  publisher changes nothing, since a partial file is continued with another version's
  bytes. `OutputIsOfAsked`: nothing of other dates is in the output; the scripts of the
  Portal da Transparência take any file an earlier run extracted (`SharedDirectory`).
  `RetriesSucceed`: a script that is started again until it ends well does so, or stands before
  a file that it keeps and reads on every run: an archive of two versions, or a CSV of two
  versions or a part (`ReadAgain`). With a publisher that compresses (`Compressed`) nothing is promised, and
  `senado_parlamentares` succeeds without the details that were not answered (`LeavesOut`).
- *Investigations.* `ImplementsBook` is the main one. `StrayOnlyByRace`: a note
  survives its investigation only when it was attached between the collection and
  the commit of a delete. `TokenNeverRevives`, `OnlyOwnerWrites`, `WellKept`.
- *Session.* `SessionIsOne` and `SignedOutStaysOut` unless an answer was late or lost:
  nothing cancels a request, so an answer for a user who signed out meanwhile is applied.
- *Workspace.* `ListIsTheirs`, `NotesAreOfActive`: right whatever was done before, once the
  page was opened with nothing in flight and the answers came in turn. The store is not
  cleared on sign-out; the properties hold because the page asks again.
- *Timeline.* `ShownInOrder` and `GapsOnlyAtPageEnds` unless an answer to an earlier
  effect's request was applied (`stale`); `LoadingEnds`.

Bounds, and why they are enough. Two processes or requests suffice for every race
between two statements; a third process is there where one has to outlive two others
(`bootstrap`, `cnpj_memberships`). Two records suffice for ids that collide, move or are
corrected, since each is compared with one other; they differ in one field at a time, so that an
id that leaves it out or hashes it is seen. Three people, two of one name, and two
companies give each end of a link somebody else to go to; a registry that knows one
party of each kind is there for what is overwritten; two sources for every order of loading, since a link has two ends. Two dates tell what was asked for from what was not;
files of 2, 3 and 1 parts grow, shrink and can be cut at both ends, so that a
continuation can fit, be too long (416) or join two versions; the second trouble hits the
retry of the first. `cepim`, `leniency` and `pep_cgu` have `ceaf`'s plan and are checked
with it; `camara`, `siop`, `sanctions`, `tse` and `transparencia`, the longest plans, have one
trouble, and `transparencia` one run besides its retries. `MaxAttempts` is 2 where the code has 4.
Two investigations tell a change of the wrong one
from a change of one's own; two tokens tell replacing from revoking. Four requests in
flight are a sign-in and a sign-out of each of two users; three are two effects and what
the user did before them. Three attempts are
the first, a middle and the last one. A first window that grows for two days before it
is full, a month boundary inside it and up to three pages in it are what overlapping
checkpoints, merging and parallel pages need; one kill suffices to tear a file, and what
is torn is overwritten whole. Three events of one date are one more than a page.
`MaxNow`, `MaxKills`, `MaxInvocations`, `MaxAborts`, `MaxCalls`, `MaxReloads`,
`MaxRequests`, `MaxBusy`, `MaxMade`, `MaxChanges`, `MaxRuns`, `MaxTroubles` and `LastDay` bound the environment
only. `SYMMETRY` is used where only safety is checked (`investigations`,
`cnpj_memberships`, `workspace`). `CHECK_DEADLOCK FALSE` stands where the system may stop: when every
process has run, every invocation or history has ended, a download ended well or the pool of fresh ids is used up; its cfg
says so.


## 4. Fairness

Fairness is assumed of what the code itself does once it was started, never of the
environment: nobody has to start a process, launch an invocation, let time pass,
kill, publish or click.

- `EtlRun!FairSpec`: weak fairness of the steps of each process. Its statements are
  synchronous calls that return or raise (the driver has timeouts).
- `Bootstrap!FairBootSpec`: the same for the containers, and weak fairness of the
  script's own steps, which wait for one subprocess at a time.
- `PncpDownload!FairSpec` and `Downloads!Spec`: weak fairness of the script, and of starting it again,
  because "reruns complete" and "retries succeed" are about somebody who reruns it until it ends well, as
  the docstrings say; kills and failed requests are bounded, so that they stop at some point.
- `EntityTimeline!FairSpec`: weak fairness of every request being answered or
  failing: `fetch` settles.

A retry loop is fair only as a whole: nothing is assumed about attempts succeeding,
so the liveness properties of EtlRun and Bootstrap hold because attempts are counted.


## 5. The proofs

Eight modules are proved about with TLAPS for all values of the constants, under the named
assumptions of their modules (`ConstantsAssumption`, `BootstrapAssumption`,
`InvestigationAssumption`, `PncpAssumption`, `SizeAssumption`, `PlansAssumption`,
`SoundAssumption`, `RegistryAssumption`, `HistoriesAssumption`, `CnpjAssumption`, `SessionAssumption`, `WorkspaceAssumption`,
`TimelineAssumption`: types of parameters, that there is at least one attempt, one
event per page and so on, and for the download scripts what their plans have in common). TLC evaluates the same assumptions in every run.

**Bootstrap_proofs**, the part about EtlRun (any processes, sources, plans, retries). `TypeCorrect` and
`GraphStaysWellFormed` from `Typed`, which is inductive. `StatusIsTruthful`,
`ExitIsTruthful`, `StaleErrorMeansShared`, `FinalStatusIsKept` from `Inv`: `Typed`; for
every process, what its earlier batches wrote is in the graph (`Applied(r, i)`), where
it is in the plan, and what its exit means; for every `IngestionRun`, the process that
wrote it. The strengthening is needed because `StatusHasWitness` only speaks of the end
of a plan; `Applied` is monotone in the graph (`AppliedMonotone`), so other processes
cannot break it, and grows by one batch per step (`AppliedNext`, `AppliedSkip`).

**Bootstrap_proofs**, the part about Bootstrap (any contract, sources, invocations). The reset breaks what
the first part knows of a running process: its earlier batches are gone. So the
invariant keeps EtlRun's only for processes in `since`, those started after the last reset,
and of the others only where they are in their plan (`Placed`); the step lemmas of
the first part are stated for one process so that they can be used here. Of the invocation it adds
that rows are a prefix of the sources in order, that the process it waits for is in
`since` and of the source that is due, and that a published report has the invocation's rows.
From it `BootTypeCorrect`, `LoadedRowsAreComplete`, `LoadedLogIsTruthful`, `ExitCodeIsTruthful`,
`FailuresAreReported`. What `--sources` leaves of the contract is a sequence of sources by
lemma `Chosen`; the model states the filter by the positions it keeps (`InOrder`), because
the provers cannot look into `SelectSeq`.

**InvestigationService_proofs** (any users, requests, ids). `IndInv` strengthens
`TypeOK` and `WellKept` with `Drawn` (what the graph has was drawn before, so a fresh id
is fresh), `TokensApart` (no two investigations have a token, live or not) and
`CollectedFits` (what a delete collected belongs to its investigation or to nobody any
more: without it a second delete could take another investigation's notes). From it
`TypeCorrect`, `StaysWellKept`, `TokensAreUnambiguous`; `ImplementsTheBook`, the
refinement, by one lemma per query; and `TokensStayDead`, proved of the abstract book
first (`BookTokens`) and carried over. `OnlyOwnersWrite` and `StraysOnlyByRace` need one fact more,
about a delete between its two steps: what it collected belongs to whom it was collected
for, or is gone (`CollectedByOwner`).

**PncpDownload_proofs** (any calendar, windows, pages, retries, kills). `IInv` adds to the
properties: what the window at hand brought is in a month still to be merged or safe
already (`Brought`), the file being written is empty (`Truncated`), and neither the
merge in memory nor what was fetched has a record twice that did not move
(`MergedOnce`, `Fetched`). The last needs `Paged`: the page of a record that was
fetched is not fetched again, and no page before the first; and `NextIsFresh`: between
two combinations nothing is kept. From it `TypeCorrect`, `DeliveredIsKept` and
`NeverTwice`. `FinishedRunsAreComplete` needs two things more.
Windows partition the calendar: every day before the last is in a window that is full
or ends later, by arithmetic on `WindowStarts` (`WindowOf`), and a run that ends has all
its windows in the checkpoint, whichever run put them there (`Planned`). And of a
checkpointed window every record that matches was brought, or its page was given up, or
it moved between pages, or it was published on the window's last day after the window
was asked for (`Answered`); before the checkpoint its page may also be still to come
(`Asked`). Publishing keeps this because a new record is of the day that runs (`Calendar`,
`Keys`).

**Downloads_proofs** (any plans, dates, versions, sizes of files, kills and broken connections).
`SkippedStaysWhole`: a file that makes a later run skip a download is whole. The property
is about what the scripts have in common, so the proof is about that and not about each
of them: `Sound(name)` says of a script's plans that a file to skip for (`Vouching`) is
written in one of two ways only. Either a fetch brings it through its partial file, from
one address (`Brings`), or the step before has just written what it is the copy or the new name of
(`Feeds`), which is an archive's file or what one request before it brought (`Keeps`). This is
a fact about the steps in a plan, not about what they do; `SoundAssumption` states it of
every script the property is about, and TLC evaluates it on the plans of
`DownloadScripts`: the scripts it does not hold of are exactly those the property excepts.
While the publisher changes nothing, and of one that does not compress, the invariant `Good` says that a partial file is a
beginning of its download (`PartialsBegin`), that the writes that are left of a step finish
what is there (`Writing`, in `WritesInPlace`), that what is about to be renamed or marked is whole
(`FedIsWhole`), that no file is of two versions (`OneVersion`), so that no archive spoils, and that what is held in memory is what the step before asked for
(`HeldIsAsked`). TLC checked `IInv` on the run's instance before it was proved. What
`FlattenSeq` returns is proved from its definition by least positions (`FlattenType`).

**SourceLoads_proofs** (any histories, registry and number of failures). What the rows that
the pipelines prepare write, look for and link decides what the graph holds, after any of its
batches and however often a pipeline failed and was started again. Three theorems have no hypothesis
but the shape of rows (`RegistryAssumption`, `HistoriesAssumption`), and say how much of
the run's properties is up to the pipelines alone. `RecordsKeepToTheirIds`: where no
label with records is looked for by two keys, a record is in the node that its own id names, so what the
ids tell apart is apart and what they join is joined. `LinksAreToThosePointedTo`: a link of a record goes to nodes
that a row of the record points to, by a property that only those writes set that the node's people and
companies come from. `OnlyMissingEndsLoseRows`: a row of a link is lost only where its own file
writes one of its ends neither before it nor with it; neither a failure nor another source
takes away an end that was loaded. Two have the hypothesis `AllIdentified`, that every history is
`Identified`, which `RowsAreFit` checks of the 49 sources: `PartiesAreOneNode` and
`NamesDoStay`, an action property. They conclude `OneNodePerParty` and `NamesAreKept`
of histories of any length from what each write says for itself.

The difficulty is that MERGE finds a node by what any earlier SET put there, from any source.
So the invariant follows where writes can reach: a set of writes is `Closed` if no write outside
of it looks for what one in it sets, or the other way round. `NodeGood` says of a node that it
is named by a write, that the properties it is named by are still there where whatever
sets them looks for them (`Settled`), and that for every closed set that has a write of its name, all it holds
is from writes of that set (`MadeBy`). `LinkGood` says of a link that each row that states it points
to the nodes at its ends, `There` of every write of the batches that were applied that its node is
there, and a lost row is one of `Unfound`. One row keeps this (`LoadRowGood`), hence a part, a batch and a file; that the
functions over rows, parts and batches have their values is an induction, by the least number that would
break it (`RowStepsExist`). A property then is a choice of the closed set: the writes of one id,
about one person, or those that a row points to. After a failure a pipeline starts from its first batch on
the graph that is there, of which the invariant still holds, as it speaks of all the writes of the file. TLC checked the
invariant on short histories of the 49 sources before it was proved.

`FailuresLeaveNoTrace` compares two graphs, that of a history with failures and that of the same
history without (`clean`). Its hypothesis is `AllSteady`: in a load that does not fail, each
row's patterns find of every node the same when the row is applied, at the end of its batch
and at the end of each batch after it, but for the node that the row itself creates. It speaks
of no failure, and of the nodes of `clean` only. The invariant `NoTrace` relates the two graphs
while the file is loaded again, when the second is ahead of the first by what was written before
the failure: with j batches written since the start, it is `Between` the graph that the load
without failures has after j batches and those it has after the later ones. It is at least the
first (`Below`), and every property, record, person and link it holds is that of one of them
(`NodesFrom`, `LinksFrom`). A pattern that finds a node in all of these graphs then finds it in
the one between, and one that finds it in none because of one property does not (`DecidedAlike`), so a
row goes to the same nodes in both (`MergeBoth`, `EndsAlike`), and both keep the relation
(`LoadRowBoth`). A MERGE that creates its node may find it there from the try before (`CreatedBefore`);
`ON CREATE SET` then sets nothing in the one graph and the properties in the other, which are
those it has. A failure after any batch takes j back to 0, and the relation holds with all the
later graphs. After the last batch there is no later one, and the graphs are the same
(`SameGraph`). TLC checked `NoTrace` on 196 short histories of the 49 sources before it was proved.

**CnpjMemberships_proofs** (any files, dates, labels, sizes of batches, processes). `InTurn`
says what holds while no process was cut short or overlapped another: at rest the view
has every pair with a dated row, is the latest of the history if its last write was a
rebuild or only one process has run, and is empty before the first (`AtRest`); while a
process runs, either the rebuild is still to come, or a pair of its file that is not
in the view has a row left that will put it there (`FileProjected`), and of the first
process what is written is exactly what it has no longer left (`First`). Every commit keeps
`Progress` (`SocioKeeps`, `SnapshotKeeps`, `WipeKeeps`, `RebuildKeeps`). That the two
implementations agree is `ProjectionIsRebuilt`; that every pair of a file has a first row
in the order of the projection (`ProjectionHasPair`) is an induction on the file, by the
least position that would break it. From it `CnpjTypeCorrect`, `DatedStaysProjected`,
`ViewsAgree`.

**Browser_proofs**, the part about EntityTimeline (any entities, events, dates, page size, requests in flight). While
nothing of an earlier effect was applied and the timeline is on, at most one request of the
present effect is in flight; it is for the page's entity and asks for what comes after the events that are
shown; a cursor is the date of the last of them, which ends a full page (`InTurn`). That
an answer is what `Answers` says, and that a short one leaves nothing out, is a fact on
injections of finite sets (`AnswersArePages`); appending one keeps order and gaps
(`NextPage`). From it `TimelineTypeCorrect`, `ShownStaysInOrder` and
`GapsStayAtPageEnds`. `Event` is finite by assumption; `MaxCalls` plays no part.

**Browser_proofs**, the part about SessionStore (any users, requests in flight, reloads). While nothing was late, which
requests can be in flight together is constrained: a page that was just loaded waits for
one answer and can do nothing else (`Loaded`), who is signed in waits at most for the
`/me` of that sign-in (`SignedIn`), who is signed out may try several times at once,
and answers then come in the order of the requests (`SignedOut`, `UnderWay`). From it
`SessionTypeCorrect`, `SessionStaysOne`, `SignOutLasts`.

**Workspace_proofs** (any users, investigations, changes, requests in flight). The requests
are a queue, and while nothing was out of turn its first part is answered (`InOrder`). What the
store is about to show is what it was last given whole, the base, as changed by the
answers behind it: the base is the list in the store, or the answer to the last request
for the list in the queue. `ListFollows` says that this is the API's list of the user who is signed
in: whose ids those are (`Match`), in which order (`Descending`), and that the last answer about
each is its present version, or one that is still to come will be (`Latest`, since an entity's
change is followed by a fetch of its investigation). Every request from the base on that is still
unanswered is of that user (`Since`), since a page opened with nothing in flight sends its own.
`NotesFollow` says the same of the notes of the active investigation, or that their request is still
unanswered. With no request in flight the base is what is shown: `ListStaysTheirs`,
`NotesStayOfActive`, and `WorkspaceTypeCorrect`. `MaxRequests` and `MaxBusy` play no part.

Only model-checked: liveness (`EveryRunEnds`, `BootstrapEnds`, `ResumeCompletes`,
`RetriesSucceed`, `LoadingEnds`), which is beyond the prover; of `source_loads`
`RecordsStay`, `FactsApart`, `LinkedToWhoIsMeant`, `RowsFindTheirEnds` and `RowsAreFit`, which depend on
the ids, keys and ends that the plans of 49 sources compute; and of `downloads`
`SuccessIsComplete` and `OutputIsOfAsked`, which depend on what each script's plan is, where
the files it reads are, and what filters make of their parts.


## 6. Disagreements between the code and its documentation

Each of these two is a run that finds the violation, and a "finding" in `PROJECT.json`.

1. A share link never expires: the expiry is computed and passed to a query that does
   not use it, while `config.py:29` gives links a time to live (`share_link_ttl`).
2. `download_pncp.py` says that progress is never lost on crash, but a kill inside
   `write_text` loses a month's earlier windows, which stay checkpointed
   (`pncp_progress`).

Four more are exceptions in the definitions of properties that hold otherwise; without
the exception TLC finds the violation:

3. `download_pncp.py:7` says that `--skip-existing` resumes an interrupted run, but a file cut inside a
   character stops every rerun at line 222 (`ResumeCompletes`).
4. A batch CNPJ run with history over an older file overwrites the newer view, against
   "must come from the latest snapshot" of `test_cnpj_pipeline.py:350` (`ImplementationsAgree`).
5. A streaming CNPJ run with history deletes the view of pairs without a date, against
   "from latest snapshot per source/target pair" of `cnpj.py:940` (`DatedIsProjected`).
6. The timeline's pagination skips events that share the date a page ended on, against
   the first line of `entity_timeline.cypher` (`GapsOnlyAtPageEnds`).

Seen while modelling, and consistent with what the models say:

- *Loading.* The ids of ceaf, pep_cgu, sanctions and tcu hold the row's position: a row
  more at the top of the file doubles all others. The ids of records without a number hash what
  may be corrected in eleven sources; camara, senado and tse_filiados give two facts of one deputy or two
  namesakes of a state one id when the rest is the same, and those of the last two go to everyone of the name. Two chambers number their inquiries in
  one namespace. Sixteen sources overwrite a name by nothing; four give a company its
  CNPJ for a name. Donations with the same key keep only the last amount (tse); the chunks of caged
  overwrite one another's totals. Two of the four match tiers of tse_filiados never match, and
  the intermediaries of icij are read and never loaded. Links to what another source loads later
  are never created, and the run still ends `loaded`. What a publisher withdraws stays.
  A corrected declaration of ddjj has its goods and debts twice. `siop.py:56` says that
  it enriches existing amendments; its ids are of its own (`siop_...`, line 180).
- *Downloading.* A rerun of dou with `--no-skip-existing` that is killed leaves the marker of the
  earlier run on a cut file (`MarkerStays`), and dou exits 1 for ever once everything
  asked for is marked (`NothingNewFails`). viagens takes the files of the directory also
  when the archive was bad. An archive that was continued with another version's bytes may raise
  `zlib.error`, which `safe_extract_zip` does not catch: it stays, and every rerun fails on it, though the
  docstring says "Deletes corrupted ZIPs for re-download". A raw file of bcb that `read_csv` cannot parse stays too, as do
  the CSVs that a kill cut while they were extracted, for ceaf and its like. senado_parlamentares writes senators without
  their CPF when a detail request fails. Of a publisher that compresses, a partial file may be renamed as complete after a 416. tse and transparencia leave an earlier year's output, and end with 0, when
  all downloads of one dataset fail. If PNCP's API sorts newest first, a record published
  during a crawl leaves another twice in a file, or in none.
- *The browser.* A late `/me` signs in again, on the screen, who signed out meanwhile, and a late
  failure of it clears the next user's token; a late answer to a sign-out deletes the
  next user's cookie; a failed sign-out is swallowed, and a reload signs in again. The
  investigation store is not cleared on sign-out. The link that
  `InvestigationDetail.tsx:74` copies is `/investigations/shared/<token>`, while the
  route of `App.tsx:66` is `/shared/:token`. A new note is appended to a list that is
  newest first. A deletion clears whichever investigation is active, and a deleted one
  whose id is in the URL is selected again. Navigating with the timeline enabled requests the new entity's
  events for a tab that then shows nothing until it is toggled; after a failure the
  sentinel asks again at once, for ever.
- *The API.* Creating a note on a deleted investigation is a
  500 where its siblings answer 404; a creation whose user was wiped leaves an unowned
  node.


## 7. What is not modelled

- Reading and parsing the sources' files, formatting of values, text similarity, PDF layout,
  Cypher read queries without state (search, patterns, public statistics, score): functions of one
  input, without steps of two actors. Of the pipelines' `extract` there is what rows and
  columns they need; of the loaded properties, those that identify, link and name.
- Of the downloaders: `download_cnpj_bq.py`'s precheck of the table, the resolution of a CNPJ release,
  manifests, the validation of a CSV's columns, missing API keys; what is done to columns and rows; a siconfi
  row that is cut inside an entity.
- Of the CNPJ pipeline: company and partner nodes.
- The graph cache of the browser and the statistics cache of the API: what is cached is
  at most some minutes old by the code's own choice, a superseded request is aborted, and
  nothing of two actors is left.
- aracc's linker: scores of pairs and one MERGE. It sets `r.revisado = false` also on a pair that
  somebody has reviewed, against its roadmap's "re-ejecutar cualquier pipeline es seguro",
  but nothing in the repository runs it.
- Middleware (rate limits of a library, masking, headers), CORS, JWTs, passwords: a user is
  authenticated or not; a query fails or not.
- Neo4j itself: auto-commit transactions at read-committed isolation, with locks on the
  nodes a query writes. It is modelled by what the code relies on, and marked external in
  the map, as are the browser's `fetch`, the operating system's kills and PNCP's API.
- Infrastructure, deployment and repository scripts: sequences of commands.
- The Streamlit prototype, which shares no state with the rest.


## 8. The plan

Done, in this order: EtlRun, Bootstrap (composes EtlRun), InvestigationBook and
InvestigationService (refines it), PncpDownload, CnpjMemberships, EntityTimeline;
GraphLoad, the sources and SourceLoads; SessionStore, Workspace; DownloadScripts and
Downloads; proofs of EtlRun, InvestigationService, PncpDownload, SessionStore,
Bootstrap, EntityTimeline, Workspace, CnpjMemberships, Downloads (`SkippedIsWhole`) and
SourceLoads.

Next, most important first:

1. The exposure score as operators over small inputs.
2. Proofs of `SuccessIsComplete` and `OutputIsOfAsked`, from a description of the plans'
   outputs like `Sound`.
