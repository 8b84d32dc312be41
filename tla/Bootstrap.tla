------------------------------ MODULE Bootstrap ------------------------------
(***************************************************************************)
(* scripts/run_bootstrap_all.py: the orchestrator that brings the stack    *)
(* up, optionally wipes the graph, prepares and ingests every source of    *)
(* the contract one after the other, and publishes a report.               *)
(*                                                                         *)
(* It composes with EtlRun: ingesting a source starts one EtlRun process   *)
(* in a container and reads nothing of it but its exit code.  Invocations  *)
(* follow one another (an operator, `make bootstrap-all`); one may be      *)
(* killed at any point, and the container it started then keeps running    *)
(* under the next invocation.                                              *)
(***************************************************************************)
EXTENDS EtlRun, SequencesExt

CONSTANTS
    Contract,       \* sources of config/bootstrap_all_contract.yml, in order
    Selected,       \* the subsets --sources may name
    NoRun,          \* the absence of an ingest process
    Mode,           \* acquisition_mode of each source
    Credentialed,   \* sources whose credential_env variables are all set
    Core,           \* sources of core_sources, or flagged core
    CoreAllow,      \* --core-allow-statuses
    MayReset,       \* the answers determine_reset_policy may give
    MaxInvocations  \* bound: invocations of the script

RowStatus == {"loaded", "blocked_external", "blocked_credentials",
              "failed_download", "failed_pipeline", "skipped"}

\* What --sources leaves of the contract, in its order; there is one such sequence.
InOrder(chosen) ==
    LET at == {k \in DOMAIN Contract : Contract[k] \in chosen}
    IN  {[i \in DOMAIN g |-> Contract[g[i]]] : g \in {g \in SetToSeqs(at) : IsSorted(g, <)}}

ASSUME BootstrapAssumption ==
    /\ Contract \in Seq(Source)
    /\ Mode \in [Source -> {"blocked_external", "script_download",
                            "file_manifest", "other"}]
    /\ Credentialed \subseteq Source
    /\ Core \subseteq Source
    /\ CoreAllow \subseteq RowStatus
    /\ MayReset \subseteq BOOLEAN
    /\ NoRun \notin Run
    /\ MaxInvocations \in Nat

Row == [source : Source, status : RowStatus]

VARIABLES
    boot,    \* the invocation that is running, or the last one
    files,   \* sources whose required_inputs are all on disk
    latest,  \* audit-results/bootstrap-all/latest
    since    \* history: processes started since the last reset

bootVars == <<boot, files, latest, since>>

allVars == <<vars, bootVars>>

Invocation == [pc : {"idle", "up", "loop", "ingest", "published", "exited"},
               reset : BOOLEAN,
               todo : Seq(Source),
               rows : Seq(Row),
               run : Run \cup {NoRun},
               code : {"none", "ok", "fail", "killed"},
               count : 0 .. MaxInvocations]

BootTypeOK ==
    /\ boot \in Invocation
    /\ files \subseteq Source
    /\ latest \in [exists : BOOLEAN, rows : Seq(Row)]
    /\ since \subseteq Run

BootInit ==
    /\ Init
    /\ boot = [pc |-> "idle", reset |-> FALSE, todo |-> <<>>, rows |-> <<>>,
               run |-> NoRun, code |-> "none", count |-> 0]
    /\ files \in SUBSET {s \in Source : Mode[s] = "file_manifest"}
    /\ latest = [exists |-> FALSE, rows |-> <<>>]
    /\ since = {}

-----------------------------------------------------------------------------
(* Where the invocation is.                                                *)

Pending == Len(boot.rows) < Len(boot.todo)

Due == boot.todo[Len(boot.rows) + 1]

AddRow(status) ==
    boot' = [boot EXCEPT !.pc = "loop", !.run = NoRun,
                         !.rows = Append(@, [source |-> Due,
                                             status |-> status])]

ExitWith(code) == boot' = [boot EXCEPT !.pc = "exited", !.code = code]

\* Mutant: only a failed ingestion counts as a core failure.
MutCoreFailures ==
    {i \in 1 .. Len(boot.rows) : /\ boot.rows[i].source \in Core
                                 /\ boot.rows[i].status = "failed_pipeline"}

\* A core row fails the run unless it is loaded or its status is allowed.
CoreFailures ==
    {i \in 1 .. Len(boot.rows) :
        /\ boot.rows[i].source \in Core
        /\ boot.rows[i].status # "loaded"
        /\ boot.rows[i].status \notin CoreAllow}

-----------------------------------------------------------------------------
(* The script.                                                             *)

\* Contract checks, `compose up`, the health waits and the reset question; any
\* of them may end the script with exit code 1 before anything is touched.
Launch ==
    /\ boot.pc \in {"idle", "exited"}
    /\ boot.count < MaxInvocations
    /\ \/ \E reset \in MayReset, chosen \in Selected : \E todo \in InOrder(chosen) :
            boot' = [pc |-> "up", reset |-> reset, todo |-> todo,
                     rows |-> <<>>, run |-> NoRun, code |-> "none",
                     count |-> boot.count + 1]
       \/ boot' = [pc |-> "exited", reset |-> FALSE, todo |-> <<>>, rows |-> <<>>,
                   run |-> NoRun, code |-> "fail", count |-> boot.count + 1]
    /\ UNCHANGED <<vars, files, latest, since>>

\* reset_graph: one statement deletes every node, the IngestionRuns included;
\* it fails with an exception nobody catches.
Reset ==
    /\ boot.pc = "up"
    /\ boot.reset
    /\ \/ /\ nodes' = {}
          /\ rels' = {}
          /\ log' = [k \in RunId |-> [status |-> "none", finished |-> FALSE,
                                      error |-> FALSE]]
          /\ since' = {}
          /\ boot' = [boot EXCEPT !.pc = "loop"]
       \/ /\ ExitWith("fail")
          /\ UNCHANGED <<nodes, rels, log, since>>
    /\ UNCHANGED <<now, proc, files, latest>>

KeepGraph ==
    /\ boot.pc = "up"
    /\ ~boot.reset
    /\ boot' = [boot EXCEPT !.pc = "loop"]
    /\ UNCHANGED <<vars, files, latest, since>>

\* The container of the ingest command starts a process, or does not start.
Ingest ==
    \/ \E r \in Run :
         /\ SourceOf[r] = Due
         /\ Start(r)
         /\ boot' = [boot EXCEPT !.pc = "ingest", !.run = r]
         /\ since' = since \cup {r}
    \/ /\ AddRow("failed_pipeline")
       /\ UNCHANGED <<vars, since>>

\* Mutant: a failed download raises out of the loop.
MutScriptDownload ==
    /\ Mode[Due] = "script_download"
    /\ \E ok \in BOOLEAN :
         /\ files' = files \cup {Due}
         /\ \/ ok /\ Ingest
            \/ ~ok /\ ExitWith("fail") /\ UNCHANGED <<vars, since>>

\* Downloads end well, fail with an output that looks external, or fail; what
\* they leave on disk is checked only when they end well.
ScriptDownload ==
    /\ Mode[Due] = "script_download"
    /\ \E after \in {files, files \cup {Due}} :
       \E outcome \in {"ok", "external", "other"} :
         /\ files' = after
         /\ \/ /\ outcome = "external"
               /\ AddRow("blocked_external")
               /\ UNCHANGED <<vars, since>>
            \/ /\ outcome = "other" \/ (outcome = "ok" /\ Due \notin after)
               /\ AddRow("failed_download")
               /\ UNCHANGED <<vars, since>>
            \/ /\ outcome = "ok" /\ Due \in after
               /\ Ingest

FileManifest ==
    /\ Mode[Due] = "file_manifest"
    /\ UNCHANGED files
    /\ \/ /\ Due \notin files
          /\ AddRow("blocked_external")
          /\ UNCHANGED <<vars, since>>
       \/ /\ Due \in files
          /\ Ingest

Unavailable ==
    /\ \/ /\ Mode[Due] = "blocked_external"
          /\ AddRow("blocked_external")
       \/ /\ Mode[Due] = "other"
          /\ AddRow("skipped")
    /\ UNCHANGED <<vars, files, since>>

\* One source of the loop up to its terminal row or its ingest command.
PrepareSource ==
    /\ boot.pc = "loop"
    /\ Pending
    /\ \/ /\ Due \notin Credentialed
          /\ AddRow("blocked_credentials")
          /\ UNCHANGED <<vars, files, since>>
       \/ /\ Due \in Credentialed
          /\ ScriptDownload \/ FileManifest \/ Unavailable
    /\ UNCHANGED latest

\* Mutant: the exit code of the ingest command is not looked at.
MutIngestDone ==
    /\ boot.pc = "ingest"
    /\ proc[boot.run].pc = "done"
    /\ AddRow("loaded")
    /\ UNCHANGED <<vars, files, latest, since>>

\* Mutant: the loop waits for the source to be loaded.
MutWaitLoaded ==
    /\ boot.pc = "ingest"
    /\ proc[boot.run].exit = "ok"
    /\ AddRow("loaded")
    /\ UNCHANGED <<vars, files, latest, since>>

\* run_cmd returns when the container has ended; its exit code is the status.
IngestDone ==
    /\ boot.pc = "ingest"
    /\ proc[boot.run].pc = "done"
    /\ AddRow(IF proc[boot.run].exit = "ok" THEN "loaded" ELSE "failed_pipeline")
    /\ UNCHANGED <<vars, files, latest, since>>

\* The stamped report is written and the old latest directory is removed...
RemoveLatest ==
    /\ boot.pc = "loop"
    /\ ~Pending
    /\ boot' = [boot EXCEPT !.pc = "published"]
    /\ latest' = [exists |-> FALSE, rows |-> <<>>]
    /\ UNCHANGED <<vars, files, since>>

\* ...and only then copied; the exit code follows from the core rows.
CopyLatest ==
    /\ boot.pc = "published"
    /\ latest' = [exists |-> TRUE, rows |-> boot.rows]
    /\ ExitWith(IF CoreFailures = {} THEN "ok" ELSE "fail")
    /\ UNCHANGED <<vars, files, since>>

\* The script dies; the container it waits for does not.
KillBoot ==
    /\ boot.pc \notin {"idle", "exited"}
    /\ ExitWith("killed")
    /\ UNCHANGED <<vars, files, latest, since>>

BootStep ==
    \/ Reset
    \/ KeepGraph
    \/ PrepareSource
    \/ IngestDone
    \/ RemoveLatest
    \/ CopyLatest

Container ==
    /\ Tick \/ \E r \in Run : Step(r) \/ Kill(r)
    /\ UNCHANGED bootVars

BootNext == Launch \/ BootStep \/ KillBoot \/ Container

BootSpec == BootInit /\ [][BootNext]_allVars

\* The script and the containers keep running; being launched, being killed
\* and the clock are left to the environment.
FairBootSpec ==
    /\ BootSpec
    /\ WF_allVars(BootStep)
    /\ \A r \in Run : WF_allVars(Step(r) /\ UNCHANGED bootVars)

-----------------------------------------------------------------------------
(* What a bootstrap promises.                                              *)

\* A row says "loaded" only if a process of that source, started after the
\* last wipe of the graph, has its whole plan in the graph: the wipe precedes
\* every ingestion of its own invocation, and what an older container still
\* writes cannot make a row "loaded".
LoadedRowComplete ==
    boot.pc \in {"loop", "ingest", "published"} =>
        \A i \in 1 .. Len(boot.rows) :
            boot.rows[i].status = "loaded" =>
                \E r \in since : /\ SourceOf[r] = boot.rows[i].source
                                 /\ proc[r].exit = "ok"
                                 /\ Complete(r)

\* An IngestionRun that says "loaded" is true of the graph unless its process
\* outlived the invocation that started it and the graph was wiped meanwhile.
LoadedSinceReset ==
    \A k \in RunId :
        log[k].status = "loaded" =>
            \E r \in Run : /\ IdOf(r) = k
                           /\ proc[r].pc \in {"hooks", "done"}
                           /\ (r \in since => Complete(r))

\* docs/bootstrap_all.md, Exit Policy: the script exits 0 only when every core
\* source it was asked for is loaded or its status was allowed, and then the
\* report it leaves in latest/ is its own.
ExitPolicy ==
    boot.code = "ok" =>
        /\ latest.exists
        /\ latest.rows = boot.rows
        /\ \A i \in 1 .. Len(boot.todo) :
             boot.todo[i] \in Core =>
                 boot.rows[i].status \in {"loaded"} \cup CoreAllow

\* The script exits 1 with the sources begun only after publishing its report:
\* no source that fails to download or to load costs the others their rows.
FailureIsReported ==
    [][/\ boot.pc \in {"loop", "ingest", "published"}
       /\ boot'.code = "fail"
       => /\ latest'.exists
          /\ latest'.rows = boot'.rows
          /\ Len(boot'.rows) = Len(boot'.todo)]_allVars

\* Every invocation that is not killed ends, and so does a killed one: a source
\* whose process fails or is killed does not hold the sources after it.
BootstrapEnds == (boot.pc = "up") ~> (boot.pc = "exited")
=============================================================================
