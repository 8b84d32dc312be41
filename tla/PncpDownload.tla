---------------------------- MODULE PncpDownload ----------------------------
(***************************************************************************)
(* The resumable crawl of etl/scripts/download_pncp.py.                    *)
(*                                                                         *)
(* One invocation splits the days up to "today" (the default --end-date)   *)
(* into windows, asks the API for every page of every window and type of   *)
(* procurement, merges the records into one JSON file per month, and then  *)
(* appends the window's key to a checkpoint file that later invocations    *)
(* skip.  The process may be interrupted or killed anywhere, the API may   *)
(* fail, and days go by and records are published while it runs.           *)
(***************************************************************************)
EXTENDS Integers, FiniteSets

CONSTANTS
    Record,       \* 1 .. n, in the order of their publication
    DayOf,        \* the day each record is published
    ModOf,        \* its modalidade
    Modalidade,   \* --modalidades
    MonthOf,      \* the month of each day
    LastDay,      \* bound: the last day of the calendar; the first is 1
    WindowDays,   \* --window-days
    PageSize,     \* MAX_PAGE_SIZE
    MaxRetries,   \* MAX_RETRIES
    Torn,         \* what a write that was cut short leaves: "cut" is no JSON,
                  \* "split" ends inside a character and is no UTF-8 either
    MaxKills      \* bound: kills and interrupts

Day == 1 .. LastDay
Month == {MonthOf[d] : d \in Day}

ASSUME PncpAssumption ==
    /\ Record \subseteq Nat \ {0}
    /\ IsFiniteSet(Record)
    /\ DayOf \in [Record -> Day]
    /\ ModOf \in [Record -> Modalidade]
    /\ Modalidade # {}
    /\ MonthOf \in [Day -> Nat]
    /\ Torn \subseteq {"cut", "split"}
    /\ Torn # {}
    /\ LastDay \in Nat \ {0}
    /\ WindowDays \in Nat \ {0}
    /\ PageSize \in Nat \ {0}
    /\ MaxRetries \in Nat \ {0}
    /\ MaxKills \in Nat

VARIABLES
    today,       \* the calendar
    newestFirst, \* how the API sorts, which no line of the code says
    known,       \* records the API knows of
    files,       \* the monthly files of the output directory
    checkpoint,  \* keys in the file .checkpoint
    proc,        \* the invocation
    kills,       \* kills and interrupts so far
    delivered,   \* history: records the checkpointed windows brought
    abandoned,   \* history: records of windows that lost a page
    late,        \* history: records published when a window that spans their
                 \* day had been asked for
    moved,       \* history: records that moved to another page while the pages
                 \* of their window were being fetched
    torn         \* history: months a kill or an interrupt caught half written

world == <<today, newestFirst, known>>
history == <<delivered, abandoned, late, moved, torn>>
vars == <<world, files, checkpoint, proc, kills, history>>

\* A file holds each record some number of times.
Copies == [Record -> Nat]
NoCopies == [r \in Record |-> 0]
File == [kind : {"absent", "whole"} \cup Torn, recs : Copies]

Combo == [from : Day, to : Day, mod : Modalidade]
PageNo == 1 .. Cardinality(Record) + 1

\* todo: combinations to come; combo: the one at hand; pages: its pages still
\* to come, with the failures of each; got: its records so far, as often as
\* they came; months: the files to merge them into; month, merged: the file
\* being written.
Proc == [pc : {"idle", "next", "fetch", "flush", "write", "report", "done"},
         end : Day, todo : SUBSET Combo, combo : Combo,
         pages : SUBSET PageNo, tries : [PageNo -> 0 .. MaxRetries - 1],
         got : Copies, gaveup : BOOLEAN,
         months : SUBSET Month, month : Month, merged : Copies,
         interrupted : BOOLEAN]

Idle == [pc |-> "idle", end |-> 1, todo |-> {},
         combo |-> CHOOSE c \in Combo : TRUE,
         pages |-> {}, tries |-> [p \in PageNo |-> 0],
         got |-> NoCopies, gaveup |-> FALSE,
         months |-> {}, month |-> MonthOf[1], merged |-> NoCopies,
         interrupted |-> FALSE]

TypeOK ==
    /\ today \in Day
    /\ newestFirst \in BOOLEAN
    /\ known \subseteq Record
    /\ files \in [Month -> File]
    /\ checkpoint \subseteq Combo
    /\ proc \in Proc
    /\ kills \in 0 .. MaxKills
    /\ delivered \subseteq known
    /\ abandoned \subseteq known
    /\ late \subseteq known
    /\ moved \subseteq known
    /\ torn \subseteq Month

-----------------------------------------------------------------------------
\* Mutant: the last window is cut off instead of shortened.
MutWindowStarts(end) ==
    {d \in Day : d + WindowDays - 1 <= end /\ (d - 1) % WindowDays = 0}

\* The windows of _date_windows: it stops at current < end, so a last window of
\* a single day is not generated.
WindowStarts(end) == {d \in Day : d < end /\ (d - 1) % WindowDays = 0}

WindowEnd(d, end) ==
    IF d + WindowDays - 1 < end THEN d + WindowDays - 1 ELSE end

Combos(end) ==
    {[from |-> d, to |-> WindowEnd(d, end), mod |-> m] :
        d \in WindowStarts(end), m \in Modalidade}

\* What an API that knows these records has about a combination, one page at a
\* time.
Matching(c, ks) ==
    {r \in ks : c.from <= DayOf[r] /\ DayOf[r] <= c.to /\ ModOf[r] = c.mod}

Before(c, r, ks) ==
    {s \in Matching(c, ks) : IF newestFirst THEN s > r ELSE s < r}

PageOf(c, r, ks) == 1 + (Cardinality(Before(c, r, ks)) \div PageSize)

TotalPages(c) == {PageOf(c, r, known) : r \in Matching(c, known)}

RecordMonth(r) == MonthOf[DayOf[r]]

\* Mutant: the records are appended without looking into the file.
MutMerged(m) ==
    [r \in Record |-> files[m].recs[r]
                        + IF RecordMonth(r) = m THEN proc.got[r] ELSE 0]

\* _flush_to_disk: what a file that is missing or no JSON held is forgotten;
\* a new record is added only if the file does not have it, but then as often
\* as it came.
Merged(m) ==
    [r \in Record |->
        IF files[m].recs[r] = 0 /\ RecordMonth(r) = m
        THEN proc.got[r]
        ELSE files[m].recs[r]]

\* read_text of a file that is no UTF-8 raises UnicodeDecodeError, which the
\* handlers of JSONDecodeError and OSError let through.
Readable(m) == files[m].kind # "split"

-----------------------------------------------------------------------------
Init ==
    /\ today = 1
    /\ newestFirst \in BOOLEAN
    /\ known = {}
    /\ files = [m \in Month |-> [kind |-> "absent", recs |-> NoCopies]]
    /\ checkpoint = {}
    /\ proc = Idle
    /\ kills = 0
    /\ delivered = {}
    /\ abandoned = {}
    /\ late = {}
    /\ moved = {}
    /\ torn = {}

\* The combinations that were asked for, in part at least.
AskedFor ==
    checkpoint \cup
        (IF proc.pc \in {"fetch", "flush", "write"} THEN {proc.combo} ELSE {})

\* The world: records are published in order, and a day ends when the next
\* record is of a later one.
Publish ==
    /\ \E r \in Record \ known :
         /\ \A s \in Record : s < r => s \in known
         /\ DayOf[r] = today
         /\ known' = known \cup {r}
         /\ late' = IF \E c \in AskedFor : /\ c.from <= today /\ today <= c.to
                                          /\ ModOf[r] = c.mod
                    THEN late \cup {r}
                    ELSE late
         /\ LET c == proc.combo
            IN  moved' = IF proc.pc = "fetch"
                         THEN moved \cup
                                {q \in Matching(c, known) :
                                   PageOf(c, q, known \cup {r})
                                     # PageOf(c, q, known)}
                         ELSE moved
    /\ UNCHANGED <<today, newestFirst, files, checkpoint, proc, kills,
                   delivered, abandoned, torn>>

NextDay ==
    /\ today < LastDay
    /\ \A r \in Record : DayOf[r] = today => r \in known
    /\ today' = today + 1
    /\ UNCHANGED <<newestFirst, known, files, checkpoint, proc, kills,
                   history>>

-----------------------------------------------------------------------------
\* main up to the loop; --no-skip-existing does not read the checkpoint.
Start ==
    /\ proc.pc \in {"idle", "done"}
    /\ \E completed \in {checkpoint, {}} :
         proc' = [Idle EXCEPT !.pc = "next", !.end = today,
                              !.todo = Combos(today) \ completed]
    /\ UNCHANGED <<world, files, checkpoint, kills, history>>

\* The next combination, window after window.
TakeCombo ==
    /\ proc.pc = "next"
    /\ \E c \in proc.todo :
         /\ \A d \in proc.todo : c.from <= d.from
         /\ proc' = [proc EXCEPT !.pc = "fetch", !.combo = c, !.pages = {1}]
    /\ UNCHANGED <<world, files, checkpoint, kills, history>>

\* A page is answered.  The first one says how many there are; the others come
\* in any order when --page-workers is above 1.
Answer(p) ==
    /\ proc.pc = "fetch"
    /\ p \in proc.pages
    /\ LET c == proc.combo
       IN  proc' = [proc EXCEPT
             !.pages = (IF p = 1 THEN TotalPages(c) ELSE proc.pages) \ {p},
             !.tries[p] = 0,
             !.got = [r \in Record |->
                        proc.got[r] + IF /\ r \in Matching(c, known)
                                         /\ PageOf(c, r, known) = p
                                      THEN 1 ELSE 0]]
    /\ UNCHANGED <<world, files, checkpoint, kills, history>>

\* fetch_with_retry: a page that failed MAX_RETRIES times, or once with a 400
\* or a 404, is None: the crawl goes on without it, or without the whole
\* combination when it was the first page.
GiveUp(p) ==
    proc' = [proc EXCEPT !.pages = proc.pages \ {p}, !.tries[p] = 0,
                         !.gaveup = TRUE]

\* Mutant: a page answered with 429 is asked for again for ever.
MutRetryForever(p) ==
    /\ proc.pc = "fetch"
    /\ p \in proc.pages
    /\ proc' = [proc EXCEPT !.tries[p] = (proc.tries[p] + 1) % MaxRetries]
    /\ UNCHANGED <<world, files, checkpoint, kills, history>>

PageError(p) ==
    /\ proc.pc = "fetch"
    /\ p \in proc.pages
    /\ IF proc.tries[p] + 1 < MaxRetries
       THEN proc' = [proc EXCEPT !.tries[p] = proc.tries[p] + 1]
       ELSE GiveUp(p)
    /\ UNCHANGED <<world, files, checkpoint, kills, history>>

PageRefused(p) ==
    /\ proc.pc = "fetch"
    /\ p \in proc.pages
    /\ GiveUp(p)
    /\ UNCHANGED <<world, files, checkpoint, kills, history>>

Got == {r \in Record : proc.got[r] > 0}

\* _fetch_window returns and its records are grouped by month.
Group ==
    /\ proc.pc = "fetch"
    /\ proc.pages = {}
    /\ proc' = [proc EXCEPT !.pc = "flush",
                            !.months = {RecordMonth(r) : r \in Got}]
    /\ UNCHANGED <<world, files, checkpoint, kills, history>>

\* write_text truncates the month's file, ...
OpenFile ==
    /\ proc.pc = "flush"
    /\ \E m \in proc.months, k \in Torn :
         /\ Readable(m)
         /\ files' = [files EXCEPT ![m] = [kind |-> k, recs |-> NoCopies]]
         /\ proc' = [proc EXCEPT !.pc = "write", !.month = m,
                                 !.merged = Merged(m),
                                 !.months = proc.months \ {m}]
    /\ UNCHANGED <<world, checkpoint, kills, history>>

\* ... and writes it.
CloseFile ==
    /\ proc.pc = "write"
    /\ files' = [files EXCEPT ![proc.month] = [kind |-> "whole",
                                               recs |-> proc.merged]]
    /\ proc' = [proc EXCEPT !.pc = "flush", !.month = Idle.month,
                            !.merged = NoCopies]
    /\ UNCHANGED <<world, checkpoint, kills, history>>

\* Mutant: the window is checkpointed as soon as its first month is merged.
MutSaveCheckpoint ==
    /\ proc.pc = "flush"
    /\ checkpoint' = checkpoint \cup {proc.combo}
    /\ proc' = [proc EXCEPT !.pc = "next", !.todo = proc.todo \ {proc.combo},
                            !.combo = Idle.combo, !.got = NoCopies,
                            !.gaveup = FALSE]
    /\ delivered' = delivered \cup Got
    /\ UNCHANGED <<world, files, kills, abandoned, late, moved, torn>>

\* All months are merged, or there was nothing: the combination is done.
SaveCheckpoint ==
    /\ proc.pc = "flush"
    /\ proc.months = {}
    /\ checkpoint' = checkpoint \cup {proc.combo}
    /\ proc' = [proc EXCEPT !.pc = "next", !.todo = proc.todo \ {proc.combo},
                            !.combo = Idle.combo, !.got = NoCopies,
                            !.gaveup = FALSE]
    /\ delivered' = delivered \cup Got
    /\ abandoned' = IF proc.gaveup
                    THEN abandoned \cup (Matching(proc.combo, known) \ Got)
                    ELSE abandoned
    /\ UNCHANGED <<world, files, kills, late, moved, torn>>

LoopEnds ==
    /\ proc.pc = "next"
    /\ proc.todo = {}
    /\ proc' = [proc EXCEPT !.pc = "report"]
    /\ UNCHANGED <<world, files, checkpoint, kills, history>>

\* _compute_missing_months and _write_manifest, after the loop or an interrupt,
\* read the files of all the months up to the end.
Expected == {m \in Month : m <= MonthOf[proc.end]}

Report ==
    /\ proc.pc = "report"
    /\ \A m \in Expected : Readable(m)
    /\ proc' = IF proc.interrupted THEN Idle
               ELSE [Idle EXCEPT !.pc = "done", !.end = proc.end]
    /\ UNCHANGED <<world, files, checkpoint, kills, history>>

\* An uncaught UnicodeDecodeError ends the process.
Crash ==
    /\ \/ /\ proc.pc = "flush"
          /\ \E m \in proc.months : ~Readable(m)
       \/ /\ proc.pc = "report"
          /\ \E m \in Expected : ~Readable(m)
    /\ proc' = Idle
    /\ UNCHANGED <<world, files, checkpoint, kills, history>>

\* The process is killed, or dies of an exception nobody catches (a page that
\* is no JSON, a write that fails), or Ctrl-C makes it leave the loop for the
\* report; a file that was being written stays as it is.
Stopped ==
    /\ kills < MaxKills
    /\ kills' = kills + 1
    /\ torn' = IF proc.pc = "write" THEN torn \cup {proc.month} ELSE torn

Kill ==
    /\ proc.pc \notin {"idle", "done"}
    /\ Stopped
    /\ proc' = Idle
    /\ UNCHANGED <<world, files, checkpoint, delivered, abandoned, late,
                   moved>>

Interrupt ==
    /\ proc.pc \in {"next", "fetch", "flush", "write"}
    /\ Stopped
    /\ proc' = [Idle EXCEPT !.pc = "report", !.end = proc.end,
                            !.interrupted = TRUE]
    /\ UNCHANGED <<world, files, checkpoint, delivered, abandoned, late,
                   moved>>

\* What the script does by itself.
Step ==
    \/ TakeCombo
    \/ \E p \in PageNo : Answer(p) \/ PageError(p) \/ PageRefused(p)
    \/ Group
    \/ OpenFile
    \/ CloseFile
    \/ SaveCheckpoint
    \/ LoopEnds
    \/ Report
    \/ Crash

Next == Publish \/ NextDay \/ Start \/ Step \/ Kill \/ Interrupt

Spec == Init /\ [][Next]_vars

\* The script runs, and whoever started it runs it again, as its docstring
\* says; days need not pass and nobody has to interrupt it.
FairSpec == Spec /\ WF_vars(Step) /\ WF_vars(Start)

-----------------------------------------------------------------------------
Held(r) == files[RecordMonth(r)].recs[r] > 0

\* A record that a checkpointed window brought, and that no later run will ask
\* for again, is in its month's file, unless a kill or an interrupt once caught
\* that very file half written, or it is being rewritten with the record now
\* (download_pncp.py 478-489).
LostOnlyByTornWrite ==
    \A r \in delivered :
        \/ Held(r)
        \/ RecordMonth(r) \in torn
        \/ /\ proc.pc = "write"
           /\ proc.month = RecordMonth(r)
           /\ proc.merged[r] > 0

\* Runs on later days fetch the last window again under another key, and so
\* does a run after a kill: no file holds a record twice but one that moved to
\* another page while its window was being fetched (download_pncp.py 225-234).
NoDuplicates ==
    \A m \in Month, r \in Record \ moved : files[m].recs[r] <= 1

\* When an invocation ends by itself, the files have every record published
\* before its last day, whatever earlier invocations did, but those of pages
\* that were given up, those of months caught half written, those that moved to
\* another page meanwhile, and those published on the last day of a full window
\* when that window had already been asked for, the same day (download_pncp.py
\* 178-191, 449-490).
FinishedRunIsComplete ==
    proc.pc = "done" =>
        \A r \in known :
            DayOf[r] < proc.end =>
                \/ Held(r)
                \/ r \in abandoned \cup moved
                \/ RecordMonth(r) \in torn
                \/ r \in late /\ DayOf[r] % WindowDays = 0

\* The docstring's "progress is never lost on crash": whenever no invocation
\* runs, whatever the checkpointed windows brought is in the files.
ProgressNeverLost ==
    proc.pc \in {"idle", "done"} => \A r \in delivered : Held(r)

\* Runs that are started again end up with every window up to the last day
\* checkpointed, whatever the API answered and whoever interrupted them, unless
\* a write was cut inside a character (download_pncp.py 447-490).
ResumeCompletes ==
    <>[](Combos(today) \subseteq checkpoint \/ \E m \in Month : ~Readable(m))

=============================================================================
