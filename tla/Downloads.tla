------------------------------ MODULE Downloads ------------------------------
(***************************************************************************)
(* The download scripts at work: the operator starts one of them for some  *)
(* dates or years, the script takes the steps of its plan, requests fail   *)
(* or break off, the process is killed, the publisher puts another version *)
(* of a file under the same address, and the operator starts the script    *)
(* again on the directory that is left.                                    *)
(*                                                                         *)
(* A file is the sequence of the parts it consists of, each one of a       *)
(* version of the data of a date; a file that is only there is absent from *)
(* the domain of `disk` otherwise.                                         *)
(***************************************************************************)
EXTENDS DownloadScripts

CONSTANTS
    PlanOf,         \* for each script and each thing it can be asked for, a sequence of dates: the plan
    Outputs,        \* for each script and date: the files a pipeline reads its data from
    Policy,         \* for each script: which failures make the exit code 1
    NoOption,       \* the scripts that always skip what is there
    Compressed,     \* those whose publisher compresses what it sends
    Size,           \* the number of parts of each version of a file
    MaxAttempts,    \* _MAX_REINTENTOS of aracc_etl/download.py
    MaxRuns,        \* bound, for each script: runs the operator starts, retries apart
    MaxTroubles     \* bound, for each script: kills, and requests that fail

ASSUME SizeAssumption == Size \in Seq(Nat \ {0}) /\ Size # <<>>

VARIABLES
    script,     \* the script whose directory this is
    disk,       \* its files
    server,     \* the version the publisher has
    order,      \* what the operator asked for: the dates, and --skip-existing; and the plan
    run,        \* the process: its step, the writes it still has to make, its results
    exit,       \* "none", "running", "ok", "failed" or "killed"
    missed,     \* the dates the last run that ended logged as failed
    runs, troubles

vars == <<script, disk, server, order, run, exit, missed, runs, troubles>>

-----------------------------------------------------------------------------
Part(d, v, i) == [of |-> d, ver |-> v, part |-> i]
Content(d, v) == [i \in 1..Size[v] |-> Part(d, v, i)]
Intact(content) == \E d \in Dataset, v \in 1..server : content = Content(d, v)
\* one that was continued after the publisher had replaced it
Joined(content) == \E i, j \in DOMAIN content : content[i].ver # content[j].ver

Exists(f) == f \in DOMAIN disk
Holds(f) == IF Exists(f) THEN disk[f] ELSE <<>>
Concat(files) == FlattenSeq([i \in DOMAIN files |-> Holds(files[i])])
Put(f, content) == [g \in DOMAIN disk \cup {f} |-> IF g = f THEN content ELSE disk[g]]
Without(f) == [g \in DOMAIN disk \ {f} |-> disk[g]]
Renamed(f, g) == [h \in (DOMAIN disk \ {f}) \cup {g} |-> IF h = g THEN disk[f] ELSE disk[h]]

\* the writes that are left of a step: a file is opened for writing, or a part is added to it
Open(f) == [to |-> f, open |-> TRUE, add |-> <<>>]
Add(f, p) == [to |-> f, open |-> FALSE, add |-> <<p>>]
Adds(f, parts) == [i \in DOMAIN parts |-> Add(f, parts[i])]
Share(files, content, i) ==
    Only(content, LAMBDA p : p.part = i \/ (i = Len(files) /\ p.part > i))
Spread(files, content) ==
    FlattenSeq([i \in DOMAIN files |->
        <<Open(files[i])>> \o Adds(files[i], IF Len(files) = 1 THEN content
                                             ELSE Share(files, content, i))])

-----------------------------------------------------------------------------
Plan == order.plan
Now == Plan[run.pc]
At(op) == exit = "running" /\ run.pc <= Len(Plan) /\ Now.op = op
Ready(op) == At(op) /\ ~run.busy

Fresh == [pc |-> 1, busy |-> FALSE, todo |-> <<>>, held |-> <<>>, got |-> {}, tries |-> 1,
          done |-> {}, skipped |-> {}, failed |-> {}]

AfterGroup == CHOOSE j \in run.pc + 1 .. Len(Plan) + 1 :
                  /\ j <= Len(Plan) => Plan[j].group # Now.group
                  /\ \A k \in run.pc + 1 .. j - 1 : Plan[k].group = Now.group
GroupEnds == Now.ends \/ run.pc + 1 = AfterGroup
To(pc) == [run EXCEPT !.pc = pc, !.busy = FALSE, !.todo = <<>>, !.tries = 1]
Next1(r) ==
    [r EXCEPT !.pc = IF Now.ends THEN Len(Plan) + 1 ELSE run.pc + 1, !.busy = FALSE, !.todo = <<>>,
              !.tries = 1, !.done = IF GroupEnds THEN @ \cup {Now.group} ELSE @]

Busy(writes) == run' = [run EXCEPT !.busy = TRUE, !.todo = writes]
Done == run' = Next1(run) /\ UNCHANGED exit
GiveUp ==
    CASE Now.orElse = "go on" -> Done
      [] Now.orElse = "group" ->
            run' = [To(AfterGroup) EXCEPT !.failed = @ \cup {Now.group}] /\ UNCHANGED exit
      [] Now.orElse = "stop" -> run' = Fresh /\ exit' = "failed"

-----------------------------------------------------------------------------
(* The operator. *)

Begin ==
    /\ run' = Fresh /\ exit' = "running" /\ missed' = {}
    /\ UNCHANGED <<script, disk, server, troubles>>
Start(asked, skip) ==
    /\ exit # "running" /\ runs < MaxRuns[script]
    /\ skip \/ script \notin NoOption
    /\ order' = [asked |-> asked, skip |-> skip, plan |-> PlanOf[script][asked]] /\ runs' = runs + 1
    /\ Begin
Again == exit \in {"failed", "killed"} /\ Begin /\ UNCHANGED <<order, runs>>

-----------------------------------------------------------------------------
(* The script. *)

Quiet == UNCHANGED <<script, server, order, missed, runs>>
Fine == Quiet /\ UNCHANGED troubles
Trouble == troubles < MaxTroubles[script] /\ troubles' = troubles + 1

Enough(s) ==
    LET there == {i \in DOMAIN s.unless : Exists(s.unless[i])}
    IN  /\ s.unless # <<>>
        /\ IF s.all THEN there = DOMAIN s.unless ELSE there # {}
        /\ s.filled => \A i \in there : disk[s.unless[i]] # <<>>
MaySkip == order.skip /\ Enough(Now)

Skip ==
    /\ exit = "running" /\ run.pc <= Len(Plan) /\ ~run.busy /\ MaySkip
    /\ run' = CASE Now.skips = "step" -> Next1(run)
                [] Now.skips = "group" ->
                      [To(AfterGroup) EXCEPT !.done = @ \cup {Now.group}, !.skipped = @ \cup {Now.group}]
                [] Now.skips = "run" ->
                      [To(Len(Plan) + 1) EXCEPT !.done = @ \cup {Now.group},
                                                !.skipped = @ \cup {Now.group}]
    /\ UNCHANGED <<disk, exit>> /\ Fine

\* download_file: the partial file is continued with what the server has now
Ranged(f) == Len(Holds(Partial(f)))
TooFar(f) == Ranged(f) > 0 /\ Ranged(f) >= Size[server]
Continued(f) ==
    IF Ranged(f) = 0 THEN Spread(<<Partial(f)>>, Content(Now.of, server))
    ELSE Adds(Partial(f), SubSeq(Content(Now.of, server), Ranged(f) + 1, Size[server]))
\* mutant: what comes with 200 is added to the partial file
MutRestarted(f) == Adds(Partial(f), Content(Now.of, server))
Restarted(f) == Spread(<<Partial(f)>>, Content(Now.of, server))

\* the file holds decoded bytes, the Range header counts those that are sent
Miscounted(f) == script \in Compressed /\ Ranged(f) > 0

\* the answer to the Range request is 416, or 206 with what is missing, or in the middle
\* of what does not decode from there, or 200
Resume(f) ==
    \/ /\ TooFar(f) \/ Miscounted(f)
       /\ Done /\ disk' = Renamed(Partial(f), f)
    \/ /\ ~TooFar(f)
       /\ Busy(Restarted(f)) \/ (~Miscounted(f) /\ Busy(Continued(f)))
       /\ UNCHANGED <<disk, exit>>
    \/ Miscounted(f) /\ GiveUp /\ UNCHANGED disk

\* the parts of siconfi's partial file are not asked for again
Missing(f) == Only(Content(Now.of, server),
                   LAMBDA p : \A i \in DOMAIN Holds(Partial(f)) : Holds(Partial(f))[i].part # p.part)

Request ==
    /\ Ready("fetch") /\ ~MaySkip
    /\ LET f == Now.to[1]
           all == Content(Now.of, server)
           writes == CASE Now.how = "direct" -> Spread(<<f>>, all)
                       [] Now.how = "append" -> Adds(f, all)
                       [] Now.how = "attempts" -> Spread(<<Partial(f)>>, all)
                       [] Now.how = "collect" -> Adds(Partial(f), Missing(f))
       IN  IF Now.how = "resume" THEN Resume(f)
           ELSE Busy(writes) /\ UNCHANGED <<disk, exit>>
    /\ Fine

\* a list comes without the details; these are asked for what is in the list
Listed == \E i \in DOMAIN run.held : run.held[i].of = Now.of
Answer ==
    CASE Now.how = "" -> Content(Now.of, server)
      [] Now.how = "list" -> <<Part(Now.of, server, 1)>>
      [] Now.how = "details" -> IF Listed THEN Tail(Content(Now.of, server)) ELSE <<>>

Ask ==
    /\ Ready("hold") /\ ~MaySkip
    /\ run' = [Next1(run) EXCEPT !.held = @ \o Answer]
    /\ UNCHANGED <<disk, exit>> /\ Fine

\* a request fails at once, or the connection breaks while the file is written
Fail ==
    /\ exit = "running" /\ run.pc <= Len(Plan)
    /\ Now.op \in {"fetch", "hold"}
    /\ IF run.busy THEN run.todo # <<>> ELSE ~MaySkip
    /\ Trouble
    /\ CASE Now.how = "attempts" /\ run.tries < MaxAttempts ->
              /\ run' = [run EXCEPT !.tries = @ + 1, !.busy = FALSE, !.todo = <<>>]
              /\ UNCHANGED exit
         [] Now.how = "collect" /\ run.busy ->
              run' = [run EXCEPT !.todo = Tail(@)] /\ UNCHANGED exit
         [] OTHER -> GiveUp
    /\ UNCHANGED disk /\ Quiet

Store ==
    /\ Ready("save")
    /\ run' = [run EXCEPT !.busy = TRUE, !.todo = Spread(Now.to, run.held), !.held = <<>>]
    /\ UNCHANGED <<disk, exit>> /\ Fine

\* mutant: a bad archive stays
MutBadArchive ==
    IF Now.how = "raise" THEN run' = Fresh /\ exit' = "failed" /\ UNCHANGED disk
    ELSE UNCHANGED disk /\ GiveUp
\* safe_extract_zip deletes an archive for which zipfile raises BadZipFile
BadArchive ==
    CASE Now.how = "raise" -> run' = Fresh /\ exit' = "failed" /\ UNCHANGED disk
      [] Now.how = "glob" ->
            /\ disk' = Without(Now.from[1])
            /\ LET found == {f \in ToSet(Now.to) : Exists(f)}
               IN  IF found # {} THEN run' = [Next1(run) EXCEPT !.got = @ \cup found] /\ UNCHANGED exit
                   ELSE GiveUp
      [] OTHER -> disk' = Without(Now.from[1]) /\ GiveUp
\* an archive that breaks off has no directory; one of two versions has that of the second
Unpack ==
    /\ Ready("extract") /\ Fine
    /\ LET archive == Holds(Now.from[1])
       IN  IF Intact(archive) \/ Joined(archive)
           THEN Busy(Spread(Now.to, archive)) /\ UNCHANGED <<disk, exit>>
           ELSE BadArchive
\* it is written up to where the checksum is wrong (BadZipFile), or the data cannot be
\* decompressed: a zlib.error, which nobody expects
Corrupt == Now.op = "extract" /\ Joined(Holds(Now.from[1]))
Spoil ==
    /\ exit = "running" /\ run.busy /\ Corrupt /\ Fine
    /\ \/ BadArchive
       \/ run' = Fresh /\ exit' = "failed" /\ UNCHANGED disk

\* _process_csv, _concat_and_write, _remap_and_write, parse_un_xml: a file that read_csv
\* cannot parse is left out
Readable == Only(Now.from, LAMBDA f : IF Now.how = "listed" THEN f \in run.got ELSE Exists(f))
Chosen ==
    IF Now.how = "any" /\ Readable # <<>> THEN {<<f>> : f \in ToSet(Readable)} ELSE {Readable}
AllBut(files, bad) == Only(files, LAMBDA f : f \notin bad)
Read(files) == {AllBut(files, bad) : bad \in SUBSET {f \in ToSet(files) : ~Intact(Holds(f))}}
Convert ==
    /\ Ready("derive") /\ Fine /\ UNCHANGED disk
    /\ \E files \in UNION {Read(chosen) : chosen \in Chosen} :
          IF files = <<>> \/ (Now.how = "parsed" /\ ~Intact(Concat(Now.from)))
          THEN GiveUp
          ELSE Busy(Spread(Now.to, Concat(files))) /\ UNCHANGED exit

Write ==
    /\ exit = "running" /\ run.busy /\ run.todo # <<>>
    /\ LET w == Head(run.todo)
       IN  disk' = Put(w.to, IF w.open THEN <<>> ELSE Holds(w.to) \o w.add)
    /\ run' = [run EXCEPT !.todo = Tail(@)]
    /\ UNCHANGED exit /\ Fine

\* the last write of a step was made: a partial file gets its final name
Close ==
    /\ exit = "running" /\ run.busy /\ run.todo = <<>> /\ ~Corrupt
    /\ LET f == Now.to[1]
       IN  disk' = IF Now.how \in {"resume", "attempts", "collect"} /\ Ranged(f) > 0
                   THEN Renamed(Partial(f), f) ELSE disk
    /\ run' = [Next1(run) EXCEPT !.got = IF Now.op = "extract" THEN @ \cup ToSet(Now.to) ELSE @]
    /\ UNCHANGED exit /\ Fine

MoveFile == Ready("move") /\ disk' = Renamed(Now.from[1], Now.to[1]) /\ Done /\ Fine
\* what a marker holds is what it vouches for
MarkDone == Ready("mark") /\ disk' = Put(Now.to[1], Holds(Now.from[1])) /\ Done /\ Fine
UnlinkFile == Ready("unlink") /\ ~MaySkip /\ disk' = Without(Now.to[1]) /\ Done /\ Fine

Verdict ==
    CASE Policy[script] = "any failed" -> run.failed = {}
      [] Policy[script] = "none done" -> run.done # {}
      [] Policy[script] = "nothing new" -> run.done \ run.skipped # {}
      [] Policy[script] = "never" -> TRUE
DatesOf(groups) == {Plan[i].of : i \in {j \in DOMAIN Plan : Plan[j].group \in groups}} \ {""}
Exit ==
    /\ exit = "running" /\ run.pc > Len(Plan)
    /\ exit' = IF Verdict THEN "ok" ELSE "failed"
    /\ missed' = DatesOf(run.failed)
    /\ run' = Fresh
    /\ UNCHANGED <<script, disk, server, order, runs, troubles>>

-----------------------------------------------------------------------------
(* The world. *)

Kill ==
    /\ exit = "running" /\ Trouble
    /\ exit' = "killed" /\ run' = Fresh
    /\ UNCHANGED <<script, disk, server, order, missed, runs>>
Publish ==
    /\ server = 1 /\ server' \in 2..Len(Size)
    /\ UNCHANGED <<script, disk, order, run, exit, missed, runs, troubles>>

Init ==
    /\ script \in DOMAIN PlanOf
    /\ disk = [f \in {} |-> <<>>]
    /\ server = 1
    /\ order = [asked |-> <<>>, skip |-> TRUE, plan |-> <<>>]
    /\ run = Fresh /\ exit = "none" /\ missed = {}
    /\ runs = 0 /\ troubles = 0

Work ==
    \/ Skip \/ Request \/ Ask \/ Store \/ Unpack \/ Spoil \/ Convert \/ Write \/ Close
    \/ MoveFile \/ MarkDone \/ UnlinkFile \/ Exit
Next ==
    \/ \E asked \in DOMAIN PlanOf[script], skip \in BOOLEAN : Start(asked, skip)
    \/ Again \/ Work \/ Fail \/ Kill \/ Publish

\* a script runs until it ends, and the operator starts it again until it ends well
Spec == Init /\ [][Next]_vars /\ WF_vars(Work) /\ WF_vars(Again)

-----------------------------------------------------------------------------
(* What the scripts promise, and which of them do not. *)

\* write under a name that a later run takes for done
CutShortIsKept ==
    {"camara_inquiries", "camara_inquiries_api", "caged", "cnpj_bq", "cvm", "datajud", "mides",
     "querido_diario", "renuncias", "runner", "senado_cpis", "siconfi", "stf", "tse_bens",
     "tse_filiados", "un_sanctions", "world_bank"}
\* take a file that is in the directory, also when the archive it came from is bad
TakesWhatIsThere == {"viagens"}
\* continue the partial file of one address with data of another one
SharedPartial == {"holdings", "opensanctions"}
\* extract the archives of all dates into one directory and take a file of it
SharedDirectory == {"ceaf", "cepim", "leniency", "pep_cgu", "sanctions"}
\* keep what download_file brings without an archive's checksums
NoChecksum == {"bcb", "cvm_funds", "eu_sanctions", "ofac", "senado"}
\* leave details out for which there was no answer
LeavesOut == {"senado_parlamentares"}
\* write again over what a marker of an earlier run vouches for (--no-skip-existing)
MarkerStays == {"dou"}
\* fail when there is nothing left to do
NothingNewFails == {"dou"}
\* skip for an archive that is there, and extract it again
KeepsArchive == {"cnpj", "icij", "siop", "transparencia", "tse", "viagens"} \cup SharedDirectory
\* skip for a file that is there, or take one of another date, and read it again
KeepsCsv == {"bcb"} \cup SharedDirectory

\* What the plans of the other scripts have in common, about the files a later run
\* skips for: one file decides, and no step writes it in place.  Either download_file
\* or descargar brings it, always from one address,
PlansOf(name) == {PlanOf[name][asked] : asked \in DOMAIN PlanOf[name]}
Steps(name) == UNION {ToSet(p) : p \in PlansOf(name)}
Brings(s) == s.op = "fetch" /\ s.how \in {"resume", "attempts"}
\* or it is the copy, or the new name, of what the step before has just written: an
\* archive's file or, with a marker, what the step before that one asked for.
Feeds(p, i) ==
    /\ i \in DOMAIN p /\ i + 1 \in DOMAIN p /\ p[i + 1].op \in {"move", "mark"}
    /\ Len(p[i].to) = 1 /\ p[i].to = p[i + 1].from
    /\ p[i].group = p[i + 1].group /\ p[i].unless = <<>>
    /\ \/ p[i].op = "extract" /\ p[i].how # "glob" /\ p[i].orElse # "go on"
       \/ p[i].op = "save" /\ i - 1 \in DOMAIN p /\ p[i - 1].op = "hold"
\* what is asked for is saved by the next step or not at all
Keeps(p, i) ==
    /\ i + 1 \in DOMAIN p /\ p[i + 1].op = "save" /\ p[i + 1].unless = <<>>
    /\ p[i].group = p[i + 1].group
    /\ p[i].how = "" /\ p[i].orElse # "go on" /\ ~p[i].ends /\ (p[i].skips = "group" \/ p[i].unless = <<>>)
Brought(name) == {s.to[1] : s \in {s \in Steps(name) : Brings(s)}}
Vouching(name) ==
    Brought(name)
    \cup UNION {{p[i + 1].to[1] : i \in {i \in DOMAIN p : Feeds(p, i)}} : p \in PlansOf(name)}
Sound(name) ==
    /\ \A s, t \in Steps(name) : Brings(s) /\ Brings(t) /\ s.to = t.to => s.of = t.of
    /\ \A p \in PlansOf(name) : \A i \in DOMAIN p :
         /\ p[i].unless # <<>> => Len(p[i].unless) = 1 /\ p[i].unless[1] \in Vouching(name)
         /\ p[i].op = "move" => Feeds(p, i - 1)
         /\ Brings(p[i]) \/ Feeds(p, i - 1) \/ ToSet(p[i].to) \cap Vouching(name) = {}
         /\ Feeds(p, i) /\ p[i].op = "save" => \A j \in DOMAIN p : p[j].op = "hold" => Keeps(p, j)

ASSUME PlansAssumption ==
    \A name \in DOMAIN PlanOf : \A asked \in DOMAIN PlanOf[name] :
        PlanOf[name][asked] \in Seq(PlanStep)
ASSUME SoundAssumption ==
    \A name \in DOMAIN PlanOf \ (CutShortIsKept \cup SharedPartial) : Sound(name)

\* A file that makes a later run skip a download is a whole version of it, at every
\* moment: kills, broken connections and answers that ignore the Range header leave
\* only partial files (download_file, descargar, the renames of camara and cpgf, the
\* .done marker of dou), as long as the publisher changes and compresses nothing.
SkippedIsWhole ==
    server = 1 /\ script \notin CutShortIsKept \cup SharedPartial \cup Compressed =>
        \A asked \in DOMAIN PlanOf[script] : \A s \in ToSet(PlanOf[script][asked]) :
            Enough(s) => Intact(Concat(s.unless))

Published(d) == Only(Concat(Outputs[script][d]), LAMBDA p : p.of = d)
Complete(d) == \E v \in 1..server : Published(d) = Content(d, v)

\* When a run exits with 0, the output holds the data of every date it was asked
\* for and did not log as failed: all of one version, once, whatever was killed,
\* failed or published before.
SuccessIsComplete ==
    /\ exit = "ok"
    /\ script \notin CutShortIsKept \cup SharedPartial \cup SharedDirectory \cup TakesWhatIsThere
                 \cup MarkerStays \cup LeavesOut \cup Compressed
    /\ script \in NoChecksum => server = 1
    => \A d \in ToSet(order.asked) \ missed : Complete(d)

\* When a run exits with 0 and logs no failure, its output holds nothing of a date
\* it was not asked for, whatever earlier runs left in the directory.
OutputIsOfAsked ==
    exit = "ok" /\ missed = {} /\ script \notin SharedPartial \cup SharedDirectory =>
        \A d \in ToSet(order.asked) : \A p \in ToSet(Concat(Outputs[script][d])) :
            p.of \in ToSet(order.asked)

\* what a run that failed left is read again by the next one
ReadAgain ==
    \E s \in Steps(script) :
        \/ /\ s.op = "extract" /\ script \in KeepsArchive
           /\ Joined(Holds(s.from[1]))
        \/ /\ s.op = "derive" /\ script \in KeepsCsv
           /\ \E f \in ToSet(s.from) : Exists(f) /\ ~Intact(disk[f])

\* A run that failed or was killed succeeds when it is started again often enough,
\* on the directory it left: an archive that breaks off is deleted, a partial file is
\* finished.  It may fail for ever on an archive of two versions that it keeps, and on a
\* CSV that it keeps of which it has two versions or a part.
RetriesSucceed ==
    exit \in {"failed", "killed"} /\ script \notin NothingNewFails \cup Compressed
        ~> exit = "ok" \/ (exit = "failed" /\ ReadAgain)
=============================================================================
