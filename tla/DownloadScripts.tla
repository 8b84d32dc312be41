--------------------------- MODULE DownloadScripts ---------------------------
(***************************************************************************)
(* What each download script of etl/scripts does to its output directory,  *)
(* as a plan: the steps of a run, in order, for the dates, years or months *)
(* the operator asked for.  Downloads takes the steps one by one.          *)
(*                                                                         *)
(* The steps that belong to one file, year or table form a group: when one *)
(* of them fails the script gives the group up and goes on with the next   *)
(* one, unless the step says otherwise.  What a script does to the columns *)
(* and rows of what it reads is left out.                                  *)
(***************************************************************************)
EXTENDS Naturals, Sequences, SequencesExt

CONSTANTS Dataset      \* the dates, years or months there is data of

\* a file of the output directory: its name, the date or year in the name,
\* and whether it is the partial file of a download
File(name, d) == <<name, d, "">>
TheFile(name) == <<name, "", "">>
Partial(f) == <<f[1], f[2], "partial">>

Name == STRING \X STRING \X {""}

-----------------------------------------------------------------------------
\* The steps.  `unless` are the files whose presence lets the script skip the
\* step, the group or the run (`skips`); all of them are needed, or any of them,
\* and with `filled` they may not be empty.
Ways ==
    [fetch   |-> {"resume", "attempts", "direct", "append", "collect"},
     derive  |-> {"found", "any", "listed", "parsed"},
     extract |-> {"", "list", "glob", "raise"},
     hold    |-> {"", "list", "details"}, save |-> {""}, move |-> {""}, mark |-> {""}, unlink |-> {""}]
PlanStep ==
    {s \in [op : DOMAIN Ways, group : STRING, how : UNION {Ways[op] : op \in DOMAIN Ways},
            of : Dataset \cup {""}, from : Seq(Name), to : Seq(Name), unless : Seq(Name),
            all : BOOLEAN, filled : BOOLEAN, skips : {"step", "group", "run"},
            orElse : {"go on", "group", "stop"}, ends : BOOLEAN] :
        /\ s.how \in Ways[s.op]
        /\ s.to = <<>> <=> s.op = "hold"
        /\ s.op \in {"fetch", "move", "mark", "unlink"} => Len(s.to) = 1
        /\ s.op \in {"fetch", "hold"} => s.of \in Dataset}
Step(op, group) ==
    [op |-> op, group |-> group, how |-> "", of |-> "", from |-> <<>>, to |-> <<>>,
     unless |-> <<>>, all |-> TRUE, filled |-> FALSE, skips |-> "step",
     orElse |-> "group", ends |-> FALSE]

\* download_file, or a stream of the script's own, to one file
Fetch(how, of, f, group) == [Step("fetch", group) EXCEPT !.how = how, !.of = of, !.to = <<f>>]
\* a request, or many, whose answers are held in memory
Hold(of, group) == [Step("hold", group) EXCEPT !.of = of]
\* what is held in memory is written to the files, in place
Save(files, group) == [Step("save", group) EXCEPT !.to = files, !.orElse = "stop"]
Extract(zip, files, group) == [Step("extract", group) EXCEPT !.from = <<zip>>, !.to = files]
\* a file is made of others: of those this run extracted, of those it finds, or of one of them
Derive(how, files, f, group) ==
    [Step("derive", group) EXCEPT !.how = how, !.from = files, !.to = <<f>>]
Move(f, g, group) == [Step("move", group) EXCEPT !.from = <<f>>, !.to = <<g>>]
Mark(f, marker, group) == [Step("mark", group) EXCEPT !.from = <<f>>, !.to = <<marker>>]
Unlink(f, group) == [Step("unlink", group) EXCEPT !.to = <<f>>]

Unless(s, files, skips) == [s EXCEPT !.unless = files, !.skips = skips]
OrElse(s, what) == [s EXCEPT !.orElse = what]
Only(s, Test(_)) == FlattenSeq([i \in DOMAIN s |-> IF Test(s[i]) THEN <<s[i]>> ELSE <<>>])
Each(asked, Steps(_)) == FlattenSeq([i \in DOMAIN asked |-> Steps(asked[i])])

-----------------------------------------------------------------------------
(* One file under one address, kept as it comes. *)

OneFile(f) == <<Unless(Fetch("resume", "a", f, "file"), <<f>>, "run")>>

CvmFunds == OneFile(TheFile("cad_fi.csv"))
EuSanctions == OneFile(TheFile("eu_sanctions.csv"))

\* the raw file is kept, the output is written again in every run
Bcb ==
    <<Unless(Fetch("resume", "a", TheFile("penalidades_raw.csv"), "file"),
             <<TheFile("penalidades_raw.csv")>>, "step"),
      Derive("found", <<TheFile("penalidades_raw.csv")>>, TheFile("penalidades.csv"), "file")>>

\* an XML file that does not parse ends the run
UnSanctions ==
    <<Unless(Fetch("resume", "a", TheFile("consolidated.xml"), "file"),
             <<TheFile("un_sanctions.json")>>, "run"),
      OrElse(Derive("parsed", <<TheFile("consolidated.xml")>>, TheFile("un_sanctions.json"), "file"),
             "stop")>>

\* two addresses for one file: the second one is "b"
Holdings ==
    LET f == TheFile("holding.csv.gz")
        From(address) ==
            [Unless(Fetch("resume", address, f, address), <<f>>, "run") EXCEPT !.ends = TRUE]
    IN  <<From("a"), [From("b") EXCEPT !.unless = <<>>]>>

\* two datasets, one file name
OpenSanctions(asked) ==
    <<Unless(Fetch("resume", asked[1], TheFile("entities.ftm.json"), "file"),
             <<TheFile("entities.ftm.json")>>, "run")>>

\* three addresses, the last two streamed in place; whatever happens, exit 0
WorldBank ==
    LET f == TheFile("debarred.csv")
        Ending(s) == [s EXCEPT !.ends = TRUE]
    IN  <<Unless(Hold("a", "json"), <<f>>, "run"), Ending(Save(<<f>>, "json")),
          Ending(Fetch("direct", "a", f, "csv")), Ending(Fetch("direct", "a", f, "catalog"))>>

\* asks for everything and writes it over what is there
TesouroEmendas ==
    <<OrElse(Hold("a", "file"), "stop"), Save(<<TheFile("emendas_tesouro.csv")>>, "file")>>

\* one file per year or list
FilePerYear(asked) ==
    Each(asked, LAMBDA d : <<Unless(Fetch("resume", d, File("csv", d), d), <<File("csv", d)>>, "group")>>)
Senado(asked) == FilePerYear(asked)
Ofac(asked) == FilePerYear(asked)

\* descargar of aracc
Descargar(asked) ==
    Each(asked, LAMBDA d : <<OrElse(Unless(Fetch("attempts", d, File("csv", d), d),
                                           <<File("csv", d)>>, "group"), "stop")>>)

-----------------------------------------------------------------------------
(* Archives. *)

\* the CSV of the archive gets its final name at the end
CsvOfArchive(asked) ==
    Each(asked, LAMBDA d :
        <<Unless(Fetch("resume", d, File("zip", d), d), <<File("csv", d)>>, "group"),
          Extract(File("zip", d), <<File("raw", d)>>, d),
          Move(File("raw", d), File("csv", d), d)>>)
Camara(asked) == CsvOfArchive(asked)
Cpgf(asked) == CsvOfArchive(asked)

\* _download_dataset and _process_csv: the archives of all dates are extracted into
\* one directory, and the first CSV that glob finds there becomes the output
DatedArchive(name, asked) ==
    LET d == asked[1]
        zip == File(name \o ".zip", d)
    IN  <<Unless(Fetch("resume", d, zip, name), <<zip>>, "step"),
          Extract(zip, <<File(name, d)>>, name),
          Derive("any", SetToSeq({File(name, e) : e \in Dataset}), TheFile(name \o ".csv"), name)>>
Ceaf(asked) == DatedArchive("ceaf", asked)
Cepim(asked) == DatedArchive("cepim", asked)
Leniency(asked) == DatedArchive("acordos-leniencia", asked)
PepCgu(asked) == DatedArchive("pep", asked)
Sanctions(asked) == DatedArchive("ceis", asked) \o DatedArchive("cnep", asked)

\* archives of several years, each extracted into a directory of its own
ArchivePerYear(name, d, dir) ==
    LET zip == File(name \o ".zip", d)
    IN  <<Unless(Fetch("resume", d, zip, name \o d), <<zip>>, "step"),
          [Extract(zip, <<dir>>, name \o d) EXCEPT !.how = "list"]>>
\* mutant: the output is made of every year's directory that is there
MutCombined(name, asked) ==
    Each(asked, LAMBDA d : ArchivePerYear(name, d, File(name, d)))
    \o <<Derive("found", SetToSeq({File(name, e) : e \in Dataset}), TheFile(name \o ".csv"), name)>>
Combined(name, asked) ==
    Each(asked, LAMBDA d : ArchivePerYear(name, d, File(name, d)))
    \o <<Derive("listed", [i \in DOMAIN asked |-> File(name, asked[i])], TheFile(name \o ".csv"), name)>>
TseCandidates(asked) == Combined("candidatos", asked)
TseDonations(asked) == Combined("doacoes", asked)
Tse(asked) == TseCandidates(asked) \o TseDonations(asked)
TransparenciaCompras(asked) == Combined("compras", asked)
TransparenciaServidores(asked) == Combined("servidores", asked)
TransparenciaEmendas(asked) == Combined("emendas", <<asked[1]>>)
Transparencia(asked) ==
    TransparenciaCompras(asked) \o TransparenciaServidores(asked) \o TransparenciaEmendas(asked)
SiopYear(d) == File("emendas", d)
Siop(asked) ==
    Each(asked, LAMBDA d : ArchivePerYear("siop", d, SiopYear(d)))
    \o Each(asked, LAMBDA d : <<Derive("listed", <<SiopYear(d)>>, File("emendas.csv", d), "write" \o d)>>)
\* takes what it finds in the directory, also when the archive was bad; ends when it can
\* read none of it
Viagens(asked) ==
    LET Globbed(s) == CASE s.op = "extract" -> [s EXCEPT !.how = "glob"]
                        [] s.op = "derive" -> OrElse(s, "stop")
                        [] OTHER -> s
        steps == Combined("viagens", asked)
    IN  [i \in DOMAIN steps |-> Globbed(steps[i])]

\* any CSV in the directory is enough, and a bad archive is not an error
Cvm ==
    LET csvs == <<TheFile("processo.csv"), TheFile("acusado.csv")>>
        zip == TheFile("processo_sancionador.zip")
    IN  <<[Unless(Fetch("resume", "a", zip, "file"), csvs, "run") EXCEPT !.all = FALSE],
          OrElse(Extract(zip, csvs, "file"), "go on")>>

Icij ==
    LET zip == TheFile("full-oldb.LATEST.zip")
    IN  <<Unless(Fetch("resume", "a", zip, "file"), <<zip>>, "step"),
          Extract(zip, <<TheFile("nodes-entities.csv"), TheFile("relationships.csv")>>, "file")>>

\* an archive that is there is not extracted again
Renuncias(asked) ==
    Each(asked, LAMBDA d :
        <<Unless(Hold(d, d), <<File("zip", d)>>, "group"), Save(<<File("zip", d)>>, d),
          Extract(File("zip", d), <<File("csv", d)>>, d)>>)

\* the archive is extracted from memory; the marker comes last
Dou(asked) ==
    Each(asked, LAMBDA d :
        <<Unless(Hold(d, d), <<File(".done", d)>>, "group"), Save(<<File("xml", d)>>, d),
          Mark(File("xml", d), File(".done", d), d)>>)

\* mutant: an archive that is there is not extracted again
MutCnpjFile(d) ==
    LET zip == File("zip", d)
    IN  <<Unless(Fetch("resume", d, zip, d), <<zip>>, "group"), Extract(zip, <<File("csv", d)>>, d)>>
\* download_cnpj.py: the files are extracted again in every run
CnpjFile(d) ==
    LET zip == File("zip", d)
    IN  <<Unless(Fetch("resume", d, zip, d), <<zip>>, "step"), Extract(zip, <<File("csv", d)>>, d)>>
Cnpj(asked) == Each(asked, CnpjFile)

\* the command `download` of runner.py: the archive is streamed under its final name
RunnerDownload(asked) ==
    Each(asked, LAMBDA d :
        <<Unless(Fetch("direct", d, File("zip", d), d), <<File("zip", d)>>, "group"),
          [OrElse(Extract(File("zip", d), <<File("csv", d)>>, d), "stop") EXCEPT !.how = "raise"]>>)

-----------------------------------------------------------------------------
(* BigQuery and other services. *)

\* the pages of a query are appended to the file
QueryToCsv(of, f, group) == OrElse(Unless(Fetch("append", of, f, group), <<f>>, "group"), "stop")
Caged(asked) == Each(asked, LAMBDA d : <<QueryToCsv(d, File("caged.csv", d), d)>>)
Stf == <<QueryToCsv("a", TheFile("decisoes.csv"), "file")>>
TseBens == <<QueryToCsv("a", TheFile("bens.csv"), "file")>>
TseFiliados == <<QueryToCsv("a", TheFile("filiados.csv"), "file")>>
\* ... which is removed first
CnpjTable(d) ==
    LET f == File("history.csv", d)
    IN  <<Unless(Unlink(f, d), <<f>>, "group"), Fetch("append", d, f, d)>>
CnpjBq(asked) == Each(asked, CnpjTable)
Mides(asked) ==
    Each(asked, LAMBDA d :
        <<[Unless(Hold(d, d), <<File("csv", d)>>, "group") EXCEPT !.filled = TRUE],
          OrElse(Save(<<File("csv", d)>>, d), "group")>>)

ServiceToFiles(files) == <<OrElse(Unless(Hold("a", "file"), files, "run"), "stop"), Save(files, "file")>>
Datajud == ServiceToFiles(<<TheFile("cases.csv"), TheFile("parties.csv")>>)
QueridoDiario ==
    LET steps == ServiceToFiles(<<TheFile("acts.jsonl")>>)
    IN  <<[steps[1] EXCEPT !.filled = TRUE], steps[2]>>

CamaraFiles == <<TheFile("inquiries.csv"), TheFile("requirements.csv"), TheFile("sessions.csv")>>
\* three queries: one that fails ends the run
CamaraQueries == OrElse(Unless(Hold("a", "file"), CamaraFiles, "run"), "stop")
CamaraInquiries == <<CamaraQueries, Save(CamaraFiles, "file")>>
\* --mode api_only: a request that was refused three times counts as an empty answer
CamaraRequests == OrElse(CamaraQueries, "go on")
CamaraInquiriesApi == <<CamaraRequests, Save(CamaraFiles, "file")>>

InquiryFiles == CamaraFiles \o <<TheFile("members.csv"), TheFile("history_sources.csv")>>
\* the list of the Senate's service, "a", which may be left out when it does not answer,
\* and its archive, "b", which strict mode needs
SenadoService == OrElse(Unless(Hold("a", "file"), InquiryFiles, "run"), "go on")
SenadoArchive == OrElse(Hold("b", "file"), "stop")
SenadoCpis == <<SenadoService, SenadoArchive, Save(InquiryFiles, "file")>>
\* the archive alone, under the same names and without looking what is there
SenadoCpiArchive == <<SenadoArchive, Save(InquiryFiles, "file")>>
\* a legislature that does not answer is left out, and the details of a senator (the CPF)
SenadoParlamentares(asked) ==
    Each(asked, LAMBDA d : <<[Hold(d, d) EXCEPT !.how = "list"]>>)
    \o Each(asked, LAMBDA d : <<OrElse([Hold(d, "details" \o d) EXCEPT !.how = "details"], "go on")>>)
    \o <<Save(<<TheFile("parlamentares.json")>>, "write")>>

\* an entity that does not answer is left out, those in the partial file are not asked again
SiconfiYear(d) ==
    <<[Unless(Fetch("collect", d, File("dca.csv", d), d), <<File("dca.csv", d)>>, "group")
           EXCEPT !.filled = TRUE]>>
Siconfi(asked) == Each(asked, SiconfiYear)

=============================================================================
