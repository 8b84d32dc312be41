----------------------------- MODULE SourceLoads -----------------------------
(***************************************************************************)
(* What the sources leave in the graph when they are loaded again and      *)
(* again, and one after the other: a publisher brings out a file, the      *)
(* pipeline loads it batch by batch, may fail between two batches and is   *)
(* then started again on the same file; later comes the next file, of the  *)
(* same source, with records corrected, moved, dropped and added, or of    *)
(* another.  The graph already holds some of the people and companies.     *)
(*                                                                         *)
(* That one process at a time writes is EtlRun's subject, and what a write *)
(* that fails leaves behind too; here a batch is written or it is not.     *)
(***************************************************************************)
EXTENDS SanctionSources, FinanceSources, ServiceSources, ProcurementSources,
        PoliticalSources, ArgentineSources

CONSTANTS
    Histories,    \* the sequences of files that are loaded, each with its source
    Registry,     \* what the graph already holds
    MaxAborts     \* how often a pipeline may fail in a history

VARIABLES
    files,        \* the files that are not loaded yet, the first one being loaded
    todo,         \* the batches of that file that are not written yet
    running,      \* whether a pipeline runs
    aborts,       \* how often one failed
    graph,        \* the graph in Neo4j
    clean,        \* history: the graph, had no pipeline failed
    loaded        \* history: the files whose load was begun

vars == <<files, todo, running, aborts, graph, clean, loaded>>

-----------------------------------------------------------------------------
\* the registries PIPELINES of bracc_etl/runner.py and aracc_etl/runner.py
Plan(name, file) ==
    CASE name = "bcb" -> Bcb(file)                      [] name = "bndes" -> Bndes(file)
      [] name = "caged" -> Caged(file)                  [] name = "camara" -> Camara(file)
      [] name = "camara_inquiries" -> CamaraInquiries(file) [] name = "ceaf" -> Ceaf(file)
      [] name = "cepim" -> Cepim(file)                  [] name = "comprar" -> Comprar(file)
      [] name = "comprasnet" -> Comprasnet(file)        [] name = "cpgf" -> Cpgf(file)
      [] name = "cvm" -> Cvm(file)                      [] name = "cvm_funds" -> CvmFunds(file)
      [] name = "datajud" -> Datajud(file)              [] name = "datasus" -> Datasus(file)
      [] name = "datos_gob_ar" -> DatosGobAr(file)      [] name = "ddjj" -> Ddjj(file)
      [] name = "dou" -> Dou(file)                      [] name = "eu_sanctions" -> EuSanctions(file)
      [] name = "holdings" -> Holdings(file)            [] name = "ibama" -> Ibama(file)
      [] name = "icij" -> Icij(file)                    [] name = "inep" -> Inep(file)
      [] name = "leniency" -> Leniency(file)            [] name = "mides" -> Mides(file)
      [] name = "ofac" -> Ofac(file)                    [] name = "opensanctions" -> OpenSanctions(file)
      [] name = "pep_cgu" -> PepCgu(file)               [] name = "pgfn" -> Pgfn(file)
      [] name = "pncp" -> Pncp(file)                    [] name = "querido_diario" -> QueridoDiario(file)
      [] name = "rais" -> Rais(file)                    [] name = "renuncias" -> Renuncias(file)
      [] name = "sanctions" -> Sanctions(file)          [] name = "senado" -> Senado(file)
      [] name = "senado_cpis" -> SenadoCpis(file)       [] name = "siconfi" -> Siconfi(file)
      [] name = "siop" -> Siop(file)                    [] name = "stf" -> Stf(file)
      [] name = "stj_dados_abertos" -> Stj(file)        [] name = "tcu" -> Tcu(file)
      [] name = "tesouro_emendas" -> TesouroEmendas(file) [] name = "transferegov" -> Transferegov(file)
      [] name = "transparencia" -> Transparencia(file)  [] name = "tse" -> Tse(file)
      [] name = "tse_bens" -> TseBens(file)             [] name = "tse_filiados" -> TseFiliados(file)
      [] name = "un_sanctions" -> UnSanctions(file)     [] name = "viagens" -> Viagens(file)
      [] name = "world_bank" -> WorldBank(file)

Batches(f) == SelectSeq(Plan(f.source, f.rows), LAMBDA b : b.rows # <<>>)

Init ==
    /\ files \in Histories
    /\ todo = <<>>
    /\ running = FALSE
    /\ aborts = 0
    /\ graph = Registry
    /\ clean = Registry
    /\ loaded = <<>>

\* extract and transform: the batches are all prepared before the first is written
Begin ==
    /\ ~running /\ files # <<>>
    /\ running' = TRUE
    /\ todo' = Batches(Head(files))
    /\ clean' = ApplyAll(clean, Batches(Head(files)))
    /\ loaded' = Append(loaded, Head(files))
    /\ UNCHANGED <<files, aborts, graph>>

LoadBatch ==
    /\ running /\ todo # <<>>
    /\ graph' = Apply(graph, Head(todo))
    /\ todo' = Tail(todo)
    /\ UNCHANGED <<files, running, aborts, clean, loaded>>

Finish ==
    /\ running /\ todo = <<>>
    /\ running' = FALSE
    /\ files' = Tail(files)
    /\ UNCHANGED <<todo, aborts, graph, clean, loaded>>

\* a batch, or what follows the last one, fails for good and the exception ends the
\* run; the pipeline is started again on the same file
Restart ==
    /\ running /\ aborts < MaxAborts
    /\ aborts' = aborts + 1
    /\ todo' = Batches(Head(files))
    /\ UNCHANGED <<files, running, graph, clean, loaded>>

Next == Begin \/ LoadBatch \/ Finish \/ Restart

Spec == Init /\ [][Next]_vars

-----------------------------------------------------------------------------
(* Properties.  Each holds of all sources but those it names, of which the *)
(* comment says what they do.                                              *)

Loaded == ~running
SourcesOf(fs) == {fs[i].source : i \in DOMAIN fs}
sources == SourcesOf(loaded)
Without(exempt) == sources \cap exempt = {}

FactNodes == {n \in DOMAIN graph.nodes : graph.nodes[n].records # {}}
PartyLabels == {"Person", "Company", "Persona", "Empresa"}
PartyNodes == {n \in DOMAIN graph.nodes : n.label \in PartyLabels}
Moved(r, q) == [r EXCEPT !.pos = q.pos] = q

\* Loading is idempotent in the strong sense: wherever a pipeline failed, after it was
\* run again the nodes and links are those of a history without failures.
FailureLeavesNoTrace ==
    Loaded => graph.nodes = clean.nodes /\ graph.links = clean.links

\* A record that comes again unchanged, anywhere in the next file, is the node it was.
\* ByPosition: these number the rows of the file, so that one row more at its top makes
\* new nodes of all the others.
ByPosition == {"ceaf", "pep_cgu", "sanctions", "tcu"}
MovedRecordStays ==
    Loaded /\ Without(ByPosition) =>
        \A n, m \in FactNodes :
            /\ n.label = m.label
            /\ \E r \in graph.nodes[n].records, q \in graph.nodes[m].records : Moved(r, q)
            => n = m

\* A record that is corrected, in its date, amount, kind, reference or names, changes its
\* node and makes no second one beside the one that is wrong.  ByContent: the id is a hash
\* of what is corrected.  Aggregates: the node is no fact but a group.  ByNumber: so is the
\* id of a record that comes without a number, and is another when it is given one.
Aggregates == {"caged", "rais"}
ByContent ==
    {"bcb", "camara", "cpgf", "ddjj", "dou", "eu_sanctions", "renuncias", "senado", "senado_cpis",
     "siconfi", "stf", "stj_dados_abertos", "transparencia", "tse_bens", "tse_filiados",
     "un_sanctions", "viagens", "world_bank"}
ByNumber ==
    {"bcb", "camara_inquiries", "cepim", "comprasnet", "datajud", "datos_gob_ar", "eu_sanctions",
     "mides", "pncp", "querido_diario", "senado_cpis"}
Numbered(r) == r.num # "" \/ Without(ByNumber)
CorrectedInPlace ==
    Loaded /\ Without(ByPosition \cup ByContent \cup Aggregates) =>
        \A n, m \in FactNodes :
            /\ n.label = m.label
            /\ \E r \in graph.nodes[n].records, q \in graph.nodes[m].records :
                  r.fact = q.fact /\ Numbered(r) /\ Numbered(q)
            => n = m

\* A record is one node, wherever the next file has it and however it is corrected there.
RecordsStay == MovedRecordStays /\ CorrectedInPlace

\* Two facts are two nodes.  OnePerParty: one agreement or fund per company.
\* Indistinct: the id leaves out what tells two facts apart.  ByNumber: two records without
\* a number may be one node.  OneNamespace: two chambers number the inquiries that they
\* write under one label.
OnePerParty == {"leniency", "cvm_funds"}
Indistinct ==
    {"camara", "cpgf", "renuncias", "senado", "senado_cpis", "transparencia", "tse_bens",
     "tse_filiados", "viagens", "world_bank"}
OneNamespace == {"camara_inquiries", "senado_cpis"}
FactsApart ==
    Loaded /\ Without(ByPosition \cup OnePerParty \cup Indistinct \cup Aggregates)
           /\ ~(OneNamespace \subseteq sources) =>
        \A n \in FactNodes : \A r, q \in graph.nodes[n].records :
            Numbered(r) => r.fact = q.fact

\* Nobody is linked to what is another's: the person or company at the end of a link is
\* meant by every record that states it.  ByName: the links that a source makes to
\* everyone of a name.  PeopleByName: people are nodes by their name.  Masked: a document
\* of which some digits are hidden is the key of a node.
ByName ==
    {<<"camara_inquiries", "PROPOS_REQUERIMENTO">>, <<"cvm", "CVM_SANCIONADA">>,
     <<"eu_sanctions", "SANCIONADA_INTERNACIONALMENTE">>, <<"senado", "GASTOU">>,
     <<"senado_cpis", "PARTICIPA_INQUIRY">>, <<"senado_cpis", "PARTICIPOU_CPI">>,
     <<"stf", "RELATOR_DE">>, <<"tse_filiados", "FILIADO_A">>, <<"un_sanctions", "UN_SANCTIONED">>}
PeopleByName == {"stj_dados_abertos", "transparencia"}
Masked == {"sanctions", "tesouro_emendas", "tse"}
LinkedToWhoIsMeant ==
    Loaded /\ Without(PeopleByName \cup Masked) =>
        \A l \in DOMAIN graph.links : \A n \in {l[2], l[3]} \cap PartyNodes :
            sources \X {l[1]} \cap ByName = {} =>
                \A r \in graph.links[l].records : graph.nodes[n].who \subseteq {r.who, r.who2}

\* A person or company is one node, whichever sources wrote it.  OwnKeys: these know
\* people by a number or a name of their own, or write documents as they found them.
OwnKeys == {"camara", "stj_dados_abertos", "tesouro_emendas", "transferegov", "transparencia"}
OneNodePerParty ==
    Loaded /\ Without(OwnKeys \cup Masked) =>
        \A n, m \in PartyNodes :
            n.label = m.label /\ graph.nodes[n].who \cap graph.nodes[m].who # {} => n = m

\* Every row of a link finds its two ends.  OthersEnds: the types of links to what other
\* sources load, or other records are, lost for good when those come later; the
\* intermediaries are never loaded.  FirstFile: the links to what the first file of the
\* source has of the same record, lost when the record is not in that file.
OthersEnds ==
    {"CVM_SANCIONADA", "DECLARA", "FAMILIAR_DE", "FILIADO_A", "GASTOU", "GEROU_CONVENIO",
     "GLOBAL_PEP_MATCH", "HOLDING_DE", "INTERMEDIARY_OF", "MENCIONOU", "PARTICIPA_INQUIRY",
     "PARTICIPOU_CPI", "PROPOS_REQUERIMENTO", "PUBLICOU", "REALIZOU_SESSAO", "REFERENTE_A",
     "REGISTRA_DEUDA", "RELATOR_DE", "SANCIONADA_INTERNACIONALMENTE", "TEM_ITEM",
     "TEM_REQUERIMENTO", "UN_SANCTIONED"}
FirstFile == {"BENEFICIOU", "DOOU", "PARTE_PROCESSO"}
RowsFindTheirEnds ==
    Loaded => \A row \in graph.lost :
        row.type \in OthersEnds \/ (row.type \in FirstFile /\ 1 \notin row.record.tables)

\* What a person or company is called is never replaced by nothing, or by its document.
\* NoName: these write a missing name over one that is there.  DocumentNames: these give
\* a company its CNPJ for a name.
NoName ==
    {"camara", "comprasnet", "datajud", "datasus", "ibama", "leniency", "pncp", "sanctions",
     "senado", "siconfi", "tcu", "tesouro_emendas", "transferegov", "transparencia", "tse",
     "tse_bens"}
DocumentNames == {"querido_diario", "mides", "camara_inquiries", "senado_cpis"}
NameKeys == {"name", "razao_social", "nombre", "razon_social"}
DocumentKeys == {"cnpj", "cpf"}
Called(node) ==
    \E k \in NameKeys \cap DOMAIN node.props :
        /\ node.props[k] # None
        /\ \A key \in DocumentKeys \cap DOMAIN node.props : node.props[k] # node.props[key]
NamesAreKept ==
    [][running /\ Head(files).source \notin NoName \cup DocumentNames =>
        \A n \in DOMAIN graph.nodes : Called(graph.nodes[n]) => Called(graph'.nodes[n])]_vars

-----------------------------------------------------------------------------
(* The rows that the pipelines prepare.  A write is what a row of nodes, or *)
(* the end of a link that is merged, looks for and sets.                    *)

Write(p, row) ==
    [label |-> p.label, match |-> p.match, set |-> Over(row.props, p.match),
     records |-> row.records, who |-> row.who]
NodeWrites(part) ==
    IF part.act = "links" THEN {}
    ELSE {w \in {Write(KeyOf(part, row), row) : row \in ToSet(part.rows)} : ~Absent(w)}
Merged(row) == {e \in {row.from, row.to} : e[1].creates /\ ~Absent(e[1])}
LinkRows(part) == IF part.act = "links" THEN ToSet(part.rows) ELSE {}
EndWrites(part) == UNION {{Write(e[1], e[1]) : e \in Merged(row)} : row \in LinkRows(part)}

BatchParts(b) == ToSet(Parts(b))
FileParts(f) == UNION {BatchParts(b) : b \in ToSet(Batches(f))}
PartsOf(h, k) == UNION {FileParts(h[i]) : i \in 1..k}
RegistryWrites ==
    {[label |-> n.label, match |-> n.by, set |-> Registry.nodes[n].props,
      records |-> Registry.nodes[n].records, who |-> Registry.nodes[n].who] :
         n \in DOMAIN Registry.nodes}
\* what the first k files of a history write, and what was there
Writes(h, k) ==
    RegistryWrites \cup UNION {NodeWrites(part) \cup EndWrites(part) : part \in PartsOf(h, k)}
RowsOf(h, k) == UNION {LinkRows(part) : part \in PartsOf(h, k)}

IsSequence(s) == s \in Seq(ToSet(s))
PartShape(part) ==
    /\ part.act \in {"nodes", "links"} /\ IsSequence(part.rows)
    /\ part.act = "nodes" => \A row \in ToSet(part.rows) : part.key \in DOMAIN row.props
    /\ \A row \in LinkRows(part) : \A e \in {row.from, row.to} : IsSequence(e) /\ e # <<>>
WriteShape(w) ==
    /\ w.match \in [DOMAIN w.match -> Seq(STRING)] /\ DOMAIN w.match # {} /\ ~Absent(w)
    /\ \A k \in DOMAIN w.match : k \in DOMAIN w.set /\ w.set[k] = w.match[k]

NodeShape(node) ==
    /\ node = [props |-> node.props, records |-> node.records, shown |-> node.shown,
               who |-> node.who]
    /\ node.props = [k \in DOMAIN node.props |-> node.props[k]]

\* a graph of nodes that are named by what they were merged by
ASSUME RegistryAssumption ==
    /\ \A n \in DOMAIN Registry.nodes : n = [label |-> n.label, by |-> n.by]
    /\ Registry.nodes = [n \in DOMAIN Registry.nodes |-> Registry.nodes[n]]
    /\ \A n \in DOMAIN Registry.nodes : NodeShape(Registry.nodes[n])
    /\ Registry.links = <<>> /\ Registry.lost = {}
ASSUME HistoriesAssumption ==
    \A h \in Histories :
        /\ IsSequence(h) /\ \A f \in ToSet(h) : IsSequence(Batches(f))
        /\ \A f \in ToSet(h) : \A b \in ToSet(Batches(f)) :
               IsSequence(Parts(b)) /\ \A part \in BatchParts(b) : PartShape(part)
        /\ \A w \in Writes(h, Len(h)) : WriteShape(w)

\* Every write to the label looks for the one key, or whoever sets the property looks for it.
Keyed(W, label, key) == \A w \in W : w.label = label => DOMAIN w.match = {key}
Settled(W, label, key) ==
    \A w \in W : w.label = label /\ key \in DOMAIN w.set => key \in DOMAIN w.match
\* v looks for what w sets
Meets(v, w) ==
    v.label = w.label /\ \E k \in DOMAIN v.match : k \in DOMAIN w.set /\ w.set[k] = v.match[k]

DocumentsSettled(W) == \A w \in W : \A d \in DocumentKeys : Settled(W, w.label, d)
FactsKeyed(W) == \A v \in W : v.records # {} => \E key \in DOMAIN v.match : Keyed(W, v.label, key)
PartiesKeyed(W) ==
    \A v, w \in W :
        v.label \in PartyLabels =>
            /\ \E key \in DOMAIN v.match : Keyed(W, v.label, key)
            /\ v.label = w.label /\ v.who \cap w.who # {} => v.match = w.match
\* an end is merged, or a row before it merges the node
EndFound(W, before, e) ==
    \/ \A i \in DOMAIN e : Absent(e[i])
    \/ \E i \in DOMAIN e :
          /\ ~Absent(e[i]) /\ \A k \in DOMAIN e[i].match : Settled(W, e[i].label, k)
          /\ \/ i = 1 /\ e[i].creates
             \/ \E w \in before : w.label = e[i].label /\ w.match = e[i].match
BatchWrites(b) == UNION {NodeWrites(part) : part \in BatchParts(b)}
Before(batches, j) == UNION {BatchWrites(batches[i]) : i \in 1 .. j - 1}
\* the names that a write sets are names
NamesAreNames(W, w) ==
    \A n \in NameKeys \cap DOMAIN w.set :
        /\ w.set[n] # None
        /\ \A v \in W : v.label = w.label =>
              \A d \in DocumentKeys \cap DOMAIN v.set : w.set[n] # v.set[d]
NamesAreGiven(W, part) ==
    /\ \A w \in NodeWrites(part) : NamesAreNames(W, w)
    /\ \A w \in EndWrites(part) :
          NamesAreNames(W, w) \/ \A k \in DOMAIN w.match : Settled(W, w.label, k)

\* what the rows that the files of some sources write say of who and what is meant
MeantBy(W, names) ==
    /\ FactsKeyed(W) /\ DocumentsSettled(W)
    /\ names \cap (OwnKeys \cup Masked) = {} => PartiesKeyed(W)
Meant(h, k) == MeantBy(Writes(h, k), {h[i].source : i \in 1..k})
\* and the rows of one of the files, of names
GivenBy(W, parts) == \A part \in parts : NamesAreGiven(W, part)
Given(h, k) ==
    h[k].source \notin NoName \cup DocumentNames =>
        GivenBy(Writes(h, k), FileParts(h[k]))

\* who and what is meant by the rows of a history can be told from their labels and keys
Identified(h) == /\ \A k \in 0..Len(h) : Meant(h, k)
                 /\ \A k \in 1..Len(h) : Given(h, k)

-----------------------------------------------------------------------------
(* What the graph owes to the rows of the files whose load was begun, for   *)
(* any histories and registry.                                              *)

Done == Writes(loaded, Len(loaded))
DoneRows == RowsOf(loaded, Len(loaded))

\* A node with a record is the one that the id of the record names.  What the ids tell
\* apart stays apart and what they join is joined, by every interleaving of failures with
\* the loads of any sources: whether the ids are right is up to the pipelines.
RecordsAreUnderTheirIds ==
    FactsKeyed(Done) =>
        \A n \in FactNodes : \A r \in graph.nodes[n].records :
            \E w \in Done : w.label = n.label /\ w.match = n.by /\ r \in w.records

\* No write of P and one outside of it can reach one node.
Closed(W, P) == \A v \in P, w \in W : Meets(v, w) \/ Meets(w, v) => w \in P
\* Some property that p looks for is only set by writes of P.
Points(W, p, P) ==
    \E k \in DOMAIN p.match : \A w \in W :
        w.label = p.label /\ k \in DOMAIN w.set /\ w.set[k] = p.match[k] => w \in P
\* who n is was written by whatever group of writes the end's pattern points to
Leads(e, n) ==
    \E p \in ToSet(e) :
        /\ p.label = n.label /\ ~Absent(p)
        /\ \A P \in SUBSET Done : Closed(Done, P) /\ Points(Done, p, P) =>
               graph.nodes[n].who \subseteq UNION {w.who : w \in P}

\* Whom a record is linked to, a row of that record looked for, by a property that those
\* and whoever is written to one node with them have, and no others.
LinksGoWhereRowsPoint ==
    \A l \in DOMAIN graph.links : \A r \in graph.links[l].records :
        \E row \in DoneRows : row.record = r /\ Leads(row.from, l[2]) /\ Leads(row.to, l[3])

\* the rows of a file's links of which an end is neither merged nor written before
BeforePart(batches, j, q) ==
    Before(batches, j) \cup UNION {NodeWrites(Parts(batches[j])[i]) : i \in 1 .. q - 1}
Unfound(W, before, part) ==
    {[type |-> part.type, from |-> row.from, to |-> row.to, record |-> row.record] :
        row \in {row \in LinkRows(part) :
                    ~(EndFound(W, before, row.from) /\ EndFound(W, before, row.to))}}
FileUnfound(W, batches) ==
    UNION {UNION {Unfound(W, BeforePart(batches, j, q), Parts(batches[j])[q]) :
                     q \in DOMAIN Parts(batches[j])} : j \in DOMAIN batches}
UnfoundOf(h, k) == UNION {FileUnfound(Writes(h, i), Batches(h[i])) : i \in 1..k}

\* A row of a link is lost only where its own file does not write one of its ends before
\* it: neither a failure nor another source takes away an end that the load had written.
LostRowsHadNoEnd == graph.lost \subseteq UnfoundOf(loaded, Len(loaded))

-----------------------------------------------------------------------------
(* Loads that find the same again.  A row of a load that does not fail, with *)
(* pattern p, is applied to the nodes `at`; `ends` are the nodes after its   *)
(* batch and after each of the batches that follow.                          *)

Found(nodes, n, p, k) ==
    /\ n \in DOMAIN nodes /\ k \in DOMAIN nodes[n].props
    /\ p.match[k] # None /\ nodes[n].props[k] = p.match[k]
\* p finds n in all of F, or in none of them because of one of its properties
Decided(p, n, F) ==
    \/ \A nodes \in F : n \in Matching(nodes, p)
    \/ \E k \in DOMAIN p.match : \A nodes \in F : ~Found(nodes, n, p, k)
Labelled(p, F) == {n \in UNION {DOMAIN nodes : nodes \in F} : n.label = p.label}
SteadyMatch(p, F) == \A n \in Labelled(p, F) : Decided(p, n, F)
\* or the row creates n
SteadyMerge(p, at, ends) ==
    \A n \in Labelled(p, {at} \cup ends) :
        \/ Decided(p, n, {at} \cup ends)
        \/ /\ n = [label |-> p.label, by |-> p.match]
           /\ n \notin DOMAIN at /\ Matching(at, p) = {}

SteadyEnd(e, at, ends) == e[1].creates /\ ~Absent(e[1]) => SteadyMerge(e[1], at, ends)
SteadyRow(g, part, row, ends) ==
    IF part.act = "nodes"
    THEN ~Absent(KeyOf(part, row)) => SteadyMerge(KeyOf(part, row), g.nodes, ends)
    ELSE LET first == CreateEnd(g.nodes, row.from)
             nodes == NodesOf(g, row)
         IN  /\ SteadyEnd(row.from, g.nodes, ends)
             /\ \A p \in ToSet(row.from) : SteadyMatch(p, {first} \cup ends)
             /\ EndNodes(first, row.from) # {} => SteadyEnd(row.to, first, ends)
             /\ \A p \in ToSet(row.from) \cup ToSet(row.to) : SteadyMatch(p, {nodes} \cup ends)
SteadyPart(g, part, ends) ==
    \A i \in DOMAIN part.rows :
        SteadyRow(RowGraphs(g, part)[i - 1], part, part.rows[i], ends)
SteadyBatch(g, batch, ends) ==
    \A i \in DOMAIN Parts(batch) :
        SteadyPart(PartGraphs(g, batch)[i - 1], Parts(batch)[i], ends)
SteadyLoad(g, batches) ==
    \A i \in DOMAIN batches :
        SteadyBatch(BatchGraphs(g, batches)[i - 1], batches[i],
                    {BatchGraphs(g, batches)[m].nodes : m \in i .. Len(batches)})

\* the graphs that a history without failures leaves
FileGraphs(h) ==
    LET after[k \in 0 .. Len(h)] ==
            IF k = 0 THEN Registry ELSE ApplyAll(after[k - 1], Batches(h[k]))
    IN  after
Steady(h) == \A k \in DOMAIN h : SteadyLoad(FileGraphs(h)[k - 1], Batches(h[k]))

\* The documents and names that the pipelines give the rows of a history tell apart who is
\* apart and join who is one, whichever prefix of it is loaded; no label with records is
\* looked for by two keys; and what a row finds, it would find again at the end of its batch
\* or any later one.  When all of a history is loaded, `loaded` is the history.
RowsAreFit == files = <<>> /\ aborts = 0 => Identified(loaded) /\ Steady(loaded)

=============================================================================
