--------------------------- MODULE ServiceSources ----------------------------
(***************************************************************************)
(* The pipelines of public services and registers: health units, schools,  *)
(* labour statistics, courts, gazettes and the offshore leaks.  Each       *)
(* operator gives the batches of a source in the order in which its load   *)
(* writes them.                                                            *)
(***************************************************************************)
EXTENDS GraphLoad

\* datasus.py: no deduplication, the last record of a unit and the last name of a company stay
DatasusUnits(file) == SelectSeq(file, LAMBDA r : r.num # "")
DatasusId(r) == Value(r.num)
DatasusLinks(operated) ==
    Links("OPERA_UNIDADE", operated, TheCompany, LAMBDA r : Fact("Health", "cnes_code", DatasusId(r)))

MutDatasus(file) ==
    LET ok == DatasusUnits(file)
        operated == SelectSeq(ok, HasCnpj)
    IN  << Facts("Health", "cnes_code", ok, DatasusId), DatasusLinks(operated),
           Parties("Company", "cnpj", operated, CompanyProps) >>
Datasus(file) ==
    LET ok == DatasusUnits(file)
        operated == SelectSeq(ok, HasCnpj)
    IN  << Facts("Health", "cnes_code", ok, DatasusId),
           Parties("Company", "cnpj", operated, CompanyProps), DatasusLinks(operated) >>

\* inep.py: the private school's company and, when it is another one, the maintaining company
Inep(file) ==
    LET ok == SelectSeq(file, LAMBDA r : r.num # "")
        Id(r) == Value(r.num)
        School(r) == Fact("Education", "school_id", Id(r))
        Bare(r) == <<Merging("Company", DocumentOnly(r), DocumentOnly(r), r.who)>>
    IN  << Facts("Education", "school_id", ok, Id),
           Links("MANTEDORA_DE", SelectSeq(ok, HasCnpj), Bare, School),
           Links("MANTEDORA_DE", SelectSeq(ok, LAMBDA r : HasCnpj(Second(r)) /\ r.doc # r.doc2),
                 LAMBDA r : Bare(Second(r)), School) >>

\* rais.py: one total per activity and state over the whole file
Rais(file) ==
    LET ok == SelectSeq(file, LAMBDA r : r.kind # "")
    IN  << Totals("LaborStats", "stats_id", ok, LAMBDA r : <<"rais_2022", r.kind>>) >>

\* caged.py: totals of one chunk of the file at a time, each written over the ones
\* before (here every chunk has one record; the code reads 100 000 of them)
Caged(file) ==
    LET ok == SelectSeq(file, LAMBDA r : r.when # "")
    IN  [i \in DOMAIN ok |-> Totals("LaborStats", "stats_id", <<ok[i]>>, LAMBDA r : <<r.when, r.kind>>)]

\* stf.py: the rapporteur is a person that others loaded, found by name
Stf(file) ==
    LET ok == SelectSeq(file, LAMBDA r : r.kind # "" /\ r.num # "" /\ r.when # "")
        Id(r) == <<r.kind, r.num, r.when>>
    IN  << FirstFacts("LegalCase", "case_id", ok, Id),
           Links("RELATOR_DE", SelectSeq(ok, LAMBDA r : r.name # ""), PersonNamed,
                 LAMBDA r : Fact("LegalCase", "case_id", Id(r))) >>

\* stj_dados_abertos.py: the rapporteur is created by name where there is none
Stj(file) ==
    LET ok == SelectSeq(file, LAMBDA r : r.kind # "" /\ r.num # "")
        Id(r) == <<"stj", r.kind, r.num, r.when>>
        Named(r) == <<Merging("Person", "name" :> Value(r.name), "name" :> Value(r.name), r.who)>>
    IN  << FirstFacts("LegalCase", "case_id", ok, Id),
           Links("RELATOR_DE", SelectSeq(ok, LAMBDA r : r.name # ""), Named,
                 LAMBDA r : Fact("LegalCase", "case_id", Id(r))) >>

\* datajud.py: cases, by the id of the file or by a hash, and their parties; a party
\* names its case by the id only
DatajudId(r) == IF r.num # "" THEN Value(r.num) ELSE <<r.ref, r.kind, r.when>>

Datajud(file) ==
    LET parties == SelectSeq(Table(file, 2), LAMBDA r : r.num # "")
        people == SelectSeq(parties, HasCpf)
        firms  == SelectSeq(parties, HasCnpj)
        Role(r) == <<r.doc, r.num, r.kind>>
        Case(r) == Fact("JudicialCase", "judicial_case_id", Value(r.num))
    IN  << FirstFacts("JudicialCase", "judicial_case_id", Table(file, 1), DatajudId),
           People(people), Companies(firms),
           Links("PARTE_PROCESSO", Unique(people, Role), ThePerson, Case),
           Links("PARTE_PROCESSO", Unique(firms, Role), TheCompany, Case) >>

\* icij.py: entities, officers, and the links between them; the file of intermediaries
\* is read but makes no node, so that theirs are looked for among the officers
Icij(file) ==
    LET entities == SelectSeq(Table(file, 1), LAMBDA r : r.num # "" /\ r.name # "")
        officers == SelectSeq(Table(file, 2), LAMBDA r : r.num # "" /\ r.name # "")
        Id(r) == <<"icij", r.num>>
        End(r) == <<"icij", r.ref>>
        Known(id, rows) == \E i \in DOMAIN rows : Id(rows[i]) = id
        related == SelectSeq(Table(file, 3), LAMBDA r : Known(End(r), entities))
        Officer(r) == Fact("OffshoreOfficer", "offshore_officer_id", Id(r))
        Entity(r)  == Fact("OffshoreEntity", "offshore_id", End(r))
    IN  << FirstFacts("OffshoreEntity", "offshore_id", entities, Id),
           FirstFacts("OffshoreOfficer", "offshore_officer_id", officers, Id),
           Links("OFFICER_OF", SelectSeq(related, LAMBDA r : r.kind = "person" /\ Known(Id(r), officers)),
                 Officer, Entity),
           Links("INTERMEDIARY_OF", SelectSeq(related, LAMBDA r : r.kind = "company"), Officer, Entity) >>

\* dou.py: acts of the gazette; who is mentioned must have been loaded by others
Dou(file) ==
    LET acts == SelectSeq(file, LAMBDA r : r.num # "" /\ r.when # "")
        Id(r) == <<"dou", r.num, r.when>>
        Act(r) == Fact("DOUAct", "act_id", Id(r))
    IN  << FirstFacts("DOUAct", "act_id", acts, Id),
           Links("PUBLICOU", SelectSeq(acts, HasCpf), ThePerson, Act),
           Links("MENCIONOU", SelectSeq(acts, HasCnpj), TheCompany, Act) >>

\* querido_diario.py: acts with a text or a title (kind); a company that is mentioned
\* gets its CNPJ for a name, whether it is new or not
QueridoDiarioId(r) == IF r.num # "" THEN Value(r.num) ELSE <<r.ref, r.when, r.kind>>

QueridoDiario(file) ==
    LET acts == SelectSeq(file, LAMBDA r : r.kind # "")
        mentions == Unique(SelectSeq(acts, HasCnpj), LAMBDA r : <<r.doc, QueridoDiarioId(r)>>)
    IN  << FirstFacts("MunicipalGazetteAct", "municipal_gazette_act_id", acts, QueridoDiarioId),
           Parties("Company", "cnpj", Unique(mentions, Document), DocumentAsName),
           Links("MENCIONADA_EM", mentions, TheCompany,
                 LAMBDA r : Fact("MunicipalGazetteAct", "municipal_gazette_act_id", QueridoDiarioId(r))) >>

=============================================================================
