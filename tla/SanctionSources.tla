--------------------------- MODULE SanctionSources ---------------------------
(***************************************************************************)
(* The pipelines of sanctions, debarments and exposed persons: what the    *)
(* transform and load of each make of the records of its files.  Every     *)
(* operator gives the batches in the order in which load writes them.      *)
(* file is the records of the source; a source of several files reads      *)
(* Table(file, 1), Table(file, 2), ...                                     *)
(***************************************************************************)
EXTENDS GraphLoad

Place(r) == <<ToString(r.pos)>>                 \* the index of the row in its file

\* ceaf.py: the id is the document, which may be masked, and the index
Ceaf(file) ==
    LET named == SelectSeq(file, LAMBDA r : r.name # "")
        full  == SelectSeq(named, HasCpf)
        Id(r) == <<"ceaf">> \o strip_document(r.doc) \o Place(r)
    IN  << FirstFacts("Expulsion", "expulsion_id", named, Id),
           Parties("Person", "cpf", full, PersonProps),
           Links("EXPULSO", full, ThePerson, LAMBDA r : Fact("Expulsion", "expulsion_id", Id(r))) >>

\* leniency.py: one agreement per company
Leniency(file) ==
    LET ok == SelectSeq(file, HasCnpj)
        Id(r) == <<"leniencia", r.doc>>
    IN  << FirstFacts("LeniencyAgreement", "leniency_id", ok, Id),
           Parties("Company", "cnpj", ok, CompanyProps),
           Links("FIRMOU_LENIENCIA", ok, TheCompany,
                 LAMBDA r : Fact("LeniencyAgreement", "leniency_id", Id(r))) >>

\* cepim.py: the id is a hash of the company and the number of the agreement
CepimId(r) == <<r.doc, r.num>>

Cepim(file) ==
    LET ok == SelectSeq(file, HasCnpj)
    IN  << FirstFacts("BarredNGO", "ngo_id", ok, CepimId),
           Parties("Company", "cnpj", Unique(ok, Document), DocumentOnly),
           Links("IMPEDIDA", ok, TheCompany, LAMBDA r : Fact("BarredNGO", "ngo_id", CepimId(r))) >>

\* sanctions.py: two files, CEIS and CNEP; a document that is neither kind is a person's
Sanctions(file) ==
    LET Id(type, r) == <<type>> \o strip_document(r.doc) \o Place(r)
        Nodes1(type, t) == FirstFacts("Sanction", "sanction_id", Table(file, t), LAMBDA r : Id(type, r))
        Links1(type, t) == Links("SANCIONADA", Table(file, t), CompanyOrPerson,
                                 LAMBDA r : Fact("Sanction", "sanction_id", Id(type, r)))
        all == Table(file, 1) \o Table(file, 2)
    IN  << Nodes1("CEIS", 1), Nodes1("CNEP", 2),
           Parties("Company", "cnpj", SelectSeq(all, HasCnpj), CompanyProps),
           Parties("Person", "cpf", SelectSeq(all, LAMBDA r : ~HasCnpj(r)), PersonProps),
           Links1("CEIS", 1), Links1("CNEP", 2) >>

\* bcb.py: the id is a hash of the company, the process and the kind of penalty
MutBcbId(r) == <<r.doc, r.kind>>
BcbId(r) == <<r.doc, r.num, r.kind>>

Bcb(file) ==
    LET ok == SelectSeq(file, HasCnpj)
    IN  << FirstFacts("BCBPenalty", "penalty_id", ok, BcbId),
           Parties("Company", "cnpj", Unique(ok, Document), DocumentOnly),
           Links("BCB_PENALIZADA", ok, TheCompany,
                 LAMBDA r : Fact("BCBPenalty", "penalty_id", BcbId(r))) >>

\* cvm.py: processes and, in the second file, who is accused in them, by name
Cvm(file) ==
    LET processes == SelectSeq(Table(file, 1), LAMBDA r : r.num # "")
        Id(r) == Value(r.num)
        accused == SelectSeq(Table(file, 2), LAMBDA r :
                       r.name # "" /\ \E i \in DOMAIN processes : processes[i].num = r.num)
    IN  << FirstFacts("CVMProceeding", "pas_id", processes, Id),
           Links("CVM_SANCIONADA", accused, LAMBDA r : PersonNamed(r) \o CompanyNamed(r),
                 LAMBDA r : Fact("CVMProceeding", "pas_id", Id(r))) >>

\* pep_cgu.py: the link creates the person, without a name
PepCgu(file) ==
    LET named == SelectSeq(file, LAMBDA r : r.name # "")
        Id(r) == <<"pep">> \o strip_document(r.doc) \o Place(r)
        Person(r) == <<Merging("Person", "cpf" :> format_cpf(r.doc), "name" :> None, r.who)>>
    IN  << FirstFacts("PEPRecord", "pep_id", named, Id),
           Links("PEP_REGISTRADA", SelectSeq(named, HasCpf), Person,
                 LAMBDA r : Fact("PEPRecord", "pep_id", Id(r))) >>

\* ibama.py
IbamaRows(file) == SelectSeq(file, LAMBDA r : r.num # "" /\ HasDoc(r))
IbamaId(r) == <<"ibama_embargo", r.num>>
IbamaFacts(ok) == FirstFacts("Embargo", "embargo_id", ok, IbamaId)
IbamaLinks(ok) ==
    Links("EMBARGADA", ok, CompanyOrPerson, LAMBDA r : Fact("Embargo", "embargo_id", IbamaId(r)))

MutIbama(file) ==
    LET ok == IbamaRows(file)
    IN  << IbamaFacts(ok), IbamaLinks(ok),
           Companies(SelectSeq(ok, HasCnpj)), People(SelectSeq(ok, HasCpf)) >>
Ibama(file) ==
    LET ok == IbamaRows(file)
    IN  << IbamaFacts(ok),
           Companies(SelectSeq(ok, HasCnpj)), People(SelectSeq(ok, HasCpf)), IbamaLinks(ok) >>

-----------------------------------------------------------------------------
(* The lists of other countries and bodies.  They hold no document: a link *)
(* goes to every person or company of the same normalised name.            *)

Listed(r) == r.name # "" /\ r.kind \in {"person", "company"}
OfKind(rows, kind) == SelectSeq(rows, LAMBDA r : r.kind = kind)
Sanctioned(Id(_), r) == Fact("InternationalSanction", "sanction_id", Id(r))

\* ofac.py: nodes only
Ofac(file) ==
    LET ok == SelectSeq(file, LAMBDA r : r.num # "" /\ Listed(r))
    IN  << FirstFacts("InternationalSanction", "sanction_id", ok, LAMBDA r : <<"ofac", r.num>>) >>

\* un_sanctions.py: the id is a hash of the reference number and the name
UnSanctions(file) ==
    LET ok == SelectSeq(file, LAMBDA r : r.num # "" /\ Listed(r))
        Id(r) == <<r.num, r.name>>
    IN  << FirstFacts("InternationalSanction", "sanction_id", ok, Id),
           Links("UN_SANCTIONED", OfKind(ok, "person"), PersonNamed, LAMBDA r : Sanctioned(Id, r)),
           Links("UN_SANCTIONED", OfKind(ok, "company"), CompanyNamed, LAMBDA r : Sanctioned(Id, r)) >>

\* eu_sanctions.py: the id is a hash of the name, the programme and the regulation
EuSanctions(file) ==
    LET ok == SelectSeq(file, Listed)
        Id(r) == <<r.name, r.when, r.num>>
    IN  << FirstFacts("InternationalSanction", "sanction_id", ok, Id),
           Links("SANCIONADA_INTERNACIONALMENTE", Unique(OfKind(ok, "person"), Id),
                 PersonNamed, LAMBDA r : Sanctioned(Id, r)),
           Links("SANCIONADA_INTERNACIONALMENTE", Unique(OfKind(ok, "company"), Id),
                 CompanyNamed, LAMBDA r : Sanctioned(Id, r)) >>

\* world_bank.py: nodes only; the id is a hash of the name, the country and the date
WorldBank(file) ==
    LET ok == SelectSeq(file, LAMBDA r : r.name # "")
    IN  << FirstFacts("InternationalSanction", "sanction_id", ok, LAMBDA r : <<r.name, r.kind, r.when>>) >>

\* opensanctions.py: persons only, linked when the first entry of an id has a CPF
OpenSanctions(file) ==
    LET ok == SelectSeq(file, LAMBDA r : r.kind = "person" /\ r.num # "" /\ r.name # "")
        Id(r) == <<"os", r.num>>
    IN  << FirstFacts("GlobalPEP", "pep_id", ok, Id),
           Links("GLOBAL_PEP_MATCH", SelectSeq(Unique(ok, Id), HasCpf), ThePerson,
                 LAMBDA r : Fact("GlobalPEP", "pep_id", Id(r))) >>

-----------------------------------------------------------------------------
(* tcu.py: four files of the court of accounts.  Files 1 and 4 list people *)
(* only, files 2 and 3 whoever has a full document.                        *)
TcuKinds == <<"tcu_inabilitado", "tcu_inidoneo", "tcu_irregular", "tcu_irregular_eleitoral">>

TcuRows(file, t) == IF t \in {1, 4} THEN SelectSeq(Table(file, t), HasCpf) ELSE Table(file, t)
TcuId(t, r) == <<TcuKinds[t]>> \o strip_document(r.doc) \o Place(r)
TcuFacts(file, t) == FirstFacts("Sanction", "sanction_id", TcuRows(file, t), LAMBDA r : TcuId(t, r))
TcuLinks(file, t, Test(_), End(_)) ==
    Links("SANCIONADA", SelectSeq(TcuRows(file, t), Test), End,
          LAMBDA r : Fact("Sanction", "sanction_id", TcuId(t, r)))

Tcu(file) ==
    LET all == TcuRows(file, 1) \o TcuRows(file, 2) \o TcuRows(file, 3) \o TcuRows(file, 4)
    IN  [t \in 1..4 |-> TcuFacts(file, t)]
        \o << People(SelectSeq(all, HasCpf)) >>
        \o [t \in 1..4 |-> TcuLinks(file, t, HasCpf, ThePerson)]
        \o << Companies(SelectSeq(all, HasCnpj)) >>
        \o [t \in 1..4 |-> TcuLinks(file, t, HasCnpj, TheCompany)]

=============================================================================
