-------------------------- MODULE PoliticalSources ---------------------------
(***************************************************************************)
(* The pipelines of elections, parties and both houses of Congress:        *)
(* candidates, donations, declared assets, party members, expenses and     *)
(* inquiries.  Each operator gives the batches of a source in the order in *)
(* which its load writes them.                                             *)
(***************************************************************************)
EXTENDS GraphLoad

CONSTANT Days     \* the dates that occur, in their order

Earlier(d, e) ==
    \E i, j \in DOMAIN Days : i < j /\ Days[i] = d /\ Days[j] = e

Worth(r) == <<ToString(r.amt)>>

-----------------------------------------------------------------------------
(* tse.py: file 1 has the candidacies (num is the candidate's number in    *)
(* one election, the document "" when it is masked), file 2 the donations, *)
(* the donor being the second party.                                       *)

Candidates(file) == Unique(Table(file, 1), LAMBDA r : r.num)
WithCpf(file)    == SelectSeq(Candidates(file), LAMBDA r : r.doc # "")
Candidacy(r)     == ("sq_candidato" :> Value(r.num)) @@ ("uf" :> Value(r.ref))

\* sq_to_cpf: the candidate by his document when this file gives it, else by his number
Candidate(file, r) ==
    LET known == SelectSeq(WithCpf(file), LAMBDA c : c.num = r.num)
    IN  IF known # <<>> THEN ThePerson(known[1])
        ELSE Fact("Person", "sq_candidato", Value(r.num))

TseCandidates(file) ==
    << Parties("Person", "cpf", Unique(WithCpf(file), Document),
               LAMBDA r : Candidacy(r) @@ PersonProps(r)),
       Parties("Person", "sq_candidato", SelectSeq(Candidates(file), LAMBDA r : r.doc = ""),
               LAMBDA r : Candidacy(r) @@ ("name" :> Value(r.name))),
       Parties("Person", "cpf", WithCpf(file),
               LAMBDA r : ("cpf" :> format_cpf(r.doc)) @@ ("sq_candidato" :> Value(r.num))) >>

Election(r) == <<r.when, r.kind>>

TseElections(file) ==
    << Marks("Election", "election", Table(file, 1), Election),
       Links("CANDIDATO_EM", Table(file, 1), LAMBDA r : Candidate(file, r),
             LAMBDA r : Fact("Election", "election", Election(r))) >>

\* DOOU is one link per donor, candidate and year, with the amount of the last donation
TseDonations(file) ==
    LET people == SelectSeq(Table(file, 2), LAMBDA r : ~HasCnpj(Second(r)))
        firms  == SelectSeq(Table(file, 2), LAMBDA r : HasCnpj(Second(r)))
        Donors(rows) == [i \in DOMAIN rows |-> Second(rows[i])]
        Year(r) == <<r.when>>
    IN  << People(Donors(people)), Companies(Donors(firms)),
           KeyedLinks("DOOU", people, LAMBDA r : ThePerson(Second(r)),
                      LAMBDA r : Candidate(file, r), Year),
           KeyedLinks("DOOU", firms, LAMBDA r : TheCompany(Second(r)),
                      LAMBDA r : Candidate(file, r), Year) >>

Tse(file) == TseCandidates(file) \o TseElections(file) \o TseDonations(file)

\* tse_bens.py: the id is a hash of the person, the year, the kind and the value
TseBens(file) ==
    LET ok == SelectSeq(file, HasCpf)
        Id(r) == <<r.doc, r.when, r.kind>> \o Worth(r)
    IN  << FirstFacts("DeclaredAsset", "asset_id", ok, Id), People(ok),
           Links("DECLAROU_BEM", ok, ThePerson, LAMBDA r : Fact("DeclaredAsset", "asset_id", Id(r))) >>

\* tse_filiados.py: no document: the member is every person of his name and state (ref).
\* The better tiers ask for properties that no pipeline gives a person.
TseFiliados(file) ==
    LET ok == SelectSeq(file, LAMBDA r : r.name # "" /\ r.kind # "")
        Id(r) == <<r.name, r.kind, r.ref, r.when>>
        Member(r) == <<Pattern("Person", ("name" :> Value(r.name)) @@ ("uf" :> Value(r.ref)))>>
    IN  << FirstFacts("PartyMembership", "membership_id", ok, Id),
           Links("FILIADO_A", ok, Member, LAMBDA r : Fact("PartyMembership", "membership_id", Id(r))) >>

-----------------------------------------------------------------------------
\* camara.py: ref is the deputy's id, the second party the supplier; the id of the
\* expense is a hash of the deputy, the date, the supplier and the value
CamaraExpenses(file) == SelectSeq(file, LAMBDA r : r.ref # "" /\ HasDoc(Second(r)))
CamaraId(r) == <<"camara", r.ref, r.when, r.doc2>> \o Worth(r)
Suppliers(rows, Test(_)) == SelectSeq([i \in DOMAIN rows |-> Second(rows[i])], Test)

Camara(file) ==
    LET ok == CamaraExpenses(file)
        byCpf == SelectSeq(ok, HasCpf)
        byId  == SelectSeq(ok, LAMBDA r : ~HasCpf(r))
        Deputy(r) == ("deputy_id" :> Value(r.ref)) @@ ("name" :> Value(r.name))
        Expense(r) == Fact("Expense", "expense_id", CamaraId(r))
    IN  << FirstFacts("Expense", "expense_id", ok, CamaraId),
           Parties("Person", "cpf", byCpf, LAMBDA r : Deputy(r) @@ PersonProps(r)),
           Parties("Person", "deputy_id", byId, Deputy),
           Parties("Company", "cnpj", Suppliers(ok, HasCnpj), CompanyProps),
           Parties("Person", "cpf", Suppliers(ok, HasCpf), PersonProps),
           Links("GASTOU", byCpf, ThePerson, Expense),
           Links("GASTOU", byId, LAMBDA r : Fact("Person", "deputy_id", Value(r.ref)), Expense),
           Links("FORNECEU", ok, LAMBDA r : CompanyOrPerson(Second(r)), Expense) >>

\* senado.py: the senator's document is looked up by his name in a file of their own,
\* and he is linked only when others loaded him
SenadoExpenses(file) == SelectSeq(file, LAMBDA r : HasDoc(Second(r)))
SenadoId(r) == <<"senado", r.name, r.when, r.doc2>> \o Worth(r)

Senado(file) ==
    LET ok == SenadoExpenses(file)
        byName == SelectSeq(ok, LAMBDA r : ~HasCpf(r) /\ r.name # "")
        Expense(r) == Fact("Expense", "expense_id", SenadoId(r))
    IN  << FirstFacts("Expense", "expense_id", ok, SenadoId),
           Parties("Company", "cnpj", Suppliers(ok, HasCnpj), CompanyProps),
           Parties("Person", "cpf", Suppliers(ok, HasCpf), PersonProps),
           Links("GASTOU", SelectSeq(ok, HasCpf), ThePerson, Expense),
           Links("GASTOU", byName, PersonNamed, Expense),
           Links("FORNECEU", ok, LAMBDA r : CompanyOrPerson(Second(r)), Expense) >>

-----------------------------------------------------------------------------
(* camara_inquiries.py and senado_cpis.py: inquiries (file 1), their       *)
(* requirements (2) with an author and a company that is mentioned (the    *)
(* second party), and their sessions (3).  ref names the inquiry.          *)

Inquiries(file) == SelectSeq(Table(file, 1), LAMBDA r : r.name # "")
Requirements(file) == SelectSeq(Table(file, 2), LAMBDA r : r.ref # "")
Sessions(file) == SelectSeq(Table(file, 3), LAMBDA r : r.ref # "")

InquiryId(r)     == IF r.num # "" THEN Value(r.num) ELSE <<r.kind, r.name>>
RequirementId(r) == IF r.num # "" THEN Value(r.num) ELSE <<r.ref, r.kind>>
SessionId(r)     == IF r.num # "" THEN Value(r.num) ELSE <<r.ref, r.when, r.kind>>

Inquiry(r)     == Fact("Inquiry", "inquiry_id", Value(r.ref))
Requirement(r) == Fact("InquiryRequirement", "requirement_id", RequirementId(r))

Mentions(file) ==
    Unique(SelectSeq(Requirements(file), LAMBDA r : HasCnpj(Second(r))),
           LAMBDA r : <<r.doc2, RequirementId(r)>>)

InquiryEvents(file) ==
    << FirstFacts("InquiryRequirement", "requirement_id", Requirements(file), RequirementId),
       FirstFacts("InquirySession", "session_id", Sessions(file), SessionId),
       Links("TEM_REQUERIMENTO", Requirements(file), Inquiry, Requirement),
       Links("REALIZOU_SESSAO", Sessions(file), Inquiry,
             LAMBDA r : Fact("InquirySession", "session_id", SessionId(r))) >>

\* a company that is mentioned gets its CNPJ for a name, whether it is new or not
InquiryMentions(file) ==
    LET mentioned == [i \in DOMAIN Mentions(file) |-> Second(Mentions(file)[i])]
    IN  << Parties("Company", "cnpj", Unique(mentioned, Document), DocumentAsName),
           Links("MENCIONADA_EM", Mentions(file), LAMBDA r : TheCompany(Second(r)), Requirement) >>

CamaraInquiries(file) ==
    LET ok == Requirements(file)
        byName == SelectSeq(ok, LAMBDA r : ~HasCpf(r) /\ r.name # "")
    IN  << FirstFacts("Inquiry", "inquiry_id", Inquiries(file), InquiryId) >>
        \o InquiryEvents(file)
        \o << Links("PROPOS_REQUERIMENTO", SelectSeq(ok, HasCpf), ThePerson, Requirement),
              Links("PROPOS_REQUERIMENTO", byName, PersonNamed, Requirement) >>
        \o InquiryMentions(file)

-----------------------------------------------------------------------------
(* senado_cpis.py also has a CPI node beside every inquiry, members (file  *)
(* 4, or else the inquiries themselves), a node for every event out of the *)
(* dates of its inquiry, and the documents it was compiled from (file 5).  *)

CpiId(r) == IF r.kind # "" THEN <<"cpi", r.kind, r.name>> ELSE <<"cpi">> \o InquiryId(r) \o <<r.name>>

Members(file) ==
    SelectSeq(IF Table(file, 4) # <<>> THEN Table(file, 4) ELSE Table(file, 1),
              LAMBDA r : r.name # "")
MemberOf(file, r) ==
    IF Table(file, 4) # <<>> /\ r.ref # "" THEN Value(r.ref) ELSE InquiryId(r)
\* member_name, or else name, which is the inquiry's own when there is no file of members
MemberName(r) == IF r.name2 # "" THEN PersonNamed(Second(r)) ELSE PersonNamed(r)

SenadoMembers(file) ==
    LET cpis == Unique(Inquiries(file), CpiId)
        Cpi(r) == SelectSeq(cpis, LAMBDA c : InquiryId(c) = MemberOf(file, r))
        listed == SelectSeq(Members(file), LAMBDA r : Cpi(r) # <<>>)
    IN  << Links("PARTICIPA_INQUIRY", Members(file), MemberName,
                 LAMBDA r : Fact("Inquiry", "inquiry_id", MemberOf(file, r))),
           Links("PARTICIPOU_CPI", listed, MemberName,
                 LAMBDA r : Fact("CPI", "cpi_id", CpiId(Last(Cpi(r))))) >>

\* _temporal_status against the dates of the first record of the inquiry
temporal_status(file, r) ==
    LET of == SelectSeq(Inquiries(file), LAMBDA q : InquiryId(q) = Value(r.ref))
    IN  CASE of = <<>> \/ r.when = "" \/ of[1].when = "" -> "unknown"
          [] Earlier(r.when, of[1].when) \/ Earlier(of[1].until, r.when) -> "invalid"
          [] OTHER -> "valid"

\* where a record of the model says so, the requirement or session is out of its inquiry
TemporalViolations(file) ==
    LET Out(rows) == SelectSeq(rows, LAMBDA r : temporal_status(file, r) = "invalid")
    IN  << Marks("TemporalViolation", "violation_id", Out(Requirements(file)),
                      LAMBDA r : <<"req", r.ref>> \o RequirementId(r) \o <<r.when>>),
           Marks("TemporalViolation", "violation_id", Out(Sessions(file)),
                      LAMBDA r : <<"sess", r.ref>> \o SessionId(r) \o <<r.when>>) >>

SenadoCpis(file) ==
    LET cpis == Unique(Inquiries(file), CpiId)
        authored == SelectSeq(Requirements(file), HasCpf)
        documents == SelectSeq(Table(file, 5), LAMBDA r : r.num # "")
    IN  << FirstFacts("Inquiry", "inquiry_id", Inquiries(file), InquiryId),
           FirstFacts("CPI", "cpi_id", Inquiries(file), CpiId),
           Links("EH_INQUIRY", cpis, LAMBDA r : Fact("CPI", "cpi_id", CpiId(r)),
                 LAMBDA r : Fact("Inquiry", "inquiry_id", InquiryId(r))) >>
        \o InquiryEvents(file) \o SenadoMembers(file)
        \o << Links("PROPOS_REQUERIMENTO", authored, ThePerson, Requirement) >>
        \o InquiryMentions(file) \o TemporalViolations(file)
        \o << FirstFacts("SourceDocument", "doc_id", documents, LAMBDA r : <<"doc", r.num, r.kind>>) >>

=============================================================================
