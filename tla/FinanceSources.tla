--------------------------- MODULE FinanceSources ----------------------------
(***************************************************************************)
(* The pipelines of public money: loans, debts, waivers, municipal         *)
(* accounts, card expenses, travels, amendments, funds and holdings.  Each *)
(* operator gives the batches of a source in the order in which its load   *)
(* writes them.                                                            *)
(***************************************************************************)
EXTENDS GraphLoad

Amount(r) == <<ToString(r.amt)>>

\* bndes.py: the node has the first record of a contract, the link the last
Bndes(file) ==
    LET ok == SelectSeq(file, LAMBDA r : HasCnpj(r) /\ r.num # "")
        Id(r) == <<"bndes", r.num>>
    IN  << FirstFacts("Finance", "finance_id", ok, Id),
           Links("RECEBEU_EMPRESTIMO", ok, MergedCompany, LAMBDA r : Fact("Finance", "finance_id", Id(r))) >>

\* siconfi.py: the id is a hash of the municipality, the year, the account and the column
Siconfi(file) ==
    LET ok == SelectSeq(file, LAMBDA r : r.num # "")
        Id(r) == <<r.num, r.when, r.kind>>
        linked == SelectSeq(ok, HasCnpj)
    IN  << FirstFacts("MunicipalFinance", "finance_id", ok, Id), Companies(linked),
           Links("DECLAROU_FINANCA", linked, TheCompany,
                 LAMBDA r : Fact("MunicipalFinance", "finance_id", Id(r))) >>

\* renuncias.py: the id is a hash of the company, the year, the tax and the kind of waiver
Renuncias(file) ==
    LET ok == SelectSeq(file, LAMBDA r : HasCnpj(r) /\ r.amt > 0)
        Id(r) == <<r.doc, r.when, r.kind>>
    IN  << FirstFacts("TaxWaiver", "waiver_id", ok, Id),
           Links("RECEBEU_RENUNCIA", ok, MergedCompany, LAMBDA r : Fact("TaxWaiver", "waiver_id", Id(r))) >>

\* pgfn.py: principal debtors that are companies; the first record of an inscription
MutPgfnId(r) == <<"pgfn", r.num>> \o Amount(r)
PgfnId(r) == <<"pgfn", r.num>>

Pgfn(file) ==
    LET ok == SelectSeq(file, LAMBDA r : r.kind = "company" /\ HasCnpj(r) /\ r.num # "")
        seen == Unique(ok, PgfnId)
    IN  << FirstFacts("Finance", "finance_id", seen, PgfnId),
           Links("DEVE", seen, MergedCompany, LAMBDA r : Fact("Finance", "finance_id", PgfnId(r))) >>

\* tesouro_emendas.py: zfill keeps the document as it is written, and whatever it is
TesouroEmendas(file) ==
    LET ok == SelectSeq(file, LAMBDA r : r.num # "")
        Id(r) == <<"transfer_tesouro", r.num>>
        paid == SelectSeq(ok, LAMBDA r : r.doc # "")
        Written(r) == ("cnpj" :> Value(r.doc)) @@ ("razao_social" :> Value(r.name))
        Payee(r) == <<Pattern("Company", "cnpj" :> Value(r.doc))>>
    IN  << FirstFacts("Payment", "transfer_id", ok, Id),
           Parties("Company", "cnpj", Unique(paid, Document), Written),
           Links("PAGO_PARA", paid, LAMBDA r : Fact("Payment", "transfer_id", Id(r)), Payee) >>

\* cpgf.py: the last name of a card holder stays; the id is a hash of the document,
\* the date, the amount and the payee
Cpgf(file) ==
    LET ok == SelectSeq(file, LAMBDA r : r.name # "" /\ r.amt # 0)
        Id(r) == <<"cpgf", r.doc, r.when>> \o Amount(r) \o <<r.name2>>
        full == SelectSeq(ok, HasCpf)
    IN  << FirstFacts("GovCardExpense", "expense_id", ok, Id),
           Parties("Person", "cpf", full, PersonProps),
           Links("GASTOU_CARTAO", full, ThePerson, LAMBDA r : Fact("GovCardExpense", "expense_id", Id(r))) >>

\* viagens.py: the id is a hash of the document, the destination, the date and the amount
Viagens(file) ==
    LET ok == SelectSeq(file, LAMBDA r : r.name # "")
        Id(r) == <<r.doc, r.kind, r.when>> \o Amount(r)
        Traveller(r) == <<Merging("Person", "cpf" :> format_cpf(r.doc), "name" :> Value(r.name), r.who)>>
    IN  << FirstFacts("GovTravel", "travel_id", ok, Id),
           Links("VIAJOU", SelectSeq(ok, HasCpf), Traveller,
                 LAMBDA r : Fact("GovTravel", "travel_id", Id(r))) >>

\* holdings.py: a link between two companies that others load
Holdings(file) ==
    LET ok == SelectSeq(file, LAMBDA r : HasCnpj(r) /\ HasCnpj(Second(r)) /\ r.doc # r.doc2)
    IN  << Links("HOLDING_DE", ok, LAMBDA r : TheCompany(Second(r)), TheCompany) >>

\* cvm_funds.py: a fund, its administrator and, when it is a company, its manager
CvmFunds(file) ==
    LET funds == SelectSeq(file, HasCnpj)
        Id(r) == format_cnpj(r.doc)
        administered == SelectSeq(funds, LAMBDA r : HasCnpj(Second(r)))
        Pair(r) == <<r.doc2, r.doc>>
        Company(r) == MergedCompany(Second(r))
        Fund(r) == Fact("Fund", "fund_cnpj", Id(r))
    IN  << FirstFacts("Fund", "fund_cnpj", funds, Id),
           Links("ADMINISTRA", Unique(administered, Pair), Company, Fund),
           Links("GERE", Unique(SelectSeq(administered, LAMBDA r : r.kind = "company"), Pair),
                 Company, Fund) >>

-----------------------------------------------------------------------------
\* siop.py: the records of a code summed; the author of the first of them
Siop(file) ==
    LET ok == SelectSeq(file, LAMBDA r : r.num # "")
        Id(r) == <<"siop", r.num>>
        authored == SelectSeq(Unique(ok, Id), LAMBDA r : HasCpf(r) /\ r.name # "")
    IN  << Totals("Amendment", "amendment_id", ok, Id), People(authored),
           Links("AUTOR_EMENDA", authored, ThePerson, LAMBDA r : Fact("Amendment", "amendment_id", Id(r))) >>

\* transferegov.py: amendments summed by code with their author (ref is his code),
\* who is favoured by them, and the agreements they led to
TransferegovAmendments(file) ==
    LET ok == SelectSeq(Table(file, 1), LAMBDA r : r.num # "")
        Id(r) == Value(r.num)
        authored == SelectSeq(Unique(ok, Id), LAMBDA r : r.ref # "")
        Author(r) == ("author_key" :> Value(r.ref)) @@ ("name" :> Value(r.name))
    IN  << Totals("Amendment", "amendment_id", ok, Id),
           Parties("Person", "author_key", Unique(authored, LAMBDA r : r.ref), Author),
           Links("AUTOR_EMENDA", authored, LAMBDA r : Fact("Person", "author_key", Value(r.ref)),
                 LAMBDA r : Fact("Amendment", "amendment_id", Id(r))) >>

TransferegovFavoured(file) ==
    LET ok == SelectSeq(Table(file, 2), LAMBDA r : r.num # "")
        firms  == SelectSeq(ok, LAMBDA r : r.kind = "company" /\ HasCnpj(r))
        people == SelectSeq(ok, LAMBDA r : r.kind = "person" /\ HasCpf(r))
        Amendment(r) == Fact("Amendment", "amendment_id", Value(r.num))
    IN  << Companies(firms), People(people),
           Links("BENEFICIOU", firms, Amendment, TheCompany),
           Links("BENEFICIOU", people, Amendment, ThePerson) >>

TransferegovAgreements(file) ==
    LET ok == SelectSeq(Table(file, 3), LAMBDA r : r.num # "" /\ r.ref # "")
        Id(r) == Value(r.num)
    IN  << FirstFacts("Convenio", "convenio_id", ok, Id),
           Links("GEROU_CONVENIO", ok, LAMBDA r : Fact("Amendment", "amendment_id", Value(r.ref)),
                 LAMBDA r : Fact("Convenio", "convenio_id", Id(r))) >>

Transferegov(file) ==
    TransferegovAmendments(file) \o TransferegovFavoured(file) \o TransferegovAgreements(file)

=============================================================================
