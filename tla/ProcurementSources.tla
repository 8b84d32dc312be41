------------------------- MODULE ProcurementSources --------------------------
(***************************************************************************)
(* The pipelines of bids and contracts: federal contracts (comprasnet),    *)
(* bids (pncp), the municipal bids, contracts and items of mides, and the  *)
(* contracts, salaries and amendments of the transparency portal.  Each    *)
(* operator gives the batches of a source in the order in which its load   *)
(* writes them.                                                            *)
(***************************************************************************)
EXTENDS GraphLoad

\* comprasnet.py: a contract, its company, and the bid that it names (ref); one without a
\* control number goes by its agency, its sequence (kind) and year (until)
ComprasnetId(r) == IF r.num # "" THEN Value(r.num) ELSE <<r.doc2, r.kind, r.until>>

Comprasnet(file) ==
    LET ok == SelectSeq(file, LAMBDA r : HasCnpj(r) /\ r.amt > 0)
        contracts == Unique(ok, ComprasnetId)
        Contract(r) == Fact("Contract", "contract_id", ComprasnetId(r))
    IN  << FirstFacts("Contract", "contract_id", ok, ComprasnetId), Companies(contracts),
           Links("VENCEU", contracts, TheCompany, Contract),
           Links("REFERENTE_A", SelectSeq(contracts, LAMBDA r : r.ref # ""), Contract,
                 LAMBDA r : Fact("Bid", "bid_id", Value(r.ref))) >>

\* pncp.py: a bid and the agency that published it; one without a control number goes by
\* its agency, its sequence (ref) and year (until), and is left out without these
PncpId(r) ==
    IF r.num # "" THEN Value(r.num)
    ELSE IF r.ref # "" /\ r.until # "" THEN <<r.doc, r.ref, r.until>> ELSE None

Pncp(file) ==
    LET ok == SelectSeq(file, LAMBDA r : HasCnpj(r) /\ r.amt > 0 /\ PncpId(r) # None)
        bids == Unique(ok, PncpId)
    IN  << FirstFacts("Bid", "bid_id", ok, PncpId), Companies(bids),
           Links("LICITOU", bids, TheCompany, LAMBDA r : Fact("Bid", "bid_id", PncpId(r))) >>

\* mides.py: an id of the file, or a hash of what else there is: the object (kind) and date
\* of a bid or contract, the contract (ref) and description of an item
MidesId(r) == IF r.num # "" THEN Value(r.num) ELSE <<r.kind, r.when>>
MidesItemId(r) == IF r.num # "" THEN Value(r.num) ELSE <<r.ref, r.kind>>
\* the companies are given their CNPJ for a name
MidesCompanies(rows) == Parties("Company", "cnpj", Unique(rows, Document), DocumentAsName)

MidesBids(file) ==
    FirstFacts("MunicipalBid", "municipal_bid_id", Table(file, 1), MidesId)
MidesContracts(file) ==
    FirstFacts("MunicipalContract", "municipal_contract_id", Table(file, 2), MidesId)
MidesItems(file) ==
    FirstFacts("MunicipalBidItem", "municipal_item_id", Table(file, 3), MidesItemId)

Mides(file) ==
    LET Supplied(t) == Unique(SelectSeq(Table(file, t), HasCnpj), LAMBDA r : <<r.doc, MidesId(r)>>)
        Referring(t, Id(_)) == Unique(SelectSeq(Table(file, t), LAMBDA r : r.ref # ""),
                                      LAMBDA r : <<r.ref, Id(r)>>)
        Bid(id)      == Fact("MunicipalBid", "municipal_bid_id", id)
        Contract(id) == Fact("MunicipalContract", "municipal_contract_id", id)
    IN  << MidesBids(file), MidesContracts(file), MidesItems(file),
           MidesCompanies(Supplied(1)),
           Links("MUNICIPAL_LICITOU", Supplied(1), TheCompany, LAMBDA r : Bid(MidesId(r))),
           MidesCompanies(Supplied(2)),
           Links("MUNICIPAL_VENCEU", Supplied(2), TheCompany, LAMBDA r : Contract(MidesId(r))),
           Links("REFERENTE_A", Referring(2, MidesId), LAMBDA r : Contract(MidesId(r)),
                 LAMBDA r : Bid(Value(r.ref))),
           Links("TEM_ITEM", Referring(3, MidesItemId), LAMBDA r : Contract(Value(r.ref)),
                 LAMBDA r : Fact("MunicipalBidItem", "municipal_item_id", MidesItemId(r))) >>

-----------------------------------------------------------------------------
(* transparencia.py: contracts, salaries of public servants whose CPF is   *)
(* masked, and amendments.                                                 *)

\* the id is the company and the date the contract starts
TransparenciaContracts(file) ==
    LET ok == SelectSeq(Table(file, 1), HasCnpj)
        Id(r) == <<r.doc, r.when>>
        contracts == Unique(ok, Id)
    IN  << FirstFacts("Contract", "contract_id", ok, Id), Companies(contracts),
           Links("VENCEU", contracts, TheCompany, LAMBDA r : Fact("Contract", "contract_id", Id(r))) >>

\* servidor_id and office_id are hashes of the visible digits, the name and the body
TransparenciaOffices(file) ==
    LET Partial(r) == IF HasDoc(r) THEN "" ELSE r.doc
        OfficeId(r)   == <<Partial(r), r.name, r.kind>>
        ServidorId(r) == <<Partial(r), r.name>>
        offices == Unique(Table(file, 2), OfficeId)
        Servidor(r) == ("servidor_id" :> ServidorId(r)) @@ ("name" :> Value(r.name))
    IN  << FirstFacts("PublicOffice", "office_id", Table(file, 2), OfficeId),
           Parties("Person", "servidor_id", Unique(offices, ServidorId), Servidor),
           Links("RECEBEU_SALARIO", offices, LAMBDA r : Fact("Person", "servidor_id", ServidorId(r)),
                 LAMBDA r : Fact("PublicOffice", "office_id", OfficeId(r))) >>

\* the author's key is his code (ref), or else his name; the id is the key and the object
TransparenciaAmendments(file) ==
    LET AuthorKey(r) == IF r.ref # "" THEN Value(r.ref) ELSE Value(r.name)
        Id(r) == AuthorKey(r) \o <<r.kind>>
        amendments == Unique(Table(file, 3), Id)
        Author(r) == ("author_key" :> AuthorKey(r)) @@ ("name" :> Value(r.name))
    IN  << FirstFacts("Amendment", "amendment_id", Table(file, 3), Id),
           Parties("Person", "author_key", Unique(amendments, AuthorKey), Author),
           Links("AUTOR_EMENDA", amendments, LAMBDA r : Fact("Person", "author_key", AuthorKey(r)),
                 LAMBDA r : Fact("Amendment", "amendment_id", Id(r))) >>

Transparencia(file) ==
    TransparenciaContracts(file) \o TransparenciaOffices(file) \o TransparenciaAmendments(file)

=============================================================================
