--------------------------- MODULE MCSourceLoads ----------------------------
(* Every source with two files of at most two records, and every two      *)
(* sources of one graph with one file each.                               *)
EXTENDS SourceLoads

Ana   == [who |-> "ana",   doc |-> "cpf1",  name |-> "ANA"]
Bruno == [who |-> "bruno", doc |-> "cpf2",  name |-> "BRUNO"]
Acme  == [who |-> "acme",  doc |-> "cnpj1", name |-> "ACME"]
Beta  == [who |-> "beta",  doc |-> "cnpj2", name |-> "BETA"]

Namesake    == [who |-> "ana2", doc |-> "cpf3", name |-> "ANA"]
Masking(p)  == [p EXCEPT !.doc = "mask"]
Hidden(p)   == [p EXCEPT !.doc = ""]

InOrder == <<"d1", "d2", "d3", "d4">>

Record(p, q, kind) ==
    [pos |-> 1, tables |-> 1..5, fact |-> "f1", who |-> p.who, doc |-> p.doc, name |-> p.name,
     who2 |-> q.who, doc2 |-> q.doc, name2 |-> q.name, num |-> "1", ref |-> "1", kind |-> kind,
     when |-> "d2", until |-> "d3", amt |-> 2]

Of(r, p) == [r EXCEPT !.who = p.who, !.doc = p.doc, !.name = p.name]
With(r, p) == [r EXCEPT !.who2 = p.who, !.doc2 = p.doc, !.name2 = p.name]
Unnumbered(r) == [r EXCEPT !.num = ""]
Unreferred(r) == [r EXCEPT !.ref = ""]

\* a person or a company that the registry knows, and one that it does not know
AnasRecord == Record(Ana, Acme, "person")
Records == {AnasRecord, Record(Acme, Beta, "company"), Record(Bruno, Beta, "person"),
            Record(Beta, Bruno, "company")}

\* another fact of the same inquiry, state, bid or contract, or of another
Alike(r)   == [r EXCEPT !.fact = "f2", !.num = "2"]
Another(r) == [Alike(r) EXCEPT !.ref = "2"]
\* and of other people: one of the same name, one of that name whose document is not known
Such(doc) == IF doc \in Cpfs THEN {Bruno, Namesake, Hidden(Namesake)} ELSE {Acme, Beta}
Others(r) ==
    UNION {{q, [q EXCEPT !.when = "d4"], [q EXCEPT !.amt = 3], [q EXCEPT !.kind = "x"]}
               \cup {Of(q, p) : p \in Such(r.doc)} \cup {With(q, p) : p \in Such(r.doc2)} :
           q \in {Alike(r), Another(r)}}
Differing(r) == {Another(r), [Another(r) EXCEPT !.when = "d4"], [Another(r) EXCEPT !.kind = "x"]}

\* Two facts, of which both, one or none have numbers, or not even a reference.
FactPairs ==
    UNION {{<<r, q>> : q \in Others(r)}
           \cup {<<Unnumbered(r), Unnumbered(q)>> : q \in {Alike(r)} \cup Differing(r)}
           \cup {<<r, Unnumbered(Another(r))>>,
                 <<Unreferred(Unnumbered(r)), Unreferred(Unnumbered(Another(r)))>>} : r \in Records}
    \cup {<<Of(AnasRecord, Hidden(Ana)), Of(Alike(AnasRecord), Hidden(Namesake))>>,
          <<Of(AnasRecord, Masking(Ana)), Of(Another(AnasRecord), Masking(Bruno))>>,
          <<With(AnasRecord, Masking(Ana)), With(Another(AnasRecord), Masking(Bruno))>>}

\* One fact, corrected in any of its fields, or given a number.
Corrected(r) ==
    {[r EXCEPT !.amt = 3], [r EXCEPT !.amt = 0], [r EXCEPT !.when = "d4"], [r EXCEPT !.kind = "x"],
     [r EXCEPT !.until = "d1"], [r EXCEPT !.ref = "2"], [r EXCEPT !.name = "ANNA"],
     [r EXCEPT !.name = ""], [r EXCEPT !.name2 = ""]}
Corrections ==
    UNION {{<<r, q>> : q \in Corrected(r)} \cup {<<Unnumbered(r), r>>}
           \cup {<<Unnumbered(r), Unnumbered(q)>> : q \in Corrected(r)} : r \in Records}

\* A record that is missing from one of its source's files at first, or is there alone.
Partial(r, t) == [r EXCEPT !.tables = @ \ {t}]
Completions == {<<Partial(r, t), r>> : r \in Records, t \in 1..5}

File(rows) == [i \in DOMAIN rows |-> [rows[i] EXCEPT !.pos = i]]
From(name, rows) == [source |-> name, rows |-> File(rows)]

Argentine == {"comprar", "datos_gob_ar", "ddjj"}
Brazilian ==
    {"bcb", "bndes", "caged", "camara", "camara_inquiries", "ceaf", "cepim", "comprasnet",
     "cpgf", "cvm", "cvm_funds", "datajud", "datasus", "dou", "eu_sanctions", "holdings",
     "ibama", "icij", "inep", "leniency", "mides", "ofac", "opensanctions", "pep_cgu", "pgfn",
     "pncp", "querido_diario", "rais", "renuncias", "sanctions", "senado", "senado_cpis",
     "siconfi", "siop", "stf", "stj_dados_abertos", "tcu", "tesouro_emendas", "transferegov",
     "transparencia", "tse", "tse_bens", "tse_filiados", "un_sanctions", "viagens", "world_bank"}

\* these have several files
Tabled ==
    {"camara_inquiries", "cvm", "datajud", "ddjj", "icij", "mides", "sanctions", "senado_cpis",
     "tcu", "transferegov", "transparencia", "tse"}
\* a reference that is a person's code is not another person's
Coded == {"camara", "transferegov", "transparencia"}
OfOne(p) == p[1].ref = p[2].ref => p[1].who = p[2].who
PairsOf(name) == IF name \in Coded THEN {p \in FactPairs : OfOne(p)} ELSE FactPairs
\* the next file has a fact more before the first, or has the two in another order
WithFacts(name) ==
    UNION {{<<From(name, <<p[1]>>), From(name, <<p[2], p[1]>>)>>,
            <<From(name, p), From(name, <<p[2], p[1]>>)>>} : p \in PairsOf(name)}
\* the next file has the record corrected, in its place or before the old one
WithCorrections(name) ==
    UNION {{<<From(name, <<p[1]>>), From(name, <<p[2]>>)>>,
            <<From(name, <<p[1]>>), From(name, <<p[2], p[1]>>)>>} :
           p \in IF name \in Tabled THEN Corrections \cup Completions ELSE Corrections}
TwoFiles == UNION {WithFacts(name) \cup WithCorrections(name) : name \in Argentine \cup Brazilian}

TwoSources ==
    UNION {{<<From(a, <<r>>), From(b, <<[r EXCEPT !.fact = "f2"]>>)>> :
               b \in Brazilian \ {a},
               r \in {Record(Bruno, Beta, "person"), Record(Beta, Bruno, "company")}} :
           a \in Brazilian}

LoadHistories == TwoFiles \cup TwoSources

PersonNode(p) ==
    [NoNode EXCEPT !.props = PersonProps(p) @@ ("uf" :> <<"1">>), !.who = {p.who}]
CompanyNode(p) == [NoNode EXCEPT !.props = CompanyProps(p), !.who = {p.who}]
Known ==
    [EmptyGraph EXCEPT !.nodes =
        ([label |-> "Person", by |-> "cpf" :> format_cpf(Ana.doc)] :> PersonNode(Ana))
        @@ ([label |-> "Company", by |-> "cnpj" :> format_cnpj(Acme.doc)] :> CompanyNode(Acme))]

=============================================================================
