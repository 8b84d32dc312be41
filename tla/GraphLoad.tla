------------------------------ MODULE GraphLoad ------------------------------
(***************************************************************************)
(* What the pipelines under etl/src/bracc_etl/pipelines have in common:    *)
(* the records of a source file, the documents and names in them, the      *)
(* batches a pipeline's transform prepares, and what one batch does to the *)
(* graph (Neo4jBatchLoader.load_nodes, load_relationships and the Cypher   *)
(* given to run_query).                                                    *)
(*                                                                         *)
(* A record of a file is one value, read by each source with its own names *)
(* for the fields: two parties (doc, name) and (doc2, name2), the source's *)
(* own number `num`, the number `ref` of another fact it names, a `kind`,  *)
(* a date `when` (of an inquiry up to `until`), an amount `amt`.  Three    *)
(* fields are not in the file: who and who2 are the people or companies    *)
(* that are meant and `fact` is the sanction, contract or payment that is  *)
(* meant; the properties speak of them, the pipelines cannot read them.    *)
(* pos is the record's index in its file and `tables` the files of the     *)
(* source it occurs in.                                                    *)
(*                                                                         *)
(* A value of a property is a sequence of strings, the empty one for a     *)
(* missing or empty value; a hash of several strings is their sequence.    *)
(***************************************************************************)
EXTENDS Naturals, Sequences, FiniteSets, SequencesExt, TLC

CONSTANTS
    Cpfs,     \* the documents of eleven digits
    Cnpjs     \* the documents of fourteen digits

None == <<>>
Value(string) == IF string = "" THEN None ELSE <<string>>

-----------------------------------------------------------------------------
(* Documents.  Those in neither set are masked CPFs, whose visible digits  *)
(* several people share, or "" for a missing one.                          *)

strip_document(doc) == Value(doc)
format_cpf(doc)  == IF doc \in Cpfs THEN <<"cpf", doc>> ELSE strip_document(doc)
format_cnpj(doc) == IF doc \in Cnpjs THEN <<"cnpj", doc>> ELSE strip_document(doc)

MutHasCpf(r) == r.doc # "" /\ r.doc \notin Cnpjs
HasCpf(r)  == r.doc \in Cpfs
HasCnpj(r) == r.doc \in Cnpjs
HasDoc(r)  == HasCpf(r) \/ HasCnpj(r)

Second(r) == [r EXCEPT !.doc = r.doc2, !.name = r.name2, !.who = r.who2]
Table(file, t) == SelectSeq(file, LAMBDA r : t \in r.tables)

\* deduplicate_rows: the first record of each key stays
Unique(rows, Key(_)) ==
    LET Keep(kept, r) == IF \E i \in DOMAIN kept : Key(kept[i]) = Key(r)
                         THEN kept ELSE Append(kept, r)
    IN  FoldLeft(Keep, <<>>, rows)

-----------------------------------------------------------------------------
(* Node batches.  A row of one carries the properties it sets, and for the *)
(* properties of the model the records or the people it stands for.        *)

Nodes(label, key, rows) == [act |-> "nodes", label |-> label, key |-> key, rows |-> rows]

\* one node per record, the last record of an id winning
Facts(label, key, rows, Id(_)) ==
    Nodes(label, key, [i \in DOMAIN rows |->
        [props |-> key :> Id(rows[i]), records |-> {rows[i]}, shown |-> {rows[i]}, who |-> {}]])

\* one node per id, the first record of an id winning: the others are only counted
FirstFacts(label, key, rows, Id(_)) ==
    LET first == Unique(rows, Id)
    IN  Nodes(label, key, [i \in DOMAIN first |->
            [props   |-> key :> Id(first[i]),
             records |-> {r \in ToSet(rows) : Id(r) = Id(first[i])},
             shown   |-> {first[i]}, who |-> {}]])

\* one node per id, holding the total over the records of the id
Totals(label, key, rows, Id(_)) ==
    LET first == Unique(rows, Id)
        Members(r) == {q \in ToSet(rows) : Id(q) = Id(r)}
    IN  Nodes(label, key, [i \in DOMAIN first |->
            [props |-> key :> Id(first[i]), records |-> Members(first[i]),
             shown |-> Members(first[i]), who |-> {}]])

\* nodes that stand for no record of their own
Marks(label, key, rows, Id(_)) ==
    Nodes(label, key, [i \in DOMAIN rows |->
        [props |-> key :> Id(rows[i]), records |-> {}, shown |-> {}, who |-> {}]])

Parties(label, key, rows, Props(_)) ==
    Nodes(label, key, [i \in DOMAIN rows |->
        [props |-> Props(rows[i]), records |-> {}, shown |-> {}, who |-> {rows[i].who}]])

PersonProps(r)  == ("cpf" :> format_cpf(r.doc)) @@ ("name" :> Value(r.name))
CompanyProps(r) == ("cnpj" :> format_cnpj(r.doc)) @@ ("razao_social" :> Value(r.name))
DocumentOnly(r) == "cnpj" :> format_cnpj(r.doc)
\* the document in the place of a name that the source does not give
DocumentAsName(r) == DocumentOnly(r) @@ ("razao_social" :> format_cnpj(r.doc))

Document(r) == r.doc
\* rows made unique by document: the first name of each stays
People(rows)    == Parties("Person", "cpf", Unique(rows, Document), PersonProps)
Companies(rows) == Parties("Company", "cnpj", Unique(rows, Document), CompanyProps)

-----------------------------------------------------------------------------
(* Link batches.  An end is a sequence of patterns, of which the first     *)
(* that matches counts (coalesce of OPTIONAL MATCHes); a pattern with      *)
(* creates = TRUE is a MERGE, which creates the node where there is none.  *)

Pattern(label, match) ==
    [label |-> label, match |-> match, creates |-> FALSE, props |-> match,
     who |-> {}, records |-> {}]
Merging(label, match, props, who) ==
    [Pattern(label, match) EXCEPT !.creates = TRUE, !.props = match @@ props, !.who = {who}]
MergedEnd(label, match) == <<[Pattern(label, match) EXCEPT !.creates = TRUE]>>
MergedFact(label, key, id, r) ==
    <<[Pattern(label, key :> id) EXCEPT !.creates = TRUE, !.records = {r}]>>

Fact(label, key, id) == <<Pattern(label, key :> id)>>
ThePerson(r)     == <<Pattern("Person", "cpf" :> format_cpf(r.doc))>>
TheCompany(r)    == <<Pattern("Company", "cnpj" :> format_cnpj(r.doc))>>
PersonNamed(r)   == <<Pattern("Person", "name" :> Value(r.name))>>
CompanyNamed(r)  == <<Pattern("Company", "razao_social" :> Value(r.name))>>
CompanyOrPerson(r) == TheCompany(r) \o ThePerson(r)
MutMergedCompany(r) == <<Merging("Company", "cnpj" :> Value(r.doc), CompanyProps(r), r.who)>>
MergedCompany(r) == <<Merging("Company", DocumentOnly(r), CompanyProps(r), r.who)>>

\* key: the properties of the link that its MERGE names
KeyedLinks(type, rows, From(_), To(_), Key(_)) ==
    [act |-> "links", type |-> type,
     rows |-> [i \in DOMAIN rows |->
         [from |-> From(rows[i]), to |-> To(rows[i]), key |-> Key(rows[i]), record |-> rows[i]]]]

Links(type, rows, From(_), To(_)) == KeyedLinks(type, rows, From, To, LAMBDA r : None)

-----------------------------------------------------------------------------
(* The graph: nodes, links, and the rows of links that found no end.  A    *)
(* node is named by what the MERGE that created it looked for; a link has  *)
(* the properties of the last record that stated it.                       *)

EmptyGraph == [nodes |-> <<>>, links |-> <<>>, lost |-> {}]

Matching(nodes, p) ==
    {n \in DOMAIN nodes : n.label = p.label /\ \A k \in DOMAIN p.match :
        /\ p.match[k] # None
        /\ k \in DOMAIN nodes[n].props
        /\ nodes[n].props[k] = p.match[k]}

Absent(p) == \E k \in DOMAIN p.match : p.match[k] = None

NoNode == [props |-> <<>>, records |-> {}, shown |-> {}, who |-> {}]

\* f, and g where f says nothing
Over(f, g) == [x \in DOMAIN f \cup DOMAIN g |-> IF x \in DOMAIN f THEN f[x] ELSE g[x]]

\* MERGE (n:Label {key: ..}) SET the row's properties: every node that matches, or a new one
Merge(nodes, p, row) ==
    LET hits == Matching(nodes, p)
        Old(n) == IF n \in DOMAIN nodes THEN nodes[n] ELSE [NoNode EXCEPT !.props = p.match]
        Written(n) == [props   |-> Over(row.props, Old(n).props),
                       records |-> Old(n).records \cup row.records,
                       shown   |-> IF row.shown = {} THEN Old(n).shown ELSE row.shown,
                       who     |-> Old(n).who \cup row.who]
        targets == IF hits # {} THEN hits ELSE {[label |-> p.label, by |-> p.match]}
    IN  Over([n \in targets |-> Written(n)], nodes)

\* load_nodes leaves out the rows without a key
KeyOf(batch, row) == Pattern(batch.label, [k \in {batch.key} |-> row.props[k]])
LoadNode(g, batch, row) ==
    IF Absent(KeyOf(batch, row)) THEN g
    ELSE [nodes |-> Merge(g.nodes, KeyOf(batch, row), row), links |-> g.links, lost |-> g.lost]

\* the nodes that an end of a link is: those of its first pattern that has any
EndNodes(nodes, end) ==
    LET found == {i \in DOMAIN end : Matching(nodes, end[i]) # {}}
    IN  IF found = {} THEN {}
        ELSE Matching(nodes, end[CHOOSE i \in found : \A j \in found : i <= j])

MutCreateEnd(nodes, end) ==
    LET p == end[1]
    IN  IF p.creates /\ ~Absent(p)
        THEN Merge(nodes, p, [props |-> p.props, records |-> p.records, shown |-> p.records,
                              who |-> p.who])
        ELSE nodes

\* MERGE of an end: ON CREATE SET gives a new node its properties
CreateEnd(nodes, end) ==
    LET p == end[1]
        hit == Matching(nodes, p) # {}
    IN  IF p.creates /\ ~Absent(p)
        THEN Merge(nodes, p, [props |-> IF hit THEN <<>> ELSE p.props,
                              records |-> p.records, shown |-> p.records, who |-> p.who])
        ELSE nodes

\* the end that a row names second is merged where the first is found
SecondEnd(first, row) == IF EndNodes(first, row.from) = {} THEN first ELSE CreateEnd(first, row.to)
NodesOf(g, row) == SecondEnd(CreateEnd(g.nodes, row.from), row)
Blank(row) == \/ \A i \in DOMAIN row.from : Absent(row.from[i])
              \/ \A i \in DOMAIN row.to : Absent(row.to[i])

\* every pair of ends is linked, and a row without one is lost unless it names none
LinkEnds(g, nodes, ends, batch, row) ==
    LET ids == {<<batch.type, e[1], e[2], row.key>> : e \in ends}
        Old(l) == IF l \in DOMAIN g.links THEN g.links[l].records ELSE {}
    IN  [nodes |-> nodes,
         links |-> Over([l \in ids |-> [records |-> Old(l) \cup {row.record}, last |-> row.record]],
                        g.links),
         lost  |-> IF ends = {} /\ ~Blank(row)
                   THEN g.lost \cup {[type |-> batch.type, from |-> row.from, to |-> row.to,
                                      record |-> row.record]}
                   ELSE g.lost]
Linked(g, nodes, batch, row) ==
    LinkEnds(g, nodes, EndNodes(nodes, row.from) \X EndNodes(nodes, row.to), batch, row)
LoadLink(g, batch, row) == Linked(g, NodesOf(g, row), batch, row)

-----------------------------------------------------------------------------
(* Batches are applied row by row.  Graphs are numbered by how many rows,  *)
(* parts of a query or batches were applied before them.                   *)

LoadRow(g, batch, row) ==
    IF batch.act = "nodes" THEN LoadNode(g, batch, row) ELSE LoadLink(g, batch, row)
RowGraphs(g, batch) ==
    LET after[i \in 0 .. Len(batch.rows)] ==
            IF i = 0 THEN g ELSE LoadRow(after[i - 1], batch, batch.rows[i])
    IN  after
LoadPart(g, batch) == RowGraphs(g, batch)[Len(batch.rows)]

\* a query of several MERGEs writes all of them in its one transaction
Query(parts) == [act |-> "query", rows |-> parts]
Parts(batch) == IF batch.act = "query" THEN batch.rows ELSE <<batch>>
PartGraphs(g, batch) ==
    LET after[i \in 0 .. Len(Parts(batch))] ==
            IF i = 0 THEN g ELSE LoadPart(after[i - 1], Parts(batch)[i])
    IN  after
Apply(g, batch) == PartGraphs(g, batch)[Len(Parts(batch))]

BatchGraphs(g, batches) ==
    LET after[i \in 0 .. Len(batches)] ==
            IF i = 0 THEN g ELSE Apply(after[i - 1], batches[i])
    IN  after
ApplyAll(g, batches) == BatchGraphs(g, batches)[Len(batches)]

=============================================================================
