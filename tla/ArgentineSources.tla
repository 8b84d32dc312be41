-------------------------- MODULE ArgentineSources ---------------------------
(***************************************************************************)
(* The pipelines under aracc/aracc_etl/pipelines: contracts (comprar), the *)
(* declarations of assets (ddjj) and the catalogue (datos_gob_ar).  A CUIT *)
(* of a person or a company is a document in Cpfs or Cnpjs, of which only  *)
(* the digits are kept (normalizar_cuit), and a declaration or a contract  *)
(* is written by one query that merges all that belongs to it.             *)
(*                                                                         *)
(* The links to the run that loaded a record (INGESTADO_EN) are left out:  *)
(* every run adds its own.                                                 *)
(***************************************************************************)
EXTENDS GraphLoad

normalizar_cuit(doc) == IF doc \in Cpfs \cup Cnpjs THEN Value(doc) ELSE None
Cuil(r) == "cuil" :> normalizar_cuit(r.doc)
Cuit(r) == "cuit" :> normalizar_cuit(r.doc)

Persona(r)   == <<Merging("Persona", Cuil(r), "nombre" :> Value(r.name), r.who)>>
Empresa(r)   == <<Merging("Empresa", Cuit(r), "razon_social" :> Value(r.name), r.who)>>
\* an agency without an id is one node for all of them: only a null id makes none
Organismo(r) == MergedEnd("Organismo", "organismo_id" :> <<r.ref>>)
Documento(source, r) == MergedEnd("FuenteDocumento", "doc_id" :> <<source, "doc", r.num>>)

\* comprar.py
ContratoId(r) == <<"comprar", r.num>>

Comprar(file) ==
    LET ok == SelectSeq(file, LAMBDA r : normalizar_cuit(r.doc) # None /\ r.num # "")
        Contrato(r) == Fact("Contrato", "contrato_id", ContratoId(r))
    IN  << Query(<< Facts("Contrato", "contrato_id", ok, ContratoId),
                    Links("CONTRATA", ok, Organismo, Contrato),
                    Links("ADJUDICATARIA_DE", ok, Empresa, Contrato),
                    Links("SEGUN_FUENTE", ok, Contrato, LAMBDA r : Documento("comprar", r)) >>) >>

\* datos_gob_ar.py: nothing but the documents
DatosGobAr(file) ==
    << Facts("FuenteDocumento", "doc_id", file, LAMBDA r : <<"datosgobar", r.num>>) >>

-----------------------------------------------------------------------------
(* declaraciones_juradas.py: declarations (file 1), assets (2) and debts   *)
(* (3) whose ids are hashes of all they say, and relatives (4), the second *)
(* party.                                                                  *)

DdjjId(r) == <<"ddjj", r.num>>
DetalleId(prefijo, r) == <<prefijo, r.num, r.when, r.kind, ToString(r.amt)>>
Declaracion(r) == Fact("DeclaracionJurada", "ddjj_id", DdjjId(r))

Declaraciones(file) ==
    LET ok == SelectSeq(Table(file, 1), LAMBDA r : normalizar_cuit(r.doc) # None /\ r.num # "")
    IN  << Query(<< Facts("DeclaracionJurada", "ddjj_id", ok, DdjjId),
                    Links("PRESENTO", ok, Persona, Declaracion),
                    Links("CARGO_DECLARADO_EN", SelectSeq(ok, LAMBDA r : r.ref # ""),
                          Declaracion, Organismo),
                    Links("SEGUN_FUENTE", ok, Declaracion, LAMBDA r : Documento("ddjj", r)) >>) >>

\* the MATCH of the declaration comes first: a detail without one is not written
Detalle(file, t, label, key, prefijo, link) ==
    << Links(link, SelectSeq(Table(file, t), LAMBDA r : r.num # ""), Declaracion,
             LAMBDA r : MergedFact(label, key, DetalleId(prefijo, r), r)) >>

Familiares(file) ==
    LET ok == SelectSeq(Table(file, 4), LAMBDA r :
                  normalizar_cuit(r.doc) # None /\ normalizar_cuit(r.doc2) # None)
    IN  << Links("FAMILIAR_DE", ok, LAMBDA r : <<Pattern("Persona", Cuil(r))>>,
                 LAMBDA r : Persona(Second(r))) >>

Ddjj(file) ==
    Declaraciones(file)
    \o Detalle(file, 2, "BienDeclarado", "bien_id", "bien", "DECLARA")
    \o Detalle(file, 3, "Deuda", "deuda_id", "deuda", "REGISTRA_DEUDA")
    \o Familiares(file)

=============================================================================
