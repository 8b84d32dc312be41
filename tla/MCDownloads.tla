---------------------------- MODULE MCDownloads ----------------------------
(* Every download script, asked for one of two dates or years or for both. *)
EXTENDS Downloads

Dates == {"a", "b"}
\* a file grows, then shrinks
Sizes == <<2, 3, 1>>

\* main of the scripts; senado_cpis and senado_cpi_archive share a directory
Plans(name, asked) ==
    CASE name = "bcb" -> Bcb                            [] name = "caged" -> Caged(asked)
      [] name = "camara" -> Camara(asked)               [] name = "camara_inquiries" -> CamaraInquiries
      [] name = "camara_inquiries_api" -> CamaraInquiriesApi
      [] name = "ceaf" -> Ceaf(asked)                   [] name = "cepim" -> Cepim(asked)
      [] name = "cnpj" -> Cnpj(asked)                   [] name = "cnpj_bq" -> CnpjBq(asked)
      [] name = "cpgf" -> Cpgf(asked)                   [] name = "cvm" -> Cvm
      [] name = "cvm_funds" -> CvmFunds                 [] name = "datajud" -> Datajud
      [] name = "descargar" -> Descargar(asked)         [] name = "dou" -> Dou(asked)
      [] name = "eu_sanctions" -> EuSanctions           [] name = "holdings" -> Holdings
      [] name = "icij" -> Icij                          [] name = "leniency" -> Leniency(asked)
      [] name = "mides" -> Mides(asked)                 [] name = "ofac" -> Ofac(asked)
      [] name = "opensanctions" -> OpenSanctions(asked) [] name = "pep_cgu" -> PepCgu(asked)
      [] name = "querido_diario" -> QueridoDiario       [] name = "renuncias" -> Renuncias(asked)
      [] name = "runner" -> RunnerDownload(asked)       [] name = "sanctions" -> Sanctions(asked)
      [] name = "senado" -> Senado(asked)
      [] name = "senado_cpis" -> IF asked = <<"b">> THEN SenadoCpiArchive ELSE SenadoCpis
      [] name = "senado_parlamentares" -> SenadoParlamentares(asked)
      [] name = "siconfi" -> Siconfi(asked)             [] name = "siop" -> Siop(asked)
      [] name = "stf" -> Stf                            [] name = "tesouro_emendas" -> TesouroEmendas
      [] name = "transparencia" -> Transparencia(asked) [] name = "tse" -> Tse(asked)
      [] name = "tse_bens" -> TseBens                   [] name = "tse_filiados" -> TseFiliados
      [] name = "un_sanctions" -> UnSanctions           [] name = "viagens" -> Viagens(asked)
      [] name = "world_bank" -> WorldBank

Dated == {"ceaf", "cepim", "leniency", "opensanctions", "pep_cgu", "sanctions"}
Yearly ==
    {"caged", "camara", "cnpj", "cnpj_bq", "cpgf", "descargar", "dou", "mides", "ofac", "renuncias",
     "runner", "senado", "senado_parlamentares", "siconfi", "siop", "transparencia", "tse", "viagens"}
Single ==
    {"bcb", "camara_inquiries", "camara_inquiries_api", "cvm", "cvm_funds", "datajud",
     "eu_sanctions", "holdings", "icij", "querido_diario", "stf", "tesouro_emendas", "tse_bens",
     "tse_filiados", "un_sanctions", "world_bank"}
\* the scripts of the Portal da Transparencia with ceaf's plan are checked with it
LikeCeaf == {"cepim", "leniency", "pep_cgu"}
All == (Dated \cup Yearly \cup Single \cup {"senado_cpis"}) \ LikeCeaf

Asked(name) ==
    CASE name \in Dated -> {<<"a">>, <<"b">>}
      [] name \in Yearly -> {<<"b">>, <<"a", "b">>}
      [] name \in Single -> {<<"a">>}
      [] name = "senado_cpis" -> {<<"a", "b">>, <<"b">>}

\* the files the pipelines of bracc_etl read
ReadBy(name, d) ==
    CASE name = "bcb" -> <<TheFile("penalidades.csv")>>
      [] name \in {"caged"} -> <<File("caged.csv", d)>>
      [] name \in {"camara", "cnpj", "cpgf", "descargar", "mides", "ofac", "renuncias", "runner", "senado"} ->
             <<File("csv", d)>>
      [] name = "camara_inquiries" -> CamaraFiles
      [] name = "camara_inquiries_api" -> CamaraFiles
      [] name = "ceaf" -> <<TheFile("ceaf.csv")>>       [] name = "cepim" -> <<TheFile("cepim.csv")>>
      [] name = "cnpj_bq" -> <<File("history.csv", d)>> [] name = "cvm" -> Cvm[1].unless
      [] name = "cvm_funds" -> <<TheFile("cad_fi.csv")>> [] name = "datajud" -> Datajud[1].unless
      [] name = "dou" -> <<File("xml", d)>>
      [] name = "eu_sanctions" -> <<TheFile("eu_sanctions.csv")>>
      [] name = "holdings" -> <<TheFile("holding.csv.gz")>>
      [] name = "icij" -> Icij[2].to
      [] name = "leniency" -> <<TheFile("acordos-leniencia.csv")>>
      [] name = "opensanctions" -> <<TheFile("entities.ftm.json")>>
      [] name = "pep_cgu" -> <<TheFile("pep.csv")>>
      [] name = "querido_diario" -> <<TheFile("acts.jsonl")>>
      [] name = "sanctions" -> <<TheFile("ceis.csv"), TheFile("cnep.csv")>>
      [] name = "senado_cpis" -> InquiryFiles
      [] name = "senado_parlamentares" -> <<TheFile("parlamentares.json")>>
      [] name = "siconfi" -> <<File("dca.csv", d)>>     [] name = "siop" -> <<File("emendas.csv", d)>>
      [] name = "stf" -> <<TheFile("decisoes.csv")>>
      [] name = "tesouro_emendas" -> <<TheFile("emendas_tesouro.csv")>>
      [] name = "transparencia" -> <<TheFile("compras.csv")>>
      [] name = "tse" -> <<TheFile("candidatos.csv")>>  [] name = "tse_bens" -> <<TheFile("bens.csv")>>
      [] name = "tse_filiados" -> <<TheFile("filiados.csv")>>
      [] name = "un_sanctions" -> <<TheFile("un_sanctions.json")>>
      [] name = "viagens" -> <<TheFile("viagens.csv")>>
      [] name = "world_bank" -> <<TheFile("debarred.csv")>>

ExitOf(name) ==
    CASE name = "cnpj_bq" -> "any failed"
      [] name = "dou" -> "nothing new"
      [] name \in {"cnpj", "renuncias", "runner", "senado_parlamentares", "world_bank", "siconfi"} -> "never"
      [] OTHER -> "none done"
AlwaysSkip == {"renuncias", "siconfi"}

PlanTable == [name \in All |-> [asked \in Asked(name) |-> Plans(name, asked)]]
OutputTable == [name \in All |-> [d \in Dates |-> ReadBy(name, d)]]
\* those that fetch several archives, one after the other
Long == {"camara", "siop", "sanctions", "tse", "transparencia"}
TroubleTable == [name \in All |-> IF name \in Long THEN 1 ELSE 2]
RunTable == [name \in All |-> IF name = "transparencia" THEN 1 ELSE 2]
PolicyTable == [name \in All |-> ExitOf(name)]
=============================================================================
