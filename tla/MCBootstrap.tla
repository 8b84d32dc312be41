----------------------------- MODULE MCBootstrap -----------------------------
(***************************************************************************)
(* Invocations over a downloaded core source with a source that lacks its  *)
(* credentials behind it, or over a source that only relates the first     *)
(* one's nodes with two before it that never get to an ingest command.     *)
(***************************************************************************)
EXTENDS Bootstrap, TLC

CONSTANTS r1, r2, r3, c1, c2, noKey

MCContract == <<"bcb", "cnpj", "dou", "holdings", "rais">>
MCSource == {MCContract[i] : i \in 1 .. 5}
MCSourceOf == (r1 :> "cnpj") @@ (r2 :> "cnpj") @@ (r3 :> "holdings")

MCSelected == {{"cnpj", "rais"}, {"bcb", "dou", "holdings"}}

MCMode == ("bcb" :> "blocked_external") @@ ("cnpj" :> "script_download") @@
          ("dou" :> "other") @@ ("holdings" :> "file_manifest") @@
          ("rais" :> "file_manifest")
MCCredentialed == MCSource \ {"rais"}

MCPlan ==
    [s \in MCSource |->
       CASE s = "cnpj" ->
              << [kind |-> "nodes", nodes |-> {c1}, rels |-> {}],
                 [kind |-> "nodes", nodes |-> {c2, noKey}, rels |-> {}] >>
         [] s = "holdings" ->
              << [kind |-> "retry", nodes |-> {}, rels |-> {<<c1, c2>>}] >>
         [] OTHER -> << >>]
=============================================================================
