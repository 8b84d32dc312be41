------------------------------ MODULE MCEtlRun ------------------------------
(***************************************************************************)
(* Two processes of one source.  Its plan has the three kinds of batches:  *)
(* nodes, a retried query that creates one of its endpoints (bndes.py) and *)
(* looks for another that only a later batch writes, as sources that       *)
(* relate one another's nodes do, and relationships without retries: what  *)
(* a process finds depends on what the other has done.                     *)
(***************************************************************************)
EXTENDS EtlRun, TLC

CONSTANTS r1, r2, c1, c2, f1, noKey

MCSource == {"bndes"}
MCNode == {c1, c2, f1}
MCSourceOf == (r1 :> "bndes") @@ (r2 :> "bndes")

Batches(kind, ns, es) == [kind |-> kind, nodes |-> ns, rels |-> es]

MCPlan ==
    "bndes" :> << Batches("nodes", {f1, noKey}, {}),
                  Batches("retry", {c1}, {<<c1, f1>>, <<c1, c2>>}),
                  Batches("nodes", {c2}, {}),
                  Batches("rels", {}, {<<c2, f1>>, <<c2, noKey>>}) >>
=============================================================================
