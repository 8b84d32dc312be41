--------------------------- MODULE MCInvestigation ---------------------------
(***************************************************************************)
(* Small instances of InvestigationService: two requests at a time; a      *)
(* company and a contract that share an id, as a CNPJ and a contract_id    *)
(* may.                                                                    *)
(***************************************************************************)
EXTENDS InvestigationService, TLC

CONSTANTS u1, u2, i1, i2, a1, g1, t1, t2, e1, e2, x1, q1, q2

MCKeys == [e \in Entity |-> {x1}]

\* Only safety is checked here, and nothing tells the members of a pool apart.
Interchangeable ==
    UNION {Permutations(S) : S \in {User, Inv, Token, Request}}
=============================================================================
