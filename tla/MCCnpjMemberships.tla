------------------------- MODULE MCCnpjMemberships -------------------------
(***************************************************************************)
(* Files of three rows: a partner with two roles and two dates next to a   *)
(* company that is a partner; an older file and one without dates.         *)
(***************************************************************************)
EXTENDS CnpjMemberships, TLC

CONSTANTS r1, r2, r3, administrador, diretor

MCLabelOf == [p \in Pair |-> IF p = "ana" THEN 1 ELSE 3]

R(pair, snap, entry, role) ==
    [pair |-> pair, snap |-> snap, entry |-> entry, role |-> role]

New == <<R("ana", 2, 1, administrador), R("ana", 2, 0, diretor),
         R("sa", 2, 1, administrador), R("ana", 0, 2, administrador)>>
Tied == <<R("ana", 1, 1, diretor), R("sa", 0, 0, administrador),
          R("ana", 1, 1, administrador)>>
Undated == <<R("sa", 0, 1, administrador), R("ana", 0, 0, administrador)>>

Job(streaming, history, rows) ==
    [streaming |-> streaming, history |-> history, rows |-> rows]

Processes == Permutations(Run)

AllJobs == {Job(s, h, f) : s \in BOOLEAN, h \in BOOLEAN,
                           f \in {New, Tied, Undated}}
=============================================================================
