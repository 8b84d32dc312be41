-------------------------- MODULE MCEntityTimeline --------------------------
(***************************************************************************)
(* An entity with five events, three of them of one date, in pages of two, *)
(* and another with two.                                                   *)
(***************************************************************************)
EXTENDS EntityTimeline

MCEventsOf == [e \in Entity |-> IF e = "big" THEN 11 .. 15 ELSE {15, 16}]
MCDateOf == [x \in 11 .. 16 |-> CASE x = 11 -> 1 [] x = 15 -> 3 [] x = 16 -> 4
                                   [] OTHER -> 2]
=============================================================================
