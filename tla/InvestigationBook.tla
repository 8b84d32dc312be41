-------------------------- MODULE InvestigationBook --------------------------
(***************************************************************************)
(* What the investigation endpoints promise to their clients, without      *)
(* requests, users that vanish or two-step deletions: a book of            *)
(* investigations, each changed as a whole by one operation at a time.     *)
(* Ids are used once: a discarded investigation, a deleted note or a       *)
(* replaced share token never comes back.                                  *)
(***************************************************************************)
EXTENDS Naturals

CONSTANTS User, Inv, Note, Token, Title, Entity, NoUser, NoToken, NoTitle

VARIABLES
    page,  \* the contents of each investigation; blank when there is none
    spent  \* ids drawn so far

bookVars == <<page, spent>>

BlankPage == [owner |-> NoUser, title |-> NoTitle, entities |-> {},
              notes |-> {}, token |-> NoToken]

Exists(i) == page[i] # BlankPage

BookInit ==
    /\ page = [i \in Inv |-> BlankPage]
    /\ spent = {}

\* The id of an investigation, note, token or user is drawn.
Draw(x) == x \notin spent /\ spent' = spent \cup {x}

Open ==
    \E i \in Inv, u \in User, t \in Title :
        /\ Draw(i)
        /\ page' = [page EXCEPT ![i] = [BlankPage EXCEPT !.owner = u, !.title = t]]

Rewrite ==
    \E i \in Inv : \E t \in Title \cup {page[i].title}, es \in SUBSET Entity :
        /\ Exists(i)
        /\ page' = [page EXCEPT ![i].title = t, ![i].entities = es]
        /\ UNCHANGED spent

Attach ==
    \E i \in Inv, n \in Note :
        /\ Exists(i)
        /\ Draw(n)
        /\ page' = [page EXCEPT ![i].notes = @ \cup {n}]

Detach ==
    \E i \in Inv, n \in Note :
        /\ n \in page[i].notes
        /\ page' = [page EXCEPT ![i].notes = @ \ {n}]
        /\ UNCHANGED spent

Publish ==
    \E i \in Inv, t \in Token :
        /\ Exists(i)
        /\ Draw(t)
        /\ page' = [page EXCEPT ![i].token = t]

Unpublish ==
    \E i \in Inv :
        /\ Exists(i)
        /\ page' = [page EXCEPT ![i].token = NoToken]
        /\ UNCHANGED spent

Discard ==
    \E i \in Inv :
        /\ page' = [page EXCEPT ![i] = BlankPage]
        /\ UNCHANGED spent

\* The graph is wiped.
Lose == page' = [i \in Inv |-> BlankPage] /\ UNCHANGED spent

\* An id is drawn for nothing the client can see.
Waste == \E x \in User \cup Inv : Draw(x) /\ UNCHANGED page

BookNext ==
    \/ Open
    \/ Rewrite
    \/ Attach
    \/ Detach
    \/ Publish
    \/ Unpublish
    \/ Discard
    \/ Lose
    \/ Waste

BookSpec == BookInit /\ [][BookNext]_bookVars
=============================================================================
