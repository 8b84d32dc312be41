------------------------ MODULE InvestigationService ------------------------
(***************************************************************************)
(* The investigations of the API: routers/investigation.py on top of       *)
(* services/investigation_service.py and its Cypher queries.               *)
(*                                                                         *)
(* Requests of several users are served concurrently.  A request first     *)
(* reads its user (dependencies.get_current_user) in one transaction and   *)
(* then runs one query in another, so anything may commit in between: other *)
(* requests, and the graph wipe of scripts/run_bootstrap_all.py, which does *)
(* not spare users and investigations.                                     *)
(*                                                                         *)
(* Neo4j reads committed data, statement by statement.  A query that MATCHes *)
(* one path and writes is serialised by its lock on the investigation and  *)
(* is one action; investigation_delete.cypher first collects the tags and  *)
(* annotations and then deletes them with the investigation, which is two. *)
(***************************************************************************)
EXTENDS Naturals, FiniteSets

CONSTANTS
    User, Inv, Annotation, Tag, Token,  \* uuids, each handed out once
    Entity,     \* nodes of the graph that an investigation may include
    EntityId,   \* ids a client may name an entity by
    Keys,       \* the ids each entity answers to
    Request,    \* requests in flight
    Title,      \* titles and descriptions
    NoUser, NoToken, NoInv, NoTitle,
    Ttl,        \* share_token_ttl_hours of config.py
    MaxNow      \* bound: last hour of the clock

Note == Annotation \cup Tag

ASSUME InvestigationAssumption ==
    /\ Keys \in [Entity -> SUBSET EntityId]
    /\ NoUser \notin User
    /\ NoToken \notin Token
    /\ NoInv \notin Inv
    /\ NoTitle \notin Title
    /\ Ttl \in Nat
    /\ MaxNow \in Nat

VARIABLES
    now,      \* the clock
    users,    \* User nodes
    live,     \* Investigation nodes
    inv,      \* their owner, title, entities, notes and share token
    notes,    \* Annotation and Tag nodes
    used,     \* uuids drawn so far
    req,      \* the requests
    promised  \* history: share_expires_at as generate_share_token computed it

vars == <<now, users, live, inv, notes, used, req, promised>>

Investigation == [owner : User \cup {NoUser},
                  title : Title \cup {NoTitle},
                  entities : SUBSET Entity,
                  notes : SUBSET Note,
                  token : Token \cup {NoToken}]

Blank == [owner |-> NoUser, title |-> NoTitle, entities |-> {}, notes |-> {},
          token |-> NoToken]

\* A request is authenticated, then (deletes only) has collected what it is to
\* delete, then is answered: 200, 404 or 500.
ReqState == [pc : {"free", "authenticated", "collected", "answered"},
             user : User \cup {NoUser},
             inv : Inv \cup {NoInv},
             found : SUBSET Note,
             code : {"none", "ok", "not_found", "error"}]

Free == [pc |-> "free", user |-> NoUser, inv |-> NoInv, found |-> {},
         code |-> "none"]

TypeOK ==
    /\ now \in 0 .. MaxNow
    /\ users \subseteq User
    /\ live \subseteq Inv
    /\ inv \in [Inv -> Investigation]
    /\ notes \subseteq Note
    /\ used \subseteq User \cup Inv \cup Note \cup Token
    /\ req \in [Request -> ReqState]
    /\ promised \in [Token -> Nat]

Init ==
    /\ now = 0
    /\ users = {}
    /\ live = {}
    /\ inv = [i \in Inv |-> Blank]
    /\ notes = {}
    /\ used = {}
    /\ req = [r \in Request |-> Free]
    /\ promised = [t \in Token |-> 0]

-----------------------------------------------------------------------------
(* The graph as the queries see it.                                        *)

\* MATCH (u:User {id: $user_id})-[:OWNS]->(i:Investigation {id: $id})
Owned(u, i) == u \in users /\ i \in live /\ inv[i].owner = u

\* MATCH (e) WHERE e.cpf = $entity_id OR ...: an id may match several nodes.
Named(x) == {e \in Entity : x \in Keys[e]}

Shared(i, t) == i \in live /\ inv[i].token = t /\ t # NoToken

\* The answer, or a 500 when the driver loses the one the database gave.
Answer(r, code) ==
    \E c \in {code, "error"} :
        req' = [req EXCEPT ![r].pc = "answered", ![r].code = c, ![r].found = {}]

Ready(r) == req[r].pc = "authenticated"

\* The request has an investigation id in its path: all but the create do.
Addressed(r) == Ready(r) /\ req[r].inv # NoInv

Mine(r) == Owned(req[r].user, req[r].inv)

\* The query found no path from the user to the investigation.
NothingFound(r, code) ==
    /\ Answer(r, code)
    /\ UNCHANGED <<now, users, live, inv, notes, used, promised>>

-----------------------------------------------------------------------------
(* Users and authentication.                                               *)

\* auth_service.register_user.
Register ==
    \E u \in User \ used :
        /\ users' = users \cup {u}
        /\ used' = used \cup {u}
        /\ UNCHANGED <<now, live, inv, notes, req, promised>>

\* get_current_user: the token names a user that once registered; the node must
\* still be there (401 otherwise, the request ends).
Authenticate(r) ==
    /\ req[r].pc = "free"
    /\ \E u \in users, i \in (Inv \cap used) \cup {NoInv} :
         req' = [req EXCEPT ![r].pc = "authenticated", ![r].user = u, ![r].inv = i]
    /\ UNCHANGED <<now, users, live, inv, notes, used, promised>>

\* The client has its answer.
Close(r) ==
    /\ req[r].pc = "answered"
    /\ req' = [req EXCEPT ![r] = Free]
    /\ UNCHANGED <<now, users, live, inv, notes, used, promised>>

\* The query fails or exceeds its 15 s and is rolled back.
QueryFails(r) ==
    /\ req[r].pc \in {"authenticated", "collected"}
    /\ req' = [req EXCEPT ![r].pc = "answered", ![r].code = "error", ![r].found = {}]
    /\ UNCHANGED <<now, users, live, inv, notes, used, promised>>

-----------------------------------------------------------------------------
(* The queries.                                                            *)

\* investigation_create.cypher CREATEs the node before it MATCHes the user: with
\* the user gone the node stays, unowned, and the answer is a 500.
CreateInvestigation(r) ==
    /\ Ready(r)
    /\ req[r].inv = NoInv
    /\ \E i \in Inv \ used, t \in Title :
         /\ used' = used \cup {i}
         /\ live' = live \cup {i}
         /\ \/ /\ req[r].user \in users
               /\ inv' = [inv EXCEPT ![i].owner = req[r].user, ![i].title = t]
               /\ Answer(r, "ok")
            \/ /\ req[r].user \notin users
               /\ Answer(r, "error")
               /\ UNCHANGED inv
    /\ UNCHANGED <<now, users, notes, promised>>

\* Mutant: the query MERGEs the investigation instead of MATCHing it.
MutUpdateInvestigation(r) ==
    /\ Addressed(r)
    /\ \E t \in Title :
         inv' = [inv EXCEPT ![req[r].inv].title = t,
                            ![req[r].inv].owner = req[r].user]
    /\ live' = live \cup {req[r].inv}
    /\ Answer(r, "ok")
    /\ UNCHANGED <<now, users, notes, used, promised>>

\* investigation_update.cypher: COALESCE keeps what the body leaves out.
UpdateInvestigation(r) ==
    /\ Addressed(r)
    /\ \/ /\ Mine(r)
          /\ \E t \in Title \cup {inv[req[r].inv].title} :
               inv' = [inv EXCEPT ![req[r].inv].title = t]
          /\ Answer(r, "ok")
          /\ UNCHANGED <<now, users, live, notes, used, promised>>
       \/ /\ ~Mine(r)
          /\ NothingFound(r, "not_found")

\* investigation_add_entity.cypher
AddEntity(r) ==
    /\ Addressed(r)
    /\ \E x \in EntityId :
         \/ /\ Mine(r) /\ Named(x) # {}
            /\ inv' = [inv EXCEPT ![req[r].inv].entities = @ \cup Named(x)]
            /\ Answer(r, "ok")
            /\ UNCHANGED <<now, users, live, notes, used, promised>>
         \/ /\ ~Mine(r) \/ Named(x) = {}
            /\ NothingFound(r, "not_found")

\* Mutant: the MATCH of the owner is dropped.
MutRemoveEntity(r) ==
    /\ Addressed(r)
    /\ \E x \in EntityId :
         inv' = [inv EXCEPT ![req[r].inv].entities = @ \ Named(x)]
    /\ Answer(r, "ok")
    /\ UNCHANGED <<now, users, live, notes, used, promised>>

\* investigation_remove_entity.cypher
RemoveEntity(r) ==
    /\ Addressed(r)
    /\ \E x \in EntityId :
         \/ /\ Mine(r) /\ Named(x) \cap inv[req[r].inv].entities # {}
            /\ inv' = [inv EXCEPT ![req[r].inv].entities = @ \ Named(x)]
            /\ Answer(r, "ok")
            /\ UNCHANGED <<now, users, live, notes, used, promised>>
         \/ /\ ~Mine(r) \/ Named(x) \cap inv[req[r].inv].entities = {}
            /\ NothingFound(r, "not_found")

\* annotation_create.cypher and tag_create.cypher; without the investigation the
\* service raises RuntimeError.
CreateNote(r) ==
    /\ Addressed(r)
    /\ \/ /\ Mine(r)
          /\ \E n \in Note \ used :
               /\ used' = used \cup {n}
               /\ notes' = notes \cup {n}
               /\ inv' = [inv EXCEPT ![req[r].inv].notes = @ \cup {n}]
          /\ Answer(r, "ok")
          /\ UNCHANGED <<now, users, live, promised>>
       \/ /\ ~Mine(r)
          /\ NothingFound(r, "error")

\* Mutant: the node goes, its HAS_ANNOTATION or HAS_TAG stays.
MutDeleteNote(r) ==
    /\ Addressed(r)
    /\ \E n \in Note \cap used :
         /\ Mine(r) /\ n \in inv[req[r].inv].notes
         /\ notes' = notes \ {n}
    /\ Answer(r, "ok")
    /\ UNCHANGED <<now, users, live, inv, used, promised>>

\* annotation_delete.cypher and tag_delete.cypher
DeleteNote(r) ==
    /\ Addressed(r)
    /\ \E n \in Note \cap used :
         \/ /\ Mine(r) /\ n \in inv[req[r].inv].notes
            /\ notes' = notes \ {n}
            /\ inv' = [inv EXCEPT ![req[r].inv].notes = @ \ {n}]
            /\ Answer(r, "ok")
            /\ UNCHANGED <<now, users, live, used, promised>>
         \/ /\ ~Mine(r) \/ n \notin inv[req[r].inv].notes
            /\ NothingFound(r, "not_found")

\* Mutant: the token is not drawn afresh.
MutShare(r) ==
    /\ Addressed(r)
    /\ Mine(r)
    /\ \E t \in Token :
         /\ used' = used \cup {t}
         /\ inv' = [inv EXCEPT ![req[r].inv].token = t]
         /\ promised' = [promised EXCEPT ![t] = now + Ttl]
    /\ Answer(r, "ok")
    /\ UNCHANGED <<now, users, live, notes>>

\* generate_share_token: a fresh uuid replaces the token; the expiry it computes
\* is a parameter of investigation_share.cypher that the query does not use.
Share(r) ==
    /\ Addressed(r)
    /\ \/ /\ Mine(r)
          /\ \E t \in Token \ used :
               /\ used' = used \cup {t}
               /\ inv' = [inv EXCEPT ![req[r].inv].token = t]
               /\ promised' = [promised EXCEPT ![t] = now + Ttl]
          /\ Answer(r, "ok")
          /\ UNCHANGED <<now, users, live, notes>>
       \/ /\ ~Mine(r)
          /\ NothingFound(r, "not_found")

\* investigation_share_revoke.cypher
Revoke(r) ==
    /\ Addressed(r)
    /\ \/ /\ Mine(r)
          /\ inv' = [inv EXCEPT ![req[r].inv].token = NoToken]
          /\ Answer(r, "ok")
          /\ UNCHANGED <<now, users, live, notes, used, promised>>
       \/ /\ ~Mine(r)
          /\ NothingFound(r, "not_found")

\* investigation_delete.cypher, MATCH and OPTIONAL MATCH.
DeleteCollect(r) ==
    /\ Addressed(r)
    /\ \/ /\ Mine(r)
          /\ req' = [req EXCEPT ![r].pc = "collected",
                                ![r].found = inv[req[r].inv].notes]
          /\ UNCHANGED <<now, users, live, inv, notes, used, promised>>
       \/ /\ ~Mine(r)
          /\ NothingFound(r, "not_found")

\* Mutant: DETACH DELETE i, a.
MutDeleteCommit(r) ==
    /\ req[r].pc = "collected"
    /\ live' = live \ {req[r].inv}
    /\ notes' = notes \ (req[r].found \cap Annotation)
    /\ inv' = [inv EXCEPT ![req[r].inv] = Blank]
    /\ Answer(r, "ok")
    /\ UNCHANGED <<now, users, used, promised>>

\* DETACH DELETE i, t, a, with the relationships i has by now.  When another
\* request has deleted i meanwhile the database may also refuse.
DeleteCommit(r) ==
    /\ req[r].pc = "collected"
    /\ live' = live \ {req[r].inv}
    /\ notes' = notes \ req[r].found
    /\ inv' = [i \in Inv |->
                 IF i = req[r].inv THEN Blank
                 ELSE [inv[i] EXCEPT !.notes = @ \ req[r].found]]
    /\ Answer(r, "ok")
    /\ UNCHANGED <<now, users, used, promised>>

\* get_by_share_token, open to anybody who has the token.
ReadShared(r) ==
    /\ req[r].pc = "free"
    /\ \E t \in Token \cap used :
         \/ \E i \in live : /\ Shared(i, t)
                            /\ req' = [req EXCEPT ![r].pc = "answered",
                                                  ![r].code = "ok",
                                                  ![r].inv = i]
         \/ /\ \A i \in live : ~Shared(i, t)
            /\ req' = [req EXCEPT ![r].pc = "answered", ![r].code = "not_found"]
    /\ UNCHANGED <<now, users, live, inv, notes, used, promised>>

Serve(r) ==
    \/ CreateInvestigation(r)
    \/ UpdateInvestigation(r)
    \/ AddEntity(r)
    \/ RemoveEntity(r)
    \/ CreateNote(r)
    \/ DeleteNote(r)
    \/ Share(r)
    \/ Revoke(r)
    \/ DeleteCollect(r)
    \/ DeleteCommit(r)
    \/ QueryFails(r)

-----------------------------------------------------------------------------
(* The environment.                                                        *)

\* reset_graph of scripts/run_bootstrap_all.py: MATCH (n) DETACH DELETE n.
Wipe ==
    /\ users # {}
    /\ users' = {}
    /\ live' = {}
    /\ inv' = [i \in Inv |-> Blank]
    /\ notes' = {}
    /\ UNCHANGED <<now, used, req, promised>>

Tick ==
    /\ now < MaxNow
    /\ now' = now + 1
    /\ UNCHANGED <<users, live, inv, notes, used, req, promised>>

Next ==
    \/ Register
    \/ Wipe
    \/ Tick
    \/ \E r \in Request : Authenticate(r) \/ Serve(r) \/ ReadShared(r) \/ Close(r)

Spec == Init /\ [][Next]_vars

-----------------------------------------------------------------------------
(* What the service promises.                                              *)

\* Notes hang on the investigation they were made for: an attached note is a
\* node of the graph and attached once; an investigation that is gone, or that
\* never got its owner because the graph was wiped between the authentication
\* and the query, carries nothing anybody could reach.
WellKept ==
    /\ \A i \in Inv : inv[i].notes \subseteq notes
    /\ \A i, j \in Inv : i # j => inv[i].notes \cap inv[j].notes = {}
    /\ \A i \in Inv : i \notin live \/ inv[i].owner = NoUser => inv[i] = Blank
    /\ \A i \in live : inv[i] # Blank => inv[i].owner \in users

\* get_by_share_token takes the single record of a token, whatever requests
\* share, re-share and revoke at the same time: no two investigations have it.
TokenNamesOne ==
    \A t \in Token : \A i, j \in live : Shared(i, t) /\ Shared(j, t) => i = j

\* A token that was replaced, revoked or deleted never opens anything again.
TokenNeverRevives ==
    [][\A t \in Token \cap used :
         (\E i \in live' : Shared(i, t)') => \E i \in live : Shared(i, t)]_vars

Attached == UNION {inv[i].notes : i \in Inv}

\* Annotations and tags are left without investigation only by a delete that
\* had collected its notes before they were attached.
StrayOnlyByRace ==
    [][\A n \in notes' \ Attached' :
         n \in Attached =>
            \E r \in Request : /\ req[r].pc = "collected"
                              /\ n \in inv[req[r].inv].notes \ req[r].found
                              /\ req[r].inv \notin live']_vars

\* An investigation is changed only by the query of a request its owner made for
\* it, one at a time, unless the whole graph is wiped.
OnlyOwnerWrites ==
    [][users' # {} =>
         \A i \in Inv :
            inv'[i] # inv[i] =>
                \/ i \notin used
                \/ \E r \in Request :
                     /\ req[r].user = inv[i].owner /\ req[r].inv = i
                     /\ req[r].pc # "answered" /\ req'[r].pc = "answered"
                     /\ \A j \in Inv \ {i} : inv'[j] = inv[j]]_vars

\* config.py:29 gives a share link a time to live: it does not open the
\* investigation once the share_expires_at computed for it has passed.
SharedLinkExpires ==
    [][\A r \in Request :
         req[r].pc = "free" /\ req'[r].code = "ok" =>
            now < promised[inv[req'[r].inv].token]]_vars

\* The service implements the book: requests that vanish or interleave, users
\* that vanish and notes that stray cannot be told from atomic operations.
Book == INSTANCE InvestigationBook WITH page <- inv, spent <- used

ImplementsBook == Book!BookSpec
=============================================================================
