--------------------- MODULE InvestigationService_proofs ---------------------
(***************************************************************************)
(* Proofs about InvestigationService: its state is well typed and well     *)
(* kept, share tokens are unambiguous and never revive, only owners change *)
(* an investigation, a delete leaves nothing behind but what came too late *)
(* for it, and the service implements InvestigationBook.                   *)
(*                                                                         *)
(* The inductive invariant adds to WellKept where ids come from: whatever  *)
(* the graph holds was drawn before, so a fresh uuid collides with nothing, *)
(* and what a delete has collected belongs to its own investigation.       *)
(***************************************************************************)
EXTENDS InvestigationService, TLAPS

Drawn ==
    /\ live \subseteq used
    /\ users \subseteq used
    /\ notes \subseteq used
    /\ \A i \in Inv : inv[i].token \in used \cup {NoToken}

TokensApart ==
    \A i, j \in Inv :
        i # j /\ inv[i].token = inv[j].token => inv[i].token = NoToken

CollectedFits ==
    \A r \in Request :
        req[r].pc = "collected" =>
            /\ req[r].inv \in Inv
            /\ req[r].found \subseteq used
            /\ \A j \in Inv : j # req[r].inv => req[r].found \cap inv[j].notes = {}

IndInv ==
    /\ TypeOK
    /\ WellKept
    /\ Drawn
    /\ TokensApart
    /\ CollectedFits

\* What a query does to the requests: one is answered and forgets its notes.
LEMMA AnswerEffect ==
    ASSUME TypeOK, NEW r \in Request, NEW code \in {"ok", "not_found", "error"},
           Answer(r, code)
    PROVE  /\ req' \in [Request -> ReqState]
           /\ req'[r].pc = "answered"
           /\ \A q \in Request : req'[q].pc = "collected" => q # r /\ req'[q] = req[q]
<1>1. PICK c \in {code, "error"} :
         req' = [req EXCEPT ![r].pc = "answered", ![r].code = c, ![r].found = {}]
    BY DEF Answer
<1>2. req \in [Request -> ReqState]
    BY DEF TypeOK
<1>3. req' \in [Request -> ReqState]
    <2>1. c \in {"ok", "not_found", "error"}
        OBVIOUS
    <2>2. [req[r] EXCEPT !.pc = "answered", !.code = c, !.found = {}] \in ReqState
        BY <2>1, <1>2 DEF ReqState
    <2>3. req' = [req EXCEPT ![r] =
                    [req[r] EXCEPT !.pc = "answered", !.code = c, !.found = {}]]
        BY <1>1, <1>2 DEF ReqState
    <2> QED
        BY <2>2, <2>3, <1>2
<1>4. req'[r].pc = "answered"
    BY <1>1, <1>2 DEF ReqState
<1>5. \A q \in Request : q # r => req'[q] = req[q]
    BY <1>1, <1>2
<1> QED
    BY <1>3, <1>4, <1>5

\* A step that leaves the graph alone and adds no collected request.
LEMMA QuietStep ==
    ASSUME IndInv, UNCHANGED <<users, live, inv, notes, used, promised>>,
           now' \in 0 .. MaxNow, req' \in [Request -> ReqState],
           \A q \in Request : req'[q].pc = "collected" => req'[q] = req[q]
    PROVE  IndInv'
<1>1. TypeOK'
    BY DEF IndInv, TypeOK
<1>2. WellKept'
    BY DEF IndInv, WellKept
<1>3. Drawn' /\ TokensApart'
    BY DEF IndInv, Drawn, TokensApart
<1>4. CollectedFits'
    BY DEF IndInv, CollectedFits
<1> QED
    BY <1>1, <1>2, <1>3, <1>4 DEF IndInv

LEMMA InitEstablishes == Init => IndInv
<1> SUFFICES ASSUME Init
             PROVE  IndInv
    OBVIOUS
<1> USE InvestigationAssumption
<1>1. TypeOK
    BY DEF Init, TypeOK, Blank, Investigation, Free, ReqState
<1>2. WellKept
    BY DEF Init, WellKept, Blank
<1>3. Drawn /\ TokensApart
    BY DEF Init, Drawn, TokensApart, Blank
<1>4. CollectedFits
    BY DEF Init, CollectedFits, Free
<1> QED
    BY <1>1, <1>2, <1>3, <1>4 DEF IndInv

\* Steps on one investigation that its owner is entitled to.
LEMMA OwnerStep ==
    ASSUME IndInv, NEW r \in Request, Mine(r),
           NEW page \in Investigation, page.owner = inv[req[r].inv].owner,
           inv' = [inv EXCEPT ![req[r].inv] = page],
           used \subseteq used', used' \subseteq User \cup Inv \cup Note \cup Token,
           page.notes \subseteq notes', notes' \subseteq used', notes' \subseteq Note,
           notes \ notes' \subseteq inv[req[r].inv].notes,
           \A n \in page.notes : n \in inv[req[r].inv].notes \/ n \notin used,
           page.token \in {inv[req[r].inv].token, NoToken} \cup (used' \ used),
           promised' \in [Token -> Nat],
           UNCHANGED <<now, users, live>>,
           Answer(r, "ok")
    PROVE  IndInv'
<1> USE InvestigationAssumption
<1> DEFINE k == req[r].inv
<1>1. k \in live /\ k \in Inv /\ inv[k].owner \in users /\ inv[k].owner # NoUser
    BY DEF Mine, Owned, IndInv, TypeOK
<1>2. inv \in [Inv -> Investigation]
    BY DEF IndInv, TypeOK
<1>3. inv'[k] = page /\ \A j \in Inv : j # k => inv'[j] = inv[j]
    BY <1>1, <1>2
<1>4. inv' \in [Inv -> Investigation]
    BY <1>1, <1>2
<1>5. TypeOK'
    <2>1. TypeOK
        BY DEF IndInv
    <2>2. req' \in [Request -> ReqState]
        BY <2>1, AnswerEffect
    <2> QED
        BY <1>4, <2>1, <2>2 DEF TypeOK
<1>6. WellKept'
    <2>1. WellKept /\ Drawn
        BY DEF IndInv
    <2>2. ASSUME NEW i \in Inv
          PROVE  inv'[i].notes \subseteq notes'
        <3>1. CASE i = k
            BY <3>1, <1>3
        <3>2. CASE i # k
            BY <3>2, <1>1, <1>3, <2>1 DEF WellKept
        <3> QED
            BY <3>1, <3>2
    <2>3. ASSUME NEW i \in Inv, NEW j \in Inv, i # j
          PROVE  inv'[i].notes \cap inv'[j].notes = {}
        <3>1. CASE i # k /\ j # k
            BY <3>1, <1>3, <2>1, <2>3 DEF WellKept
        <3>2. ASSUME NEW l \in Inv, l # k
              PROVE  page.notes \cap inv[l].notes = {}
            <4>1. inv[l].notes \subseteq used
                BY <2>1 DEF WellKept, Drawn
            <4>2. inv[k].notes \cap inv[l].notes = {}
                BY <3>2, <1>1, <2>1 DEF WellKept
            <4> QED
                BY <4>1, <4>2
        <3> QED
            BY <3>1, <3>2, <1>3, <2>3
    <2>4. ASSUME NEW i \in Inv, i \notin live \/ inv'[i].owner = NoUser
          PROVE  inv'[i] = Blank
        <3>1. i # k
            BY <1>1, <1>3, <2>4
        <3> QED
            BY <3>1, <1>3, <2>1, <2>4 DEF WellKept
    <2>5. ASSUME NEW i \in live, inv'[i] # Blank
          PROVE  inv'[i].owner \in users
        <3>1. i \in Inv
            BY DEF IndInv, TypeOK
        <3>2. CASE i = k
            BY <3>2, <1>1, <1>3
        <3>3. CASE i # k
            BY <3>1, <3>3, <1>3, <2>1, <2>5 DEF WellKept
        <3> QED
            BY <3>2, <3>3
    <2> QED
        BY <2>2, <2>3, <2>4, <2>5 DEF WellKept, Blank
<1>7. Drawn'
    <2>1. \A i \in Inv : inv[i].token \in used \cup {NoToken}
        BY DEF IndInv, Drawn
    <2>2. \A i \in Inv : inv'[i].token \in used' \cup {NoToken}
        BY <1>1, <1>3, <2>1
    <2> QED
        BY <2>2 DEF IndInv, Drawn
<1>8. TokensApart'
    <2>1. TokensApart /\ Drawn
        BY DEF IndInv
    <2>2. ASSUME NEW j \in Inv, j # k, page.token = inv[j].token
          PROVE  page.token = NoToken
        <3>1. CASE page.token = inv[k].token
            BY <3>1, <2>1, <2>2, <1>1 DEF TokensApart
        <3>2. CASE page.token \in used' \ used
            BY <3>2, <2>1, <2>2 DEF Drawn
        <3> QED
            BY <3>1, <3>2
    <2>3. ASSUME NEW i \in Inv, NEW j \in Inv, i # j, inv'[i].token = inv'[j].token
          PROVE  inv'[i].token = NoToken
        <3>1. CASE i = k
            BY <3>1, <2>2, <2>3, <1>3
        <3>2. CASE j = k
            BY <3>2, <2>2, <2>3, <1>3
        <3>3. CASE i # k /\ j # k
            BY <3>3, <2>1, <2>3, <1>3 DEF TokensApart
        <3> QED
            BY <3>1, <3>2, <3>3
    <2> QED
        BY <2>3 DEF TokensApart
<1>9. CollectedFits'
    <2> SUFFICES ASSUME NEW q \in Request, req'[q].pc = "collected"
                 PROVE  /\ req'[q].inv \in Inv
                        /\ req'[q].found \subseteq used'
                        /\ \A j \in Inv : j # req'[q].inv =>
                              req'[q].found \cap inv'[j].notes = {}
        BY DEF CollectedFits
    <2>1. TypeOK /\ CollectedFits
        BY DEF IndInv
    <2>2. req'[q] = req[q]
        BY <2>1, AnswerEffect
    <2>3. /\ req[q].inv \in Inv
          /\ req[q].found \subseteq used
          /\ \A j \in Inv : j # req[q].inv => req[q].found \cap inv[j].notes = {}
        BY <2>1, <2>2 DEF CollectedFits
    <2>4. ASSUME NEW j \in Inv, j # req[q].inv
          PROVE  req[q].found \cap inv'[j].notes = {}
        <3>1. CASE j = k
            BY <3>1, <2>3, <2>4, <1>3
        <3>2. CASE j # k
            BY <3>2, <2>3, <2>4, <1>3
        <3> QED
            BY <3>1, <3>2
    <2> QED
        BY <2>2, <2>3, <2>4
<1> QED
    BY <1>5, <1>6, <1>7, <1>8, <1>9 DEF IndInv

\* A query whose MATCH found nothing: only its request is answered.
LEMMA NothingFoundStep ==
    ASSUME IndInv, NEW r \in Request, NEW code \in {"ok", "not_found", "error"},
           NothingFound(r, code)
    PROVE  IndInv'
<1>1. TypeOK /\ Answer(r, code)
    BY DEF IndInv, NothingFound
<1>2. /\ req' \in [Request -> ReqState]
      /\ \A q \in Request : req'[q].pc = "collected" => req'[q] = req[q]
    BY <1>1, AnswerEffect
<1>3. now' \in 0 .. MaxNow
    BY <1>1 DEF NothingFound, TypeOK
<1> QED
    BY <1>2, <1>3, QuietStep DEF NothingFound

LEMMA MineIsPage ==
    ASSUME IndInv, NEW r \in Request, Mine(r)
    PROVE  /\ req[r].inv \in live /\ req[r].inv \in Inv
           /\ inv[req[r].inv] \in Investigation
           /\ inv[req[r].inv].owner = req[r].user
           /\ req[r].user \in users /\ req[r].user \in User
           /\ inv[req[r].inv].notes \subseteq notes
           /\ notes \subseteq used /\ notes \subseteq Note
    BY DEF Mine, Owned, IndInv, TypeOK, WellKept, Drawn

\* The inputs of OwnerStep that no query but those on notes and tokens changes.
LEMMA PlainOwnerStep ==
    ASSUME IndInv, NEW r \in Request, Mine(r),
           NEW page \in Investigation,
           page.owner = inv[req[r].inv].owner,
           page.notes = inv[req[r].inv].notes,
           page.token \in {inv[req[r].inv].token, NoToken},
           inv' = [inv EXCEPT ![req[r].inv] = page],
           UNCHANGED <<now, users, live, notes, used, promised>>,
           Answer(r, "ok")
    PROVE  IndInv'
<1>1. /\ page.notes \subseteq notes' /\ notes' \subseteq used' /\ notes' \subseteq Note
      /\ notes \ notes' = {}
    BY MineIsPage
<1>2. used' \subseteq User \cup Inv \cup Note \cup Token /\ promised' \in [Token -> Nat]
    BY DEF IndInv, TypeOK
<1> QED
    BY <1>1, <1>2, OwnerStep

-----------------------------------------------------------------------------
(* One lemma per action.                                                   *)

LEMMA RegisterStep == ASSUME IndInv, Register PROVE IndInv'
<1>1. PICK u \in User \ used : users' = users \cup {u} /\ used' = used \cup {u}
    BY DEF Register
<1>2. TypeOK'
    BY <1>1 DEF Register, IndInv, TypeOK
<1>3. WellKept'
    BY <1>1 DEF Register, IndInv, WellKept, Blank
<1>4. Drawn' /\ TokensApart'
    BY <1>1 DEF Register, IndInv, Drawn, TokensApart
<1>5. CollectedFits'
    BY <1>1 DEF Register, IndInv, CollectedFits
<1> QED
    BY <1>2, <1>3, <1>4, <1>5 DEF IndInv

LEMMA AuthenticateStep ==
    ASSUME IndInv, NEW r \in Request, Authenticate(r) PROVE IndInv'
<1>1. PICK u \in users, i \in (Inv \cap used) \cup {NoInv} :
         req' = [req EXCEPT ![r].pc = "authenticated", ![r].user = u, ![r].inv = i]
    BY DEF Authenticate
<1>2. req \in [Request -> ReqState] /\ u \in User /\ i \in Inv \cup {NoInv}
    BY DEF IndInv, TypeOK
<1>3. [req[r] EXCEPT !.pc = "authenticated", !.user = u, !.inv = i] \in ReqState
    BY <1>2 DEF ReqState
<1>4. req' = [req EXCEPT ![r] =
                [req[r] EXCEPT !.pc = "authenticated", !.user = u, !.inv = i]]
    BY <1>1, <1>2 DEF ReqState
<1>5. req' \in [Request -> ReqState]
    BY <1>2, <1>3, <1>4
<1>6. \A q \in Request : req'[q].pc = "collected" => req'[q] = req[q]
    BY <1>2, <1>4 DEF ReqState
<1> QED
    BY <1>5, <1>6, QuietStep DEF Authenticate, IndInv, TypeOK

LEMMA CloseStep ==
    ASSUME IndInv, NEW r \in Request, Close(r) PROVE IndInv'
<1>1. req \in [Request -> ReqState] /\ Free \in ReqState
    BY DEF IndInv, TypeOK, ReqState, Free
<1>2. req' \in [Request -> ReqState]
    BY <1>1 DEF Close
<1>3. \A q \in Request : req'[q].pc = "collected" => req'[q] = req[q]
    BY <1>1 DEF Close, Free
<1> QED
    BY <1>2, <1>3, QuietStep DEF Close, IndInv, TypeOK

LEMMA QueryFailsStep ==
    ASSUME IndInv, NEW r \in Request, QueryFails(r) PROVE IndInv'
<1>1. TypeOK /\ Answer(r, "error")
    BY DEF QueryFails, Answer, IndInv
<1>2. /\ req' \in [Request -> ReqState]
      /\ \A q \in Request : req'[q].pc = "collected" => req'[q] = req[q]
    BY <1>1, AnswerEffect
<1> QED
    BY <1>1, <1>2, QuietStep DEF QueryFails, TypeOK

LEMMA ReadSharedStep ==
    ASSUME IndInv, NEW r \in Request, ReadShared(r) PROVE IndInv'
<1>1. req \in [Request -> ReqState] /\ live \subseteq Inv
    BY DEF IndInv, TypeOK
<1>2. PICK code \in {"ok", "not_found"}, i \in Inv \cup {NoInv} :
         req' = [req EXCEPT ![r] = [req[r] EXCEPT !.pc = "answered", !.code = code,
                                                  !.inv = i]]
    <2>1. CASE \E i \in live : req' = [req EXCEPT ![r].pc = "answered",
                                                  ![r].code = "ok", ![r].inv = i]
        BY <2>1, <1>1 DEF ReqState
    <2>2. CASE req' = [req EXCEPT ![r].pc = "answered", ![r].code = "not_found"]
        <3>1. req[r].inv \in Inv \cup {NoInv} /\ req[r] \in ReqState
            BY <1>1 DEF ReqState
        <3>2. [req[r] EXCEPT !.pc = "answered", !.code = "not_found"]
                = [req[r] EXCEPT !.pc = "answered", !.code = "not_found",
                                 !.inv = req[r].inv]
            BY <3>1 DEF ReqState
        <3> QED
            BY <2>2, <1>1, <3>1, <3>2
    <2> QED
        BY <2>1, <2>2 DEF ReadShared
<1>3. [req[r] EXCEPT !.pc = "answered", !.code = code, !.inv = i] \in ReqState
    BY <1>1 DEF ReqState
<1>4. req' \in [Request -> ReqState]
    BY <1>1, <1>2, <1>3
<1>5. \A q \in Request : req'[q].pc = "collected" => req'[q] = req[q]
    BY <1>1, <1>2 DEF ReqState
<1> QED
    BY <1>4, <1>5, QuietStep DEF ReadShared, IndInv, TypeOK

LEMMA WipeStep == ASSUME IndInv, Wipe PROVE IndInv'
<1> USE InvestigationAssumption
<1>1. TypeOK'
    BY DEF Wipe, IndInv, TypeOK, Blank, Investigation
<1>2. WellKept'
    BY DEF Wipe, WellKept, Blank
<1>3. Drawn' /\ TokensApart'
    BY DEF Wipe, IndInv, Drawn, TokensApart, Blank
<1>4. CollectedFits'
    BY DEF Wipe, IndInv, CollectedFits, Blank
<1> QED
    BY <1>1, <1>2, <1>3, <1>4 DEF IndInv

LEMMA TickStep == ASSUME IndInv, Tick PROVE IndInv'
<1> USE InvestigationAssumption
<1>1. now' \in 0 .. MaxNow
    BY DEF Tick, IndInv, TypeOK
<1> QED
    BY <1>1, QuietStep DEF Tick, IndInv, TypeOK

LEMMA UpdateStep ==
    ASSUME IndInv, NEW r \in Request, UpdateInvestigation(r) PROVE IndInv'
<1>1. CASE NothingFound(r, "not_found")
    BY <1>1, NothingFoundStep
<1>2. CASE Mine(r) /\ ~NothingFound(r, "not_found")
    <2> DEFINE k == req[r].inv
    <2>1. PICK t \in Title \cup {inv[k].title} : inv' = [inv EXCEPT ![k].title = t]
        BY <1>2 DEF UpdateInvestigation
    <2>2. inv[k] \in Investigation /\ inv \in [Inv -> Investigation] /\ k \in Inv
        BY <1>2, MineIsPage DEF IndInv, TypeOK
    <2>3. [inv[k] EXCEPT !.title = t] \in Investigation
        BY <2>2 DEF Investigation
    <2>4. inv' = [inv EXCEPT ![k] = [inv[k] EXCEPT !.title = t]]
        BY <2>1, <2>2
    <2> QED
        BY <1>2, <2>2, <2>3, <2>4, PlainOwnerStep DEF UpdateInvestigation, Investigation
<1> QED
    BY <1>1, <1>2 DEF UpdateInvestigation

LEMMA AddEntityStep ==
    ASSUME IndInv, NEW r \in Request, AddEntity(r) PROVE IndInv'
<1>1. CASE NothingFound(r, "not_found")
    BY <1>1, NothingFoundStep
<1>2. CASE Mine(r) /\ ~NothingFound(r, "not_found")
    <2> DEFINE k == req[r].inv
    <2>1. PICK x \in EntityId : inv' = [inv EXCEPT ![k].entities = @ \cup Named(x)]
        BY <1>2 DEF AddEntity
    <2>2. inv[k] \in Investigation /\ inv \in [Inv -> Investigation] /\ k \in Inv
        BY <1>2, MineIsPage DEF IndInv, TypeOK
    <2>3. [inv[k] EXCEPT !.entities = inv[k].entities \cup Named(x)] \in Investigation
        BY <2>2 DEF Investigation, Named
    <2>4. inv' = [inv EXCEPT ![k] =
                    [inv[k] EXCEPT !.entities = inv[k].entities \cup Named(x)]]
        BY <2>1, <2>2
    <2> QED
        BY <1>2, <2>2, <2>3, <2>4, PlainOwnerStep DEF AddEntity, Investigation
<1> QED
    BY <1>1, <1>2 DEF AddEntity

LEMMA RemoveEntityStep ==
    ASSUME IndInv, NEW r \in Request, RemoveEntity(r) PROVE IndInv'
<1>1. CASE NothingFound(r, "not_found")
    BY <1>1, NothingFoundStep
<1>2. CASE Mine(r) /\ ~NothingFound(r, "not_found")
    <2> DEFINE k == req[r].inv
    <2>1. PICK x \in EntityId : inv' = [inv EXCEPT ![k].entities = @ \ Named(x)]
        BY <1>2 DEF RemoveEntity
    <2>2. inv[k] \in Investigation /\ inv \in [Inv -> Investigation] /\ k \in Inv
        BY <1>2, MineIsPage DEF IndInv, TypeOK
    <2>3. [inv[k] EXCEPT !.entities = inv[k].entities \ Named(x)] \in Investigation
        BY <2>2 DEF Investigation
    <2>4. inv' = [inv EXCEPT ![k] =
                    [inv[k] EXCEPT !.entities = inv[k].entities \ Named(x)]]
        BY <2>1, <2>2
    <2> QED
        BY <1>2, <2>2, <2>3, <2>4, PlainOwnerStep DEF RemoveEntity, Investigation
<1> QED
    BY <1>1, <1>2 DEF RemoveEntity

LEMMA RevokeStep ==
    ASSUME IndInv, NEW r \in Request, Revoke(r) PROVE IndInv'
<1>1. CASE NothingFound(r, "not_found")
    BY <1>1, NothingFoundStep
<1>2. CASE Mine(r) /\ ~NothingFound(r, "not_found")
    <2> DEFINE k == req[r].inv
    <2>1. inv' = [inv EXCEPT ![k].token = NoToken]
        BY <1>2 DEF Revoke
    <2>2. inv[k] \in Investigation /\ inv \in [Inv -> Investigation] /\ k \in Inv
        BY <1>2, MineIsPage DEF IndInv, TypeOK
    <2>3. [inv[k] EXCEPT !.token = NoToken] \in Investigation
        BY <2>2 DEF Investigation
    <2>4. inv' = [inv EXCEPT ![k] = [inv[k] EXCEPT !.token = NoToken]]
        BY <2>1, <2>2
    <2> QED
        BY <1>2, <2>2, <2>3, <2>4, PlainOwnerStep DEF Revoke, Investigation
<1> QED
    BY <1>1, <1>2 DEF Revoke
LEMMA CreateNoteStep ==
    ASSUME IndInv, NEW r \in Request, CreateNote(r) PROVE IndInv'
<1>1. CASE NothingFound(r, "error")
    BY <1>1, NothingFoundStep
<1>2. CASE Mine(r) /\ ~NothingFound(r, "error")
    <2> DEFINE k == req[r].inv
    <2>1. PICK n \in Note \ used :
             /\ used' = used \cup {n}
             /\ notes' = notes \cup {n}
             /\ inv' = [inv EXCEPT ![k].notes = @ \cup {n}]
        BY <1>2 DEF CreateNote
    <2> DEFINE page == [inv[k] EXCEPT !.notes = inv[k].notes \cup {n}]
    <2>2. inv[k] \in Investigation /\ inv \in [Inv -> Investigation] /\ k \in Inv
        BY <1>2, MineIsPage DEF IndInv, TypeOK
    <2>3. /\ page \in Investigation
          /\ page.owner = inv[k].owner
          /\ page.notes = inv[k].notes \cup {n}
          /\ page.token = inv[k].token
        BY <2>2 DEF Investigation
    <2>4. inv' = [inv EXCEPT ![k] = page]
        BY <2>1, <2>2
    <2>5. /\ used \subseteq used'
          /\ used' \subseteq User \cup Inv \cup Note \cup Token
          /\ notes' \subseteq used' /\ notes' \subseteq Note
          /\ notes \ notes' = {}
          /\ page.notes \subseteq notes'
        BY <1>2, <2>1, <2>3, MineIsPage DEF IndInv, TypeOK
    <2>6. \A m \in page.notes : m \in inv[k].notes \/ m \notin used
        BY <2>1, <2>3
    <2>7. promised' \in [Token -> Nat] /\ UNCHANGED <<now, users, live>> /\ Answer(r, "ok")
        BY <1>2 DEF CreateNote, IndInv, TypeOK
    <2> HIDE DEF page
    <2> QED
        BY <1>2, <2>3, <2>4, <2>5, <2>6, <2>7, OwnerStep
<1> QED
    BY <1>1, <1>2 DEF CreateNote

LEMMA DeleteNoteStep ==
    ASSUME IndInv, NEW r \in Request, DeleteNote(r) PROVE IndInv'
<1>1. CASE NothingFound(r, "not_found")
    BY <1>1, NothingFoundStep
<1>2. CASE Mine(r) /\ ~NothingFound(r, "not_found")
    <2> DEFINE k == req[r].inv
    <2>1. PICK n \in Note \cap used :
             /\ n \in inv[k].notes
             /\ notes' = notes \ {n}
             /\ inv' = [inv EXCEPT ![k].notes = @ \ {n}]
             /\ Answer(r, "ok")
             /\ UNCHANGED <<now, users, live, used, promised>>
        BY <1>2 DEF DeleteNote
    <2> DEFINE page == [inv[k] EXCEPT !.notes = inv[k].notes \ {n}]
    <2>2. inv[k] \in Investigation /\ inv \in [Inv -> Investigation] /\ k \in Inv
        BY <1>2, MineIsPage DEF IndInv, TypeOK
    <2>3. /\ page \in Investigation
          /\ page.owner = inv[k].owner
          /\ page.notes = inv[k].notes \ {n}
          /\ page.token = inv[k].token
        BY <2>2 DEF Investigation
    <2>4. inv' = [inv EXCEPT ![k] = page]
        BY <2>1, <2>2
    <2>5. /\ notes' \subseteq used' /\ notes' \subseteq Note
          /\ notes \ notes' \subseteq inv[k].notes
          /\ page.notes \subseteq notes'
        BY <1>2, <2>1, <2>3, MineIsPage
    <2>6. /\ promised' \in [Token -> Nat]
          /\ used' \subseteq User \cup Inv \cup Note \cup Token
        BY <2>1 DEF IndInv, TypeOK
    <2>7. \A m \in page.notes : m \in inv[k].notes
        BY <2>3
    <2> HIDE DEF page
    <2> QED
        BY <1>2, <2>1, <2>3, <2>4, <2>5, <2>6, <2>7, OwnerStep
<1> QED
    BY <1>1, <1>2 DEF DeleteNote

LEMMA ShareStep ==
    ASSUME IndInv, NEW r \in Request, Share(r) PROVE IndInv'
<1>1. CASE NothingFound(r, "not_found")
    BY <1>1, NothingFoundStep
<1>2. CASE Mine(r) /\ ~NothingFound(r, "not_found")
    <2> DEFINE k == req[r].inv
    <2>1. PICK t \in Token \ used :
             /\ used' = used \cup {t}
             /\ inv' = [inv EXCEPT ![k].token = t]
             /\ promised' = [promised EXCEPT ![t] = now + Ttl]
        BY <1>2 DEF Share
    <2> DEFINE page == [inv[k] EXCEPT !.token = t]
    <2>2. inv[k] \in Investigation /\ inv \in [Inv -> Investigation] /\ k \in Inv
        BY <1>2, MineIsPage DEF IndInv, TypeOK
    <2>3. /\ page \in Investigation
          /\ page.owner = inv[k].owner
          /\ page.notes = inv[k].notes
          /\ page.token = t
        BY <2>2 DEF Investigation
    <2>4. inv' = [inv EXCEPT ![k] = page]
        BY <2>1, <2>2
    <2>5. promised' \in [Token -> Nat]
        <3>1. now + Ttl \in Nat
            BY InvestigationAssumption DEF IndInv, TypeOK
        <3> QED
            BY <2>1, <3>1 DEF IndInv, TypeOK
    <2>6. UNCHANGED <<now, users, live, notes>> /\ Answer(r, "ok")
        BY <1>2 DEF Share
    <2>7. /\ used \subseteq used'
          /\ used' \subseteq User \cup Inv \cup Note \cup Token
          /\ notes' \subseteq used' /\ notes' \subseteq Note
          /\ notes \ notes' = {}
          /\ page.notes \subseteq notes'
          /\ page.token \in used' \ used
        BY <1>2, <2>1, <2>3, <2>6, MineIsPage DEF IndInv, TypeOK
    <2>8. \A m \in page.notes : m \in inv[k].notes
        BY <2>3
    <2> HIDE DEF page
    <2> QED
        BY <1>2, <2>3, <2>4, <2>5, <2>6, <2>7, <2>8, OwnerStep
<1> QED
    BY <1>1, <1>2 DEF Share

LEMMA CreateStep ==
    ASSUME IndInv, NEW r \in Request, CreateInvestigation(r) PROVE IndInv'
<1> USE InvestigationAssumption
<1>1. PICK i \in Inv \ used, t \in Title :
         /\ used' = used \cup {i}
         /\ live' = live \cup {i}
         /\ \/ /\ req[r].user \in users
               /\ inv' = [inv EXCEPT ![i].owner = req[r].user, ![i].title = t]
            \/ /\ req[r].user \notin users
               /\ UNCHANGED inv
    BY DEF CreateInvestigation
<1>2. /\ TypeOK /\ WellKept /\ Drawn /\ TokensApart /\ CollectedFits
      /\ inv \in [Inv -> Investigation]
      /\ inv[i] = Blank
      /\ UNCHANGED <<now, users, notes, promised>>
    BY <1>1 DEF IndInv, WellKept, Drawn, CreateInvestigation, TypeOK
<1> DEFINE page == [Blank EXCEPT !.owner = req[r].user, !.title = t]
<1>3. \/ /\ req[r].user \in users
         /\ page \in Investigation
         /\ page.owner = req[r].user /\ page.notes = {} /\ page.token = NoToken
         /\ inv' = [inv EXCEPT ![i] = page]
      \/ UNCHANGED inv
    <2>1. CASE req[r].user \in users
        <3>1. page \in Investigation /\ page.owner = req[r].user
                /\ page.notes = {} /\ page.token = NoToken
            BY <2>1, <1>2 DEF Blank, Investigation, TypeOK
        <3>2. inv' = [inv EXCEPT ![i] = page]
            BY <2>1, <1>1, <1>2
        <3> QED
            BY <2>1, <3>1, <3>2
    <2>2. CASE req[r].user \notin users
        BY <2>2, <1>1
    <2> QED
        BY <2>1, <2>2
<1> HIDE DEF page
<1>4. /\ inv' \in [Inv -> Investigation]
      /\ \A j \in Inv : j # i => inv'[j] = inv[j]
      /\ inv'[i].notes = {} /\ inv'[i].token = NoToken
      /\ inv'[i] = Blank \/ (inv'[i].owner \in users /\ i \in live')
    BY <1>1, <1>2, <1>3 DEF Blank
<1>5. /\ req' \in [Request -> ReqState]
      /\ \A q \in Request : req'[q].pc = "collected" => req'[q] = req[q]
    BY <1>2, AnswerEffect DEF CreateInvestigation
<1>6. TypeOK'
    BY <1>1, <1>2, <1>4, <1>5 DEF TypeOK
<1>7. WellKept'
    <2>1. ASSUME NEW j \in Inv
          PROVE  /\ inv'[j].notes \subseteq notes
                 /\ inv'[j].notes = {} \/ inv'[j].notes = inv[j].notes
        BY <1>2, <1>4 DEF WellKept
    <2>2. \A j, l \in Inv : j # l => inv'[j].notes \cap inv'[l].notes = {}
        BY <2>1, <1>2 DEF WellKept
    <2>3. ASSUME NEW j \in Inv, j \notin live' \/ inv'[j].owner = NoUser
          PROVE  inv'[j] = Blank
        <3>1. CASE j = i
            BY <3>1, <2>3, <1>4, <1>2 DEF TypeOK
        <3>2. CASE j # i
            BY <3>2, <2>3, <1>1, <1>2, <1>4 DEF WellKept
        <3> QED
            BY <3>1, <3>2
    <2>4. ASSUME NEW j \in live', inv'[j] # Blank
          PROVE  inv'[j].owner \in users
        <3>1. CASE j = i
            BY <3>1, <2>4, <1>4
        <3>2. CASE j # i
            BY <3>2, <2>4, <1>1, <1>2, <1>4 DEF WellKept, TypeOK
        <3> QED
            BY <3>1, <3>2
    <2> QED
        BY <2>1, <2>2, <2>3, <2>4, <1>2 DEF WellKept, Blank
<1>8. Drawn'
    BY <1>1, <1>2, <1>4 DEF Drawn
<1>9. TokensApart'
    BY <1>2, <1>4 DEF TokensApart
<1>10. CollectedFits'
    BY <1>1, <1>2, <1>4, <1>5 DEF CollectedFits
<1> QED
    BY <1>6, <1>7, <1>8, <1>9, <1>10 DEF IndInv

LEMMA DeleteCollectStep ==
    ASSUME IndInv, NEW r \in Request, DeleteCollect(r) PROVE IndInv'
<1>1. CASE NothingFound(r, "not_found")
    BY <1>1, NothingFoundStep
<1>2. CASE Mine(r) /\ ~NothingFound(r, "not_found")
    <2> DEFINE k == req[r].inv
    <2>1. /\ req' = [req EXCEPT ![r].pc = "collected", ![r].found = inv[k].notes]
          /\ UNCHANGED <<now, users, live, inv, notes, used, promised>>
        BY <1>2 DEF DeleteCollect
    <2>2. /\ TypeOK /\ WellKept /\ Drawn /\ CollectedFits
          /\ req \in [Request -> ReqState] /\ k \in Inv
          /\ inv[k].notes \subseteq Note /\ inv[k].notes \subseteq used
        BY <1>2, MineIsPage DEF IndInv, TypeOK
    <2> DEFINE q0 == [req[r] EXCEPT !.pc = "collected", !.found = inv[k].notes]
    <2>3. /\ q0 \in ReqState /\ q0.inv = k /\ q0.found = inv[k].notes
          /\ req' = [req EXCEPT ![r] = q0]
        BY <2>1, <2>2 DEF ReqState
    <2> HIDE DEF q0
    <2>4. TypeOK'
        BY <2>1, <2>2, <2>3 DEF TypeOK
    <2>5. WellKept' /\ Drawn' /\ TokensApart'
        BY <2>1 DEF IndInv, WellKept, Drawn, TokensApart
    <2>6. \A j \in Inv : j # k => inv[k].notes \cap inv[j].notes = {}
        BY <2>2 DEF WellKept
    <2>7. CollectedFits'
        <3> SUFFICES ASSUME NEW q \in Request, req'[q].pc = "collected"
                     PROVE  /\ req'[q].inv \in Inv
                            /\ req'[q].found \subseteq used
                            /\ \A j \in Inv : j # req'[q].inv =>
                                  req'[q].found \cap inv[j].notes = {}
            BY <2>1 DEF CollectedFits
        <3>1. CASE q = r
            BY <3>1, <2>2, <2>3, <2>6
        <3>2. CASE q # r
            BY <3>2, <2>2, <2>3 DEF CollectedFits
        <3> QED
            BY <3>1, <3>2
    <2> QED
        BY <2>4, <2>5, <2>7 DEF IndInv
<1> QED
    BY <1>1, <1>2 DEF DeleteCollect

\* The notes a delete has collected are nobody else's: deleting blanks one page.
LEMMA DeleteBlanks ==
    ASSUME IndInv, NEW r \in Request, DeleteCommit(r)
    PROVE  /\ req[r].inv \in Inv
           /\ inv' = [inv EXCEPT ![req[r].inv] = Blank]
<1> DEFINE k == req[r].inv
<1>1. /\ k \in Inv
      /\ \A j \in Inv : j # k => req[r].found \cap inv[j].notes = {}
    BY DEF DeleteCommit, IndInv, CollectedFits
<1>2. inv \in [Inv -> Investigation]
    BY DEF IndInv, TypeOK
<1>3. ASSUME NEW j \in Inv, j # k
      PROVE  [inv[j] EXCEPT !.notes = inv[j].notes \ req[r].found] = inv[j]
    <2>1. inv[j].notes \ req[r].found = inv[j].notes
        BY <1>1, <1>3
    <2>2. inv[j] \in Investigation
        BY <1>2
    <2> QED
        BY <2>1, <2>2 DEF Investigation
<1>4. inv' = [j \in Inv |->
                IF j = k THEN Blank
                ELSE [inv[j] EXCEPT !.notes = inv[j].notes \ req[r].found]]
    BY DEF DeleteCommit
<1>5. inv' = [j \in Inv |-> IF j = k THEN Blank ELSE inv[j]]
    BY <1>3, <1>4
<1> QED
    BY <1>1, <1>2, <1>5

LEMMA DeleteCommitStep ==
    ASSUME IndInv, NEW r \in Request, DeleteCommit(r) PROVE IndInv'
<1> USE InvestigationAssumption
<1> DEFINE k == req[r].inv
<1>1. /\ k \in Inv /\ inv' = [inv EXCEPT ![k] = Blank]
      /\ live' = live \ {k}
      /\ notes' = notes \ req[r].found
      /\ UNCHANGED <<now, users, used, promised>>
    BY DeleteBlanks DEF DeleteCommit
<1>2. /\ TypeOK /\ WellKept /\ Drawn /\ TokensApart /\ CollectedFits
      /\ inv \in [Inv -> Investigation] /\ Blank \in Investigation
    BY DEF IndInv, TypeOK, Blank, Investigation
<1>3. /\ req' \in [Request -> ReqState]
      /\ \A q \in Request : req'[q].pc = "collected" => req'[q] = req[q]
    BY <1>2, AnswerEffect DEF DeleteCommit
<1>4. /\ inv'[k] = Blank
      /\ \A j \in Inv : j # k => inv'[j] = inv[j]
      /\ \A j \in Inv : j # k => req[r].found \cap inv[j].notes = {}
    BY <1>1, <1>2 DEF CollectedFits, DeleteCommit
<1>5. TypeOK'
    BY <1>1, <1>2, <1>3 DEF TypeOK
<1>6. WellKept'
    <2>1. ASSUME NEW j \in Inv
          PROVE  /\ inv'[j].notes \subseteq notes'
                 /\ inv'[j].notes \subseteq inv[j].notes
        <3>1. CASE j = k
            BY <3>1, <1>4 DEF Blank
        <3>2. CASE j # k
            BY <3>2, <1>1, <1>2, <1>4 DEF WellKept
        <3> QED
            BY <3>1, <3>2
    <2>2. \A j, l \in Inv : j # l => inv'[j].notes \cap inv'[l].notes = {}
        BY <2>1, <1>2 DEF WellKept
    <2>3. ASSUME NEW j \in Inv, j \notin live' \/ inv'[j].owner = NoUser
          PROVE  inv'[j] = Blank
        BY <2>3, <1>1, <1>2, <1>4 DEF WellKept
    <2>4. ASSUME NEW j \in live', inv'[j] # Blank
          PROVE  inv'[j].owner \in users
        BY <2>4, <1>1, <1>2, <1>4 DEF WellKept, TypeOK
    <2> QED
        BY <2>1, <2>2, <2>3, <2>4, <1>1 DEF WellKept, Blank
<1>7. Drawn'
    BY <1>1, <1>2, <1>4 DEF Drawn, Blank
<1>8. TokensApart'
    BY <1>2, <1>4 DEF TokensApart, Blank
<1>9. CollectedFits'
    BY <1>1, <1>2, <1>3, <1>4 DEF CollectedFits, Blank
<1> QED
    BY <1>5, <1>6, <1>7, <1>8, <1>9 DEF IndInv

LEMMA Inductive == IndInv /\ [Next]_vars => IndInv'
<1> SUFFICES ASSUME IndInv, [Next]_vars
             PROVE  IndInv'
    OBVIOUS
<1>1. CASE Register
    BY <1>1, RegisterStep
<1>2. CASE Wipe
    BY <1>2, WipeStep
<1>3. CASE Tick
    BY <1>3, TickStep
<1>4. ASSUME NEW r \in Request,
             Authenticate(r) \/ Serve(r) \/ ReadShared(r) \/ Close(r)
      PROVE  IndInv'
    BY <1>4, AuthenticateStep, ReadSharedStep, CloseStep, CreateStep, UpdateStep,
       AddEntityStep, RemoveEntityStep, CreateNoteStep, DeleteNoteStep, ShareStep,
       RevokeStep, DeleteCollectStep, DeleteCommitStep, QueryFailsStep DEF Serve
<1>5. CASE UNCHANGED vars
    BY <1>5 DEF vars, IndInv, TypeOK, WellKept, Drawn, TokensApart, CollectedFits
<1> QED
    BY <1>1, <1>2, <1>3, <1>4, <1>5 DEF Next

-----------------------------------------------------------------------------
(* The theorems.                                                           *)

LEMMA Invariant == Spec => []IndInv
<1> QED
    BY InitEstablishes, Inductive, PTL DEF Spec

\* Every state is well typed, for every pool of ids and every number of requests.
THEOREM TypeCorrect == Spec => []TypeOK
<1>1. IndInv => TypeOK
    BY DEF IndInv
<1> QED
    BY <1>1, Invariant, PTL

\* Notes hang on their own investigation; whatever is gone or never got its owner
\* carries nothing.
THEOREM StaysWellKept == Spec => []WellKept
<1>1. IndInv => WellKept
    BY DEF IndInv
<1> QED
    BY <1>1, Invariant, PTL

\* A share token opens at most one investigation.
THEOREM TokensAreUnambiguous == Spec => []TokenNamesOne
<1>1. IndInv => TokenNamesOne
    BY DEF IndInv, TypeOK, TokensApart, TokenNamesOne, Shared
<1> QED
    BY <1>1, Invariant, PTL
-----------------------------------------------------------------------------
(* The service implements the book.                                        *)

LEMMA BookInitially == Init => Book!BookInit
    BY DEF Init, Blank, Book!BookInit, Book!BlankPage

\* The investigation of an owner's request is one of the book's.
LEMMA MineExists ==
    ASSUME IndInv, NEW r \in Request, Mine(r)
    PROVE  /\ req[r].inv \in Inv
           /\ inv[req[r].inv] \in Investigation
           /\ inv \in [Inv -> Investigation]
           /\ Book!Exists(req[r].inv)
<1>1. inv[req[r].inv].owner # NoUser
    BY MineIsPage, InvestigationAssumption
<1>2. inv[req[r].inv] # Blank
    BY <1>1 DEF Blank
<1> QED
    BY <1>2, MineIsPage DEF Book!Exists, Book!BlankPage, Blank, IndInv, TypeOK

\* Changing title and entities only is a Rewrite.
LEMMA RewritePage ==
    ASSUME IndInv, NEW r \in Request, Mine(r),
           NEW t \in Title \cup {inv[req[r].inv].title}, NEW es \in SUBSET Entity,
           inv' = [inv EXCEPT ![req[r].inv].title = t,
                              ![req[r].inv].entities = es],
           UNCHANGED used
    PROVE  Book!Rewrite
    BY MineExists DEF Book!Rewrite

LEMMA UpdateRefines ==
    ASSUME IndInv, NEW r \in Request, UpdateInvestigation(r)
    PROVE  Book!BookNext \/ UNCHANGED <<inv, used>>
<1>1. CASE NothingFound(r, "not_found")
    BY <1>1 DEF NothingFound
<1>2. CASE Mine(r) /\ ~NothingFound(r, "not_found")
    <2> DEFINE k == req[r].inv
    <2>1. PICK t \in Title \cup {inv[k].title} : inv' = [inv EXCEPT ![k].title = t]
        BY <1>2 DEF UpdateInvestigation
    <2>2. /\ k \in Inv
          /\ inv[k] \in Investigation /\ inv \in [Inv -> Investigation]
        BY <1>2, <2>1, MineExists
    <2>3. [inv[k] EXCEPT !.title = t]
            = [inv[k] EXCEPT !.title = t, !.entities = inv[k].entities]
        BY <2>2 DEF Investigation
    <2>4. inv' = [inv EXCEPT ![k].title = t, ![k].entities = inv[k].entities]
        BY <2>1, <2>2, <2>3
    <2>5. inv[k].entities \in SUBSET Entity
        BY <2>2 DEF Investigation
    <2> QED
        BY <1>2, <2>2, <2>4, <2>5, RewritePage DEF UpdateInvestigation, Book!BookNext
<1> QED
    BY <1>1, <1>2 DEF UpdateInvestigation

LEMMA EntitiesRefine ==
    ASSUME IndInv, NEW r \in Request, Mine(r), NEW es \in SUBSET Entity,
           inv' = [inv EXCEPT ![req[r].inv].entities = es], UNCHANGED used
    PROVE  Book!BookNext
<1> DEFINE k == req[r].inv
<1>1. /\ k \in Inv
      /\ inv[k] \in Investigation /\ inv \in [Inv -> Investigation]
    BY MineExists
<1>2. [inv[k] EXCEPT !.entities = es]
        = [inv[k] EXCEPT !.title = inv[k].title, !.entities = es]
    BY <1>1 DEF Investigation
<1>3. inv' = [inv EXCEPT ![k].title = inv[k].title, ![k].entities = es]
    BY <1>1, <1>2
<1> QED
    BY <1>1, <1>3, RewritePage DEF Book!BookNext

LEMMA AddEntityRefines ==
    ASSUME IndInv, NEW r \in Request, AddEntity(r)
    PROVE  Book!BookNext \/ UNCHANGED <<inv, used>>
<1>1. CASE NothingFound(r, "not_found")
    BY <1>1 DEF NothingFound
<1>2. CASE Mine(r) /\ ~NothingFound(r, "not_found")
    <2> DEFINE k == req[r].inv
    <2>1. PICK x \in EntityId : inv' = [inv EXCEPT ![k].entities = @ \cup Named(x)]
        BY <1>2 DEF AddEntity
    <2>2. inv[k].entities \cup Named(x) \in SUBSET Entity /\ k \in Inv
        BY <1>2, MineExists DEF Investigation, Named
    <2>3. inv' = [inv EXCEPT ![k].entities = inv[k].entities \cup Named(x)]
        BY <1>2, <2>1, <2>2, MineExists
    <2> QED
        BY <1>2, <2>2, <2>3, EntitiesRefine DEF AddEntity
<1> QED
    BY <1>1, <1>2 DEF AddEntity

LEMMA RemoveEntityRefines ==
    ASSUME IndInv, NEW r \in Request, RemoveEntity(r)
    PROVE  Book!BookNext \/ UNCHANGED <<inv, used>>
<1>1. CASE NothingFound(r, "not_found")
    BY <1>1 DEF NothingFound
<1>2. CASE Mine(r) /\ ~NothingFound(r, "not_found")
    <2> DEFINE k == req[r].inv
    <2>1. PICK x \in EntityId : inv' = [inv EXCEPT ![k].entities = @ \ Named(x)]
        BY <1>2 DEF RemoveEntity
    <2>2. inv[k].entities \ Named(x) \in SUBSET Entity /\ k \in Inv
        BY <1>2, MineExists DEF Investigation
    <2>3. inv' = [inv EXCEPT ![k].entities = inv[k].entities \ Named(x)]
        BY <1>2, <2>1, <2>2, MineExists
    <2> QED
        BY <1>2, <2>2, <2>3, EntitiesRefine DEF RemoveEntity
<1> QED
    BY <1>1, <1>2 DEF RemoveEntity

LEMMA NotesRefine ==
    ASSUME IndInv, NEW r \in Request, CreateNote(r) \/ DeleteNote(r)
    PROVE  Book!BookNext \/ UNCHANGED <<inv, used>>
<1>1. CASE NothingFound(r, "error") \/ NothingFound(r, "not_found")
    BY <1>1 DEF NothingFound
<1>2. CASE CreateNote(r) /\ ~NothingFound(r, "error")
    <2>1. Mine(r)
        BY <1>2 DEF CreateNote
    <2>2. Book!Attach
        BY <1>2, <2>1, MineExists DEF CreateNote, Book!Attach, Book!Draw
    <2> QED
        BY <2>2 DEF Book!BookNext
<1>3. CASE DeleteNote(r) /\ ~NothingFound(r, "not_found")
    <2>1. Mine(r)
        BY <1>3 DEF DeleteNote
    <2>2. Book!Detach
        BY <1>3, <2>1, MineExists DEF DeleteNote, Book!Detach
    <2> QED
        BY <2>2 DEF Book!BookNext
<1> QED
    BY <1>1, <1>2, <1>3

LEMMA SharingRefines ==
    ASSUME IndInv, NEW r \in Request, Share(r) \/ Revoke(r)
    PROVE  Book!BookNext \/ UNCHANGED <<inv, used>>
<1>1. CASE NothingFound(r, "not_found")
    BY <1>1 DEF NothingFound
<1>2. CASE Share(r) /\ ~NothingFound(r, "not_found")
    <2>1. Mine(r)
        BY <1>2 DEF Share
    <2>2. Book!Publish
        BY <1>2, <2>1, MineExists DEF Share, Book!Publish, Book!Draw
    <2> QED
        BY <2>2 DEF Book!BookNext
<1>3. CASE Revoke(r) /\ ~NothingFound(r, "not_found")
    <2>1. Mine(r)
        BY <1>3 DEF Revoke
    <2>2. Book!Unpublish
        BY <1>3, <2>1, MineExists DEF Revoke, Book!Unpublish
    <2> QED
        BY <2>2 DEF Book!BookNext
<1> QED
    BY <1>1, <1>2, <1>3

LEMMA CreateRefines ==
    ASSUME IndInv, NEW r \in Request, CreateInvestigation(r)
    PROVE  Book!BookNext
<1>1. PICK i \in Inv \ used, t \in Title :
         /\ used' = used \cup {i}
         /\ \/ /\ req[r].user \in users
               /\ inv' = [inv EXCEPT ![i].owner = req[r].user, ![i].title = t]
            \/ UNCHANGED inv
    BY DEF CreateInvestigation
<1>2. /\ inv \in [Inv -> Investigation]
      /\ inv[i] = Blank
      /\ users \subseteq User
    BY <1>1 DEF IndInv, WellKept, Drawn, TypeOK
<1>3. CASE UNCHANGED inv
    BY <1>1, <1>3 DEF Book!BookNext, Book!Waste, Book!Draw
<1>4. CASE /\ req[r].user \in users
           /\ inv' = [inv EXCEPT ![i].owner = req[r].user, ![i].title = t]
    <2>1. inv' = [inv EXCEPT ![i] = [Blank EXCEPT !.owner = req[r].user, !.title = t]]
        BY <1>2, <1>4
    <2>2. Book!Open
        <3>1. Book!BlankPage = Blank
            BY DEF Book!BlankPage, Blank
        <3>2. Book!Draw(i) /\ req[r].user \in User
            BY <1>1, <1>2, <1>4 DEF Book!Draw
        <3> QED
            BY <1>1, <2>1, <3>1, <3>2 DEF Book!Open
    <2> QED
        BY <2>2 DEF Book!BookNext
<1> QED
    BY <1>1, <1>3, <1>4

LEMMA BookStep ==
    ASSUME IndInv, [Next]_vars
    PROVE  Book!BookNext \/ UNCHANGED <<inv, used>>
<1>1. CASE Register
    BY <1>1 DEF Register, Book!BookNext, Book!Waste, Book!Draw
<1>2. CASE Wipe
    BY <1>2 DEF Wipe, Book!BookNext, Book!Lose, Book!BlankPage, Blank
<1>3. CASE Tick \/ UNCHANGED vars
    BY <1>3 DEF Tick, vars
<1>4. ASSUME NEW r \in Request, Authenticate(r) \/ ReadShared(r) \/ Close(r)
      PROVE  UNCHANGED <<inv, used>>
    BY <1>4 DEF Authenticate, ReadShared, Close
<1>5. ASSUME NEW r \in Request, QueryFails(r) \/ DeleteCollect(r)
      PROVE  UNCHANGED <<inv, used>>
    BY <1>5 DEF QueryFails, DeleteCollect, NothingFound
<1>6. ASSUME NEW r \in Request, DeleteCommit(r)
      PROVE  Book!BookNext
    BY <1>6, DeleteBlanks
       DEF DeleteCommit, Book!BookNext, Book!Discard, Book!BlankPage, Blank
<1>7. ASSUME NEW r \in Request, Serve(r)
      PROVE  Book!BookNext \/ UNCHANGED <<inv, used>>
    BY <1>5, <1>6, <1>7, CreateRefines, UpdateRefines, AddEntityRefines,
       RemoveEntityRefines, NotesRefine, SharingRefines DEF Serve
<1> QED
    BY <1>1, <1>2, <1>3, <1>4, <1>7 DEF Next

\* Whatever requests interleave, fail or outlive their user, clients see the book
\* of atomic operations.
THEOREM ImplementsTheBook == Spec => ImplementsBook
<1>1. IndInv /\ [Next]_vars => [Book!BookNext]_(Book!bookVars)
    BY BookStep DEF Book!bookVars
<1> QED
    BY <1>1, BookInitially, Invariant, PTL
       DEF Spec, ImplementsBook, Book!BookSpec
\* In the book, a page keeps its token, drops it or draws a fresh one.
LEMMA BookTokens ==
    ASSUME inv \in [Inv -> Investigation], Book!BookNext, NEW i \in Inv
    PROVE  inv'[i].token \in {inv[i].token, NoToken} \cup (used' \ used)
<1>1. CASE Book!Open
    <2>1. Book!BlankPage.token = NoToken
        BY DEF Book!BlankPage
    <2>2. PICK j \in Inv, u \in User, t \in Title :
             inv' = [inv EXCEPT ![j] = [Book!BlankPage EXCEPT !.owner = u, !.title = t]]
        BY <1>1 DEF Book!Open
    <2>3. [Book!BlankPage EXCEPT !.owner = u, !.title = t].token = NoToken
        BY DEF Book!BlankPage
    <2> QED
        BY <2>2, <2>3
<1>2. CASE Book!Rewrite
    <2>1. PICK j \in Inv : \E t \in Title \cup {inv[j].title}, es \in SUBSET Entity :
             inv' = [inv EXCEPT ![j].title = t, ![j].entities = es]
        BY <1>2 DEF Book!Rewrite
    <2>2. inv[j] \in Investigation
        OBVIOUS
    <2>3. inv'[i].token = inv[i].token
        BY <2>1, <2>2 DEF Investigation
    <2> QED
        BY <2>3
<1>3. CASE Book!Attach \/ Book!Detach
    BY <1>3 DEF Book!Attach, Book!Detach, Investigation
<1>4. CASE Book!Publish \/ Book!Unpublish
    BY <1>4 DEF Book!Publish, Book!Unpublish, Book!Draw, Investigation
<1>5. CASE Book!Discard \/ Book!Lose \/ Book!Waste
    BY <1>5 DEF Book!Discard, Book!Lose, Book!Waste, Book!BlankPage
<1> QED
    BY <1>1, <1>2, <1>3, <1>4, <1>5 DEF Book!BookNext

\* A share token that stopped opening its investigation never opens anything
\* again: it follows from the book, where a page only ever takes a fresh token.
THEOREM TokensStayDead == Spec => TokenNeverRevives
<1> DEFINE Revival == \A t \in Token \cap used :
             (\E i \in live' : Shared(i, t)') => \E i \in live : Shared(i, t)
<1>1. ASSUME IndInv, IndInv', [Next]_vars
      PROVE  Revival
    <2> SUFFICES ASSUME NEW t \in Token \cap used, NEW i \in live', Shared(i, t)'
                 PROVE  \E j \in live : Shared(j, t)
        OBVIOUS
    <2>1. /\ i \in Inv /\ inv'[i].token = t /\ t # NoToken
          /\ inv \in [Inv -> Investigation]
        BY <1>1, InvestigationAssumption DEF Shared, IndInv, TypeOK
    <2>2. inv[i].token = t
        BY <1>1, <2>1, BookStep, BookTokens
    <2>3. i \in live
        BY <1>1, <2>1, <2>2 DEF IndInv, WellKept, Blank
    <2> QED
        BY <2>1, <2>2, <2>3 DEF Shared
<1>2. IndInv /\ IndInv' /\ [Next]_vars => [Revival]_vars
    BY <1>1
<1> QED
    BY <1>2, Invariant, PTL DEF Spec, TokenNeverRevives

-----------------------------------------------------------------------------
(* Who changes an investigation, and what a delete leaves behind.          *)

\* A delete that has collected is the owner's, until the investigation is gone.
CollectedByOwner ==
    \A r \in Request :
        req[r].pc = "collected" =>
            /\ req[r].inv \in Inv \cap used
            /\ inv[req[r].inv] = Blank \/ inv[req[r].inv].owner = req[r].user

\* In the book, a page that was drawn keeps its owner until it is discarded.
LEMMA BookOwners ==
    ASSUME inv \in [Inv -> Investigation], Book!BookNext, NEW i \in Inv, i \in used
    PROVE  inv'[i] = Blank \/ inv'[i].owner = inv[i].owner
<1>1. CASE Book!Open
    <2>1. PICK j \in Inv, u \in User, t \in Title :
             /\ j \notin used
             /\ inv' = [inv EXCEPT ![j] = [Book!BlankPage EXCEPT !.owner = u, !.title = t]]
        BY <1>1 DEF Book!Open, Book!Draw
    <2> QED
        BY <2>1
<1>2. CASE Book!Rewrite
    <2>1. PICK j \in Inv : \E t \in Title \cup {inv[j].title}, es \in SUBSET Entity :
             inv' = [inv EXCEPT ![j].title = t, ![j].entities = es]
        BY <1>2 DEF Book!Rewrite
    <2>2. inv[j] \in Investigation
        OBVIOUS
    <2> QED
        BY <2>1, <2>2 DEF Investigation
<1>3. CASE Book!Attach \/ Book!Detach
    BY <1>3 DEF Book!Attach, Book!Detach, Investigation
<1>4. CASE Book!Publish \/ Book!Unpublish
    BY <1>4 DEF Book!Publish, Book!Unpublish, Investigation
<1>5. CASE Book!Discard \/ Book!Lose \/ Book!Waste
    BY <1>5 DEF Book!Discard, Book!Lose, Book!Waste, Book!BlankPage, Blank
<1> QED
    BY <1>1, <1>2, <1>3, <1>4, <1>5 DEF Book!BookNext

\* Once drawn, a blank investigation stays blank and an owned one keeps its owner.
LEMMA OwnerStays ==
    ASSUME IndInv, IndInv', [Next]_vars, NEW i \in Inv, i \in used
    PROVE  /\ i \in used'
           /\ inv'[i] = Blank \/ (inv[i] # Blank /\ inv'[i].owner = inv[i].owner)
<1>1. inv \in [Inv -> Investigation] /\ inv' \in [Inv -> Investigation]
    BY DEF IndInv, TypeOK
<1>2. inv'[i] = Blank \/ inv'[i].owner = inv[i].owner
    <2>1. CASE Book!BookNext
        BY <1>1, <2>1, BookOwners
    <2>2. CASE UNCHANGED <<inv, used>>
        BY <2>2
    <2> QED
        BY <2>1, <2>2, BookStep
<1>3. inv[i] = Blank => inv'[i] = Blank
    <2> SUFFICES ASSUME inv[i] = Blank, inv'[i].owner = inv[i].owner
                 PROVE  inv'[i] = Blank
        BY <1>2
    <2>1. inv'[i].owner = NoUser
        BY DEF Blank
    <2> QED
        BY <2>1 DEF IndInv, WellKept
<1>4. i \in used'
    <2>1. used \subseteq used'
        <3>1. CASE Book!BookNext
            BY <3>1 DEF Book!BookNext, Book!Open, Book!Rewrite, Book!Attach, Book!Detach,
               Book!Publish, Book!Unpublish, Book!Discard, Book!Lose, Book!Waste, Book!Draw
        <3> QED
            BY <3>1, BookStep
    <2> QED
        BY <2>1
<1> QED
    BY <1>2, <1>3, <1>4

\* What the requests that write nothing to the graph do to their own record.
LEMMA OutsideQueries ==
    ASSUME TypeOK, NEW r \in Request,
           Authenticate(r) \/ ReadShared(r) \/ Close(r) \/ QueryFails(r)
    PROVE  \E p \in ReqState : p.pc # "collected" /\ req' = [req EXCEPT ![r] = p]
<1>1. req \in [Request -> ReqState] /\ req[r] \in ReqState /\ live \subseteq Inv /\ users \subseteq User
    BY DEF TypeOK
<1>2. CASE Authenticate(r)
    <2>1. PICK u \in users, i \in (Inv \cap used) \cup {NoInv} :
             req' = [req EXCEPT ![r].pc = "authenticated", ![r].user = u, ![r].inv = i]
        BY <1>2 DEF Authenticate
    <2> DEFINE p == [req[r] EXCEPT !.pc = "authenticated", !.user = u, !.inv = i]
    <2>2. p \in ReqState /\ p.pc # "collected" /\ req' = [req EXCEPT ![r] = p]
        BY <1>1, <2>1 DEF ReqState
    <2> QED
        BY <2>2
<1>3. CASE ReadShared(r)
    <2>1. CASE \E i \in live : req' = [req EXCEPT ![r].pc = "answered",
                                                  ![r].code = "ok", ![r].inv = i]
        <3>1. PICK i \in live : req' = [req EXCEPT ![r].pc = "answered",
                                                  ![r].code = "ok", ![r].inv = i]
            BY <2>1
        <3> DEFINE p == [req[r] EXCEPT !.pc = "answered", !.code = "ok", !.inv = i]
        <3>2. p \in ReqState /\ p.pc # "collected" /\ req' = [req EXCEPT ![r] = p]
            BY <1>1, <3>1 DEF ReqState
        <3> QED
            BY <3>2
    <2>2. CASE req' = [req EXCEPT ![r].pc = "answered", ![r].code = "not_found"]
        <3> DEFINE p == [req[r] EXCEPT !.pc = "answered", !.code = "not_found"]
        <3>2. p \in ReqState /\ p.pc # "collected" /\ req' = [req EXCEPT ![r] = p]
            BY <1>1, <2>2 DEF ReqState
        <3> QED
            BY <3>2
    <2> QED
        BY <1>3, <2>1, <2>2 DEF ReadShared
<1>4. CASE Close(r)
    BY <1>4 DEF Close, Free, ReqState
<1>5. CASE QueryFails(r)
    <2> DEFINE p == [req[r] EXCEPT !.pc = "answered", !.code = "error", !.found = {}]
    <2>1. p \in ReqState /\ p.pc # "collected" /\ req' = [req EXCEPT ![r] = p]
        BY <1>1, <1>5 DEF QueryFails, ReqState
    <2> QED
        BY <2>1
<1> QED
    BY <1>2, <1>3, <1>4, <1>5

\* Only DeleteCollect makes a request collected, and it is the owner's then.
LEMMA Collecting ==
    ASSUME IndInv, Next, NEW q \in Request, req'[q].pc = "collected"
    PROVE  \/ req'[q] = req[q]
           \/ /\ DeleteCollect(q) /\ Mine(q) /\ UNCHANGED inv
              /\ req'[q].inv = req[q].inv /\ req'[q].user = req[q].user
<1>1. req \in [Request -> ReqState]
    BY DEF IndInv, TypeOK
<1>2. CASE Register \/ Wipe \/ Tick
    BY <1>2 DEF Register, Wipe, Tick
<1>3. ASSUME NEW r \in Request, Authenticate(r) \/ ReadShared(r) \/ Close(r) \/ QueryFails(r)
      PROVE  req'[q] = req[q]
    <2>1. \E p \in ReqState : p.pc # "collected" /\ req' = [req EXCEPT ![r] = p]
        BY <1>3, OutsideQueries DEF IndInv
    <2> QED
        BY <1>1, <2>1
<1>4. ASSUME NEW r \in Request, NEW code \in {"ok", "not_found", "error"}, Answer(r, code)
      PROVE  req'[q] = req[q]
    BY <1>4, AnswerEffect DEF IndInv
<1>5. ASSUME NEW r \in Request,
             \/ CreateInvestigation(r) \/ UpdateInvestigation(r) \/ AddEntity(r)
             \/ RemoveEntity(r) \/ CreateNote(r) \/ DeleteNote(r) \/ Share(r)
             \/ Revoke(r) \/ DeleteCommit(r)
      PROVE  req'[q] = req[q]
    BY <1>4, <1>5 DEF CreateInvestigation, UpdateInvestigation, AddEntity, RemoveEntity,
       CreateNote, DeleteNote, Share, Revoke, DeleteCommit, NothingFound
<1>6. ASSUME NEW r \in Request, DeleteCollect(r)
      PROVE  \/ req'[q] = req[q]
             \/ /\ DeleteCollect(q) /\ Mine(q) /\ UNCHANGED inv
                /\ req'[q].inv = req[q].inv /\ req'[q].user = req[q].user
    <2>1. CASE NothingFound(r, "not_found")
        BY <1>4, <2>1 DEF NothingFound
    <2>2. CASE Mine(r) /\ ~NothingFound(r, "not_found")
        <3>1. /\ UNCHANGED inv
              /\ req' = [req EXCEPT ![r].pc = "collected", ![r].found = inv[req[r].inv].notes]
            BY <1>6, <2>2 DEF DeleteCollect
        <3>2. CASE q = r
            <4>1. req'[q].inv = req[q].inv /\ req'[q].user = req[q].user
                BY <1>1, <3>1, <3>2 DEF ReqState
            <4> QED
                BY <1>6, <2>2, <3>1, <3>2, <4>1
        <3>3. CASE q # r
            BY <1>1, <3>1, <3>3
        <3> QED
            BY <3>2, <3>3
    <2> QED
        BY <1>6, <2>1, <2>2 DEF DeleteCollect
<1> QED
    BY <1>2, <1>3, <1>5, <1>6 DEF Next, Serve

LEMMA CollectedStaysOwners ==
    ASSUME IndInv, IndInv', CollectedByOwner, [Next]_vars
    PROVE  CollectedByOwner'
<1> SUFFICES ASSUME NEW q \in Request, req'[q].pc = "collected"
             PROVE  LET i == req'[q].inv
                    IN  i \in Inv \cap used' /\ (inv'[i] = Blank \/ inv'[i].owner = req'[q].user)
    BY DEF CollectedByOwner
<1>1. CASE req'[q] = req[q]
    BY <1>1, OwnerStays DEF CollectedByOwner
<1>2. CASE DeleteCollect(q) /\ Mine(q) /\ UNCHANGED inv
           /\ req'[q].inv = req[q].inv /\ req'[q].user = req[q].user
    <2>1. req[q].inv \in Inv \cap used /\ inv[req[q].inv].owner = req[q].user
        BY <1>2, MineIsPage DEF IndInv, Drawn
    <2>2. req[q].inv \in used'
        BY <2>1, OwnerStays
    <2> QED
        BY <1>2, <2>1, <2>2
<1>3. CASE UNCHANGED vars
    BY <1>1, <1>3 DEF vars
<1> QED
    BY <1>1, <1>2, <1>3, Collecting

LEMMA OwnInvariant == Spec => []CollectedByOwner
<1>1. Init => CollectedByOwner
    BY DEF Init, Free, CollectedByOwner
<1>2. IndInv /\ IndInv' /\ CollectedByOwner /\ [Next]_vars => CollectedByOwner'
    BY CollectedStaysOwners
<1> QED
    BY <1>1, <1>2, Invariant, PTL DEF Spec

\* The queries on one investigation of the caller's: the others stay as they are,
\* and a note leaves its investigation only with its own node.
LEMMA OneWrites ==
    ASSUME IndInv, NEW r \in Request,
           \/ UpdateInvestigation(r) \/ AddEntity(r) \/ RemoveEntity(r)
           \/ CreateNote(r) \/ DeleteNote(r) \/ Share(r) \/ Revoke(r) \/ DeleteCollect(r),
           ~UNCHANGED inv
    PROVE  /\ Mine(r) /\ Ready(r) /\ Answer(r, "ok")
           /\ \A j \in Inv \ {req[r].inv} : inv'[j] = inv[j]
           /\ \A n \in notes' : n \in inv[req[r].inv].notes => n \in inv'[req[r].inv].notes
<1> DEFINE k == req[r].inv
<1>1. inv \in [Inv -> Investigation]
    BY DEF IndInv, TypeOK
<1>2. ASSUME NEW code \in {"not_found", "error"}, NothingFound(r, code)
      PROVE  FALSE
    BY <1>2 DEF NothingFound
<1>3. Mine(r) /\ Ready(r)
    BY <1>2 DEF UpdateInvestigation, AddEntity, RemoveEntity, CreateNote, DeleteNote,
       Share, Revoke, DeleteCollect, Addressed
<1>4. k \in Inv /\ inv[k] \in Investigation
    BY <1>3, MineIsPage
<1>5. CASE UpdateInvestigation(r)
    <2>1. PICK t \in Title \cup {inv[k].title} : inv' = [inv EXCEPT ![k].title = t]
        BY <1>2, <1>5 DEF UpdateInvestigation
    <2>2. Answer(r, "ok")
        BY <1>2, <1>5 DEF UpdateInvestigation
    <2> QED
        BY <1>1, <1>3, <1>4, <2>1, <2>2 DEF Investigation
<1>6. CASE AddEntity(r)
    BY <1>1, <1>2, <1>4, <1>6, <1>3 DEF AddEntity, Investigation
<1>7. CASE RemoveEntity(r)
    BY <1>1, <1>2, <1>4, <1>7, <1>3 DEF RemoveEntity, Investigation
<1>8. CASE CreateNote(r)
    <2>1. PICK n \in Note \ used : inv' = [inv EXCEPT ![k].notes = @ \cup {n}]
        BY <1>2, <1>8 DEF CreateNote
    <2>2. Answer(r, "ok")
        BY <1>2, <1>8 DEF CreateNote
    <2> QED
        BY <1>1, <1>3, <1>4, <2>1, <2>2 DEF Investigation
<1>9. CASE DeleteNote(r)
    BY <1>1, <1>2, <1>4, <1>9, <1>3 DEF DeleteNote, Investigation
<1>10. CASE Share(r)
    <2>1. PICK t \in Token \ used : inv' = [inv EXCEPT ![k].token = t]
        BY <1>2, <1>10 DEF Share
    <2>2. Answer(r, "ok")
        BY <1>2, <1>10 DEF Share
    <2> QED
        BY <1>1, <1>3, <1>4, <2>1, <2>2 DEF Investigation
<1>11. CASE Revoke(r)
    BY <1>1, <1>2, <1>4, <1>11, <1>3 DEF Revoke, Investigation
<1>12. CASE DeleteCollect(r)
    BY <1>2, <1>12 DEF DeleteCollect
<1> QED
    BY <1>5, <1>6, <1>7, <1>8, <1>9, <1>10, <1>11, <1>12

LEMMA OthersWriteNothing ==
    ASSUME [Next]_vars, ~UNCHANGED inv
    PROVE  \/ Wipe
           \/ \E r \in Request :
                \/ CreateInvestigation(r) \/ UpdateInvestigation(r) \/ AddEntity(r)
                \/ RemoveEntity(r) \/ CreateNote(r) \/ DeleteNote(r) \/ Share(r)
                \/ Revoke(r) \/ DeleteCollect(r) \/ DeleteCommit(r)
    BY DEF Next, Serve, vars, Register, Tick, Authenticate, ReadShared, Close, QueryFails

LEMMA CreateWritesFresh ==
    ASSUME IndInv, NEW r \in Request, CreateInvestigation(r), NEW i \in Inv, inv'[i] # inv[i]
    PROVE  i \notin used
<1>1. inv \in [Inv -> Investigation]
    BY DEF IndInv, TypeOK
<1>2. PICK j \in Inv \ used, t \in Title :
         \/ inv' = [inv EXCEPT ![j].owner = req[r].user, ![j].title = t]
         \/ UNCHANGED inv
    BY DEF CreateInvestigation
<1> QED
    BY <1>1, <1>2

\* An investigation is changed only on its owner's request, by one query at a
\* time: what the delete collected in its first step is still the caller's, or
\* gone, when the second one writes.
THEOREM OnlyOwnersWrite == Spec => OnlyOwnerWrites
<1> DEFINE Writes == users' # {} =>
         \A i \in Inv :
            inv'[i] # inv[i] =>
                \/ i \notin used
                \/ \E r \in Request :
                     /\ req[r].user = inv[i].owner /\ req[r].inv = i
                     /\ req[r].pc # "answered" /\ req'[r].pc = "answered"
                     /\ \A j \in Inv \ {i} : inv'[j] = inv[j]
<1>1. ASSUME IndInv, CollectedByOwner, [Next]_vars
      PROVE  Writes
    <2> SUFFICES ASSUME users' # {}, NEW i \in Inv, inv'[i] # inv[i], i \in used
                 PROVE  \E r \in Request :
                           /\ req[r].user = inv[i].owner /\ req[r].inv = i
                           /\ req[r].pc # "answered" /\ req'[r].pc = "answered"
                           /\ \A j \in Inv \ {i} : inv'[j] = inv[j]
        OBVIOUS
    <2>1. PICK r \in Request :
             \/ CreateInvestigation(r) \/ UpdateInvestigation(r) \/ AddEntity(r)
             \/ RemoveEntity(r) \/ CreateNote(r) \/ DeleteNote(r) \/ Share(r)
             \/ Revoke(r) \/ DeleteCollect(r) \/ DeleteCommit(r)
        BY <1>1, OthersWriteNothing DEF Wipe
    <2>2. ~CreateInvestigation(r)
        BY <1>1, CreateWritesFresh
    <2>3. CASE DeleteCommit(r)
        <3>1. req[r].inv \in Inv /\ inv' = [inv EXCEPT ![req[r].inv] = Blank]
            BY <1>1, <2>3, DeleteBlanks
        <3>2. inv \in [Inv -> Investigation] /\ TypeOK
            BY <1>1 DEF IndInv, TypeOK
        <3>3. i = req[r].inv /\ inv[i] # Blank
            BY <3>1, <3>2
        <3>4. req'[r].pc = "answered"
            BY <2>3, <3>2, AnswerEffect DEF DeleteCommit
        <3>5. inv[i].owner = req[r].user /\ req[r].pc = "collected"
            BY <1>1, <2>3, <3>3 DEF CollectedByOwner, DeleteCommit
        <3> QED
            BY <3>1, <3>2, <3>3, <3>4, <3>5
    <2>4. CASE ~DeleteCommit(r)
        <3>1. /\ Mine(r) /\ Ready(r) /\ Answer(r, "ok")
              /\ \A j \in Inv \ {req[r].inv} : inv'[j] = inv[j]
            BY <1>1, <2>1, <2>2, <2>4, OneWrites
        <3>2. i = req[r].inv /\ inv[i].owner = req[r].user
            BY <1>1, <3>1, MineIsPage
        <3>3. req'[r].pc = "answered"
            BY <1>1, <3>1, AnswerEffect DEF IndInv
        <3> QED
            BY <3>1, <3>2, <3>3 DEF Ready
    <2> QED
        BY <2>3, <2>4
<1>2. IndInv /\ CollectedByOwner /\ [Next]_vars => [Writes]_vars
    BY <1>1
<1> QED
    BY <1>2, Invariant, OwnInvariant, PTL DEF Spec, OnlyOwnerWrites

\* A note is left without its investigation only by a delete that had collected
\* the notes before this one was attached.
THEOREM StraysOnlyByRace == Spec => StrayOnlyByRace
<1> DEFINE Strays == \A n \in notes' \ Attached' :
         n \in Attached =>
            \E r \in Request : /\ req[r].pc = "collected"
                              /\ n \in inv[req[r].inv].notes \ req[r].found
                              /\ req[r].inv \notin live'
<1>1. ASSUME IndInv, [Next]_vars
      PROVE  Strays
    <2> SUFFICES ASSUME NEW n \in notes', n \notin Attached', n \in Attached
                 PROVE  \E r \in Request : /\ req[r].pc = "collected"
                                           /\ n \in inv[req[r].inv].notes \ req[r].found
                                           /\ req[r].inv \notin live'
        OBVIOUS
    <2>1. PICK i \in Inv : n \in inv[i].notes
        BY DEF Attached
    <2>2. n \notin inv'[i].notes
        BY DEF Attached
    <2>3. inv \in [Inv -> Investigation]
        BY <1>1 DEF IndInv, TypeOK
    <2>4. PICK r \in Request :
             \/ CreateInvestigation(r) \/ UpdateInvestigation(r) \/ AddEntity(r)
             \/ RemoveEntity(r) \/ CreateNote(r) \/ DeleteNote(r) \/ Share(r)
             \/ Revoke(r) \/ DeleteCollect(r) \/ DeleteCommit(r)
        BY <1>1, <2>1, <2>2, OthersWriteNothing DEF Wipe
    <2>5. ~CreateInvestigation(r)
        <3>1. i \in used
            BY <1>1, <2>1 DEF IndInv, WellKept, Drawn, Blank
        <3> QED
            BY <1>1, <2>1, <2>2, <3>1, CreateWritesFresh
    <2>6. DeleteCommit(r)
        <3> SUFFICES ASSUME ~DeleteCommit(r)
                     PROVE  FALSE
            OBVIOUS
        <3>1. /\ \A j \in Inv \ {req[r].inv} : inv'[j] = inv[j]
              /\ n \in inv[req[r].inv].notes => n \in inv'[req[r].inv].notes
            BY <1>1, <2>1, <2>2, <2>4, <2>5, OneWrites
        <3> QED
            BY <2>1, <2>2, <3>1
    <2>7. req[r].inv = i
        BY <1>1, <2>1, <2>2, <2>3, <2>6, DeleteBlanks
    <2> QED
        BY <2>1, <2>6, <2>7 DEF DeleteCommit
<1>2. IndInv /\ [Next]_vars => [Strays]_vars
    BY <1>1
<1> QED
    BY <1>2, Invariant, PTL DEF Spec, StrayOnlyByRace
=============================================================================
