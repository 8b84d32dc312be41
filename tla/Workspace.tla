------------------------------ MODULE Workspace ------------------------------
(***************************************************************************)
(* The investigation screens of a browser: stores/investigation.ts, the    *)
(* page Investigations.tsx and its panel, detail and note editors, whose   *)
(* effects send requests of their own, and the API, as far as they see it. *)
(*                                                                         *)
(* Of the session (SessionStore) there is who is signed in, whose cookie   *)
(* the requests carry: what SessionIsOne says of it when no answer is late.*)
(* Annotations and tags are handled alike; a note is either.  Titles,      *)
(* descriptions and entities of an investigation are a version number.     *)
(* The flags that say that the list is loading or failed are left out.     *)
(* The store outlives the page, and the session.                           *)
(***************************************************************************)
EXTENDS Naturals, Sequences, SequencesExt

CONSTANTS
    User,
    NoUser,
    MaxRequests,         \* bound: requests of the screens in flight
    MaxBusy,             \* bound: those there may be when the user does something
    MaxMade, MaxChanges  \* bounds: investigations; edits and notes of all of them

ASSUME WorkspaceAssumption ==
    NoUser \notin User /\ MaxRequests \in Nat /\ MaxBusy \in Nat /\ MaxMade \in Nat /\ MaxChanges \in Nat

VARIABLES
    who,              \* who is signed in
    owners, alive, version, notes, changes,   \* the API: see WorkspaceTypeOK
    mounted, url,     \* whether the page is shown, and the investigation in its URL
    active, list, shown,    \* the store
    asked,            \* requests in flight, in the order they were sent
    disturbed         \* history: since the page was last opened with nothing in
                      \* flight, a request was handled out of turn or got lost

api == <<owners, alive, version, notes, changes>>
screen == <<active, list, shown>>
workspaceVars == <<api, mounted, url, screen, asked, disturbed>>
vars == <<who, workspaceVars>>

None == 0
Made == 1..Len(owners)
Version(i) == [id |-> i, version |-> version[i]]
Own(u) == {i \in alive : owners[i] = u}
NotesOf(i) == {n \in notes : n.of = i}

WorkspaceTypeOK ==
    /\ who \in User \cup {NoUser}
    /\ owners \in Seq(User) /\ Len(owners) <= MaxMade     \* in the order they were made
    /\ alive \subseteq Made
    /\ version \in [Made -> 0..MaxChanges]
    /\ notes \subseteq [of : Made, n : 1..MaxChanges]
    /\ changes \in 0..MaxChanges
    /\ mounted \in BOOLEAN /\ disturbed \in BOOLEAN
    /\ url \in Made \cup {None} /\ active \in Made \cup {None}
    /\ list \in Seq([id : Made, version : 0..MaxChanges])
    /\ shown \in Seq([of : Made, n : 1..MaxChanges])

Init ==
    /\ who = NoUser
    /\ owners = <<>> /\ alive = {} /\ version = <<>> /\ notes = {} /\ changes = 0
    /\ mounted = FALSE /\ url = None
    /\ active = None /\ list = <<>> /\ shown = <<>>
    /\ asked = <<>>
    /\ disturbed = FALSE

-----------------------------------------------------------------------------
(* What the user does.  A request carries the cookie there is when it is   *)
(* sent; on is the investigation or the note it is about.                  *)

Ask(op, on) == [op |-> op, as |-> who, on |-> on, done |-> "no", answer |-> <<>>]
Fetches(ids) == [k \in DOMAIN ids |-> Ask("notes", ids[k])]
Asks(requests) ==
    /\ Len(asked) + Len(requests) <= MaxRequests
    /\ asked' = asked \o requests

\* The store makes i the active one, or None, and the page's effects follow: the editors
\* fetch the notes of the active one, then the page puts the one of its URL back.
Becoming(i) ==
    LET fetched == IF i = None THEN <<>> ELSE <<i>>
    IN  IF ~mounted THEN [active |-> i, fetch |-> <<>>]
        ELSE IF i = active THEN [active |-> active, fetch |-> <<>>]
        ELSE IF url \in {None, i} THEN [active |-> i, fetch |-> fetched]
        ELSE [active |-> url, fetch |-> fetched \o <<url>>]

Free == Len(asked) <= MaxBusy

\* The panel fetches the list, the editors the notes of what the store had active.
Open ==
    /\ who # NoUser /\ ~mounted /\ Free
    /\ mounted' = TRUE
    /\ \E i \in Made \cup {None} :
         LET before == IF active = None THEN <<>> ELSE <<active>>
             after  == IF i \in {None, active} THEN <<>> ELSE <<i>>
         IN  /\ url' = i
             /\ active' = IF i = None THEN active ELSE i
             /\ Asks(<<Ask("list", None)>> \o Fetches(before \o after))
    /\ disturbed' = (disturbed /\ asked # <<>>)
    /\ UNCHANGED <<who, api, list, shown>>

\* another URL of the same page, which stays mounted
Navigate ==
    /\ mounted /\ Free
    /\ \E i \in (Made \cup {None}) \ {url} :
         /\ url' = i
         /\ active' = IF i = None THEN active ELSE i
         /\ Asks(Fetches(IF i \in {None, active} THEN <<>> ELSE <<i>>))
    /\ UNCHANGED <<who, api, mounted, list, shown, disturbed>>

Leave ==
    /\ mounted
    /\ mounted' = FALSE
    /\ url' = None
    /\ UNCHANGED <<who, api, screen, asked, disturbed>>

Listed == {list[k].id : k \in DOMAIN list}

Select ==
    /\ mounted /\ Free
    /\ \E i \in Listed \ {active} :
         /\ active' = Becoming(i).active
         /\ Asks(Fetches(Becoming(i).fetch))
    /\ UNCHANGED <<who, api, mounted, url, list, shown, disturbed>>

\* The detail is shown for an active investigation of the list, the notes for any.
Use ==
    /\ mounted /\ Free
    /\ \/ Asks(<<Ask("create", None)>>)
       \/ active \in Listed /\ \E op \in {"update", "entity", "delete"} : Asks(<<Ask(op, active)>>)
       \/ active # None /\ Asks(<<Ask("note", active)>>)
       \/ active # None /\ \E k \in DOMAIN shown : Asks(<<Ask("unnote", shown[k])>>)
    /\ UNCHANGED <<who, api, mounted, url, screen, disturbed>>

-----------------------------------------------------------------------------
(* What the API does with the k-th request.                                *)

\* done and answered (whose it was does not matter then), or refused: nobody is signed in, or it is not theirs
Served(k, answer) ==
    asked' = [asked EXCEPT ![k].done = "yes", ![k].as = NoUser, ![k].answer = answer]
Refused(k) ==
    /\ asked' = [asked EXCEPT ![k].done = "refused", ![k].as = NoUser]
    /\ UNCHANGED api

\* newest first; there is one such list
OwnLists(u) == {s \in SetToSeqs({Version(i) : i \in Own(u)}) : IsSorted(s, LAMBDA v, w : v.id > w.id)}

Read(k) ==
    LET r == asked[k]
    IN  /\ \/ r.op = "list" /\ r.as # NoUser /\ \E answer \in OwnLists(r.as) : Served(k, answer)
           \/ r.op = "notes" /\ r.as # NoUser
              /\ Served(k, SetToSeq(IF r.on \in Own(r.as) THEN NotesOf(r.on) ELSE {}))
           \/ r.op = "get" /\ r.on \in Own(r.as) /\ Served(k, <<Version(r.on)>>)
        /\ UNCHANGED api

Create(k) ==
    LET r == asked[k]
    IN  /\ r.op = "create" /\ r.as # NoUser /\ Len(owners) < MaxMade
        /\ owners' = Append(owners, r.as)
        /\ version' = Append(version, 0)
        /\ alive' = alive \cup {Len(owners) + 1}
        /\ Served(k, <<[id |-> Len(owners) + 1, version |-> 0]>>)
        /\ UNCHANGED <<notes, changes>>

Edit(k) ==
    LET r == asked[k]
    IN  /\ r.op \in {"update", "entity"} /\ r.on \in Own(r.as) /\ changes < MaxChanges
        /\ version' = [version EXCEPT ![r.on] = @ + 1]
        /\ changes' = changes + 1
        /\ Served(k, <<[id |-> r.on, version |-> version[r.on] + 1]>>)
        /\ UNCHANGED <<owners, alive, notes>>

Delete(k) ==
    LET r == asked[k]
    IN  /\ r.op = "delete" /\ r.on \in Own(r.as)
        /\ alive' = alive \ {r.on}
        /\ notes' = notes \ NotesOf(r.on)
        /\ Served(k, <<>>)
        /\ UNCHANGED <<owners, version, changes>>

Annotate(k) ==
    LET r == asked[k]
        note == [of |-> r.on, n |-> changes + 1]
    IN  /\ r.op = "note" /\ r.on \in Own(r.as) /\ changes < MaxChanges
        /\ notes' = notes \cup {note}
        /\ changes' = changes + 1
        /\ Served(k, <<note>>)
        /\ UNCHANGED <<owners, alive, version>>

Unannotate(k) ==
    LET r == asked[k]
    IN  /\ r.op = "unnote" /\ r.on \in notes /\ r.on.of \in Own(r.as)
        /\ notes' = notes \ {r.on}
        /\ Served(k, <<>>)
        /\ UNCHANGED <<owners, alive, version, changes>>

NotTheirs(k) ==
    LET r == asked[k]
        target == IF r.op = "unnote" THEN r.on.of ELSE r.on
    IN  /\ \/ r.as = NoUser
           \/ r.op \notin {"list", "notes", "create"} /\ target \notin Own(r.as)
           \/ r.op = "unnote" /\ r.on \notin notes
        /\ Refused(k)

Serve ==
    /\ \E k \in DOMAIN asked :
         /\ asked[k].done = "no"
         /\ Read(k) \/ Create(k) \/ Edit(k) \/ Delete(k) \/ Annotate(k) \/ Unannotate(k) \/ NotTheirs(k)
         /\ disturbed' = (disturbed \/ \E j \in 1..(k - 1) : asked[j].done = "no")
    /\ UNCHANGED <<who, mounted, url, screen>>

-----------------------------------------------------------------------------
(* What the store does with the answer to the k-th request.  more are the  *)
(* requests that the answer leads to.                                      *)

Answered(k, more) ==
    /\ Len(asked) - 1 + Len(more) <= MaxRequests
    /\ asked' = RemoveAt(asked, k) \o more
    /\ disturbed' = (disturbed \/ k # 1)

\* what an array's filter leaves when it keeps the elements at positions K; there is one
Kept(s, K) ==
    {[k \in DOMAIN g |-> s[g[k]]] : g \in {g \in SetToSeqs(K) : IsSorted(g, <)}}

Replaced(v) == [k \in DOMAIN list |-> IF list[k].id = v.id THEN v ELSE list[k]]

ListArrives(k) ==
    /\ asked[k].op = "list"
    /\ list' = asked[k].answer
    /\ Answered(k, <<>>)
    /\ UNCHANGED <<active, shown>>

\* a new investigation put at the end of the list
MutCreated(k) ==
    LET becoming == Becoming(asked[k].answer[1].id)
    IN  /\ asked[k].op = "create"
        /\ list' = list \o asked[k].answer
        /\ active' = becoming.active
        /\ Answered(k, Fetches(becoming.fetch))
        /\ UNCHANGED shown

Created(k) ==
    LET becoming == Becoming(asked[k].answer[1].id)
    IN  /\ asked[k].op = "create"
        /\ list' = asked[k].answer \o list
        /\ active' = becoming.active
        /\ Answered(k, Fetches(becoming.fetch))
        /\ UNCHANGED shown

Edited(k) ==
    /\ asked[k].op \in {"update", "get"}
    /\ list' = Replaced(asked[k].answer[1])
    /\ Answered(k, <<>>)
    /\ UNCHANGED <<active, shown>>

\* the investigation is fetched again
EntityEdited(k) ==
    /\ asked[k].op = "entity"
    /\ Answered(k, <<Ask("get", asked[k].on)>>)
    /\ UNCHANGED screen

\* the store clears the active one if it is the deleted one, then the screen clears it
\* whichever it is
Deleted(k) ==
    LET id == asked[k].on
        again == IF active = id /\ mounted /\ url = id THEN <<url, url>> ELSE Becoming(None).fetch
    IN  /\ asked[k].op = "delete"
        /\ list' \in Kept(list, {j \in DOMAIN list : list[j].id # id})
        /\ active' = Becoming(None).active
        /\ Answered(k, Fetches(again))
        /\ UNCHANGED shown

\* the notes of the next investigation put after those of the one before
MutNotesArrive(k) ==
    /\ asked[k].op = "notes"
    /\ shown' = shown \o asked[k].answer
    /\ Answered(k, <<>>)
    /\ UNCHANGED <<active, list>>

NotesArrive(k) ==
    /\ asked[k].op = "notes"
    /\ shown' = asked[k].answer
    /\ Answered(k, <<>>)
    /\ UNCHANGED <<active, list>>

NoteCreated(k) ==
    /\ asked[k].op = "note"
    /\ shown' = shown \o asked[k].answer
    /\ Answered(k, <<>>)
    /\ UNCHANGED <<active, list>>

NoteDeleted(k) ==
    /\ asked[k].op = "unnote"
    /\ shown' \in Kept(shown, {j \in DOMAIN shown : shown[j] # asked[k].on})
    /\ Answered(k, <<>>)
    /\ UNCHANGED <<active, list>>

\* a fetch of notes that fails leaves none; the other requests leave all as it is
Failed(k) ==
    /\ shown' = IF asked[k].op = "notes" THEN <<>> ELSE shown
    /\ asked' = RemoveAt(asked, k)
    /\ UNCHANGED <<active, list>>

Arrive ==
    /\ \E k \in DOMAIN asked :
         \/ /\ asked[k].done = "yes"
            /\ \/ ListArrives(k) \/ Created(k) \/ Edited(k) \/ EntityEdited(k) \/ Deleted(k)
               \/ NotesArrive(k) \/ NoteCreated(k) \/ NoteDeleted(k)
         \/ asked[k].done = "refused" /\ Failed(k) /\ disturbed' = (disturbed \/ k # 1)
         \/ Failed(k) /\ disturbed' = TRUE    \* the request, or its answer, got lost
    /\ UNCHANGED <<who, api, mounted, url>>

-----------------------------------------------------------------------------
\* The store outlives the session, and its requests do too; RequireAuth leaves the page.
SignIn == who = NoUser /\ who' \in User /\ UNCHANGED workspaceVars

SignOut ==
    /\ who # NoUser
    /\ who' = NoUser
    /\ mounted' = FALSE /\ url' = None
    /\ UNCHANGED <<api, screen, asked, disturbed>>

\* The page is loaded again and starts afresh: no answer reaches it any more.
Reload ==
    /\ mounted' = FALSE /\ url' = None
    /\ active' = None /\ list' = <<>> /\ shown' = <<>>
    /\ asked' = <<>> /\ disturbed' = FALSE
    /\ UNCHANGED <<who, api>>

Next ==
    \/ Open \/ Navigate \/ Leave \/ Select \/ Use \/ Serve \/ Arrive
    \/ SignIn \/ SignOut \/ Reload

Spec == Init /\ [][Next]_vars

-----------------------------------------------------------------------------
\* The page is open and at rest.
Settled == mounted /\ asked = <<>>

\* Whatever was done since the page was last opened, if the answers came in turn, the
\* list is that of the API for the user who is signed in, also when another user was
\* signed in before, whose list was not cleared.
ListIsTheirs == Settled /\ ~disturbed => list \in OwnLists(who)

\* Likewise the notes shown are those of the active investigation, each of them once,
\* and none when the active one is another user's or is deleted.
NotesAreOfActive ==
    Settled /\ ~disturbed /\ active # None =>
        /\ ToSet(shown) = IF active \in Own(who) THEN NotesOf(active) ELSE {}
        /\ IsInjective(shown)

=============================================================================
