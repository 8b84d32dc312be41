---------------------------- MODULE EntityTimeline ----------------------------
(***************************************************************************)
(* The timeline tab of an entity's page: the hook useEntityTimeline.ts, the *)
(* effects of pages/EntityAnalysis.tsx that switch it on and off, the       *)
(* scrolling of components/analysis/TimelineView.tsx, and the endpoint      *)
(* /entity/{id}/timeline with entity_timeline.cypher behind it.            *)
(*                                                                         *)
(* The hook never cancels a request, so answers arrive in any order, also  *)
(* after the page moved to another entity; a page of events ends where its *)
(* cursor, a date, says.                                                   *)
(***************************************************************************)
EXTENDS Integers, Sequences, FiniteSets, SequencesExt

CONSTANTS
    Entity,      \* entities the user navigates between
    NoEntity,    \* the hook's empty entityId
    Event,
    EventsOf,    \* the events of each entity
    DateOf,      \* event_date: 1, 2, ...; 0 stands for no cursor
    Limit,       \* events per page
    MaxCalls     \* bound: requests in flight

NoDate == 0

ASSUME TimelineAssumption ==
    /\ NoEntity \notin Entity
    /\ IsFiniteSet(Event)
    /\ EventsOf \in [Entity -> SUBSET Event]
    /\ DateOf \in [Event -> Nat \ {0}]
    /\ Limit \in Nat \ {0}
    /\ MaxCalls \in Nat \ {0}

Date == {DateOf[x] : x \in Event}

VARIABLES
    page,    \* the entity of the page
    tab,     \* activeTab
    enabled, \* timelineEnabled
    loaded,  \* loadedSectionsRef has "timeline"
    hook,    \* the state of useEntityTimeline
    calls,   \* requests in flight
    stale    \* history: an answer that an earlier effect of the hook asked for
             \* was applied to what is shown now

vars == <<page, tab, enabled, loaded, hook, calls, stale>>

\* old: asked for before the hook's effect last ran.
Call == [entity : Entity \cup {NoEntity}, cursor : Date \cup {NoDate},
         old : BOOLEAN]

Get(e, cursor) == [entity |-> e, cursor |-> cursor, old |-> FALSE]

Hook == [events : Seq(Event), loading : BOOLEAN, error : BOOLEAN,
         hasMore : BOOLEAN, cursor : Date \cup {NoDate}]

Cleared == [events |-> <<>>, loading |-> FALSE, error |-> FALSE,
            hasMore |-> FALSE, cursor |-> NoDate]

TypeOK ==
    /\ page \in Entity
    /\ tab \in {"graph", "timeline"}
    /\ enabled \in BOOLEAN
    /\ loaded \in BOOLEAN
    /\ hook \in Hook
    /\ calls \in [Call -> Nat]
    /\ stale \in BOOLEAN

\* The argument of useEntityTimeline.
EntityId == IF enabled THEN page ELSE NoEntity

Pending == {c \in Call : calls[c] > 0}

InFlight == FoldFunction(LAMBDA n, sum : n + sum, 0, calls)

Sent(c) == [calls EXCEPT ![c] = @ + 1]

\* The effect runs for another entityId.
Aged == [c \in Call |-> IF c.old THEN calls[c] + calls[[c EXCEPT !.old = FALSE]]
                        ELSE 0]
SentAfresh(c) == [Aged EXCEPT ![c] = @ + 1]
Answered(c) == [calls EXCEPT ![c] = @ - 1]

-----------------------------------------------------------------------------
\* entity_timeline.cypher: the events before the cursor.
AfterCursor(e, cursor) ==
    {x \in EventsOf[e] : cursor = NoDate \/ DateOf[x] < cursor}

\* Newest first and no more than the limit; events of one date in any order.
Answers(e, cursor) ==
    LET before == AfterCursor(e, cursor)
        n == IF Cardinality(before) < Limit THEN Cardinality(before) ELSE Limit
    IN  {s \in [1 .. n -> before] :
           /\ \A i, j \in 1 .. n :
                i < j => s[i] # s[j] /\ DateOf[s[i]] >= DateOf[s[j]]
           /\ \A x \in before \ {s[i] : i \in 1 .. n} :
                \A i \in 1 .. n : DateOf[x] <= DateOf[s[i]]}

\* Mutant: a page is full only above the limit.
MutFullPage(s) == IF Len(s) > Limit THEN DateOf[Last(s)] ELSE NoDate

\* next_cursor: the date of the last event of a full page.
NextCursor(s) == IF Len(s) = Limit THEN DateOf[Last(s)] ELSE NoDate

-----------------------------------------------------------------------------
\* The page is mounted with whatever tab the store remembers.
Init ==
    /\ page \in Entity
    /\ tab \in {"graph", "timeline"}
    /\ enabled = (tab = "timeline")
    /\ loaded = enabled
    /\ hook = [Cleared EXCEPT !.loading = enabled]
    /\ calls = [c \in Call |->
                  IF enabled /\ c = Get(page, NoDate) THEN 1 ELSE 0]
    /\ stale = FALSE

\* The user follows a connection to another entity.  The hook's effect runs
\* first, with the timeline still enabled; then the page disables it, and the
\* hook, run again, clears.
Navigate ==
    /\ \E e \in Entity \ {page} :
         /\ page' = e
         /\ IF enabled
            THEN /\ InFlight < MaxCalls
                 /\ calls' = SentAfresh([Get(e, NoDate) EXCEPT !.old = TRUE])
                 /\ hook' = Cleared
                 /\ stale' = FALSE
            ELSE UNCHANGED <<calls, hook, stale>>
    /\ enabled' = FALSE
    /\ loaded' = FALSE
    /\ UNCHANGED tab

\* The effect on activeTab enables the timeline once per entity; the hook then
\* clears, all but hasMore, and fetches.
OpenTimeline ==
    /\ tab = "graph"
    /\ tab' = "timeline"
    /\ IF loaded
       THEN UNCHANGED <<enabled, loaded, hook, calls, stale>>
       ELSE /\ InFlight < MaxCalls
            /\ enabled' = TRUE
            /\ loaded' = TRUE
            /\ hook' = [Cleared EXCEPT !.loading = TRUE, !.hasMore = hook.hasMore]
            /\ calls' = SentAfresh(Get(page, NoDate))
            /\ stale' = FALSE
    /\ UNCHANGED page

LeaveTimeline ==
    /\ tab = "timeline"
    /\ tab' = "graph"
    /\ UNCHANGED <<page, enabled, loaded, hook, calls, stale>>

\* Mutant: the sentinel is watched while a page is loading.
MutLoadMore ==
    /\ tab = "timeline"
    /\ hook.hasMore
    /\ hook.cursor # NoDate
    /\ InFlight < MaxCalls
    /\ hook' = [hook EXCEPT !.loading = TRUE]
    /\ calls' = Sent(Get(EntityId, hook.cursor))
    /\ UNCHANGED <<page, tab, enabled, loaded, stale>>

\* The sentinel below the events comes into sight.
LoadMore ==
    /\ tab = "timeline"
    /\ hook.hasMore
    /\ ~hook.loading
    /\ hook.cursor # NoDate
    /\ InFlight < MaxCalls
    /\ hook' = [hook EXCEPT !.loading = TRUE]
    /\ calls' = Sent(Get(EntityId, hook.cursor))
    /\ UNCHANGED <<page, tab, enabled, loaded, stale>>

\* An answer is applied to whatever the hook shows now: the first page replaces
\* the events, a later one is appended.
Respond(c) ==
    /\ c \in Pending
    /\ c.entity # NoEntity
    /\ \E s \in Answers(c.entity, c.cursor) :
         hook' = [hook EXCEPT
                    !.events = IF c.cursor = NoDate THEN s ELSE @ \o s,
                    !.cursor = NextCursor(s),
                    !.hasMore = NextCursor(s) # NoDate,
                    !.loading = FALSE]
    /\ calls' = Answered(c)
    /\ stale' = (stale \/ c.old)
    /\ UNCHANGED <<page, tab, enabled, loaded>>

\* Mutant: no finally.
MutFail(c) ==
    /\ c \in Pending
    /\ hook' = [hook EXCEPT !.error = TRUE]
    /\ calls' = Answered(c)
    /\ UNCHANGED <<page, tab, enabled, loaded, stale>>

\* The request fails, as one without an entity always does.
Fail(c) ==
    /\ c \in Pending
    /\ hook' = [hook EXCEPT !.error = TRUE, !.loading = FALSE]
    /\ calls' = Answered(c)
    /\ stale' = (stale \/ c.old)
    /\ UNCHANGED <<page, tab, enabled, loaded>>

Next ==
    \/ Navigate
    \/ OpenTimeline
    \/ LeaveTimeline
    \/ LoadMore
    \/ \E c \in Call : Respond(c) \/ Fail(c)

Spec == Init /\ [][Next]_vars

\* fetch settles: every request is answered or fails.
FairSpec == Spec /\ \A c \in Call : WF_vars(Respond(c) \/ Fail(c))

-----------------------------------------------------------------------------
Shown == {hook.events[i] : i \in 1 .. Len(hook.events)}

\* x has the date of an event that ended a full page.
AtPageEnd(x) ==
    \E i \in 1 .. Len(hook.events) :
        i % Limit = 0 /\ DateOf[hook.events[i]] = DateOf[x]

\* Whatever the user does and in whatever order answers arrive, unless one that
\* an earlier effect asked for was applied (even its failure, which ends the
\* loading of another page, that is then asked for twice): the events are the
\* entity's, each once and newest first (useEntityTimeline.ts 37-48,
\* entity_timeline.cypher 18-22).
ShownInOrder ==
    ~stale /\ enabled =>
        /\ Shown \subseteq EventsOf[page]
        /\ \A i, j \in 1 .. Len(hook.events) : i < j =>
             /\ hook.events[i] # hook.events[j]
             /\ DateOf[hook.events[i]] >= DateOf[hook.events[j]]

\* Under the same condition, an event newer than the last one shown, or any
\* event once there is no more, is missing only when it has the very date on
\* which a page ended (entity.py 189, entity_timeline.cypher 19).
GapsOnlyAtPageEnds ==
    ~stale /\ enabled =>
        \A x \in EventsOf[page] \ Shown :
            \/ /\ hook.events # <<>>
               /\ hook.hasMore
               /\ DateOf[x] < DateOf[Last(hook.events)]
            \/ AtPageEnd(x)
            \/ hook.events = <<>> /\ (hook.loading \/ hook.error)

\* Loading ends, however many requests are under way (useEntityTimeline.ts 34
\* and 47).
LoadingEnds == hook.loading ~> ~hook.loading

=============================================================================
