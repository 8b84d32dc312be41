--------------------------- MODULE Browser_proofs ---------------------------
(*****************************************************************************)
(* Proofs about what the browser keeps: the timeline of an entity            *)
(* (EntityTimeline) and the session (SessionStore).                          *)
(*****************************************************************************)
EXTENDS EntityTimeline, SessionStore, FiniteSetTheorems, SequenceTheorems, TLAPS

(*****************************************************************************)
(* EntityTimeline, for any entities, events, dates, page size and number of  *)
(* requests in flight: while no answer that an earlier effect asked for was  *)
(* applied, the timeline is in order and its only gaps are at the ends of    *)
(* its pages.                                                                *)
(*                                                                           *)
(* Then at most one request of the present effect is in flight, it asks for  *)
(* what comes after the events that are shown, and a cursor is the date of   *)
(* the last of them, which ends a full page (InTurn).                        *)
(*****************************************************************************)

(* Multiples of the page size. *)
LEMMA Quotient ==
    ASSUME NEW x \in Nat, NEW w \in Nat \ {0}
    PROVE  x \div w \in Nat /\ x = w * (x \div w) + (x % w)
OBVIOUS

LEMMA MultipleOf ==
    ASSUME NEW q \in Nat, NEW w \in Nat \ {0}
    PROVE  (w * q) % w = 0
OBVIOUS

LEMMA OneMore ==
    ASSUME NEW q \in Nat, NEW w \in Nat \ {0}
    PROVE  w * q + w = w * (q + 1)
OBVIOUS

LEMMA Itself == ASSUME NEW w \in Nat \ {0} PROVE w % w = 0
<1>1. w * 1 = w
  OBVIOUS
<1> QED BY <1>1, MultipleOf

LEMMA NextMultiple ==
    ASSUME NEW x \in Nat, NEW w \in Nat \ {0}, x % w = 0
    PROVE  (x + w) % w = 0
<1> DEFINE q == x \div w
<1>1. q \in Nat /\ x = w * q + (x % w)
  BY Quotient
<1>2. q + 1 \in Nat /\ x + w = w * (q + 1)
  BY <1>1, OneMore
<1> HIDE DEF q
<1> QED BY <1>2, MultipleOf

-----------------------------------------------------------------------------
(* A page that is appended. *)
LEMMA Appended ==
    ASSUME NEW S, NEW s \in Seq(S), NEW t \in Seq(S)
    PROVE  /\ s \o t \in Seq(S)
           /\ Len(s) \in Nat /\ Len(t) \in Nat
           /\ Len(s \o t) = Len(s) + Len(t)
           /\ \A i \in 1 .. Len(s) : (s \o t)[i] = s[i]
           /\ \A i \in 1 .. Len(t) : (s \o t)[Len(s) + i] = t[i]
OBVIOUS

-----------------------------------------------------------------------------
(* What the endpoint answers: events before the cursor, newest first, none *)
(* twice, those left out no newer, and all of them if the page is not full. *)
IsPage(e, cursor, s) ==
    /\ s \in Seq(Event)
    /\ Len(s) \in 0 .. Limit
    /\ \A i \in 1 .. Len(s) : s[i] \in AfterCursor(e, cursor)
    /\ \A i, j \in 1 .. Len(s) :
         i < j => s[i] # s[j] /\ DateOf[s[i]] >= DateOf[s[j]]
    /\ \A x \in AfterCursor(e, cursor) \ {s[i] : i \in 1 .. Len(s)} :
         /\ Len(s) = Limit
         /\ \A i \in 1 .. Len(s) : DateOf[x] <= DateOf[s[i]]

LEMMA AnswersArePages ==
    ASSUME NEW e \in Entity, NEW cursor, NEW s \in Answers(e, cursor)
    PROVE  IsPage(e, cursor, s)
<1> DEFINE before == AfterCursor(e, cursor)
           n == IF Cardinality(before) < Limit THEN Cardinality(before) ELSE Limit
<1>1. /\ s \in [1 .. n -> before]
      /\ \A i, j \in 1 .. n :
           i < j => s[i] # s[j] /\ DateOf[s[i]] >= DateOf[s[j]]
      /\ \A x \in before \ {s[i] : i \in 1 .. n} :
           \A i \in 1 .. n : DateOf[x] <= DateOf[s[i]]
  BY DEF Answers
<1>2. before \subseteq Event
  BY TimelineAssumption DEF AfterCursor
<1>3. IsFiniteSet(before) /\ Cardinality(before) \in Nat
  BY <1>2, FS_Subset, FS_CardinalityType, TimelineAssumption
<1>4. n \in Nat /\ n <= Limit /\ (n # Limit => n = Cardinality(before))
  BY <1>3, TimelineAssumption
<1> HIDE DEF before, n
<1>5. s \in Seq(Event) /\ Len(s) = n
  BY <1>1, <1>2, <1>4
<1>6. ASSUME n # Limit, NEW x \in before
      PROVE  x \in {s[i] : i \in 1 .. n}
  <2>1. s \in Injection(1 .. n, before)
    BY <1>1, <1>4 DEF Injection, IsInjective
  <2>2. Cardinality(1 .. n) = Cardinality(before)
    BY <1>4, <1>6, FS_Interval
  <2>3. s \in Surjection(1 .. n, before)
    BY <1>3, <2>1, <2>2, FS_Injection
  <2> QED BY <1>6, <2>3 DEF Surjection
<1> QED BY <1>1, <1>4, <1>5, <1>6, TimelineAssumption DEF IsPage, before

LEMMA CursorOfPage ==
    ASSUME NEW e \in Entity, NEW cursor, NEW s, IsPage(e, cursor, s)
    PROVE  /\ NextCursor(s) \in Date \cup {NoDate}
           /\ Len(s) = Limit => NextCursor(s) = DateOf[s[Limit]] /\ NextCursor(s) # NoDate
           /\ Len(s) # Limit => NextCursor(s) = NoDate
<1>1. Len(s) = Limit => Limit \in 1 .. Len(s) /\ s[Limit] \in Event
  BY TimelineAssumption DEF IsPage
<1> QED BY <1>1, TimelineAssumption DEF NextCursor, Date, NoDate, Last

-----------------------------------------------------------------------------
LEMMA GetType ==
    ASSUME NEW e \in Entity \cup {NoEntity}, NEW d \in Date \cup {NoDate}
    PROVE  /\ Get(e, d) \in Call
           /\ [Get(e, d) EXCEPT !.old = TRUE] \in Call
BY DEF Get, Call

LEMMA AgedType ==
    ASSUME calls \in [Call -> Nat], NEW c \in Call
    PROVE  /\ SentAfresh(c) \in [Call -> Nat]
           /\ \A d \in Call : ~d.old => SentAfresh(c)[d] = IF d = c THEN 1 ELSE 0
<1>1. \A d \in Call : [d EXCEPT !.old = FALSE] \in Call
  BY DEF Call
<1>2. \A d \in Call : calls[d] + calls[[d EXCEPT !.old = FALSE]] \in Nat
  <2> TAKE d \in Call
  <2> DEFINE f == [d EXCEPT !.old = FALSE]
  <2>1. f \in Call
    BY <1>1
  <2> HIDE DEF f
  <2>2. calls[d] + calls[f] \in Nat
    BY <2>1
  <2> QED BY <2>2 DEF f
<1>3. \A d \in Call : d.old \in BOOLEAN
  BY DEF Call
<1>4. /\ Aged \in [Call -> Nat]
      /\ \A d \in Call : ~d.old => Aged[d] = 0
  BY <1>2, <1>3 DEF Aged
<1> QED BY <1>4 DEF SentAfresh

LEMMA SentType ==
    ASSUME calls \in [Call -> Nat], NEW c \in Call
    PROVE  /\ Sent(c) \in [Call -> Nat]
           /\ Sent(c)[c] = calls[c] + 1
           /\ \A d \in Call \ {c} : Sent(c)[d] = calls[d]
BY DEF Sent

LEMMA AnsweredType ==
    ASSUME calls \in [Call -> Nat], NEW c \in Pending
    PROVE  /\ c \in Call
           /\ Answered(c) \in [Call -> Nat]
           /\ Answered(c)[c] = calls[c] - 1
           /\ \A d \in Call \ {c} : Answered(c)[d] = calls[d]
BY DEF Answered, Pending

\* What an answer makes of the hook.
LEMMA Applied ==
    ASSUME TypeOK, NEW c \in Call, Respond(c)
    PROVE  /\ c.entity \in Entity
           /\ \E s : /\ IsPage(c.entity, c.cursor, s)
                     /\ hook'.events = IF c.cursor = NoDate THEN s ELSE hook.events \o s
                     /\ hook'.cursor = NextCursor(s)
                     /\ hook'.hasMore = (NextCursor(s) # NoDate)
                     /\ hook'.loading = FALSE
                     /\ hook'.error = hook.error
                     /\ hook' \in Hook
<1>1. c.entity \in Entity
  BY DEF Respond, Call
<1>2. PICK s \in Answers(c.entity, c.cursor) :
        hook' = [hook EXCEPT
                    !.events = IF c.cursor = NoDate THEN s ELSE @ \o s,
                    !.cursor = NextCursor(s),
                    !.hasMore = NextCursor(s) # NoDate,
                    !.loading = FALSE]
  BY DEF Respond
<1>3. IsPage(c.entity, c.cursor, s)
  BY <1>1, AnswersArePages
<1>4. /\ s \in Seq(Event) /\ hook.events \o s \in Seq(Event)
      /\ NextCursor(s) \in Date \cup {NoDate}
  BY <1>1, <1>3, CursorOfPage, Appended DEF IsPage, TypeOK, Hook
<1>5. /\ hook'.events = IF c.cursor = NoDate THEN s ELSE hook.events \o s
      /\ hook'.cursor = NextCursor(s)
      /\ hook'.hasMore = (NextCursor(s) # NoDate)
      /\ hook'.loading = FALSE
      /\ hook'.error = hook.error
      /\ hook' \in Hook
  BY <1>2, <1>4 DEF TypeOK, Hook
<1> QED BY <1>1, <1>3, <1>5

-----------------------------------------------------------------------------
(* ShownInOrder and GapsOnlyAtPageEnds, and what a cursor means, of a hook's *)
(* state h that shows entity e.                                            *)
Listed(ev) == {ev[i] : i \in 1 .. Len(ev)}

Ordered(e, ev) ==
    /\ Listed(ev) \subseteq EventsOf[e]
    /\ \A i, j \in 1 .. Len(ev) :
         i < j => ev[i] # ev[j] /\ DateOf[ev[i]] >= DateOf[ev[j]]

EndsPage(ev, x) ==
    \E i \in 1 .. Len(ev) : i % Limit = 0 /\ DateOf[ev[i]] = DateOf[x]

Gapless(e, h) ==
    \A x \in EventsOf[e] \ Listed(h.events) :
        \/ /\ h.events # <<>>
           /\ h.hasMore
           /\ DateOf[x] < DateOf[Last(h.events)]
        \/ EndsPage(h.events, x)
        \/ h.events = <<>> /\ (h.loading \/ h.error)

Paged(h) ==
    h.cursor # NoDate =>
        /\ h.events # <<>>
        /\ h.cursor = DateOf[Last(h.events)]
        /\ Len(h.events) % Limit = 0
        /\ h.hasMore

\* The first page, which replaces what was shown.
LEMMA FirstPage ==
    ASSUME NEW e \in Entity, NEW s, IsPage(e, NoDate, s), NEW h,
           h.events = s, h.cursor = NextCursor(s),
           h.hasMore = (NextCursor(s) # NoDate)
    PROVE  Ordered(e, h.events) /\ Gapless(e, h) /\ Paged(h)
<1>1. AfterCursor(e, NoDate) = EventsOf[e]
  BY DEF AfterCursor
<1>2. Ordered(e, s)
  BY <1>1 DEF Ordered, Listed, IsPage
<1>3. /\ Len(s) = Limit => NextCursor(s) = DateOf[s[Limit]] /\ NextCursor(s) # NoDate
      /\ Len(s) # Limit => NextCursor(s) = NoDate
  BY CursorOfPage
<1>4. Limit \in Nat \ {0} /\ Limit % Limit = 0
  BY TimelineAssumption, Itself
<1>5. ASSUME Len(s) = Limit PROVE s # <<>> /\ Last(s) = s[Limit] /\ Limit \in 1 .. Len(s)
  BY <1>4, <1>5 DEF Last, IsPage
<1>6. Paged(h)
  BY <1>3, <1>4, <1>5 DEF Paged
<1>7. ASSUME NEW x \in EventsOf[e] \ Listed(s)
      PROVE  \/ /\ s # <<>>
                /\ h.hasMore
                /\ DateOf[x] < DateOf[Last(s)]
             \/ EndsPage(s, x)
  <2>1. Len(s) = Limit /\ \A i \in 1 .. Len(s) : DateOf[x] <= DateOf[s[i]]
    BY <1>1, <1>7 DEF IsPage, Listed
  <2>2. DateOf[x] <= DateOf[s[Limit]]
    BY <1>5, <2>1
  <2>3. DateOf[x] \in Nat /\ DateOf[s[Limit]] \in Nat
    BY <1>5, <1>7, <2>1, TimelineAssumption DEF IsPage
  <2>4. CASE DateOf[x] = DateOf[s[Limit]]
    BY <1>4, <1>5, <2>1, <2>4 DEF EndsPage
  <2>5. CASE DateOf[x] < DateOf[s[Limit]]
    BY <1>3, <1>5, <2>1, <2>5
  <2> QED BY <2>2, <2>3, <2>4, <2>5
<1> QED BY <1>2, <1>6, <1>7 DEF Gapless

\* A later page, which is appended.
LEMMA NextPage ==
    ASSUME NEW e \in Entity, NEW h, NEW k, NEW s,
           h.events \in Seq(Event), h.cursor # NoDate,
           Ordered(e, h.events), Gapless(e, h), Paged(h),
           IsPage(e, h.cursor, s), k.events = h.events \o s,
           k.cursor = NextCursor(s), k.hasMore = (NextCursor(s) # NoDate)
    PROVE  Ordered(e, k.events) /\ Gapless(e, k) /\ Paged(k)
<1> DEFINE ev == h.events
           m == Len(ev)
           n == Len(s)
           all == ev \o s
<1>1. /\ ev \in Seq(Event) /\ s \in Seq(Event)
      /\ n \in 0 .. Limit /\ Limit \in Nat \ {0}
  BY TimelineAssumption DEF IsPage
<1>2. /\ all \in Seq(Event) /\ m \in Nat /\ n \in Nat /\ Len(all) = m + n
      /\ \A i \in 1 .. m : all[i] = ev[i]
      /\ \A i \in 1 .. n : all[m + i] = s[i]
  BY <1>1, Appended
<1>3. /\ m \in 1 .. m /\ h.cursor = DateOf[ev[m]]
      /\ m % Limit = 0 /\ h.hasMore /\ ev # <<>>
  <2>1. /\ ev # <<>> /\ h.cursor = DateOf[Last(ev)]
        /\ m % Limit = 0 /\ h.hasMore
    BY DEF Paged
  <2>2. m \in 1 .. m
    BY <1>1, <2>1
  <2> QED BY <2>1, <2>2 DEF Last
<1>4. /\ \A i \in 1 .. m : ev[i] \in EventsOf[e] /\ ev[i] \in Event
      /\ \A i, j \in 1 .. m : i < j => ev[i] # ev[j] /\ DateOf[ev[i]] >= DateOf[ev[j]]
  BY <1>1 DEF Ordered, Listed
<1>5. /\ \A i \in 1 .. n : s[i] \in EventsOf[e] /\ DateOf[s[i]] < DateOf[ev[m]]
      /\ \A i, j \in 1 .. n : i < j => s[i] # s[j] /\ DateOf[s[i]] >= DateOf[s[j]]
  BY <1>3 DEF IsPage, AfterCursor
<1>6. /\ \A i \in 1 .. m : DateOf[ev[i]] \in Nat /\ DateOf[ev[m]] \in Nat
      /\ \A i \in 1 .. n : DateOf[s[i]] \in Nat
      /\ \A x \in EventsOf[e] : DateOf[x] \in Nat
  BY <1>1, <1>3, <1>4, TimelineAssumption
<1>7. \A i \in 1 .. m : DateOf[ev[i]] >= DateOf[ev[m]]
  <2> SUFFICES ASSUME NEW i \in 1 .. m PROVE DateOf[ev[i]] >= DateOf[ev[m]]
    OBVIOUS
  <2>1. CASE i = m
    BY <1>6, <2>1
  <2>2. CASE i < m
    BY <1>3, <1>4, <2>2
  <2> QED BY <1>2, <2>1, <2>2
<1>8. \A j \in 1 .. Len(all) : j \in 1 .. m \/ (j - m \in 1 .. n /\ all[j] = s[j - m])
  <2> SUFFICES ASSUME NEW j \in 1 .. Len(all), j \notin 1 .. m
               PROVE  j - m \in 1 .. n /\ all[j] = s[j - m]
    OBVIOUS
  <2>1. j - m \in 1 .. n /\ m + (j - m) = j
    BY <1>2
  <2> QED BY <1>2, <2>1
<1>9. /\ n = Limit => NextCursor(s) = DateOf[s[Limit]] /\ NextCursor(s) # NoDate
      /\ n # Limit => NextCursor(s) = NoDate
  BY CursorOfPage
<1>10. ASSUME n = Limit
       PROVE  /\ all # <<>> /\ Last(all) = s[Limit] /\ Limit \in 1 .. n
              /\ m + Limit \in 1 .. Len(all) /\ all[m + Limit] = s[Limit]
              /\ (m + Limit) % Limit = 0
  <2>1. Limit \in 1 .. n /\ m + Limit \in 1 .. Len(all) /\ all[m + Limit] = s[Limit]
    BY <1>1, <1>2, <1>10
  <2>2. (m + Limit) % Limit = 0
    BY <1>1, <1>2, <1>3, NextMultiple
  <2>3. all # <<>> /\ Last(all) = s[Limit]
    BY <1>2, <1>10, <2>1 DEF Last
  <2> QED BY <2>1, <2>2, <2>3
<1>11. Paged(k)
  BY <1>2, <1>9, <1>10 DEF Paged
<1>12. Listed(all) \subseteq EventsOf[e] /\ Listed(ev) \subseteq Listed(all)
       /\ \A i \in 1 .. n : s[i] \in Listed(all)
  <2>1. \A i \in 1 .. m : i \in 1 .. Len(all)
    BY <1>2
  <2>2. \A i \in 1 .. n : m + i \in 1 .. Len(all)
    BY <1>2
  <2>3. \A i \in 1 .. n : all[m + i] \in Listed(all)
    BY <2>2 DEF Listed
  <2>4. Listed(ev) \subseteq Listed(all)
    BY <1>2, <2>1 DEF Listed
  <2>5. \A j \in 1 .. Len(all) : all[j] \in EventsOf[e]
    BY <1>2, <1>4, <1>5, <1>8
  <2>6. Listed(all) \subseteq EventsOf[e]
    BY <2>5 DEF Listed
  <2> QED BY <1>2, <2>3, <2>4, <2>6
<1> HIDE DEF all, m, n, ev
<1>13. ASSUME NEW i \in 1 .. Len(all), NEW j \in 1 .. Len(all), i < j
       PROVE  all[i] # all[j] /\ DateOf[all[i]] >= DateOf[all[j]]
  <2>1. CASE j \in 1 .. m
    <3>1. i \in 1 .. m
      BY <1>2, <1>13, <2>1
    <3> QED BY <1>2, <1>4, <1>13, <2>1, <3>1
  <2>2. CASE i \in 1 .. m /\ j \notin 1 .. m
    <3>1. j - m \in 1 .. n /\ all[j] = s[j - m] /\ all[i] = ev[i]
      BY <1>2, <1>8, <2>2
    <3>2. DateOf[s[j - m]] < DateOf[ev[m]] /\ DateOf[ev[i]] >= DateOf[ev[m]]
      BY <1>5, <1>7, <2>2, <3>1
    <3>3. DateOf[s[j - m]] \in Nat /\ DateOf[ev[i]] \in Nat /\ DateOf[ev[m]] \in Nat
      BY <1>6, <2>2, <3>1
    <3> QED BY <3>1, <3>2, <3>3
  <2>3. CASE i \notin 1 .. m /\ j \notin 1 .. m
    <3>1. /\ j - m \in 1 .. n /\ all[j] = s[j - m]
          /\ i - m \in 1 .. n /\ all[i] = s[i - m]
      BY <1>8, <2>3
    <3>2. i - m < j - m
      BY <1>2, <1>13
    <3> QED BY <1>5, <3>1, <3>2
  <2> QED BY <1>2, <1>13, <2>1, <2>2, <2>3
<1>14. Ordered(e, all)
  BY <1>12, <1>13 DEF Ordered
<1>15. ASSUME NEW x \in EventsOf[e] \ Listed(all)
       PROVE  \/ /\ all # <<>>
                 /\ k.hasMore
                 /\ DateOf[x] < DateOf[Last(all)]
              \/ EndsPage(all, x)
  <2>1. x \in EventsOf[e] \ Listed(ev)
    BY <1>12, <1>15
  <2>2. \/ DateOf[x] < DateOf[ev[m]]
        \/ EndsPage(ev, x)
    BY <1>3, <2>1 DEF Gapless, Last, ev, m
  <2>3. CASE EndsPage(ev, x)
    <3>1. PICK i \in 1 .. m : i % Limit = 0 /\ DateOf[ev[i]] = DateOf[x]
      BY <2>3 DEF EndsPage, m
    <3>2. i \in 1 .. Len(all) /\ all[i] = ev[i]
      BY <1>2
    <3> QED BY <3>1, <3>2 DEF EndsPage
  <2>4. CASE DateOf[x] < DateOf[ev[m]]
    <3>1. x \in AfterCursor(e, h.cursor) \ {s[i] : i \in 1 .. Len(s)}
      BY <1>3, <1>12, <1>15, <2>4 DEF AfterCursor, n
    <3>2. n = Limit /\ \A i \in 1 .. n : DateOf[x] <= DateOf[s[i]]
      BY <3>1 DEF IsPage, n
    <3>3. /\ DateOf[x] <= DateOf[s[Limit]]
          /\ DateOf[x] \in Nat /\ DateOf[s[Limit]] \in Nat
      BY <1>6, <1>10, <1>15, <3>2
    <3>4. CASE DateOf[x] = DateOf[s[Limit]]
      BY <1>10, <3>2, <3>4 DEF EndsPage
    <3>5. CASE DateOf[x] < DateOf[s[Limit]]
      BY <1>9, <1>10, <3>2, <3>5
    <3> QED BY <3>3, <3>4, <3>5
  <2> QED BY <2>2, <2>3, <2>4
<1>16. k.events = all
  BY DEF all, ev
<1> QED BY <1>11, <1>14, <1>15, <1>16 DEF Gapless

-----------------------------------------------------------------------------
Fresh == {c \in Call : ~c.old /\ calls[c] > 0}

\* What is in flight was asked for by what is shown.
InTurn ==
    /\ \A c \in Fresh :
         hook.loading /\ c.entity = page /\ calls[c] = 1 /\ c.cursor = hook.cursor
    /\ Ordered(page, hook.events)
    /\ Gapless(page, hook)
    /\ Paged(hook)

TimelineInv == TypeOK /\ (~stale /\ enabled => InTurn)

LEMMA InTurnShown ==
    ASSUME TimelineInv
    PROVE  ShownInOrder /\ GapsOnlyAtPageEnds
BY DEF TimelineInv, InTurn, ShownInOrder, GapsOnlyAtPageEnds, Shown, AtPageEnd,
       Listed, Ordered, Gapless, EndsPage

\* A timeline that was just switched on or shown again.
LEMMA Started ==
    ASSUME NEW e \in Entity, NEW h, h.events = <<>>, h.loading, h.cursor = NoDate
    PROVE  Ordered(e, h.events) /\ Gapless(e, h) /\ Paged(h)
<1>1. /\ Listed(h.events) = {}
      /\ \A i \in 1 .. Len(h.events) : FALSE
  BY DEF Listed
<1> QED BY <1>1 DEF Ordered, Gapless, Paged

LEMMA ClearedType ==
    /\ Cleared \in Hook
    /\ Cleared.events = <<>> /\ Cleared.loading = FALSE /\ Cleared.cursor = NoDate
<1> DEFINE none == <<>>
           dates == Date \cup {NoDate}
<1>1. none \in Seq(Event) /\ NoDate \in dates
  OBVIOUS
<1>2. Cleared = [events |-> none, loading |-> FALSE, error |-> FALSE,
                 hasMore |-> FALSE, cursor |-> NoDate]
  BY DEF Cleared
<1>3. Hook = [events : Seq(Event), loading : BOOLEAN, error : BOOLEAN,
              hasMore : BOOLEAN, cursor : dates]
  BY DEF Hook
<1> HIDE DEF none, dates
<1>4. /\ Cleared \in Hook
      /\ Cleared.events = none /\ Cleared.loading = FALSE /\ Cleared.cursor = NoDate
  BY <1>1, <1>2, <1>3
<1> QED BY <1>4 DEF none

LEMMA Opened ==
    ASSUME NEW b \in BOOLEAN, NEW d \in BOOLEAN
    PROVE  LET h == [Cleared EXCEPT !.loading = b, !.hasMore = d]
               g == [Cleared EXCEPT !.loading = b]
           IN  /\ h \in Hook /\ h.events = <<>> /\ h.loading = b /\ h.cursor = NoDate
               /\ g \in Hook /\ g.events = <<>> /\ g.loading = b /\ g.cursor = NoDate
BY ClearedType DEF Hook

LEMMA InitTimeline == Init => TimelineInv
<1> SUFFICES ASSUME Init PROVE TimelineInv
  OBVIOUS
<1>1. page \in Entity /\ enabled \in BOOLEAN /\ NoDate \in Date \cup {NoDate}
  BY DEF Init
<1>2. hook = [Cleared EXCEPT !.loading = enabled] /\ hook \in Hook
      /\ hook.events = <<>> /\ hook.loading = enabled /\ hook.cursor = NoDate
  BY <1>1, Opened DEF Init
<1>3. calls \in [Call -> Nat]
      /\ \A c \in Call : calls[c] > 0 => c = Get(page, NoDate) /\ calls[c] = 1
  BY DEF Init
<1>4. TypeOK
  BY <1>1, <1>2, <1>3 DEF Init, TypeOK
<1>5. Get(page, NoDate).entity = page /\ Get(page, NoDate).cursor = NoDate
  BY DEF Get
<1>6. ASSUME enabled PROVE InTurn
  BY <1>1, <1>2, <1>3, <1>5, <1>6, Started DEF InTurn, Fresh
<1> QED BY <1>4, <1>6 DEF TimelineInv

LEMMA NavigateInv == TimelineInv /\ Navigate => TimelineInv'
<1> SUFFICES ASSUME TimelineInv, Navigate PROVE TimelineInv'
  OBVIOUS
<1>1. PICK e \in Entity \ {page} :
         /\ page' = e
         /\ IF enabled
            THEN /\ InFlight < MaxCalls
                 /\ calls' = SentAfresh([Get(e, NoDate) EXCEPT !.old = TRUE])
                 /\ hook' = Cleared
                 /\ stale' = FALSE
            ELSE UNCHANGED <<calls, hook, stale>>
  BY DEF Navigate
<1>2. ~enabled' /\ loaded' = FALSE /\ tab' = tab /\ enabled' \in BOOLEAN
  BY DEF Navigate
<1>3. SentAfresh([Get(e, NoDate) EXCEPT !.old = TRUE]) \in [Call -> Nat]
  BY GetType, AgedType DEF TimelineInv, TypeOK
<1>4. calls' \in [Call -> Nat] /\ hook' \in Hook /\ stale' \in BOOLEAN
  BY <1>1, <1>3, ClearedType DEF TimelineInv, TypeOK
<1>5. TypeOK'
  BY <1>1, <1>2, <1>4 DEF TimelineInv, TypeOK
<1> QED BY <1>2, <1>5 DEF TimelineInv

LEMMA OpenTimelineInv == TimelineInv /\ OpenTimeline => TimelineInv'
<1> SUFFICES ASSUME TimelineInv, OpenTimeline PROVE TimelineInv'
  OBVIOUS
<1>1. page' = page /\ tab' = "timeline" /\ page \in Entity
  BY DEF OpenTimeline, TimelineInv, TypeOK
<1>2. CASE loaded
  <2>1. UNCHANGED <<enabled, loaded, hook, calls, stale>>
    BY <1>2 DEF OpenTimeline
  <2> QED BY <1>1, <2>1 DEF TimelineInv, TypeOK, InTurn, Fresh, Ordered, Gapless, Paged,
                            Listed, EndsPage
<1>3. CASE ~loaded
  <2>1. /\ enabled' = TRUE /\ loaded' = TRUE /\ stale' = FALSE
        /\ hook' = [Cleared EXCEPT !.loading = TRUE, !.hasMore = hook.hasMore]
        /\ calls' = SentAfresh(Get(page, NoDate))
    BY <1>3 DEF OpenTimeline
  <2>2. /\ Get(page, NoDate) \in Call
        /\ Get(page, NoDate).entity = page /\ Get(page, NoDate).cursor = NoDate
    BY <1>1, GetType DEF Get
  <2>3. /\ calls' \in [Call -> Nat]
        /\ \A d \in Call : ~d.old => calls'[d] = IF d = Get(page, NoDate) THEN 1 ELSE 0
    BY <2>1, <2>2, AgedType DEF TimelineInv, TypeOK
  <2>4. hook.hasMore \in BOOLEAN
    BY DEF TimelineInv, TypeOK, Hook
  <2>5. /\ hook' \in Hook /\ hook'.events = <<>> /\ hook'.loading
        /\ hook'.cursor = NoDate
    BY <2>1, <2>4, Opened
  <2>6. TypeOK'
    BY <1>1, <2>1, <2>3, <2>5 DEF TypeOK
  <2>7. \A d \in Call : ~d.old /\ calls'[d] > 0 =>
          hook'.loading /\ d.entity = page' /\ calls'[d] = 1 /\ d.cursor = hook'.cursor
    BY <1>1, <2>2, <2>3, <2>5
  <2>8. Ordered(page', hook'.events) /\ Gapless(page', hook') /\ Paged(hook')
    BY <1>1, <2>5, Started
  <2> QED BY <2>6, <2>7, <2>8 DEF TimelineInv, InTurn, Fresh
<1> QED BY <1>2, <1>3

LEMMA LoadMoreInv == TimelineInv /\ LoadMore => TimelineInv'
<1> SUFFICES ASSUME TimelineInv, LoadMore PROVE TimelineInv'
  OBVIOUS
<1> DEFINE c == Get(EntityId, hook.cursor)
<1>1. /\ hook' = [hook EXCEPT !.loading = TRUE] /\ calls' = Sent(c)
      /\ UNCHANGED <<page, tab, enabled, loaded, stale>> /\ ~hook.loading
  BY DEF LoadMore
<1>2. EntityId \in Entity \cup {NoEntity} /\ hook.cursor \in Date \cup {NoDate}
      /\ hook \in Hook /\ calls \in [Call -> Nat]
  BY DEF EntityId, TimelineInv, TypeOK, Hook
<1>3. c \in Call /\ c.entity = EntityId /\ c.cursor = hook.cursor /\ ~c.old
  BY <1>2, GetType DEF Get
<1> HIDE DEF c
<1>4. /\ calls' \in [Call -> Nat] /\ calls'[c] = calls[c] + 1
      /\ \A d \in Call \ {c} : calls'[d] = calls[d]
  BY <1>1, <1>2, <1>3, SentType
<1>5. /\ hook' \in Hook /\ hook'.loading /\ hook'.events = hook.events
      /\ hook'.cursor = hook.cursor /\ hook'.hasMore = hook.hasMore
      /\ hook'.error = hook.error
  BY <1>1, <1>2 DEF Hook
<1>6. TypeOK'
  BY <1>1, <1>4, <1>5 DEF TimelineInv, TypeOK
<1>7. ASSUME ~stale', enabled' PROVE InTurn'
  <2>1. InTurn /\ EntityId = page
    BY <1>1, <1>7 DEF TimelineInv, EntityId
  <2>2. \A d \in Call : ~d.old => calls[d] = 0
    BY <1>1, <1>2, <2>1 DEF InTurn, Fresh
  <2>3. \A d \in Call : ~d.old /\ calls'[d] > 0 =>
          hook'.loading /\ d.entity = page' /\ calls'[d] = 1 /\ d.cursor = hook'.cursor
    BY <1>1, <1>3, <1>4, <1>5, <2>1, <2>2
  <2>4. Ordered(page', hook'.events) /\ Gapless(page', hook') /\ Paged(hook')
    BY <1>1, <1>5, <2>1 DEF InTurn, Gapless, Paged
  <2> QED BY <2>3, <2>4 DEF InTurn, Fresh
<1> QED BY <1>6, <1>7 DEF TimelineInv

\* The one request of the present effect that is in flight is answered.
LEMMA LastAnswered ==
    ASSUME TimelineInv, InTurn, NEW c \in Pending, calls' = Answered(c), ~c.old
    PROVE  /\ c.entity = page /\ c.cursor = hook.cursor
           /\ \A d \in Call : ~d.old => ~(calls'[d] > 0)
<1>1. c \in Call /\ c \in Fresh
  BY DEF Pending, Fresh
<1>2. c.entity = page /\ c.cursor = hook.cursor /\ calls[c] = 1
  BY <1>1 DEF InTurn
<1>3. /\ calls'[c] = 0
      /\ \A d \in Call \ {c} : calls'[d] = calls[d]
  BY <1>2, AnsweredType DEF TimelineInv, TypeOK
<1>4. ASSUME NEW d \in Call, ~d.old, d # c PROVE ~(calls[d] > 0)
  <2>1. SUFFICES ASSUME calls[d] > 0 PROVE FALSE
    OBVIOUS
  <2>2. d.entity = page /\ d.cursor = hook.cursor
    BY <1>4, <2>1 DEF InTurn, Fresh
  <2>3. d = c
    BY <1>1, <1>2, <1>4, <2>2 DEF Call
  <2> QED BY <1>4, <2>3
<1> QED BY <1>2, <1>3, <1>4

LEMMA RespondInv ==
    ASSUME TimelineInv, NEW c \in Call, Respond(c)
    PROVE  TimelineInv'
<1>1. /\ calls' = Answered(c) /\ stale' = (stale \/ c.old) /\ c \in Pending
      /\ UNCHANGED <<page, tab, enabled, loaded>>
  BY DEF Respond
<1>2. TypeOK /\ c.old \in BOOLEAN
  BY DEF TimelineInv, Call
<1>3. PICK s : /\ IsPage(c.entity, c.cursor, s)
               /\ hook'.events = IF c.cursor = NoDate THEN s ELSE hook.events \o s
               /\ hook'.cursor = NextCursor(s)
               /\ hook'.hasMore = (NextCursor(s) # NoDate)
               /\ hook' \in Hook
  BY <1>2, Applied
<1>4. calls' \in [Call -> Nat]
  BY <1>1, <1>2, AnsweredType DEF TypeOK
<1>5. TypeOK'
  BY <1>1, <1>2, <1>3, <1>4 DEF TypeOK
<1>6. ASSUME ~stale', enabled' PROVE InTurn'
  <2>1. InTurn /\ ~c.old
    BY <1>1, <1>6 DEF TimelineInv
  <2>2. /\ c.entity = page /\ c.cursor = hook.cursor
        /\ \A d \in Call : ~d.old => ~(calls'[d] > 0)
    BY <1>1, <2>1, LastAnswered
  <2>3. page \in Entity /\ hook.events \in Seq(Event)
    BY <1>2 DEF TypeOK, Hook
  <2>4. Ordered(page, hook'.events) /\ Gapless(page, hook') /\ Paged(hook')
    <3>1. CASE c.cursor = NoDate
      BY <1>3, <2>2, <2>3, <3>1, FirstPage
    <3>2. CASE c.cursor # NoDate
      <4>1. Ordered(page, hook.events) /\ Gapless(page, hook) /\ Paged(hook)
        BY <2>1 DEF InTurn
      <4>2. hook.cursor # NoDate /\ IsPage(page, hook.cursor, s)
            /\ hook'.events = hook.events \o s
        BY <1>3, <2>2, <3>2
      <4> QED BY <1>3, <2>3, <4>1, <4>2, NextPage
    <3> QED BY <3>1, <3>2
  <2> QED BY <1>1, <2>2, <2>4 DEF InTurn, Fresh
<1> QED BY <1>5, <1>6 DEF TimelineInv

LEMMA FailInv ==
    ASSUME TimelineInv, NEW c \in Call, Fail(c)
    PROVE  TimelineInv'
<1>1. /\ calls' = Answered(c) /\ stale' = (stale \/ c.old) /\ c \in Pending
      /\ hook' = [hook EXCEPT !.error = TRUE, !.loading = FALSE]
      /\ UNCHANGED <<page, tab, enabled, loaded>>
  BY DEF Fail
<1>2. TypeOK /\ c.old \in BOOLEAN /\ hook \in Hook
  BY DEF TimelineInv, Call, TypeOK
<1>3. /\ hook' \in Hook /\ hook'.events = hook.events /\ hook'.error
      /\ hook'.cursor = hook.cursor /\ hook'.hasMore = hook.hasMore
  BY <1>1, <1>2 DEF Hook
<1>4. calls' \in [Call -> Nat]
  BY <1>1, <1>2, AnsweredType DEF TypeOK
<1>5. TypeOK'
  BY <1>1, <1>2, <1>3, <1>4 DEF TypeOK
<1>6. ASSUME ~stale', enabled' PROVE InTurn'
  <2>1. InTurn /\ ~c.old
    BY <1>1, <1>6 DEF TimelineInv
  <2>2. \A d \in Call : ~d.old => ~(calls'[d] > 0)
    BY <1>1, <2>1, LastAnswered
  <2>3. Ordered(page', hook'.events) /\ Gapless(page', hook') /\ Paged(hook')
    BY <1>1, <1>3, <2>1 DEF InTurn, Gapless, Paged
  <2> QED BY <2>2, <2>3 DEF InTurn, Fresh
<1> QED BY <1>5, <1>6 DEF TimelineInv

LEMMA StepTimeline == TimelineInv /\ [Next]_vars => TimelineInv'
<1> SUFFICES ASSUME TimelineInv, [Next]_vars PROVE TimelineInv'
  OBVIOUS
<1>1. CASE LeaveTimeline
  BY <1>1 DEF LeaveTimeline, TimelineInv, TypeOK, InTurn, Fresh, Ordered, Gapless,
              Paged, Listed, EndsPage
<1>2. CASE UNCHANGED vars
  BY <1>2 DEF vars, TimelineInv, TypeOK, InTurn, Fresh, Ordered, Gapless, Paged,
              Listed, EndsPage
<1> QED BY <1>1, <1>2, NavigateInv, OpenTimelineInv, LoadMoreInv, RespondInv, FailInv
        DEF Next

-----------------------------------------------------------------------------
(* Every request in flight and every state of the hook is well formed,     *)
(* however often the user moves between entities and tabs                  *)
(* (useEntityTimeline.ts 17 to 68).                                        *)
THEOREM TimelineTypeCorrect == Spec => []TypeOK
<1> QED BY InitTimeline, StepTimeline, PTL DEF Spec, TimelineInv

(* The timeline shows events of its entity, each once and newest first,    *)
(* for any entities, dates and page size, unless an answer that an earlier *)
(* effect asked for was applied (useEntityTimeline.ts 37 to 48).           *)
THEOREM ShownStaysInOrder == Spec => []ShownInOrder
<1> QED BY InitTimeline, StepTimeline, InTurnShown, PTL DEF Spec

(* Under the same condition, the only gaps in the timeline are at the      *)
(* dates on which a page ended (entity.py 189, entity_timeline.cypher 19). *)
THEOREM GapsStayAtPageEnds == Spec => []GapsOnlyAtPageEnds
<1> QED BY InitTimeline, StepTimeline, InTurnShown, PTL DEF Spec

(*****************************************************************************)
(* SessionStore, for any number of users, of requests in flight and of       *)
(* reloads: the state is well typed, the user on the screen is the one of    *)
(* the cookie, and a sign-out lasts.                                         *)
(*                                                                           *)
(* The two properties hold while no answer was late.  What makes them        *)
(* inductive is which requests can then be in flight together: the page that *)
(* was just loaded waits for one answer and can do nothing else; who is      *)
(* signed in has at most the question who that is in flight; a sign-in is    *)
(* the last request sent; and a sign-out whose cookie is not deleted yet is  *)
(* still on its way.                                                         *)
(*****************************************************************************)

\* A page that was just loaded waits for the one answer to its question.
Loaded ==
    ~restored => requests = <<Request("restore", cookie)>> /\ token = NoUser /\ ~loading

\* Whoever is signed in is the user of the cookie; only /auth/me may be under way.
SignedIn ==
    token # NoUser =>
        /\ restored /\ ~loading /\ ~signedOut
        /\ cookie = token /\ user \in {token, NoUser}
        /\ requests \in {<<>>, <<Request("me", token)>>}

SignedOut ==
    token = NoUser =>
        /\ user = NoUser
        /\ signedOut /\ cookie # NoUser =>
              \E i \in DOMAIN requests : requests[i].op = "logout"

\* What may be in flight once the page is restored.
UnderWay ==
    restored =>
        \A i \in DOMAIN requests :
            /\ requests[i].op # "restore"
            /\ requests[i].op \in {"me", "login", "register"} => requests[i].as \in User
            /\ requests[i].op \in {"login", "register"} =>
                  i = Len(requests) /\ loading /\ ~signedOut

OnTime == Loaded /\ SignedIn /\ SignedOut /\ UnderWay

SessionInv == SessionTypeOK /\ (~late => OnTime)
-----------------------------------------------------------------------------
(* Taking a request out of the sequence.                                   *)

LEMMA Removed ==
    ASSUME NEW s \in Seq(Requests), NEW i \in 1..Len(s)
    PROVE  RemoveAt(s, i) \in Seq(Requests)
<1>1. SubSeq(s, 1, i-1) \in Seq(Requests) /\ SubSeq(s, i+1, Len(s)) \in Seq(Requests)
    BY SubSeqProperties
<1> QED
    BY <1>1, ConcatProperties DEF RemoveAt

LEMMA FirstRemoved ==
    ASSUME NEW s \in Seq(Requests), s # <<>>
    PROVE  RemoveAt(s, 1) = Tail(s)
<1>1. SubSeq(s, 1, 0) = <<>>
    BY SubSeqEmpty
<1>2. SubSeq(s, 2, Len(s)) = Tail(s) /\ Tail(s) \in Seq(Requests)
    BY TailIsSubSeq
<1>3. <<>> \o Tail(s) = Tail(s)
    BY <1>2, ConcatEmptySeq
<1> QED
    BY <1>1, <1>2, <1>3 DEF RemoveAt

LEMMA ReceivedType ==
    ASSUME SessionTypeOK, NEW i \in DOMAIN requests, NEW sent \in Seq(Requests), Received(i, sent)
    PROVE  requests' \in Seq(Requests) /\ late' \in BOOLEAN
<1>1. requests \in Seq(Requests) /\ i \in 1..Len(requests)
    BY DEF SessionTypeOK
<1>2. RemoveAt(requests, i) \in Seq(Requests)
    BY <1>1, Removed
<1>3. RemoveAt(requests, i) \o sent \in Seq(Requests)
    BY <1>2, ConcatProperties
<1> QED
    BY <1>3 DEF Received, SessionTypeOK

\* An answer in time is the one to the first request.
LEMMA InTime ==
    ASSUME SessionTypeOK, NEW i \in DOMAIN requests, NEW sent \in Seq(Requests),
           Received(i, sent), ~late'
    PROVE  i = 1 /\ ~late /\ requests # <<>> /\ requests' = Tail(requests) \o sent
<1>1. requests \in Seq(Requests) /\ i \in 1..Len(requests)
    BY DEF SessionTypeOK
<1>3. late' = (late \/ i # 1)
    BY DEF Received
<1>4. ~late /\ i = 1
    BY <1>3, Zenon
<1>2. requests # <<>>
    BY <1>1
<1> QED
    BY <1>1, <1>2, <1>4, FirstRemoved DEF Received

LEMMA NothingSent ==
    ASSUME SessionTypeOK, NEW i \in DOMAIN requests, Received(i, <<>>), ~late'
    PROVE  i = 1 /\ ~late /\ requests # <<>> /\ requests' = Tail(requests)
<1>1. <<>> \in Seq(Requests) /\ requests \in Seq(Requests)
    BY DEF SessionTypeOK
<1>2. i = 1 /\ ~late /\ requests # <<>> /\ requests' = Tail(requests) \o <<>>
    BY <1>1, InTime
<1>3. Tail(requests) \in Seq(Requests)
    BY <1>1, <1>2
<1> QED
    BY <1>2, <1>3, ConcatEmptySeq

-----------------------------------------------------------------------------
(* Types.                                                                  *)

LEMMA SendType ==
    ASSUME SessionTypeOK, NEW call \in Requests, Send(call)
    PROVE  requests' \in Seq(Requests)
    BY DEF Send, SessionTypeOK

LEMMA OneCall == ASSUME NEW call \in Requests PROVE <<call>> \in Seq(Requests)
    OBVIOUS

LEMMA Requested ==
    ASSUME NEW op \in {"restore", "login", "me", "register", "logout"}, NEW as \in Anyone
    PROVE  Request(op, as) \in Requests /\ <<Request(op, as)>> \in Seq(Requests)
<1>1. Request(op, as) \in Requests
    BY DEF Request, Requests, Anyone
<1> QED
    BY <1>1, OneCall

LEMMA TypeInductive == SessionTypeOK /\ [SessionNext]_sessionVars => SessionTypeOK'
<1> SUFFICES ASSUME SessionTypeOK, [SessionNext]_sessionVars
             PROVE  SessionTypeOK'
    OBVIOUS
<1> USE SessionAssumption
<1>1. ASSUME NEW u \in User, Login(u) \/ Register(u)
      PROVE  SessionTypeOK'
    <2>1. u \in Anyone
        BY DEF Anyone
    <2>2. requests' \in Seq(Requests)
        BY <1>1, <2>1, SendType, Requested DEF Login, Register
    <2> QED
        BY <1>1, <2>2 DEF Login, Register, SessionTypeOK
<1>2. CASE Logout
    <2>1. cookie \in Anyone /\ NoUser \in Anyone
        BY DEF SessionTypeOK, Anyone
    <2>2. requests' \in Seq(Requests)
        BY <1>2, <2>1, SendType, Requested DEF Logout
    <2> QED
        BY <1>2, <2>1, <2>2 DEF Logout, SessionTypeOK
<1>3. ASSUME NEW i \in DOMAIN requests,
             \/ LoginAnswered(i) \/ MeAnswered(i) \/ RegisterAnswered(i)
             \/ LogoutAnswered(i) \/ RestoreAnswered(i)
      PROVE  SessionTypeOK'
    <2>1. /\ requests \in Seq(Requests) /\ i \in 1..Len(requests) /\ <<>> \in Seq(Requests)
          /\ requests[i].as \in Anyone /\ NoUser \in Anyone
        <3>1. requests \in Seq(Requests) /\ i \in 1..Len(requests) /\ <<>> \in Seq(Requests)
            BY DEF SessionTypeOK
        <3>2. requests[i] \in Requests
            BY <3>1
        <3> QED
            BY <3>1, <3>2 DEF Requests, Anyone
    <2>2. RemoveAt(requests, i) \in Seq(Requests)
        BY <2>1, Removed
    <2>3. CASE LoginAnswered(i)
        <3>1. <<Request("me", requests[i].as)>> \in Seq(Requests)
            BY <2>1, Requested
        <3>2. requests' \in Seq(Requests) /\ late' \in BOOLEAN
            BY <2>1, <2>3, <3>1, ReceivedType DEF LoginAnswered
        <3> QED
            BY <2>1, <2>3, <3>2 DEF LoginAnswered, SignInFailed, SessionTypeOK
    <2>4. CASE MeAnswered(i)
        <3>1. requests' \in Seq(Requests) /\ late' \in BOOLEAN
            BY <2>2, <2>4 DEF MeAnswered, SessionTypeOK
        <3> QED
            BY <2>1, <2>4, <3>1 DEF MeAnswered, SignInFailed, SessionTypeOK
    <2>5. CASE RegisterAnswered(i)
        <3>1. <<Request("login", requests[i].as)>> \in Seq(Requests)
            BY <2>1, Requested
        <3>2. requests' \in Seq(Requests) /\ late' \in BOOLEAN
            BY <2>1, <2>5, <3>1, ReceivedType DEF RegisterAnswered
        <3> QED
            BY <2>1, <2>5, <3>2 DEF RegisterAnswered, SessionTypeOK
    <2>6. CASE LogoutAnswered(i)
        <3>1. requests' \in Seq(Requests) /\ late' \in BOOLEAN
            BY <2>1, <2>2, <2>6, ReceivedType DEF LogoutAnswered
        <3> QED
            BY <2>1, <2>6, <3>1 DEF LogoutAnswered, store, SessionTypeOK
    <2>7. CASE RestoreAnswered(i)
        <3>1. requests' \in Seq(Requests) /\ late' \in BOOLEAN
            BY <2>1, <2>7, ReceivedType DEF RestoreAnswered
        <3> QED
            BY <2>1, <2>7, <3>1 DEF RestoreAnswered, SessionTypeOK
    <2> QED
        BY <1>3, <2>3, <2>4, <2>5, <2>6, <2>7
<1>4. CASE Reload
    <2>1. cookie \in Anyone /\ NoUser \in Anyone
        BY DEF SessionTypeOK, Anyone
    <2>2. <<Request("restore", cookie)>> \in Seq(Requests)
        BY <2>1, Requested
    <2>3. late' \in BOOLEAN
        BY <1>4 DEF Reload
    <2>4. reloads' \in 0..MaxReloads
        BY <1>4 DEF Reload, SessionTypeOK
    <2>5. requests' \in Seq(Requests) /\ UNCHANGED <<cookie, signedOut>>
          /\ token' = NoUser /\ user' = NoUser /\ ~loading' /\ ~error' /\ ~restored'
          /\ loading' \in BOOLEAN /\ error' \in BOOLEAN /\ restored' \in BOOLEAN
        BY <1>4, <2>2 DEF Reload
    <2> QED
        BY <2>1, <2>3, <2>4, <2>5 DEF SessionTypeOK
<1>5. CASE Expire
    BY <1>5 DEF Expire, store, SessionTypeOK, Anyone
<1>6. CASE UNCHANGED sessionVars
    BY <1>6 DEF sessionVars, store, SessionTypeOK
<1> QED
    BY <1>1, <1>2, <1>3, <1>4, <1>5, <1>6 DEF SessionNext, Answer

-----------------------------------------------------------------------------
(* One lemma per action, for the steps after which no answer was late.     *)

LEMMA EnterOnTime ==
    ASSUME SessionTypeOK, OnTime, NEW u \in User, Login(u) \/ Register(u)
    PROVE  OnTime'
<1>1. PICK op \in {"login", "register"} :
         /\ requests' = Append(requests, Request(op, u))
         /\ restored /\ token = NoUser /\ ~loading /\ loading' /\ ~signedOut'
         /\ UNCHANGED <<cookie, token, user, restored>>
    BY DEF Login, Register, MayEnter, Send
<1> DEFINE call == Request(op, u)
<1>2. requests \in Seq(Requests) /\ call.op = op /\ call.as = u /\ call \in Requests
    BY DEF SessionTypeOK, Request, Requests
<1>3. ASSUME NEW j \in DOMAIN requests
      PROVE  /\ requests[j].op \notin {"restore", "login", "register"}
             /\ requests[j].op = "me" => requests[j].as \in User
    BY <1>1, <1>3 DEF OnTime, UnderWay
<1> HIDE DEF call
<1>4. ASSUME NEW j \in DOMAIN requests'
      PROVE  \/ j = Len(requests') /\ requests'[j] = call
             \/ j \in DOMAIN requests /\ requests'[j] = requests[j]
    BY <1>1, <1>2, <1>4 DEF call
<1>5. UnderWay'
    BY <1>1, <1>2, <1>3, <1>4 DEF UnderWay
<1>6. Loaded' /\ SignedIn' /\ SignedOut'
    BY <1>1 DEF OnTime, Loaded, SignedIn, SignedOut
<1> QED
    BY <1>5, <1>6 DEF OnTime

LEMMA LogoutOnTime ==
    ASSUME SessionTypeOK, OnTime, Logout
    PROVE  OnTime'
<1>1. /\ requests' = Append(requests, Request("logout", cookie))
      /\ restored /\ token # NoUser /\ restored' /\ token' = NoUser /\ user' = NoUser
    BY DEF Logout, Send
<1> DEFINE call == Request("logout", cookie)
<1>2. requests \in Seq(Requests) /\ call.op = "logout" /\ call \in Requests
    BY DEF SessionTypeOK, Request, Requests, Anyone
<1>3. ASSUME NEW j \in DOMAIN requests
      PROVE  /\ requests[j].op \notin {"restore", "login", "register"}
             /\ requests[j].op = "me" => requests[j].as \in User
    BY <1>1, <1>3 DEF OnTime, UnderWay, SignedIn, Request
<1> HIDE DEF call
<1>4. ASSUME NEW j \in DOMAIN requests'
      PROVE  requests'[j] = call \/ (j \in DOMAIN requests /\ requests'[j] = requests[j])
    BY <1>1, <1>2, <1>4 DEF call
<1>5. Len(requests') \in DOMAIN requests' /\ requests'[Len(requests')] = call
    BY <1>1, <1>2 DEF call
<1>6. UnderWay'
    BY <1>2, <1>3, <1>4 DEF UnderWay
<1>7. Loaded' /\ SignedIn' /\ SignedOut'
    BY <1>1, <1>2, <1>5 DEF Loaded, SignedIn, SignedOut
<1> QED
    BY <1>6, <1>7 DEF OnTime

\* A sign-in that is answered in time was the only request.
LEMMA SignInAlone ==
    ASSUME SessionTypeOK, OnTime, requests # <<>>, requests[1].op \in {"login", "register"}
    PROVE  /\ restored /\ token = NoUser /\ user = NoUser /\ ~signedOut
           /\ requests[1].as \in User /\ Tail(requests) = <<>>
<1>1. requests \in Seq(Requests) /\ 1 \in DOMAIN requests
    BY DEF SessionTypeOK
<1>2. restored
    BY DEF OnTime, Loaded, Request
<1>3. token = NoUser
    BY DEF OnTime, SignedIn, Request
<1>4. 1 = Len(requests) /\ ~signedOut /\ requests[1].as \in User
    BY <1>1, <1>2 DEF OnTime, UnderWay
<1>5. Tail(requests) = <<>>
    BY <1>1, <1>4
<1> QED
    BY <1>2, <1>3, <1>4, <1>5 DEF OnTime, SignedOut

LEMMA LoginOnTime ==
    ASSUME SessionTypeOK, OnTime, NEW i \in DOMAIN requests, LoginAnswered(i), ~late'
    PROVE  OnTime'
<1>1. CASE cookie' = requests[i].as /\ token' = requests[i].as
           /\ loading' = FALSE /\ restored' = TRUE
           /\ Received(i, <<Request("me", requests[i].as)>>) /\ UNCHANGED <<user, error>>
    <2> DEFINE call == Request("me", requests[i].as)
    <2>1. requests[i] \in Requests
        BY DEF SessionTypeOK
    <2>2. call \in Requests /\ call.op = "me" /\ call.as = requests[i].as
        BY <2>1 DEF Requests, Request
    <2>3. <<call>> \in Seq(Requests) /\ Received(i, <<call>>)
        BY <1>1, <2>2, OneCall
    <2> HIDE DEF call
    <2>4. i = 1 /\ requests # <<>> /\ requests' = Tail(requests) \o <<call>>
        BY <2>3, InTime
    <2>5. /\ restored /\ token = NoUser /\ user = NoUser /\ ~signedOut
          /\ requests[1].as \in User /\ Tail(requests) = <<>>
        BY <2>4, SignInAlone DEF LoginAnswered
    <2>6. requests' = <<call>>
        BY <2>3, <2>4, <2>5, ConcatEmptySeq
    <2>7. UnderWay'
        BY <2>2, <2>4, <2>5, <2>6 DEF UnderWay
    <2>8. SignedIn'
        BY <1>1, <2>4, <2>5, <2>6 DEF SignedIn, LoginAnswered, call
    <2>9. Loaded' /\ SignedOut'
        BY <1>1, <2>4, <2>5, SessionAssumption DEF Loaded, SignedOut
    <2> QED
        BY <2>7, <2>8, <2>9 DEF OnTime
<1>2. CASE SignInFailed /\ Received(i, <<>>) /\ UNCHANGED cookie
    <2>1. i = 1 /\ requests # <<>> /\ requests' = Tail(requests)
        BY <1>2, NothingSent
    <2>2. ~signedOut /\ requests' = <<>>
        BY <2>1, SignInAlone DEF LoginAnswered
    <2> QED
        BY <1>2, <2>2 DEF LoginAnswered, SignInFailed, OnTime, Loaded, SignedIn, SignedOut, UnderWay
<1> QED
    BY <1>1, <1>2 DEF LoginAnswered

LEMMA RegisterOnTime ==
    ASSUME SessionTypeOK, OnTime, NEW i \in DOMAIN requests, RegisterAnswered(i), ~late'
    PROVE  OnTime'
<1>1. CASE loading' = TRUE /\ error' = FALSE /\ Received(i, <<Request("login", requests[i].as)>>)
    <2> DEFINE call == Request("login", requests[i].as)
    <2>1. requests[i] \in Requests
        BY DEF SessionTypeOK
    <2>2. call \in Requests /\ call.op = "login" /\ call.as = requests[i].as
        BY <2>1 DEF Requests, Request
    <2>3. <<call>> \in Seq(Requests) /\ Received(i, <<call>>)
        BY <1>1, <2>2, OneCall
    <2> HIDE DEF call
    <2>4. i = 1 /\ requests # <<>> /\ requests' = Tail(requests) \o <<call>>
        BY <2>3, InTime
    <2>5. /\ restored /\ token = NoUser /\ user = NoUser /\ ~signedOut
          /\ requests[1].as \in User /\ Tail(requests) = <<>>
        BY <2>4, SignInAlone DEF RegisterAnswered
    <2>6. requests' = <<call>>
        BY <2>3, <2>4, <2>5, ConcatEmptySeq
    <2>7. UnderWay'
        BY <1>1, <2>2, <2>4, <2>5, <2>6 DEF UnderWay, RegisterAnswered
    <2>8. Loaded' /\ SignedOut' /\ SignedIn'
        BY <2>5 DEF Loaded, SignedOut, SignedIn, RegisterAnswered
    <2> QED
        BY <2>7, <2>8 DEF OnTime
<1>2. CASE loading' = FALSE /\ error' = TRUE /\ Received(i, <<>>)
    <2>1. i = 1 /\ requests # <<>> /\ requests' = Tail(requests)
        BY <1>2, NothingSent
    <2>2. ~signedOut /\ requests' = <<>> /\ token = NoUser /\ user = NoUser /\ restored
        BY <2>1, SignInAlone DEF RegisterAnswered
    <2> QED
        BY <1>2, <2>2 DEF RegisterAnswered, OnTime, Loaded, SignedIn, SignedOut, UnderWay
<1> QED
    BY <1>1, <1>2 DEF RegisterAnswered

LEMMA MeOnTime ==
    ASSUME SessionTypeOK, OnTime, NEW i \in DOMAIN requests, MeAnswered(i), ~late'
    PROVE  OnTime'
<1>1. requests \in Seq(Requests) /\ i \in 1..Len(requests)
    BY DEF SessionTypeOK
<1>2. late' = (late \/ i # 1 \/ token # requests[i].as)
    BY DEF MeAnswered
<1>3. i = 1 /\ token = requests[i].as
    BY <1>2, Zenon
<1>4. restored
    BY <1>3 DEF OnTime, Loaded, MeAnswered, Request
<1>5. requests[1].as \in User
    BY <1>3, <1>4 DEF OnTime, UnderWay, MeAnswered
<1>6. token # NoUser
    BY <1>3, <1>5, SessionAssumption
<1>7. /\ requests = <<Request("me", token)>> /\ ~loading /\ ~signedOut
      /\ cookie = token
    BY <1>1, <1>6 DEF OnTime, SignedIn
<1>8. requests' = <<>>
    <2>1. Len(requests) = 1
        BY <1>7
    <2>2. requests' = Tail(requests)
        BY <1>1, <1>3, FirstRemoved DEF MeAnswered
    <2> QED
        BY <1>1, <2>1, <2>2
<1>9. /\ UNCHANGED <<cookie, signedOut>>
      /\ \/ user' = token /\ UNCHANGED <<token, loading, restored>>
         \/ token' = NoUser /\ user' = NoUser /\ ~loading' /\ restored'
    BY <1>3 DEF MeAnswered, SignInFailed
<1>10. UnderWay'
    BY <1>8 DEF UnderWay
<1>11. SignedIn' /\ SignedOut'
    <2>1. CASE user' = token /\ UNCHANGED <<token, loading, restored>>
        BY <1>4, <1>6, <1>7, <1>8, <1>9, <2>1 DEF SignedIn, SignedOut
    <2>2. CASE token' = NoUser /\ user' = NoUser /\ ~loading' /\ restored'
        BY <1>7, <1>9, <2>2 DEF SignedIn, SignedOut
    <2> QED
        BY <1>9, <2>1, <2>2
<1>12. Loaded'
    BY <1>4, <1>9 DEF Loaded
<1> QED
    BY <1>10, <1>11, <1>12 DEF OnTime

LEMMA SignedOutOnTime ==
    ASSUME SessionTypeOK, OnTime, NEW i \in DOMAIN requests, LogoutAnswered(i), ~late'
    PROVE  OnTime'
<1>1. cookie' = NoUser /\ Received(i, <<>>) /\ UNCHANGED <<store, signedOut>>
    BY DEF LogoutAnswered
<1>2. i = 1 /\ requests # <<>> /\ requests' = Tail(requests)
    BY <1>1, NothingSent
<1>3. requests \in Seq(Requests) /\ requests[1].op = "logout"
    BY <1>2 DEF SessionTypeOK, LogoutAnswered
<1>4. restored
    BY <1>3 DEF OnTime, Loaded, Request
<1>5. token = NoUser
    BY <1>2, <1>3 DEF OnTime, SignedIn, Request
<1>6. /\ Len(requests') = Len(requests) - 1
      /\ \A j \in DOMAIN requests' : j + 1 \in DOMAIN requests /\ requests'[j] = requests[j + 1]
    BY <1>2, <1>3
<1>7. UnderWay'
    <2> SUFFICES ASSUME NEW j \in DOMAIN requests'
                 PROVE  /\ requests'[j].op # "restore"
                        /\ requests'[j].op \in {"me", "login", "register"} =>
                              requests'[j].as \in User
                        /\ requests'[j].op \in {"login", "register"} =>
                              j = Len(requests') /\ loading' /\ ~signedOut'
        BY DEF UnderWay
    <2>1. j + 1 \in DOMAIN requests /\ requests'[j] = requests[j + 1]
        BY <1>6
    <2>2. j \in Int /\ Len(requests) \in Int
        BY <1>2, <1>3
    <2>3. j + 1 = Len(requests) => j = Len(requests')
        BY <1>6, <2>2
    <2> QED
        BY <1>1, <1>4, <2>1, <2>3 DEF OnTime, UnderWay, store
<1> QED
    BY <1>1, <1>4, <1>5, <1>7 DEF OnTime, Loaded, SignedIn, SignedOut, store

LEMMA RestoreOnTime ==
    ASSUME SessionTypeOK, OnTime, NEW i \in DOMAIN requests, RestoreAnswered(i), ~late'
    PROVE  OnTime'
<1>1. i = 1 /\ requests # <<>> /\ requests' = Tail(requests)
    BY NothingSent DEF RestoreAnswered
<1>2. ~restored
    BY DEF OnTime, UnderWay, RestoreAnswered
<1>3. /\ requests = <<Request("restore", cookie)>>
      /\ token = NoUser /\ ~loading
    BY <1>2 DEF OnTime, Loaded
<1>4. /\ requests' = <<>> /\ requests[1].as = cookie
      /\ \A j \in DOMAIN requests : requests[j].op = "restore"
    BY <1>1, <1>3 DEF Request
<1>5. ~(signedOut /\ cookie # NoUser)
    BY <1>3, <1>4 DEF OnTime, SignedOut
<1>6. /\ restored' /\ UNCHANGED <<cookie, loading, signedOut>>
      /\ \/ cookie # NoUser /\ user' = cookie /\ token' = cookie
         \/ token' = NoUser /\ user' = NoUser
    BY <1>1, <1>3, <1>4 DEF RestoreAnswered
<1> QED
    BY <1>3, <1>4, <1>5, <1>6 DEF OnTime, Loaded, SignedIn, SignedOut, UnderWay

LEMMA ReloadOnTime ==
    ASSUME SessionTypeOK, OnTime, Reload, ~late'
    PROVE  OnTime'
<1>1. /\ token' = NoUser /\ user' = NoUser /\ ~loading' /\ ~restored'
      /\ requests' = <<Request("restore", cookie)>> /\ UNCHANGED <<cookie, signedOut>>
    BY DEF Reload
<1>2. \A i \in DOMAIN requests : requests[i].op # "logout"
    BY DEF Reload
<1>3. ~(signedOut /\ cookie # NoUser)
    BY <1>2 DEF OnTime, SignedIn, SignedOut
<1> QED
    BY <1>1, <1>3 DEF OnTime, Loaded, SignedIn, SignedOut, UnderWay

LEMMA SessionInductive == SessionInv /\ [SessionNext]_sessionVars => SessionInv'
<1> SUFFICES ASSUME SessionInv, [SessionNext]_sessionVars
             PROVE  SessionInv'
    OBVIOUS
<1>1. SessionTypeOK'
    BY TypeInductive DEF SessionInv
<1>2. ASSUME ~late'
      PROVE  OnTime'
    <2>1. SessionTypeOK
        BY DEF SessionInv
    <2>2. ~late
        BY <1>2 DEF SessionNext, sessionVars, Login, Register, Logout, Answer, LoginAnswered,
           MeAnswered, RegisterAnswered, LogoutAnswered, RestoreAnswered, Received, Reload, Expire
    <2>3. OnTime
        BY <2>2 DEF SessionInv
    <2>4. CASE Expire
        BY <1>2, <2>4 DEF Expire
    <2>5. CASE UNCHANGED sessionVars
        BY <2>3, <2>5 DEF sessionVars, store, OnTime, Loaded, SignedIn, SignedOut, UnderWay
    <2>6. CASE Answer
        BY <1>2, <2>1, <2>3, <2>6, LoginOnTime, MeOnTime, RegisterOnTime, SignedOutOnTime,
           RestoreOnTime DEF Answer
    <2> QED
        BY <1>2, <2>1, <2>3, <2>4, <2>5, <2>6, EnterOnTime, LogoutOnTime, ReloadOnTime
           DEF SessionNext
<1> QED
    BY <1>1, <1>2 DEF SessionInv

LEMMA SessionEstablished == SessionInit => SessionInv
<1> SUFFICES ASSUME SessionInit
             PROVE  SessionInv
    OBVIOUS
<1>1. cookie \in Anyone /\ NoUser \in Anyone
    BY DEF SessionInit, Anyone
<1>2. <<Request("restore", cookie)>> \in Seq(Requests)
    BY <1>1, Requested
<1>3. SessionTypeOK
    <2>1. requests \in Seq(Requests) /\ reloads \in 0..MaxReloads
        BY <1>2, SessionAssumption DEF SessionInit
    <2> QED
        BY <1>1, <2>1 DEF SessionInit, SessionTypeOK
<1>4. OnTime
    BY DEF SessionInit, OnTime, Loaded, SignedIn, SignedOut, UnderWay
<1> QED
    BY <1>3, <1>4 DEF SessionInv

LEMMA SessionInvariant == SessionSpec => []SessionInv
<1> QED
    BY SessionEstablished, SessionInductive, PTL DEF SessionSpec

-----------------------------------------------------------------------------
(* The theorems.                                                           *)

\* The store, the cookie and the requests in flight are well typed.
THEOREM SessionTypeCorrect == SessionSpec => []SessionTypeOK
<1>1. SessionInv => SessionTypeOK
    BY DEF SessionInv
<1> QED
    BY <1>1, SessionInvariant, PTL

\* For any number of requests in flight and of reloads: unless an answer was late
\* or lost, the screens show the user whose cookie the requests carry.
THEOREM SessionStaysOne == SessionSpec => []SessionIsOne
<1>1. SessionInv => SessionIsOne
    BY DEF SessionInv, OnTime, SignedIn, SessionIsOne
<1> QED
    BY <1>1, SessionInvariant, PTL

\* Whoever signed out is not signed in again by a reload or by an answer that was
\* still to come, as long as the answers are in time.
THEOREM SignOutLasts == SessionSpec => []SignedOutStaysOut
<1>1. SessionInv => SignedOutStaysOut
    BY DEF SessionInv, OnTime, SignedIn, SignedOutStaysOut
<1> QED
    BY <1>1, SessionInvariant, PTL

=============================================================================
