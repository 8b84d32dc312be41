------------------------ MODULE PncpDownload_proofs ------------------------
(***************************************************************************)
(* Proofs about PncpDownload for any calendar, windows, page size, number  *)
(* of retries and of kills.                                                *)
(***************************************************************************)
EXTENDS PncpDownload, FiniteSetTheorems, TLAPS

(* Days, and the windows they are divided into. *)
LEMMA Remainder ==
    ASSUME NEW x \in Nat, NEW w \in Nat \ {0}
    PROVE  x % w \in 0 .. w - 1
OBVIOUS

LEMMA Quotient ==
    ASSUME NEW x \in Nat, NEW w \in Nat \ {0}
    PROVE  x \div w \in Nat /\ x = w * (x \div w) + (x % w)
OBVIOUS

LEMMA MultipleOf ==
    ASSUME NEW q \in Nat, NEW w \in Nat \ {0}
    PROVE  (w * q) % w = 0
OBVIOUS

LEMMA OneMore ==
    ASSUME NEW q \in Nat, NEW w \in Nat \ {0}
    PROVE  w * q + w = w * (q + 1)
OBVIOUS

LEMMA LessRemainder ==
    ASSUME NEW x \in Nat, NEW w \in Nat \ {0}
    PROVE  (x - (x % w)) % w = 0
<1> DEFINE q == x \div w
<1>1. q \in Nat /\ x = w * q + (x % w) /\ x % w \in Nat
  BY Quotient, Remainder
<1>2. x - (x % w) = w * q
  BY <1>1
<1> HIDE DEF q
<1> QED BY <1>1, <1>2, MultipleOf

LEMMA LastBeforeMultiple ==
    ASSUME NEW x \in Nat, NEW w \in Nat \ {0}, x % w = w - 1
    PROVE  (x + 1) % w = 0
<1> DEFINE q == x \div w
<1>1. q \in Nat /\ x = w * q + (x % w)
  BY Quotient
<1>2. q + 1 \in Nat /\ x + 1 = w * q + w
  BY <1>1
<1>3. x + 1 = w * (q + 1)
  BY <1>1, <1>2, OneMore
<1> HIDE DEF q
<1> QED BY <1>2, <1>3, MultipleOf

-----------------------------------------------------------------------------
LEMMA RecordMonthType == ASSUME NEW r \in Record PROVE RecordMonth(r) \in Month
BY PncpAssumption DEF RecordMonth, Month

LEMMA DivBound ==
    ASSUME NEW n \in Nat, NEW k \in Nat \ {0}
    PROVE  n \div k \in 0 .. n
OBVIOUS

(* The pages of a combination are among the PageNo that tries counts.      *)
LEMMA PageType ==
    ASSUME known \subseteq Record, NEW c \in Combo, NEW r \in Record
    PROVE  PageOf(c, r, known) \in PageNo
<1> DEFINE S == Before(c, r, known)
<1>1. S \subseteq Record
  BY DEF Before, Matching
<1>2. /\ Cardinality(Record) \in Nat
      /\ Cardinality(S) \in Nat
      /\ Cardinality(S) <= Cardinality(Record)
  BY <1>1, FS_Subset, FS_CardinalityType, PncpAssumption
<1> HIDE DEF S
<1>3. Cardinality(S) \div PageSize \in 0 .. Cardinality(S)
  BY <1>2, DivBound, PncpAssumption
<1>4. 1 + (Cardinality(S) \div PageSize) \in PageNo
  BY <1>2, <1>3 DEF PageNo
<1> QED BY <1>4 DEF PageOf, S

LEMMA TotalPagesType ==
    ASSUME known \subseteq Record, NEW c \in Combo
    PROVE  TotalPages(c) \subseteq PageNo
BY PageType DEF TotalPages, Matching

LEMMA CombosType == ASSUME NEW end \in Day PROVE Combos(end) \subseteq Combo
<1> SUFFICES ASSUME NEW d \in WindowStarts(end), NEW m \in Modalidade
             PROVE  [from |-> d, to |-> WindowEnd(d, end), mod |-> m] \in Combo
  BY DEF Combos
<1>1. d \in Day /\ d < end
  BY DEF WindowStarts
<1>2. WindowEnd(d, end) \in Day
  BY <1>1, PncpAssumption DEF WindowEnd, Day
<1> QED BY <1>1, <1>2 DEF Combo

LEMMA MergedType ==
    ASSUME files \in [Month -> File], proc \in Proc, NEW m \in Month
    PROVE  Merged(m) \in Copies
<1>1. \A r \in Record : files[m].recs[r] \in Nat /\ proc.got[r] \in Nat
  BY DEF File, Proc, Copies
<1> QED BY <1>1 DEF Merged, Copies

LEMMA IdleType == Idle \in Proc
<1>1. 1 \in Day /\ MonthOf[1] \in Month
  BY PncpAssumption DEF Day, Month
<1>2. (CHOOSE c \in Combo : TRUE) \in Combo
  <2>1. PICK m \in Modalidade : TRUE
    BY PncpAssumption
  <2>2. [from |-> 1, to |-> 1, mod |-> m] \in Combo
    BY <1>1 DEF Combo
  <2> QED BY <2>2
<1>3. [p \in PageNo |-> 0] \in [PageNo -> 0 .. MaxRetries - 1]
  BY PncpAssumption
<1>4. NoCopies \in Copies
  BY DEF NoCopies, Copies
<1> QED BY <1>1, <1>2, <1>3, <1>4 DEF Idle, Proc

-----------------------------------------------------------------------------
(* The invariant behind the theorems: what a combination brought is, once  *)
(* it is being merged, in a month still to be written, or already safe in  *)
(* the sense of LostOnlyByTornWrite (Brought); the file being written is   *)
(* empty (Truncated); neither what was fetched nor a merge has a record    *)
(* twice that did not move (Fetched, MergedOnce), because the page of one  *)
(* that was fetched is not fetched again, and the first page, which says   *)
(* what the others are, is fetched before them.                            *)
Safe(r) ==
    \/ Held(r)
    \/ RecordMonth(r) \in torn
    \/ proc.pc = "write" /\ proc.month = RecordMonth(r) /\ proc.merged[r] > 0

Brought ==
    proc.pc \in {"flush", "write"} =>
        \A r \in Got : RecordMonth(r) \in proc.months \/ Safe(r)

Truncated == proc.pc = "write" => files[proc.month].recs = NoCopies

MergedOnce == \A r \in Record \ moved : proc.merged[r] <= 1

Paged ==
    /\ \A r \in Record : proc.got[r] > 0 => r \in Matching(proc.combo, known)
    /\ \A r \in Record \ moved :
         proc.got[r] > 0 => PageOf(proc.combo, r, known) \notin proc.pages
    /\ 1 \in proc.pages =>
         proc.pages = {1} /\ \A r \in Record : proc.got[r] = 0

Fetched ==
    /\ \A r \in Record : proc.got[r] > 0 => r \in known
    /\ \A r \in Record \ moved : proc.got[r] <= 1
    /\ proc.pc = "fetch" => Paged

NextIsFresh == proc.pc = "next" => proc.got = NoCopies

IInv ==
    /\ TypeOK
    /\ \A r \in delivered : Safe(r)
    /\ Brought
    /\ NoDuplicates
    /\ MergedOnce
    /\ Truncated
    /\ Fetched
    /\ NextIsFresh

LEMMA InitInv == Init => IInv
<1> SUFFICES ASSUME Init PROVE IInv
  OBVIOUS
<1>1. TypeOK
  <2>1. 1 \in Day /\ NoCopies \in Copies
    BY PncpAssumption DEF Day, NoCopies, Copies
  <2>2. files \in [Month -> File]
    BY <2>1 DEF Init, File
  <2> QED BY <2>1, <2>2, IdleType, PncpAssumption DEF Init, TypeOK
<1>2. Brought /\ MergedOnce /\ Truncated /\ Fetched /\ NextIsFresh
  BY DEF Init, Idle, Brought, MergedOnce, Truncated, Fetched, NextIsFresh,
         NoCopies
<1>3. NoDuplicates
  BY DEF Init, NoDuplicates, NoCopies
<1> QED BY <1>1, <1>2, <1>3 DEF IInv, Init

(* A step that leaves the files alone, writes no month, keeps no more than *)
(* the merge it had and delivers nothing new keeps what was delivered.     *)
LEMMA QuietStep ==
    ASSUME IInv, TypeOK', UNCHANGED <<files, delivered, moved>>,
           torn \subseteq torn',
           proc.pc = "write" => proc.month \in torn',
           proc'.pc \notin {"flush", "write"},
           MergedOnce',
           Fetched',
           NextIsFresh'
    PROVE  IInv'
<1>1. ASSUME NEW r \in delivered' PROVE Safe(r)'
  BY <1>1 DEF IInv, Safe, Held
<1> QED BY <1>1 DEF IInv, Brought, NoDuplicates, Truncated

(* Nothing was fetched yet, or fetching is over.                           *)
LEMMA NothingGot ==
    ASSUME proc'.got = NoCopies, proc'.pc # "fetch" \/ proc'.pages = {1}
    PROVE  Fetched'
BY DEF Fetched, Paged, NoCopies

LEMMA GotKept ==
    ASSUME Fetched, proc'.got = proc.got, proc'.pc # "fetch",
           UNCHANGED <<known, moved>>
    PROVE  Fetched'
BY DEF Fetched

LEMMA IdleOnce == \A r \in Record : Idle.merged[r] <= 1
BY DEF Idle, NoCopies

-----------------------------------------------------------------------------
(* One lemma per action.                                                   *)

LEMMA PublishStep == ASSUME IInv, Publish PROVE IInv'
<1> DEFINE c == proc.combo
<1>1. PICK r \in Record \ known :
        /\ known' = known \cup {r}
        /\ late' = late \/ late' = late \cup {r}
        /\ moved' = IF proc.pc = "fetch"
                    THEN moved \cup {q \in Matching(c, known) :
                                       PageOf(c, q, known \cup {r})
                                         # PageOf(c, q, known)}
                    ELSE moved
  BY DEF Publish
<1>2. UNCHANGED <<today, newestFirst, files, checkpoint, proc, kills,
                  delivered, abandoned, torn>>
  BY DEF Publish
<1>3. known' \subseteq Record
  BY <1>1 DEF IInv, TypeOK
<1>4. delivered' \subseteq known' /\ abandoned' \subseteq known'
  BY <1>1, <1>2 DEF IInv, TypeOK
<1>5. late' \subseteq known'
  BY <1>1 DEF IInv, TypeOK
<1>6. moved \subseteq moved' /\ moved' \subseteq known'
  BY <1>1 DEF IInv, TypeOK, Matching
<1>7. TypeOK'
  BY <1>2, <1>3, <1>4, <1>5, <1>6 DEF IInv, TypeOK
<1>8. \A q \in delivered' : Safe(q)'
  BY <1>2 DEF IInv, Safe, Held
<1>9. Brought'
  BY <1>2 DEF IInv, Brought, Got, Safe, Held
<1>10. NoDuplicates' /\ MergedOnce' /\ Truncated'
  BY <1>2, <1>6 DEF IInv, NoDuplicates, MergedOnce, Truncated
<1>11. ASSUME proc.pc = "fetch" PROVE Paged'
  <2>1. Paged
    BY <1>11 DEF IInv, Fetched
  <2>2. \A q \in Record : PageOf(c, q, known)' = PageOf(c, q, known')
    BY <1>2 DEF PageOf, Before
  <2>3. Matching(c, known)' = Matching(c, known')
    BY <1>2 DEF Matching
  <2>4. Matching(c, known) \subseteq Matching(c, known')
    BY <1>1 DEF Matching
  <2>5. ASSUME NEW q \in Record \ moved', proc.got[q] > 0
        PROVE  PageOf(c, q, known') \notin proc.pages
    <3>1. q \in Matching(c, known) /\ q \notin moved
      BY <1>6, <2>1, <2>5 DEF Paged
    <3>2. PageOf(c, q, known') = PageOf(c, q, known)
      BY <1>1, <1>11, <2>5, <3>1
    <3> QED BY <2>1, <2>5, <3>1, <3>2 DEF Paged
  <2> QED BY <1>2, <2>1, <2>2, <2>3, <2>4, <2>5 DEF Paged
<1>12. Fetched'
  BY <1>1, <1>2, <1>6, <1>11 DEF IInv, Fetched
<1>13. NextIsFresh'
  BY <1>2 DEF IInv, NextIsFresh
<1> QED BY <1>7, <1>8, <1>9, <1>10, <1>12, <1>13 DEF IInv

LEMMA PagedKept ==
    ASSUME Paged, UNCHANGED <<newestFirst, known, moved, proc>>
    PROVE  Paged'
BY DEF Paged, Matching, PageOf, Before

LEMMA WorldStep ==
    ASSUME IInv, NextDay \/ UNCHANGED vars PROVE IInv'
<1>1. /\ TypeOK'
      /\ UNCHANGED <<newestFirst, known, files, proc, delivered, moved, torn>>
  <2>1. CASE NextDay
    <3>1. /\ today < LastDay /\ today' = today + 1
          /\ UNCHANGED <<newestFirst, known, files, checkpoint, proc, kills,
                         history>>
      BY <2>1 DEF NextDay
    <3>2. today' \in Day
      BY <3>1, PncpAssumption DEF IInv, TypeOK, Day
    <3> QED BY <3>1, <3>2 DEF IInv, TypeOK, history
  <2>2. CASE UNCHANGED vars
    BY <2>2 DEF IInv, TypeOK, vars, world, history
  <2> QED BY <2>1, <2>2
<1>2. Fetched'
  BY <1>1, PagedKept DEF IInv, Fetched
<1> QED BY <1>1, <1>2
        DEF IInv, Safe, Held, Brought, Got, NoDuplicates, MergedOnce, Truncated,
            NextIsFresh

LEMMA StartStep == ASSUME IInv, Start PROVE IInv'
<1>1. PICK completed \in {checkpoint, {}} :
        proc' = [Idle EXCEPT !.pc = "next", !.end = today,
                             !.todo = Combos(today) \ completed]
  BY DEF Start
<1>2. today \in Day
  BY DEF IInv, TypeOK
<1>3. proc' \in Proc
  BY <1>1, <1>2, IdleType, CombosType DEF Proc
<1>4. TypeOK'
  BY <1>3 DEF Start, IInv, TypeOK, world, history
<1>5. /\ proc'.pc = "next" /\ proc'.merged = Idle.merged
      /\ proc'.got = NoCopies
  BY <1>1 DEF Idle
<1>6. Fetched' /\ MergedOnce' /\ NextIsFresh'
  BY <1>5, NothingGot, IdleOnce DEF MergedOnce, NextIsFresh
<1>7. UNCHANGED <<files, delivered, moved, torn>> /\ proc.pc # "write"
  BY DEF Start, history
<1> QED BY <1>4, <1>5, <1>6, <1>7, QuietStep

(* Between two combinations nothing is fetched.                            *)
LEMMA TakeComboStep == ASSUME IInv, TakeCombo PROVE IInv'
<1>1. PICK c \in proc.todo :
        proc' = [proc EXCEPT !.pc = "fetch", !.combo = c, !.pages = {1}]
  BY DEF TakeCombo
<1>2. proc \in Proc /\ proc.got = NoCopies
  BY DEF IInv, TypeOK, TakeCombo, NextIsFresh
<1>3. {1} \subseteq PageNo
  BY FS_CardinalityType, PncpAssumption DEF PageNo
<1>4. c \in Combo
  BY <1>2 DEF Proc
<1>5. proc' \in Proc
  BY <1>1, <1>2, <1>3, <1>4 DEF Proc
<1>6. TypeOK'
  BY <1>5 DEF TakeCombo, IInv, TypeOK, world, history
<1>7. /\ proc'.pc = "fetch" /\ proc'.merged = proc.merged
      /\ proc'.got = NoCopies /\ proc'.pages = {1}
  BY <1>1, <1>2 DEF Proc
<1>8. UNCHANGED <<files, delivered, moved, torn>> /\ proc.pc # "write"
  BY DEF TakeCombo, history
<1>9. Fetched' /\ MergedOnce' /\ NextIsFresh'
  BY <1>7, <1>8, NothingGot DEF IInv, MergedOnce, NextIsFresh
<1> QED BY <1>6, <1>7, <1>8, <1>9, QuietStep

LEMMA GiveUpType ==
    ASSUME proc \in Proc, NEW p \in PageNo, GiveUp(p)
    PROVE  /\ proc' \in Proc
           /\ proc'.pc = proc.pc /\ proc'.merged = proc.merged
           /\ proc'.combo = proc.combo /\ proc'.got = proc.got
           /\ proc'.pages \subseteq proc.pages
<1> DEFINE ts == [proc.tries EXCEPT ![p] = 0]
<1>1. ts \in [PageNo -> 0 .. MaxRetries - 1]
  BY PncpAssumption DEF Proc
<1>2. proc' = [proc EXCEPT !.pages = proc.pages \ {p}, !.tries = ts,
                           !.gaveup = TRUE]
  BY DEF GiveUp, Proc
<1> HIDE DEF ts
<1> QED BY <1>1, <1>2 DEF Proc

(* A page that fails brings nothing.                                       *)
LEMMA FailedPageStep ==
    ASSUME IInv, NEW p \in PageNo, PageError(p) \/ PageRefused(p)
    PROVE  IInv'
<1>1. proc \in Proc /\ proc.pc = "fetch"
  BY DEF IInv, TypeOK, PageError, PageRefused
<1>2. /\ proc' \in Proc
      /\ proc'.pc = proc.pc /\ proc'.merged = proc.merged
      /\ proc'.combo = proc.combo /\ proc'.got = proc.got
      /\ proc'.pages \subseteq proc.pages
  <2>1. CASE PageError(p) /\ proc.tries[p] + 1 < MaxRetries
    <3> DEFINE ts == [proc.tries EXCEPT ![p] = proc.tries[p] + 1]
    <3>1. ts \in [PageNo -> 0 .. MaxRetries - 1]
      BY <1>1, <2>1, PncpAssumption DEF Proc
    <3>2. proc' = [proc EXCEPT !.tries = ts]
      BY <2>1 DEF PageError
    <3> HIDE DEF ts
    <3> QED BY <1>1, <3>1, <3>2 DEF Proc
  <2>2. CASE GiveUp(p)
    BY <1>1, <2>2, GiveUpType
  <2> QED BY <2>1, <2>2 DEF PageError, PageRefused
<1>3. UNCHANGED <<world, files, checkpoint, kills, history>>
  BY DEF PageError, PageRefused
<1>4. TypeOK'
  BY <1>2, <1>3 DEF IInv, TypeOK, world, history
<1>5. UNCHANGED <<newestFirst, known, files, delivered, moved, torn>>
  BY <1>3 DEF world, history
<1>6. Paged'
  <2>1. Paged
    BY <1>1 DEF IInv, Fetched
  <2>2. \A r \in Record : PageOf(proc.combo, r, known)'
                            = PageOf(proc.combo, r, known)
    BY <1>2, <1>5 DEF PageOf, Before, Matching
  <2>3. Matching(proc.combo, known)' = Matching(proc.combo, known)
    BY <1>2, <1>5 DEF Matching
  <2>4. 1 \in proc'.pages => proc'.pages = {1}
    BY <1>2, <2>1 DEF Paged
  <2> QED BY <1>2, <1>5, <2>1, <2>2, <2>3, <2>4 DEF Paged
<1>7. Fetched' /\ MergedOnce' /\ NextIsFresh'
  BY <1>1, <1>2, <1>5, <1>6 DEF IInv, Fetched, MergedOnce, NextIsFresh
<1> QED BY <1>1, <1>2, <1>4, <1>5, <1>7, QuietStep

(* A page that is answered brings records that no earlier one brought, but *)
(* those that moved.                                                       *)
LEMMA AnswerStep == ASSUME IInv, NEW p \in PageNo, Answer(p) PROVE IInv'
<1> DEFINE c == proc.combo
           New(r) == r \in Matching(c, known) /\ PageOf(c, r, known) = p
           ps == (IF p = 1 THEN TotalPages(c) ELSE proc.pages) \ {p}
           gs == [r \in Record |-> proc.got[r] + IF New(r) THEN 1 ELSE 0]
           ts == [proc.tries EXCEPT ![p] = 0]
<1>1. proc \in Proc /\ known \subseteq Record /\ Paged
  BY DEF IInv, TypeOK, Answer, Fetched
<1>2. /\ proc.pc = "fetch" /\ p \in proc.pages
      /\ UNCHANGED <<world, files, checkpoint, kills, history>>
  BY DEF Answer
<1>3. UNCHANGED <<newestFirst, known, files, delivered, moved, torn>>
  BY <1>2 DEF world, history
<1>4. c \in Combo /\ \A r \in Record : proc.got[r] \in Nat
  BY <1>1 DEF Proc, Copies
<1>5. /\ proc' \in Proc
      /\ proc'.pc = "fetch" /\ proc'.merged = proc.merged
      /\ proc'.combo = c /\ proc'.pages = ps /\ proc'.got = gs
  <2>1. ps \subseteq PageNo
    BY <1>1, <1>4, TotalPagesType DEF Proc
  <2>2. gs \in Copies
    BY <1>4 DEF Copies
  <2>3. ts \in [PageNo -> 0 .. MaxRetries - 1]
    BY <1>1, PncpAssumption DEF Proc
  <2>4. proc' = [proc EXCEPT !.pages = ps, !.tries = ts, !.got = gs]
    BY <1>1 DEF Answer, Proc
  <2> HIDE DEF ps, gs, ts
  <2> QED BY <1>1, <1>2, <2>1, <2>2, <2>3, <2>4 DEF Proc
<1>6. TypeOK'
  BY <1>2, <1>5 DEF IInv, TypeOK, world, history
<1>7. \A r \in Record : gs[r] = proc.got[r] + IF New(r) THEN 1 ELSE 0
  OBVIOUS
<1>8. \A r \in Record : gs[r] > 0 => r \in Matching(c, known)
  BY <1>1, <1>4, <1>7 DEF Paged
<1>9. ASSUME NEW r \in Record \ moved, New(r) PROVE proc.got[r] = 0
  BY <1>1, <1>2, <1>4, <1>9 DEF Paged
<1>10. \A r \in Record \ moved : gs[r] <= 1
  BY <1>4, <1>7, <1>9 DEF IInv, Fetched
<1>11. ASSUME NEW r \in Record \ moved, gs[r] > 0
       PROVE  PageOf(c, r, known) \notin ps
  <2>1. CASE New(r)
    BY <2>1
  <2>2. CASE ~New(r)
    <3>1. proc.got[r] > 0
      BY <1>4, <1>7, <1>11, <2>2
    <3>2. p # 1 /\ PageOf(c, r, known) \notin proc.pages
      BY <1>1, <1>2, <3>1 DEF Paged
    <3> QED BY <3>2
  <2> QED BY <2>1, <2>2
<1>12. 1 \notin ps
  BY <1>1, <1>2 DEF Paged
<1> HIDE DEF ps, gs, New
<1>13. Paged'
  <2>1. \A r \in Record : PageOf(proc.combo, r, known)' = PageOf(c, r, known)
    BY <1>3, <1>5 DEF PageOf, Before, Matching
  <2>2. Matching(proc.combo, known)' = Matching(c, known)
    BY <1>3, <1>5 DEF Matching
  <2> QED BY <1>3, <1>5, <1>8, <1>11, <1>12, <2>1, <2>2 DEF Paged
<1>14. Fetched' /\ MergedOnce' /\ NextIsFresh'
  <2>1. \A r \in Record : gs[r] > 0 => r \in known
    BY <1>8 DEF Matching
  <2> QED BY <1>3, <1>5, <1>10, <1>13, <2>1
          DEF IInv, Fetched, MergedOnce, NextIsFresh
<1> QED BY <1>2, <1>3, <1>5, <1>6, <1>14, QuietStep

LEMMA GroupStep == ASSUME IInv, Group PROVE IInv'
<1> DEFINE ms == {RecordMonth(r) : r \in Got}
<1>1. proc \in Proc
  BY DEF IInv, TypeOK
<1>2. ms \subseteq Month
  BY RecordMonthType DEF Got
<1>3. proc' = [proc EXCEPT !.pc = "flush", !.months = ms]
  BY DEF Group
<1>4. \A r \in Got : RecordMonth(r) \in ms
  OBVIOUS
<1> HIDE DEF ms
<1>5. /\ proc' \in Proc
      /\ proc'.pc = "flush" /\ proc'.months = ms
      /\ proc'.got = proc.got /\ proc'.merged = proc.merged
  BY <1>1, <1>2, <1>3 DEF Proc
<1>6. /\ proc.pc = "fetch"
      /\ UNCHANGED <<world, files, checkpoint, kills, history>>
  BY DEF Group
<1>7. TypeOK'
  BY <1>5, <1>6 DEF IInv, TypeOK, world, history
<1>8. ASSUME NEW r \in delivered' PROVE Safe(r)'
  BY <1>8, <1>6 DEF IInv, Safe, Held, history
<1>9. Brought'
  BY <1>4, <1>5 DEF Brought, Got
<1>10. Fetched' /\ NextIsFresh'
  BY <1>5, <1>6, GotKept DEF IInv, NextIsFresh, world, history
<1> QED BY <1>5, <1>6, <1>7, <1>8, <1>9, <1>10
        DEF IInv, NoDuplicates, MergedOnce, Truncated, world, history

(* While the month's file is open, what it held and what the window adds is  *)
(* in the merge.                                                           *)
LEMMA MergedKeeps ==
    ASSUME files \in [Month -> File], proc \in Proc, NEW r \in Record,
           Held(r) \/ r \in Got
    PROVE  Merged(RecordMonth(r))[r] > 0
<1> DEFINE m == RecordMonth(r)
<1>1. m \in Month
  BY RecordMonthType
<1>2. files[m].recs[r] \in Nat
  BY <1>1 DEF File, Copies
<1>3. Merged(m)[r] = IF files[m].recs[r] = 0 THEN proc.got[r]
                     ELSE files[m].recs[r]
  BY DEF Merged
<1>4. Held(r) => files[m].recs[r] > 0
  BY DEF Held
<1>5. r \in Got => proc.got[r] > 0
  BY DEF Got
<1>6. Merged(m)[r] > 0
  <2> HIDE DEF m
  <2> QED BY <1>2, <1>3, <1>4, <1>5
<1> QED BY <1>6

LEMMA MergedOnlyOnce ==
    ASSUME files \in [Month -> File], NoDuplicates, Fetched,
           NEW m \in Month, NEW r \in Record \ moved
    PROVE  Merged(m)[r] <= 1
<1>1. files[m].recs[r] <= 1
  BY DEF NoDuplicates
<1>2. proc.got[r] <= 1
  BY DEF Fetched
<1>3. \/ Merged(m)[r] = proc.got[r]
      \/ Merged(m)[r] = files[m].recs[r]
  BY DEF Merged
<1> QED BY <1>1, <1>2, <1>3

LEMMA OpenFileStep == ASSUME IInv, OpenFile PROVE IInv'
<1>1. PICK m \in proc.months, k \in Torn :
        /\ files' = [files EXCEPT ![m] = [kind |-> k, recs |-> NoCopies]]
        /\ proc' = [proc EXCEPT !.pc = "write", !.month = m,
                                !.merged = Merged(m),
                                !.months = proc.months \ {m}]
  BY DEF OpenFile
<1>2. proc.pc = "flush" /\ UNCHANGED <<world, checkpoint, kills, history>>
  BY DEF OpenFile
<1>3. proc \in Proc /\ files \in [Month -> File] /\ delivered \subseteq Record
  BY DEF IInv, TypeOK
<1>4. m \in Month /\ proc.months \subseteq Month
  BY <1>3 DEF Proc
<1>5. Merged(m) \in Copies
  BY <1>3, <1>4, MergedType
<1>6. [kind |-> k, recs |-> NoCopies] \in File
  BY DEF File, NoCopies, Copies
<1> DEFINE mg == Merged(m)
           f == [kind |-> k, recs |-> NoCopies]
<1> HIDE DEF mg, f
<1>7. /\ proc' \in Proc
      /\ proc'.pc = "write" /\ proc'.month = m /\ proc'.merged = mg
      /\ proc'.months = proc.months \ {m} /\ proc'.got = proc.got
  <2>1. proc' = [proc EXCEPT !.pc = "write", !.month = m, !.merged = mg,
                             !.months = proc.months \ {m}]
    BY <1>1 DEF mg
  <2>2. mg \in Copies
    BY <1>5 DEF mg
  <2> QED BY <1>3, <1>4, <2>1, <2>2 DEF Proc
<1>8. files' = [files EXCEPT ![m] = f] /\ f \in File /\ f.recs = NoCopies
  BY <1>1, <1>6 DEF f
<1>9. files' \in [Month -> File]
  BY <1>3, <1>8
<1>10. TypeOK'
  BY <1>2, <1>7, <1>9 DEF IInv, TypeOK, world, history
<1>11. ASSUME NEW r \in Record,
              Safe(r) \/ (r \in Got /\ RecordMonth(r) = m)
       PROVE  Safe(r)'
  <2>1. CASE RecordMonth(r) \in torn
    BY <2>1, <1>2 DEF Safe, history
  <2>2. CASE RecordMonth(r) \notin torn /\ RecordMonth(r) = m
    <3>1. Held(r) \/ r \in Got
      BY <1>2, <1>11, <2>2 DEF Safe
    <3>2. mg[r] > 0
      BY <1>3, <2>2, <3>1, MergedKeeps DEF mg
    <3> QED BY <1>7, <2>2, <3>2 DEF Safe
  <2>3. CASE RecordMonth(r) \notin torn /\ RecordMonth(r) # m
    <3>1. Held(r)
      BY <1>2, <1>11, <2>3 DEF Safe
    <3>2. files'[RecordMonth(r)] = files[RecordMonth(r)]
      BY <1>3, <1>8, <2>3, RecordMonthType
    <3> QED BY <3>1, <3>2 DEF Safe, Held
  <2> QED BY <2>1, <2>2, <2>3
<1>12. \A r \in delivered' : Safe(r)'
  BY <1>2, <1>3, <1>11 DEF IInv, history
<1>13. Brought'
  <2>1. Got' = Got /\ Got \subseteq Record
    BY <1>7 DEF Got
  <2>2. \A r \in Got : RecordMonth(r) \in proc.months \/ Safe(r)
    BY <1>2 DEF IInv, Brought
  <2>3. ASSUME NEW r \in Got
        PROVE  RecordMonth(r) \in proc.months \ {m} \/ Safe(r)'
    BY <1>11, <2>1, <2>2
  <2> QED BY <1>7, <2>1, <2>3 DEF Brought
<1>14. NoDuplicates'
  <2>1. ASSUME NEW n \in Month, NEW r \in Record \ moved
        PROVE  files'[n].recs[r] <= 1
    <3>1. CASE n = m
      BY <1>3, <1>4, <1>8, <3>1 DEF NoCopies
    <3>2. CASE n # m
      <4>1. files'[n] = files[n]
        BY <1>3, <1>8, <3>2
      <4> QED BY <4>1 DEF IInv, NoDuplicates
    <3> QED BY <3>1, <3>2
  <2> QED BY <1>2, <2>1 DEF NoDuplicates, history
<1>15. MergedOnce'
  <2>1. \A r \in Record \ moved : mg[r] <= 1
    BY <1>3, <1>4, MergedOnlyOnce DEF mg, IInv
  <2> QED BY <1>2, <1>7, <2>1 DEF MergedOnce, history
<1>16. Truncated'
  <2>1. files'[m].recs = NoCopies
    BY <1>3, <1>4, <1>8
  <2> QED BY <1>7, <2>1 DEF Truncated
<1>17. Fetched' /\ NextIsFresh'
  BY <1>2, <1>7, GotKept DEF IInv, NextIsFresh, world, history
<1> QED BY <1>10, <1>12, <1>13, <1>14, <1>15, <1>16, <1>17 DEF IInv

LEMMA CloseFileStep == ASSUME IInv, CloseFile PROVE IInv'
<1> DEFINE m == proc.month
           f == [kind |-> "whole", recs |-> proc.merged]
<1>1. /\ proc.pc = "write"
      /\ files' = [files EXCEPT ![m] = f]
      /\ proc' = [proc EXCEPT !.pc = "flush", !.month = Idle.month,
                              !.merged = NoCopies]
      /\ UNCHANGED <<world, checkpoint, kills, history>>
  BY DEF CloseFile
<1>2. proc \in Proc /\ files \in [Month -> File] /\ delivered \subseteq Record
  BY DEF IInv, TypeOK
<1>3. /\ m \in Month /\ f \in File /\ NoCopies \in Copies
      /\ Idle.month \in Month
  BY <1>2, IdleType DEF Proc, File, NoCopies, Copies
<1>4. f.recs = proc.merged
  OBVIOUS
<1>5. /\ proc' \in Proc
      /\ proc'.pc = "flush" /\ proc'.merged = NoCopies
      /\ proc'.months = proc.months /\ proc'.got = proc.got
  BY <1>1, <1>2, <1>3 DEF Proc
<1> HIDE DEF f
<1>6. files' \in [Month -> File]
  BY <1>1, <1>2, <1>3
<1>7. TypeOK'
  BY <1>1, <1>5, <1>6 DEF IInv, TypeOK, world, history
<1>8. files'[m].recs = proc.merged
  BY <1>1, <1>2, <1>3, <1>4
<1>9. ASSUME NEW n \in Month, n # m PROVE files'[n] = files[n]
  BY <1>1, <1>2, <1>9
<1>10. ASSUME NEW r \in Record, Safe(r) PROVE Safe(r)'
  <2>1. CASE RecordMonth(r) \in torn
    BY <1>1, <2>1 DEF Safe, history
  <2>2. CASE m = RecordMonth(r) /\ proc.merged[r] > 0
    BY <1>8, <2>2 DEF Safe, Held
  <2>3. CASE Held(r) /\ m # RecordMonth(r)
    BY <1>9, <2>3, RecordMonthType DEF Safe, Held
  <2>4. CASE Held(r) /\ m = RecordMonth(r)
    BY <1>1, <2>4 DEF IInv, Truncated, Held, NoCopies
  <2> QED BY <1>10, <2>1, <2>2, <2>3, <2>4 DEF Safe
<1>11. \A r \in delivered' : Safe(r)'
  BY <1>1, <1>2, <1>10 DEF IInv, history
<1>12. Brought'
  <2>1. Got' = Got /\ Got \subseteq Record
    BY <1>5 DEF Got
  <2>2. \A r \in Got : RecordMonth(r) \in proc.months \/ Safe(r)
    BY <1>1 DEF IInv, Brought
  <2>3. ASSUME NEW r \in Got
        PROVE  RecordMonth(r) \in proc.months \/ Safe(r)'
    BY <1>10, <2>1, <2>2
  <2> QED BY <1>5, <2>1, <2>3 DEF Brought
<1>13. NoDuplicates'
  <2>1. ASSUME NEW n \in Month, NEW r \in Record \ moved
        PROVE  files'[n].recs[r] <= 1
    <3>1. CASE n = m
      BY <1>8, <3>1 DEF IInv, MergedOnce
    <3>2. CASE n # m
      BY <1>9, <3>2 DEF IInv, NoDuplicates
    <3> QED BY <3>1, <3>2
  <2> QED BY <1>1, <2>1 DEF NoDuplicates, history
<1>14. MergedOnce' /\ Truncated'
  BY <1>5 DEF MergedOnce, Truncated, NoCopies
<1>15. Fetched' /\ NextIsFresh'
  BY <1>1, <1>5, GotKept DEF IInv, NextIsFresh, world, history
<1> QED BY <1>7, <1>11, <1>12, <1>13, <1>14, <1>15 DEF IInv

LEMMA SaveCheckpointStep == ASSUME IInv, SaveCheckpoint PROVE IInv'
<1>1. /\ proc.pc = "flush" /\ proc.months = {}
      /\ checkpoint' = checkpoint \cup {proc.combo}
      /\ proc' = [proc EXCEPT !.pc = "next", !.todo = proc.todo \ {proc.combo},
                              !.combo = Idle.combo, !.got = NoCopies,
                              !.gaveup = FALSE]
      /\ delivered' = delivered \cup Got
      /\ abandoned' = IF proc.gaveup
                      THEN abandoned \cup (Matching(proc.combo, known) \ Got)
                      ELSE abandoned
      /\ UNCHANGED <<world, files, kills, late, moved, torn>>
  BY DEF SaveCheckpoint
<1>2. proc \in Proc /\ checkpoint \subseteq Combo
  BY DEF IInv, TypeOK
<1>3. Idle.combo \in Combo /\ NoCopies \in Copies
  BY IdleType DEF Proc, NoCopies, Copies
<1>4. /\ proc' \in Proc
      /\ proc'.pc = "next" /\ proc'.merged = proc.merged
      /\ proc'.got = NoCopies
  BY <1>1, <1>2, <1>3 DEF Proc
<1>5. checkpoint' \subseteq Combo
  BY <1>1, <1>2 DEF Proc
<1>6. Got \subseteq known
  BY DEF IInv, Fetched, Got
<1>7. delivered' \subseteq known' /\ abandoned' \subseteq known'
  BY <1>1, <1>6 DEF IInv, TypeOK, Matching, world
<1>8. TypeOK'
  BY <1>1, <1>4, <1>5, <1>7 DEF IInv, TypeOK, world
<1>9. \A r \in Got : Safe(r)
  BY <1>1 DEF IInv, Brought
<1>10. \A r \in delivered' : Safe(r)'
  BY <1>1, <1>9 DEF IInv, Safe, Held
<1>11. Fetched' /\ NextIsFresh'
  BY <1>4, NothingGot DEF NextIsFresh
<1> QED BY <1>1, <1>4, <1>8, <1>10, <1>11
        DEF IInv, Brought, NoDuplicates, MergedOnce, Truncated

LEMMA LoopEndsStep == ASSUME IInv, LoopEnds PROVE IInv'
<1>1. /\ proc.pc = "next"
      /\ proc' = [proc EXCEPT !.pc = "report"]
      /\ UNCHANGED <<world, files, checkpoint, kills, history>>
  BY DEF LoopEnds
<1>2. proc \in Proc
  BY DEF IInv, TypeOK
<1>3. /\ proc' \in Proc
      /\ proc'.pc = "report" /\ proc'.merged = proc.merged
      /\ proc'.got = proc.got
  BY <1>1, <1>2 DEF Proc
<1>4. TypeOK'
  BY <1>1, <1>3 DEF IInv, TypeOK, world, history
<1>5. Fetched' /\ MergedOnce' /\ NextIsFresh'
  BY <1>1, <1>3, GotKept DEF IInv, MergedOnce, NextIsFresh, world, history
<1> QED BY <1>1, <1>3, <1>4, <1>5, QuietStep DEF history

(* An invocation that ends or is stopped leaves no merge behind.           *)
LEMMA Ending ==
    ASSUME IInv, proc' \in Proc, proc'.pc \in {"idle", "report", "done"},
           proc'.merged = NoCopies, proc'.got = NoCopies,
           kills' \in 0 .. MaxKills, torn' \subseteq Month,
           torn \subseteq torn', proc.pc = "write" => proc.month \in torn',
           UNCHANGED <<world, files, checkpoint, delivered, abandoned, late,
                       moved>>
    PROVE  IInv'
<1>1. TypeOK'
  BY DEF IInv, TypeOK, world
<1>2. Fetched' /\ MergedOnce' /\ NextIsFresh'
  BY NothingGot DEF MergedOnce, NextIsFresh, NoCopies
<1> QED BY <1>1, <1>2, QuietStep

LEMMA IdleFacts ==
    /\ Idle \in Proc
    /\ Idle.pc = "idle" /\ Idle.merged = NoCopies /\ Idle.got = NoCopies
BY IdleType DEF Idle

LEMMA ReportStep == ASSUME IInv, Report PROVE IInv'
<1>1. /\ proc.pc = "report"
      /\ proc' = IF proc.interrupted THEN Idle
                 ELSE [Idle EXCEPT !.pc = "done", !.end = proc.end]
      /\ UNCHANGED <<world, files, checkpoint, kills, history>>
  BY DEF Report
<1>2. proc.end \in Day
  BY DEF IInv, TypeOK, Proc
<1>3. /\ proc' \in Proc
      /\ proc'.pc \in {"idle", "done"}
      /\ proc'.merged = NoCopies /\ proc'.got = NoCopies
  <2>1. CASE proc.interrupted
    BY <1>1, <2>1, IdleFacts
  <2>2. CASE ~proc.interrupted
    <3> DEFINE p == [Idle EXCEPT !.pc = "done", !.end = proc.end]
    <3>1. /\ p \in Proc
          /\ p.pc = "done" /\ p.merged = NoCopies /\ p.got = NoCopies
      BY <1>2, IdleFacts DEF Proc
    <3> QED BY <1>1, <2>2, <3>1
  <2> QED BY <2>1, <2>2
<1>4. kills' \in 0 .. MaxKills /\ torn' \subseteq Month
  BY <1>1 DEF IInv, TypeOK, history
<1> QED BY <1>1, <1>3, <1>4, Ending DEF history

LEMMA CrashStep == ASSUME IInv, Crash PROVE IInv'
<1>1. /\ proc.pc \in {"flush", "report"}
      /\ proc' = Idle
      /\ UNCHANGED <<world, files, checkpoint, kills, history>>
  BY DEF Crash
<1>2. kills' \in 0 .. MaxKills /\ torn' \subseteq Month
  BY <1>1 DEF IInv, TypeOK, history
<1> QED BY <1>1, <1>2, IdleFacts, Ending DEF history

LEMMA StoppedStep ==
    ASSUME IInv, Stopped
    PROVE  /\ kills' \in 0 .. MaxKills /\ torn' \subseteq Month
           /\ torn \subseteq torn'
           /\ proc.pc = "write" => proc.month \in torn'
<1>1. proc.month \in Month /\ torn \subseteq Month /\ kills \in 0 .. MaxKills
  BY DEF IInv, TypeOK, Proc
<1> QED BY <1>1, PncpAssumption DEF Stopped

LEMMA KillStep == ASSUME IInv, Kill PROVE IInv'
<1>1. /\ Stopped /\ proc' = Idle
      /\ UNCHANGED <<world, files, checkpoint, delivered, abandoned, late,
                   moved>>
  BY DEF Kill
<1> QED BY <1>1, StoppedStep, IdleFacts, Ending

LEMMA InterruptStep == ASSUME IInv, Interrupt PROVE IInv'
<1> DEFINE p == [Idle EXCEPT !.pc = "report", !.end = proc.end,
                             !.interrupted = TRUE]
<1>1. /\ Stopped /\ proc' = p
      /\ UNCHANGED <<world, files, checkpoint, delivered, abandoned, late,
                   moved>>
  BY DEF Interrupt
<1>2. proc.end \in Day
  BY DEF IInv, TypeOK, Proc
<1>3. /\ p \in Proc
      /\ p.pc = "report" /\ p.merged = NoCopies /\ p.got = NoCopies
  BY <1>2, IdleFacts DEF Proc
<1> HIDE DEF p
<1> QED BY <1>1, <1>3, StoppedStep, Ending

-----------------------------------------------------------------------------
LEMMA NextInv == IInv /\ [Next]_vars => IInv'
<1> SUFFICES ASSUME IInv, [Next]_vars PROVE IInv'
  OBVIOUS
<1>1. CASE Publish \/ NextDay \/ UNCHANGED vars
  BY <1>1, PublishStep, WorldStep
<1>2. CASE Start
  BY <1>2, StartStep
<1>3. CASE Step
  <2>1. CASE \E p \in PageNo : Answer(p) \/ PageError(p) \/ PageRefused(p)
    BY <2>1, AnswerStep, FailedPageStep
  <2>2. CASE TakeCombo \/ Group \/ LoopEnds
    BY <2>2, TakeComboStep, GroupStep, LoopEndsStep
  <2>3. CASE OpenFile \/ CloseFile \/ SaveCheckpoint
    BY <2>3, OpenFileStep, CloseFileStep, SaveCheckpointStep
  <2>4. CASE Report \/ Crash
    BY <2>4, ReportStep, CrashStep
  <2> QED BY <1>3, <2>1, <2>2, <2>3, <2>4 DEF Step
<1>4. CASE Kill \/ Interrupt
  BY <1>4, KillStep, InterruptStep
<1> QED BY <1>1, <1>2, <1>3, <1>4 DEF Next

LEMMA Invariance == Spec => []IInv
BY InitInv, NextInv, PTL DEF Spec

(* Every reachable state is of the model's types (download_pncp.py         *)
(* 343-525): no page is tried MAX_RETRIES times or more.                   *)
THEOREM TypeCorrect == Spec => []TypeOK
<1>1. IInv => TypeOK
  BY DEF IInv
<1> QED BY <1>1, Invariance, PTL

(* A record that a checkpointed window brought stays in its month's file,  *)
(* whatever windows are fetched again and whoever stops the script, but    *)
(* for the months a stop caught half written: SaveCheckpoint comes after   *)
(* every month was written (download_pncp.py 478-489).                     *)
THEOREM DeliveredIsKept == Spec => []LostOnlyByTornWrite
<1>1. IInv => LostOnlyByTornWrite
  BY DEF IInv, Safe, LostOnlyByTornWrite
<1> QED BY <1>1, Invariance, PTL

(* However often a window is fetched, no file ever holds a record twice but *)
(* one that moved to another page meanwhile (download_pncp.py 225-234).     *)
THEOREM NeverTwice == Spec => []NoDuplicates
<1>1. IInv => NoDuplicates
  BY DEF IInv
<1> QED BY <1>1, Invariance, PTL

-----------------------------------------------------------------------------
(***************************************************************************)
(* FinishedRunIsComplete.                                                  *)
(*                                                                         *)
(* A run that ends has every window up to its last day in the checkpoint   *)
(* (Planned), whichever run put it there.  Of what a checkpointed window   *)
(* spans, a record was brought, or its page given up, or it moved while    *)
(* the pages were fetched, or it was published too late for the window,    *)
(* which only the window's last day can be (Answered); until a window is   *)
(* in the checkpoint, the page of the record may also be still to come     *)
(* (Asked).  What was brought is in the files by what is proved above.     *)
(***************************************************************************)

(* Which window a day is in.                                               *)

(* Every day before the end is in a window, and if it is not the end of a  *)
(* full one the window goes on after it.                                   *)
LEMMA WindowOf ==
    ASSUME NEW d \in Day, NEW end \in Day, d < end
    PROVE  \E s \in WindowStarts(end) :
             /\ s <= d /\ d <= WindowEnd(s, end)
             /\ d = WindowEnd(s, end) => d % WindowDays = 0
<1> DEFINE x == d - 1
           s == d - (x % WindowDays)
<1>1. /\ d \in Nat \ {0} /\ end \in Nat /\ WindowDays \in Nat \ {0}
      /\ x \in Nat /\ d <= LastDay /\ LastDay \in Nat
  BY PncpAssumption DEF Day
<1>2. /\ x % WindowDays \in 0 .. WindowDays - 1
      /\ (x - (x % WindowDays)) % WindowDays = 0
  BY <1>1, Remainder, LessRemainder
<1>3. x % WindowDays <= x
  BY <1>1
<1>4. /\ s \in Day /\ s < end /\ s <= d /\ d <= s + WindowDays - 1
      /\ s - 1 = x - (x % WindowDays)
  BY <1>1, <1>2, <1>3 DEF Day
<1>5. s \in WindowStarts(end)
  BY <1>2, <1>4 DEF WindowStarts
<1>6. d <= WindowEnd(s, end)
  BY <1>1, <1>4 DEF WindowEnd
<1>7. ASSUME d = WindowEnd(s, end) PROVE d % WindowDays = 0
  <2>1. x % WindowDays = WindowDays - 1
    BY <1>1, <1>2, <1>4, <1>7 DEF WindowEnd
  <2>2. (x + 1) % WindowDays = 0
    BY <1>1, <2>1, LastBeforeMultiple
  <2> QED BY <1>1, <2>2
<1> HIDE DEF s
<1> QED BY <1>4, <1>5, <1>6, <1>7

-----------------------------------------------------------------------------
Asking == proc.pc \in {"fetch", "flush", "write"}

Calendar == \A r \in known : DayOf[r] <= today

Keys ==
    /\ \A c \in checkpoint : c.to <= today
    /\ proc.end <= today
    /\ \A c \in proc.todo : c.to <= today
    /\ Asking => proc.combo.to <= today

Planned ==
    /\ proc.pc # "idle" /\ ~proc.interrupted =>
         Combos(proc.end) \subseteq checkpoint \cup proc.todo
    /\ proc.pc \in {"report", "done"} => proc.todo = {}
    /\ proc.pc = "done" => ~proc.interrupted

\* The record is not in the pages that combination c was asked for.
Missed(c, r) == r \in moved \/ (r \in late /\ DayOf[r] = c.to)

Answered ==
    \A c \in checkpoint : \A r \in Matching(c, known) :
        r \in delivered \cup abandoned \/ Missed(c, r)

ToCome(r) ==
    /\ proc.pc = "fetch"
    /\ 1 \in proc.pages \/ PageOf(proc.combo, r, known) \in proc.pages

Asked ==
    Asking /\ ~proc.gaveup =>
        \A r \in Matching(proc.combo, known) :
            proc.got[r] > 0 \/ Missed(proc.combo, r) \/ ToCome(r)

CInv == Calendar /\ Keys /\ Planned /\ Answered /\ Asked

LEMMA CInitially == Init => CInv
<1> SUFFICES ASSUME Init PROVE CInv
  OBVIOUS
<1> QED BY DEF Init, Idle, CInv, Calendar, Keys, Planned, Answered, Asked, Asking

-----------------------------------------------------------------------------
(* A record that is published matches no window that was asked for but     *)
(* those that end today, and is then late for them; it moves the others    *)
(* only while they are fetched.                                            *)
LEMMA CPublish == ASSUME IInv, CInv, Publish PROVE CInv'
<1>1. PICK n \in Record \ known :
        /\ DayOf[n] = today
        /\ known' = known \cup {n}
        /\ late' = IF \E c \in AskedFor : /\ c.from <= today /\ today <= c.to
                                         /\ ModOf[n] = c.mod
                   THEN late \cup {n} ELSE late
        /\ moved' = IF proc.pc = "fetch"
                    THEN moved \cup
                           {q \in Matching(proc.combo, known) :
                              PageOf(proc.combo, q, known \cup {n})
                                # PageOf(proc.combo, q, known)}
                    ELSE moved
        /\ UNCHANGED <<today, newestFirst, files, checkpoint, proc, kills,
                       delivered, abandoned, torn>>
  BY DEF Publish
<1>2. /\ known \subseteq Record /\ today \in Nat /\ checkpoint \subseteq Combo
      /\ proc.combo \in Combo
      /\ \A c \in Combo : c.to \in Nat
  BY PncpAssumption DEF IInv, TypeOK, Proc, Combo, Day
<1>3. Calendar' /\ Keys' /\ Planned'
  BY <1>1, <1>2 DEF CInv, Calendar, Keys, Planned, Asking
<1>4. ASSUME NEW c \in AskedFor, c \in Combo, c.to <= today, n \in Matching(c, known')
      PROVE  n \in late' /\ DayOf[n] = c.to
  <2>1. c.from <= today /\ today <= c.to /\ ModOf[n] = c.mod
    BY <1>1, <1>4 DEF Matching
  <2>2. n \in late'
    BY <1>1, <2>1
  <2> QED BY <1>1, <1>2, <1>4, <2>1, <2>2
<1>5. ASSUME NEW c \in Combo, NEW r \in Matching(c, known'), r # n
      PROVE  /\ r \in Matching(c, known)
             /\ r \in moved => r \in moved'
             /\ r \in late => r \in late'
  BY <1>1, <1>5 DEF Matching
<1>6. Answered'
  <2> SUFFICES ASSUME NEW c \in checkpoint, NEW r \in Matching(c, known')
               PROVE  \/ r \in delivered \cup abandoned
                      \/ r \in moved' \/ (r \in late' /\ DayOf[r] = c.to)
    BY <1>1 DEF Answered, Missed
  <2>1. c \in Combo /\ c.to <= today /\ c \in AskedFor
    BY <1>2 DEF CInv, Keys, AskedFor
  <2>2. CASE r = n
    BY <1>4, <2>1, <2>2
  <2>3. CASE r # n
    BY <1>5, <2>1, <2>3 DEF CInv, Answered, Missed
  <2> QED BY <2>2, <2>3
<1>7. Asked'
  <2> DEFINE c == proc.combo
  <2> SUFFICES ASSUME Asking, ~proc.gaveup, NEW r \in Matching(c, known')
               PROVE  \/ proc.got[r] > 0 \/ ToCome(r)'
                      \/ r \in moved' \/ (r \in late' /\ DayOf[r] = c.to)
    BY <1>1 DEF Asked, Asking, Missed
  <2>1. c \in Combo /\ c.to <= today /\ c \in AskedFor
    BY <1>2 DEF CInv, Keys, AskedFor, Asking
  <2>2. CASE r = n
    BY <1>4, <2>1, <2>2
  <2>3. CASE r # n
    <3>1. r \in Matching(c, known)
      BY <1>5, <2>1, <2>3
    <3>2. CASE proc.got[r] > 0 \/ Missed(c, r)
      BY <1>5, <2>1, <2>3, <3>2 DEF Missed
    <3>3. CASE ToCome(r)
      <4>1. PageOf(c, r, known') = PageOf(c, r, known) \/ r \in moved'
        BY <1>1, <3>1, <3>3 DEF ToCome
      <4>2. PageOf(c, r, known)' = PageOf(c, r, known')
        BY <1>1 DEF PageOf, Before, Matching
      <4> QED BY <1>1, <3>3, <4>1, <4>2 DEF ToCome
    <3> QED BY <3>1, <3>2, <3>3 DEF CInv, Asked
  <2> QED BY <2>2, <2>3
<1> QED BY <1>3, <1>6, <1>7 DEF CInv

LEMMA CNextDay == ASSUME IInv, CInv, NextDay PROVE CInv'
<1>1. /\ today \in Nat /\ today' = today + 1
      /\ UNCHANGED <<newestFirst, known, files, checkpoint, proc, kills, history>>
  BY DEF IInv, TypeOK, NextDay, Day
<1>2. /\ known \subseteq Record /\ proc.end \in Nat /\ proc.todo \subseteq Combo
      /\ checkpoint \subseteq Combo /\ proc.combo \in Combo
      /\ \A c \in Combo : c.to \in Nat
      /\ \A r \in Record : DayOf[r] \in Nat
  BY PncpAssumption DEF IInv, TypeOK, Proc, Combo, Day
<1>3. Calendar' /\ Keys'
  BY <1>1, <1>2 DEF CInv, Calendar, Keys, Asking
<1>4. Planned' /\ Answered'
  BY <1>1 DEF CInv, Planned, Answered, Missed, Matching, history
<1>5. Asked'
  BY <1>1 DEF CInv, Asked, Asking, Missed, ToCome, Matching, PageOf, Before, history
<1> QED BY <1>3, <1>4, <1>5 DEF CInv

-----------------------------------------------------------------------------
(* The steps of the script leave the calendar and the records alone.       *)
LEMMA Unseen ==
    ASSUME UNCHANGED <<world, checkpoint, history>>, Calendar, Answered
    PROVE  Calendar' /\ Answered'
BY DEF Calendar, Answered, Missed, Matching, world, history

LEMMA CombosUpTo ==
    ASSUME NEW end \in Day, NEW c \in Combos(end)
    PROVE  c.to <= end
BY PncpAssumption DEF Combos, WindowStarts, WindowEnd, Day

LEMMA CStart == ASSUME IInv, CInv, Start PROVE CInv'
<1>1. PICK completed \in {checkpoint, {}} :
        proc' = [Idle EXCEPT !.pc = "next", !.end = today,
                             !.todo = Combos(today) \ completed]
  BY DEF Start
<1>2. UNCHANGED <<world, files, checkpoint, kills, history>>
  BY DEF Start
<1>3. /\ proc'.pc = "next" /\ proc'.end = today
      /\ proc'.todo = Combos(today) \ completed /\ ~proc'.interrupted
  BY <1>1 DEF Idle
<1>4. today \in Day /\ today \in Nat
  BY DEF IInv, TypeOK, Day
<1>5. Keys' /\ Planned'
  BY <1>2, <1>3, <1>4, CombosUpTo DEF CInv, Keys, Planned, Asking, world
<1>6. Asked'
  BY <1>3 DEF Asked, Asking
<1> QED BY <1>2, <1>5, <1>6, Unseen DEF CInv

LEMMA CTakeCombo == ASSUME IInv, CInv, TakeCombo PROVE CInv'
<1>1. PICK c \in proc.todo :
        proc' = [proc EXCEPT !.pc = "fetch", !.combo = c, !.pages = {1}]
  BY DEF TakeCombo
<1>2. proc.pc = "next" /\ UNCHANGED <<world, files, checkpoint, kills, history>>
  BY DEF TakeCombo
<1>3. /\ proc'.pc = "fetch" /\ proc'.combo = c /\ proc'.pages = {1}
      /\ proc'.todo = proc.todo /\ proc'.end = proc.end
      /\ proc'.interrupted = proc.interrupted
  BY <1>1 DEF IInv, TypeOK, Proc
<1>4. Keys' /\ Planned'
  BY <1>2, <1>3 DEF CInv, Keys, Planned, Asking, world
<1>5. Asked'
  BY <1>3 DEF Asked, ToCome
<1> QED BY <1>2, <1>4, <1>5, Unseen DEF CInv

\* A step within a combination: where the process is and the combination stay.
LEMMA CWithin ==
    ASSUME IInv, CInv, UNCHANGED <<world, checkpoint, history>>,
           Asking, Asking', Asked',
           proc'.todo = proc.todo, proc'.end = proc.end, proc'.combo = proc.combo,
           proc'.interrupted = proc.interrupted
    PROVE  CInv'
<1>1. Keys' /\ Planned'
  BY DEF CInv, Keys, Planned, Asking, world
<1> QED BY <1>1, Unseen DEF CInv

LEMMA CAnswer == ASSUME IInv, CInv, NEW p \in PageNo, Answer(p) PROVE CInv'
<1> DEFINE c == proc.combo
           q == [proc EXCEPT
                   !.pages = (IF p = 1 THEN TotalPages(c) ELSE proc.pages) \ {p},
                   !.tries[p] = 0,
                   !.got = [r \in Record |->
                        proc.got[r] + IF /\ r \in Matching(c, known)
                                         /\ PageOf(c, r, known) = p
                                      THEN 1 ELSE 0]]
<1>1. /\ proc.pc = "fetch" /\ p \in proc.pages /\ proc' = q
      /\ UNCHANGED <<world, files, checkpoint, kills, history>>
  BY DEF Answer
<1>2. /\ proc \in Proc /\ known \subseteq Record /\ proc.got \in [Record -> Nat]
      /\ 1 \in proc.pages => proc.pages = {1}
  BY <1>1 DEF IInv, TypeOK, Proc, Copies, Fetched, Paged
<1>3. /\ proc'.pc = "fetch" /\ proc'.combo = c
      /\ proc'.todo = proc.todo /\ proc'.end = proc.end
      /\ proc'.interrupted = proc.interrupted /\ proc'.gaveup = proc.gaveup
      /\ proc'.pages = (IF p = 1 THEN TotalPages(c) ELSE proc.pages) \ {p}
      /\ \A r \in Record : proc'.got[r] =
            proc.got[r] + IF /\ r \in Matching(c, known)
                             /\ PageOf(c, r, known) = p
                          THEN 1 ELSE 0
  BY <1>1, <1>2 DEF Proc
<1> HIDE DEF q
<1>4. Asked'
  <2> SUFFICES ASSUME ~proc.gaveup, NEW r \in Matching(c, known)
               PROVE  proc'.got[r] > 0 \/ Missed(c, r) \/ PageOf(c, r, known) \in proc'.pages
    BY <1>1, <1>3 DEF Asked, Missed, ToCome, Matching, PageOf, Before, world, history
  <2>1. /\ r \in Record /\ proc.got[r] \in Nat
        /\ proc.got[r] > 0 \/ Missed(c, r) \/ ToCome(r)
    BY <1>1, <1>2 DEF CInv, Asked, Asking, Matching
  <2>2. CASE PageOf(c, r, known) = p
    BY <1>3, <2>1, <2>2
  <2>3. CASE PageOf(c, r, known) # p /\ p = 1
    BY <1>3, <2>3 DEF TotalPages
  <2>4. CASE PageOf(c, r, known) # p /\ p # 1
    <3>1. proc'.pages = proc.pages \ {p} /\ 1 \notin proc.pages
      BY <1>1, <1>2, <1>3, <2>4
    <3>2. proc'.got[r] = proc.got[r]
      BY <1>3, <2>1, <2>4
    <3> QED BY <2>1, <2>4, <3>1, <3>2 DEF ToCome
  <2> QED BY <2>2, <2>3, <2>4
<1> QED BY <1>1, <1>3, <1>4, CWithin DEF Asking

\* A page that failed is asked for again, or given up.
LEMMA CFailedPage ==
    ASSUME IInv, CInv, NEW p \in PageNo, PageError(p) \/ PageRefused(p)
    PROVE  CInv'
<1>1. /\ proc.pc = "fetch"
      /\ UNCHANGED <<world, files, checkpoint, kills, history>>
  BY DEF PageError, PageRefused
<1>2. \/ proc' = [proc EXCEPT !.tries[p] = proc.tries[p] + 1]
      \/ proc' = [proc EXCEPT !.pages = proc.pages \ {p}, !.tries[p] = 0,
                              !.gaveup = TRUE]
  BY DEF PageError, PageRefused, GiveUp
<1>3. /\ proc'.pc = "fetch" /\ proc'.combo = proc.combo
      /\ proc'.todo = proc.todo /\ proc'.end = proc.end
      /\ proc'.interrupted = proc.interrupted /\ proc'.got = proc.got
      /\ proc'.gaveup \/ (proc'.gaveup = proc.gaveup /\ proc'.pages = proc.pages)
  BY <1>1, <1>2 DEF IInv, TypeOK, Proc
<1>4. Asked'
  BY <1>1, <1>3 DEF CInv, Asked, Asking, Missed, ToCome, Matching, PageOf, Before,
                    world, history
<1> QED BY <1>1, <1>3, <1>4, CWithin DEF Asking

\* The records are grouped when no page is to come, and then written.
LEMMA CWrite ==
    ASSUME IInv, CInv, Group \/ OpenFile \/ CloseFile
    PROVE  CInv'
<1>1. /\ UNCHANGED <<world, checkpoint, kills, history>>
      /\ Asking
      /\ proc.pc = "fetch" => proc.pages = {}
  BY DEF Group, OpenFile, CloseFile, Asking
<1>2. /\ proc'.pc \in {"flush", "write"} /\ proc'.combo = proc.combo
      /\ proc'.todo = proc.todo /\ proc'.end = proc.end
      /\ proc'.interrupted = proc.interrupted /\ proc'.got = proc.got
      /\ proc'.gaveup = proc.gaveup
  BY DEF IInv, TypeOK, Proc, Group, OpenFile, CloseFile
<1>3. Asking'
  BY <1>2 DEF Asking
<1>4. Asked'
  <2> SUFFICES ASSUME ~proc.gaveup, NEW r \in Matching(proc.combo, known)
               PROVE  proc.got[r] > 0 \/ Missed(proc.combo, r)
    BY <1>1, <1>2 DEF Asked, Missed, Matching, world, history
  <2> QED BY <1>1 DEF CInv, Asked, ToCome
<1> QED BY <1>1, <1>2, <1>3, <1>4, CWithin

LEMMA CSaveCheckpoint == ASSUME IInv, CInv, SaveCheckpoint PROVE CInv'
<1> DEFINE c == proc.combo
<1>1. /\ proc.pc = "flush"
      /\ checkpoint' = checkpoint \cup {c}
      /\ delivered' = delivered \cup Got
      /\ abandoned' = IF proc.gaveup THEN abandoned \cup (Matching(c, known) \ Got)
                      ELSE abandoned
      /\ UNCHANGED <<world, files, kills, late, moved, torn>>
  BY DEF SaveCheckpoint
<1>2. /\ proc'.pc = "next" /\ proc'.todo = proc.todo \ {c}
      /\ proc'.end = proc.end /\ proc'.interrupted = proc.interrupted
  BY DEF IInv, TypeOK, Proc, SaveCheckpoint
<1>3. Keys' /\ Planned' /\ Calendar'
  BY <1>1, <1>2 DEF CInv, Keys, Planned, Calendar, Asking, world
<1>4. Asked'
  BY <1>2 DEF Asked, Asking
<1>5. ASSUME NEW r \in Matching(c, known)
      PROVE  r \in delivered' \cup abandoned' \/ Missed(c, r)
  BY <1>1, <1>5 DEF CInv, Asked, Asking, ToCome, Got, Matching, IInv, TypeOK
<1>6. Answered'
  BY <1>1, <1>5 DEF CInv, Answered, Missed, Matching, world
<1> QED BY <1>3, <1>4, <1>6 DEF CInv

\* The loop is over, or the report, or the process.
LEMMA CEnds ==
    ASSUME IInv, CInv, LoopEnds \/ Report \/ Crash \/ Kill \/ Interrupt
    PROVE  CInv'
<1>1. /\ UNCHANGED <<world, checkpoint, delivered, abandoned, late, moved>>
      /\ Calendar' /\ Answered'
  <2>1. UNCHANGED <<world, checkpoint, delivered, abandoned, late, moved>>
    BY DEF LoopEnds, Report, Crash, Kill, Interrupt, history
  <2> QED BY <2>1 DEF CInv, Calendar, Answered, Missed, Matching, world
<1>2. today \in Nat /\ today >= 1 /\ proc \in Proc
  BY DEF IInv, TypeOK, Day
<1>3. CASE LoopEnds
  <2>1. /\ proc'.pc = "report" /\ proc'.todo = proc.todo /\ proc.todo = {}
        /\ proc'.end = proc.end /\ proc'.interrupted = proc.interrupted
        /\ proc.pc = "next"
    BY <1>2, <1>3 DEF LoopEnds, Proc
  <2> QED BY <1>1, <2>1 DEF CInv, Keys, Planned, Asked, Asking, world
<1>4. CASE proc' = Idle
  BY <1>1, <1>2, <1>4 DEF CInv, Keys, Planned, Asked, Asking, Idle, world
<1>5. CASE Report /\ ~proc.interrupted
  <2>1. /\ proc'.pc = "done" /\ proc'.todo = {} /\ ~proc'.interrupted
        /\ proc'.end = proc.end /\ proc.pc = "report"
    BY <1>5 DEF Report, Idle
  <2> QED BY <1>1, <1>5, <2>1 DEF CInv, Keys, Planned, Asked, Asking, world
<1>6. CASE Interrupt
  <2>1. /\ proc'.pc = "report" /\ proc'.todo = {} /\ proc'.interrupted
        /\ proc'.end = proc.end
    BY <1>6 DEF Interrupt, Idle
  <2> QED BY <1>1, <2>1 DEF CInv, Keys, Planned, Asked, Asking, world
<1> QED BY <1>3, <1>4, <1>5, <1>6 DEF Report, Crash, Kill

LEMMA CStill == ASSUME CInv, UNCHANGED vars PROVE CInv'
<1>1. UNCHANGED <<world, files, checkpoint, proc, kills, history>>
  BY DEF vars
<1>2. Keys' /\ Planned' /\ Asked'
  BY <1>1 DEF CInv, Keys, Planned, Asked, Asking, Missed, ToCome, Matching, PageOf,
              Before, world, history
<1> QED BY <1>1, <1>2, Unseen DEF CInv

LEMMA CNext == IInv /\ CInv /\ [Next]_vars => CInv'
<1> SUFFICES ASSUME IInv, CInv, [Next]_vars PROVE CInv'
  OBVIOUS
<1>1. CASE Publish \/ NextDay \/ Start
  BY <1>1, CPublish, CNextDay, CStart
<1>2. CASE Step
  <2>1. CASE \E p \in PageNo : Answer(p) \/ PageError(p) \/ PageRefused(p)
    BY <2>1, CAnswer, CFailedPage
  <2>2. CASE TakeCombo \/ Group \/ OpenFile \/ CloseFile \/ SaveCheckpoint
    BY <2>2, CTakeCombo, CWrite, CSaveCheckpoint
  <2>3. CASE LoopEnds \/ Report \/ Crash
    BY <2>3, CEnds
  <2> QED BY <1>2, <2>1, <2>2, <2>3 DEF Step
<1>3. CASE Kill \/ Interrupt
  BY <1>3, CEnds
<1>4. CASE UNCHANGED vars
  BY <1>4, CStill
<1> QED BY <1>1, <1>2, <1>3, <1>4 DEF Next

-----------------------------------------------------------------------------
LEMMA FinishedFollows == IInv /\ CInv => FinishedRunIsComplete
<1> SUFFICES ASSUME IInv, CInv, proc.pc = "done",
                    NEW r \in known, DayOf[r] < proc.end
             PROVE  \/ Held(r)
                    \/ r \in abandoned \cup moved
                    \/ RecordMonth(r) \in torn
                    \/ r \in late /\ DayOf[r] % WindowDays = 0
  BY DEF FinishedRunIsComplete
<1>1. r \in Record /\ DayOf[r] \in Day /\ proc.end \in Day /\ ModOf[r] \in Modalidade
  BY PncpAssumption DEF IInv, TypeOK, Proc
<1>2. PICK s \in WindowStarts(proc.end) :
        /\ s <= DayOf[r] /\ DayOf[r] <= WindowEnd(s, proc.end)
        /\ DayOf[r] = WindowEnd(s, proc.end) => DayOf[r] % WindowDays = 0
  BY <1>1, WindowOf
<1> DEFINE c == [from |-> s, to |-> WindowEnd(s, proc.end), mod |-> ModOf[r]]
<1>3. c \in checkpoint
  BY <1>1 DEF CInv, Planned, Combos
<1>4. r \in Matching(c, known)
  BY <1>1, <1>2 DEF Matching
<1>5. r \in delivered \cup abandoned \/ Missed(c, r)
  BY <1>3, <1>4 DEF CInv, Answered
<1>6. r \in delivered => Held(r) \/ RecordMonth(r) \in torn
  BY DEF IInv, Safe
<1> QED BY <1>2, <1>5, <1>6 DEF Missed

(* When an invocation ends by itself, the files have every record published *)
(* before its last day, but those of pages that were given up, those of     *)
(* months caught half written, those that moved to another page meanwhile   *)
(* and those published on the last day of a full window that had already    *)
(* been asked for (download_pncp.py 178-191, 449-490).                      *)
THEOREM FinishedRunsAreComplete == Spec => []FinishedRunIsComplete
<1>1. Spec => [](IInv /\ CInv)
  BY InitInv, NextInv, CInitially, CNext, PTL DEF Spec
<1> QED BY <1>1, FinishedFollows, PTL
=============================================================================
