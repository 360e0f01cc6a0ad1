--------------------------- MODULE AnalyticsProofs ---------------------------
(***************************************************************************)
(* Theorems about the pages of the dashboard: what their statements agree  *)
(* on for every ledger, filter and calendar, and whatever commits while    *)
(* they are read, and that the figures computed from their rows add up.    *)
(***************************************************************************)
EXTENDS Figures, Sums, TLAPS

(* The statements that answer rows of trades, and the trades they select. *)
RowStatements == {"trader", "actual", "system", "candidates", "month", "rows", "history"}

Selects(p, g, s, e) ==
  CASE s \in {"trader", "actual"} -> Eligible(e, g.range)
    [] s = "system"     -> Resolved(e, g.range)
    [] s = "candidates" -> Candidate(e, g.range)
    [] s \in {"month", "rows"} -> InMode(p.mode, e, g.range)
    [] s = "history"    -> Historic(e)

(* What the filters admitted when a statement was sent. *)
Admitted(s) == IF s = "rows" THEN again ELSE scope

(* A row is one by the range and mode of its statement, whenever it was    *)
(* read.                                                                   *)
RowsOK ==
  \A s \in DOMAIN read \cap RowStatements : \A t \in DOMAIN read[s] :
    t \in Trades /\ read[s][t] \in Entries /\ Selects(page, Admitted(s), s, read[s][t])

(* As long as nothing was committed, every answer is what it would be now. *)
AnswersCurrent ==
  writes = 0 => \A s \in DOMAIN read : read[s] \in Answers(ledger, page, Admitted(s), s)

(* A page but for a day shows what its filters admitted when it was opened *)
(* in its own time zone.                                                   *)
IsScope(g, filter) ==
  \E settings \in Settings :
    settings.zone = 0 /\ settings.now = Now /\ g = Scope(filter, settings)

ScopeOK == page # NoPage /\ page.kind # "day" => IsScope(scope, page.filter)

AnalyticsInv ==
  /\ ledger \in [Trades -> Entries]
  /\ page = NoPage \/ page \in Requests
  /\ writes \in Nat
  /\ DOMAIN read \subseteq Statements(page)
  /\ RowsOK
  /\ AnswersCurrent
  /\ ScopeOK

(* A ledger in which no trade was recorded yet is one. *)
LEMMA NoEntryIsOne == Book!NoEntry \in Entries
BY DEF Book!NoEntry, Entries

(* No page has no statements. *)
LEMMA NoStatements == Statements(NoPage) = {}
BY DEF Statements, NoPage

(* A statement answers rows of the trades it selects. *)
LEMMA SelectedRows ==
  ASSUME NEW L \in [Trades -> Entries], NEW p, NEW g, NEW s \in RowStatements, NEW rows \in Answers(L, p, g, s)
  PROVE  \A t \in DOMAIN rows : t \in Trades /\ rows[t] \in Entries /\ Selects(p, g, s, rows[t])
<1>1. PICK S \in SUBSET Trades : rows = Rows(L, S) /\ \A t \in S : Selects(p, g, s, L[t])
  <2>1. CASE s \in {"trader", "actual"}
    <3>1. rows = Rows(L, InScope(L, g))
      BY <2>1 DEF Answers
    <3>2. \A t \in InScope(L, g) : Eligible(L[t], g.range)
      BY DEF InScope
    <3>3. \A e : Selects(p, g, s, e) = Eligible(e, g.range)
      BY <2>1 DEF Selects
    <3> QED BY <3>1, <3>2, <3>3 DEF InScope
  <2>2. CASE s = "system"
    <3>1. rows = Rows(L, {t \in Trades : InAccount(t, g) /\ Resolved(L[t], g.range)})
      BY <2>2 DEF Answers
    <3> QED BY <2>2, <3>1 DEF Selects
  <2>3. CASE s = "candidates"
    <3>1. rows = Rows(L, {t \in Trades : InAccount(t, g) /\ Candidate(L[t], g.range)})
      BY <2>3 DEF Answers
    <3> QED BY <2>3, <3>1 DEF Selects
  <2>4. CASE s = "month"
    <3>1. rows = MonthRows(L, p, g)
      BY <2>4 DEF Answers
    <3> QED BY <2>4, <3>1 DEF MonthRows, InPeriod, Selects
  <2>5. CASE s = "rows"
    <3>1. rows = DayRows(L, p, g)
      BY <2>5 DEF Answers
    <3> QED BY <2>5, <3>1 DEF DayRows, InPeriod, Selects
  <2>6. CASE s = "history"
    <3>1. rows = Rows(L, {t \in Trades : InAccount(t, g) /\ Historic(L[t])})
      BY <2>6 DEF Answers
    <3> QED BY <2>6, <3>1 DEF Selects
  <2> QED BY <2>1, <2>2, <2>3, <2>4, <2>5, <2>6 DEF RowStatements
<1> QED BY <1>1 DEF Rows

(* Without a page nothing is read. *)
LEMMA InitiallySo ==
  ASSUME Init
  PROVE  AnalyticsInv
<1>1. ledger \in [Trades -> Entries]
  BY NoEntryIsOne DEF Init, Book!Init
<1>2. DOMAIN read = {}
  BY DEF Init
<1> QED BY <1>1, <1>2 DEF Init, AnalyticsInv, RowsOK, AnswersCurrent, ScopeOK

(* A page that opens has read nothing. *)
LEMMA OpenPageKeeps ==
  ASSUME AnalyticsInv, OpenPage
  PROVE  AnalyticsInv'
<1>1. DOMAIN read' = {}
  BY NoStatements DEF AnalyticsInv, OpenPage
<1>2. page' \in Requests /\ ledger' \in [Trades -> Entries] /\ writes' \in Nat
  BY DEF AnalyticsInv, OpenPage
<1>3. ScopeOK'
  BY DEF OpenPage, ScopeOK, IsScope
<1> QED BY <1>1, <1>2, <1>3 DEF AnalyticsInv, RowsOK, AnswersCurrent

(* A statement answers from the ledger as it is. *)
LEMMA ReadKeeps ==
  ASSUME AnalyticsInv, NEW s, Read(s)
  PROVE  AnalyticsInv'
<1>1. PICK rows \in Answers(ledger, page, IF s = "rows" THEN again' ELSE scope, s) :
        read' = [x \in DOMAIN read \cup {s} |-> IF x = s THEN rows ELSE read[x]]
  BY DEF Read
<1>2. /\ DOMAIN read' = DOMAIN read \cup {s}
      /\ read'[s] = rows
      /\ \A x \in DOMAIN read \ {s} : read'[x] = read[x]
  BY <1>1
<1>3. /\ ledger' = ledger /\ page' = page /\ scope' = scope /\ writes' = writes
      /\ s \in Statements(page) \ DOMAIN read
      /\ s # "rows" => again' = again
  BY DEF Read
<1>4. \A x \in DOMAIN read : Admitted(x)' = Admitted(x)
  BY <1>3 DEF Admitted
<1>5. rows \in Answers(ledger, page, Admitted(s)', s)
  BY <1>1, <1>3 DEF Admitted
<1>6. RowsOK'
  <2> SUFFICES ASSUME NEW x \in DOMAIN read' \cap RowStatements, NEW t \in DOMAIN read'[x]
               PROVE  /\ t \in Trades /\ read'[x][t] \in Entries
                      /\ Selects(page, Admitted(x)', x, read'[x][t])
    BY <1>3 DEF RowsOK, Selects
  <2>1. CASE x = s
    BY <1>2, <1>5, <2>1, SelectedRows DEF AnalyticsInv
  <2>2. CASE x # s
    BY <1>2, <1>4, <2>2 DEF AnalyticsInv, RowsOK
  <2> QED BY <2>1, <2>2
<1>7. AnswersCurrent'
  BY <1>2, <1>3, <1>4, <1>5 DEF AnalyticsInv, AnswersCurrent
<1>8. ScopeOK'
  BY <1>3 DEF AnalyticsInv, ScopeOK
<1> QED BY <1>2, <1>3, <1>6, <1>7, <1>8 DEF AnalyticsInv

(* A closed page forgets what it has read. *)
LEMMA ClosePageKeeps ==
  ASSUME AnalyticsInv, ClosePage
  PROVE  AnalyticsInv'
<1>1. DOMAIN read' = {}
  BY DEF ClosePage
<1> QED BY <1>1 DEF AnalyticsInv, ClosePage, RowsOK, AnswersCurrent, ScopeOK

(* A write leaves what was read, and is counted. *)
LEMMA WriteKeeps ==
  ASSUME AnalyticsInv, NEW t \in Trades, Write(t)
  PROVE  AnalyticsInv'
<1>1. ledger' \in [Trades -> Entries]
  BY DEF AnalyticsInv, Write
<1>2. page' = page /\ scope' = scope /\ again' = again /\ read' = read /\ writes' \in Nat
  BY DEF AnalyticsInv, Write
<1>3. writes' = 0 => DOMAIN read = {}
  BY NoStatements DEF AnalyticsInv, Write
<1>4. AnswersCurrent'
  BY <1>2, <1>3 DEF AnswersCurrent
<1> QED BY <1>1, <1>2, <1>4 DEF AnalyticsInv, RowsOK, Admitted, ScopeOK

(* A page that is open keeps what it has read; writes are counted. *)
THEOREM AnalyticsInvariant == Spec => []AnalyticsInv
<1>1. Init => AnalyticsInv
  BY InitiallySo
<1>2. AnalyticsInv /\ [Next]_vars => AnalyticsInv'
  <2> SUFFICES ASSUME AnalyticsInv, [Next]_vars PROVE AnalyticsInv'
    OBVIOUS
  <2>1. CASE Next
    BY <2>1, OpenPageKeeps, ReadKeeps, ClosePageKeeps, WriteKeeps DEF Next
  <2>2. CASE UNCHANGED vars
    BY <2>2 DEF vars, AnalyticsInv, RowsOK, AnswersCurrent, Admitted, ScopeOK
  <2> QED BY <2>1, <2>2
<1> QED BY <1>1, <1>2, PTL DEF Spec

-----------------------------------------------------------------------------
(* The pages. *)

(* A candidate is paired, awaits a system result or is not closed: it is   *)
(* never a record of which nothing can be said.                            *)
LEMMA CandidatesAreKnown ==
  ASSUME NEW e \in Entries, NEW range, Candidate(e, range)
  PROVE  /\ Exclusion(e) # "incomplete_record"
         /\ ActualComplete(e) => Eligible(e, range)
<1>1. e.status \in {"planned", "open", "closed", "canceled"}
  <2>1. e.status # "none"
    BY DEF Entries, Candidate, Eligible, Resolved, ActualComplete, SystemComplete, Book!NoEntry
  <2> QED BY <2>1 DEF Entries
<1>2. e.status = "closed" => ActualComplete(e)
  BY DEF Entries, ActualComplete
<1>3. ActualComplete(e) => Eligible(e, range)
  BY DEF Candidate
<1> QED BY <1>1, <1>2, <1>3 DEF Exclusion

(* The three cards of a dashboard tell of the same trades. *)
LEMMA DashboardsAgree ==
  ASSUME AnalyticsInv, Complete, page.kind = "dashboard"
  PROVE  DashboardAgrees
<1> DEFINE C == read["candidates"]
<1>1. DOMAIN read = {"trader", "system", "candidates"}
  BY DEF Complete, Statements
<1>2. \A t \in DOMAIN C : C[t] \in Entries /\ Candidate(C[t], scope.range)
  BY <1>1 DEF AnalyticsInv, RowsOK, RowStatements, Selects, Admitted
<1>3. \A t \in DOMAIN C : Exclusion(C[t]) # "incomplete_record"
  BY <1>2, CandidatesAreKnown
<1>4. \A t \in DOMAIN C : ActualComplete(C[t]) => Eligible(C[t], scope.range)
  BY <1>2, CandidatesAreKnown
<1>5. \A t \in Pairs : Between(scope.range, C[t].actual.at)
  BY <1>4 DEF Pairs, Paired, Eligible
<1>6. ASSUME Unwritten
      PROVE  /\ DOMAIN read["trader"] = Pairs \cup Awaiting
             /\ \A t \in DOMAIN read["trader"] : read["trader"][t] = C[t]
             /\ \A t \in DOMAIN C : Resolved(C[t], scope.range) => t \in DOMAIN read["system"]
             /\ \A t \in DOMAIN read["system"] :
                  \/ t \in DOMAIN C /\ read["system"][t] = C[t]
                  \/ /\ Paired(read["system"][t])
                     /\ ~Between(scope.range, read["system"][t].actual.at)
  <2>1. /\ read["trader"] \in Answers(ledger, page, scope, "trader")
        /\ read["system"] \in Answers(ledger, page, scope, "system")
        /\ C \in Answers(ledger, page, scope, "candidates")
    BY <1>1, <1>6 DEF AnalyticsInv, AnswersCurrent, Admitted, Unwritten
  <2>2. read["trader"] = Rows(ledger, InScope(ledger, scope))
    BY <2>1 DEF Answers
  <2>3. read["system"] = Rows(ledger, {t \in Trades : InAccount(t, scope) /\ Resolved(ledger[t], scope.range)})
    BY <2>1 DEF Answers
  <2>4. C = Rows(ledger, {t \in Trades : InAccount(t, scope) /\ Candidate(ledger[t], scope.range)})
    BY <2>1 DEF Answers
  <2>5. /\ DOMAIN read["trader"] = {t \in Trades : InAccount(t, scope) /\ Eligible(ledger[t], scope.range)}
        /\ \A t \in DOMAIN read["trader"] : read["trader"][t] = ledger[t]
    BY <2>2 DEF Rows, InScope
  <2>6. /\ DOMAIN read["system"] = {t \in Trades : InAccount(t, scope) /\ Resolved(ledger[t], scope.range)}
        /\ \A t \in DOMAIN read["system"] : read["system"][t] = ledger[t]
    BY <2>3 DEF Rows
  <2>7. /\ DOMAIN C = {t \in Trades : InAccount(t, scope) /\ Candidate(ledger[t], scope.range)}
        /\ \A t \in DOMAIN C : C[t] = ledger[t]
    BY <2>4 DEF Rows
  <2> HIDE DEF C
  <2>8. Pairs \cup Awaiting = {t \in DOMAIN C : ActualComplete(C[t])}
    <3>1. \A t \in DOMAIN C : Exclusion(C[t]) = "awaiting_system_result" <=> ActualComplete(C[t])
      <4> SUFFICES ASSUME NEW t \in DOMAIN C
                   PROVE  Exclusion(C[t]) = "awaiting_system_result" <=> ActualComplete(C[t])
        OBVIOUS
      <4>1. CASE ActualComplete(C[t])
        BY <4>1 DEF Exclusion
      <4>2. CASE ~ActualComplete(C[t]) /\ C[t].status \in {"open", "planned", "canceled"}
        BY <4>2 DEF Exclusion
      <4>3. CASE ~ActualComplete(C[t]) /\ C[t].status \notin {"open", "planned", "canceled"}
        BY <4>3 DEF Exclusion
      <4> QED BY <4>1, <4>2, <4>3
    <3>2. \A t \in DOMAIN C : Paired(C[t]) => ActualComplete(C[t])
      BY DEF Paired
    <3> QED BY <3>1, <3>2 DEF Pairs, Awaiting, C
  <2>9. \A t \in DOMAIN C : ActualComplete(C[t]) <=> Eligible(C[t], scope.range)
    BY <1>4 DEF Eligible, C
  <2>10. DOMAIN read["trader"] = Pairs \cup Awaiting
    BY <2>5, <2>7, <2>8, <2>9 DEF Candidate
  <2>11. \A t \in DOMAIN read["trader"] : read["trader"][t] = C[t]
    BY <2>5, <2>7 DEF Candidate
  <2>12. \A t \in DOMAIN C : Resolved(C[t], scope.range) => t \in DOMAIN read["system"]
    BY <2>6, <2>7
  <2>13. ASSUME NEW t \in DOMAIN read["system"], t \notin DOMAIN C
         PROVE  Paired(ledger[t]) /\ ~Between(scope.range, ledger[t].actual.at)
    <3>1. t \in Trades /\ Resolved(ledger[t], scope.range) /\ ~Candidate(ledger[t], scope.range)
      BY <2>6, <2>7, <2>13
    <3>2. ~ledger[t].deleted /\ SystemComplete(ledger[t])
      BY <3>1 DEF Resolved
    <3>3. ActualComplete(ledger[t]) /\ ~Eligible(ledger[t], scope.range)
      BY <3>1 DEF Candidate
    <3> QED BY <3>2, <3>3 DEF Paired, Eligible
  <2> QED BY <2>6, <2>7, <2>10, <2>11, <2>12, <2>13 DEF C
<1> QED BY <1>3, <1>5, <1>6 DEF DashboardAgrees

(* The classes of the insights divide the trades among them. *)
LEMMA InsightsDoAgree ==
  ASSUME AnalyticsInv, Complete, page.kind = "insights"
  PROVE  InsightsAgree
<1>1. DOMAIN read = {"actual", "checks", "tags"}
  BY DEF Complete, Statements
<1>2. ASSUME Unwritten PROVE ~Orphan
  <2>1. /\ read["actual"] \in Answers(ledger, page, scope, "actual")
        /\ read["checks"] \in Answers(ledger, page, scope, "checks")
        /\ read["tags"] \in Answers(ledger, page, scope, "tags")
    BY <1>1, <1>2 DEF AnalyticsInv, AnswersCurrent, Admitted, Unwritten
  <2>2. DOMAIN read["actual"] = InScope(ledger, scope)
    BY <2>1 DEF Answers, Rows
  <2>3. PICK S \in SUBSET InScope(ledger, scope) : read["checks"] \in [S -> CheckSets]
    BY <2>1 DEF Answers
  <2>4. read["tags"] \subseteq InScope(ledger, scope)
    BY <2>1 DEF Answers
  <2> QED BY <2>2, <2>3, <2>4 DEF Orphan
<1>3. ASSUME ~Orphan
      PROVE  RuleModel \cup Unrecorded = DOMAIN read["actual"] /\ RuleModel \cap Unrecorded = {}
  <2>1. DOMAIN read["checks"] \subseteq DOMAIN read["actual"]
    BY <1>3 DEF Orphan
  <2>2. \A t : t \in DOMAIN read["checks"] => ClassOf(t) = Classification(read["checks"][t])
    BY DEF ClassOf
  <2>3. \A t : t \notin DOMAIN read["checks"] => ClassOf(t) = "unrecorded"
    BY DEF ClassOf
  <2> QED BY <2>1, <2>2, <2>3 DEF RuleModel, Unrecorded
<1> QED BY <1>2, <1>3 DEF InsightsAgree

(* A panel lists the trades of its square, as far as both are admitted. *)
LEMMA DaysAgree ==
  ASSUME AnalyticsInv, Complete, page.kind = "day"
  PROVE  DayAgrees
<1> DEFINE M == read["month"]
           R == read["rows"]
           kept == {t \in Square : Admits(again, t, M[t])}
           listed == {t \in DOMAIN R : Admits(scope, t, R[t])}
<1> SUFFICES ASSUME Unwritten
             PROVE  /\ kept = listed
                    /\ \A t \in kept : R[t] = M[t]
                    /\ Untorn => kept = Square /\ listed = DOMAIN R
  BY DEF DayAgrees
<1>1. DOMAIN read = {"month", "rows"}
  BY DEF Complete, Statements
<1>2. M \in Answers(ledger, page, scope, "month") /\ R \in Answers(ledger, page, again, "rows")
  BY <1>1 DEF AnalyticsInv, AnswersCurrent, Admitted, Unwritten
<1>3. M = MonthRows(ledger, page, scope) /\ R = DayRows(ledger, page, again)
  BY <1>2 DEF Answers
<1> DEFINE of(t) == Day(Axis(page.mode, ledger[t]))
           In(g) == InPeriod(ledger, page, g)
<1>4. /\ DOMAIN M = {t \in In(scope) : Month(of(t)) = Month(page.date)}
      /\ \A t \in DOMAIN M : M[t] = ledger[t]
      /\ DOMAIN R = {t \in In(again) : of(t) = page.date}
      /\ \A t \in DOMAIN R : R[t] = ledger[t]
  BY <1>3 DEF MonthRows, DayRows, Rows
<1>5. Square = {t \in DOMAIN M : of(t) = page.date}
  BY <1>4 DEF Square
<1>6. \A g : In(g) = {t \in Trades : Admits(g, t, ledger[t])}
  BY DEF InPeriod, Admits
<1>7. \A t \in Square : M[t] = ledger[t]
  BY <1>4, <1>5
<1> HIDE DEF of, In, M, R
<1>8. Square = {t \in In(scope) : of(t) = page.date}
  BY <1>4, <1>5
<1>9. kept = {t \in Trades : Admits(scope, t, ledger[t]) /\ Admits(again, t, ledger[t]) /\ of(t) = page.date}
  BY <1>6, <1>7, <1>8
<1>10. listed = {t \in Trades : Admits(scope, t, ledger[t]) /\ Admits(again, t, ledger[t]) /\ of(t) = page.date}
  BY <1>4, <1>6
<1>11. \A t \in kept : R[t] = M[t]
  BY <1>4, <1>7, <1>9, <1>10
<1>12. Untorn => kept = Square /\ listed = DOMAIN R
  BY <1>4, <1>6, <1>7, <1>8 DEF Untorn
<1> QED BY <1>9, <1>10, <1>11, <1>12

(* On every page, whatever is committed while it is read: pairs lie in the *)
(* range, no candidate is an incomplete record, and the classes divide the *)
(* eligible trades unless a record is an orphan.  If no trade was written  *)
(* between its statements, no record is an orphan, cards tell of the same  *)
(* trades, and the list of a day those of its square that the filters      *)
(* admit both times: all of them, if they admit the same both times.       *)
THEOREM PagesTellOneLedger == Spec => []PagesAgree
<1>1. AnalyticsInv => PagesAgree
  <2> SUFFICES ASSUME AnalyticsInv, Complete
               PROVE  DashboardAgrees /\ InsightsAgree /\ DayAgrees
    BY DEF PagesAgree
  <2>1. DashboardAgrees
    BY DashboardsAgree DEF DashboardAgrees
  <2>2. InsightsAgree
    BY InsightsDoAgree DEF InsightsAgree
  <2>3. DayAgrees
    BY DaysAgree DEF DayAgrees
  <2> QED BY <2>1, <2>2, <2>3
<1> QED BY <1>1, AnalyticsInvariant, PTL

-----------------------------------------------------------------------------
(* Folds from left to right, place by place. *)

(* The largest of a set of numbers is what Max says. *)
LEMMA MaxIs ==
  ASSUME NEW S, S \subseteq Int, NEW m \in S, \A k \in S : k <= m
  PROVE  Max(S) = m
<1>1. \A k \in S : m >= k
  OBVIOUS
<1>2. Max(S) \in S /\ \A k \in S : Max(S) >= k
  BY <1>1, Zenon DEF Max
<1>3. m \in Int /\ Max(S) \in Int /\ Max(S) >= m /\ Max(S) <= m
  BY <1>2
<1> QED BY <1>3

(* The places up to one. *)
LEMMA UpToPlace ==
  ASSUME NEW n \in Nat, NEW k \in 1..n
  PROVE  /\ Max(1..k) = k /\ (1..k) \ {k} = 1..(k - 1) /\ 1..k # {}
         /\ 1..k \in SUBSET (1..n) /\ 1..(k - 1) \in SUBSET (1..n)
<1>1. Max(1..k) = k
  <2>1. 1..k \subseteq Int /\ k \in 1..k /\ \A j \in 1..k : j <= k
    OBVIOUS
  <2> QED BY <2>1, MaxIs
<1> QED BY <1>1

(* How f folds the places up to n from left to right.                      *)
FoldsPlaces(f, n, base, step) ==
  \A T \in SUBSET (1..n) : f[T] = IF T = {} THEN base ELSE step[<<f[T \ {Max(T)}], Max(T)>>]

(* A fold from left to right takes the last place last, and there is such  *)
(* a fold as long as its steps stay in a set A.                            *)
LEMMA LeftFoldExists ==
  ASSUME NEW n \in Nat, NEW A, NEW base \in A, NEW step \in [A \X (1..n) -> A]
  PROVE  \E f \in [SUBSET (1..n) -> A] : FoldsPlaces(f, n, base, step)
<1> DEFINE S == 1..n
           last == [T \in SUBSET S |-> Max(T)]
<1>1. IsFiniteSet(S) /\ S \subseteq Int
  BY FS_Interval
<1>2. TakesFrom(last, S)
  <2> SUFFICES ASSUME NEW T \in SUBSET S, T # {} PROVE Max(T) \in T
    BY DEF TakesFrom
  <2> HIDE DEF S
  <2>1. IsFiniteSet(T) /\ T \subseteq Int
    BY <1>1, FS_Subset
  <2>2. PICK m \in T : \A k \in T : k <= m
    BY <2>1, FiniteMaximum
  <2>3. Max(T) = m
    BY <2>1, <2>2, MaxIs
  <2> QED BY <2>3
<1>3. PICK f \in [SUBSET S -> A] : FoldsBy(f, S, last, base, step)
  <2> HIDE DEF last, S
  <2>1. step \in [A \X S -> A]
    BY DEF S
  <2> QED BY <1>1, <1>2, <2>1, FoldExists
<1>4. \A T \in SUBSET S : last[T] = Max(T)
  OBVIOUS
<1> HIDE DEF last, S
<1>5. \A T \in SUBSET S : f[T] = IF T = {} THEN base ELSE step[<<f[T \ {Max(T)}], Max(T)>>]
  BY <1>3, <1>4 DEF FoldsBy
<1> QED BY <1>5 DEF S, FoldsPlaces

(* The last place of some is one of them. *)
LEMMA MaxOfPlaces ==
  ASSUME NEW n \in Nat, NEW T \in SUBSET (1..n), T # {}
  PROVE  Max(T) \in 1..n /\ T \ {Max(T)} \in SUBSET (1..n)
<1>1. IsFiniteSet(1..n) /\ 1..n \subseteq Int
  BY FS_Interval
<1>2. IsFiniteSet(T) /\ T \subseteq Int
  BY <1>1, FS_Subset
<1>3. PICK m \in T : \A k \in T : k <= m
  BY <1>2, FiniteMaximum
<1>4. Max(T) = m
  BY <1>2, <1>3, MaxIs
<1> QED BY <1>3, <1>4

(* What a fold from left to right has after each place is in A, whatever   *)
(* it is on other sets of places.                                          *)
FoldsOn(f, n, A, step) ==
  \A k \in 1..n : f[1..(k - 1)] \in A => f[1..k] = step[<<f[1..(k - 1)], k>>]

(* A fold from left to right is a walk from place to place. *)
LEMMA FoldedPrefixes ==
  ASSUME NEW n \in Nat, NEW A, NEW step \in [A \X (1..n) -> A],
         NEW f, f[{}] \in A, FoldsOn(f, n, A, step)
  PROVE  \A k \in 0..n : f[1..k] \in A
<1> DEFINE G == {k \in 0..n : f[1..k] \in A}
<1>1. 0 \in G
  <2>1. 1..0 = {}
    OBVIOUS
  <2> QED BY <2>1
<1>2. ASSUME NEW k \in 1..n, k - 1 \in G PROVE k \in G
  <2>1. f[1..(k - 1)] \in A
    BY <1>2
  <2>2. f[1..k] = step[<<f[1..(k - 1)], k>>]
    BY <2>1 DEF FoldsOn
  <2>3. step[<<f[1..(k - 1)], k>>] \in A
    BY <2>1
  <2> QED BY <2>2, <2>3
<1> HIDE DEF G
<1>3. 0..n \subseteq G
  BY <1>1, <1>2, IntervalGrowth
<1> QED BY <1>3 DEF G

-----------------------------------------------------------------------------
(* The peak and the worst fall of a series so far. *)
Stands == [peak : Int, worst : Int]

(* How a point moves the peak and the worst fall. *)
Sinks(d, p) ==
  LET peak == IF p > d.peak THEN p ELSE d.peak
  IN [peak |-> peak, worst |-> IF peak - p > d.worst THEN peak - p ELSE d.worst]

(* The fold that Drawdown takes. *)
DrawFold(f, points) ==
  f = [T \in SUBSET (DOMAIN points) |->
         IF T = {} THEN [peak |-> 0, worst |-> 0]
         ELSE Sinks(f[T \ {Max(T)}], points[Max(T)])]

(* What Drawdown is, down to its fold. *)
LEMMA DrawUnfolds == \A points : Drawdown(points) = (CHOOSE f : DrawFold(f, points))[DOMAIN points].worst
BY DEF Drawdown, FoldLeft, MapThenFoldSet, DrawFold, Sinks

(* A drawdown walks along its series. *)
LEMMA DrawdownWalks ==
  ASSUME NEW n \in Nat, NEW points \in [1..n -> Int]
  PROVE  \E d \in [0..n -> Stands] :
           /\ d[0] = [peak |-> 0, worst |-> 0]
           /\ \A k \in 1..n : d[k] = Sinks(d[k - 1], points[k])
           /\ Drawdown(points) = d[n].worst
<1> DEFINE base == [peak |-> 0, worst |-> 0]
           step == [x \in Stands \X (1..n) |-> Sinks(x[1], points[x[2]])]
<1>1. base \in Stands /\ \A d \in Stands, p \in Int : Sinks(d, p) \in Stands
  BY DEF Stands, Sinks
<1>2. step \in [Stands \X (1..n) -> Stands]
  BY <1>1
<1>3. \A d \in Stands, k \in 1..n : step[<<d, k>>] = Sinks(d, points[k])
  OBVIOUS
<1> HIDE DEF base, step
<1>4. PICK f \in [SUBSET (1..n) -> Stands] : FoldsPlaces(f, n, base, step)
  BY <1>1, <1>2, LeftFoldExists
<1>5. DrawFold(f, points)
  <2>1. ASSUME NEW T \in SUBSET (1..n), T # {}
        PROVE  f[T] = Sinks(f[T \ {Max(T)}], points[Max(T)])
    BY <1>3, <1>4, <2>1, MaxOfPlaces DEF FoldsPlaces
  <2>2. f = [T \in SUBSET (1..n) |-> f[T]] /\ DOMAIN points = 1..n
    OBVIOUS
  <2>3. \A T \in SUBSET (1..n) :
          f[T] = IF T = {} THEN base ELSE Sinks(f[T \ {Max(T)}], points[Max(T)])
    BY <1>4, <2>1 DEF FoldsPlaces
  <2> QED BY <2>2, <2>3, Zenon DEF DrawFold, base
<1> DEFINE g == CHOOSE h : DrawFold(h, points)
           d == [k \in 0..n |-> g[1..k]]
<1>6. DrawFold(g, points)
  BY <1>5, Zenon
<1> HIDE DEF g
<1>7. \A T \in SUBSET (1..n) : g[T] = IF T = {} THEN base ELSE Sinks(g[T \ {Max(T)}], points[Max(T)])
  <2>1. DOMAIN points = 1..n
    OBVIOUS
  <2> QED BY <1>6, <2>1 DEF DrawFold, base
<1>8. g[{}] = base
  BY <1>7
<1>9. \A k \in 1..n : g[1..k] = Sinks(g[1..(k - 1)], points[k])
  BY <1>7, UpToPlace
<1>10. FoldsOn(g, n, Stands, step)
  BY <1>3, <1>9 DEF FoldsOn
<1>11. \A k \in 0..n : g[1..k] \in Stands
  BY <1>1, <1>2, <1>8, <1>10, FoldedPrefixes
<1>12. d \in [0..n -> Stands] /\ d[0] = base /\ d[n] = g[1..n]
  <2>1. 1..0 = {}
    OBVIOUS
  <2> QED BY <1>8, <1>11, <2>1
<1>13. \A k \in 1..n : d[k] = Sinks(d[k - 1], points[k])
  BY <1>9
<1>14. Drawdown(points) = d[n].worst
  <2>1. DOMAIN points = 1..n
    OBVIOUS
  <2> QED BY <1>12, <2>1, DrawUnfolds DEF g
<1> HIDE DEF d
<1> QED BY <1>12, <1>13, <1>14 DEF base

-----------------------------------------------------------------------------
(* Peaks and falls. *)

(* How the peak follows the values q[0..n] of a series, and how the worst  *)
(* fall from a peak follows from place m on.                               *)
Climbs(q, peak, n) ==
  /\ \A k \in 0..n : q[k] \in Int /\ peak[k] \in Int
  /\ peak[0] = q[0]
  /\ \A k \in 1..n : peak[k] = IF q[k] > peak[k - 1] THEN q[k] ELSE peak[k - 1]

Falls(q, peak, worst, m, n) ==
  /\ \A k \in m..n : worst[k] \in Int
  /\ worst[m] = peak[m] - q[m]
  /\ \A k \in (m + 1)..n :
       worst[k] = IF peak[k] - q[k] > worst[k - 1] THEN peak[k] - q[k] ELSE worst[k - 1]

(* The peak is the highest value so far. *)
LEMMA PeakIsHighest ==
  ASSUME NEW n \in Nat, NEW q, NEW peak, Climbs(q, peak, n)
  PROVE  \A k \in 0..n : /\ \A i \in 0..k : q[i] <= peak[k]
                         /\ \E i \in 0..k : q[i] = peak[k]
<1> DEFINE G == {k \in 0..n : /\ \A i \in 0..k : q[i] <= peak[k]
                              /\ \E i \in 0..k : q[i] = peak[k]}
<1>1. \A k \in 0..n : q[k] \in Int /\ peak[k] \in Int
  BY DEF Climbs
<1>2. 0 \in G
  BY <1>1 DEF Climbs
<1>3. ASSUME NEW k \in 1..n, k - 1 \in G PROVE k \in G
  <2>1. k - 1 \in 0..n /\ k \in 0..n /\ 0..k = 0..(k - 1) \cup {k}
    OBVIOUS
  <2>2. (\A i \in 0..(k - 1) : q[i] <= peak[k - 1]) /\ \E i \in 0..(k - 1) : q[i] = peak[k - 1]
    BY <1>3
  <2>3. peak[k] = IF q[k] > peak[k - 1] THEN q[k] ELSE peak[k - 1]
    BY DEF Climbs
  <2>4. q[k] <= peak[k] /\ peak[k - 1] <= peak[k] /\ (peak[k] = q[k] \/ peak[k] = peak[k - 1])
    BY <1>1, <2>1, <2>3
  <2>5. \A i \in 0..(k - 1) : q[i] <= peak[k]
    <3>1. \A i \in 0..(k - 1) : q[i] \in Int
      BY <1>1, <2>1
    <3>2. peak[k - 1] \in Int /\ peak[k] \in Int
      BY <1>1, <2>1
    <3> QED BY <2>2, <2>4, <3>1, <3>2
  <2>6. \E i \in 0..k : q[i] = peak[k]
    BY <2>1, <2>2, <2>4
  <2> QED BY <2>1, <2>4, <2>5, <2>6
<1> HIDE DEF G
<1>4. 0..n \subseteq G
  BY <1>2, <1>3, IntervalGrowth
<1> QED BY <1>4 DEF G

(* The worst fall is the deepest from any place to a later one of the      *)
(* places from m on.                                                       *)
LEMMA WorstIsDeepest ==
  ASSUME NEW n \in Nat, NEW m \in 0..n, NEW q, NEW peak, Climbs(q, peak, n),
         NEW worst, Falls(q, peak, worst, m, n)
  PROVE  /\ \A j \in m..n : \A i \in 0..j : q[i] - q[j] <= worst[n]
         /\ \E j \in m..n : \E i \in 0..j : q[i] - q[j] = worst[n]
<1> DEFINE Deepest(k) == /\ \A j \in m..k : \A i \in 0..j : q[i] - q[j] <= worst[k]
                         /\ \E j \in m..k : \E i \in 0..j : q[i] - q[j] = worst[k]
           G == {k \in 0..n : k >= m => Deepest(k)}
<1>1. /\ \A k \in 0..n : q[k] \in Int /\ peak[k] \in Int
      /\ \A k \in m..n : worst[k] \in Int
  BY DEF Climbs, Falls
<1>2. ASSUME NEW k \in m..n
      PROVE  /\ \A i \in 0..k : q[i] - q[k] <= peak[k] - q[k]
             /\ \E i \in 0..k : q[i] - q[k] = peak[k] - q[k]
  <2>1. k \in 0..n
    OBVIOUS
  <2>2. (\A i \in 0..k : q[i] <= peak[k]) /\ \E i \in 0..k : q[i] = peak[k]
    BY <2>1, PeakIsHighest
  <2>3. \A i \in 0..k : q[i] \in Int
    BY <1>1, <2>1
  <2>4. q[k] \in Int /\ peak[k] \in Int
    BY <1>1, <2>1
  <2> QED BY <2>2, <2>3, <2>4
<1>3. Deepest(m)
  <2>1. m \in m..n /\ worst[m] = peak[m] - q[m]
    BY DEF Falls
  <2>2. m..m = {m}
    OBVIOUS
  <2> QED BY <1>2, <2>1, <2>2
<1>4. 0 \in G
  <2>1. 0 >= m => m = 0
    OBVIOUS
  <2> HIDE DEF Deepest
  <2> QED BY <1>3, <2>1
<1>5. ASSUME NEW k \in 1..n, k - 1 \in G PROVE k \in G
  <2>1. CASE k < m
    BY <2>1
  <2>2. CASE k = m
    <3> HIDE DEF Deepest
    <3> QED BY <1>3, <2>2
  <2>3. CASE k > m
    <3>1. k \in (m + 1)..n /\ k \in m..n /\ k - 1 \in m..n /\ m..k = m..(k - 1) \cup {k}
      BY <2>3
    <3>2. Deepest(k - 1)
      <4> HIDE DEF Deepest
      <4> QED BY <1>5, <3>1
    <3>3. worst[k] = IF peak[k] - q[k] > worst[k - 1] THEN peak[k] - q[k] ELSE worst[k - 1]
      BY <3>1 DEF Falls
    <3>4. /\ peak[k] - q[k] <= worst[k] /\ worst[k - 1] <= worst[k]
          /\ worst[k] = peak[k] - q[k] \/ worst[k] = worst[k - 1]
      BY <1>1, <3>1, <3>3
    <3>5. \A j \in m..(k - 1) : \A i \in 0..j : q[i] - q[j] <= worst[k]
      <4> SUFFICES ASSUME NEW j \in m..(k - 1), NEW i \in 0..j PROVE q[i] - q[j] <= worst[k]
        OBVIOUS
      <4>1. q[i] - q[j] <= worst[k - 1]
        BY <3>2
      <4>2. q[i] \in Int /\ q[j] \in Int /\ worst[k - 1] \in Int /\ worst[k] \in Int
        BY <1>1, <3>1
      <4> QED BY <3>4, <4>1, <4>2
    <3>6. \A i \in 0..k : q[i] - q[k] <= worst[k]
      <4> SUFFICES ASSUME NEW i \in 0..k PROVE q[i] - q[k] <= worst[k]
        OBVIOUS
      <4>1. q[i] - q[k] <= peak[k] - q[k]
        BY <1>2, <3>1
      <4>2. q[i] \in Int /\ q[k] \in Int /\ peak[k] \in Int /\ worst[k] \in Int
        BY <1>1, <3>1
      <4> QED BY <3>4, <4>1, <4>2
    <3>7. \E j \in m..k : \E i \in 0..j : q[i] - q[j] = worst[k]
      <4>1. CASE worst[k] = peak[k] - q[k]
        BY <1>2, <3>1, <4>1
      <4>2. CASE worst[k] = worst[k - 1]
        BY <3>1, <3>2, <4>2
      <4> QED BY <3>4, <4>1, <4>2
    <3>8. Deepest(k)
      BY <3>1, <3>5, <3>6, <3>7
    <3> HIDE DEF Deepest
    <3> QED BY <3>8
  <2> QED BY <2>1, <2>2, <2>3
<1> HIDE DEF G
<1>6. 0..n \subseteq G
  BY <1>4, <1>5, IntervalGrowth
<1>7. Deepest(n)
  <2> HIDE DEF Deepest
  <2>1. n \in 0..n /\ n >= m
    OBVIOUS
  <2> QED BY <1>6, <2>1 DEF G
<1> QED BY <1>7

-----------------------------------------------------------------------------
(* The order of an axis. *)

(* The values of a function on a finite set. *)
LEMMA ImageIsFinite ==
  ASSUME NEW S, IsFiniteSet(S), NEW f
  PROVE  IsFiniteSet({f[x] : x \in S})
<1> DEFINE g == [x \in S |-> f[x]]
           R == {f[x] : x \in S}
<1>1. g \in [S -> R] /\ \A y \in R : \E x \in S : g[x] = y
  OBVIOUS
<1>2. g \in Surjection(S, R)
  <2> HIDE DEF g, R
  <2> QED BY <1>1 DEF Surjection
<1> HIDE DEF g
<1> QED BY <1>2, FS_Surjection

(* In the order of an axis. *)
Sorted(s, at) == \A i, j \in DOMAIN s : i < j => Precedes(at, s[i], s[j])

(* Finitely many, with a number for an id and for a time. *)
TimesOK(S, at) == S \subseteq Int /\ IsFiniteSet(S) /\ \A t \in S : at[t] \in Int

(* Of any trades one is the last. *)
LEMMA OneIsLast ==
  ASSUME NEW S, NEW at, TimesOK(S, at), S # {}
  PROVE  \E x \in S : \A y \in S \ {x} : Precedes(at, y, x)
<1> DEFINE R == {at[t] : t \in S}
<1>1. IsFiniteSet(R)
  BY ImageIsFinite DEF TimesOK
<1>2. R # {} /\ R \subseteq Int
  BY DEF TimesOK
<1>3. PICK m \in R : \A k \in R : k <= m
  <2> HIDE DEF R
  <2> QED BY <1>1, <1>2, FiniteMaximum
<1> DEFINE U == {t \in S : at[t] = m}
<1>4. IsFiniteSet(U)
  <2>1. U \in SUBSET S
    OBVIOUS
  <2> QED BY <2>1, FS_Subset DEF TimesOK
<1>5. U # {} /\ U \subseteq Int
  BY DEF TimesOK
<1>6. PICK x \in U : \A k \in U : k <= x
  <2> HIDE DEF U
  <2> QED BY <1>4, <1>5, FiniteMaximum
<1>7. ASSUME NEW y \in S \ {x} PROVE Precedes(at, y, x)
  <2>1. at[y] <= m /\ at[y] \in Int /\ m \in Int /\ at[x] = m /\ x \in Int /\ y \in Int
    BY <1>3, <1>6 DEF TimesOK
  <2>2. at[y] = m => y < x
    BY <1>6, <2>1
  <2> QED BY <2>1, <2>2 DEF Precedes
<1> QED BY <1>6, <1>7

(* Trades can be put in the order of an axis. *)
LEMMA OrderExists ==
  ASSUME NEW S, NEW at, TimesOK(S, at)
  PROVE  \E s \in [1..Cardinality(S) -> S] : Sorted(s, at)
<1> DEFINE Has(T) == \E s \in [1..Cardinality(T) -> T] : Sorted(s, at)
           G == {T \in SUBSET S : Has(T)}
<1>1. ASSUME NEW T \in SUBSET S, \A x \in T : T \ {x} \in G PROVE T \in G
  <2>1. TimesOK(T, at)
    BY FS_Subset DEF TimesOK
  <2>2. CASE T = {}
    <3>1. Cardinality(T) = 0 /\ 1..0 = {}
      BY <2>2, FS_EmptySet
    <3> DEFINE s == [i \in {} |-> i]
    <3>2. s \in [1..Cardinality(T) -> T] /\ Sorted(s, at)
      BY <3>1 DEF Sorted
    <3> HIDE DEF s
    <3> QED BY <3>2
  <2>3. CASE T # {}
    <3>1. PICK x \in T : \A y \in T \ {x} : Precedes(at, y, x)
      BY <2>1, <2>3, OneIsLast
    <3> DEFINE n == Cardinality(T)
    <3>2. n \in Nat /\ n # 0 /\ Cardinality(T \ {x}) = n - 1
      <4>1. n \in Nat /\ Cardinality(T \ {x}) = n - 1
        BY <2>1, FS_CardinalityType, FS_RemoveElement DEF TimesOK
      <4>2. n # 0
        BY <2>1, <2>3, FS_EmptySet DEF TimesOK
      <4> QED BY <4>1, <4>2
    <3> HIDE DEF n
    <3>3. PICK p \in [1..(n - 1) -> T \ {x}] : Sorted(p, at)
      BY <1>1, <3>2
    <3> DEFINE s == [i \in 1..n |-> IF i = n THEN x ELSE p[i]]
    <3>4. \A i \in 1..n : i # n => i \in 1..(n - 1) /\ p[i] \in T \ {x}
      BY <3>2
    <3>5. s \in [1..n -> T]
      BY <3>4
    <3>6. ASSUME NEW i \in 1..n, NEW j \in 1..n, i < j PROVE Precedes(at, s[i], s[j])
      <4>1. i \in 1..(n - 1) /\ s[i] = p[i] /\ p[i] \in T \ {x}
        BY <3>2, <3>4, <3>6
      <4>2. CASE j = n
        BY <3>1, <4>1, <4>2
      <4>3. CASE j # n
        <5>1. j \in 1..(n - 1) /\ s[j] = p[j]
          BY <3>4, <4>3
        <5> HIDE DEF s
        <5> QED BY <3>3, <3>6, <4>1, <5>1 DEF Sorted
      <4> QED BY <4>2, <4>3
    <3>7. Sorted(s, at)
      BY <3>6 DEF Sorted
    <3>8. Has(T)
      <4> HIDE DEF s
      <4> QED BY <3>5, <3>7 DEF n
    <3> HIDE DEF Has
    <3> QED BY <3>8
  <2> QED BY <2>2, <2>3
<1> HIDE DEF Has
<1>2. \A T \in SUBSET S : (\A x \in T : T \ {x} \in G) => T \in G
  <2> HIDE DEF G
  <2> QED BY <1>1
<1>3. S \in G
  <2> HIDE DEF G
  <2>1. IsFiniteSet(S)
    BY DEF TimesOK
  <2>2. SUBSET S \subseteq G
    BY ONLY <2>1, <1>2, SubsetInduction
  <2> QED BY <2>2
<1> QED BY <1>3 DEF Has

(* Chronological puts all of them, and each at one place. *)
LEMMA ChronologicalSorts ==
  ASSUME NEW S, NEW at, TimesOK(S, at)
  PROVE  LET s == Chronological(S, at)
             n == Cardinality(S)
         IN /\ n \in Nat
            /\ s \in [1..n -> S]
            /\ \A i, j \in 1..n : i < j => Precedes(at, s[i], s[j])
            /\ \A t \in S : \E i \in 1..n : s[i] = t
<1> DEFINE s == Chronological(S, at)
           n == Cardinality(S)
<1>1. \E p \in [1..n -> S] : \A i, j \in DOMAIN p : i < j => Precedes(at, p[i], p[j])
  BY OrderExists DEF Sorted
<1>2. s \in [1..n -> S] /\ \A i, j \in DOMAIN s : i < j => Precedes(at, s[i], s[j])
  <2>1. s = CHOOSE p \in [1..n -> S] : \A i, j \in DOMAIN p : i < j => Precedes(at, p[i], p[j])
    BY DEF Chronological
  <2> HIDE DEF s, n
  <2> QED BY <1>1, <2>1, Zenon
<1>3. n \in Nat
  BY FS_CardinalityType DEF TimesOK
<1> HIDE DEF s, n
<1>4. \A i, j \in 1..n : i < j => Precedes(at, s[i], s[j])
  BY <1>2
<1>5. ASSUME NEW i \in 1..n, NEW j \in 1..n, s[i] = s[j] PROVE i = j
  <2>1. \A t \in S : ~Precedes(at, t, t)
    BY DEF Precedes, TimesOK
  <2>2. ~(i < j) /\ ~(j < i)
    BY <1>2, <1>4, <1>5, <2>1
  <2> QED BY <1>3, <2>2
<1>6. s \in Injection(1..n, S)
  BY <1>2, <1>5 DEF Injection, IsInjective
<1>7. IsFiniteSet(1..n) /\ Cardinality(1..n) = n
  BY <1>3, FS_Interval
<1>8. s \in Surjection(1..n, S)
  BY <1>6, <1>7, FS_Injection DEF n, TimesOK
<1> QED BY <1>2, <1>3, <1>4, <1>8 DEF Surjection, s, n

-----------------------------------------------------------------------------
(* Running totals. *)

(* How a result moves the running total. *)
Adds(points, x) == Append(points, x + IF points = << >> THEN 0 ELSE Last(points))

(* The fold that RunningTotals takes. *)
RunFold(f, s, r) ==
  f = [T \in SUBSET (DOMAIN s) |->
         IF T = {} THEN << >> ELSE Adds(f[T \ {Max(T)}], r[s[Max(T)]])]

(* What RunningTotals is, down to its fold. *)
LEMMA RunUnfolds ==
  \A S, at, r :
    RunningTotals(S, at, r)
      = (CHOOSE f : RunFold(f, Chronological(S, at), r))[DOMAIN Chronological(S, at)]
BY DEF RunningTotals, FoldLeft, MapThenFoldSet, RunFold, Adds

(* What the fold has after each place. *)
LEMMA RunningTotalsWalk ==
  ASSUME NEW S, NEW at, TimesOK(S, at), NEW r, \A t \in S : r[t] \in Int
  PROVE  LET s == Chronological(S, at)
             n == Cardinality(S)
         IN \E w \in [0..n -> Seq(Int)] :
              /\ w[0] = << >>
              /\ \A k \in 1..n : w[k] = Adds(w[k - 1], r[s[k]])
              /\ RunningTotals(S, at, r) = w[n]
<1> DEFINE s == Chronological(S, at)
           n == Cardinality(S)
           step == [x \in Seq(Int) \X (1..n) |-> Adds(x[1], r[s[x[2]]])]
<1>0. n \in Nat /\ s \in [1..n -> S]
  BY ChronologicalSorts
<1> HIDE DEF s, n
<1>1. << >> \in Seq(Int) /\ \A p \in Seq(Int), x \in Int : Adds(p, x) \in Seq(Int)
  <2> SUFFICES ASSUME NEW p \in Seq(Int), NEW x \in Int PROVE Adds(p, x) \in Seq(Int)
    OBVIOUS
  <2>1. p # << >> => Last(p) \in Int
    BY DEF Last
  <2>2. x + (IF p = << >> THEN 0 ELSE Last(p)) \in Int
    BY <2>1
  <2> QED BY <2>2 DEF Adds
<1>2. step \in [Seq(Int) \X (1..n) -> Seq(Int)]
  BY <1>0, <1>1
<1>3. \A p \in Seq(Int), k \in 1..n : step[<<p, k>>] = Adds(p, r[s[k]])
  OBVIOUS
<1> HIDE DEF step
<1>4. PICK f \in [SUBSET (1..n) -> Seq(Int)] : FoldsPlaces(f, n, << >>, step)
  BY <1>0, <1>1, <1>2, LeftFoldExists
<1>5. RunFold(f, s, r)
  <2>1. ASSUME NEW T \in SUBSET (1..n), T # {}
        PROVE  f[T] = Adds(f[T \ {Max(T)}], r[s[Max(T)]])
    BY <1>0, <1>3, <1>4, <2>1, MaxOfPlaces DEF FoldsPlaces
  <2>2. f = [T \in SUBSET (1..n) |-> f[T]] /\ DOMAIN s = 1..n
    BY <1>0
  <2>3. \A T \in SUBSET (1..n) :
          f[T] = IF T = {} THEN << >> ELSE Adds(f[T \ {Max(T)}], r[s[Max(T)]])
    BY <1>4, <2>1 DEF FoldsPlaces
  <2> QED BY <2>2, <2>3, Zenon DEF RunFold
<1> DEFINE g == CHOOSE h : RunFold(h, s, r)
           w == [k \in 0..n |-> g[1..k]]
<1>6. RunFold(g, s, r)
  BY <1>5, Zenon
<1> HIDE DEF g
<1>7. \A T \in SUBSET (1..n) : g[T] = IF T = {} THEN << >> ELSE Adds(g[T \ {Max(T)}], r[s[Max(T)]])
  <2>1. DOMAIN s = 1..n
    BY <1>0
  <2> QED BY <1>6, <2>1 DEF RunFold
<1>8. g[{}] = << >>
  BY <1>7
<1>9. \A k \in 1..n : g[1..k] = Adds(g[1..(k - 1)], r[s[k]])
  <2> SUFFICES ASSUME NEW k \in 1..n PROVE g[1..k] = Adds(g[1..(k - 1)], r[s[k]])
    OBVIOUS
  <2>1. Max(1..k) = k /\ (1..k) \ {k} = 1..(k - 1) /\ 1..k # {} /\ 1..k \in SUBSET (1..n)
    BY <1>0, UpToPlace
  <2>2. g[1..k] = Adds(g[(1..k) \ {Max(1..k)}], r[s[Max(1..k)]])
    BY ONLY <1>7, <2>1, Zenon
  <2> QED BY ONLY <2>1, <2>2, Zenon
<1>10. FoldsOn(g, n, Seq(Int), step)
  BY <1>3, <1>9 DEF FoldsOn
<1>11. \A k \in 0..n : g[1..k] \in Seq(Int)
  BY <1>0, <1>1, <1>2, <1>8, <1>10, FoldedPrefixes
<1>12. w \in [0..n -> Seq(Int)] /\ w[0] = << >> /\ w[n] = g[1..n]
  <2>1. 1..0 = {}
    OBVIOUS
  <2> QED BY <1>0, <1>8, <1>11, <2>1
<1>13. \A k \in 1..n : w[k] = Adds(w[k - 1], r[s[k]])
  BY <1>0, <1>9
<1>14. RunningTotals(S, at, r) = w[n]
  <2>1. DOMAIN s = 1..n
    BY <1>0
  <2> QED BY <1>12, <2>1, RunUnfolds DEF g, s
<1> HIDE DEF w
<1> QED BY <1>12, <1>13, <1>14 DEF s, n

(* The running total at a place is the total of the trades up to it. *)
LEMMA RunningTotalsSum ==
  ASSUME NEW S, NEW at, TimesOK(S, at), NEW r, S \subseteq DOMAIN r, \A t \in S : r[t] \in Int
  PROVE  LET s == Chronological(S, at)
             n == Cardinality(S)
             p == RunningTotals(S, at, r)
         IN /\ p \in [1..n -> Int] /\ p \in Seq(Int) /\ Len(p) = n
            /\ \A k \in 1..n : p[k] = Total({s[i] : i \in 1..k}, r)
<1> DEFINE s == Chronological(S, at)
           n == Cardinality(S)
           Sum(k) == Total({s[i] : i \in 1..k}, r)
<1>1. /\ n \in Nat /\ s \in [1..n -> S]
      /\ \A i, j \in 1..n : i < j => Precedes(at, s[i], s[j])
  BY ChronologicalSorts
<1>2. PICK w \in [0..n -> Seq(Int)] :
        /\ w[0] = << >>
        /\ \A k \in 1..n : w[k] = Adds(w[k - 1], r[s[k]])
        /\ RunningTotals(S, at, r) = w[n]
  BY RunningTotalsWalk
<1> HIDE DEF s, n
<1>3. \A k \in 1..n : Sum(k) = Sum(k - 1) + r[s[k]]
  <2> SUFFICES ASSUME NEW k \in 1..n PROVE Sum(k) = Sum(k - 1) + r[s[k]]
    OBVIOUS
  <2> DEFINE B == {s[i] : i \in 1..(k - 1)}
  <2>1. {s[i] : i \in 1..k} = B \cup {s[k]}
    <3>1. k \in Nat \ {0}
      BY <1>1
    <3>2. 1..k = 1..(k - 1) \cup {k}
      BY <3>1
    <3> QED BY ONLY <3>2
  <2>2. s[k] \notin B
    <3>1. ASSUME NEW i \in 1..(k - 1) PROVE s[i] # s[k]
      <4>1. i \in 1..n /\ i < k
        BY <1>1
      <4>2. Precedes(at, s[i], s[k]) /\ s[k] \in S
        BY <1>1, <4>1
      <4>3. at[s[k]] \in Int /\ s[k] \in Int
        BY <4>2 DEF TimesOK
      <4>4. ~Precedes(at, s[k], s[k])
        BY <4>3 DEF Precedes
      <4> QED BY <4>2, <4>4
    <3> QED BY <3>1
  <2>3. B \in SUBSET S /\ s[k] \in S
    BY <1>1
  <2> HIDE DEF B
  <2>4. IsFiniteSet(B) /\ B \cup {s[k]} \subseteq DOMAIN r /\ \A i \in B \cup {s[k]} : r[i] \in Int
    BY <2>3, FS_Subset DEF TimesOK
  <2>5. SumFunctionOnSet(r, B \cup {s[k]}) = SumFunctionOnSet(r, B) + r[s[k]]
    BY <2>2, <2>4, SumAddElement
  <2> QED BY <2>1, <2>5 DEF B, Total
<1>4. Sum(0) = 0
  <2>1. {s[i] : i \in 1..0} = {}
    OBVIOUS
  <2> QED BY <2>1, SumOfNone DEF Total
<1>5. \A k \in 1..n : r[s[k]] \in Int
  BY <1>1
<1> HIDE DEF Sum
<1> DEFINE G == {k \in 0..n : /\ Len(w[k]) = k /\ Sum(k) \in Int
                              /\ \A j \in 1..k : w[k][j] = Sum(j)}
<1>6. 0 \in G
  BY <1>1, <1>2, <1>4
<1>7. ASSUME NEW k \in 1..n, k - 1 \in G PROVE k \in G
  <2>1. w[k] = Adds(w[k - 1], r[s[k]]) /\ w[k - 1] \in Seq(Int) /\ k \in 0..n
    <3>1. k \in 0..n /\ k - 1 \in 0..n
      BY <1>1
    <3> QED BY ONLY <1>2, <3>1, Zenon
  <2>2. Len(w[k - 1]) = k - 1 /\ Sum(k - 1) \in Int /\ \A j \in 1..(k - 1) : w[k - 1][j] = Sum(j)
    BY <1>7
  <2>3. (IF w[k - 1] = << >> THEN 0 ELSE Last(w[k - 1])) = Sum(k - 1)
    <3>1. CASE k = 1
      BY <1>4, <2>1, <2>2, <3>1
    <3>2. CASE k # 1
      <4>1. w[k - 1] # << >> /\ k - 1 \in 1..(k - 1)
        BY <1>1, <2>2, <3>2
      <4> QED BY <2>2, <4>1 DEF Last
    <3> QED BY <3>1, <3>2
  <2>4. w[k] = Append(w[k - 1], Sum(k))
    <3>1. r[s[k]] + Sum(k - 1) = Sum(k)
      BY <1>3, <1>5, <2>2
    <3> QED BY <2>1, <2>3, <3>1 DEF Adds
  <2>5. Sum(k) \in Int
    BY <1>3, <1>5, <2>2
  <2>6. Len(w[k]) = k /\ \A j \in 1..k : w[k][j] = IF j = k THEN Sum(k) ELSE w[k - 1][j]
    BY <2>1, <2>2, <2>4, <2>5
  <2>7. \A j \in 1..k : w[k][j] = Sum(j)
    <3>1. \A j \in 1..k : j # k => j \in 1..(k - 1)
      OBVIOUS
    <3> QED BY <2>2, <2>6, <3>1
  <2> QED BY <2>1, <2>5, <2>6, <2>7
<1> HIDE DEF G
<1>8. 0..n \subseteq G
  BY <1>1, <1>6, <1>7, IntervalGrowth
<1>9. n \in G /\ w[n] \in Seq(Int)
  BY <1>1, <1>2, <1>8
<1>10. Len(w[n]) = n /\ \A j \in 1..n : w[n][j] = Sum(j)
  BY <1>9 DEF G
<1>11. w[n] \in [1..n -> Int]
  BY <1>9, <1>10
<1> QED BY <1>2, <1>9, <1>10, <1>11 DEF s, n, Sum

(* A series ends at the total of its trades. *)
LEMMA SeriesEnds ==
  ASSUME NEW S, NEW at, TimesOK(S, at), NEW r, S \subseteq DOMAIN r, \A t \in S : r[t] \in Int
  PROVE  EndsAt(RunningTotals(S, at, r), Total(S, r))
<1> DEFINE s == Chronological(S, at)
           n == Cardinality(S)
           p == RunningTotals(S, at, r)
<1>1. /\ n \in Nat /\ s \in [1..n -> S]
      /\ \A t \in S : \E i \in 1..n : s[i] = t
  BY ChronologicalSorts
<1>2. /\ p \in Seq(Int) /\ Len(p) = n
      /\ \A k \in 1..n : p[k] = Total({s[i] : i \in 1..k}, r)
  BY RunningTotalsSum
<1> HIDE DEF s, n, p
<1>3. {s[i] : i \in 1..n} = S
  BY <1>1
<1>4. CASE n = 0
  <2>1. p = << >> /\ S = {}
    BY <1>1, <1>2, <1>4
  <2>2. Total(S, r) = 0
    BY <2>1, SumOfNone DEF Total
  <2> QED BY <2>1, <2>2 DEF EndsAt, p
<1>5. CASE n # 0
  <2>1. p # << >> /\ n \in 1..n
    BY <1>1, <1>2, <1>5
  <2>2. Last(p) = p[n] /\ p[n] = Total(S, r)
    BY <1>2, <1>3, <2>1 DEF Last
  <2> QED BY <2>1, <2>2 DEF EndsAt, p
<1> QED BY <1>4, <1>5

(* The days of an axis are whole numbers. *)
LEMMA DayIsNumber == \A x \in Int : Day(x) \in Int
BY AnalyticsAssumption DEF Day

(* So does the series of its days. *)
LEMMA DailySeriesEnds ==
  ASSUME NEW S, NEW at, TimesOK(S, at), NEW r, S \subseteq DOMAIN r, \A t \in S : r[t] \in Int
  PROVE  EndsAt(DailySeries(S, at, r), Total(S, r))
<1> DEFINE D == {Day(at[t]) : t \in S}
           class == [t \in S |-> Day(at[t])]
           daily == DailyTotals(S, at, r)
           id == [d \in D |-> d]
<1>1. IsFiniteSet(D) /\ D \subseteq Int
  <2>1. D = {class[t] : t \in S}
    OBVIOUS
  <2>2. D \subseteq Int
    BY DayIsNumber DEF TimesOK
  <2> HIDE DEF D, class
  <2> QED BY <2>1, <2>2, ImageIsFinite DEF TimesOK
<1>2. TimesOK(D, id)
  <2>1. \A d \in D : id[d] = d
    OBVIOUS
  <2> HIDE DEF D, id
  <2> QED BY <1>1, <2>1 DEF TimesOK
<1>3. DOMAIN daily = D /\ \A d \in D : daily[d] = Total({t \in S : Day(at[t]) = d}, r)
  BY DEF DailyTotals
<1>4. \A d \in D : daily[d] = SumFunctionOnSet(r, {t \in S : class[t] = d})
  <2>1. \A d \in D : {t \in S : class[t] = d} = {t \in S : Day(at[t]) = d}
    OBVIOUS
  <2> HIDE DEF D, class, daily
  <2> QED BY <1>3, <2>1 DEF Total
<1>5. \A d \in D : daily[d] \in Int
  <2> SUFFICES ASSUME NEW d \in D PROVE daily[d] \in Int
    OBVIOUS
  <2> DEFINE T == {t \in S : class[t] = d}
  <2>1. T \in SUBSET S /\ daily[d] = SumFunctionOnSet(r, T)
    BY <1>4
  <2> HIDE DEF T, daily
  <2>2. IsFiniteSet(T) /\ T \subseteq DOMAIN r /\ \A i \in T : r[i] \in Int
    BY <2>1, FS_Subset DEF TimesOK
  <2> QED BY <2>1, <2>2, SumType
<1>6. Total(D, daily) = Total(S, r)
  <2>1. \A t \in S : class[t] \in D
    OBVIOUS
  <2> HIDE DEF D, class, daily, id
  <2>2. IsFiniteSet(S) /\ D \subseteq DOMAIN daily
    BY <1>3 DEF TimesOK
  <2>3. SumsClasses(daily, D, class, r, S)
    BY <1>4, <2>1 DEF SumsClasses
  <2>4. SumFunctionOnSet(daily, D) = SumFunctionOnSet(r, S)
    <3>1. \A v, Q, c : SumsClasses(v, Q, c, r, S) /\ IsFiniteSet(Q) /\ Q \subseteq DOMAIN v
                       => SumFunctionOnSet(v, Q) = SumFunctionOnSet(r, S)
      BY <2>2, SumOfClasses
    <3> QED BY ONLY <1>1, <2>2, <2>3, <3>1, Zenon
  <2> QED BY <2>4 DEF Total
<1>7. DailySeries(S, at, r) = RunningTotals(D, id, daily)
  <2>1. DailySeries(S, at, r) = RunningTotals(DOMAIN daily, [d \in DOMAIN daily |-> d], daily)
    BY DEF DailySeries
  <2> HIDE DEF daily, D
  <2> QED BY <1>3, <2>1
<1> HIDE DEF D, id, daily
<1>8. EndsAt(RunningTotals(D, id, daily), Total(D, daily))
  <2>1. D \subseteq DOMAIN daily
    BY <1>3
  <2> QED BY <1>2, <1>5, <2>1, SeriesEnds
<1> QED BY <1>6, <1>7, <1>8

(* The order of places is that of the axis. *)
LEMMA PlacesInOrder ==
  ASSUME NEW S, NEW at, TimesOK(S, at)
  PROVE  LET s == Chronological(S, at)
         IN \A i, j \in 1..Cardinality(S) :
              i <= j <=> (at[s[i]] < at[s[j]] \/ (at[s[i]] = at[s[j]] /\ s[i] <= s[j]))
<1> DEFINE s == Chronological(S, at)
           n == Cardinality(S)
<1>1. /\ n \in Nat /\ s \in [1..n -> S]
      /\ \A i, j \in 1..n : i < j => Precedes(at, s[i], s[j])
  BY ChronologicalSorts
<1> HIDE DEF s, n
<1>2. ASSUME NEW i \in 1..n, NEW j \in 1..n
      PROVE  i <= j <=> (at[s[i]] < at[s[j]] \/ (at[s[i]] = at[s[j]] /\ s[i] <= s[j]))
  <2>1. s[i] \in Int /\ s[j] \in Int /\ at[s[i]] \in Int /\ at[s[j]] \in Int
    BY <1>1 DEF TimesOK
  <2>2. CASE i < j
    <3>1. Precedes(at, s[i], s[j])
      BY <1>1, <2>2
    <3> QED BY <2>1, <2>2, <3>1 DEF Precedes
  <2>3. CASE i = j
    BY <2>1, <2>3
  <2>4. CASE j < i
    <3>1. Precedes(at, s[j], s[i])
      BY <1>1, <2>4
    <3> QED BY <2>1, <2>4, <3>1 DEF Precedes
  <2> QED BY <2>2, <2>3, <2>4
<1> QED BY <1>2 DEF s, n

(* The drawdown of a series is the deepest fall of its running total. *)
LEMMA DrawdownIsDeepest ==
  ASSUME NEW S, NEW at, TimesOK(S, at), NEW r, S \subseteq DOMAIN r, \A t \in S : r[t] \in Int
  PROVE  Drawdown(RunningTotals(S, at, r)) = DeepestFall(S, at, r)
<1> DEFINE s == Chronological(S, at)
           n == Cardinality(S)
           p == RunningTotals(S, at, r)
           After(t) == Total({u \in S : at[u] < at[t] \/ (at[u] = at[t] /\ u <= t)}, r)
           Follows(t, u) == at[t] < at[u] \/ (at[t] = at[u] /\ t <= u)
           q == [k \in 0..n |-> IF k = 0 THEN 0 ELSE p[k]]
<1>1. /\ n \in Nat /\ s \in [1..n -> S]
      /\ \A t \in S : \E i \in 1..n : s[i] = t
  BY ChronologicalSorts
<1>2. /\ p \in [1..n -> Int]
      /\ \A k \in 1..n : p[k] = Total({s[i] : i \in 1..k}, r)
  BY RunningTotalsSum
<1>3. \A i, j \in 1..n : i <= j <=> Follows(s[i], s[j])
  BY PlacesInOrder
<1> HIDE DEF s, n, p
<1>4. \A k \in 1..n : p[k] = After(s[k])
  <2> SUFFICES ASSUME NEW k \in 1..n PROVE p[k] = After(s[k])
    OBVIOUS
  <2>1. {s[i] : i \in 1..k} = {u \in S : Follows(u, s[k])}
    <3>1. \A i \in 1..k : i \in 1..n /\ i <= k
      BY <1>1
    <3>2. \A i \in 1..n : i <= k => i \in 1..k
      BY <1>1
    <3> HIDE DEF Follows
    <3> QED BY <1>1, <1>3, <3>1, <3>2
  <2> QED BY <1>2, <2>1
<1> HIDE DEF After, Follows
<1>5. PICK d \in [0..n -> Stands] :
        /\ d[0] = [peak |-> 0, worst |-> 0]
        /\ \A k \in 1..n : d[k] = Sinks(d[k - 1], p[k])
        /\ Drawdown(p) = d[n].worst
  BY <1>1, <1>2, DrawdownWalks
<1> DEFINE peak == [k \in 0..n |-> d[k].peak]
           worst == [k \in 0..n |-> d[k].worst]
<1>6. \A k \in 0..n : q[k] \in Int /\ peak[k] \in Int /\ worst[k] \in Int
  BY <1>2 DEF Stands
<1>7. ASSUME NEW k \in 1..n
      PROVE  /\ k \in 0..n /\ k - 1 \in 0..n /\ q[k] = p[k]
             /\ peak[k] = IF q[k] > peak[k - 1] THEN q[k] ELSE peak[k - 1]
             /\ worst[k] = IF peak[k] - q[k] > worst[k - 1] THEN peak[k] - q[k] ELSE worst[k - 1]
  <2>1. k \in 0..n /\ k - 1 \in 0..n /\ q[k] = p[k]
    BY <1>1
  <2>2. d[k] = Sinks(d[k - 1], p[k])
    BY <1>5
  <2>3. peak[k] = d[k].peak /\ peak[k - 1] = d[k - 1].peak
        /\ worst[k] = d[k].worst /\ worst[k - 1] = d[k - 1].worst
    BY <2>1
  <2> HIDE DEF peak, worst, q
  <2> QED BY <2>1, <2>2, <2>3 DEF Sinks
<1>8. q[0] = 0 /\ peak[0] = 0 /\ worst[0] = 0
  BY <1>1, <1>5
<1>9. worst[n] = Drawdown(p)
  BY <1>1, <1>5
<1> HIDE DEF q, peak, worst
<1>10. Climbs(q, peak, n)
  BY <1>6, <1>7, <1>8 DEF Climbs
<1>11. Falls(q, peak, worst, 0, n)
  <2>1. (0 + 1)..n = 1..n
    OBVIOUS
  <2> QED BY <1>6, <1>7, <1>8, <2>1 DEF Falls
<1>12. 0 \in 0..n
  BY <1>1
<1>13. /\ \A j \in 0..n : \A i \in 0..j : q[i] - q[j] <= worst[n]
       /\ \E j \in 0..n : \E i \in 0..j : q[i] - q[j] = worst[n]
  BY <1>1, <1>10, <1>11, <1>12, WorstIsDeepest
<1> DEFINE X == {0} \cup {-After(t) : t \in S}
                 \cup {After(b[1]) - After(b[2]) : b \in {c \in S \X S : Follows(c[1], c[2])}}
<1>14. \A x \in X : \E j \in 0..n : \E i \in 0..j : x = q[i] - q[j]
  <2>1. CASE TRUE
    <3>1. \E j \in 0..n : \E i \in 0..j : 0 = q[i] - q[j]
      BY <1>8, <1>12
    <3>2. ASSUME NEW t \in S PROVE \E j \in 0..n : \E i \in 0..j : -After(t) = q[i] - q[j]
      <4>1. PICK k \in 1..n : s[k] = t
        BY <1>1
      <4>2. k \in 0..n /\ 0 \in 0..k /\ q[k] = After(t) /\ q[k] \in Int
        BY <1>4, <1>6, <1>7, <4>1
      <4>3. -After(t) = q[0] - q[k]
        BY <1>8, <4>2
      <4> QED BY <4>2, <4>3
    <3>3. ASSUME NEW t \in S, NEW u \in S, Follows(t, u)
          PROVE  \E j \in 0..n : \E i \in 0..j : After(t) - After(u) = q[i] - q[j]
      <4>1. PICK i \in 1..n, j \in 1..n : s[i] = t /\ s[j] = u
        BY <1>1
      <4>2. i <= j
        BY <1>3, <3>3, <4>1
      <4>3. j \in 0..n /\ i \in 0..j /\ q[i] = After(t) /\ q[j] = After(u)
        <5>1. j \in 0..n /\ i \in 0..j
          BY <1>1, <4>2
        <5> QED BY <1>4, <1>7, <4>1, <5>1
      <4> QED BY <4>3
    <3> QED BY <3>1, <3>2, <3>3
  <2> QED BY <2>1
<1>15. worst[n] \in X
  <2>1. PICK j \in 0..n : \E i \in 0..j : q[i] - q[j] = worst[n]
    BY <1>13
  <2>2. PICK i \in 0..j : q[i] - q[j] = worst[n]
    BY <2>1
  <2>3. CASE j = 0
    <3>1. i = 0
      BY <2>3
    <3> QED BY <1>8, <2>2, <2>3, <3>1
  <2>4. CASE j # 0 /\ i = 0
    <3>1. j \in 1..n /\ s[j] \in S /\ q[j] = After(s[j]) /\ q[j] \in Int
      <4>1. j \in 1..n
        BY <1>1, <2>4
      <4> QED BY <1>1, <1>4, <1>6, <1>7, <4>1
    <3>2. worst[n] = -After(s[j])
      BY <1>8, <2>2, <2>4, <3>1
    <3> QED BY <3>1, <3>2
  <2>5. CASE j # 0 /\ i # 0
    <3>1. i \in 1..n /\ j \in 1..n /\ i <= j
      BY <1>1, <2>5
    <3>2. s[i] \in S /\ s[j] \in S /\ q[i] = After(s[i]) /\ q[j] = After(s[j])
      BY <1>1, <1>4, <1>7, <3>1
    <3>3. Follows(s[i], s[j])
      BY <1>3, <3>1
    <3>4. <<s[i], s[j]>> \in {c \in S \X S : Follows(c[1], c[2])}
      BY <3>2, <3>3
    <3>5. worst[n] = After(s[i]) - After(s[j])
      BY <2>2, <3>2
    <3> QED BY <3>4, <3>5
  <2> QED BY <2>3, <2>4, <2>5
<1>16. \A x \in X : x \in Int /\ x <= worst[n]
  <2> SUFFICES ASSUME NEW x \in X PROVE x \in Int /\ x <= worst[n]
    OBVIOUS
  <2>1. PICK j \in 0..n : \E i \in 0..j : x = q[i] - q[j]
    BY <1>14
  <2>2. PICK i \in 0..j : x = q[i] - q[j]
    BY <2>1
  <2>3. i \in 0..n
    BY <1>1
  <2> QED BY <1>6, <1>13, <2>2, <2>3
<1>17. DeepestFall(S, at, r) = Max(X)
  BY DEF DeepestFall, After, Follows
<1> HIDE DEF X
<1>18. X \subseteq Int
  BY <1>16
<1>19. Max(X) = worst[n]
  BY <1>15, <1>16, <1>18, MaxIs
<1> QED BY <1>9, <1>17, <1>19 DEF p

-----------------------------------------------------------------------------
(* The folds of the modeled balance. *)

(* What happens at a moment to the balance, to its peak, and to the worst  *)
(* fall below the peak.                                                    *)
Rises(b, x) ==
  LET balance == b.balance + x
  IN [balance |-> balance, peak |-> IF balance > b.peak THEN balance ELSE b.peak]

Moves(b, x) ==
  LET balance == b.balance + x
      peak    == IF balance > b.peak THEN balance ELSE b.peak
  IN [balance |-> balance, peak |-> peak,
      worst |-> IF peak - balance > b.worst THEN peak - balance ELSE b.worst]

(* What the two folds of the balance keep. *)
Openings == [balance : Int, peak : Int]
Balances == [balance : Int, peak : Int, worst : Int]

(* The folds of the opening and of the ending balance. *)
OpeningFold(f, s) ==
  f = [T \in SUBSET (DOMAIN s) |->
         IF T = {} THEN [balance |-> Starting, peak |-> Starting]
         ELSE Rises(f[T \ {Max(T)}], Realized(s[Max(T)]))]

EndingFold(f, b, s) ==
  f = [T \in SUBSET (DOMAIN s) |->
         IF T = {} THEN [balance |-> b.balance, peak |-> b.peak, worst |-> b.peak - b.balance]
         ELSE Moves(f[T \ {Max(T)}], Realized(s[Max(T)]))]

(* What they come to. *)
OpeningOf(s)   == (CHOOSE f : OpeningFold(f, s))[DOMAIN s]
EndingOf(b, s) == (CHOOSE f : EndingFold(f, b, s))[DOMAIN s]

(* What closed before the range. *)
Before == {t \in Horizon : ClosedAt(t) < VisibleFrom(scope.range)}

(* What Opening is, down to its fold. *)
LEMMA OpeningUnfolds ==
  \A B : Opening(B) = OpeningOf(Moments(B))
BY DEF Opening, FoldLeft, MapThenFoldSet, OpeningOf, OpeningFold, Rises

(* What Modeled is, down to its folds. *)
LEMMA ModeledUnfolds ==
  ASSUME scope.account # "all", ~VisibleFails(scope.range), \A t \in Horizon : Net(t) # Null
  PROVE  LET opening == Opening(Before)
             ending == EndingOf(opening, Moments(Horizon \ Before))
         IN Modeled = [status |-> "available", opening |-> opening.balance, ending |-> ending.balance,
                       peak |-> ending.peak, worst |-> ending.worst]
BY DEF Modeled, FoldLeft, MapThenFoldSet, EndingOf, EndingFold, Moves, Before

(* Without all of the money there is no balance. *)
LEMMA ModeledIsUnavailable ==
  ASSUME ~VisibleFails(scope.range), \E t \in Horizon : Net(t) = Null
  PROVE  Modeled.status = "unavailable"
BY DEF Modeled

(* What the opening balance walks through. *)
LEMMA OpeningWalks ==
  ASSUME NEW n \in Nat, NEW s, DOMAIN s = 1..n, \A k \in 1..n : Realized(s[k]) \in Int
  PROVE  \E w \in [0..n -> Openings] :
           /\ w[0] = [balance |-> Starting, peak |-> Starting]
           /\ \A k \in 1..n : w[k] = Rises(w[k - 1], Realized(s[k]))
           /\ OpeningOf(s) = w[n]
<1> DEFINE base == [balance |-> Starting, peak |-> Starting]
           step == [x \in Openings \X (1..n) |-> Rises(x[1], Realized(s[x[2]]))]
<1>1. base \in Openings /\ \A d \in Openings, x \in Int : Rises(d, x) \in Openings
  BY FiguresAssumption DEF Openings, Balances, Rises
<1>2. step \in [Openings \X (1..n) -> Openings]
  BY <1>1
<1>3. \A d \in Openings, k \in 1..n : step[<<d, k>>] = Rises(d, Realized(s[k]))
  OBVIOUS
<1> HIDE DEF base, step
<1>4. PICK f \in [SUBSET (1..n) -> Openings] : FoldsPlaces(f, n, base, step)
  BY <1>1, <1>2, LeftFoldExists
<1>5. OpeningFold(f, s)
  <2>1. ASSUME NEW T \in SUBSET (1..n), T # {}
        PROVE  f[T] = Rises(f[T \ {Max(T)}], Realized(s[Max(T)]))
    BY <1>3, <1>4, <2>1, MaxOfPlaces DEF FoldsPlaces
  <2>2. f = [T \in SUBSET (1..n) |-> f[T]]
    OBVIOUS
  <2>3. \A T \in SUBSET (1..n) :
          f[T] = IF T = {} THEN base ELSE Rises(f[T \ {Max(T)}], Realized(s[Max(T)]))
    BY <1>4, <2>1 DEF FoldsPlaces
  <2> QED BY <2>2, <2>3, Zenon DEF OpeningFold, base
<1> DEFINE g == CHOOSE h : OpeningFold(h, s)
           w == [k \in 0..n |-> g[1..k]]
<1>6. OpeningFold(g, s)
  BY <1>5, Zenon
<1> HIDE DEF g
<1>7. \A T \in SUBSET (1..n) :
        g[T] = IF T = {} THEN base ELSE Rises(g[T \ {Max(T)}], Realized(s[Max(T)]))
  BY <1>6 DEF OpeningFold, base
<1>8. g[{}] = base
  BY <1>7
<1>9. \A k \in 1..n : g[1..k] = Rises(g[1..(k - 1)], Realized(s[k]))
  BY <1>7, UpToPlace
<1>10. FoldsOn(g, n, Openings, step)
  BY <1>3, <1>9 DEF FoldsOn
<1>11. \A k \in 0..n : g[1..k] \in Openings
  BY <1>1, <1>2, <1>8, <1>10, FoldedPrefixes
<1>12. w \in [0..n -> Openings] /\ w[0] = base /\ w[n] = g[1..n]
  <2>1. 1..0 = {}
    OBVIOUS
  <2> QED BY <1>8, <1>11, <2>1
<1>13. \A k \in 1..n : w[k] = Rises(w[k - 1], Realized(s[k]))
  BY <1>9
<1>14. OpeningOf(s) = w[n]
  BY <1>12 DEF g, OpeningOf
<1> HIDE DEF w
<1> QED BY <1>12, <1>13, <1>14 DEF base

(* What the balance of the range walks through. *)
WalksEnding(w, n, b, s) ==
  /\ w \in [0..n -> Balances]
  /\ w[0] = [balance |-> b.balance, peak |-> b.peak, worst |-> b.peak - b.balance]
  /\ \A k \in 1..n : w[k] = Moves(w[k - 1], Realized(s[k]))
  /\ EndingOf(b, s) = w[n]

(* The ending balance walks through what closes in the range. *)
LEMMA EndingWalks ==
  ASSUME NEW b \in Openings, NEW n \in Nat, NEW s, DOMAIN s = 1..n, \A k \in 1..n : Realized(s[k]) \in Int
  PROVE  \E w : WalksEnding(w, n, b, s)
<1> DEFINE base == [balance |-> b.balance, peak |-> b.peak, worst |-> b.peak - b.balance]
           step == [x \in Balances \X (1..n) |-> Moves(x[1], Realized(s[x[2]]))]
<1>1. base \in Balances /\ \A d \in Balances, x \in Int : Moves(d, x) \in Balances
  BY FiguresAssumption DEF Openings, Balances, Moves
<1>2. step \in [Balances \X (1..n) -> Balances]
  BY <1>1
<1>3. \A d \in Balances, k \in 1..n : step[<<d, k>>] = Moves(d, Realized(s[k]))
  OBVIOUS
<1> HIDE DEF base, step
<1>4. PICK f \in [SUBSET (1..n) -> Balances] : FoldsPlaces(f, n, base, step)
  BY <1>1, <1>2, LeftFoldExists
<1>5. EndingFold(f, b, s)
  <2>1. ASSUME NEW T \in SUBSET (1..n), T # {}
        PROVE  f[T] = Moves(f[T \ {Max(T)}], Realized(s[Max(T)]))
    BY <1>3, <1>4, <2>1, MaxOfPlaces DEF FoldsPlaces
  <2>2. f = [T \in SUBSET (1..n) |-> f[T]]
    OBVIOUS
  <2>3. \A T \in SUBSET (1..n) :
          f[T] = IF T = {} THEN base ELSE Moves(f[T \ {Max(T)}], Realized(s[Max(T)]))
    BY <1>4, <2>1 DEF FoldsPlaces
  <2> QED BY <2>2, <2>3, Zenon DEF EndingFold, base
<1> DEFINE g == CHOOSE h : EndingFold(h, b, s)
           w == [k \in 0..n |-> g[1..k]]
<1>6. EndingFold(g, b, s)
  BY <1>5, Zenon
<1> HIDE DEF g
<1>7. \A T \in SUBSET (1..n) :
        g[T] = IF T = {} THEN base ELSE Moves(g[T \ {Max(T)}], Realized(s[Max(T)]))
  BY <1>6 DEF EndingFold, base
<1>8. g[{}] = base
  BY <1>7
<1>9. \A k \in 1..n : g[1..k] = Moves(g[1..(k - 1)], Realized(s[k]))
  BY <1>7, UpToPlace
<1>10. FoldsOn(g, n, Balances, step)
  BY <1>3, <1>9 DEF FoldsOn
<1>11. \A k \in 0..n : g[1..k] \in Balances
  BY <1>1, <1>2, <1>8, <1>10, FoldedPrefixes
<1>12. w \in [0..n -> Balances] /\ w[0] = base /\ w[n] = g[1..n]
  <2>1. 1..0 = {}
    OBVIOUS
  <2> QED BY <1>8, <1>11, <2>1
<1>13. \A k \in 1..n : w[k] = Moves(w[k - 1], Realized(s[k]))
  BY <1>9
<1>14. EndingOf(b, s) = w[n]
  BY <1>12 DEF g, EndingOf
<1> HIDE DEF w
<1> QED BY <1>12, <1>13, <1>14 DEF base, WalksEnding

-----------------------------------------------------------------------------
(* The balance at a time. *)

(* All of the horizon is known in money. *)
HorizonOK ==
  /\ IsFiniteSet(Horizon)
  /\ \A t \in Horizon : ClosedAt(t) \in Nat /\ Net(t) \in Int /\ Net(t) # Null

(* The balance after all that closes up to a time. *)
BalanceAt(time) == Starting + NetOf({t \in Horizon : ClosedAt(t) <= time})

(* Money adds up. *)
LEMMA NetOfParts ==
  ASSUME HorizonOK, NEW A \in SUBSET Horizon, NEW B \in SUBSET Horizon, A \cap B = {}
  PROVE  NetOf(A \cup B) = NetOf(A) + NetOf(B) /\ NetOf(A) \in Int
<1> DEFINE nets == [t \in Horizon |-> Net(t)]
<1>1. ASSUME NEW S \in SUBSET Horizon
      PROVE  /\ IsFiniteSet(S) /\ S \subseteq DOMAIN nets /\ \A i \in S : nets[i] \in Int
             /\ NetOf(S) = SumFunctionOnSet(nets, S)
  <2> DEFINE own == [t \in S |-> Net(t)]
  <2>1. IsFiniteSet(S) /\ S \subseteq DOMAIN nets /\ \A i \in S : nets[i] \in Int
    BY FS_Subset DEF HorizonOK
  <2>2. S \subseteq DOMAIN own /\ \A i \in S : own[i] = nets[i]
    OBVIOUS
  <2> HIDE DEF own, nets
  <2>3. SumFunctionOnSet(own, S) = SumFunctionOnSet(nets, S)
    BY <2>1, <2>2, SumAgrees
  <2> QED BY <2>1, <2>3 DEF own, NetOf, Total
<1> HIDE DEF nets
<1>2. A \cup B \in SUBSET Horizon
  OBVIOUS
<1>3. SumFunctionOnSet(nets, A \cup B) = SumFunctionOnSet(nets, A) + SumFunctionOnSet(nets, B)
  BY <1>1, <1>2, SumOfParts
<1>4. SumFunctionOnSet(nets, A) \in Int
  BY <1>1, SumType
<1> QED BY <1>1, <1>2, <1>3, <1>4

(* A balance is a number, and so is what a moment realizes. *)
LEMMA BalanceTypes ==
  ASSUME HorizonOK, NEW x \in Int
  PROVE  BalanceAt(x) \in Int /\ Realized(x) \in Int
<1>1. /\ {t \in Horizon : ClosedAt(t) <= x} \in SUBSET Horizon
      /\ {t \in Horizon : ClosedAt(t) = x} \in SUBSET Horizon
      /\ {} \in SUBSET Horizon
  OBVIOUS
<1>2. \A A \in SUBSET Horizon : NetOf(A) \in Int
  <2> SUFFICES ASSUME NEW A \in SUBSET Horizon PROVE NetOf(A) \in Int
    OBVIOUS
  <2>1. A \cap {} = {}
    OBVIOUS
  <2> QED BY <1>1, <2>1, NetOfParts
<1> QED BY <1>1, <1>2, FiguresAssumption DEF BalanceAt, Realized

(* From one moment to the next the balance moves by what closes then. *)
LEMMA BalanceSteps ==
  ASSUME HorizonOK, NEW a \in Int, NEW b \in Int, a < b,
         \A t \in Horizon : ClosedAt(t) <= a \/ b <= ClosedAt(t)
  PROVE  BalanceAt(b) = BalanceAt(a) + Realized(b)
<1> DEFINE A == {t \in Horizon : ClosedAt(t) <= a}
           B == {t \in Horizon : ClosedAt(t) = b}
           C == {t \in Horizon : ClosedAt(t) <= b}
<1>1. \A t \in Horizon : ClosedAt(t) \in Int
  BY DEF HorizonOK
<1>2. C = A \cup B /\ A \cap B = {} /\ A \in SUBSET Horizon /\ B \in SUBSET Horizon
  <2>1. \A t \in Horizon : ClosedAt(t) <= b <=> ClosedAt(t) <= a \/ ClosedAt(t) = b
    BY <1>1
  <2>2. \A t \in Horizon : ~(ClosedAt(t) <= a /\ ClosedAt(t) = b)
    BY <1>1
  <2> QED BY <2>1, <2>2
<1> HIDE DEF A, B, C
<1>3. NetOf(C) = NetOf(A) + NetOf(B) /\ NetOf(A) \in Int
  BY <1>2, NetOfParts
<1>4. NetOf(B) \in Int
  <2>1. B \cap A = {}
    BY <1>2
  <2> QED BY <1>2, <2>1, NetOfParts
<1>5. BalanceAt(b) = Starting + NetOf(C) /\ BalanceAt(a) = Starting + NetOf(A) /\ Realized(b) = NetOf(B)
  BY DEF BalanceAt, Realized, A, B, C
<1> QED BY <1>3, <1>4, <1>5, FiguresAssumption

(* And not at all while nothing closes. *)
LEMMA BalanceRests ==
  ASSUME HorizonOK, NEW a \in Int, NEW b \in Int, a <= b,
         \A t \in Horizon : ClosedAt(t) <= a \/ b < ClosedAt(t)
  PROVE  BalanceAt(b) = BalanceAt(a)
<1>1. \A t \in Horizon : ClosedAt(t) \in Int
  BY DEF HorizonOK
<1>2. \A t \in Horizon : ClosedAt(t) <= a <=> ClosedAt(t) <= b
  BY <1>1
<1>3. {t \in Horizon : ClosedAt(t) <= a} = {t \in Horizon : ClosedAt(t) <= b}
  BY <1>2
<1> QED BY <1>3 DEF BalanceAt

(* The moments of some trades, in their order. *)
LEMMA MomentsSorted ==
  ASSUME HorizonOK, NEW S \in SUBSET Horizon
  PROVE  LET s == Moments(S)
             n == Cardinality({ClosedAt(t) : t \in S})
         IN /\ n \in Nat /\ s \in [1..n -> Int]
            /\ \A i, j \in 1..n : i < j => s[i] < s[j]
            /\ \A k \in 1..n : \E t \in S : ClosedAt(t) = s[k]
            /\ \A t \in S : \E k \in 1..n : s[k] = ClosedAt(t)
<1> DEFINE D == {ClosedAt(t) : t \in S}
           at == [t \in Horizon |-> ClosedAt(t)]
           id == [x \in D |-> x]
           s == Moments(S)
           n == Cardinality(D)
<1>1. IsFiniteSet(D) /\ D \subseteq Int
  <2>1. D = {at[t] : t \in S}
    OBVIOUS
  <2>2. D \subseteq Int
    BY DEF HorizonOK
  <2>3. IsFiniteSet(S)
    BY FS_Subset DEF HorizonOK
  <2> HIDE DEF D, at
  <2> QED BY <2>1, <2>2, <2>3, ImageIsFinite
<1>2. TimesOK(D, id)
  <2>1. \A x \in D : id[x] = x
    OBVIOUS
  <2> HIDE DEF D, id
  <2> QED BY <1>1, <2>1 DEF TimesOK
<1>3. s = Chronological(D, id)
  BY DEF Moments
<1>4. \A x \in D : (\E t \in S : ClosedAt(t) = x) /\ id[x] = x
  OBVIOUS
<1>5. \A t \in S : ClosedAt(t) \in D
  OBVIOUS
<1> HIDE DEF D, id, s
<1>6. /\ n \in Nat
      /\ s \in [1..n -> D]
      /\ \A i, j \in 1..n : i < j => Precedes(id, s[i], s[j])
      /\ \A x \in D : \E i \in 1..n : s[i] = x
  BY <1>2, <1>3, ChronologicalSorts
<1> HIDE DEF n
<1>7. s \in [1..n -> Int]
  BY <1>1, <1>6
<1>8. ASSUME NEW i \in 1..n, NEW j \in 1..n, i < j PROVE s[i] < s[j]
  <2>1. Precedes(id, s[i], s[j]) /\ id[s[i]] = s[i] /\ id[s[j]] = s[j] /\ s[i] \in Int /\ s[j] \in Int
    BY <1>4, <1>6, <1>7, <1>8
  <2> QED BY <2>1 DEF Precedes
<1>9. \A k \in 1..n : \E t \in S : ClosedAt(t) = s[k]
  BY <1>4, <1>6
<1>10. \A t \in S : \E k \in 1..n : s[k] = ClosedAt(t)
  BY <1>5, <1>6
<1> QED BY <1>6, <1>7, <1>8, <1>9, <1>10 DEF s, n, D

(* A walk that starts at lo and takes what closes up to hi. *)
WalksOver(w, n, S, lo, hi) ==
  /\ S = {t \in Horizon : lo < ClosedAt(t) /\ ClosedAt(t) <= hi}
  /\ n = Cardinality({ClosedAt(t) : t \in S})
  /\ w[0] = BalanceAt(lo)
  /\ \A k \in 1..n : w[k] = w[k - 1] + Realized(Moments(S)[k])

(* A walk that starts with the balance at a time and moves at each moment  *)
(* up to another has the balance of each moment, and ends with that time.  *)
LEMMA WalkBalances ==
  ASSUME HorizonOK, NEW lo \in Int, NEW hi \in Int, lo <= hi,
         NEW w, NEW n, NEW S, WalksOver(w, n, S, lo, hi)
  PROVE  /\ \A k \in 1..n : w[k] = BalanceAt(Moments(S)[k])
         /\ w[n] = BalanceAt(hi)
<1> DEFINE s == Moments(S)
<1>0. /\ S = {t \in Horizon : lo < ClosedAt(t) /\ ClosedAt(t) <= hi}
      /\ n = Cardinality({ClosedAt(t) : t \in S})
      /\ w[0] = BalanceAt(lo)
      /\ \A k \in 1..n : w[k] = w[k - 1] + Realized(s[k])
  BY DEF WalksOver
<1>1. S \in SUBSET Horizon
  BY <1>0
<1>2. /\ n \in Nat /\ s \in [1..n -> Int]
      /\ \A i, j \in 1..n : i < j => s[i] < s[j]
      /\ \A k \in 1..n : \E t \in S : ClosedAt(t) = s[k]
      /\ \A t \in S : \E k \in 1..n : s[k] = ClosedAt(t)
  BY <1>0, <1>1, MomentsSorted
<1> DEFINE x == [k \in 0..n |-> IF k = 0 THEN lo ELSE s[k]]
<1> HIDE DEF s
<1>3. \A t \in Horizon : ClosedAt(t) \in Int
  BY DEF HorizonOK
<1>4. /\ x[0] = lo /\ \A k \in 1..n : x[k] = s[k]
      /\ \A k \in 0..n : x[k] \in Int /\ lo <= x[k] /\ x[k] <= hi
      /\ \A k \in 1..n : lo < x[k]
  <2>1. \A k \in 1..n : s[k] \in Int /\ lo < s[k] /\ s[k] <= hi
    BY <1>0, <1>2
  <2> QED BY <1>2, <2>1
<1>5. \A i \in 0..n, j \in 1..n : i < j => x[i] < x[j]
  <2> SUFFICES ASSUME NEW i \in 0..n, NEW j \in 1..n, i < j PROVE x[i] < x[j]
    OBVIOUS
  <2>1. CASE i = 0
    BY <1>4, <2>1
  <2>2. CASE i # 0
    <3>1. i \in 1..n
      BY <1>2, <2>2
    <3> QED BY <1>2, <1>4, <3>1
  <2> QED BY <2>1, <2>2
<1> HIDE DEF x
<1>6. ASSUME NEW t \in Horizon
      PROVE  ClosedAt(t) <= lo \/ hi < ClosedAt(t) \/ \E k \in 1..n : x[k] = ClosedAt(t)
  <2>1. CASE t \in S
    BY <1>2, <1>4, <2>1
  <2>2. CASE t \notin S
    BY <1>0, <1>3, <2>2
  <2> QED BY <2>1, <2>2
<1>7. ASSUME NEW k \in 1..n PROVE BalanceAt(x[k]) = BalanceAt(x[k - 1]) + Realized(x[k])
  <2>1. k \in 0..n /\ k - 1 \in 0..n /\ x[k] \in Int /\ x[k - 1] \in Int /\ x[k - 1] < x[k]
    BY <1>2, <1>4, <1>5
  <2>2. ASSUME NEW t \in Horizon PROVE ClosedAt(t) <= x[k - 1] \/ x[k] <= ClosedAt(t)
    <3>1. CASE ClosedAt(t) <= lo
      BY <1>3, <1>4, <2>1, <3>1
    <3>2. CASE hi < ClosedAt(t)
      BY <1>3, <1>4, <2>1, <3>2
    <3>3. ASSUME NEW i \in 1..n, x[i] = ClosedAt(t)
          PROVE  ClosedAt(t) <= x[k - 1] \/ x[k] <= ClosedAt(t)
      <4>1. i \in 0..n
        BY <1>2
      <4>2. CASE i < k - 1
        <5>1. k - 1 \in 1..n
          BY <1>2, <4>2
        <5> QED BY <1>4, <1>5, <2>1, <3>3, <4>1, <4>2, <5>1
      <4>3. CASE i = k - 1
        BY <2>1, <3>3, <4>3
      <4>4. CASE i = k
        BY <2>1, <3>3, <4>4
      <4>5. CASE k < i
        <5>1. x[k] < x[i] /\ x[i] \in Int
          BY <1>4, <1>5, <2>1, <4>1, <4>5
        <5> QED BY <2>1, <3>3, <5>1
      <4> QED BY <4>2, <4>3, <4>4, <4>5
    <3> QED BY <1>6, <3>1, <3>2, <3>3
  <2> QED BY <2>1, <2>2, BalanceSteps
<1> DEFINE G == {k \in 0..n : w[k] = BalanceAt(x[k])}
<1>8. 0 \in G
  BY <1>0, <1>2, <1>4
<1>9. ASSUME NEW k \in 1..n, k - 1 \in G PROVE k \in G
  <2>1. w[k] = w[k - 1] + Realized(x[k])
    BY <1>0, <1>4
  <2> QED BY <1>2, <1>7, <1>9, <2>1
<1> HIDE DEF G
<1>10. 0..n \subseteq G
  BY <1>2, <1>8, <1>9, IntervalGrowth
<1>11. \A k \in 0..n : w[k] = BalanceAt(x[k])
  BY <1>10 DEF G
<1>12. BalanceAt(hi) = BalanceAt(x[n])
  <2>1. n \in 0..n /\ x[n] \in Int /\ x[n] <= hi /\ lo <= x[n]
    BY <1>2, <1>4
  <2>2. ASSUME NEW t \in Horizon PROVE ClosedAt(t) <= x[n] \/ hi < ClosedAt(t)
    <3>1. CASE ClosedAt(t) <= lo
      BY <1>3, <2>1, <3>1
    <3>2. ASSUME NEW i \in 1..n, x[i] = ClosedAt(t) PROVE ClosedAt(t) <= x[n]
      <4>1. i \in 0..n /\ n \in 1..n
        BY <1>2
      <4>2. i < n => x[i] < x[n]
        BY <1>5, <4>1
      <4>3. i = n \/ i < n
        BY <1>2
      <4> QED BY <1>4, <2>1, <3>2, <4>1, <4>2, <4>3
    <3> QED BY <1>6, <3>1, <3>2
  <2> QED BY <2>1, <2>2, BalanceRests
<1>13. n \in 0..n /\ \A k \in 1..n : k \in 0..n /\ x[k] = s[k]
  BY <1>2, <1>4
<1> QED BY <1>11, <1>12, <1>13 DEF s

(* The horizon that a range of one account shows, from the moment start on. *)
RangeOK(start) ==
  /\ start = VisibleFrom(scope.range) - 1
  /\ start \in Int /\ -1 <= start /\ VisibleTo(scope.range) \in Int /\ start <= VisibleTo(scope.range)
  /\ VisibleFrom(scope.range) \in Int /\ ~VisibleFails(scope.range) /\ scope.account # "all"

(* x holds the moments of the horizon in their order, the first m of them  *)
(* up to start, and q the balances: before all of them, and after each.    *)
Tells(q, x, m, n, start) ==
  /\ q[0] = BalanceAt(-1) /\ q[m] = BalanceAt(start)
  /\ \A k \in 1..n : x[k] \in Nat /\ q[k] = BalanceAt(x[k])
  /\ \A i, j \in 1..n : i < j => x[i] < x[j]
  /\ \A k \in 1..n : x[k] <= start <=> k <= m
  /\ \A k \in 1..n : \E t \in Horizon : x[k] = ClosedAt(t)
  /\ \A t \in Horizon : \E k \in 1..n : x[k] = ClosedAt(t)

(* What is modeled, told by such balances. *)
IsModeled(q, x, peak, worst, m, n, start) ==
  /\ Climbs(q, peak, n) /\ Falls(q, peak, worst, m, n)
  /\ Tells(q, x, m, n, start)
  /\ q[n] = BalanceAt(VisibleTo(scope.range))
  /\ Modeled = [status |-> "available", opening |-> q[m], ending |-> q[n],
                peak |-> peak[n], worst |-> worst[n]]

(* Before all trades the balance is the declared one. *)
LEMMA BalanceBegins == HorizonOK => BalanceAt(-1) = Starting
<1> SUFFICES ASSUME HorizonOK PROVE BalanceAt(-1) = Starting
  OBVIOUS
<1>1. {t \in Horizon : ClosedAt(t) <= -1} = {}
  BY DEF HorizonOK
<1>2. NetOf({}) = 0
  BY SumOfNone DEF NetOf, Total
<1>3. BalanceAt(-1) = Starting + NetOf({})
  BY <1>1, Zenon DEF BalanceAt
<1> QED BY <1>2, <1>3, FiguresAssumption

(* The two folds, one after the other, are one walk over the horizon. *)
LEMMA ModeledWalks ==
  ASSUME HorizonOK, NEW start, RangeOK(start), \A t \in Horizon : ClosedAt(t) < VisibleTo(scope.range)
  PROVE  \E n \in Nat : \E m \in 0..n : \E q, x, peak, worst : IsModeled(q, x, peak, worst, m, n, start)
<1> DEFINE After == Horizon \ Before
           s1 == Moments(Before)
           s2 == Moments(After)
           n1 == Cardinality({ClosedAt(t) : t \in Before})
           n2 == Cardinality({ClosedAt(t) : t \in After})
           hi == VisibleTo(scope.range)
<1>1. \A t \in Horizon : ClosedAt(t) \in Nat /\ Net(t) \in Int /\ Net(t) # Null /\ ClosedAt(t) < hi
  BY DEF HorizonOK
<1>2. /\ start \in Int /\ -1 <= start /\ hi \in Int /\ start <= hi
      /\ start = VisibleFrom(scope.range) - 1 /\ ~VisibleFails(scope.range)
      /\ scope.account # "all"
  BY DEF RangeOK
<1>3. VisibleFrom(scope.range) \in Int
  BY DEF RangeOK
<1> HIDE DEF hi
<1>4. Before = {t \in Horizon : -1 < ClosedAt(t) /\ ClosedAt(t) <= start}
  BY <1>1, <1>2, <1>3 DEF Before
<1>5. After = {t \in Horizon : start < ClosedAt(t) /\ ClosedAt(t) <= hi}
  BY <1>1, <1>2, <1>3 DEF Before
<1>6. Before \in SUBSET Horizon /\ After \in SUBSET Horizon /\ Before \cup After = Horizon
  BY DEF Before
<1> HIDE DEF After
<1>7. /\ n1 \in Nat /\ s1 \in [1..n1 -> Int]
      /\ \A i, j \in 1..n1 : i < j => s1[i] < s1[j]
      /\ \A k \in 1..n1 : \E t \in Before : ClosedAt(t) = s1[k]
      /\ \A t \in Before : \E k \in 1..n1 : s1[k] = ClosedAt(t)
  BY <1>6, MomentsSorted
<1>8. /\ n2 \in Nat /\ s2 \in [1..n2 -> Int]
      /\ \A i, j \in 1..n2 : i < j => s2[i] < s2[j]
      /\ \A k \in 1..n2 : \E t \in After : ClosedAt(t) = s2[k]
      /\ \A t \in After : \E k \in 1..n2 : s2[k] = ClosedAt(t)
  BY <1>6, MomentsSorted
<1>9. \A y \in Int : BalanceAt(y) \in Int /\ Realized(y) \in Int
  BY BalanceTypes
<1> HIDE DEF s1, s2, n1, n2
<1>10. PICK o \in [0..n1 -> Openings] :
         /\ o[0] = [balance |-> Starting, peak |-> Starting]
         /\ \A k \in 1..n1 : o[k] = Rises(o[k - 1], Realized(s1[k]))
         /\ OpeningOf(s1) = o[n1]
  <2>1. DOMAIN s1 = 1..n1 /\ \A k \in 1..n1 : Realized(s1[k]) \in Int
    BY <1>7, <1>9
  <2> QED BY <1>7, <2>1, OpeningWalks
<1>11. Opening(Before) = o[n1] /\ o[n1] \in Openings
  BY <1>7, <1>10, OpeningUnfolds DEF s1
<1>12. PICK e \in [0..n2 -> Balances] :
         /\ e[0] = [balance |-> o[n1].balance, peak |-> o[n1].peak, worst |-> o[n1].peak - o[n1].balance]
         /\ \A k \in 1..n2 : e[k] = Moves(e[k - 1], Realized(s2[k]))
         /\ EndingOf(o[n1], s2) = e[n2]
  <2>1. DOMAIN s2 = 1..n2 /\ \A k \in 1..n2 : Realized(s2[k]) \in Int
    BY <1>8, <1>9
  <2>2. \E w : WalksEnding(w, n2, o[n1], s2)
    BY <1>8, <1>11, <2>1, EndingWalks
  <2> QED BY <2>2 DEF WalksEnding
<1>13. Modeled = [status |-> "available", opening |-> o[n1].balance, ending |-> e[n2].balance,
                  peak |-> e[n2].peak, worst |-> e[n2].worst]
  <2>1. \A t \in Horizon : Net(t) # Null
    BY <1>1
  <2>2. LET opening == Opening(Before)
            ending == EndingOf(opening, Moments(Horizon \ Before))
        IN Modeled = [status |-> "available", opening |-> opening.balance, ending |-> ending.balance,
                      peak |-> ending.peak, worst |-> ending.worst]
    BY <1>2, <2>1, ModeledUnfolds
  <2> QED BY <1>11, <1>12, <2>2 DEF s2, After
<1> DEFINE w1 == [k \in 0..n1 |-> o[k].balance]
           w2 == [k \in 0..n2 |-> e[k].balance]
<1>14. (\A k \in 1..n1 : w1[k] = BalanceAt(s1[k])) /\ w1[n1] = BalanceAt(start) /\ w1[0] = BalanceAt(-1)
  <2>1. w1[0] = BalanceAt(-1)
    BY <1>7, <1>10, BalanceBegins
  <2>2. \A k \in 1..n1 : w1[k] = w1[k - 1] + Realized(s1[k])
    <3> SUFFICES ASSUME NEW k \in 1..n1 PROVE w1[k] = w1[k - 1] + Realized(s1[k])
      OBVIOUS
    <3>1. k \in 0..n1 /\ k - 1 \in 0..n1 /\ o[k] = Rises(o[k - 1], Realized(s1[k]))
      BY <1>7, <1>10
    <3> QED BY <3>1 DEF Rises
  <2> HIDE DEF w1
  <2>3. -1 \in Int
    OBVIOUS
  <2>4. WalksOver(w1, n1, Before, -1, start)
    BY <1>4, <2>1, <2>2 DEF WalksOver, n1, s1
  <2>5. (\A k \in 1..n1 : w1[k] = BalanceAt(Moments(Before)[k])) /\ w1[n1] = BalanceAt(start)
    BY <1>2, <2>3, <2>4, WalkBalances
  <2> QED BY <2>1, <2>5 DEF s1
<1>15. (\A k \in 1..n2 : w2[k] = BalanceAt(s2[k])) /\ w2[n2] = BalanceAt(hi) /\ w2[0] = BalanceAt(start)
  <2>1. w2[0] = BalanceAt(start)
    <3>1. w2[0] = o[n1].balance
      BY <1>8, <1>12
    <3>2. w1[n1] = o[n1].balance
      BY <1>7
    <3> QED BY <1>14, <3>1, <3>2
  <2>2. \A k \in 1..n2 : w2[k] = w2[k - 1] + Realized(s2[k])
    <3> SUFFICES ASSUME NEW k \in 1..n2 PROVE w2[k] = w2[k - 1] + Realized(s2[k])
      OBVIOUS
    <3>1. k \in 0..n2 /\ k - 1 \in 0..n2 /\ e[k] = Moves(e[k - 1], Realized(s2[k]))
      BY <1>8, <1>12
    <3> QED BY <3>1 DEF Moves
  <2> HIDE DEF w2
  <2>3. WalksOver(w2, n2, After, start, hi)
    BY <1>5, <2>1, <2>2 DEF WalksOver, n2, s2
  <2>4. (\A k \in 1..n2 : w2[k] = BalanceAt(Moments(After)[k])) /\ w2[n2] = BalanceAt(hi)
    BY <1>2, <2>3, WalkBalances
  <2> QED BY <2>1, <2>4 DEF s2
<1> DEFINE n == n1 + n2
           x == [k \in 1..n |-> IF k <= n1 THEN s1[k] ELSE s2[k - n1]]
           q == [k \in 0..n |-> IF k <= n1 THEN o[k].balance ELSE e[k - n1].balance]
           peak == [k \in 0..n |-> IF k <= n1 THEN o[k].peak ELSE e[k - n1].peak]
           worst == [k \in n1..n |-> e[k - n1].worst]
<1>16. n \in Nat /\ n1 \in 0..n /\ n - n1 = n2
  BY <1>7, <1>8
<1>17. /\ \A k \in 0..n1 : k \in 0..n /\ q[k] = w1[k] /\ q[k] = o[k].balance /\ peak[k] = o[k].peak
       /\ \A k \in n1..n : k \in 0..n /\ k - n1 \in 0..n2
       /\ \A k \in (n1 + 1)..n : k - n1 \in 1..n2 /\ (k - 1) - n1 = (k - n1) - 1
  BY <1>7, <1>8
<1>18. \A k \in n1..n : /\ q[k] = w2[k - n1] /\ q[k] = e[k - n1].balance
                        /\ peak[k] = e[k - n1].peak /\ worst[k] = e[k - n1].worst
  <2> SUFFICES ASSUME NEW k \in n1..n
               PROVE  /\ q[k] = w2[k - n1] /\ q[k] = e[k - n1].balance
                      /\ peak[k] = e[k - n1].peak /\ worst[k] = e[k - n1].worst
    OBVIOUS
  <2>1. k \in 0..n /\ k - n1 \in 0..n2
    BY <1>17
  <2>2. worst[k] = e[k - n1].worst /\ w2[k - n1] = e[k - n1].balance
    BY <2>1
  <2>3. CASE k = n1
    <3>1. k - n1 = 0 /\ k <= n1
      BY <1>7, <2>3
    <3>2. q[k] = o[n1].balance /\ peak[k] = o[n1].peak
      BY <2>1, <2>3, <3>1
    <3> QED BY <1>12, <2>2, <3>1, <3>2
  <2>4. CASE k # n1
    <3>1. ~(k <= n1)
      BY <1>7, <1>16, <2>4
    <3> QED BY <2>1, <2>2, <3>1
  <2> QED BY <2>3, <2>4
<1>19. \A k \in 1..n : (k <= n1 => k \in 1..n1 /\ x[k] = s1[k])
                       /\ (~(k <= n1) => k \in (n1 + 1)..n /\ k - n1 \in 1..n2 /\ x[k] = s2[k - n1])
  BY <1>7, <1>8
<1>20. \A k \in 1..n1 : s1[k] \in Nat /\ s1[k] <= start
  BY <1>4, <1>7, <1>1
<1>21. \A k \in 1..n2 : s2[k] \in Nat /\ start < s2[k]
  BY <1>5, <1>8, <1>1
<1> HIDE DEF n, x, q, peak, worst, w1, w2
<1>22. Climbs(q, peak, n)
  <2>1. \A k \in 0..n1 : q[k] \in Int /\ peak[k] \in Int
    BY <1>17, <1>10 DEF Openings
  <2>2. \A k \in n1..n : q[k] \in Int /\ peak[k] \in Int
    <3> SUFFICES ASSUME NEW k \in n1..n PROVE q[k] \in Int /\ peak[k] \in Int
      OBVIOUS
    <3>1. e[k - n1] \in Balances
      BY <1>17, <1>12
    <3> QED BY <1>18, <3>1 DEF Balances
  <2>3. \A k \in 0..n : q[k] \in Int /\ peak[k] \in Int
    <3>1. \A k \in 0..n : k \in 0..n1 \/ k \in n1..n
      BY <1>7, <1>16
    <3> QED BY <2>1, <2>2, <3>1
  <2>4. peak[0] = q[0]
    BY <1>7, <1>10, <1>17
  <2>5. ASSUME NEW k \in 1..n
        PROVE  peak[k] = IF q[k] > peak[k - 1] THEN q[k] ELSE peak[k - 1]
    <3>1. CASE k <= n1
      <4>1. k \in 1..n1 /\ k \in 0..n1 /\ k - 1 \in 0..n1
        BY <1>7, <3>1
      <4>2. o[k] = Rises(o[k - 1], Realized(s1[k]))
        BY <1>10, <4>1
      <4>3. o[k].balance = q[k] /\ o[k].peak = peak[k] /\ o[k - 1].peak = peak[k - 1]
        BY <1>17, <4>1
      <4> QED BY <4>2, <4>3 DEF Rises
    <3>2. CASE ~(k <= n1)
      <4>1. k \in (n1 + 1)..n /\ k \in n1..n /\ k - 1 \in n1..n
        BY <1>7, <1>16, <3>2
      <4>2. e[k - n1] = Moves(e[(k - n1) - 1], Realized(s2[k - n1]))
        BY <1>12, <1>17, <4>1
      <4>3. e[k - n1].balance = q[k] /\ e[k - n1].peak = peak[k] /\ e[(k - n1) - 1].peak = peak[k - 1]
        BY <1>17, <1>18, <4>1
      <4> QED BY <4>2, <4>3 DEF Moves
    <3> QED BY <3>1, <3>2
  <2> QED BY <2>3, <2>4, <2>5 DEF Climbs
<1>23. Falls(q, peak, worst, n1, n)
  <2>1. \A k \in n1..n : worst[k] \in Int
    <3> SUFFICES ASSUME NEW k \in n1..n PROVE worst[k] \in Int
      OBVIOUS
    <3>1. e[k - n1] \in Balances
      BY <1>17, <1>12
    <3> QED BY <1>18, <3>1 DEF Balances
  <2>2. worst[n1] = peak[n1] - q[n1]
    <3>1. n1 \in n1..n /\ n1 - n1 = 0
      BY <1>7, <1>16
    <3>2. q[n1] = e[0].balance /\ peak[n1] = e[0].peak /\ worst[n1] = e[0].worst
      BY <1>18, <3>1
    <3> QED BY <1>12, <3>2
  <2>3. ASSUME NEW k \in (n1 + 1)..n
        PROVE  worst[k] = IF peak[k] - q[k] > worst[k - 1] THEN peak[k] - q[k] ELSE worst[k - 1]
    <3>1. k \in n1..n /\ k - 1 \in n1..n
      BY <1>7, <1>16
    <3>2. e[k - n1] = Moves(e[(k - n1) - 1], Realized(s2[k - n1]))
      BY <1>12, <1>17
    <3>3. e[k - n1].balance = q[k] /\ e[k - n1].peak = peak[k] /\ e[k - n1].worst = worst[k]
          /\ e[(k - n1) - 1].worst = worst[k - 1]
      BY <1>17, <1>18, <3>1
    <3> QED BY <3>2, <3>3 DEF Moves
  <2> QED BY <2>1, <2>2, <2>3 DEF Falls
<1>24. Tells(q, x, n1, n, start)
  <2>1. q[0] = BalanceAt(-1) /\ q[n1] = BalanceAt(start)
    BY <1>7, <1>14, <1>17
  <2>2. \A k \in 1..n : x[k] \in Nat /\ q[k] = BalanceAt(x[k])
    <3> SUFFICES ASSUME NEW k \in 1..n PROVE x[k] \in Nat /\ q[k] = BalanceAt(x[k])
      OBVIOUS
    <3>1. CASE k <= n1
      <4>1. k \in 1..n1 /\ k \in 0..n1 /\ x[k] = s1[k]
        BY <1>7, <1>19, <3>1
      <4> QED BY <1>14, <1>17, <1>20, <4>1
    <3>2. CASE ~(k <= n1)
      <4>1. k \in n1..n /\ k - n1 \in 1..n2 /\ x[k] = s2[k - n1]
        BY <1>7, <1>16, <1>19, <3>2
      <4> QED BY <1>15, <1>18, <1>21, <4>1
    <3> QED BY <3>1, <3>2
  <2>3. \A k \in 1..n : x[k] <= start <=> k <= n1
    <3> SUFFICES ASSUME NEW k \in 1..n PROVE x[k] <= start <=> k <= n1
      OBVIOUS
    <3>1. CASE k <= n1
      BY <1>19, <1>20, <3>1
    <3>2. CASE ~(k <= n1)
      <4>1. start < x[k] /\ x[k] \in Int
        BY <1>19, <1>21, <3>2
      <4> QED BY <1>2, <3>2, <4>1
    <3> QED BY <3>1, <3>2
  <2>4. \A i, j \in 1..n : i < j => x[i] < x[j]
    <3> SUFFICES ASSUME NEW i \in 1..n, NEW j \in 1..n, i < j PROVE x[i] < x[j]
      OBVIOUS
    <3>1. CASE j <= n1
      <4>1. i <= n1
        BY <1>7, <3>1
      <4> QED BY <1>7, <1>19, <3>1, <4>1
    <3>2. CASE i <= n1 /\ ~(j <= n1)
      <4>1. x[i] <= start /\ ~(x[j] <= start) /\ x[i] \in Int /\ x[j] \in Int
        BY <2>2, <2>3, <3>2
      <4> QED BY <1>2, <4>1
    <3>3. CASE ~(i <= n1) /\ ~(j <= n1)
      <4>1. i - n1 \in 1..n2 /\ j - n1 \in 1..n2 /\ x[i] = s2[i - n1] /\ x[j] = s2[j - n1]
        BY <1>19, <3>3
      <4>2. i - n1 < j - n1
        BY <1>7
      <4> QED BY <1>8, <4>1, <4>2
    <3> QED BY <3>1, <3>2, <3>3
  <2>5. \A k \in 1..n : \E t \in Horizon : x[k] = ClosedAt(t)
    <3> SUFFICES ASSUME NEW k \in 1..n PROVE \E t \in Horizon : x[k] = ClosedAt(t)
      OBVIOUS
    <3>1. CASE k <= n1
      BY <1>6, <1>7, <1>19, <3>1
    <3>2. CASE ~(k <= n1)
      BY <1>6, <1>8, <1>19, <3>2
    <3> QED BY <3>1, <3>2
  <2>6. \A t \in Horizon : \E k \in 1..n : x[k] = ClosedAt(t)
    <3> SUFFICES ASSUME NEW t \in Horizon PROVE \E k \in 1..n : x[k] = ClosedAt(t)
      OBVIOUS
    <3>1. CASE t \in Before
      <4>1. PICK k \in 1..n1 : s1[k] = ClosedAt(t)
        BY <1>7, <3>1
      <4>2. k \in 1..n /\ k <= n1
        BY <1>7, <1>8 DEF n
      <4> QED BY <1>19, <4>1, <4>2
    <3>2. CASE t \in After
      <4>1. PICK k \in 1..n2 : s2[k] = ClosedAt(t)
        BY <1>8, <3>2
      <4>2. k + n1 \in 1..n /\ ~(k + n1 <= n1) /\ (k + n1) - n1 = k
        BY <1>7, <1>8 DEF n
      <4> QED BY <1>19, <4>1, <4>2
    <3> QED BY <1>6, <3>1, <3>2
  <2> QED BY <2>1, <2>2, <2>3, <2>4, <2>5, <2>6 DEF Tells
<1>25. n1 \in n1..n /\ n \in n1..n /\ n1 \in 0..n1
  BY <1>7, <1>16
<1>26. q[n] = BalanceAt(hi)
  BY <1>15, <1>16, <1>18, <1>25
<1>27. Modeled = [status |-> "available", opening |-> q[n1], ending |-> q[n],
                  peak |-> peak[n], worst |-> worst[n]]
  <2>1. q[n] = e[n2].balance /\ peak[n] = e[n2].peak /\ worst[n] = e[n2].worst
    BY <1>16, <1>18, <1>25
  <2>2. q[n1] = o[n1].balance
    BY <1>17, <1>25
  <2> QED BY <1>13, <2>1, <2>2
<1>28. IsModeled(q, x, peak, worst, n1, n, start)
  BY <1>22, <1>23, <1>24, <1>26, <1>27 DEF hi, IsModeled
<1> QED BY <1>16, <1>28

(* The time that a place stands for. *)
HasPlace(q, x, n, time, k) ==
  /\ k \in 0..n /\ q[k] = BalanceAt(time)
  /\ \A i \in 1..n : x[i] <= time <=> i <= k

(* Every time of BalanceAddsUp has its place, places are in the order of   *)
(* the times, and every place is that of such a time.                      *)
LEMMA TimesHavePlaces ==
  ASSUME NEW start \in Int, -1 <= start, NEW n \in Nat, NEW m \in 0..n, NEW q, NEW x,
         Tells(q, x, m, n, start)
  PROVE  \A time \in {-1, start} \cup {ClosedAt(t) : t \in Horizon} :
           time \in Int /\ \E k \in 0..n : HasPlace(q, x, n, time, k)
<1>0. \A k \in 1..n : x[k] \in Nat /\ q[k] = BalanceAt(x[k])
  BY DEF Tells
<1>1. HasPlace(q, x, n, -1, 0)
  <2>1. \A i \in 1..n : x[i] <= -1 <=> i <= 0
    BY <1>0
  <2> QED BY <2>1 DEF HasPlace, Tells
<1>2. HasPlace(q, x, n, start, m)
  BY DEF HasPlace, Tells
<1>3. ASSUME NEW t \in Horizon
      PROVE  ClosedAt(t) \in Int /\ \E k \in 0..n : HasPlace(q, x, n, ClosedAt(t), k)
  <2>1. PICK k \in 1..n : x[k] = ClosedAt(t)
    BY DEF Tells
  <2>2. \A i \in 1..n : x[i] <= x[k] <=> i <= k
    <3> SUFFICES ASSUME NEW i \in 1..n PROVE x[i] <= x[k] <=> i <= k
      OBVIOUS
    <3>1. (i < k => x[i] < x[k]) /\ (k < i => x[k] < x[i])
      BY DEF Tells
    <3> QED BY <1>0, <3>1
  <2>3. HasPlace(q, x, n, ClosedAt(t), k)
    BY <1>0, <2>1, <2>2 DEF HasPlace
  <2> QED BY <1>0, <2>1, <2>3
<1> QED BY <1>1, <1>2, <1>3

(* The balance that a page shows is that of the ledger's results. *)
LEMMA BalanceDoesAddUp ==
  ASSUME HorizonOK, NEW start, RangeOK(start), \A t \in Horizon : ClosedAt(t) < VisibleTo(scope.range)
  PROVE  LET times == {-1, start} \cup {ClosedAt(t) : t \in Horizon}
         IN /\ Modeled.status = "available"
            /\ Modeled.opening = BalanceAt(start)
            /\ Modeled.ending = BalanceAt(VisibleTo(scope.range))
            /\ Modeled.peak = Max({BalanceAt(time) : time \in times})
            /\ Modeled.worst = Max({BalanceAt(p[1]) - BalanceAt(p[2]) :
                                      p \in {c \in times \X times : c[1] <= c[2] /\ c[2] >= start}})
<1> DEFINE times == {-1, start} \cup {ClosedAt(t) : t \in Horizon}
           hi == VisibleTo(scope.range)
<1>1. start \in Int /\ -1 <= start
  BY DEF RangeOK
<1>2. PICK n \in Nat : \E m \in 0..n : \E q, x, peak, worst : IsModeled(q, x, peak, worst, m, n, start)
  BY ModeledWalks
<1>3. PICK m \in 0..n : \E q, x, peak, worst : IsModeled(q, x, peak, worst, m, n, start)
  BY <1>2
<1>4. PICK q, x, peak, worst : IsModeled(q, x, peak, worst, m, n, start)
  BY <1>3
<1>5. /\ Climbs(q, peak, n) /\ Falls(q, peak, worst, m, n)
      /\ Tells(q, x, m, n, start)
      /\ q[n] = BalanceAt(hi)
      /\ Modeled = [status |-> "available", opening |-> q[m], ending |-> q[n],
                    peak |-> peak[n], worst |-> worst[n]]
  BY <1>4 DEF IsModeled
<1>6. \A k \in 0..n : q[k] \in Int /\ peak[k] \in Int
  BY <1>5 DEF Climbs
<1>7. \A k \in m..n : worst[k] \in Int
  BY <1>5 DEF Falls
<1>8. q[0] = BalanceAt(-1) /\ q[m] = BalanceAt(start)
      /\ (\A k \in 1..n : x[k] \in Nat /\ q[k] = BalanceAt(x[k]))
      /\ (\A i, j \in 1..n : i < j => x[i] < x[j])
      /\ (\A k \in 1..n : x[k] <= start <=> k <= m)
  BY <1>5 DEF Tells
<1>9. \A k \in 1..n : x[k] \in times
  BY <1>5 DEF Tells
<1>10. \A time \in times : time \in Int /\ \E k \in 0..n : HasPlace(q, x, n, time, k)
  BY <1>1, <1>5, TimesHavePlaces
<1>11. -1 \in times /\ start \in times
  OBVIOUS
<1> HIDE DEF times
<1>12. Modeled.peak = Max({BalanceAt(time) : time \in times})
  <2> DEFINE X == {BalanceAt(time) : time \in times}
  <2>1. (\A i \in 0..n : q[i] <= peak[n]) /\ \E i \in 0..n : q[i] = peak[n]
    BY <1>5, PeakIsHighest
  <2>2. \A y \in X : \E k \in 0..n : y = q[k]
    BY <1>10 DEF HasPlace
  <2>3. \A k \in 0..n : q[k] \in X
    <3> SUFFICES ASSUME NEW k \in 0..n PROVE \E time \in times : q[k] = BalanceAt(time)
      OBVIOUS
    <3>1. CASE k = 0
      BY <1>8, <1>11, <3>1
    <3>2. CASE k # 0
      <4>1. k \in 1..n
        BY <3>2
      <4> QED BY <1>8, <1>9, <4>1
    <3> QED BY <3>1, <3>2
  <2> HIDE DEF X
  <2>4. X \subseteq Int /\ peak[n] \in X /\ \A y \in X : y <= peak[n]
    BY <1>6, <2>1, <2>2, <2>3
  <2>5. Max(X) = peak[n]
    BY <2>4, MaxIs
  <2> QED BY <1>5, <2>5 DEF X
<1>13. Modeled.worst = Max({BalanceAt(p[1]) - BalanceAt(p[2]) :
                              p \in {c \in times \X times : c[1] <= c[2] /\ c[2] >= start}})
  <2> DEFINE P == {c \in times \X times : c[1] <= c[2] /\ c[2] >= start}
             X == {BalanceAt(p[1]) - BalanceAt(p[2]) : p \in P}
  <2>1. /\ \A j \in m..n : \A i \in 0..j : q[i] - q[j] <= worst[n]
        /\ \E j \in m..n : \E i \in 0..j : q[i] - q[j] = worst[n]
    BY <1>5, WorstIsDeepest
  <2>2. ASSUME NEW a \in times, NEW b \in times, a <= b, b >= start
        PROVE  \E j \in m..n : \E i \in 0..j : BalanceAt(a) - BalanceAt(b) = q[i] - q[j]
    <3>1. PICK i \in 0..n : HasPlace(q, x, n, a, i)
      BY <1>10
    <3>2. PICK j \in 0..n : HasPlace(q, x, n, b, j)
      BY <1>10
    <3>3. a \in Int /\ b \in Int
      BY <1>10
    <3>4. i <= j
      <4>1. CASE i = 0
        BY <4>1
      <4>2. CASE i # 0
        <5>1. i \in 1..n /\ x[i] <= a /\ x[i] \in Nat
          BY <1>8, <3>1, <4>2 DEF HasPlace
        <5>2. x[i] <= b
          BY <2>2, <3>3, <5>1
        <5> QED BY <3>2, <5>1, <5>2 DEF HasPlace
      <4> QED BY <4>1, <4>2
    <3>5. m <= j
      <4>1. CASE m = 0
        BY <4>1
      <4>2. CASE m # 0
        <5>1. m \in 1..n /\ x[m] <= start /\ x[m] \in Nat
          BY <1>8, <4>2
        <5>2. x[m] <= b
          BY <1>1, <2>2, <3>3, <5>1
        <5> QED BY <3>2, <5>1, <5>2 DEF HasPlace
      <4> QED BY <4>1, <4>2
    <3>6. j \in m..n /\ i \in 0..j
      BY <3>4, <3>5
    <3>7. q[i] = BalanceAt(a) /\ q[j] = BalanceAt(b)
      BY <3>1, <3>2 DEF HasPlace
    <3> QED BY <3>6, <3>7
  <2>3. ASSUME NEW j \in m..n, NEW i \in 0..j
        PROVE  \E a, b \in times : a <= b /\ b >= start /\ BalanceAt(a) = q[i] /\ BalanceAt(b) = q[j]
    <3>1. PICK b \in times : b >= start /\ BalanceAt(b) = q[j] /\ (\A k \in 1..j : x[k] <= b) /\ b >= -1
      <4>1. CASE j = m
        <5>1. \A k \in 1..j : k \in 1..n /\ k <= m
          BY <4>1
        <5>2. \A k \in 1..j : x[k] <= start
          BY <1>8, <5>1
        <5> QED BY <1>1, <1>8, <1>11, <4>1, <5>2
      <4>2. CASE j # m
        <5>1. j \in 1..n /\ ~(j <= m)
          BY <4>2
        <5>2. x[j] \in Nat /\ ~(x[j] <= start) /\ q[j] = BalanceAt(x[j]) /\ x[j] \in times
          BY <1>8, <1>9, <5>1
        <5>3. ASSUME NEW k \in 1..j PROVE x[k] <= x[j]
          <6>1. k \in 1..n /\ (k = j \/ k < j)
            BY <5>1
          <6>2. k < j => x[k] < x[j]
            BY <1>8, <5>1, <6>1
          <6>3. x[k] \in Nat
            BY <1>8, <6>1
          <6> QED BY <5>2, <6>1, <6>2, <6>3
        <5>4. x[j] >= start /\ x[j] >= -1
          BY <1>1, <5>2
        <5> QED BY <5>2, <5>3, <5>4
      <4> QED BY <4>1, <4>2
    <3>2. CASE i = 0
      <4>1. -1 <= b
        BY <1>10, <3>1
      <4> QED BY <1>8, <1>11, <3>1, <3>2, <4>1
    <3>3. CASE i # 0
      <4>1. i \in 1..n /\ i \in 1..j
        BY <3>3
      <4>2. x[i] \in times /\ BalanceAt(x[i]) = q[i] /\ x[i] <= b
        BY <1>8, <1>9, <3>1, <4>1
      <4> QED BY <3>1, <4>2
    <3> QED BY <3>2, <3>3
  <2>4. n \in m..n
    OBVIOUS
  <2>5. \A y \in X : y \in Int /\ y <= worst[n]
    <3> SUFFICES ASSUME NEW p \in P
                 PROVE  /\ BalanceAt(p[1]) - BalanceAt(p[2]) \in Int
                        /\ BalanceAt(p[1]) - BalanceAt(p[2]) <= worst[n]
      OBVIOUS
    <3>1. p[1] \in times /\ p[2] \in times /\ p[1] <= p[2] /\ p[2] >= start
      OBVIOUS
    <3>2. PICK j \in m..n : \E i \in 0..j : BalanceAt(p[1]) - BalanceAt(p[2]) = q[i] - q[j]
      BY <2>2, <3>1
    <3>3. PICK i \in 0..j : BalanceAt(p[1]) - BalanceAt(p[2]) = q[i] - q[j]
      BY <3>2
    <3>4. q[i] - q[j] <= worst[n]
      BY <2>1
    <3>5. q[i] \in Int /\ q[j] \in Int
      BY <1>6
    <3> HIDE DEF P, X
    <3> QED BY <3>3, <3>4, <3>5
  <2>6. worst[n] \in X
    <3>1. PICK j \in m..n : \E i \in 0..j : q[i] - q[j] = worst[n]
      BY <2>1
    <3>2. PICK i \in 0..j : q[i] - q[j] = worst[n]
      BY <3>1
    <3>3. PICK a \in times, b \in times : a <= b /\ b >= start /\ BalanceAt(a) = q[i] /\ BalanceAt(b) = q[j]
      BY <2>3
    <3>4. <<a, b>> \in P
      BY <3>3
    <3>5. worst[n] = BalanceAt(<<a, b>>[1]) - BalanceAt(<<a, b>>[2])
      BY <3>2, <3>3
    <3> HIDE DEF P
    <3> QED BY <3>4, <3>5
  <2> HIDE DEF X
  <2>7. X \subseteq Int
    BY <2>5
  <2>8. Max(X) = worst[n]
    BY <2>5, <2>6, <2>7, MaxIs
  <2> QED BY <1>5, <2>8 DEF X
<1>14. Modeled.status = "available" /\ Modeled.opening = BalanceAt(start) /\ Modeled.ending = BalanceAt(hi)
  BY <1>5, <1>8
<1> QED BY <1>12, <1>13, <1>14 DEF times

-----------------------------------------------------------------------------
(* The figures of the pages. *)

(* What admits one account only was not asked for all of them. *)
LEMMA ScopeIsOfOne ==
  ASSUME NEW g, NEW filter, IsScope(g, filter), g.account # "all"
  PROVE  filter.account # "all"
BY DEF IsScope, Scope

(* No filters reach back before the first day. *)
LEMMA ScopeIsOfTimes ==
  ASSUME NEW g, NEW filter \in Filters, IsScope(g, filter), g.range # Null
  PROVE  g.range.from \in Nat /\ g.range.to \in Nat
<1> DEFINE dates == filter.dates
           today == Day(Now)
           span  == Span(dates, today)
<1>1. g.range = Bounds(dates, [zone |-> 0, now |-> Now])
  <2>1. PICK settings \in Settings :
          settings.zone = 0 /\ settings.now = Now /\ g = Scope(filter, settings)
    BY DEF IsScope
  <2> QED BY <2>1 DEF Scope, Bounds
<1>2. dates.preset # "all"
  BY <1>1 DEF Bounds
<1>3. today \in Nat
  BY AnalyticsAssumption DEF Day
<1>4. span.first \in Nat /\ span.last \in Nat
  <2>1. CASE dates.preset = "custom"
    BY <2>1, FiltersAssumption DEF Span
  <2>2. CASE dates.preset = "rolling"
    BY <1>3, <2>2, FiltersAssumption DEF Span, Day
  <2>3. CASE dates.preset = "period"
    BY <1>3, <2>3, FiltersAssumption DEF Span
  <2> QED BY <1>2, <2>1, <2>2, <2>3, FiltersAssumption
<1>5. \A n \in Nat : n * DayLength \in Nat
  BY AnalyticsAssumption
<1>6. g.range.from = span.first * DayLength + 0 /\ g.range.to = (span.last + 1) * DayLength + 0
  <2>1. Now - 0 = Now
    BY AnalyticsAssumption
  <2> QED BY <1>1, <1>2, <2>1 DEF Bounds
<1> HIDE DEF span
<1> QED BY <1>4, <1>5, <1>6

(* A balance page: its history is finite and of whole numbers. *)
LEMMA BalancesDoAddUp ==
  ASSUME AnalyticsInv, Complete, page.kind = "balance"
  PROVE  BalanceAddsUp
<1> SUFFICES ASSUME scope.account # "all", ~VisibleFails(scope.range)
             PROVE  LET At(time) == Starting + NetOf({t \in Horizon : ClosedAt(t) <= time})
                        start    == VisibleFrom(scope.range) - 1
                        times    == {-1, start} \cup {ClosedAt(t) : t \in Horizon}
                    IN IF \E t \in Horizon : Net(t) = Null
                       THEN Modeled.status = "unavailable"
                       ELSE /\ Modeled.status = "available"
                            /\ Modeled.opening = At(start)
                            /\ Modeled.ending = At(VisibleTo(scope.range))
                            /\ Modeled.peak = Max({At(time) : time \in times})
                            /\ Modeled.worst = Max({At(p[1]) - At(p[2]) :
                                  p \in {q \in times \X times : q[1] <= q[2] /\ q[2] >= start}})
  BY Zenon DEF BalanceAddsUp
<1> DEFINE H == read["history"]
           start == VisibleFrom(scope.range) - 1
<1>0. IsScope(scope, page.filter)
  BY DEF AnalyticsInv, ScopeOK, Complete, NoPage
<1>1. \A t \in DOMAIN H : t \in Trades /\ H[t] \in Entries /\ Historic(H[t])
  <2>1. page.filter.account # "all"
    BY <1>0, ScopeIsOfOne
  <2>2. DOMAIN read = {"history"}
    BY <2>1 DEF Complete, Statements
  <2> QED BY <2>2 DEF AnalyticsInv, RowsOK, RowStatements, Selects
<1>2. \A t \in DOMAIN H : ClosedAt(t) \in Nat /\ Net(t) \in Int \cup {Null}
  <2> SUFFICES ASSUME NEW t \in DOMAIN H PROVE ClosedAt(t) \in Nat /\ Net(t) \in Int \cup {Null}
    OBVIOUS
  <2>1. H[t].actual \in Actuals
    BY <1>1 DEF Entries, Historic
  <2> QED BY <2>1, AnalyticsAssumption DEF ClosedAt, Net
<1>3. Horizon \in SUBSET Trades /\ \A t \in Horizon : t \in DOMAIN H /\ ClosedAt(t) < VisibleTo(scope.range)
  BY <1>1 DEF Horizon
<1>4. RangeOK(start)
  <2>1. page.filter \in Filters
    BY DEF AnalyticsInv, Requests, NoPage, Complete
  <2>2. scope.range # Null => scope.range.from \in Nat /\ scope.range.to \in Nat
    BY <1>0, <2>1, ScopeIsOfTimes
  <2>3. CASE scope.range = Null
    BY <2>3, AnalyticsAssumption DEF RangeOK, VisibleFrom, VisibleTo
  <2>4. CASE scope.range # Null
    BY <2>2, <2>4, AnalyticsAssumption DEF RangeOK, VisibleFrom, VisibleTo, VisibleFails
  <2> QED BY <2>3, <2>4
<1>5. CASE \E t \in Horizon : Net(t) = Null
  <2>1. Modeled.status = "unavailable"
    BY <1>5, ModeledIsUnavailable
  <2> QED BY <1>5, <2>1
<1>6. CASE ~\E t \in Horizon : Net(t) = Null
  <2>1. HorizonOK
    <3>1. IsFiniteSet(Horizon)
      BY <1>3, FS_Subset, FiguresAssumption
    <3> QED BY <1>2, <1>3, <1>6, <3>1 DEF HorizonOK
  <2> HIDE DEF H
  <2>2. LET times == {-1, start} \cup {ClosedAt(t) : t \in Horizon}
        IN /\ Modeled.status = "available"
           /\ Modeled.opening = BalanceAt(start)
           /\ Modeled.ending = BalanceAt(VisibleTo(scope.range))
           /\ Modeled.peak = Max({BalanceAt(time) : time \in times})
           /\ Modeled.worst = Max({BalanceAt(p[1]) - BalanceAt(p[2]) :
                                     p \in {c \in times \X times : c[1] <= c[2] /\ c[2] >= start}})
    <3> HIDE DEF start
    <3> QED BY <1>3, <1>4, <2>1, BalanceDoesAddUp
  <2> QED BY <1>6, <2>2, Zenon DEF BalanceAt
<1> QED BY <1>5, <1>6

(* The rows of S can be put in order and added up. *)
RowsAdd(rows, S) ==
  /\ IsFiniteSet(S) /\ S \subseteq Int
  /\ \A t \in S : rows[t].actual.r \in Int /\ rows[t].actual.at \in Int

(* And their system results. *)
VerdictsAdd(rows, S) ==
  /\ IsFiniteSet(S) /\ S \subseteq Int
  /\ \A t \in S : rows[t].verdict.r \in Int /\ rows[t].verdict.at \in Int

(* What is complete on an axis has its figures there. *)
LEMMA EntryFigures ==
  ASSUME NEW e \in Entries
  PROVE  /\ ActualComplete(e) => e.actual.r \in Int /\ e.actual.at \in Int
         /\ SystemComplete(e) => e.verdict.r \in Int /\ e.verdict.at \in Int
<1>1. e.actual \in Actuals \cup {Null} /\ e.verdict \in Verdicts \cup {Null}
  BY DEF Entries
<1> QED BY <1>1, AnalyticsAssumption DEF ActualComplete, SystemComplete

(* The rows that a page has read have their figures. *)
LEMMA FiguresOfRows ==
  ASSUME AnalyticsInv, NEW s \in DOMAIN read \cap RowStatements, NEW S \in SUBSET DOMAIN read[s]
  PROVE  /\ (\A t \in S : ActualComplete(read[s][t])) => RowsAdd(read[s], S)
         /\ (\A t \in S : SystemComplete(read[s][t])) => VerdictsAdd(read[s], S)
<1>1. \A t \in S : t \in Trades /\ read[s][t] \in Entries
  BY DEF AnalyticsInv, RowsOK
<1>2. IsFiniteSet(S) /\ S \subseteq Int
  <2>1. S \in SUBSET Trades
    BY <1>1
  <2> QED BY <2>1, FS_Subset, FiguresAssumption
<1> QED BY <1>1, <1>2, EntryFigures DEF RowsAdd, VerdictsAdd

(* The results of such rows are numbers, and have their times. *)
LEMMA ActualFigures ==
  ASSUME NEW rows, NEW S, RowsAdd(rows, S)
  PROVE  /\ TimesOK(S, ActualExit(rows, S))
         /\ S \subseteq DOMAIN ActualR(rows, S) /\ \A t \in S : ActualR(rows, S)[t] \in Int
BY DEF RowsAdd, TimesOK, ActualExit, ActualR

(* So are and have their system results. *)
LEMMA SystemFigures ==
  ASSUME NEW rows, NEW S, VerdictsAdd(rows, S)
  PROVE  /\ TimesOK(S, SystemExit(rows, S))
         /\ S \subseteq DOMAIN SystemR(rows, S) /\ \A t \in S : SystemR(rows, S)[t] \in Int
BY DEF VerdictsAdd, TimesOK, SystemExit, SystemR

(* The gap of two totals is the total of the gaps. *)
LEMMA GapOfTotals ==
  ASSUME NEW rows, NEW S, RowsAdd(rows, S), VerdictsAdd(rows, S)
  PROVE  /\ Total(S, GapR(rows, S)) = Total(S, ActualR(rows, S)) - Total(S, SystemR(rows, S))
         /\ S \subseteq DOMAIN GapR(rows, S) /\ \A t \in S : GapR(rows, S)[t] \in Int
<1>1. S \subseteq DOMAIN GapR(rows, S)
      /\ \A t \in S : GapR(rows, S)[t] = ActualR(rows, S)[t] - SystemR(rows, S)[t]
  BY DEF GapR, ActualR, SystemR
<1>2. \A t \in S : GapR(rows, S)[t] \in Int
  BY <1>1, ActualFigures, SystemFigures
<1>3. IsFiniteSet(S)
  BY DEF RowsAdd
<1>4. Total(S, GapR(rows, S)) = Total(S, ActualR(rows, S)) - Total(S, SystemR(rows, S))
  BY <1>1, <1>3, ActualFigures, SystemFigures, SumOfDifferences DEF Total
<1> QED BY <1>1, <1>2, <1>4

(* The same rows have the same totals. *)
LEMMA SameActuals ==
  ASSUME NEW rows, NEW S, NEW others, \A t \in S : others[t] = rows[t]
  PROVE  Total(S, ActualR(others, S)) = Total(S, ActualR(rows, S))
<1>1. ActualR(others, S) = ActualR(rows, S)
  BY DEF ActualR
<1> QED BY <1>1

(* The same verdicts have the same totals. *)
LEMMA SameVerdicts ==
  ASSUME NEW rows, NEW S, NEW others, \A t \in S : others[t] = rows[t]
  PROVE  Total(S, SystemR(others, S)) = Total(S, SystemR(rows, S))
<1>1. SystemR(others, S) = SystemR(rows, S)
  BY DEF SystemR
<1> QED BY <1>1

(* Results of rows in two parts. *)
LEMMA ActualsOfParts ==
  ASSUME NEW rows, NEW S, NEW T, RowsAdd(rows, S \cup T), S \cap T = {}
  PROVE  Total(S \cup T, ActualR(rows, S \cup T))
           = Total(S, ActualR(rows, S)) + Total(T, ActualR(rows, T))
<1> DEFINE all == ActualR(rows, S \cup T)
<1>1. IsFiniteSet(S) /\ IsFiniteSet(T)
  <2>1. S \in SUBSET (S \cup T) /\ T \in SUBSET (S \cup T) /\ IsFiniteSet(S \cup T)
    BY DEF RowsAdd
  <2> QED BY <2>1, FS_Subset
<1>2. S \cup T \subseteq DOMAIN all /\ \A i \in S \cup T : all[i] \in Int
  BY ActualFigures
<1>3. /\ S \subseteq DOMAIN ActualR(rows, S) /\ \A i \in S : ActualR(rows, S)[i] = all[i]
      /\ T \subseteq DOMAIN ActualR(rows, T) /\ \A i \in T : ActualR(rows, T)[i] = all[i]
  BY DEF ActualR
<1> HIDE DEF all
<1>4. S \subseteq DOMAIN all /\ T \subseteq DOMAIN all
  BY <1>2
<1>5. SumFunctionOnSet(ActualR(rows, S), S) = SumFunctionOnSet(all, S)
  BY <1>1, <1>2, <1>3, <1>4, SumAgrees
<1>6. SumFunctionOnSet(ActualR(rows, T), T) = SumFunctionOnSet(all, T)
  BY <1>1, <1>2, <1>3, <1>4, SumAgrees
<1>7. SumFunctionOnSet(all, S \cup T) = SumFunctionOnSet(all, S) + SumFunctionOnSet(all, T)
  BY <1>1, <1>2, SumOfParts
<1> QED BY <1>5, <1>6, <1>7 DEF Total, all

(* The cards of the comparison add up. *)
LEMMA ComparisonDoesAddUp ==
  ASSUME AnalyticsInv, Complete, page.kind = "dashboard"
  PROVE  ComparisonAddsUp
<1> DEFINE R == read["trader"]
           C == read["candidates"]
           traderR == ActualR(R, Traded)
           actual == Total(Pairs, PairsTrader)
           system == Total(Pairs, PairsSystem)
<1>1. DOMAIN read = {"trader", "system", "candidates"}
  BY DEF Complete, Statements
<1>2. {"trader", "candidates"} \subseteq DOMAIN read \cap RowStatements
  BY <1>1 DEF RowStatements
<1>3. RowsAdd(R, Traded)
  <2>1. \A t \in Traded : ActualComplete(R[t])
    BY <1>2 DEF AnalyticsInv, RowsOK, Selects, Admitted, Eligible, Traded
  <2> QED BY <1>2, <2>1, FiguresOfRows DEF Traded
<1>4. RowsAdd(C, Pairs) /\ VerdictsAdd(C, Pairs)
  <2>1. Pairs \in SUBSET DOMAIN C
    BY DEF Pairs
  <2>2. \A t \in Pairs : ActualComplete(C[t]) /\ SystemComplete(C[t])
    BY DEF Pairs, Paired
  <2> QED BY <1>2, <2>1, <2>2, FiguresOfRows
<1>5. RowsAdd(C, Pairs \cup Awaiting) /\ Pairs \cap Awaiting = {}
  <2>1. \A t \in Awaiting : ActualComplete(C[t])
    <3> SUFFICES ASSUME NEW t \in Awaiting, ~ActualComplete(C[t]) PROVE FALSE
      OBVIOUS
    <3>1. Exclusion(C[t]) = "awaiting_system_result"
      BY DEF Awaiting
    <3> QED BY <3>1 DEF Exclusion
  <2>2. \A t \in Pairs : ActualComplete(C[t])
    BY DEF Pairs, Paired
  <2>3. Pairs \cup Awaiting \in SUBSET DOMAIN C /\ Pairs \cap Awaiting = {}
    BY DEF Pairs, Awaiting
  <2>4. \A t \in Pairs \cup Awaiting : ActualComplete(C[t])
    BY <2>1, <2>2
  <2> QED BY <1>2, <2>3, <2>4, FiguresOfRows
<1> HIDE DEF R, C
<1>6. /\ TimesOK(Traded, ActualExit(R, Traded))
      /\ Traded \subseteq DOMAIN traderR /\ \A t \in Traded : traderR[t] \in Int
  BY <1>3, ActualFigures
<1>7. /\ TimesOK(Pairs, PairsExit)
      /\ Pairs \subseteq DOMAIN PairsTrader /\ \A t \in Pairs : PairsTrader[t] \in Int
  BY <1>4, ActualFigures DEF PairsExit, PairsTrader, C
<1>8. /\ TimesOK(Pairs, SystemExit(C, Pairs))
      /\ Pairs \subseteq DOMAIN PairsSystem /\ \A t \in Pairs : PairsSystem[t] \in Int
  BY <1>4, SystemFigures DEF PairsSystem, C
<1>9. /\ Total(Pairs, PairsGap) = actual - system
      /\ Pairs \subseteq DOMAIN PairsGap /\ \A t \in Pairs : PairsGap[t] \in Int
  BY <1>4, GapOfTotals DEF PairsGap, PairsTrader, PairsSystem, C
<1>10. Drawdown(TraderAxis) = DeepestFall(Traded, ActualExit(R, Traded), traderR)
  <2>1. TraderAxis = RunningTotals(Traded, ActualExit(R, Traded), traderR)
    BY DEF TraderAxis, R
  <2> HIDE DEF traderR
  <2> QED BY <1>6, <2>1, DrawdownIsDeepest
<1>11. EndsAt(TradeSeries(PairsTrader), actual) /\ EndsAt(PairedDays(PairsTrader), actual)
  BY <1>7, SeriesEnds, DailySeriesEnds DEF TradeSeries, PairedDays
<1>12. EndsAt(TradeSeries(PairsSystem), system) /\ EndsAt(PairedDays(PairsSystem), system)
  BY <1>7, <1>8, SeriesEnds, DailySeriesEnds DEF TradeSeries, PairedDays
<1>13. EndsAt(PairedSystemAxis, system)
  BY <1>8, SeriesEnds DEF PairedSystemAxis, C
<1>14. EndsAt(PairedDays(PairsGap), actual - system)
  <2>1. EndsAt(PairedDays(PairsGap), Total(Pairs, PairsGap))
    BY <1>7, <1>9, DailySeriesEnds DEF PairedDays
  <2> QED BY <1>9, <2>1
<1>15. Unwritten => Total(Traded, traderR) = actual + Total(Awaiting, ActualR(C, Awaiting))
  <2> SUFFICES ASSUME Unwritten
               PROVE  Total(Traded, traderR) = actual + Total(Awaiting, ActualR(C, Awaiting))
    OBVIOUS
  <2>1. Traded = Pairs \cup Awaiting /\ \A t \in Traded : R[t] = C[t]
    BY DashboardsAgree DEF DashboardAgrees, Traded, R, C
  <2>2. Total(Traded, traderR) = Total(Traded, ActualR(C, Traded))
    BY <2>1, SameActuals
  <2>3. Total(Pairs \cup Awaiting, ActualR(C, Pairs \cup Awaiting))
          = Total(Pairs, ActualR(C, Pairs)) + Total(Awaiting, ActualR(C, Awaiting))
    BY <1>5, ActualsOfParts
  <2> QED BY <2>1, <2>2, <2>3 DEF PairsTrader, C
<1> QED BY <1>10, <1>11, <1>12, <1>13, <1>14, <1>15, Zenon DEF ComparisonAddsUp, R, C

(* Numbers are below, at or above zero. *)
LEMMA CountOfSigns ==
  ASSUME NEW S, IsFiniteSet(S), NEW g, \A t \in S : g[t] \in Int
  PROVE  Cardinality({t \in S : g[t] < 0}) + Cardinality({t \in S : g[t] = 0})
           + Cardinality({t \in S : g[t] > 0}) = Cardinality(S)
<1> DEFINE U == {t \in S : g[t] < 0}
           M == {t \in S : g[t] = 0}
           O == {t \in S : g[t] > 0}
<1>1. U \in SUBSET S /\ M \in SUBSET S /\ O \in SUBSET S /\ U \cup M \in SUBSET S
  OBVIOUS
<1>2. U \cap M = {} /\ (U \cup M) \cap O = {} /\ (U \cup M) \cup O = S
  OBVIOUS
<1> HIDE DEF U, M, O
<1>3. /\ IsFiniteSet(U) /\ IsFiniteSet(M) /\ IsFiniteSet(O) /\ IsFiniteSet(U \cup M)
      /\ Cardinality({}) = 0
  BY <1>1, FS_Subset, FS_EmptySet
<1>4. /\ Cardinality(U) \in Nat /\ Cardinality(M) \in Nat /\ Cardinality(O) \in Nat
      /\ Cardinality(U \cup M) \in Nat
  BY <1>3, FS_CardinalityType
<1>5. Cardinality(U \cup M) = Cardinality(U) + Cardinality(M) - Cardinality({})
  BY <1>2, <1>3, FS_Union
<1>6. Cardinality(S) = Cardinality(U \cup M) + Cardinality(O) - Cardinality({})
  BY <1>2, <1>3, FS_Union
<1>7. Cardinality(U) + Cardinality(M) + Cardinality(O) = Cardinality(S)
  BY <1>3, <1>4, <1>5, <1>6
<1> QED BY <1>7 DEF U, M, O

(* The panel of a day adds up to its square. *)
LEMMA ReviewDoesAddUp ==
  ASSUME AnalyticsInv, Complete, page.kind = "day"
  PROVE  ReviewAddsUp
<1> SUFFICES ASSUME Untorn
             PROVE  IF Reviewed
                    THEN /\ Reconciles
                         /\ page.mode = "gap" =>
                              GapSquare.under + GapSquare.match + GapSquare.over = GapSquare.count
                    ELSE Square = {} /\ DOMAIN read["rows"] = {}
  BY Zenon DEF ReviewAddsUp
<1> DEFINE M == read["month"]
           R == read["rows"]
<1>1. DOMAIN read = {"month", "rows"}
  BY DEF Complete, Statements
<1>2. {"month", "rows"} \subseteq DOMAIN read \cap RowStatements
  BY <1>1 DEF RowStatements
<1>3. DOMAIN R = Square /\ \A t \in Square : R[t] = M[t]
  BY DaysAgree DEF DayAgrees, Untorn
<1>4. page.mode \in {"actual", "system", "gap"}
  BY DEF AnalyticsInv, Complete, Requests, NoPage
<1>5. Square \in SUBSET DOMAIN M /\ \A t \in Square : InMode(page.mode, M[t], scope.range)
  BY <1>2 DEF AnalyticsInv, RowsOK, Selects, Admitted, Square
<1>6. page.mode # "system" => RowsAdd(M, Square)
  <2>1. page.mode # "system" => \A t \in Square : ActualComplete(M[t])
    BY <1>4, <1>5 DEF InMode, Eligible, Paired
  <2> QED BY <1>2, <1>5, <2>1, FiguresOfRows
<1>7. page.mode # "actual" => VerdictsAdd(M, Square)
  <2>1. page.mode # "actual" => \A t \in Square : SystemComplete(M[t])
    BY <1>4, <1>5 DEF InMode, Resolved, Paired
  <2> QED BY <1>2, <1>5, <2>1, FiguresOfRows
<1>8. /\ Total(Square, ActualR(R, Square)) = Total(Square, ActualR(M, Square))
      /\ Total(Square, SystemR(R, Square)) = Total(Square, SystemR(M, Square))
  BY <1>3, SameActuals, SameVerdicts
<1>9. Reconciles
  <2>1. CASE page.mode = "gap"
    <3>1. Total(Square, GapR(M, Square))
            = Total(Square, ActualR(M, Square)) - Total(Square, SystemR(M, Square))
      BY <1>6, <1>7, <2>1, GapOfTotals
    <3>2. /\ GapSquare.count = Cardinality(Square)
          /\ GapSquare.system = Total(Square, SystemR(M, Square))
          /\ GapSquare.actual = Total(Square, ActualR(M, Square))
          /\ GapSquare.gap = Total(Square, GapR(M, Square))
      BY DEF GapSquare
    <3> QED BY <1>3, <1>8, <2>1, <3>1, <3>2 DEF Reconciles
  <2>2. CASE page.mode = "actual"
    <3>1. PerformanceSquare.count = Cardinality(Square)
          /\ PerformanceSquare.total = Total(Square, ActualR(M, Square))
      BY <2>2 DEF PerformanceSquare
    <3> QED BY <1>3, <1>8, <2>2, <3>1 DEF Reconciles
  <2>3. CASE page.mode = "system"
    <3>1. PerformanceSquare.count = Cardinality(Square)
          /\ PerformanceSquare.total = Total(Square, SystemR(M, Square))
      BY <2>3 DEF PerformanceSquare
    <3> QED BY <1>3, <1>8, <2>3, <3>1 DEF Reconciles
  <2> QED BY <1>4, <2>1, <2>2, <2>3
<1>10. page.mode = "gap" => GapSquare.under + GapSquare.match + GapSquare.over = GapSquare.count
  <2> SUFFICES ASSUME page.mode = "gap"
               PROVE  GapSquare.under + GapSquare.match + GapSquare.over = GapSquare.count
    OBVIOUS
  <2> DEFINE gap == GapR(M, Square)
  <2>1. IsFiniteSet(Square) /\ \A t \in Square : gap[t] \in Int
    BY <1>6, <1>7, GapOfTotals DEF RowsAdd
  <2>2. /\ GapSquare.count = Cardinality(Square)
        /\ GapSquare.under = Cardinality({t \in Square : gap[t] < 0})
        /\ GapSquare.match = Cardinality({t \in Square : gap[t] = 0})
        /\ GapSquare.over  = Cardinality({t \in Square : gap[t] > 0})
    BY DEF GapSquare
  <2> HIDE DEF gap
  <2> QED BY <2>1, <2>2, CountOfSigns
<1>11. ~Reviewed => Square = {} /\ DOMAIN read["rows"] = {}
  BY <1>3 DEF Reviewed
<1> QED BY <1>9, <1>10, <1>11

(* The figures that a page shows add up, for every ledger, filter and      *)
(* calendar and whatever is committed while the page is read: every series *)
(* ends at the total of its card in whichever order it is taken, drawdowns *)
(* are the deepest falls and the modeled balance follows from the results. *)
(* If no trade was written, cards account for the same trades; and so do   *)
(* a square and its list, if the filters admit the same both times.        *)
THEOREM FiguresAlwaysAddUp == Spec => []FiguresAddUp
<1>1. AnalyticsInv => FiguresAddUp
  <2> SUFFICES ASSUME AnalyticsInv, Complete
               PROVE  ComparisonAddsUp /\ ReviewAddsUp /\ BalanceAddsUp
    BY DEF FiguresAddUp
  <2>1. ComparisonAddsUp
    BY ComparisonDoesAddUp DEF ComparisonAddsUp
  <2>2. ReviewAddsUp
    BY ReviewDoesAddUp DEF ReviewAddsUp
  <2>3. BalanceAddsUp
    BY BalancesDoAddUp DEF BalanceAddsUp
  <2> QED BY <2>1, <2>2, <2>3
<1> QED BY <1>1, AnalyticsInvariant, PTL
=============================================================================
