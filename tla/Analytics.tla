------------------------------ MODULE Analytics ------------------------------
(***************************************************************************)
(* What a page of the dashboard reads, after src/src/server/dal/           *)
(* analytics.ts, dashboard-insights.ts and risk-performance.ts, while the  *)
(* trades it reads are written.                                            *)
(*                                                                         *)
(* A page is several SQL statements, each with a snapshot of its own: most *)
(* are sent together and answered in any order (Promise.all), the rows of  *)
(* a day only after its month.  No transaction holds them together, so a   *)
(* call that commits in between makes a torn page: later statements tell   *)
(* of another ledger than earlier ones.                                    *)
(*                                                                         *)
(* Trades move as TradeLedger says, which Trades implements; here a result *)
(* is its R, its net money and its time, a verdict its R and its time.     *)
(*                                                                         *)
(* What the filters of the URL admit depends on settings that other tabs   *)
(* change, the active account and the time zone, and on the clock.  A page *)
(* resolves them before its first statement; the rows of a day are read    *)
(* after resolving them anew, so that a day may be torn though no trade    *)
(* was written.  All trades here are of one strategy and setup.            *)
(***************************************************************************)
EXTENDS Integers, FiniteSets

CONSTANTS
  Trades,       \* trade ids, in their order
  Null,
  Actuals,      \* results: [r, net, at], the net money possibly Null
  Verdicts,     \* system results: [r, at]
  Accounts,
  AccountOf,    \* the account of a trade: no service moves a trade
  Filters,      \* of the URL: [dates, account]
  DayLength,
  DaysPerMonth,
  Dates,        \* days, counted from the first
  Zones,        \* when the days of a time zone begin, after those of the page's
  Now,          \* the clock when a page is opened
  Instants,     \* what the clock may read while a page is open
  CheckSets,    \* statuses that the required checks of one trade may have
  MaxWrites     \* calls that commit between two statements of one page

CheckStatuses == {"followed", "violated", "not_checked", "not_applicable"}

ASSUME AnalyticsAssumption ==
  /\ \A a \in Actuals : a.r \in Int /\ a.net \in Int \cup {Null} /\ a.at \in Nat
  /\ \A v \in Verdicts : v.r \in Int /\ v.at \in Nat
  /\ Null \notin Actuals \cup Verdicts
  /\ DayLength \in Nat \ {0} /\ DaysPerMonth \in Nat \ {0}
  /\ Now \in Instants /\ Instants \subseteq Nat /\ \A i \in Instants : Now <= i
  /\ 0 \in Zones /\ Zones \subseteq Int
  /\ AccountOf \in [Trades -> Accounts] /\ Accounts \cap {"all", "active"} = {}
  /\ Dates \subseteq Nat
  /\ CheckSets \subseteq SUBSET CheckStatuses
  /\ MaxWrites \in Nat

(* A custom range that ends before it starts is refused.  A page is opened *)
(* late enough for the days that a preset reaches back.                    *)
ASSUME FiltersAssumption ==
  \A f \in Filters :
    /\ f.account \in Accounts \cup {"all", "active"}
    /\ \/ f.dates = [preset |-> "all"]
       \/ /\ f.dates.preset = "custom"
          /\ f.dates.first \in Nat /\ f.dates.last \in Nat /\ f.dates.first <= f.dates.last
       \/ /\ f.dates.preset = "rolling"
          /\ f.dates.back \in Nat /\ f.dates.back <= Now \div DayLength
       \/ f.dates.preset = "period" /\ f.dates.length \in Nat \ {0}

VARIABLES
  ledger,   \* the trades
  page,     \* what the open page asked for
  scope,    \* what its filters admit, resolved before its first statement
  again,    \* what they admit for the rows of a day, resolved anew
  read,     \* the rows of each statement that has been answered
  writes    \* calls that committed between its statements

vars == <<ledger, page, scope, again, read, writes>>

Book == INSTANCE TradeLedger

(* The rows Trades can store: StorageAccepts relates a result to a status. *)
Entries ==
  {e \in [status  : {"none", "planned", "open", "closed", "canceled"},
          deleted : BOOLEAN,
          actual  : Actuals \cup {Null},
          system  : {"pending", "resolved", "no_trade"},
          verdict : Verdicts \cup {Null}] :
     /\ (e.status = "closed") = (e.actual # Null)
     /\ (e.system = "resolved") = (e.verdict # Null)
     /\ e.status = "none" => e = Book!NoEntry}

-----------------------------------------------------------------------------
(* The populations of the statements. *)

ActualComplete(e) == e.status = "closed" /\ e.actual # Null
SystemComplete(e) == e.system = "resolved" /\ e.verdict # Null

Between(range, at) == range = Null \/ (range.from <= at /\ at < range.to)

Eligible(e, range) == ~e.deleted /\ ActualComplete(e) /\ Between(range, e.actual.at)
Resolved(e, range) == ~e.deleted /\ SystemComplete(e) /\ Between(range, e.verdict.at)

(* isComparisonEligible *)
Paired(e) == ~e.deleted /\ ActualComplete(e) /\ SystemComplete(e)

(* Mutant: not(actualComplete) is dropped. *)
CandidateOnEitherAxis(e, range) == Eligible(e, range) \/ Resolved(e, range)

Candidate(e, range) == Eligible(e, range) \/ (Resolved(e, range) /\ ~ActualComplete(e))

(* composeComparisonExclusions *)
Exclusion(e) ==
  IF ActualComplete(e) THEN "awaiting_system_result"
  ELSE IF e.status \in {"open", "planned", "canceled"} THEN e.status ELSE "incomplete_record"

Day(at) == at \div DayLength
Month(day) == day \div DaysPerMonth

InMode(mode, e, range) ==
  CASE mode = "actual" -> Eligible(e, range)
    [] mode = "system" -> Resolved(e, range)
    [] mode = "gap"    -> Paired(e) /\ Between(range, e.actual.at)

Axis(mode, e) == IF mode = "system" THEN e.verdict.at ELSE e.actual.at

(* The balance of an account knows neither filters nor the start of a range. *)
Historic(e) == ~e.deleted /\ e.status = "closed" /\ e.actual # Null /\ e.actual.at < Now

-----------------------------------------------------------------------------
(* What the filters admit. *)

Settings == [active : Accounts, zone : Zones, now : Instants]

(* resolveLocalDatePresetRange: today and the days before it, or the week, *)
(* month, quarter or year so far, of so many days.                         *)
Span(dates, today) ==
  CASE dates.preset = "custom"  -> [first |-> dates.first, last |-> dates.last]
    [] dates.preset = "rolling" -> [first |-> today - dates.back, last |-> today]
    [] dates.preset = "period"  -> [first |-> today - (today % dates.length), last |-> today]

(* resolveAnalyticsDateBounds: from the start of the first day to the end  *)
(* of the last, both in the stored time zone.                              *)
Bounds(dates, settings) ==
  IF dates.preset = "all" THEN Null
  ELSE LET span == Span(dates, Day(settings.now - settings.zone))
       IN [from |-> span.first * DayLength + settings.zone,
           to   |-> (span.last + 1) * DayLength + settings.zone]

Scope(filter, settings) ==
  [account |-> IF filter.account = "active" THEN settings.active ELSE filter.account,
   range   |-> Bounds(filter.dates, settings)]

(* frameworkConditions *)
InAccount(t, g) == g.account = "all" \/ AccountOf[t] = g.account

-----------------------------------------------------------------------------
(* Pages and their statements. *)

NoPage == [kind |-> "none"]

Requests ==
       [kind : {"dashboard", "insights", "balance"}, filter : Filters]
  \cup [kind : {"day"}, filter : Filters, mode : {"actual", "system", "gap"}, date : Dates]

Statements(p) ==
  CASE p.kind = "dashboard" -> {"trader", "system", "candidates"}
    [] p.kind = "insights"  -> {"actual", "checks", "tags"}
    [] p.kind = "day"       -> {"month", "rows"}
    [] p.kind = "balance" /\ p.filter.account # "all" -> {"history"}
    [] OTHER                -> {}

(* A row holds the trade as it was in the ledger L; columns that a         *)
(* statement does not select are not looked at.                            *)
Rows(L, S) == [t \in S |-> L[t]]

InScope(L, g) == {t \in Trades : InAccount(t, g) /\ Eligible(L[t], g.range)}

InPeriod(L, p, g) == {t \in Trades : InAccount(t, g) /\ InMode(p.mode, L[t], g.range)}

MonthRows(L, p, g) ==
  Rows(L, {t \in InPeriod(L, p, g) : Month(Day(Axis(p.mode, L[t]))) = Month(p.date)})

DayRows(L, p, g) == Rows(L, {t \in InPeriod(L, p, g) : Day(Axis(p.mode, L[t])) = p.date})

(* Every answer to statement s of page p, whose filters admit g.  Checks   *)
(* and tags (emotions, mistakes) are rows of other tables, joined to the   *)
(* trades on the same condition.                                           *)
Answers(L, p, g, s) ==
  CASE s \in {"trader", "actual"} -> {Rows(L, InScope(L, g))}
    [] s = "system"     -> {Rows(L, {t \in Trades : InAccount(t, g) /\ Resolved(L[t], g.range)})}
    [] s = "candidates" -> {Rows(L, {t \in Trades : InAccount(t, g) /\ Candidate(L[t], g.range)})}
    [] s = "checks"     -> UNION {[S -> CheckSets] : S \in SUBSET InScope(L, g)}
    [] s = "tags"       -> SUBSET InScope(L, g)
    [] s = "month"      -> {MonthRows(L, p, g)}
    [] s = "rows"       -> {DayRows(L, p, g)}
    [] s = "history"    -> {Rows(L, {t \in Trades : InAccount(t, g) /\ Historic(L[t])})}

Complete == page # NoPage /\ DOMAIN read = Statements(page)

Init ==
  /\ Book!Init
  /\ page = NoPage /\ scope = Null /\ again = Null /\ read = << >> /\ writes = 0

(* A day is shown in the time zone of the dashboard that holds it, which   *)
(* was read before; any other page shows what it resolves now.             *)
OpenPage ==
  /\ page = NoPage
  /\ \E request \in Requests, settings \in Settings :
       /\ settings.now = Now /\ (request.kind # "day" => settings.zone = 0)
       /\ page' = request
       /\ scope' = Scope(request.filter, settings)
  /\ UNCHANGED <<ledger, again, read, writes>>

(* getDashboardDayReviewInMonth is called with the month, and              *)
(* getDayReviewRecords resolves the filters again.  Calls on trades leave  *)
(* the settings, so that to resolve and to answer is one step.             *)
Read(s) ==
  /\ page # NoPage /\ s \in Statements(page) \ DOMAIN read
  /\ IF s = "rows" THEN /\ "month" \in DOMAIN read
                       /\ again' \in {Scope(page.filter, settings) : settings \in Settings}
     ELSE again' = again
  /\ \E rows \in Answers(ledger, page, IF s = "rows" THEN again' ELSE scope, s) :
       read' = [x \in DOMAIN read \cup {s} |-> IF x = s THEN rows ELSE read[x]]
  /\ UNCHANGED <<ledger, page, scope, writes>>

ClosePage ==
  /\ Complete
  /\ page' = NoPage /\ scope' = Null /\ again' = Null /\ read' = << >> /\ writes' = 0
  /\ UNCHANGED ledger

(* A call on a trade commits.  A page notices it between two of its        *)
(* statements only; before the first and after the last it might as well   *)
(* not be open.                                                            *)
Write(t) ==
  /\ \/ page = NoPage /\ UNCHANGED writes
     \/ /\ page # NoPage /\ DOMAIN read # {} /\ ~Complete
        /\ writes < MaxWrites /\ writes' = writes + 1
  /\ \E e \in Entries :
       /\ e # ledger[t] /\ Book!Moves(ledger[t], e)
       /\ ledger' = [u \in Trades |-> IF u = t THEN e ELSE ledger[u]]
  /\ UNCHANGED <<page, scope, again, read>>

Next ==
  \/ OpenPage
  \/ \E s \in {"trader", "actual", "system", "candidates", "checks", "tags", "month", "rows", "history"} : Read(s)
  \/ ClosePage
  \/ \E t \in Trades : Write(t)

Spec == Init /\ [][Next]_vars

-----------------------------------------------------------------------------
(* What the pages say of their trades. *)

Unwritten == writes = 0

(* Nor was anything that the filters depend on, to any effect. *)
Untorn == Unwritten /\ again = scope

Pairs    == {t \in DOMAIN read["candidates"] : Paired(read["candidates"][t])}
Awaiting == {t \in DOMAIN read["candidates"] :
               /\ ~Paired(read["candidates"][t])
               /\ Exclusion(read["candidates"][t]) = "awaiting_system_result"}

(* tradeRuleAdherence and classifyTrade: the class of a trade with the     *)
(* required checks K; the rule model counts trades it has checks of, the   *)
(* pillar calls the others unrecorded.                                     *)
Classification(K) ==
  IF K = {} THEN "unrecorded"
  ELSE IF "not_checked" \in K THEN "incomplete"
  ELSE IF K \subseteq {"not_applicable"} THEN "not_applicable"
  ELSE IF "violated" \in K THEN "non_compliant" ELSE "compliant"

ClassOf(t) == IF t \in DOMAIN read["checks"] THEN Classification(read["checks"][t]) ELSE "unrecorded"

RuleModel == {t \in DOMAIN read["checks"] : Classification(read["checks"][t]) # "unrecorded"}

Unrecorded == {t \in DOMAIN read["actual"] : ClassOf(t) = "unrecorded"}

(* validateInput answers orphan_dimension_record. *)
Orphan == ~(DOMAIN read["checks"] \cup read["tags"] \subseteq DOMAIN read["actual"])

Admits(g, t, row) == InAccount(t, g) /\ InMode(page.mode, row, g.range)

(* The square of the selected day. *)
Square == {t \in DOMAIN read["month"] : Day(Axis(page.mode, read["month"][t])) = page.date}

(* The comment on selectComparisonCandidateRecords: a pair is always in   *)
(* range by the trader's exit.  Unless a trade was written, the card of    *)
(* the pairs and of those awaiting a system result shows exactly the       *)
(* trades of the trader's card, and those of the system's card but for the *)
(* pairs that the trader closed outside the range.                         *)
DashboardAgrees ==
  page.kind = "dashboard" =>
    LET C == read["candidates"]
    IN /\ \A t \in Pairs : Between(scope.range, C[t].actual.at)
       /\ \A t \in DOMAIN C : Exclusion(C[t]) # "incomplete_record"
       /\ Unwritten =>
            /\ DOMAIN read["trader"] = Pairs \cup Awaiting
            /\ \A t \in DOMAIN read["trader"] : read["trader"][t] = C[t]
            /\ \A t \in DOMAIN C : Resolved(C[t], scope.range) => t \in DOMAIN read["system"]
            /\ \A t \in DOMAIN read["system"] :
                 \/ t \in DOMAIN C /\ read["system"][t] = C[t]
                 \/ /\ Paired(read["system"][t])
                    /\ ~Between(scope.range, read["system"][t].actual.at)

(* The insights refuse records of a trade they do not show, which happens  *)
(* only if a trade was written; otherwise the classes of the discipline    *)
(* pillar, counted by two functions, divide the eligible trades.           *)
InsightsAgree ==
  page.kind = "insights" =>
    /\ Orphan => ~Unwritten
    /\ ~Orphan => /\ RuleModel \cup Unrecorded = DOMAIN read["actual"]
                  /\ RuleModel \cap Unrecorded = {}

(* Unless a trade was written, the panel of a day lists the trades of its  *)
(* square as far as the filters admit them both times; and all of them, if *)
(* the filters admit the same both times.                                  *)
DayAgrees ==
  page.kind = "day" /\ Unwritten =>
    LET kept   == {t \in Square : Admits(again, t, read["month"][t])}
        listed == {t \in DOMAIN read["rows"] : Admits(scope, t, read["rows"][t])}
    IN /\ kept = listed
       /\ \A t \in kept : read["rows"][t] = read["month"][t]
       /\ Untorn => kept = Square /\ listed = DOMAIN read["rows"]

(* The statements of a page agree, whatever was committed while it was     *)
(* read: exactly where they need no common snapshot, and as far as neither *)
(* a trade nor what the filters admit has changed where they do.           *)
PagesAgree == Complete => DashboardAgrees /\ InsightsAgree /\ DayAgrees
=============================================================================
