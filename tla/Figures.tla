------------------------------- MODULE Figures -------------------------------
(***************************************************************************)
(* What a page computes from the rows it has read, after src/src/lib/calc, *)
(* src/src/lib/analytics/metrics.ts and src/src/lib/dashboard, beside what *)
(* the figures mean.  An R is an integer here: the code adds and compares  *)
(* decimals exactly, and rounds only what is displayed.                    *)
(***************************************************************************)
EXTENDS Analytics, SequencesExt

CONSTANT Starting   \* the declared starting balance of the account

ASSUME FiguresAssumption == Starting \in Nat /\ Trades \subseteq Int /\ IsFiniteSet(Trades)

(* Results r and times at are functions on the trades of S. *)
Total(S, r) == SumFunctionOnSet(r, S)

(* By the time of an axis, then by id. *)
Precedes(at, t, u) == at[t] < at[u] \/ (at[t] = at[u] /\ t < u)

Chronological(S, at) ==
  CHOOSE s \in [1..Cardinality(S) -> S] : \A i, j \in DOMAIN s : i < j => Precedes(at, s[i], s[j])

(* buildRawSequence: one point per trade, the running total. *)
RunningTotals(S, at, r) ==
  FoldLeft(LAMBDA points, t : Append(points, r[t] + IF points = << >> THEN 0 ELSE Last(points)),
           << >>, Chronological(S, at))

(* maximumDrawdownR: the peak starts at zero. *)
Drawdown(points) ==
  FoldLeft(LAMBDA d, p : LET peak == IF p > d.peak THEN p ELSE d.peak
                         IN [peak |-> peak, worst |-> IF peak - p > d.worst THEN peak - p ELSE d.worst],
           [peak |-> 0, worst |-> 0], points).worst

(* The totals by day, and their running totals in the order of the days. *)
DailyTotals(S, at, r) ==
  [d \in {Day(at[t]) : t \in S} |-> Total({t \in S : Day(at[t]) = d}, r)]

DailySeries(S, at, r) ==
  LET daily == DailyTotals(S, at, r)
  IN RunningTotals(DOMAIN daily, [d \in DOMAIN daily |-> d], daily)

(* What rows tell of the trades S among them. *)
ActualR(rows, S)    == [t \in S |-> rows[t].actual.r]
ActualExit(rows, S) == [t \in S |-> rows[t].actual.at]
SystemR(rows, S)    == [t \in S |-> rows[t].verdict.r]
SystemExit(rows, S) == [t \in S |-> rows[t].verdict.at]
GapR(rows, S)       == [t \in S |-> rows[t].actual.r - rows[t].verdict.r]

-----------------------------------------------------------------------------
(* The comparison of trader and system: one card, three orders. *)

Traded == DOMAIN read["trader"]

PairsTrader == ActualR(read["candidates"], Pairs)
PairsSystem == SystemR(read["candidates"], Pairs)
PairsGap    == GapR(read["candidates"], Pairs)
PairsExit   == ActualExit(read["candidates"], Pairs)

(* composePerformanceAxis, of the trader and of the pairs *)
TraderAxis == RunningTotals(Traded, ActualExit(read["trader"], Traded), ActualR(read["trader"], Traded))
PairedSystemAxis == RunningTotals(Pairs, SystemExit(read["candidates"], Pairs), PairsSystem)

(* composeExecutionComparison: every series by the exit of the trader *)
TradeSeries(r) == RunningTotals(Pairs, PairsExit, r)
PairedDays(r) == DailySeries(Pairs, PairsExit, r)

EndsAt(points, total) == IF points = << >> THEN total = 0 ELSE Last(points) = total

(* What is lost between two moments of the axis, the first before all trades. *)
DeepestFall(S, at, r) ==
  LET After(t) == Total({u \in S : at[u] < at[t] \/ (at[u] = at[t] /\ u <= t)}, r)
      Follows(t, u) == at[t] < at[u] \/ (at[t] = at[u] /\ t <= u)
  IN Max({0} \cup {-After(t) : t \in S}
             \cup {After(p[1]) - After(p[2]) : p \in {q \in S \X S : Follows(q[1], q[2])}})

ComparisonAddsUp ==
  page.kind = "dashboard" =>
    LET traderR == ActualR(read["trader"], Traded)
        actual  == Total(Pairs, PairsTrader)
        system  == Total(Pairs, PairsSystem)
    IN /\ Drawdown(TraderAxis) = DeepestFall(Traded, ActualExit(read["trader"], Traded), traderR)
       /\ Unwritten => Total(Traded, traderR)
                         = actual + Total(Awaiting, ActualR(read["candidates"], Awaiting))
       /\ EndsAt(TradeSeries(PairsTrader), actual) /\ EndsAt(PairedDays(PairsTrader), actual)
       /\ EndsAt(TradeSeries(PairsSystem), system) /\ EndsAt(PairedDays(PairsSystem), system)
       /\ EndsAt(PairedSystemAxis, system)
       /\ EndsAt(PairedDays(PairsGap), actual - system)

-----------------------------------------------------------------------------
(* The review of a day: the headline is the square of the month, the rows  *)
(* are read after it.                                                      *)

(* composeCalendarPerformanceMonth and composeCalendarGapMonth: the square. *)
PerformanceSquare ==
  [count |-> Cardinality(Square),
   total |-> Total(Square, IF page.mode = "actual" THEN ActualR(read["month"], Square)
                                                   ELSE SystemR(read["month"], Square))]

GapSquare ==
  LET gap == GapR(read["month"], Square)
  IN [count  |-> Cardinality(Square),
      system |-> Total(Square, SystemR(read["month"], Square)),
      actual |-> Total(Square, ActualR(read["month"], Square)),
      gap    |-> Total(Square, gap),
      under  |-> Cardinality({t \in Square : gap[t] < 0}),
      match  |-> Cardinality({t \in Square : gap[t] = 0}),
      over   |-> Cardinality({t \in Square : gap[t] > 0})]

(* composeDayReview: neither the square nor the list is empty. *)
Reviewed == Square # {} /\ DOMAIN read["rows"] # {}

(* reconcileDayReview *)
Reconciles ==
  LET listed == DOMAIN read["rows"]
      actual == Total(listed, ActualR(read["rows"], listed))
      system == Total(listed, SystemR(read["rows"], listed))
  IN CASE page.mode = "gap" ->
            /\ Cardinality(listed) = GapSquare.count
            /\ system = GapSquare.system /\ actual = GapSquare.actual
            /\ actual - system = GapSquare.gap
       [] page.mode = "actual" ->
            Cardinality(listed) = PerformanceSquare.count /\ actual = PerformanceSquare.total
       [] page.mode = "system" ->
            Cardinality(listed) = PerformanceSquare.count /\ system = PerformanceSquare.total

(* The comment on composeDayReview, that a panel cannot disagree with its  *)
(* square, holds as long as no trade was written and the filters admit     *)
(* both times the same.                                                    *)
ReviewAddsUp ==
  page.kind = "day" /\ Untorn =>
    IF Reviewed
    THEN /\ Reconciles
         /\ page.mode = "gap" => GapSquare.under + GapSquare.match + GapSquare.over = GapSquare.count
    ELSE Square = {} /\ DOMAIN read["rows"] = {}

-----------------------------------------------------------------------------
(* The modeled balance of an account. *)

ClosedAt(t) == read["history"][t].actual.at
Net(t)      == read["history"][t].actual.net
NetOf(S)    == Total(S, [t \in S |-> Net(t)])

(* resolveVisibleRange *)
VisibleFrom(range) == IF range = Null THEN 0 ELSE range.from
VisibleTo(range)   == IF range = Null \/ range.to > Now THEN Now ELSE range.to
VisibleFails(range) == range # Null /\ (range.from >= range.to \/ VisibleTo(range) < range.from)

Horizon == {t \in DOMAIN read["history"] : ClosedAt(t) < VisibleTo(scope.range)}

(* groupRealizations: what closes at one moment is one point. *)
Realized(at) == NetOf({t \in Horizon : ClosedAt(t) = at})

Moments(S) == LET times == {ClosedAt(t) : t \in S} IN Chronological(times, [at \in times |-> at])

(* Mutant: the peak is that of the visible range. *)
OpeningForgetsPeak(before) ==
  [balance |-> Starting + NetOf(before), peak |-> Starting + NetOf(before)]

(* The balance and its peak before the range. *)
Opening(before) ==
  FoldLeft(LAMBDA b, at : LET balance == b.balance + Realized(at)
                          IN [balance |-> balance, peak |-> IF balance > b.peak THEN balance ELSE b.peak],
           [balance |-> Starting, peak |-> Starting], Moments(before))

(* composeRiskPerformance *)
Modeled ==
  IF scope.account = "all" THEN [status |-> "unavailable"]
  ELSE IF VisibleFails(scope.range) THEN [status |-> "integrity_error"]
  ELSE IF \E t \in Horizon : Net(t) = Null THEN [status |-> "unavailable"]
  ELSE LET before  == {t \in Horizon : ClosedAt(t) < VisibleFrom(scope.range)}
           opening == Opening(before)
           ending  ==
             FoldLeft(LAMBDA b, at :
                        LET balance == b.balance + Realized(at)
                            peak    == IF balance > b.peak THEN balance ELSE b.peak
                        IN [balance |-> balance, peak |-> peak,
                            worst |-> IF peak - balance > b.worst THEN peak - balance ELSE b.worst],
                      [balance |-> opening.balance, peak |-> opening.peak,
                       worst |-> opening.peak - opening.balance],
                      Moments(Horizon \ before))
       IN [status |-> "available", opening |-> opening.balance, ending |-> ending.balance,
           peak |-> ending.peak, worst |-> ending.worst]

(* A balance is that of one account, and shown only if all of the horizon  *)
(* is known in money.  Then it is the balance at each moment, and its      *)
(* maximum drawdown is the deepest that it stands in the range below any   *)
(* earlier peak, before the range too.                                     *)
BalanceAddsUp ==
  page.kind = "balance" /\ scope.account # "all" /\ ~VisibleFails(scope.range) =>
    LET At(time) == Starting + NetOf({t \in Horizon : ClosedAt(t) <= time})
        start    == VisibleFrom(scope.range) - 1
        times    == {-1, start} \cup {ClosedAt(t) : t \in Horizon}
    IN IF \E t \in Horizon : Net(t) = Null
       THEN Modeled.status = "unavailable"
       ELSE /\ Modeled.status = "available"
            /\ Modeled.opening = At(start)
            /\ Modeled.ending = At(VisibleTo(scope.range))
            /\ Modeled.peak = Max({At(time) : time \in times})
            /\ Modeled.worst = Max({At(p[1]) - At(p[2]) :
                                      p \in {q \in times \X times : q[1] <= q[2] /\ q[2] >= start}})

(* The figures of a page add up: its series end at the totals of its cards *)
(* in whichever order they are taken, its drawdowns are the deepest falls, *)
(* its balances follow from the results, and unless the page is torn its   *)
(* cards, squares and lists account for the same trades.                   *)
FiguresAddUp == Complete => ComparisonAddsUp /\ ReviewAddsUp /\ BalanceAddsUp
=============================================================================
