---------------------------- MODULE TradesProofs ----------------------------
(***************************************************************************)
(* Proofs about Trades, for any number of trades, prices and exits.        *)
(*                                                                         *)
(* TradeStep says what any call may do to its trade; each call is shown to *)
(* be such a step, and the invariants and action properties follow from    *)
(* TradeStep alone, whatever the sum of the exits, ClosedBps, may be.      *)
(* What the tables accept of a trade depends on that sum: the last part    *)
(* takes what it computes from Sums, and goes over the calls once more.    *)
(***************************************************************************)
EXTENDS Trades, Sums, TLAPS

(* The shape of the tables: what an update of a field relies on, and that  *)
(* a trade that does not exist has no exits.                               *)
RowInv(t) ==
  /\ DOMAIN row[t] = DOMAIN NoRow
  /\ DOMAIN row[t].plan = DOMAIN NoPlan
  /\ DOMAIN row[t].system = DOMAIN Pending
  /\ row[t].status = "none" => row[t] = NoRow /\ exits[t] = <<>>
  /\ exits[t] \in Seq(Range(exits[t]))

RowsInv ==
  /\ DOMAIN row = Trades
  /\ DOMAIN exits = Trades
  /\ \A t \in Trades : RowInv(t)

(* A step of a trade leaves the others alone. *)
OnlyChanges(t) ==
  /\ DOMAIN row' = Trades
  /\ DOMAIN exits' = Trades
  /\ \A u \in Trades \ {t} : row'[u] = row[u] /\ exits'[u] = exits[u]

(* A sequence is one of its own elements. *)
LEMMA SeqOfRange ==
  ASSUME NEW S, NEW a \in Seq(S)
  PROVE  a \in Seq(Range(a))
<1>1. Len(a) \in Nat /\ DOMAIN a = 1..Len(a) /\ a = [i \in 1..Len(a) |-> a[i]]
  OBVIOUS
<1>2. \A i \in DOMAIN a : a[i] \in Range(a)
  BY DEF Range
<1> QED BY <1>1, <1>2

-----------------------------------------------------------------------------
(* What each call does to the row and to the exits of its trade. *)

(* createTrade. *)
LEMMA CreateEffect ==
  ASSUME RowsInv, NEW t \in Trades, CreateTrade(t)
  PROVE  /\ OnlyChanges(t)
         /\ row[t].status = "none" /\ exits'[t] = exits[t]
         /\ \E direction \in Directions : \E p \in NewPlans(direction),
                x \in Executions(direction) \cup {NoExecution} :
               row'[t] = NewRow(direction, p, x)
BY DEF RowsInv, CreateTrade, OnlyChanges

(* A result of the system as a form or a call states it. *)
LEMMA SystemIsCurrent ==
  ASSUME NEW r, r.plannedR = PlannedR(r.plan),
         r.system \in {Pending, NoTrade} \/ \E q : r.system = Resolved(r.plan, q)
  PROVE  ResultsCurrent(r)
<1>1. CASE r.system \in {Pending, NoTrade}
  BY <1>1 DEF ResultsCurrent, Pending, NoTrade
<1>2. ASSUME NEW q, r.system = Resolved(r.plan, q)
      PROVE  ResultsCurrent(r)
  <2>1. /\ r.system.kind = q.kind /\ r.system.cost = q.cost
        /\ r.system.r = <<SystemGrossR(r.plan, q.kind, q.input), q.cost>>
        /\ q.kind = "price_exit" => r.system.input = q.input
        /\ q.kind # "price_exit" => r.system.gross = SystemGrossR(r.plan, q.kind, q.input)
    BY <1>2 DEF Resolved
  <2>2. q.kind = "price_exit" => SystemGrossR(r.plan, q.kind, q.input) = PriceR(r.plan, q.input)
    BY DEF SystemGrossR
  <2>3. q.kind = "money_target" => SystemGrossR(r.plan, q.kind, q.input) = MoneyR(r.plan)
    BY DEF SystemGrossR
  <2> QED BY <2>1, <2>2, <2>3 DEF ResultsCurrent
<1> QED BY <1>1, <1>2

Completes(t, direction, p, x, s) ==
  /\ exits'[t] \in Seq({e \in Exit : ShapeFits(x, e) /\ NotBefore(x, e)})
  /\ Realizes(direction, x, exits'[t])
  /\ ClosedBps(exits'[t]) = Whole
  /\ row'[t] = [NewRow(direction, p, x) EXCEPT
                  !.status = "closed", !.actual = Actual(x, exits'[t]), !.system = s]

(* createCompletedTrade: the row is closed by the exits it comes with. *)
LEMMA CompletedEffect ==
  ASSUME RowsInv, NEW t \in Trades, CreateCompletedTrade(t)
  PROVE  /\ OnlyChanges(t)
         /\ row[t].status = "none"
         /\ \A i \in DOMAIN exits'[t] : exits'[t][i].key = Null
         /\ exits'[t] \in Seq(Range(exits'[t]))
         /\ \E direction \in Directions : \E p \in NewPlans(direction), x \in Executions(direction) :
              \E s \in SystemResults(direction, p) : Completes(t, direction, p, x, s)
<1>1. PICK direction \in Directions :
         \E p \in NewPlans(direction), x \in Executions(direction), n \in 1..Whole :
         \E inputs \in [1..n -> {e \in ExitInput : ShapeFits(x, e) /\ NotBefore(x, e)}],
            s \in SystemResults(direction, p) :
           LET legs == [i \in 1..n |-> Keyed(Null, inputs[i])] IN
           /\ Realizes(direction, x, legs)
           /\ ClosedBps(legs) = Whole
           /\ exits' = [exits EXCEPT ![t] = legs]
           /\ row' = [row EXCEPT ![t] = CompletedRow(direction, p, x, legs, s)]
  BY DEF CreateCompletedTrade
<1>2. PICK p \in NewPlans(direction), x \in Executions(direction), n \in 1..Whole :
         \E inputs \in [1..n -> {e \in ExitInput : ShapeFits(x, e) /\ NotBefore(x, e)}],
            s \in SystemResults(direction, p) :
           LET legs == [i \in 1..n |-> Keyed(Null, inputs[i])] IN
           /\ Realizes(direction, x, legs)
           /\ ClosedBps(legs) = Whole
           /\ exits' = [exits EXCEPT ![t] = legs]
           /\ row' = [row EXCEPT ![t] = CompletedRow(direction, p, x, legs, s)]
  BY <1>1
<1>3. PICK inputs \in [1..n -> {e \in ExitInput : ShapeFits(x, e) /\ NotBefore(x, e)}],
           s \in SystemResults(direction, p) :
           LET legs == [i \in 1..n |-> Keyed(Null, inputs[i])] IN
           /\ Realizes(direction, x, legs)
           /\ ClosedBps(legs) = Whole
           /\ exits' = [exits EXCEPT ![t] = legs]
           /\ row' = [row EXCEPT ![t] = CompletedRow(direction, p, x, legs, s)]
  BY <1>2
<1> DEFINE legs == [i \in 1..n |-> Keyed(Null, inputs[i])]
           new == NewRow(direction, p, x)
<1>4. /\ \A i \in DOMAIN legs : legs[i].key = Null
      /\ DOMAIN legs = 1..n
      /\ legs = [i \in 1..n |-> legs[i]]
  BY DEF Keyed
<1>5. /\ new.direction = direction /\ new.execution = x
      /\ legs \in Seq({e \in Exit : ShapeFits(x, e) /\ NotBefore(x, e)})
  <2>1. \A i \in 1..n : legs[i] \in {e \in Exit : ShapeFits(x, e) /\ NotBefore(x, e)}
    BY DEF Keyed, Exit, ExitInput, ShapeFits, NotBefore, OrNull
  <2> HIDE DEF legs
  <2>2. new.direction = direction /\ new.execution = x
    BY DEF NewRow
  <2> QED BY <1>4, <2>1, <2>2
<1>6. /\ Realizes(direction, x, legs) /\ ClosedBps(legs) = Whole
      /\ exits' = [exits EXCEPT ![t] = legs]
      /\ row' = [row EXCEPT ![t] = CompletedRow(direction, p, x, legs, s)]
  BY <1>3
<1> HIDE DEF new, legs
<1>7. exits'[t] = legs /\ row'[t] = CompletedRow(direction, p, x, legs, s) /\ OnlyChanges(t)
  BY <1>6 DEF RowsInv, OnlyChanges
<1>8. PersistAggregate(new, legs) = [new EXCEPT !.status = "closed", !.actual = Actual(x, legs)]
  BY <1>5, <1>6 DEF PersistAggregate
<1>9. row'[t] = [new EXCEPT !.status = "closed", !.actual = Actual(x, legs), !.system = s]
  BY <1>7, <1>8 DEF CompletedRow, new
<1>10. row[t].status = "none"
  BY DEF CreateCompletedTrade
<1>11. Completes(t, direction, p, x, s)
  BY <1>5, <1>6, <1>7, <1>9, Zenon DEF new, Completes
<1>12. \A i \in DOMAIN exits'[t] : exits'[t][i].key = Null
  BY <1>4, <1>7
<1>13. legs \in Seq(Range(legs))
  <2>1. legs \in Seq({legs[i] : i \in 1..n})
    BY <1>4
  <2> QED BY <2>1, SeqOfRange
<1> QED
  BY <1>7, <1>10, <1>11, <1>12, <1>13, Zenon

(* An edit of the plan or of the direction moves no status and keeps the   *)
(* results of the plan and of the system those of the plan.                *)
Replans(t) ==
  /\ Live(t) /\ exits'[t] = exits[t]
  /\ DOMAIN row'[t] = DOMAIN NoRow
  /\ DOMAIN row'[t].plan = DOMAIN NoPlan
  /\ DOMAIN row'[t].system = DOMAIN Pending
  /\ row'[t].status = row[t].status
  /\ row'[t].deleted = row[t].deleted
  /\ row'[t].execution = row[t].execution
  /\ row'[t].actual = row[t].actual
  /\ row'[t].system.status = row[t].system.status
  /\ row[t].system.status # "resolved" => row'[t].system.r = row[t].system.r
  /\ ResultsCurrent(row[t]) => ResultsCurrent(row'[t])
  /\ Realizes(row[t].direction, row[t].execution, exits[t]) =>
       Realizes(row'[t].direction, row[t].execution, exits[t])

(* A system result that follows the plan changes in r and gross alone. *)
LEMMA SystemFollows ==
  ASSUME NEW s, NEW p, DOMAIN s = DOMAIN Pending
  PROVE  /\ DOMAIN Repriced(s, p) = DOMAIN Pending
         /\ DOMAIN Retargeted(s, p) = DOMAIN Pending
         /\ \A f \in {"status", "kind", "input", "cost"} :
              Repriced(s, p)[f] = s[f] /\ Retargeted(s, p)[f] = s[f]
         /\ Repriced(s, p).gross = s.gross
         /\ IF s.status = "resolved" /\ s.kind = "price_exit"
            THEN Repriced(s, p).r = <<PriceR(p, s.input), s.cost>>
            ELSE Repriced(s, p).r = s.r
         /\ IF s.status = "resolved" /\ s.kind = "money_target"
            THEN Retargeted(s, p).r = <<MoneyR(p), s.cost>> /\ Retargeted(s, p).gross = MoneyR(p)
            ELSE Retargeted(s, p).r = s.r /\ Retargeted(s, p).gross = s.gross
BY DEF Repriced, Retargeted, Pending

(* updateTradePlan: the plan p is written to the row r, where it touches   *)
(* the plan or moves its prices the results follow.                        *)
Touches(r, p) == p # [r.plan EXCEPT !.size = p.size]
Shifts(r, p)  == p.entry # r.plan.entry \/ p.stop # r.plan.stop

Followed(r, p) ==
  IF ~Touches(r, p) THEN r.system
  ELSE IF Shifts(r, p) THEN Retargeted(Repriced(r.system, p), p)
  ELSE Retargeted(r.system, p)

MayReplan(r, p) ==
  /\ HasPricePlan(p) \/ HasMoneyPlan(p)
  /\ PlanComposes(r.direction, p)
  /\ r.system.status = "resolved" =>
       IF r.system.kind = "price_exit" THEN Shifts(r, p) => HasPricePlan(p)
       ELSE ~HasPricePlan(p) /\ (r.system.kind = "money_target" => p.reward # Null)

LEMMA UpdateRow ==
  ASSUME RowsInv, NEW t \in Trades, UpdateTradePlan(t)
  PROVE  /\ OnlyChanges(t) /\ Live(t) /\ exits'[t] = exits[t]
         /\ \E p \in Plan :
              /\ ~Dual(p)
              /\ Touches(row[t], p) => MayReplan(row[t], p)
              /\ DOMAIN row'[t] = DOMAIN NoRow
              /\ row'[t].plan = p /\ row'[t].system = Followed(row[t], p)
              /\ row'[t].plannedR = IF Touches(row[t], p) THEN PlannedR(p) ELSE row[t].plannedR
              /\ \A f \in {"status", "deleted", "direction", "execution", "actual"} :
                   row'[t][f] = row[t][f]
<1> DEFINE r == row[t]
<1>1. PICK p \in Plan :
        /\ ~Dual(p)
        /\ Touches(r, p) => MayReplan(r, p)
        /\ row' = [row EXCEPT ![t].plan = p,
                              ![t].plannedR = IF Touches(r, p) THEN PlannedR(p) ELSE @,
                              ![t].system = IF ~Touches(r, p) THEN @
                                            ELSE IF Shifts(r, p) THEN Retargeted(Repriced(@, p), p)
                                            ELSE Retargeted(@, p)]
  BY DEF UpdateTradePlan, Touches, Shifts, MayReplan
<1>2. row'[t] = [r EXCEPT !.plan = p,
                          !.plannedR = IF Touches(r, p) THEN PlannedR(p) ELSE r.plannedR,
                          !.system = Followed(r, p)]
  BY <1>1 DEF RowsInv, RowInv, NoRow, Followed
<1>3. exits' = exits /\ Live(t)
  BY DEF UpdateTradePlan
<1>4. OnlyChanges(t)
  BY <1>1, <1>3 DEF RowsInv, RowInv, OnlyChanges
<1>5. DOMAIN r = DOMAIN NoRow
  BY DEF RowsInv, RowInv
<1>6. /\ DOMAIN row'[t] = DOMAIN NoRow
      /\ row'[t].plan = p /\ row'[t].system = Followed(r, p)
      /\ row'[t].plannedR = IF Touches(r, p) THEN PlannedR(p) ELSE r.plannedR
      /\ \A f \in {"status", "deleted", "direction", "execution", "actual"} : row'[t][f] = r[f]
  <2> HIDE DEF r
  <2> QED BY <1>2, <1>5 DEF NoRow
<1> QED BY <1>1, <1>3, <1>4, <1>6

LEMMA UpdateEffect ==
  ASSUME RowsInv, NEW t \in Trades, UpdateTradePlan(t)
  PROVE  OnlyChanges(t) /\ Replans(t)
<1> DEFINE r == row[t]
<1>1. PICK p \in Plan :
        /\ DOMAIN row'[t] = DOMAIN NoRow
        /\ row'[t].plan = p /\ row'[t].system = Followed(r, p)
        /\ row'[t].plannedR = IF Touches(r, p) THEN PlannedR(p) ELSE r.plannedR
        /\ \A f \in {"status", "deleted", "direction", "execution", "actual"} : row'[t][f] = r[f]
  BY UpdateRow
<1>2. OnlyChanges(t) /\ Live(t) /\ exits'[t] = exits[t]
  BY UpdateRow
<1>3. DOMAIN r.plan = DOMAIN NoPlan /\ DOMAIN r.system = DOMAIN Pending
  BY DEF RowsInv, RowInv
<1>4. DOMAIN p = DOMAIN NoPlan
  BY DEF Plan, NoPlan
<1> DEFINE system == Followed(r, p)
<1>5. /\ DOMAIN system = DOMAIN Pending
      /\ \A f \in {"status", "kind", "input", "cost"} : system[f] = r.system[f]
      /\ r.system.status # "resolved" => system.r = r.system.r
  BY <1>3, SystemFollows DEF Followed
<1>6. ~Touches(r, p) => /\ PlannedR(p) = PlannedR(r.plan) /\ MoneyR(p) = MoneyR(r.plan)
                        /\ \A input : PriceR(p, input) = PriceR(r.plan, input)
  BY <1>3 DEF NoPlan, PlannedR, MoneyR, PriceR, HasPricePlan, Touches
<1>7. ~Shifts(r, p) => \A input : PriceR(p, input) = PriceR(r.plan, input)
  BY DEF PriceR, Shifts
<1>8. ASSUME ResultsCurrent(r) PROVE ResultsCurrent(row'[t])
  <2>1. row'[t].plannedR = PlannedR(p)
    BY <1>1, <1>6, <1>8 DEF ResultsCurrent
  <2>2. ASSUME r.system.status = "resolved"
        PROVE  system.r = <<IF r.system.kind = "price_exit" THEN PriceR(p, r.system.input)
                            ELSE IF r.system.kind = "money_target" THEN MoneyR(p)
                            ELSE system.gross, r.system.cost>>
    BY <2>2, <1>3, <1>6, <1>7, <1>8, SystemFollows DEF ResultsCurrent, Followed
  <2> QED BY <2>1, <2>2, <1>1, <1>5 DEF ResultsCurrent
<1> QED BY <1>1, <1>2, <1>4, <1>5, <1>8 DEF Replans

(* correctTradeIdentity: the entry and stop of the plan may change with    *)
(* the direction.                                                          *)
MayTurn(r, direction, p) ==
  /\ ~Dual(p)
  /\ PlanComposes(direction, p)
  /\ r.system.status = "resolved" =>
       IF r.system.kind = "price_exit" THEN HasPricePlan(p)
       ELSE p.entry = Null /\ p.stop = Null
  /\ r.execution.entry # Null => RiskContext(direction, r.execution.entry, r.execution.stop)

LEMMA IdentityRow ==
  ASSUME RowsInv, NEW t \in Trades, CorrectTradeIdentity(t)
  PROVE  /\ OnlyChanges(t) /\ Live(t) /\ exits'[t] = exits[t]
         /\ \E direction \in Directions, entry \in PlanPrices \cup {row[t].plan.entry},
               stop \in PlanPrices \cup {row[t].plan.stop} :
              LET p == [row[t].plan EXCEPT !.entry = entry, !.stop = stop]
              IN /\ MayTurn(row[t], direction, p)
                 /\ DOMAIN row'[t] = DOMAIN NoRow
                 /\ row'[t].direction = direction
                 /\ row'[t].plan = p /\ row'[t].system = Repriced(row[t].system, p)
                 /\ row'[t].plannedR = PlannedR(p)
                 /\ \A f \in {"status", "deleted", "execution", "actual"} : row'[t][f] = row[t][f]
<1>1. PICK direction \in Directions, entry \in PlanPrices \cup {row[t].plan.entry},
           stop \in PlanPrices \cup {row[t].plan.stop} :
       LET r == row[t]
           p == [r.plan EXCEPT !.entry = entry, !.stop = stop]
       IN /\ ~Dual(p)
          /\ PlanComposes(direction, p)
          /\ r.system.status = "resolved" =>
               IF r.system.kind = "price_exit" THEN HasPricePlan(p)
               ELSE p.entry = Null /\ p.stop = Null
          /\ r.execution.entry # Null =>
               RiskContext(direction, r.execution.entry, r.execution.stop)
          /\ row' = [row EXCEPT ![t].direction = direction, ![t].plan = p,
                                ![t].plannedR = PlannedR(p),
                                ![t].system = Repriced(@, p)]
  BY Zenon DEF CorrectTradeIdentity
<1> DEFINE r == row[t]
           p == [r.plan EXCEPT !.entry = entry, !.stop = stop]
           system == Repriced(r.system, p)
<1>2. exits' = exits /\ Live(t)
  BY DEF CorrectTradeIdentity
<1>3. DOMAIN r = DOMAIN NoRow
  BY DEF RowsInv, RowInv
<1>4. row'[t] = [r EXCEPT !.direction = direction, !.plan = p, !.plannedR = PlannedR(p),
                          !.system = system]
  BY <1>1 DEF RowsInv, RowInv, NoRow
<1>5. OnlyChanges(t)
  BY <1>1, <1>2 DEF RowsInv, RowInv, OnlyChanges
<1>6. /\ DOMAIN row'[t] = DOMAIN NoRow
      /\ row'[t].plan = p /\ row'[t].system = system
      /\ row'[t].plannedR = PlannedR(p) /\ row'[t].direction = direction
      /\ \A f \in {"status", "deleted", "execution", "actual"} : row'[t][f] = r[f]
  <2> HIDE DEF p, system, r
  <2> QED BY <1>3, <1>4 DEF NoRow
<1>7. MayTurn(r, direction, p)
  BY <1>1 DEF MayTurn
<1> HIDE DEF MayTurn
<1> QED BY <1>2, <1>5, <1>6, <1>7

LEMMA IdentityEffect ==
  ASSUME RowsInv, NEW t \in Trades, CorrectTradeIdentity(t)
  PROVE  OnlyChanges(t) /\ Replans(t)
<1>1. PICK direction \in Directions, entry \in PlanPrices \cup {row[t].plan.entry},
           stop \in PlanPrices \cup {row[t].plan.stop} :
        LET p == [row[t].plan EXCEPT !.entry = entry, !.stop = stop]
        IN /\ MayTurn(row[t], direction, p)
           /\ DOMAIN row'[t] = DOMAIN NoRow
           /\ row'[t].direction = direction
           /\ row'[t].plan = p /\ row'[t].system = Repriced(row[t].system, p)
           /\ row'[t].plannedR = PlannedR(p)
           /\ \A f \in {"status", "deleted", "execution", "actual"} : row'[t][f] = row[t][f]
  BY IdentityRow
<1> DEFINE r == row[t]
           p == [r.plan EXCEPT !.entry = entry, !.stop = stop]
           system == Repriced(r.system, p)
<1>2. OnlyChanges(t) /\ Live(t) /\ exits'[t] = exits[t]
  BY IdentityRow
<1>3. DOMAIN r.plan = DOMAIN NoPlan /\ DOMAIN r.system = DOMAIN Pending
  BY DEF RowsInv, RowInv
<1>4. DOMAIN p = DOMAIN NoPlan /\ MoneyR(p) = MoneyR(r.plan)
  BY <1>3 DEF NoPlan, MoneyR
<1>5. /\ DOMAIN system = DOMAIN Pending
      /\ \A f \in {"status", "kind", "input", "cost"} : system[f] = r.system[f]
      /\ r.system.status # "resolved" => system.r = r.system.r
  BY <1>3, SystemFollows
<1>6. ASSUME ResultsCurrent(r) PROVE ResultsCurrent(row'[t])
  <2> HIDE DEF p
  <2>1. ASSUME r.system.status = "resolved"
        PROVE  system.r = <<IF r.system.kind = "price_exit" THEN PriceR(p, r.system.input)
                            ELSE IF r.system.kind = "money_target" THEN MoneyR(p)
                            ELSE system.gross, r.system.cost>>
    BY <2>1, <1>3, <1>4, <1>6, SystemFollows DEF ResultsCurrent
  <2> QED BY <2>1, <1>1, <1>5 DEF ResultsCurrent, p
<1>7. Realizes(r.direction, r.execution, exits[t]) => Realizes(direction, r.execution, exits[t])
  BY <1>1 DEF MayTurn, Realizes, RiskContext
<1> QED BY <1>1, <1>2, <1>4, <1>5, <1>6, <1>7 DEF Replans

-----------------------------------------------------------------------------
(* What any call may do to a trade, the facts that the properties need.    *)

(* A closed trade shows the result that its exits give. *)
ClosedInv(t) ==
  row[t].status = "closed" =>
    /\ Realizes(row[t].direction, row[t].execution, exits[t])
    /\ row[t].actual = Actual(row[t].execution, exits[t])

Forward(r, s) ==
  /\ \/ s.status = r.status
     \/ r.status = "none" /\ s.status \in {"planned", "open", "closed"}
     \/ r.status = "planned" /\ s.status \in {"open", "canceled"}
     \/ r.status = "open" /\ s.status = "closed"
  /\ r.system.status # "pending" => s.system.status # "pending"

(* A trade has a result while it is closed and a verdict while the system  *)
(* is resolved; a trade that is deleted keeps both.                        *)
Shaped(r) ==
  /\ r.status # "closed" => r.actual = Null
  /\ r.system.status # "resolved" => r.system.r = Null

Noted(t) ==
  /\ Shaped(row[t]) => Shaped(row'[t])
  /\ row'[t].deleted =>
       /\ row[t].status # "none" /\ row'[t].deleted = TRUE
       /\ \A f \in {"status", "actual", "system"} : row'[t][f] = row[t][f]

(* Exits keep their place and key, and a new key is a key of its own. *)
Kept(t) ==
  \A i \in DOMAIN exits[t] : i \in DOMAIN exits'[t] /\ exits'[t][i].key = exits[t][i].key

NewKeys(t) ==
  LET new == DOMAIN exits'[t] \ DOMAIN exits[t] IN
  \A i \in new : exits'[t][i].key # Null =>
    /\ \A u \in Trades : \A j \in DOMAIN exits[u] : exits[u][j].key # exits'[t][i].key
    /\ \A j \in new : exits'[t][j].key = exits'[t][i].key => i = j

TradeStep(t) ==
  /\ OnlyChanges(t)
  /\ ~row[t].deleted
  /\ RowInv(t)'
  /\ Forward(row[t], row'[t])
  /\ Noted(t)
  /\ Kept(t)
  /\ NewKeys(t)
  /\ row[t].status = "closed" => Len(exits'[t]) = Len(exits[t])
  /\ ResultsCurrent(row[t]) => ResultsCurrent(row'[t])
  /\ ClosedInv(t) => ClosedInv(t)'

(* What is said of a trade that does not exist. *)
LEMMA NoTradeYet ==
  ASSUME RowsInv, NEW t \in Trades, row[t].status = "none"
  PROVE  ~row[t].deleted /\ exits[t] = <<>> /\ row[t].system.status = "pending"
<1>1. row[t] = NoRow /\ exits[t] = <<>>
  BY DEF RowsInv, RowInv
<1>2. ~NoRow.deleted
  BY Zenon DEF NoRow
<1>3. NoRow.system = Pending /\ Pending.status = "pending"
  BY DEF NoRow, Pending
<1> QED BY <1>1, <1>2, <1>3

(* Exits that are not written are kept. *)
LEMMA UnwrittenExits ==
  ASSUME NEW t, exits'[t] = exits[t]
  PROVE  /\ Kept(t) /\ NewKeys(t) /\ Len(exits'[t]) = Len(exits[t])
         /\ exits[t] \in Seq(Range(exits[t])) =>
              exits'[t] \in Seq(Range(exits'[t]))
BY DEF Kept, NewKeys

(* Every call is a step of this kind: the creations. *)
LEMMA CreateStep ==
  ASSUME RowsInv, NEW t \in Trades, CreateTrade(t)
  PROVE  TradeStep(t)
<1>1. PICK direction, p, x : p \in Plan /\ row'[t] = NewRow(direction, p, x)
  BY CreateEffect, Zenon DEF NewPlans
<1>2. /\ OnlyChanges(t) /\ row[t].status = "none" /\ exits'[t] = exits[t]
      /\ ~row[t].deleted /\ exits[t] = <<>>
  <2>1. OnlyChanges(t) /\ row[t].status = "none" /\ exits'[t] = exits[t]
    BY CreateEffect, Zenon
  <2> QED BY <2>1, NoTradeYet
<1>3. /\ DOMAIN row'[t] = DOMAIN NoRow /\ row'[t].status \in {"planned", "open"}
      /\ ~row'[t].deleted /\ row'[t].plan = p /\ row'[t].plannedR = PlannedR(p)
      /\ row'[t].system = Pending /\ row'[t].actual = Null
  BY <1>1 DEF NewRow, NoRow
<1>4. DOMAIN p = DOMAIN NoPlan
  BY <1>1 DEF Plan, NoPlan
<1>5. RowInv(t)'
  BY <1>2, <1>3, <1>4, UnwrittenExits DEF RowInv, RowsInv
<1>6. Forward(row[t], row'[t])
  BY <1>2, <1>3, NoTradeYet DEF Forward
<1>7. ResultsCurrent(row'[t]) /\ ClosedInv(t)' /\ Noted(t)
  BY <1>3 DEF ResultsCurrent, ClosedInv, Noted, Shaped, Pending
<1> QED BY <1>2, <1>5, <1>6, <1>7, UnwrittenExits DEF TradeStep

(* The creation of a closed trade is one too. *)
LEMMA CompletedStep ==
  ASSUME RowsInv, NEW t \in Trades, CreateCompletedTrade(t)
  PROVE  TradeStep(t)
<1>1. PICK direction, p, x, s :
        p \in Plan /\ s \in SystemResults(direction, p) /\ Completes(t, direction, p, x, s)
  BY CompletedEffect, Zenon DEF NewPlans
<1>2. OnlyChanges(t) /\ row[t].status = "none" /\ \A i \in DOMAIN exits'[t] : exits'[t][i].key = Null
  BY CompletedEffect, Zenon
<1>3. ~row[t].deleted /\ exits[t] = <<>> /\ row[t].system.status = "pending"
  BY <1>2, NoTradeYet
<1>4. /\ DOMAIN row'[t] = DOMAIN NoRow /\ row'[t].status = "closed" /\ ~row'[t].deleted
      /\ row'[t].direction = direction /\ row'[t].execution = x
      /\ row'[t].actual = Actual(x, exits'[t])
      /\ row'[t].plan = p /\ row'[t].plannedR = PlannedR(p) /\ row'[t].system = s
  BY <1>1 DEF Completes, NewRow, NoRow
<1>5. DOMAIN p = DOMAIN NoPlan
  BY <1>1 DEF Plan, NoPlan
<1>6. s \in {Pending, NoTrade} \/ \E q : s = Resolved(p, q)
  BY <1>1, Zenon DEF SystemResults
<1>7. DOMAIN s = DOMAIN Pending
  BY <1>6 DEF Pending, NoTrade, Resolved
<1>8. exits'[t] \in Seq(Range(exits'[t]))
  BY CompletedEffect
<1>9. RowInv(t)'
  BY <1>4, <1>5, <1>7, <1>8 DEF RowInv
<1>10. Forward(row[t], row'[t])
  BY <1>2, <1>3, <1>4 DEF Forward
<1>11. ResultsCurrent(row'[t])
  BY <1>4, <1>6, SystemIsCurrent
<1>12. ClosedInv(t)'
  BY <1>1, <1>4 DEF Completes, ClosedInv
<1>13. Kept(t) /\ NewKeys(t)
  BY <1>2, <1>3 DEF Kept, NewKeys
<1>14. Noted(t)
  <2>1. s.status # "resolved" => s.r = Null
    BY <1>6 DEF Pending, NoTrade, Resolved
  <2> QED BY <1>4, <2>1 DEF Noted, Shaped
<1> QED BY <1>2, <1>3, <1>9, <1>10, <1>11, <1>12, <1>13, <1>14 DEF TradeStep

(* The edits of the plan and of the direction. *)
LEMMA ReplanStep ==
  ASSUME RowsInv, NEW t \in Trades, UpdateTradePlan(t) \/ CorrectTradeIdentity(t)
  PROVE  TradeStep(t)
<1>1. OnlyChanges(t) /\ Replans(t)
  BY UpdateEffect, IdentityEffect
<1>2. RowInv(t) /\ Live(t) /\ exits'[t] = exits[t]
  BY <1>1 DEF RowsInv, Replans
<1>3. RowInv(t)'
  BY <1>1, <1>2, UnwrittenExits DEF RowInv, Replans, Live
<1>4. Forward(row[t], row'[t]) /\ (ClosedInv(t) => ClosedInv(t)') /\ Noted(t)
  BY <1>1, <1>2 DEF Forward, ClosedInv, Noted, Shaped, Replans, Live
<1> QED BY <1>1, <1>2, <1>3, <1>4, UnwrittenExits DEF TradeStep, Replans, Live

(* Opening, canceling and deleting. *)
LEMMA StatusStep ==
  ASSUME RowsInv, NEW t \in Trades, OpenTrade(t) \/ CancelTrade(t) \/ SoftDeleteTrade(t)
  PROVE  TradeStep(t)
<1>1. RowInv(t) /\ Live(t) /\ exits' = exits
  BY DEF RowsInv, OpenTrade, CancelTrade, SoftDeleteTrade
<1>2. OnlyChanges(t)
  BY DEF RowsInv, OnlyChanges, OpenTrade, CancelTrade, SoftDeleteTrade
<1>3. \/ /\ row[t].status = "planned"
         /\ \E x : row'[t] = [row[t] EXCEPT !.status = "open", !.execution = x]
      \/ row[t].status = "planned" /\ row'[t] = [row[t] EXCEPT !.status = "canceled"]
      \/ row'[t] = [row[t] EXCEPT !.deleted = TRUE]
  BY DEF RowsInv, OpenTrade, CancelTrade, SoftDeleteTrade
<1>4. /\ DOMAIN row'[t] = DOMAIN NoRow
      /\ row'[t].direction = row[t].direction
      /\ row'[t].plan = row[t].plan /\ row'[t].plannedR = row[t].plannedR
      /\ row'[t].system = row[t].system
      /\ row'[t].status # row[t].status =>
           row[t].status = "planned" /\ row'[t].status \in {"open", "canceled"}
      /\ row'[t].actual = row[t].actual
      /\ \/ row'[t].deleted = row[t].deleted
         \/ row'[t].deleted = TRUE /\ row'[t].status = row[t].status
      /\ row'[t].status = "closed" => row'[t].execution = row[t].execution
  BY <1>1, <1>3 DEF RowInv, NoRow
<1>5. RowInv(t)'
  BY <1>1, <1>4, UnwrittenExits DEF RowInv, Live
<1>6. /\ Forward(row[t], row'[t]) /\ Noted(t)
      /\ ClosedInv(t) => ClosedInv(t)'
      /\ ResultsCurrent(row[t]) => ResultsCurrent(row'[t])
  BY <1>1, <1>4 DEF Forward, ClosedInv, ResultsCurrent, Noted, Shaped, Live
<1> QED BY <1>1, <1>2, <1>5, <1>6, UnwrittenExits DEF TradeStep, Live

(* The results of the system. *)
LEMMA SystemStep ==
  ASSUME RowsInv, NEW t \in Trades,
         \/ \E s \in Resolution : ResolveSystemTrade(t, s)
         \/ MarkSystemNoTrade(t)
         \/ CorrectSystemResolution(t)
  PROVE  TradeStep(t)
<1>1. PICK s : /\ s = NoTrade \/ \E q : s = Resolved(row[t].plan, q)
               /\ row' = [row EXCEPT ![t].system = s]
  BY Zenon DEF ResolveSystemTrade, MarkSystemNoTrade, CorrectSystemResolution
<1>2. RowInv(t) /\ Live(t) /\ exits' = exits
  BY DEF RowsInv, ResolveSystemTrade, MarkSystemNoTrade, CorrectSystemResolution
<1>3. OnlyChanges(t) /\ row'[t] = [row[t] EXCEPT !.system = s]
  BY <1>1, <1>2 DEF RowsInv, OnlyChanges
<1>4. /\ DOMAIN row'[t] = DOMAIN NoRow /\ row'[t].system = s
      /\ \A f \in {"status", "deleted", "direction", "plan", "plannedR", "execution", "actual"} :
           row'[t][f] = row[t][f]
  BY <1>2, <1>3 DEF RowInv, NoRow
<1>5. /\ DOMAIN s = DOMAIN Pending /\ s.status # "pending"
      /\ s.status # "resolved" => s.r = Null
  BY <1>1 DEF Pending, NoTrade, Resolved
<1>6. RowInv(t)'
  BY <1>2, <1>4, <1>5, UnwrittenExits DEF RowInv, Live
<1>7. ResultsCurrent(row[t]) => ResultsCurrent(row'[t])
  <2> SUFFICES ASSUME ResultsCurrent(row[t]) PROVE ResultsCurrent(row'[t])
    OBVIOUS
  <2>1. row'[t].plannedR = PlannedR(row'[t].plan)
    BY <1>4 DEF ResultsCurrent
  <2>2. row'[t].system \in {Pending, NoTrade} \/ \E q : row'[t].system = Resolved(row'[t].plan, q)
    BY <1>1, <1>4
  <2> QED BY <2>1, <2>2, SystemIsCurrent
<1>8. Forward(row[t], row'[t]) /\ (ClosedInv(t) => ClosedInv(t)') /\ Noted(t)
  BY <1>2, <1>4, <1>5 DEF Forward, ClosedInv, Noted, Shaped, Live
<1> QED BY <1>2, <1>3, <1>6, <1>7, <1>8, UnwrittenExits DEF TradeStep, Live

(* A corrected execution: the exits still compose with it. *)
LEMMA ExecutionStep ==
  ASSUME RowsInv, NEW t \in Trades, CorrectTradeExecution(t)
  PROVE  TradeStep(t)
<1>1. PICK x :
        /\ exits[t] # <<>> => Realizes(row[t].direction, x, exits[t])
        /\ row[t].status = "closed" => exits[t] # <<>> /\ ClosedBps(exits[t]) = Whole
        /\ row' = [row EXCEPT ![t].execution = x,
                              ![t].actual = IF row[t].status = "closed"
                                            THEN Actual(x, exits[t]) ELSE Null]
  BY Zenon DEF CorrectTradeExecution
<1>2. RowInv(t) /\ Live(t) /\ exits' = exits
  BY DEF RowsInv, CorrectTradeExecution
<1>3. OnlyChanges(t)
  BY <1>1, <1>2 DEF RowsInv, OnlyChanges
<1>4. row'[t] = [row[t] EXCEPT !.execution = x,
                               !.actual = IF row[t].status = "closed"
                                          THEN Actual(x, exits[t]) ELSE Null]
  BY <1>1, <1>2 DEF RowsInv, RowInv, NoRow
<1>5. /\ DOMAIN row'[t] = DOMAIN NoRow /\ row'[t].execution = x
      /\ row'[t].actual = IF row[t].status = "closed" THEN Actual(x, exits[t]) ELSE Null
      /\ \A f \in {"status", "deleted", "direction", "plan", "plannedR", "system"} :
           row'[t][f] = row[t][f]
  BY <1>2, <1>4 DEF RowInv, NoRow
<1>6. RowInv(t)'
  BY <1>2, <1>5, UnwrittenExits DEF RowInv, Live
<1>7. /\ Forward(row[t], row'[t]) /\ ClosedInv(t)'
      /\ ResultsCurrent(row[t]) => ResultsCurrent(row'[t])
  BY <1>1, <1>2, <1>5 DEF Forward, ClosedInv, ResultsCurrent
<1>8. Noted(t)
  BY <1>2, <1>5 DEF Noted, Shaped, Live
<1> QED BY <1>2, <1>3, <1>6, <1>7, <1>8, UnwrittenExits DEF TradeStep, Live

(* Exits of a live, open or closed trade are written and its row with      *)
(* them: unless it is closed by them, the row keeps its status.            *)
Rewrites(t) ==
  /\ DOMAIN row'[t] = DOMAIN NoRow
  /\ \A f \in {"deleted", "direction", "plan", "plannedR", "execution", "system"} :
       row'[t][f] = row[t][f]
  /\ row'[t].status # row[t].status =>
       /\ row[t].status = "open" /\ row'[t].status = "closed"
       /\ Realizes(row[t].direction, row[t].execution, exits'[t])
       /\ row'[t].actual = Actual(row[t].execution, exits'[t])
  /\ Realizes(row[t].direction, row[t].execution, exits'[t]) /\ ClosedBps(exits'[t]) = Whole =>
       row'[t].actual = Actual(row[t].execution, exits'[t])
  /\ row'[t].status = "closed" \/ row'[t].actual = row[t].actual \/ row'[t].actual = Null

(* What persistAggregate does to the columns of a row. *)
LEMMA ClosedRow ==
  ASSUME NEW r, NEW actual, DOMAIN r = DOMAIN NoRow
  PROVE  LET s == [r EXCEPT !.status = "closed", !.actual = actual]
         IN /\ DOMAIN s = DOMAIN NoRow
            /\ s.status = "closed" /\ s.actual = actual
            /\ \A f \in {"deleted", "direction", "plan", "plannedR", "execution", "system"} : s[f] = r[f]
BY DEF NoRow

LEMMA Uncached ==
  ASSUME NEW r, DOMAIN r = DOMAIN NoRow
  PROVE  LET s == [r EXCEPT !.actual = Null]
         IN /\ DOMAIN s = DOMAIN NoRow
            /\ s.status = r.status /\ s.actual = Null
            /\ \A f \in {"deleted", "direction", "plan", "plannedR", "execution", "system"} : s[f] = r[f]
BY DEF NoRow

(* The row s that persistAggregate leaves of a row r. *)
LEMMA AggregateOutcome ==
  ASSUME NEW r, NEW legs, NEW s, s = PersistAggregate(r, legs),
         DOMAIN r = DOMAIN NoRow, r.status \in {"open", "closed"}
  PROVE  /\ DOMAIN s = DOMAIN NoRow
         /\ \A f \in {"deleted", "direction", "plan", "plannedR", "execution", "system"} : s[f] = r[f]
         /\ s.status # r.status =>
              /\ r.status = "open" /\ s.status = "closed"
              /\ Realizes(r.direction, r.execution, legs)
              /\ s.actual = Actual(r.execution, legs)
         /\ Realizes(r.direction, r.execution, legs) /\ ClosedBps(legs) = Whole =>
              s.actual = Actual(r.execution, legs)
         /\ s.status = "closed" \/ s.actual = r.actual \/ s.actual = Null
<1> DEFINE composes == Realizes(r.direction, r.execution, legs)
           whole == ClosedBps(legs) = Whole
           actual == Actual(r.execution, legs)
<1>1. \/ ~composes /\ s = r
      \/ ~whole /\ s = [r EXCEPT !.actual = Null]
      \/ composes /\ whole /\ s = [r EXCEPT !.status = "closed", !.actual = actual]
  BY DEF PersistAggregate
<1> HIDE DEF composes, whole, actual
<1>2. /\ DOMAIN s = DOMAIN NoRow
      /\ \A f \in {"deleted", "direction", "plan", "plannedR", "execution", "system"} : s[f] = r[f]
      /\ s.status # r.status =>
           r.status = "open" /\ s.status = "closed" /\ composes /\ s.actual = actual
      /\ composes /\ whole => s.actual = actual
      /\ s.status = "closed" \/ s.actual = r.actual \/ s.actual = Null
  <2>1. CASE ~composes /\ s = r
    BY <2>1
  <2>2. CASE ~whole /\ s = [r EXCEPT !.actual = Null]
    <3>1. /\ DOMAIN s = DOMAIN NoRow
          /\ s.status = r.status /\ s.actual = Null
          /\ \A f \in {"deleted", "direction", "plan", "plannedR", "execution", "system"} : s[f] = r[f]
      BY <2>2, Uncached
    <3> QED BY <2>2, <3>1
  <2>3. CASE composes /\ whole /\ s = [r EXCEPT !.status = "closed", !.actual = actual]
    <3>1. /\ DOMAIN s = DOMAIN NoRow
          /\ s.status = "closed" /\ s.actual = actual
          /\ \A f \in {"deleted", "direction", "plan", "plannedR", "execution", "system"} : s[f] = r[f]
      BY <2>3, ClosedRow
    <3> QED BY <2>3, <3>1
  <2> QED BY <1>1, <2>1, <2>2, <2>3
<1> QED BY <1>2 DEF composes, whole, actual

(* persistAggregate over the exits just written. *)
LEMMA PersistAggregateEffect ==
  ASSUME RowsInv, NEW t \in Trades, row[t].status \in {"open", "closed"},
         row' = [row EXCEPT ![t] = PersistAggregate(@, exits'[t])]
  PROVE  Rewrites(t)
<1>1. RowInv(t) /\ row'[t] = PersistAggregate(row[t], exits'[t])
  BY DEF RowsInv
<1>2. DOMAIN row[t] = DOMAIN NoRow
  BY <1>1 DEF RowInv
<1> QED BY <1>1, <1>2, AggregateOutcome DEF Rewrites

(* A sequence with one more element. *)
LEMMA AppendKeeps ==
  ASSUME NEW s, NEW e, NEW a, s \in Seq(Range(s)), a = Append(s, e)
  PROVE  /\ a \in Seq(Range(a))
         /\ DOMAIN a = DOMAIN s \cup {Len(s) + 1}
         /\ \A i \in DOMAIN s : a[i] = s[i]
         /\ a[Len(s) + 1] = e
<1> DEFINE R == Range(s) \cup {e}
<1>1. Len(s) \in Nat /\ DOMAIN s = 1..Len(s)
  OBVIOUS
<1>2. s \in Seq(R)
  OBVIOUS
<1> HIDE DEF R
<1>3. /\ a \in Seq(R) /\ Len(a) = Len(s) + 1
      /\ \A i \in 1..Len(s) : a[i] = s[i]
      /\ a[Len(s) + 1] = e
  BY <1>2 DEF R
<1>4. DOMAIN a = 1..(Len(s) + 1)
  BY <1>3
<1>5. a \in Seq(Range(a))
  BY <1>3, SeqOfRange
<1> QED BY <1>1, <1>3, <1>4, <1>5

(* Writing exits is a step of a trade, if a closed one still composes. *)
LEMMA RewritesStep ==
  ASSUME RowsInv, NEW t \in Trades, Live(t), OnlyChanges(t), Rewrites(t),
         exits'[t] \in Seq(Range(exits'[t])),
         Kept(t), NewKeys(t),
         row[t].status = "closed" =>
           /\ Len(exits'[t]) = Len(exits[t])
           /\ ClosedBps(exits'[t]) = Whole
           /\ Realizes(row[t].direction, row[t].execution, exits[t]) =>
                Realizes(row[t].direction, row[t].execution, exits'[t])
  PROVE  TradeStep(t)
<1>1. RowInv(t)
  BY DEF RowsInv
<1>2. RowInv(t)'
  BY <1>1 DEF RowInv, Rewrites, Live
<1>3. Forward(row[t], row'[t]) /\ Noted(t)
  BY DEF Forward, Noted, Shaped, Rewrites, Live
<1>4. ResultsCurrent(row[t]) => ResultsCurrent(row'[t])
  BY DEF ResultsCurrent, Rewrites
<1>5. ClosedInv(t) => ClosedInv(t)'
  BY DEF ClosedInv, Rewrites
<1> QED BY <1>2, <1>3, <1>4, <1>5 DEF TradeStep, Live

(* One exit more, with no key or with a key that no exit has. *)
LEMMA AddedExit ==
  ASSUME RowsInv, NEW t \in Trades, NEW e, exits'[t] = Append(exits[t], e),
         \/ e.key = Null
         \/ \A u \in Trades : \A i \in DOMAIN exits[u] : exits[u][i].key # e.key
  PROVE  /\ exits'[t] \in Seq(Range(exits'[t]))
         /\ Kept(t) /\ NewKeys(t)
<1>1. exits[t] \in Seq(Range(exits[t]))
  BY DEF RowsInv, RowInv
<1>2. /\ exits'[t] \in Seq(Range(exits'[t]))
      /\ DOMAIN exits'[t] = DOMAIN exits[t] \cup {Len(exits[t]) + 1}
      /\ \A i \in DOMAIN exits[t] : exits'[t][i] = exits[t][i]
      /\ exits'[t][Len(exits[t]) + 1] = e
  BY <1>1, AppendKeeps
<1> QED BY <1>2 DEF Kept, NewKeys

(* addTradeExit and closeRemainingTrade. *)
LEMMA AddStep ==
  ASSUME RowsInv, NEW t \in Trades, NEW e, AddExit(t, e)
  PROVE  TradeStep(t)
<1>1. /\ Live(t) /\ row[t].status = "open"
      /\ exits' = [exits EXCEPT ![t] = Append(@, e)]
      /\ row' = [row EXCEPT ![t] = PersistAggregate(@, Append(exits[t], e))]
      /\ \A u \in Trades : \A i \in DOMAIN exits[u] : exits[u][i].key # e.key
  BY Zenon DEF AddExit
<1>2. exits'[t] = Append(exits[t], e) /\ OnlyChanges(t)
  BY <1>1 DEF RowsInv, OnlyChanges
<1>3. Rewrites(t)
  BY <1>1, <1>2, PersistAggregateEffect
<1> QED BY <1>1, <1>2, <1>3, AddedExit, RewritesStep

(* closeTrade. *)
LEMMA CloseStep ==
  ASSUME RowsInv, NEW t \in Trades, NEW e, CloseTrade(t, e)
  PROVE  TradeStep(t)
<1> DEFINE new == [key |-> Null, bps |-> Remaining(t), price |-> e.price,
                   pnl |-> e.pnl, at |-> e.at]
           legs == Append(exits[t], new)
           composes == Realizes(row[t].direction, row[t].execution, legs)
           actual == Actual(row[t].execution, legs)
<1>1. /\ Live(t) /\ row[t].status = "open"
      /\ exits' = [exits EXCEPT ![t] = legs]
      /\ row' = IF ~composes THEN row
                ELSE [row EXCEPT ![t].status = "closed", ![t].actual = actual]
  BY Zenon DEF CloseTrade
<1>2. new.key = Null
  OBVIOUS
<1> HIDE DEF new, composes, actual
<1>3. exits'[t] = Append(exits[t], new) /\ OnlyChanges(t)
  BY <1>1 DEF RowsInv, OnlyChanges
<1>4. \/ row'[t] = row[t] /\ ~composes
      \/ row'[t] = [row[t] EXCEPT !.status = "closed", !.actual = actual] /\ composes
  BY <1>1 DEF RowsInv, RowInv, NoRow
<1>5. /\ composes = Realizes(row[t].direction, row[t].execution, exits'[t])
      /\ actual = Actual(row[t].execution, exits'[t])
  BY <1>3 DEF composes, actual
<1>6. Rewrites(t)
  <2>1. /\ DOMAIN row'[t] = DOMAIN NoRow
        /\ \A f \in {"deleted", "direction", "plan", "plannedR", "execution", "system"} :
             row'[t][f] = row[t][f]
        /\ row'[t].status # row[t].status =>
             row[t].status = "open" /\ row'[t].status = "closed" /\ composes
        /\ composes => row'[t].actual = actual
        /\ row'[t].status # "closed" => row'[t].actual = row[t].actual
    BY <1>1, <1>4 DEF RowsInv, RowInv, NoRow
  <2> QED BY <2>1, <1>5 DEF Rewrites
<1> QED BY <1>1, <1>2, <1>3, <1>6, AddedExit, RewritesStep

(* correctTradeExit: the corrected exit fits the execution as before. *)
LEMMA CorrectExitStep ==
  ASSUME RowsInv, NEW t \in Trades, CorrectTradeExit(t)
  PROVE  TradeStep(t)
<1> USE TradeAssumption
<1>1. /\ Live(t) /\ row[t].status \in {"open", "closed"}
  BY DEF CorrectTradeExit
<1>2. PICK i \in DOMAIN exits[t], e \in ExitInput :
       LET legs == [exits[t] EXCEPT ![i] = Keyed(@.key, e)] IN
       /\ NotBefore(row[t].execution, e)
       /\ ShapeFits(row[t].execution, e)
       /\ IF row[t].status = "open" THEN ClosedBps(legs) < Whole ELSE ClosedBps(legs) = Whole
       /\ exits' = [exits EXCEPT ![t] = legs]
       /\ row' = [row EXCEPT ![t] = PersistAggregate(@, legs)]
  BY Zenon DEF CorrectTradeExit
<1> DEFINE new == Keyed(exits[t][i].key, e)
           legs == [exits[t] EXCEPT ![i] = new]
<1>3. /\ ShapeFits(row[t].execution, e)
      /\ IF row[t].status = "open" THEN ClosedBps(legs) < Whole ELSE ClosedBps(legs) = Whole
      /\ exits' = [exits EXCEPT ![t] = legs]
      /\ row' = [row EXCEPT ![t] = PersistAggregate(@, legs)]
  BY <1>2
<1>4. exits'[t] = legs /\ OnlyChanges(t)
  <2> HIDE DEF legs
  <2> QED BY <1>3 DEF RowsInv, OnlyChanges
<1>5. /\ new.key = exits[t][i].key /\ new.bps = e.bps /\ new.price = e.price /\ new.pnl = e.pnl
      /\ e.bps \in 1..Whole
  BY DEF Keyed, ExitInput
<1>6. exits[t] \in Seq(Range(exits[t]))
  BY DEF RowsInv, RowInv
<1> HIDE DEF new
<1>7. /\ DOMAIN legs = DOMAIN exits[t] /\ legs[i] = new
      /\ \A j \in DOMAIN exits[t] : j # i => legs[j] = exits[t][j]
  OBVIOUS
<1> HIDE DEF legs
<1>8. Kept(t) /\ NewKeys(t)
  BY <1>4, <1>5, <1>7 DEF Kept, NewKeys
<1>9. /\ exits'[t] \in Seq(Range(exits'[t]))
      /\ Len(exits'[t]) = Len(exits[t])
  <2> DEFINE n == Len(exits[t])
  <2>1. n \in Nat /\ DOMAIN exits[t] = 1..n
    BY <1>6
  <2>2. DOMAIN legs = 1..n /\ legs = [j \in 1..n |-> legs[j]]
    BY <1>7, <2>1 DEF legs
  <2> HIDE DEF n
  <2>3. legs \in Seq({legs[j] : j \in 1..n}) /\ Len(legs) = n
    BY <2>1, <2>2
  <2>4. legs \in Seq(Range(legs))
    BY <2>3, SeqOfRange
  <2> QED BY <1>4, <2>3, <2>4 DEF n
<1>10. Rewrites(t)
  BY <1>1, <1>3, <1>4, PersistAggregateEffect
<1>11. Realizes(row[t].direction, row[t].execution, exits[t]) /\ ClosedBps(legs) = Whole =>
         Realizes(row[t].direction, row[t].execution, legs)
  <2> SUFFICES ASSUME Realizes(row[t].direction, row[t].execution, exits[t]),
                      ClosedBps(legs) = Whole
               PROVE  Realizes(row[t].direction, row[t].execution, legs)
    OBVIOUS
  <2> DEFINE x == row[t].execution
  <2>1. ClosedBps(legs) <= Whole
    OBVIOUS
  <2>2. \A j \in DOMAIN legs : legs[j].bps \in 1..Whole
    BY <1>5, <1>7 DEF Realizes
  <2>3. x.mode = "money" => \A j \in DOMAIN legs : legs[j].pnl # Null
    BY <1>3, <1>5, <1>7 DEF Realizes, ShapeFits
  <2>4. x.mode # "money" => \A j \in DOMAIN legs : legs[j].price # Null /\ legs[j].pnl = Null
    BY <1>3, <1>5, <1>7 DEF Realizes, ShapeFits, Modes
  <2> QED BY <2>1, <2>2, <2>3, <2>4 DEF Realizes
<1>12. row[t].status = "closed" => ClosedBps(legs) = Whole
  BY <1>3
<1> QED BY <1>1, <1>4, <1>8, <1>9, <1>10, <1>11, <1>12, RewritesStep

(* Every step is a step of one trade. *)
LEMMA NextStep ==
  ASSUME RowsInv, Next
  PROVE  \E t \in Trades : TradeStep(t)
BY CreateStep, CompletedStep, ReplanStep, StatusStep, SystemStep, ExecutionStep, AddStep,
   CloseStep, CorrectExitStep DEF Next, AddTradeExit, CloseRemainingTrade

-----------------------------------------------------------------------------
(* The inductive invariant and the theorems. *)

(* A trade is closed by exits that compose, and this has to be carried     *)
(* along: where they did not, a correction would leave the result as it is.*)
TradesInv ==
  /\ RowsInv
  /\ ExitsComeOnce
  /\ \A t \in Trades : ClosedInv(t) /\ ResultsCurrent(row[t]) /\ Shaped(row[t])

(* It holds of the empty tables. *)
LEMMA InitInv == Init => TradesInv
<1> SUFFICES ASSUME Init PROVE TradesInv
  OBVIOUS
<1>1. DOMAIN row = Trades /\ DOMAIN exits = Trades
  BY DEF Init
<1>2. ASSUME NEW t \in Trades
      PROVE  row[t] = NoRow /\ exits[t] = <<>>
  BY DEF Init
<1>3. ASSUME NEW t \in Trades
      PROVE  RowInv(t) /\ ClosedInv(t) /\ ResultsCurrent(row[t]) /\ Shaped(row[t])
  <2>1. RowInv(t)
    <3>1. NoRow.plan = NoPlan /\ NoRow.system = Pending
      BY DEF NoRow
    <3>2. <<>> \in Seq(Range(exits[t]))
      OBVIOUS
    <3> QED BY <1>2, <3>1, <3>2 DEF RowInv
  <2>2. /\ row[t].status = "none" /\ row[t].system.status = "pending"
        /\ row[t].plannedR = Null /\ row[t].plan = NoPlan
    BY <1>2 DEF NoRow, Pending
  <2>3. PlannedR(NoPlan) = Null
    BY DEF PlannedR, NoPlan, HasPricePlan
  <2>4. row[t].actual = Null /\ row[t].system.r = Null
    BY <1>2 DEF NoRow, Pending
  <2> QED BY <2>1, <2>2, <2>3, <2>4 DEF ClosedInv, ResultsCurrent, Shaped
<1> QED BY <1>1, <1>2, <1>3 DEF TradesInv, RowsInv, ExitsComeOnce

(* Every step keeps it: the trade of the step by TradeStep, others as is. *)
LEMMA StepInv == TradesInv /\ [Next]_vars => TradesInv'
<1> SUFFICES ASSUME TradesInv, [Next]_vars PROVE TradesInv'
  OBVIOUS
<1>1. CASE UNCHANGED vars
  BY <1>1 DEF TradesInv, vars, RowsInv, RowInv, ExitsComeOnce, ClosedInv, ResultsCurrent, Shaped
<1>2. CASE Next
  <2>1. PICK t \in Trades : TradeStep(t)
    BY <1>2, NextStep DEF TradesInv
  <2>2. OnlyChanges(t)
    BY <2>1 DEF TradeStep
  <2>3. ASSUME NEW u \in Trades
        PROVE  RowInv(u)' /\ ClosedInv(u)' /\ ResultsCurrent(row[u])' /\ Shaped(row[u])'
    <3>1. CASE u = t
      BY <2>1, <3>1 DEF TradeStep, TradesInv, Noted
    <3>2. CASE u # t
      BY <2>2, <3>2 DEF OnlyChanges, TradesInv, RowsInv, RowInv, ClosedInv, ResultsCurrent, Shaped
    <3> QED BY <3>1, <3>2
  <2>4. ExitsComeOnce'
    <3> SUFFICES ASSUME NEW u \in Trades, NEW v \in Trades,
                        NEW i \in DOMAIN exits'[u], NEW j \in DOMAIN exits'[v],
                        exits'[u][i].key = exits'[v][j].key, exits'[u][i].key # Null
                 PROVE  u = v /\ i = j
      BY DEF ExitsComeOnce
    <3> DEFINE Old(w, k) == k \in DOMAIN exits[w]
    <3>1. ASSUME NEW w \in Trades, NEW k \in DOMAIN exits'[w]
          PROVE  IF Old(w, k) THEN exits'[w][k].key = exits[w][k].key ELSE w = t
      BY <2>1, <2>2 DEF TradeStep, Kept, OnlyChanges
    <3>2. NewKeys(t)
      BY <2>1 DEF TradeStep
    <3>3. CASE Old(u, i) /\ Old(v, j)
      BY <3>1, <3>3 DEF TradesInv, ExitsComeOnce
    <3>4. CASE ~Old(u, i) /\ Old(v, j)
      BY <3>1, <3>2, <3>4 DEF NewKeys
    <3>5. CASE Old(u, i) /\ ~Old(v, j)
      BY <3>1, <3>2, <3>5 DEF NewKeys
    <3>6. CASE ~Old(u, i) /\ ~Old(v, j)
      BY <3>1, <3>2, <3>6 DEF NewKeys
    <3> QED BY <3>3, <3>4, <3>5, <3>6
  <2> QED BY <2>2, <2>3, <2>4 DEF TradesInv, RowsInv, OnlyChanges
<1> QED BY <1>1, <1>2

(* The rows keep their shape, the properties below their strengthening. *)
THEOREM Invariance == Spec => []TradesInv
BY InitInv, StepInv, PTL DEF Spec

(* The result that a closed trade shows is what its execution and its      *)
(* exits give, whatever is corrected after persistAggregate cached it.     *)
THEOREM ClosedResultIsCurrent == Spec => []ActualIsCurrent
<1>1. TradesInv => ActualIsCurrent
  BY DEF TradesInv, ClosedInv, ActualIsCurrent
<1> QED BY <1>1, Invariance, PTL

(* The planned R and the result of the system are those of the stored plan *)
(* after any edit of it, by updateTradePlan or correctTradeIdentity.       *)
THEOREM PlanResultsStayCurrent == Spec => []PlanResultsAreCurrent
<1>1. TradesInv => PlanResultsAreCurrent
  BY DEF TradesInv, PlanResultsAreCurrent
<1> QED BY <1>1, Invariance, PTL

(* A mutation key of addTradeExit and closeRemainingTrade is stored once,  *)
(* in whatever trade and however often the form is sent.                   *)
THEOREM ExitKeysComeOnce == Spec => []ExitsComeOnce
<1>1. TradesInv => ExitsComeOnce
  BY DEF TradesInv
<1> QED BY <1>1, Invariance, PTL

(* What a step does to every trade. *)
LEMMA StepOfAnyTrade ==
  ASSUME TradesInv, [Next]_vars, NEW u \in Trades
  PROVE  \/ TradeStep(u)
         \/ row'[u] = row[u] /\ exits'[u] = exits[u]
<1>1. CASE UNCHANGED vars
  BY <1>1 DEF vars
<1>2. CASE Next
  <2>1. PICK t \in Trades : TradeStep(t)
    BY <1>2, NextStep DEF TradesInv
  <2> QED BY <2>1 DEF TradeStep, OnlyChanges
<1> QED BY <1>1, <1>2

(* A trade that softDeleteTrade deleted is written by no call. *)
THEOREM DeletedTradesAreFrozen == Spec => DeletedIsFrozen
<1> DEFINE A == \A t \in Trades : row[t].deleted => row'[t] = row[t] /\ exits'[t] = exits[t]
<1>1. TradesInv /\ [Next]_vars => A
  BY StepOfAnyTrade DEF TradeStep
<1> QED BY <1>1, Invariance, PTL DEF Spec, DeletedIsFrozen

(* Neither the status of a trade nor a settled result of the system goes   *)
(* back, in whatever order the calls come.                                 *)
THEOREM StatusesMoveForward == Spec => StatusMovesForward
<1> DEFINE A(t) ==
       /\ row'[t].status # row[t].status =>
            <<row[t].status, row'[t].status>> \in
              ({"none"} \X {"planned", "open", "closed"}) \cup
              ({"planned"} \X {"open", "canceled"}) \cup {<<"open", "closed">>}
       /\ row[t].system.status # "pending" => row'[t].system.status # "pending"
<1>1. ASSUME TradesInv, [Next]_vars, NEW t \in Trades PROVE A(t)
  <2>1. Forward(row[t], row'[t])
    BY <1>1, StepOfAnyTrade DEF TradeStep, Forward
  <2> QED BY <2>1 DEF Forward
<1>2. TradesInv /\ [Next]_vars => \A t \in Trades : A(t)
  BY <1>1
<1> QED BY <1>2, Invariance, PTL DEF Spec, StatusMovesForward

(* No exit is lost, moved or given another key, and a closed trade gets    *)
(* none: addTradeExit and its copies append, correctTradeExit replaces.    *)
THEOREM ExitsStay == Spec => ExitsAreKept
<1> DEFINE A(t) ==
       /\ \A i \in DOMAIN exits[t] : i \in DOMAIN exits'[t] /\ exits'[t][i].key = exits[t][i].key
       /\ row[t].status = "closed" => Len(exits'[t]) = Len(exits[t])
<1>1. ASSUME TradesInv, [Next]_vars, NEW t \in Trades PROVE A(t)
  BY <1>1, StepOfAnyTrade DEF TradeStep, Kept
<1>2. TradesInv /\ [Next]_vars => \A t \in Trades : A(t)
  BY <1>1
<1> QED BY <1>2, Invariance, PTL DEF Spec, ExitsAreKept

(* A step of one trade is a step of the ledger, or changes nothing there. *)
LEMMA LedgerStep ==
  ASSUME TradesInv, NEW t \in Trades, TradeStep(t)
  PROVE  /\ Ledger!Moves(Entry(t), Entry(t)')
         /\ \A u \in Trades \ {t} : Entry(u)' = Entry(u)
<1>1. /\ ~row[t].deleted /\ Forward(row[t], row'[t]) /\ Shaped(row'[t]) /\ Noted(t)
      /\ OnlyChanges(t)
  BY DEF TradeStep, TradesInv, Noted
<1>2. CASE row'[t].deleted
  <2>1. /\ row[t].status # "none" /\ row'[t].status = row[t].status /\ row'[t].deleted = TRUE
        /\ row'[t].actual = row[t].actual /\ row'[t].system = row[t].system
    BY <1>1, <1>2 DEF Noted
  <2>2. Entry(t)'.deleted /\ \A f \in {"status", "actual", "system", "verdict"} : Entry(t)'[f] = Entry(t)[f]
    BY <2>1 DEF Entry
  <2> QED BY <1>1, <2>1, <2>2 DEF Ledger!Moves, Ledger!Delete, Entry, OnlyChanges
<1>3. CASE ~row'[t].deleted
  <2>1. Ledger!Forward(Entry(t).status, Entry(t)'.status)
    BY <1>1 DEF Entry, Forward, Ledger!Forward
  <2>2. Ledger!Shaped(Entry(t)')
    BY <1>1 DEF Entry, Shaped, Ledger!Shaped
  <2>3. Entry(t).system # "pending" => Entry(t)'.system # "pending"
    BY <1>1 DEF Entry, Forward
  <2>4. ~Entry(t).deleted /\ ~Entry(t)'.deleted
    BY <1>1, <1>3 DEF Entry
  <2> QED BY <1>1, <2>1, <2>2, <2>3, <2>4 DEF Ledger!Moves, Ledger!Advance, Entry, OnlyChanges
<1> QED BY <1>2, <1>3

(* Readers of the trades may rely on the ledger: whatever calls are made,  *)
(* a trade moves forward, has a result while closed and a verdict while    *)
(* resolved, and is not written after softDeleteTrade.                     *)
THEOREM TradesImplementLedger == Spec => ImplementsTradeLedger
<1> DEFINE entries == [t \in Trades |-> Entry(t)]
<1>1. Init => Ledger!Init
  <2> SUFFICES ASSUME Init PROVE Ledger!Init
    OBVIOUS
  <2>1. ASSUME NEW t \in Trades PROVE Entry(t) = Ledger!NoEntry
    BY DEF Init, NoRow, Pending, Entry, Ledger!NoEntry
  <2> QED BY <2>1 DEF Ledger!Init
<1>2. TradesInv /\ [Next]_vars => [Ledger!Next]_entries
  <2> SUFFICES ASSUME TradesInv, [Next]_vars
               PROVE  Ledger!Next \/ UNCHANGED entries
    OBVIOUS
  <2>1. CASE UNCHANGED vars
    BY <2>1 DEF vars, Entry
  <2>2. CASE Next
    <3>1. PICK t \in Trades : TradeStep(t)
      BY <2>2, NextStep DEF TradesInv
    <3>2. /\ Ledger!Moves(Entry(t), Entry(t)')
          /\ \A u \in Trades \ {t} : Entry(u)' = Entry(u)
      BY <3>1, LedgerStep
    <3>3. Ledger!Next
      BY <3>2 DEF Ledger!Next
    <3> QED BY <3>3
  <2> QED BY <2>1, <2>2
<1> QED BY <1>1, <1>2, Invariance, PTL DEF Spec, ImplementsTradeLedger, Ledger!Spec

-----------------------------------------------------------------------------
(* The sums of exits. *)

Bps(legs)  == [i \in DOMAIN legs |-> legs[i].bps]
Pnls(legs) == [i \in DOMAIN legs |-> legs[i].pnl]

(* The exits of a trade are finitely many. *)
LEMMA ExitsFinite ==
  ASSUME NEW S, NEW legs \in Seq(S)
  PROVE  IsFiniteSet(DOMAIN legs) /\ DOMAIN legs = 1..Len(legs) /\ Len(legs) \in Nat
<1>1. DOMAIN legs = 1..Len(legs) /\ Len(legs) \in Nat
  OBVIOUS
<1> QED BY <1>1, FS_Interval

(* composeRealizedActual reduces the exits to the sum of their shares ... *)
LEMMA ClosedBpsIsSum ==
  ASSUME NEW legs, IsFiniteSet(DOMAIN legs), \A i \in DOMAIN legs : legs[i].bps \in Int
  PROVE  ClosedBps(legs) = SumFunctionOnSet(Bps(legs), DOMAIN legs)
<1> DEFINE S == DOMAIN legs
           w == Bps(legs)
           Solves(f) ==
             f = [T \in SUBSET S |-> IF T = {} THEN 0 ELSE legs[Pick(T)].bps + f[T \ {Pick(T)}]]
           f == CHOOSE f : Solves(f)
<1>1. ClosedBps(legs) = f[S]
  BY DEF ClosedBps, FoldFunction, FoldFunctionOnSet, MapThenFoldSet, Pick
<1>2. DOMAIN w = S /\ \A i \in S : w[i] \in Int /\ w[i] = legs[i].bps
  BY DEF Bps
<1> HIDE DEF w
<1>3. ASSUME NEW g PROVE Solves(g) <=> Folds(g, w, S)
  <2>1. ASSUME NEW T \in SUBSET S, T # {} PROVE w[Pick(T)] = legs[Pick(T)].bps
    BY <1>2, <2>1, PickIsIn
  <2> QED BY <2>1 DEF Folds
<1> HIDE DEF Solves
<1>4. Solves(f)
  BY <1>2, <1>3, WeightFolds, Zenon
<1> HIDE DEF f
<1>5. f[S] = Weight(w, S)
  BY <1>2, <1>3, <1>4, FoldIsWeight
<1> QED BY <1>1, <1>2, <1>5, SumIsWeight DEF w

(* ... and of their results in money. *)
LEMMA NetPnlIsSum ==
  ASSUME NEW legs, IsFiniteSet(DOMAIN legs), \A i \in DOMAIN legs : legs[i].pnl \in Int
  PROVE  NetPnl(legs) = SumFunctionOnSet(Pnls(legs), DOMAIN legs)
<1> DEFINE S == DOMAIN legs
           w == Pnls(legs)
           Solves(f) ==
             f = [T \in SUBSET S |-> IF T = {} THEN 0 ELSE legs[Pick(T)].pnl + f[T \ {Pick(T)}]]
           f == CHOOSE f : Solves(f)
<1>1. NetPnl(legs) = f[S]
  BY DEF NetPnl, FoldFunction, FoldFunctionOnSet, MapThenFoldSet, Pick
<1>2. DOMAIN w = S /\ \A i \in S : w[i] \in Int /\ w[i] = legs[i].pnl
  BY DEF Pnls
<1> HIDE DEF w
<1>3. ASSUME NEW g PROVE Solves(g) <=> Folds(g, w, S)
  <2>1. ASSUME NEW T \in SUBSET S, T # {} PROVE w[Pick(T)] = legs[Pick(T)].pnl
    BY <1>2, <2>1, PickIsIn
  <2> QED BY <2>1 DEF Folds
<1> HIDE DEF Solves
<1>4. Solves(f)
  BY <1>2, <1>3, WeightFolds, Zenon
<1> HIDE DEF f
<1>5. f[S] = Weight(w, S)
  BY <1>2, <1>3, <1>4, FoldIsWeight
<1> QED BY <1>1, <1>2, <1>5, SumIsWeight DEF w

(* What the exits of a table row add up to. *)
LEMMA ExitFields ==
  ASSUME NEW legs \in Seq(Exit), NEW i \in DOMAIN legs
  PROVE  /\ legs[i] \in Exit
         /\ legs[i].bps \in 1..Whole /\ legs[i].bps \in Nat
         /\ legs[i].price \in OrNull(Prices) /\ legs[i].pnl \in OrNull(Profits) /\ legs[i].at \in Times
<1>1. legs[i] \in Exit
  OBVIOUS
<1> QED BY <1>1, TradeAssumption DEF Exit

(* Without exits nothing is closed, *)
LEMMA ClosedOfNone == ClosedBps(<<>>) = 0
<1>1. DOMAIN <<>> = {} /\ IsFiniteSet({})
  BY FS_EmptySet
<1> QED BY <1>1, ClosedBpsIsSum, SumOfNone

(* with exits some number of basis points is, *)
LEMMA ClosedType ==
  ASSUME NEW legs \in Seq(Exit)
  PROVE  ClosedBps(legs) \in Nat
<1>1. \A i \in DOMAIN legs : legs[i].bps \in Nat
  BY ExitFields
<1>2. IsFiniteSet(DOMAIN legs)
  BY ExitsFinite
<1>3. ClosedBps(legs) = SumFunctionOnSet(Bps(legs), DOMAIN legs)
  BY <1>1, <1>2, ClosedBpsIsSum
<1>4. DOMAIN Bps(legs) = DOMAIN legs /\ \A i \in DOMAIN legs : Bps(legs)[i] \in Nat
  BY <1>1 DEF Bps
<1> QED BY <1>2, <1>3, <1>4, SumOfNaturals

(* and an exit more adds its share. *)
LEMMA ClosedOfAppend ==
  ASSUME NEW legs \in Seq(Exit), NEW e \in Exit
  PROVE  ClosedBps(Append(legs, e)) = ClosedBps(legs) + e.bps
<1> DEFINE more == Append(legs, e)
           S == DOMAIN legs
           x == Len(legs) + 1
           v == Bps(legs)
           w == Bps(more)
<1>1. IsFiniteSet(S) /\ S = 1..Len(legs) /\ Len(legs) \in Nat
  BY ExitsFinite
<1>2. /\ more \in Seq(Exit) /\ DOMAIN more = S \cup {x} /\ x \notin S
      /\ \A i \in S : more[i] = legs[i]
      /\ more[x] = e
  <2>1. more \in Seq(Exit) /\ DOMAIN more = 1..(Len(legs) + 1)
    OBVIOUS
  <2>2. 1..(Len(legs) + 1) = 1..Len(legs) \cup {Len(legs) + 1}
    BY <1>1
  <2> QED BY <1>1, <2>1, <2>2
<1> HIDE DEF more
<1>3. /\ DOMAIN w = S \cup {x} /\ w[x] = e.bps
      /\ DOMAIN v = S
      /\ \A i \in S : w[i] = v[i]
  BY <1>2 DEF Bps
<1>4. \A i \in S \cup {x} : more[i].bps \in Int /\ w[i] = more[i].bps
  <2>1. \A i \in DOMAIN more : more[i].bps \in Int
    BY <1>2, ExitFields
  <2>2. \A i \in DOMAIN more : w[i] = more[i].bps
    BY DEF Bps
  <2> QED BY <1>2, <2>1, <2>2, Zenon
<1>5. \A i \in S : legs[i].bps \in Int /\ v[i] = legs[i].bps
  BY ExitFields DEF Bps
<1> HIDE DEF v, w, more, S, x
<1>6. ClosedBps(legs) = SumFunctionOnSet(v, S)
  BY <1>1, <1>5, ClosedBpsIsSum DEF v, S
<1>7. IsFiniteSet(S \cup {x})
  BY <1>1, FS_AddElement
<1>8. ClosedBps(more) = SumFunctionOnSet(w, S \cup {x})
  BY <1>2, <1>4, <1>7, ClosedBpsIsSum DEF w
<1>9. SumFunctionOnSet(w, S \cup {x}) = SumFunctionOnSet(w, S) + w[x]
  BY <1>1, <1>2, <1>3, <1>4, SumAddElement
<1>10. SumFunctionOnSet(w, S) = SumFunctionOnSet(v, S)
  BY <1>1, <1>3, <1>5, SumAgrees
<1> QED BY <1>3, <1>6, <1>8, <1>9, <1>10 DEF more

(* Exits with results in money have their net. *)
LEMMA NetType ==
  ASSUME NEW legs \in Seq(Exit), \A i \in DOMAIN legs : legs[i].pnl # Null
  PROVE  NetPnl(legs) \in Int
<1>1. \A i \in DOMAIN legs : legs[i].pnl \in Int
  BY ExitFields, TradeAssumption DEF OrNull
<1>2. IsFiniteSet(DOMAIN legs)
  BY ExitsFinite
<1>3. NetPnl(legs) = SumFunctionOnSet(Pnls(legs), DOMAIN legs)
  BY <1>1, <1>2, NetPnlIsSum
<1>4. DOMAIN Pnls(legs) = DOMAIN legs /\ \A i \in DOMAIN legs : Pnls(legs)[i] \in Int
  BY <1>1 DEF Pnls
<1> QED BY <1>2, <1>3, <1>4, SumType

(* The last exit is one of them. *)
LEMMA FinalExitIsOne ==
  ASSUME NEW legs \in Seq(Exit), legs # <<>>
  PROVE  FinalExit(legs) \in Exit
<1> DEFINE S == DOMAIN legs
           T == {legs[i].at : i \in S}
           Last(i) == \A j \in S : legs[j].at < legs[i].at \/ (legs[j].at = legs[i].at /\ j <= i)
<1>1. IsFiniteSet(S) /\ S = 1..Len(legs) /\ S # {} /\ S \subseteq Int
  <2>1. IsFiniteSet(S) /\ S = 1..Len(legs) /\ Len(legs) \in Nat
    BY ExitsFinite
  <2>2. Len(legs) # 0
    OBVIOUS
  <2> HIDE DEF S
  <2>3. 1 \in S
    BY <2>1, <2>2
  <2> QED BY <2>1, <2>3
<1>2. \A i \in S : legs[i].at \in Int
  BY ExitFields, TradeAssumption
<1>3. IsFiniteSet(T) /\ T # {} /\ T \subseteq Int
  <2> DEFINE f == [i \in S |-> legs[i].at]
  <2>1. f \in Surjection(S, T)
    BY DEF Surjection
  <2>2. IsFiniteSet(T)
    BY <1>1, <2>1, FS_Surjection
  <2> QED BY <1>1, <1>2, <2>2
<1>4. PICK m \in T : \A n \in T : n <= m
  BY <1>3, FiniteMaximum
<1> DEFINE U == {i \in S : legs[i].at = m}
<1>5. IsFiniteSet(U) /\ U # {} /\ U \subseteq Int
  <2>1. IsFiniteSet(U)
    BY <1>1, FS_Subset
  <2> QED BY <1>1, <1>4, <2>1
<1>6. PICK k \in U : \A n \in U : n <= k
  BY <1>5, FiniteMaximum
<1>7. Last(k)
  <2> SUFFICES ASSUME NEW j \in S PROVE legs[j].at < legs[k].at \/ (legs[j].at = legs[k].at /\ j <= k)
    OBVIOUS
  <2>1. legs[j].at <= m /\ legs[k].at = m /\ legs[j].at \in Int /\ m \in Int
    BY <1>2, <1>3, <1>4
  <2>2. CASE legs[j].at = m
    BY <1>6, <2>1, <2>2
  <2>3. CASE legs[j].at # m
    BY <2>1, <2>3
  <2> QED BY <2>2, <2>3
<1> DEFINE c == CHOOSE i \in S : Last(i)
<1>8. c \in S
  <2> HIDE DEF Last
  <2> QED BY <1>7, Zenon
<1>9. FinalExit(legs) = legs[c]
  BY DEF FinalExit
<1> QED BY <1>8, <1>9

-----------------------------------------------------------------------------
(* What the tables accept of one trade. *)

RowTyped(r) ==
  /\ DOMAIN r = DOMAIN NoRow
  /\ r.status \in {"none", "planned", "open", "closed", "canceled"}
  /\ r.deleted \in BOOLEAN
  /\ r.direction \in Directions
  /\ r.plan \in Plan
  /\ r.execution \in Execution \cup {NoExecution}
  /\ r.system \in System

(* A result of the system says of what it is one. *)
Settled(s) ==
  s.status = "resolved" =>
    s.cost \in Costs /\ s.kind \in Kinds /\ (s.kind = "price_exit" => s.input \in PlanPrices)

(* The columns but those that the exits decide on. *)
RowStored(r) ==
  /\ RowTyped(r) /\ SystemAccepted(r) /\ Settled(r.system)
  /\ r.status = "planned" => r.execution = NoExecution
  /\ r.status \in {"open", "closed"} => ExecutionComposes(r.direction, r.execution)
  /\ r.status # "none" => PlanComposes(r.direction, r.plan) /\ ~Dual(r.plan)

Stored(r, legs) ==
  /\ RowStored(r)
  /\ legs \in Seq(Exit)
  /\ ExitsAccepted(r, legs)
  /\ (r.status = "closed") = (r.actual # Null)

(* An execution that composes is one, and has a mode. *)
LEMMA ComposedIsOne ==
  ASSUME NEW d, NEW x \in Execution \cup {NoExecution}, ExecutionComposes(d, x)
  PROVE  /\ x \in Execution /\ x.mode \in Modes /\ x.entered \in Times
         /\ x.mode = "money" => x.risk \in Risks /\ x.risk # Null /\ x.risk > 0
         /\ x.mode # "money" =>
              x.entry \in Prices /\ x.stop \in Prices /\ RiskContext(d, x.entry, x.stop)
<1>1. x # NoExecution
  BY DEF ExecutionComposes, NoExecution, RiskContext
<1>2. x \in Execution
  BY <1>1
<1>3. x.mode \in Modes /\ x.entered \in Times /\ x.risk \in OrNull(Risks)
      /\ x.entry \in OrNull(Prices) /\ x.stop \in OrNull(Prices)
  BY <1>2 DEF Execution
<1> QED BY <1>2, <1>3 DEF ExecutionComposes, RiskContext, Modes, OrNull

(* persistAggregate composes the exits that the tables accept. *)
LEMMA AcceptedRealizes ==
  ASSUME NEW d, NEW x \in Execution, ExecutionComposes(d, x),
         NEW legs \in Seq(Exit), \A i \in DOMAIN legs : ShapeFits(x, legs[i]),
         ClosedBps(legs) <= Whole
  PROVE  Realizes(d, x, legs)
<1>1. /\ x.mode \in Modes
      /\ x.mode = "money" => x.risk # Null /\ x.risk > 0
      /\ x.mode # "money" => RiskContext(d, x.entry, x.stop)
  BY ComposedIsOne
<1>2. \A i \in DOMAIN legs : legs[i].bps \in 1..Whole
  BY ExitFields
<1>3. x.mode = "money" => \A i \in DOMAIN legs : legs[i].pnl # Null
  BY DEF ShapeFits
<1>4. x.mode # "money" => \A i \in DOMAIN legs : legs[i].price # Null /\ legs[i].pnl = Null
  BY <1>1 DEF ShapeFits, Modes
<1> QED BY <1>1, <1>2, <1>3, <1>4 DEF Realizes

(* The result of exits that make up the whole is one. *)
LEMMA ActualIsResult ==
  ASSUME NEW d, NEW x \in Execution, ExecutionComposes(d, x),
         NEW legs \in Seq(Exit), Realizes(d, x, legs), ClosedBps(legs) = Whole
  PROVE  Actual(x, legs) # Null
<1>1. legs # <<>>
  BY ClosedOfNone, TradeAssumption
<1>2. FinalExit(legs).price \in OrNull(Prices) /\ FinalExit(legs).at \in Times
  BY <1>1, FinalExitIsOne DEF Exit
<1>3. x.mode = "money" => NetPnl(legs) \in Int /\ x.risk \in Risks
  BY NetType, ComposedIsOne DEF Realizes
<1>4. ASSUME x.mode # "money"
      PROVE  RealizedR(x, legs) \in {"weighted"} \X Prices \X Prices \X Seq((1..Whole) \X Prices)
  <2> DEFINE weights == [i \in DOMAIN legs |-> <<legs[i].bps, legs[i].price>>]
  <2>1. \A i \in DOMAIN legs : legs[i].bps \in 1..Whole /\ legs[i].price \in Prices
    BY <1>4, ExitFields DEF Realizes, OrNull
  <2>2. weights \in Seq((1..Whole) \X Prices)
    BY <2>1
  <2>3. x.entry \in Prices /\ x.stop \in Prices
    BY <1>4, ComposedIsOne
  <2>4. RealizedR(x, legs) = <<"weighted", x.entry, x.stop, weights>>
    BY <1>4 DEF RealizedR
  <2> HIDE DEF weights
  <2> QED BY <2>2, <2>3, <2>4
<1>5. RealizedR(x, legs) \in ({"money"} \X Risks \X Int) \cup
                             ({"weighted"} \X Prices \X Prices \X Seq((1..Whole) \X Prices))
  <2>1. x.mode = "money" => RealizedR(x, legs) = <<"money", x.risk, NetPnl(legs)>>
    BY DEF RealizedR
  <2> QED BY <1>3, <1>4, <2>1
<1>6. (IF x.mode = "money" THEN NetPnl(legs) ELSE Null) \in OrNull(Int)
  BY <1>3 DEF OrNull
<1>7. Actual(x, legs) \in Actuals
  <2> HIDE DEF Actuals
  <2> DEFINE r == RealizedR(x, legs)
             net == IF x.mode = "money" THEN NetPnl(legs) ELSE Null
             price == FinalExit(legs).price
             at == FinalExit(legs).at
  <2>1. Actual(x, legs) = [r |-> r, net |-> net, price |-> price, at |-> at]
    BY DEF Actual
  <2> HIDE DEF r, net, price, at
  <2> QED BY <1>2, <1>5, <1>6, <2>1 DEF Actuals, r, net, price, at
<1> QED BY <1>7, NullAssumption

(* The columns that exits do not decide on are accepted or not whatever    *)
(* the status and the cached result of an open or closed trade are.        *)
LEMMA SameColumns ==
  ASSUME NEW r, NEW s, RowStored(r), r.status \in {"open", "closed"},
         DOMAIN s = DOMAIN NoRow, s.status \in {"open", "closed"},
         \A f \in {"deleted", "direction", "plan", "plannedR", "execution", "system"} : s[f] = r[f]
  PROVE  RowStored(s)
<1>1. /\ s.deleted = r.deleted /\ s.direction = r.direction /\ s.plan = r.plan
      /\ s.plannedR = r.plannedR /\ s.execution = r.execution /\ s.system = r.system
  OBVIOUS
<1>2. SystemAccepted(s)
  BY <1>1 DEF RowStored, SystemAccepted
<1> QED BY <1>1, <1>2 DEF RowStored, RowTyped

(* persistAggregate, on exits that fit and are no more than the whole. *)
LEMMA AggregateStores ==
  ASSUME NEW r, RowStored(r), r.status \in {"open", "closed"},
         NEW legs \in Seq(Exit),
         \A i \in DOMAIN legs : ShapeFits(r.execution, legs[i]) /\ NotBefore(r.execution, legs[i]),
         ClosedBps(legs) <= Whole,
         r.status = "closed" => ClosedBps(legs) = Whole
  PROVE  /\ Realizes(r.direction, r.execution, legs)
         /\ Stored(PersistAggregate(r, legs), legs)
<1> DEFINE s == PersistAggregate(r, legs)
           actual == Actual(r.execution, legs)
<1>1. /\ DOMAIN r = DOMAIN NoRow /\ r.execution \in Execution /\ r.direction \in Directions
      /\ ExecutionComposes(r.direction, r.execution)
  BY ComposedIsOne DEF RowStored, RowTyped
<1>2. Realizes(r.direction, r.execution, legs)
  BY <1>1, AcceptedRealizes
<1>3. CASE ClosedBps(legs) = Whole
  <2>1. s = [r EXCEPT !.status = "closed", !.actual = actual]
    BY <1>2, <1>3 DEF PersistAggregate
  <2>2. actual # Null
    BY <1>1, <1>2, <1>3, ActualIsResult
  <2> HIDE DEF s, actual
  <2>3. /\ DOMAIN s = DOMAIN NoRow /\ s.status = "closed" /\ s.actual = actual
        /\ \A f \in {"deleted", "direction", "plan", "plannedR", "execution", "system"} : s[f] = r[f]
    BY <1>1, <2>1, ClosedRow
  <2>4. RowStored(s)
    BY <2>3, SameColumns
  <2>5. ExitsAccepted(s, legs)
    BY <1>3, <2>3 DEF ExitsAccepted
  <2>6. Stored(s, legs)
    BY <2>2, <2>3, <2>4, <2>5 DEF Stored
  <2> QED BY <1>2, <2>6 DEF s
<1>4. CASE ClosedBps(legs) # Whole
  <2>1. s = [r EXCEPT !.actual = Null] /\ r.status = "open"
    BY <1>2, <1>4 DEF PersistAggregate
  <2> HIDE DEF s
  <2>2. /\ DOMAIN s = DOMAIN NoRow /\ s.status = "open" /\ s.actual = Null
        /\ \A f \in {"deleted", "direction", "plan", "plannedR", "execution", "system"} : s[f] = r[f]
    BY <1>1, <2>1, Uncached
  <2>3. RowStored(s)
    BY <2>2, SameColumns
  <2>4. ClosedBps(legs) < Whole
    BY <1>4, ClosedType, TradeAssumption
  <2>5. ExitsAccepted(s, legs)
    BY <2>2, <2>4 DEF ExitsAccepted
  <2>6. Stored(s, legs)
    BY <2>2, <2>3, <2>5 DEF Stored
  <2> QED BY <1>2, <2>6 DEF s
<1> QED BY <1>3, <1>4

(* A result of the system as a form or a call states it, of a plan whose   *)
(* planned R is at hand, is accepted beside the plan.                      *)
LEMMA SystemStores ==
  ASSUME NEW r, r.plan \in Plan, r.plannedR = PlannedR(r.plan), PlanComposes(r.direction, r.plan),
         \/ r.system \in {Pending, NoTrade}
         \/ \E q \in Resolution : Resolvable(r.direction, r.plan, q) /\ r.system = Resolved(r.plan, q)
  PROVE  r.system \in System /\ SystemAccepted(r) /\ Settled(r.system)
<1> DEFINE p == r.plan
           s == r.system
<1>1. CASE s \in {Pending, NoTrade}
  <2>1. s.status # "resolved"
    BY <1>1 DEF Pending, NoTrade
  <2>2. s \in System
    BY <1>1 DEF System, Pending, NoTrade, OrNull
  <2> QED BY <1>1, <2>1, <2>2 DEF SystemAccepted, Settled
<1>2. ASSUME NEW q \in Resolution, Resolvable(r.direction, p, q), s = Resolved(p, q)
      PROVE  s \in System /\ SystemAccepted(r) /\ Settled(s)
  <2> DEFINE gross == SystemGrossR(p, q.kind, q.input)
  <2>1. /\ q.kind \in Kinds /\ q.cost \in Costs
        /\ q.kind = "price_exit" => q.input \in PlanPrices
        /\ q.kind = "money_custom" => q.input \in Grosses
    BY DEF Resolution, Kinds
  <2>2. /\ p.risk \in OrNull(Risks) /\ p.reward \in OrNull(Rewards)
        /\ p.entry \in OrNull(PlanPrices) /\ p.stop \in OrNull(PlanPrices)
    BY DEF Plan
  <2>3. q.kind # "price_exit" => p.risk # Null /\ p.entry = Null /\ p.stop = Null /\ HasMoneyPlan(p)
    BY <1>2 DEF Resolvable, HasPricePlan, HasMoneyPlan, PlanComposes, RiskContext
  <2>4. q.kind # "price_exit" => gross \in MoneyGrosses
    <3>1. CASE q.kind = "money_target"
      BY <2>2, <2>3, <3>1 DEF SystemGrossR, MoneyR, MoneyGrosses, OrNull
    <3>2. CASE q.kind = "money_stop"
      BY <3>2 DEF SystemGrossR, MoneyGrosses
    <3>3. CASE q.kind = "money_break_even"
      BY <3>3 DEF SystemGrossR, MoneyGrosses
    <3>4. CASE q.kind = "money_custom"
      BY <2>1, <3>4 DEF SystemGrossR, MoneyGrosses
    <3> QED BY <2>1, <3>1, <3>2, <3>3, <3>4 DEF Kinds
  <2>5. q.kind = "price_exit" =>
          gross \in {"price"} \X OrNull(PlanPrices) \X OrNull(PlanPrices) \X PlanPrices
    BY <2>1, <2>2 DEF SystemGrossR, PriceR
  <2>6. q.kind = "money_target" => gross = r.plannedR
    BY <1>2, <2>3 DEF SystemGrossR, PlannedR, HasPricePlan, Resolvable
  <2> HIDE DEF gross
  <2>7. /\ s = [status |-> "resolved", kind |-> q.kind,
                input |-> IF q.kind = "price_exit" THEN q.input ELSE Null,
                gross |-> IF q.kind = "price_exit" THEN Null ELSE gross,
                cost |-> q.cost, r |-> <<gross, q.cost>>]
    BY <1>2 DEF Resolved, gross
  <2>8. s \in System
    <3> HIDE DEF MoneyGrosses
    <3>1. <<gross, q.cost>> \in
            (({"price"} \X OrNull(PlanPrices) \X OrNull(PlanPrices) \X PlanPrices) \cup MoneyGrosses) \X Costs
      BY <2>1, <2>4, <2>5
    <3> DEFINE pair == <<gross, q.cost>>
    <3> HIDE DEF pair, s
    <3> QED BY <2>1, <2>4, <2>7, <3>1 DEF System, OrNull, pair
  <2>9. s.status = "resolved" /\ s.kind = q.kind /\ s.cost = q.cost
        /\ s.input = (IF q.kind = "price_exit" THEN q.input ELSE Null)
        /\ s.gross = IF q.kind = "price_exit" THEN Null ELSE gross
    BY <2>7
  <2>10. q.kind # "price_exit" => gross # Null
    BY <2>4, NullAssumption
  <2>11. q.kind = "price_exit" => HasPricePlan(p)
    BY <1>2 DEF Resolvable
  <2>12. SystemAccepted(r)
    BY <2>3, <2>6, <2>9, <2>10, <2>11 DEF SystemAccepted
  <2> QED BY <2>1, <2>8, <2>9, <2>12 DEF Settled
<1> QED BY <1>1, <1>2

-----------------------------------------------------------------------------
(* Each call leaves its trade as the tables accept it. *)

StoresInv ==
  /\ TradesInv
  /\ exits = [t \in Trades |-> exits[t]]
  /\ \A t \in Trades : Stored(row[t], exits[t])

(* A trade without exits is open, as far as they say. *)
LEMMA NoExits == <<>> \in Seq(Exit) /\ ClosedBps(<<>>) < Whole /\ DOMAIN <<>> = {}
BY ClosedOfNone, TradeAssumption

(* What is stored of a trade as it is created. *)
LEMMA NewRowStores ==
  ASSUME NEW d \in Directions, NEW p \in NewPlans(d),
         NEW x \in Executions(d) \cup {NoExecution}
  PROVE  LET r == NewRow(d, p, x)
         IN /\ RowStored(r) /\ r.status \in {"planned", "open"} /\ r.actual = Null
            /\ DOMAIN r = DOMAIN NoRow
            /\ r.direction = d /\ r.plan = p /\ r.plannedR = PlannedR(p) /\ r.execution = x
            /\ x # NoExecution => r.status = "open"
<1> DEFINE r == NewRow(d, p, x)
<1>1. /\ DOMAIN r = DOMAIN NoRow /\ r.status = (IF x = NoExecution THEN "planned" ELSE "open")
      /\ r.deleted = FALSE /\ r.direction = d /\ r.plan = p /\ r.plannedR = PlannedR(p)
      /\ r.execution = x /\ r.actual = Null /\ r.system = Pending
  BY DEF NewRow, NoRow
<1>2. p \in Plan /\ ~Dual(p) /\ PlanComposes(d, p)
  BY DEF NewPlans
<1>3. x # NoExecution => x \in Execution /\ ExecutionComposes(d, x)
  BY DEF Executions
<1> HIDE DEF r
<1>4. r.system \in System /\ SystemAccepted(r) /\ Settled(r.system)
  BY <1>1, <1>2, SystemStores
<1>5. RowTyped(r)
  BY <1>1, <1>2, <1>3, <1>4 DEF RowTyped
<1>6. RowStored(r)
  BY <1>1, <1>2, <1>3, <1>4, <1>5 DEF RowStored
<1> QED BY <1>1, <1>6 DEF r

(* createTrade writes a row without exits. *)
LEMMA CreateStores ==
  ASSUME StoresInv, NEW t \in Trades, CreateTrade(t)
  PROVE  Stored(row'[t], exits'[t])
<1>1. /\ row[t].status = "none" /\ exits'[t] = exits[t]
      /\ \E d \in Directions : \E p \in NewPlans(d), x \in Executions(d) \cup {NoExecution} :
            row'[t] = NewRow(d, p, x)
  BY CreateEffect DEF StoresInv, TradesInv
<1>2. exits'[t] = <<>>
  BY <1>1, NoTradeYet DEF StoresInv, TradesInv
<1>3. /\ RowStored(row'[t]) /\ row'[t].status \in {"planned", "open"} /\ row'[t].actual = Null
  BY <1>1, NewRowStores
<1>4. ExitsAccepted(row'[t], exits'[t])
  BY <1>2, <1>3, NoExits DEF ExitsAccepted
<1> QED BY <1>2, <1>3, <1>4, NoExits DEF Stored

(* createCompletedTrade writes a row and the exits that close it. *)
LEMMA CompletedStores ==
  ASSUME StoresInv, NEW t \in Trades, CreateCompletedTrade(t)
  PROVE  Stored(row'[t], exits'[t])
<1> DEFINE legs == exits'[t]
<1>1. PICK d \in Directions :
        \E p \in NewPlans(d), x \in Executions(d) : \E s \in SystemResults(d, p) :
          Completes(t, d, p, x, s)
  BY CompletedEffect DEF StoresInv, TradesInv
<1>2. PICK p \in NewPlans(d), x \in Executions(d) : \E s \in SystemResults(d, p) :
          Completes(t, d, p, x, s)
  BY <1>1
<1>3. PICK s \in SystemResults(d, p) : Completes(t, d, p, x, s)
  BY <1>2
<1> DEFINE new == NewRow(d, p, x)
           r == row'[t]
<1>4. /\ legs \in Seq({e \in Exit : ShapeFits(x, e) /\ NotBefore(x, e)})
      /\ Realizes(d, x, legs) /\ ClosedBps(legs) = Whole
      /\ r = [new EXCEPT !.status = "closed", !.actual = Actual(x, legs), !.system = s]
  BY <1>3 DEF Completes
<1>5. /\ RowStored(new) /\ DOMAIN new = DOMAIN NoRow
      /\ new.direction = d /\ new.plan = p /\ new.plannedR = PlannedR(p) /\ new.execution = x
  BY NewRowStores
<1> HIDE DEF new, r
<1>6. /\ DOMAIN r = DOMAIN NoRow /\ r.status = "closed" /\ r.actual = Actual(x, legs) /\ r.system = s
      /\ \A f \in {"deleted", "direction", "plan", "plannedR", "execution"} : r[f] = new[f]
  BY <1>4, <1>5 DEF NoRow
<1>7. x \in Execution /\ ExecutionComposes(d, x) /\ p \in Plan /\ ~Dual(p) /\ PlanComposes(d, p)
  BY DEF Executions, NewPlans
<1>8. legs \in Seq(Exit) /\ \A i \in DOMAIN legs : ShapeFits(x, legs[i]) /\ NotBefore(x, legs[i])
  BY <1>4
<1>9. s \in {Pending, NoTrade} \/ \E q \in Resolution : Resolvable(d, p, q) /\ s = Resolved(p, q)
  BY DEF SystemResults
<1>10. r.system \in System /\ SystemAccepted(r) /\ Settled(r.system)
  BY <1>5, <1>6, <1>7, <1>9, SystemStores
<1>11. RowStored(r)
  BY <1>5, <1>6, <1>7, <1>10 DEF RowStored, RowTyped
<1>12. r.actual # Null
  BY <1>4, <1>6, <1>7, <1>8, ActualIsResult
<1>13. ExitsAccepted(r, legs)
  BY <1>4, <1>5, <1>6, <1>8 DEF ExitsAccepted
<1>14. Stored(r, legs)
  BY <1>6, <1>8, <1>11, <1>12, <1>13 DEF Stored
<1> QED BY <1>14 DEF r

(* A result of the system that follows the plan is still one. *)
LEMMA FollowingIsResult ==
  ASSUME NEW s \in System, Settled(s), NEW p \in Plan
  PROVE  /\ Repriced(s, p) \in System /\ Settled(Repriced(s, p))
         /\ (s.status = "resolved" /\ s.kind = "money_target" => p.risk # Null) =>
              Retargeted(s, p) \in System /\ Settled(Retargeted(s, p))
<1>1. /\ p.risk \in OrNull(Risks) /\ p.reward \in OrNull(Rewards)
      /\ p.entry \in OrNull(PlanPrices) /\ p.stop \in OrNull(PlanPrices)
  BY DEF Plan
<1>2. Repriced(s, p) \in System /\ Settled(Repriced(s, p))
  <2>1. CASE s.status = "resolved" /\ s.kind = "price_exit"
    <3> DEFINE r == <<PriceR(p, s.input), s.cost>>
    <3>1. s.input \in PlanPrices /\ s.cost \in Costs
      BY <2>1 DEF Settled
    <3>2. r \in ({"price"} \X OrNull(PlanPrices) \X OrNull(PlanPrices) \X PlanPrices) \X Costs
      BY <1>1, <3>1 DEF PriceR
    <3>3. Repriced(s, p) = [s EXCEPT !.r = r]
      BY <2>1 DEF Repriced
    <3> HIDE DEF r
    <3> QED BY <3>2, <3>3 DEF System, Settled
  <2>2. CASE ~(s.status = "resolved" /\ s.kind = "price_exit")
    BY <2>2 DEF Repriced
  <2> QED BY <2>1, <2>2
<1>3. ASSUME s.status = "resolved" /\ s.kind = "money_target" => p.risk # Null
      PROVE  Retargeted(s, p) \in System /\ Settled(Retargeted(s, p))
  <2>1. CASE s.status = "resolved" /\ s.kind = "money_target"
    <3> DEFINE r == <<MoneyR(p), s.cost>>
               gross == MoneyR(p)
    <3>1. s.cost \in Costs /\ p.risk \in Risks
      BY <1>1, <1>3, <2>1 DEF Settled, OrNull
    <3>2. gross \in MoneyGrosses
      BY <1>1, <3>1 DEF MoneyR, MoneyGrosses
    <3> HIDE DEF gross
    <3>3. r \in MoneyGrosses \X Costs
      BY <3>1, <3>2 DEF gross
    <3>4. Retargeted(s, p) = [s EXCEPT !.gross = gross, !.r = r]
      BY <2>1 DEF Retargeted, gross
    <3> HIDE DEF r
    <3> QED BY <3>2, <3>3, <3>4 DEF System, Settled
  <2>2. CASE ~(s.status = "resolved" /\ s.kind = "money_target")
    BY <2>2 DEF Retargeted
  <2> QED BY <2>1, <2>2
<1> QED BY <1>2, <1>3

(* Where nothing was resolved there is nothing to follow. *)
LEMMA NothingFollows ==
  ASSUME NEW s, NEW p, s.status # "resolved"
  PROVE  Repriced(s, p) = s /\ Retargeted(s, p) = s
BY DEF Repriced, Retargeted

(* A plan that does not have both prices has none, where it composes. *)
LEMMA NoPrices ==
  ASSUME NEW d, NEW p, PlanComposes(d, p), ~HasPricePlan(p)
  PROVE  p.entry = Null /\ p.stop = Null
BY DEF PlanComposes, HasPricePlan, RiskContext

(* updateTradePlan: the results of the system follow the plan. *)
LEMMA UpdateStores ==
  ASSUME StoresInv, NEW t \in Trades, UpdateTradePlan(t)
  PROVE  Stored(row'[t], exits'[t])
<1> DEFINE r == row[t]
           q == row'[t]
           s == r.system
<1>1. PICK p \in Plan :
        /\ ~Dual(p)
        /\ Touches(r, p) => MayReplan(r, p)
        /\ DOMAIN q = DOMAIN NoRow
        /\ q.plan = p /\ q.system = Followed(r, p)
        /\ q.plannedR = IF Touches(r, p) THEN PlannedR(p) ELSE r.plannedR
        /\ \A f \in {"status", "deleted", "direction", "execution", "actual"} : q[f] = r[f]
  BY UpdateRow DEF StoresInv, TradesInv
<1>2. r.status # "none" /\ exits'[t] = exits[t]
  BY UpdateRow DEF StoresInv, TradesInv, Live
<1>3. /\ Stored(r, exits[t]) /\ RowStored(r) /\ r.plannedR = PlannedR(r.plan)
      /\ s \in System /\ Settled(s) /\ SystemAccepted(r) /\ r.plan \in Plan
      /\ PlanComposes(r.direction, r.plan)
  BY <1>2 DEF StoresInv, TradesInv, ResultsCurrent, Stored, RowStored, RowTyped
<1> HIDE DEF r, q, s
<1>4. /\ PlanComposes(r.direction, p)
      /\ q.system \in System /\ Settled(q.system) /\ SystemAccepted(q)
  <2>1. CASE ~Touches(r, p)
    <3>1. /\ p.entry = r.plan.entry /\ p.stop = r.plan.stop /\ p.target = r.plan.target
          /\ p.risk = r.plan.risk /\ p.reward = r.plan.reward
      BY <1>3, <2>1 DEF Touches, Plan
    <3>2. PlanComposes(r.direction, p)
      BY <1>3, <3>1 DEF PlanComposes
    <3>3. q.system = s /\ q.plannedR = r.plannedR
      BY <1>1, <2>1 DEF Followed, s
    <3>4. SystemAccepted(q)
      BY <1>1, <1>3, <3>1, <3>3 DEF SystemAccepted, HasPricePlan, HasMoneyPlan, s
    <3> QED BY <1>3, <3>2, <3>3, <3>4
  <2>2. CASE Touches(r, p)
    <3>1. MayReplan(r, p) /\ PlanComposes(r.direction, p) /\ q.plannedR = PlannedR(p)
      BY <1>1, <2>2 DEF MayReplan
    <3>2. q.system = IF Shifts(r, p) THEN Retargeted(Repriced(s, p), p) ELSE Retargeted(s, p)
      BY <1>1, <2>2 DEF Followed, s
    <3>3. CASE s.status # "resolved"
      <4>1. q.system = s
        BY <3>2, <3>3, NothingFollows
      <4> QED BY <1>3, <3>1, <3>3, <4>1 DEF SystemAccepted, s
    <3>4. CASE s.status = "resolved" /\ s.kind = "price_exit"
      <4>1. HasPricePlan(p)
        BY <1>3, <3>1, <3>4 DEF MayReplan, Shifts, SystemAccepted, HasPricePlan, s
      <4>2. Repriced(s, p) \in System /\ Settled(Repriced(s, p)) /\ DOMAIN s = DOMAIN Pending
        BY <1>3, FollowingIsResult DEF System, Pending
      <4>3. /\ Repriced(s, p).kind = "price_exit" /\ Repriced(s, p).gross = s.gross
            /\ Repriced(s, p).status = "resolved"
        BY <3>4, <4>2, SystemFollows
      <4>4. Retargeted(Repriced(s, p), p) = Repriced(s, p) /\ Retargeted(s, p) = s
        BY <3>4, <4>3 DEF Retargeted
      <4>5. s.gross = Null
        BY <1>3, <3>4 DEF SystemAccepted, s
      <4>6. /\ q.system \in System /\ Settled(q.system) /\ q.system.status = "resolved"
            /\ q.system.kind = "price_exit" /\ q.system.gross = Null
        BY <1>3, <3>2, <3>4, <4>2, <4>3, <4>4, <4>5
      <4>7. SystemAccepted(q)
        BY <1>1, <4>1, <4>6 DEF SystemAccepted
      <4> QED BY <3>1, <4>6, <4>7
    <3>5. CASE s.status = "resolved" /\ s.kind # "price_exit"
      <4>1. ~HasPricePlan(p) /\ HasMoneyPlan(p) /\ (s.kind = "money_target" => p.reward # Null)
        BY <3>1, <3>5 DEF MayReplan, s
      <4>2. p.entry = Null /\ p.stop = Null /\ p.risk # Null
        BY <3>1, <4>1, NoPrices DEF HasMoneyPlan
      <4>3. Repriced(s, p) = s
        BY <3>5 DEF Repriced
      <4>4. q.system = Retargeted(s, p) /\ DOMAIN s = DOMAIN Pending
        BY <1>3, <3>2, <4>3 DEF System, Pending
      <4>5. q.system \in System /\ Settled(q.system)
        <5>1. Retargeted(s, p) \in System /\ Settled(Retargeted(s, p))
          BY <1>3, <4>2, FollowingIsResult
        <5> QED BY <4>4, <5>1
      <4>6. /\ q.system.status = "resolved" /\ q.system.kind = s.kind
            /\ IF s.kind = "money_target" THEN q.system.gross = MoneyR(p) ELSE q.system.gross = s.gross
        BY <3>5, <4>4, SystemFollows
      <4>7. s.kind = "money_target" => q.plannedR = MoneyR(p)
        BY <3>1, <4>1 DEF PlannedR
      <4>8. s.gross # Null /\ MoneyR(p) # Null
        <5>1. s.gross # Null
          BY <1>3, <3>5 DEF SystemAccepted, s
        <5>2. p.risk \in Risks /\ p.reward \in OrNull(Rewards)
          BY <4>2 DEF Plan, OrNull
        <5>3. MoneyR(p) \in MoneyGrosses
          BY <5>2 DEF MoneyR, MoneyGrosses
        <5> QED BY <5>1, <5>3, NullAssumption
      <4>9. SystemAccepted(q)
        BY <1>1, <3>5, <4>1, <4>2, <4>6, <4>7, <4>8 DEF SystemAccepted
      <4> QED BY <3>1, <4>5, <4>9
    <3> QED BY <3>3, <3>4, <3>5
  <2> QED BY <2>1, <2>2
<1>5. RowStored(q)
  BY <1>1, <1>3, <1>4 DEF RowStored, RowTyped
<1>6. Stored(q, exits[t])
  BY <1>1, <1>3, <1>5 DEF Stored, ExitsAccepted
<1> QED BY <1>2, <1>6 DEF q

(* The result of the system follows a plan that turned: one on prices by   *)
(* its new entry and stop, one in money is of a plan that has neither.     *)
LEMMA IdentityStores ==
  ASSUME StoresInv, NEW t \in Trades, CorrectTradeIdentity(t)
  PROVE  Stored(row'[t], exits'[t])
<1> DEFINE r == row[t]
           q == row'[t]
           s == r.system
<1>1. PICK direction \in Directions, entry \in PlanPrices \cup {row[t].plan.entry},
           stop \in PlanPrices \cup {row[t].plan.stop} :
        LET p == [row[t].plan EXCEPT !.entry = entry, !.stop = stop]
        IN /\ MayTurn(row[t], direction, p)
           /\ DOMAIN row'[t] = DOMAIN NoRow
           /\ row'[t].direction = direction
           /\ row'[t].plan = p /\ row'[t].system = Repriced(row[t].system, p)
           /\ row'[t].plannedR = PlannedR(p)
           /\ \A f \in {"status", "deleted", "execution", "actual"} : row'[t][f] = row[t][f]
  BY IdentityRow DEF StoresInv, TradesInv
<1> DEFINE p == [r.plan EXCEPT !.entry = entry, !.stop = stop]
<1>2. r.status # "none" /\ exits'[t] = exits[t]
  BY IdentityRow DEF StoresInv, TradesInv, Live
<1>3. /\ Stored(r, exits[t]) /\ RowStored(r) /\ r.plannedR = PlannedR(r.plan)
      /\ s \in System /\ Settled(s) /\ SystemAccepted(r) /\ r.plan \in Plan
      /\ r.direction \in Directions /\ r.execution \in Execution \cup {NoExecution}
      /\ PlanComposes(r.direction, r.plan)
  BY <1>2 DEF StoresInv, TradesInv, ResultsCurrent, Stored, RowStored, RowTyped
<1>4. /\ p \in Plan /\ p.entry = entry /\ p.stop = stop
      /\ p.target = r.plan.target /\ p.risk = r.plan.risk /\ p.reward = r.plan.reward
  BY <1>3 DEF Plan, OrNull
<1>5. /\ MayTurn(r, direction, p) /\ DOMAIN q = DOMAIN NoRow /\ q.direction = direction
      /\ q.plan = p /\ q.system = Repriced(s, p) /\ q.plannedR = PlannedR(p)
      /\ \A f \in {"status", "deleted", "execution", "actual"} : q[f] = r[f]
  BY <1>1
<1> HIDE DEF r, q, s, p
<1>6. /\ ~Dual(p) /\ PlanComposes(direction, p)
      /\ s.status = "resolved" =>
           IF s.kind = "price_exit" THEN HasPricePlan(p) ELSE p.entry = Null /\ p.stop = Null
      /\ r.execution.entry # Null =>
           RiskContext(direction, r.execution.entry, r.execution.stop)
  BY <1>5 DEF MayTurn, s
<1>7. q.system \in System /\ Settled(q.system) /\ DOMAIN s = DOMAIN Pending
  BY <1>3, <1>4, <1>5, FollowingIsResult DEF System, Pending
<1>8. SystemAccepted(q)
  <2>1. CASE s.status # "resolved"
    <3>1. q.system = s
      BY <1>5, <2>1, NothingFollows
    <3> QED BY <1>3, <2>1, <3>1 DEF SystemAccepted, s
  <2>2. CASE s.status = "resolved" /\ s.kind = "price_exit"
    <3>1. q.system.kind = "price_exit" /\ q.system.gross = s.gross /\ q.system.status = "resolved"
      BY <1>5, <1>7, <2>2, SystemFollows
    <3>2. s.gross = Null
      BY <1>3, <2>2 DEF SystemAccepted, s
    <3> QED BY <1>5, <1>6, <2>2, <3>1, <3>2 DEF SystemAccepted
  <2>3. CASE s.status = "resolved" /\ s.kind # "price_exit"
    <3>1. q.system = s
      BY <1>5, <2>3 DEF Repriced
    <3>2. /\ r.plan.entry = Null /\ r.plan.stop = Null /\ HasMoneyPlan(r.plan) /\ s.gross # Null
          /\ s.kind = "money_target" => s.gross = PlannedR(r.plan)
      BY <1>3, <2>3 DEF SystemAccepted, s
    <3>3. p.entry = Null /\ p.stop = Null
      BY <1>6, <2>3
    <3>4. PlannedR(p) = PlannedR(r.plan) /\ HasMoneyPlan(p)
      BY <1>4, <3>2, <3>3 DEF PlannedR, HasPricePlan, MoneyR, HasMoneyPlan
    <3> QED BY <1>5, <2>3, <3>1, <3>2, <3>3, <3>4 DEF SystemAccepted
  <2> QED BY <2>1, <2>2, <2>3
<1>9. q.status \in {"open", "closed"} => ExecutionComposes(direction, q.execution)
  <2> SUFFICES ASSUME q.status \in {"open", "closed"} PROVE ExecutionComposes(direction, q.execution)
    OBVIOUS
  <2>1. q.execution = r.execution /\ ExecutionComposes(r.direction, r.execution)
    BY <1>3, <1>5 DEF RowStored
  <2> QED BY <1>6, <2>1 DEF ExecutionComposes, RiskContext
<1>10. RowStored(q)
  BY <1>3, <1>4, <1>5, <1>6, <1>7, <1>8, <1>9 DEF RowStored, RowTyped
<1>11. Stored(q, exits[t])
  BY <1>3, <1>5, <1>10 DEF Stored, ExitsAccepted
<1> QED BY <1>2, <1>11 DEF q

(* openTrade, cancelTrade and softDeleteTrade write few columns. *)
LEMMA StatusStores ==
  ASSUME StoresInv, NEW t \in Trades, OpenTrade(t) \/ CancelTrade(t) \/ SoftDeleteTrade(t)
  PROVE  Stored(row'[t], exits'[t])
<1> DEFINE r == row[t]
           q == row'[t]
<1>1. /\ Stored(r, exits[t]) /\ RowStored(r) /\ DOMAIN r = DOMAIN NoRow /\ DOMAIN row = Trades
      /\ exits'[t] = exits[t]
  BY DEF StoresInv, TradesInv, RowsInv, Stored, RowStored, RowTyped,
         OpenTrade, CancelTrade, SoftDeleteTrade
<1>2. \/ /\ r.status = "planned"
         /\ \E x \in Executions(r.direction) : q = [r EXCEPT !.status = "open", !.execution = x]
      \/ r.status = "planned" /\ q = [r EXCEPT !.status = "canceled"]
      \/ q = [r EXCEPT !.deleted = TRUE]
  BY <1>1 DEF OpenTrade, CancelTrade, SoftDeleteTrade
<1> HIDE DEF r, q
<1>3. /\ r.status = "planned" => exits[t] = <<>> /\ r.actual = Null
      /\ r.status = "planned" => PlanComposes(r.direction, r.plan) /\ ~Dual(r.plan)
  BY <1>1 DEF Stored, RowStored, ExitsAccepted
<1>4. CASE r.status = "planned" /\
           \E x \in Executions(r.direction) : q = [r EXCEPT !.status = "open", !.execution = x]
  <2>1. PICK x \in Executions(r.direction) : q = [r EXCEPT !.status = "open", !.execution = x]
    BY <1>4
  <2>2. /\ DOMAIN q = DOMAIN NoRow /\ q.status = "open" /\ q.execution = x
        /\ \A f \in {"deleted", "direction", "plan", "plannedR", "actual", "system"} : q[f] = r[f]
    BY <1>1, <2>1 DEF NoRow
  <2>3. x \in Execution /\ ExecutionComposes(r.direction, x)
    BY DEF Executions
  <2>4. SystemAccepted(q)
    BY <1>1, <2>2 DEF RowStored, SystemAccepted
  <2>5. RowStored(q)
    BY <1>1, <1>3, <1>4, <2>2, <2>3, <2>4 DEF RowStored, RowTyped
  <2>6. ExitsAccepted(q, exits[t])
    BY <1>3, <1>4, <2>2, NoExits DEF ExitsAccepted
  <2>7. Stored(q, exits[t])
    BY <1>1, <1>3, <1>4, <2>2, <2>5, <2>6 DEF Stored
  <2> QED BY <1>1, <2>7 DEF q
<1>5. CASE r.status = "planned" /\ q = [r EXCEPT !.status = "canceled"]
  <2>1. /\ DOMAIN q = DOMAIN NoRow /\ q.status = "canceled"
        /\ \A f \in {"deleted", "direction", "plan", "plannedR", "execution", "actual", "system"} :
             q[f] = r[f]
    BY <1>1, <1>5 DEF NoRow
  <2>2. SystemAccepted(q)
    BY <1>1, <2>1 DEF RowStored, SystemAccepted
  <2>3. RowStored(q)
    BY <1>1, <1>3, <1>5, <2>1, <2>2 DEF RowStored, RowTyped
  <2>4. ExitsAccepted(q, exits[t])
    BY <1>3, <1>5, <2>1, NoExits DEF ExitsAccepted
  <2>5. Stored(q, exits[t])
    BY <1>1, <1>3, <1>5, <2>1, <2>3, <2>4 DEF Stored
  <2> QED BY <1>1, <2>5 DEF q
<1>6. CASE q = [r EXCEPT !.deleted = TRUE]
  <2>1. /\ DOMAIN q = DOMAIN NoRow /\ q.deleted = TRUE
        /\ \A f \in {"status", "direction", "plan", "plannedR", "execution", "actual", "system"} :
             q[f] = r[f]
    BY <1>1, <1>6 DEF NoRow
  <2>2. SystemAccepted(q)
    BY <1>1, <2>1 DEF RowStored, SystemAccepted
  <2>3. RowStored(q)
    BY <1>1, <2>1, <2>2 DEF RowStored, RowTyped
  <2>4. Stored(q, exits[t])
    BY <1>1, <2>1, <2>3 DEF Stored, ExitsAccepted
  <2> QED BY <1>1, <2>4 DEF q
<1> QED BY <1>2, <1>4, <1>5, <1>6

(* The calls on the result of the system write nothing else. *)
LEMMA SystemCallStores ==
  ASSUME StoresInv, NEW t \in Trades,
         \/ \E s \in Resolution : ResolveSystemTrade(t, s)
         \/ MarkSystemNoTrade(t)
         \/ CorrectSystemResolution(t)
  PROVE  Stored(row'[t], exits'[t])
<1> DEFINE r == row[t]
           q == row'[t]
<1>1. PICK s : /\ \/ s = NoTrade
                  \/ \E c \in Resolution : Resolvable(row[t].direction, row[t].plan, c)
                                           /\ s = Resolved(row[t].plan, c)
               /\ row' = [row EXCEPT ![t].system = s]
  BY Zenon DEF ResolveSystemTrade, MarkSystemNoTrade, CorrectSystemResolution
<1>2. /\ Stored(r, exits[t]) /\ RowStored(r) /\ DOMAIN r = DOMAIN NoRow /\ DOMAIN row = Trades
      /\ exits'[t] = exits[t] /\ r.status # "none" /\ r.plannedR = PlannedR(r.plan)
  BY DEF StoresInv, TradesInv, RowsInv, Stored, RowStored, RowTyped, Live, ResultsCurrent,
         ResolveSystemTrade, MarkSystemNoTrade, CorrectSystemResolution
<1>3. q = [r EXCEPT !.system = s]
  BY <1>1, <1>2
<1>4. \/ s = NoTrade
      \/ \E c \in Resolution : Resolvable(r.direction, r.plan, c) /\ s = Resolved(r.plan, c)
  BY <1>1
<1> HIDE DEF r, q
<1>5. /\ DOMAIN q = DOMAIN NoRow /\ q.system = s
      /\ \A f \in {"status", "deleted", "direction", "plan", "plannedR", "execution", "actual"} :
           q[f] = r[f]
  BY <1>2, <1>3 DEF NoRow
<1>6. q.plan \in Plan /\ PlanComposes(q.direction, q.plan) /\ q.plannedR = PlannedR(q.plan)
  BY <1>2, <1>5 DEF RowStored, RowTyped
<1>7. \/ q.system \in {Pending, NoTrade}
      \/ \E c \in Resolution : Resolvable(q.direction, q.plan, c) /\ q.system = Resolved(q.plan, c)
  BY <1>4, <1>5
<1>8. q.system \in System /\ SystemAccepted(q) /\ Settled(q.system)
  BY <1>6, <1>7, SystemStores
<1>9. RowStored(q)
  BY <1>2, <1>5, <1>8 DEF RowStored, RowTyped
<1>10. Stored(q, exits[t])
  BY <1>2, <1>5, <1>9 DEF Stored, ExitsAccepted
<1> QED BY <1>2, <1>10 DEF q

(* A corrected execution is one that the exits fit. *)
LEMMA ExecutionStores ==
  ASSUME StoresInv, NEW t \in Trades, CorrectTradeExecution(t)
  PROVE  Stored(row'[t], exits'[t])
<1> DEFINE r == row[t]
           q == row'[t]
           legs == exits[t]
<1>1. PICK x \in Executions(row[t].direction) :
        /\ exits[t] # <<>> =>
             x.mode = row[t].execution.mode /\ Realizes(row[t].direction, x, exits[t])
        /\ \A i \in DOMAIN exits[t] : exits[t][i].at >= x.entered
        /\ row[t].status = "closed" => exits[t] # <<>> /\ ClosedBps(exits[t]) = Whole
        /\ row' = [row EXCEPT ![t].execution = x,
                              ![t].actual = IF row[t].status = "closed"
                                            THEN Actual(x, exits[t]) ELSE Null]
  BY Zenon DEF CorrectTradeExecution
<1> DEFINE actual == IF r.status = "closed" THEN Actual(x, legs) ELSE Null
<1>2. /\ Stored(r, legs) /\ RowStored(r) /\ DOMAIN r = DOMAIN NoRow /\ DOMAIN row = Trades
      /\ exits'[t] = legs /\ legs \in Seq(Exit) /\ r.status \in {"open", "closed"}
  BY DEF StoresInv, TradesInv, RowsInv, Stored, RowStored, RowTyped, CorrectTradeExecution
<1>3. q = [r EXCEPT !.execution = x, !.actual = actual]
  BY <1>1, <1>2 DEF NoRow
<1>4. /\ legs # <<>> => x.mode = r.execution.mode /\ Realizes(r.direction, x, legs)
      /\ \A i \in DOMAIN legs : legs[i].at >= x.entered
      /\ r.status = "closed" => legs # <<>> /\ ClosedBps(legs) = Whole
      /\ x \in Execution /\ ExecutionComposes(r.direction, x)
  BY <1>1 DEF Executions
<1>5. r.status = "closed" => actual # Null
  BY <1>2, <1>4, ActualIsResult
<1>6. r.status # "closed" => actual = Null
  OBVIOUS
<1> HIDE DEF r, q, legs, actual
<1>7. /\ DOMAIN q = DOMAIN NoRow /\ q.execution = x /\ q.actual = actual
      /\ \A f \in {"status", "deleted", "direction", "plan", "plannedR", "system"} : q[f] = r[f]
  BY <1>2, <1>3 DEF NoRow
<1>8. SystemAccepted(q)
  BY <1>2, <1>7 DEF RowStored, SystemAccepted
<1>9. RowStored(q)
  BY <1>2, <1>4, <1>7, <1>8 DEF RowStored, RowTyped
<1>10. \A i \in DOMAIN legs : ShapeFits(x, legs[i]) /\ NotBefore(x, legs[i])
  <2> SUFFICES ASSUME NEW i \in DOMAIN legs PROVE ShapeFits(x, legs[i]) /\ NotBefore(x, legs[i])
    OBVIOUS
  <2>1. legs # <<>>
    OBVIOUS
  <2>2. ShapeFits(r.execution, legs[i])
    BY <1>2 DEF Stored, ExitsAccepted
  <2>3. x.entered # Null
    BY <1>4, ComposedIsOne, TradeAssumption
  <2> QED BY <1>4, <2>1, <2>2, <2>3 DEF ShapeFits, NotBefore
<1>11. ExitsAccepted(q, legs)
  BY <1>2, <1>7, <1>10 DEF Stored, ExitsAccepted
<1>12. Stored(q, legs)
  BY <1>2, <1>5, <1>6, <1>7, <1>9, <1>11 DEF Stored
<1> QED BY <1>2, <1>12 DEF q

(* An exit more, of no more than what remains of the position. *)
LEMMA AppendStores ==
  ASSUME NEW r, NEW legs, Stored(r, legs), r.status = "open",
         NEW e \in Exit, ShapeFits(r.execution, e), NotBefore(r.execution, e),
         e.bps \in 1..(Whole - ClosedBps(legs))
  PROVE  /\ Realizes(r.direction, r.execution, Append(legs, e))
         /\ Stored(PersistAggregate(r, Append(legs, e)), Append(legs, e))
<1> DEFINE more == Append(legs, e)
<1>1. /\ RowStored(r) /\ legs \in Seq(Exit)
      /\ \A i \in DOMAIN legs : ShapeFits(r.execution, legs[i]) /\ NotBefore(r.execution, legs[i])
  BY DEF Stored, ExitsAccepted
<1>2. /\ DOMAIN more = DOMAIN legs \cup {Len(legs) + 1} /\ more \in Seq(Exit)
      /\ \A i \in DOMAIN legs : more[i] = legs[i]
      /\ more[Len(legs) + 1] = e
  <2>1. legs \in Seq(Range(legs))
    BY <1>1, SeqOfRange
  <2>2. more \in Seq(Exit)
    BY <1>1
  <2> QED BY <2>1, <2>2, AppendKeeps
<1> HIDE DEF more
<1>3. \A i \in DOMAIN more : ShapeFits(r.execution, more[i]) /\ NotBefore(r.execution, more[i])
  BY <1>1, <1>2
<1>4. ClosedBps(more) <= Whole
  <2>1. ClosedBps(more) = ClosedBps(legs) + e.bps
    BY <1>1, ClosedOfAppend DEF more
  <2> QED BY <1>1, <2>1, ClosedType, TradeAssumption
<1>5. Realizes(r.direction, r.execution, more) /\ Stored(PersistAggregate(r, more), more)
  BY <1>1, <1>2, <1>3, <1>4, AggregateStores
<1> QED BY <1>5 DEF more

(* The shared body of the calls that add an exit, *)
LEMMA AddStores ==
  ASSUME StoresInv, NEW t \in Trades, NEW e, AddExit(t, e),
         e.key \in OrNull(Keys), e.price \in OrNull(Prices), e.pnl \in OrNull(Profits), e.at \in Times,
         DOMAIN e = {"key", "bps", "price", "pnl", "at"},
         e = [key |-> e.key, bps |-> e.bps, price |-> e.price, pnl |-> e.pnl, at |-> e.at]
  PROVE  Stored(row'[t], exits'[t])
<1> DEFINE r == row[t]
           legs == exits[t]
<1>1. /\ Stored(r, legs) /\ legs \in Seq(Exit) /\ DOMAIN row = Trades /\ DOMAIN exits = Trades
  BY DEF StoresInv, TradesInv, RowsInv, Stored
<1>2. /\ r.status = "open" /\ NotBefore(r.execution, e) /\ ShapeFits(r.execution, e)
      /\ e.bps \in 1..(Whole - ClosedBps(legs))
      /\ exits' = [exits EXCEPT ![t] = Append(@, e)]
      /\ row' = [row EXCEPT ![t] = PersistAggregate(@, Append(exits[t], e))]
  BY Zenon DEF AddExit, Remaining
<1>3. exits'[t] = Append(legs, e) /\ row'[t] = PersistAggregate(r, Append(legs, e))
  BY <1>1, <1>2
<1>4. e.bps \in 1..Whole
  BY <1>1, <1>2, ClosedType, TradeAssumption
<1>5. e \in Exit
  BY <1>4 DEF Exit
<1> HIDE DEF r, legs
<1> QED BY <1>1, <1>2, <1>3, <1>5, AppendStores

(* and these two calls, addTradeExit and closeRemainingTrade. *)
LEMMA AddCallsStore ==
  ASSUME StoresInv, NEW t \in Trades, AddTradeExit(t) \/ CloseRemainingTrade(t)
  PROVE  Stored(row'[t], exits'[t])
<1>1. CASE AddTradeExit(t)
  <2>1. PICK key \in Keys, e \in ExitInput : AddExit(t, Keyed(key, e))
    BY <1>1 DEF AddTradeExit
  <2> DEFINE new == Keyed(key, e)
  <2>2. /\ new.key \in OrNull(Keys) /\ new.price \in OrNull(Prices) /\ new.pnl \in OrNull(Profits)
        /\ new.at \in Times /\ DOMAIN new = {"key", "bps", "price", "pnl", "at"}
        /\ new = [key |-> new.key, bps |-> new.bps, price |-> new.price, pnl |-> new.pnl, at |-> new.at]
    BY DEF Keyed, ExitInput, OrNull
  <2> HIDE DEF new
  <2> QED BY <2>1, <2>2, AddStores DEF new
<1>2. CASE CloseRemainingTrade(t)
  <2>1. PICK key \in Keys, e \in {f \in ExitInput : f.bps = 1} :
          AddExit(t, Keyed(key, [e EXCEPT !.bps = Remaining(t)]))
    BY <1>2 DEF CloseRemainingTrade
  <2> DEFINE rest == [e EXCEPT !.bps = Remaining(t)]
             new == Keyed(key, rest)
  <2>2. /\ new.key \in OrNull(Keys) /\ new.price \in OrNull(Prices) /\ new.pnl \in OrNull(Profits)
        /\ new.at \in Times /\ DOMAIN new = {"key", "bps", "price", "pnl", "at"}
        /\ new = [key |-> new.key, bps |-> new.bps, price |-> new.price, pnl |-> new.pnl, at |-> new.at]
    BY DEF Keyed, ExitInput, OrNull
  <2> HIDE DEF new
  <2> QED BY <2>1, <2>2, AddStores DEF new
<1> QED BY <1>1, <1>2

(* The older form of closing always composes, and leaves what              *)
(* persistAggregate would.                                                 *)
LEMMA CloseStores ==
  ASSUME StoresInv, NEW t \in Trades, NEW e \in CloseInput, CloseTrade(t, e)
  PROVE  Stored(row'[t], exits'[t])
<1> DEFINE new == [key |-> Null, bps |-> Remaining(t), price |-> e.price,
                   pnl |-> e.pnl, at |-> e.at]
           r == row[t]
           legs == exits[t]
           more == Append(legs, new)
           composes == Realizes(r.direction, r.execution, more)
           actual == Actual(r.execution, more)
<1>1. /\ r.status = "open" /\ NotBefore(r.execution, e) /\ r.execution.mode = "money"
      /\ Remaining(t) > 0
      /\ exits' = [exits EXCEPT ![t] = more]
      /\ row' = IF ~composes THEN row
                ELSE [row EXCEPT ![t].status = "closed", ![t].actual = actual]
  BY Zenon DEF CloseTrade
<1>2. /\ Stored(r, legs) /\ legs \in Seq(Exit) /\ DOMAIN row = Trades /\ DOMAIN exits = Trades
      /\ DOMAIN r = DOMAIN NoRow
  BY DEF StoresInv, TradesInv, RowsInv, RowInv, Stored
<1>3. Remaining(t) = Whole - ClosedBps(legs) /\ ClosedBps(legs) \in Nat /\ Whole \in Nat
  BY <1>2, ClosedType, TradeAssumption DEF Remaining
<1>4. Remaining(t) \in 1..Whole
  BY <1>1, <1>3
<1>5. /\ e.price \in Prices /\ e.pnl \in Profits /\ e.at \in Times
  BY DEF CloseInput
<1>6. new \in Exit /\ new.bps = Remaining(t) /\ new.pnl = e.pnl /\ new.at = e.at
  BY <1>4, <1>5 DEF Exit, OrNull
<1>7. ShapeFits(r.execution, new) /\ NotBefore(r.execution, new)
  BY <1>1, <1>5, <1>6, TradeAssumption DEF ShapeFits, NotBefore
<1> HIDE DEF new, r, legs
<1>8. composes /\ Stored(PersistAggregate(r, more), more)
  BY <1>1, <1>2, <1>3, <1>4, <1>6, <1>7, AppendStores
<1>9. ClosedBps(more) = Whole
  <2>1. ClosedBps(more) = ClosedBps(legs) + new.bps
    BY <1>2, <1>6, ClosedOfAppend
  <2> QED BY <1>3, <1>6, <2>1
<1>10. PersistAggregate(r, more) = [r EXCEPT !.status = "closed", !.actual = actual]
  BY <1>8, <1>9 DEF PersistAggregate
<1> HIDE DEF composes, actual, more
<1>11. exits'[t] = more /\ row'[t] = [r EXCEPT !.status = "closed", !.actual = actual]
  BY <1>1, <1>2, <1>8 DEF r, NoRow
<1> QED BY <1>8, <1>10, <1>11

(* correctTradeExit: the corrected exits fit and make up as much. *)
LEMMA CorrectExitStores ==
  ASSUME StoresInv, NEW t \in Trades, CorrectTradeExit(t)
  PROVE  Stored(row'[t], exits'[t])
<1> DEFINE r == row[t]
           legs == exits[t]
<1>1. PICK i \in DOMAIN exits[t], e \in ExitInput :
       LET changed == [exits[t] EXCEPT ![i] = Keyed(@.key, e)] IN
       /\ NotBefore(row[t].execution, e)
       /\ ShapeFits(row[t].execution, e)
       /\ IF row[t].status = "open" THEN ClosedBps(changed) < Whole ELSE ClosedBps(changed) = Whole
       /\ exits' = [exits EXCEPT ![t] = changed]
       /\ row' = [row EXCEPT ![t] = PersistAggregate(@, changed)]
  BY Zenon DEF CorrectTradeExit
<1> DEFINE new == Keyed(legs[i].key, e)
           now == [legs EXCEPT ![i] = new]
<1>2. /\ NotBefore(r.execution, e) /\ ShapeFits(r.execution, e)
      /\ IF r.status = "open" THEN ClosedBps(now) < Whole ELSE ClosedBps(now) = Whole
      /\ exits' = [exits EXCEPT ![t] = now]
      /\ row' = [row EXCEPT ![t] = PersistAggregate(@, now)]
  BY <1>1
<1>3. /\ Stored(r, legs) /\ RowStored(r) /\ legs \in Seq(Exit) /\ r.status \in {"open", "closed"}
      /\ DOMAIN row = Trades /\ DOMAIN exits = Trades
      /\ \A j \in DOMAIN legs : ShapeFits(r.execution, legs[j]) /\ NotBefore(r.execution, legs[j])
  BY DEF StoresInv, TradesInv, RowsInv, Stored, ExitsAccepted, CorrectTradeExit
<1>4. legs[i] \in Exit
  BY <1>3
<1>5. new \in Exit /\ ShapeFits(r.execution, new) /\ NotBefore(r.execution, new)
  BY <1>2, <1>4 DEF Keyed, ExitInput, Exit, ShapeFits, NotBefore
<1> HIDE DEF new
<1>6. /\ now \in Seq(Exit) /\ DOMAIN now = DOMAIN legs /\ now[i] = new
      /\ \A j \in DOMAIN legs : j # i => now[j] = legs[j]
  BY <1>3, <1>5
<1> HIDE DEF now, legs, r
<1>7. \A j \in DOMAIN now : ShapeFits(r.execution, now[j]) /\ NotBefore(r.execution, now[j])
  BY <1>3, <1>5, <1>6
<1>8. ClosedBps(now) <= Whole /\ (r.status = "closed" => ClosedBps(now) = Whole)
  <2>1. ClosedBps(now) \in Nat /\ Whole \in Nat
    BY <1>6, ClosedType, TradeAssumption
  <2> QED BY <1>2, <1>3, <2>1
<1>9. Stored(PersistAggregate(r, now), now)
  BY <1>3, <1>6, <1>7, <1>8, AggregateStores
<1>10. exits'[t] = now /\ row'[t] = PersistAggregate(r, now)
  BY <1>2, <1>3 DEF r
<1> QED BY <1>9, <1>10

(* Every step is a call on one trade, which it leaves as accepted. *)
LEMMA NextStores ==
  ASSUME StoresInv, Next
  PROVE  \E t \in Trades : TradeStep(t) /\ Stored(row'[t], exits'[t])
<1> USE DEF StoresInv, TradesInv
<1>1. PICK t \in Trades :
        \/ CreateTrade(t) \/ CreateCompletedTrade(t)
        \/ UpdateTradePlan(t) \/ CorrectTradeIdentity(t)
        \/ OpenTrade(t) \/ CancelTrade(t)
        \/ AddTradeExit(t) \/ CloseRemainingTrade(t) \/ (\E e \in CloseInput : CloseTrade(t, e))
        \/ CorrectTradeExecution(t) \/ CorrectTradeExit(t)
        \/ (\E s \in Resolution : ResolveSystemTrade(t, s)) \/ MarkSystemNoTrade(t)
        \/ CorrectSystemResolution(t)
        \/ SoftDeleteTrade(t)
  BY DEF Next
<1> SUFFICES TradeStep(t) /\ Stored(row'[t], exits'[t])
  BY Zenon
<1>2. RowsInv
  OBVIOUS
<1> USE ONLY <1>1, <1>2, StoresInv
<1>3. CASE CreateTrade(t)
  BY <1>3, CreateStep, CreateStores
<1>4. CASE CreateCompletedTrade(t)
  BY <1>4, CompletedStep, CompletedStores
<1>5. CASE UpdateTradePlan(t)
  BY <1>5, ReplanStep, UpdateStores
<1>6. CASE CorrectTradeIdentity(t)
  BY <1>6, ReplanStep, IdentityStores
<1>7. CASE OpenTrade(t) \/ CancelTrade(t) \/ SoftDeleteTrade(t)
  BY <1>7, StatusStep, StatusStores
<1>8. CASE AddTradeExit(t) \/ CloseRemainingTrade(t)
  BY <1>8, AddStep, AddCallsStore DEF AddTradeExit, CloseRemainingTrade
<1>9. CASE \E e \in CloseInput : CloseTrade(t, e)
  BY <1>9, CloseStep, CloseStores
<1>10. CASE CorrectTradeExecution(t)
  BY <1>10, ExecutionStep, ExecutionStores
<1>11. CASE CorrectTradeExit(t)
  BY <1>11, CorrectExitStep, CorrectExitStores
<1>12. CASE \/ \E s \in Resolution : ResolveSystemTrade(t, s)
            \/ MarkSystemNoTrade(t)
            \/ CorrectSystemResolution(t)
  BY <1>12, SystemStep, SystemCallStores
<1> QED BY <1>1, <1>3, <1>4, <1>5, <1>6, <1>7, <1>8, <1>9, <1>10, <1>11, <1>12

(* The empty tables are accepted. *)
LEMMA InitStores == Init => StoresInv
<1> SUFFICES ASSUME Init PROVE StoresInv
  OBVIOUS
<1>1. TradesInv
  BY InitInv
<1>2. ASSUME NEW t \in Trades PROVE Stored(row[t], exits[t])
  <2>1. row[t] = NoRow /\ exits[t] = <<>>
    BY DEF Init
  <2>2. /\ NoRow.status = "none" /\ NoRow.deleted = FALSE /\ NoRow.direction = "long"
        /\ NoRow.plan = NoPlan /\ NoRow.execution = NoExecution /\ NoRow.system = Pending
        /\ NoRow.actual = Null /\ Pending.status = "pending"
    BY DEF NoRow, Pending
  <2>3. NoPlan \in Plan /\ Pending \in System
    BY DEF NoPlan, Plan, Pending, System, OrNull
  <2>4. RowTyped(NoRow)
    BY <2>2, <2>3, Zenon DEF RowTyped, Directions
  <2>5. RowStored(NoRow)
    BY <2>2, <2>4 DEF RowStored, SystemAccepted, Settled
  <2>6. ExitsAccepted(NoRow, <<>>)
    BY <2>2, NoExits DEF ExitsAccepted
  <2>7. Stored(NoRow, <<>>)
    BY <2>2, <2>5, <2>6, NoExits DEF Stored
  <2> QED BY <2>1, <2>7
<1>3. exits = [t \in Trades |-> exits[t]]
  BY DEF Init
<1> QED BY <1>1, <1>2, <1>3 DEF StoresInv

(* A call writes the exits of a trade in their place, or leaves them. *)
LEMMA ExitsInPlace ==
  ASSUME exits = [t \in Trades |-> exits[t]], [Next]_vars
  PROVE  exits' = [t \in Trades |-> exits'[t]]
<1> DEFINE InPlace == \E t \in Trades : \E legs : exits' = [exits EXCEPT ![t] = legs]
<1>1. exits' = exits \/ InPlace
  <2>1. ASSUME NEW t \in Trades, CreateCompletedTrade(t) PROVE InPlace
    BY <2>1, Zenon DEF CreateCompletedTrade
  <2>2. ASSUME NEW t \in Trades, NEW e, AddExit(t, e) PROVE InPlace
    BY <2>2, Zenon DEF AddExit
  <2>3. ASSUME NEW t \in Trades, NEW e, CloseTrade(t, e) PROVE InPlace
    BY <2>3, Zenon DEF CloseTrade
  <2>4. ASSUME NEW t \in Trades, CorrectTradeExit(t) PROVE InPlace
    BY <2>4, Zenon DEF CorrectTradeExit
  <2>5. ASSUME NEW t \in Trades, AddTradeExit(t) \/ CloseRemainingTrade(t) PROVE InPlace
    BY <2>2, <2>5, Zenon DEF AddTradeExit, CloseRemainingTrade
  <2>6. ASSUME NEW t \in Trades,
               \/ CreateTrade(t) \/ UpdateTradePlan(t) \/ CorrectTradeIdentity(t)
               \/ OpenTrade(t) \/ CancelTrade(t) \/ CorrectTradeExecution(t)
               \/ (\E s \in Resolution : ResolveSystemTrade(t, s)) \/ MarkSystemNoTrade(t)
               \/ CorrectSystemResolution(t) \/ SoftDeleteTrade(t)
        PROVE  exits' = exits
    BY <2>6, Zenon DEF CreateTrade, UpdateTradePlan, CorrectTradeIdentity, OpenTrade, CancelTrade,
       CorrectTradeExecution, ResolveSystemTrade, MarkSystemNoTrade, CorrectSystemResolution,
       SoftDeleteTrade
  <2> HIDE DEF InPlace
  <2> QED BY <2>1, <2>3, <2>4, <2>5, <2>6, Zenon DEF Next, vars
<1>2. CASE exits' = exits
  BY <1>2
<1>3. ASSUME NEW t \in Trades, NEW legs, exits' = [exits EXCEPT ![t] = legs]
      PROVE  exits' = [u \in Trades |-> exits'[u]]
  BY <1>3
<1> QED BY <1>1, <1>2, <1>3

(* Every step keeps them so: the trade of the step by its call, others as is. *)
LEMMA StepStores == StoresInv /\ [Next]_vars => StoresInv'
<1> SUFFICES ASSUME StoresInv, [Next]_vars PROVE StoresInv'
  OBVIOUS
<1>1. TradesInv'
  BY StepInv DEF StoresInv
<1>2. ASSUME NEW u \in Trades PROVE Stored(row'[u], exits'[u])
  <2>1. CASE UNCHANGED vars
    BY <2>1 DEF StoresInv, vars
  <2>2. CASE Next
    <3>1. PICK t \in Trades : TradeStep(t) /\ Stored(row'[t], exits'[t])
      BY <2>2, NextStores
    <3>2. CASE u = t
      BY <3>1, <3>2
    <3>3. CASE u # t
      BY <3>1, <3>3 DEF TradeStep, OnlyChanges, StoresInv
    <3> QED BY <3>2, <3>3
  <2> QED BY <2>1, <2>2
<1>3. exits' = [t \in Trades |-> exits'[t]]
  BY ExitsInPlace DEF StoresInv
<1> QED BY <1>1, <1>2, <1>3 DEF StoresInv

(* Whatever is called, the tables accept every trade and its exits. *)
THEOREM StoresInvariance == Spec => []StoresInv
BY InitStores, StepStores, PTL DEF Spec

(* Every column of the two tables holds a value of its type, as every call *)
(* composes what it writes from checked inputs and stored columns.         *)
THEOREM ColumnsAreTyped == Spec => []TypeOK
<1>1. StoresInv => TypeOK
  <2> SUFFICES ASSUME StoresInv PROVE TypeOK
    OBVIOUS
  <2>1. DOMAIN row = Trades /\ DOMAIN exits = Trades
    BY DEF StoresInv, TradesInv, RowsInv
  <2>2. \A t \in Trades : RowTyped(row[t]) /\ exits[t] \in Seq(Exit)
    BY DEF StoresInv, Stored, RowStored
  <2>3. exits = [t \in Trades |-> exits[t]]
    BY DEF StoresInv
  <2> QED BY <2>1, <2>2, <2>3 DEF TypeOK, RowTyped
<1> QED BY <1>1, StoresInvariance, PTL

(* No call depends on a CHECK or a trigger of the tables to refuse what it *)
(* writes: the columns fit the status, plan and execution the direction,   *)
(* and the exits make up the whole of a closed trade and less of an open   *)
(* one, so that persistAggregate composes whatever exits are stored.       *)
THEOREM TablesAcceptEveryCall == Spec => []StorageAccepts
<1>1. StoresInv => StorageAccepts
  BY DEF StoresInv, Stored, RowStored, StorageAccepts, StatusAccepted
<1> QED BY <1>1, StoresInvariance, PTL
=============================================================================
