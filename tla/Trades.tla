------------------------------- MODULE Trades -------------------------------
(***************************************************************************)
(* The trades of one workspace: the rows of the tables trades and          *)
(* trade_exits, and the service calls of src/src/server/services/          *)
(* trade-management.ts, trade-execution.ts and trade-completed.ts that     *)
(* write them, with the calculations of src/src/lib/calc/trade.ts.         *)
(*                                                                         *)
(* Every call is one transaction that locks the workspace and then the     *)
(* trade row for its whole length (acquireTradeWriteContext), so a call is *)
(* one step; calls of any number of clients come in any order, repeated or *)
(* late.  A refused call changes nothing and is a disabled action.  The    *)
(* entitlement and an archived account or strategy may refuse a call too:  *)
(* they depend on nothing kept here and are modelled in TradingAccounts.   *)
(*                                                                         *)
(* The constraints and triggers of the tables are not guards here.  That   *)
(* the services never depend on them is what StorageAccepts states; the    *)
(* one call that does is CorrectTradeIdentity.                             *)
(*                                                                         *)
(* A ratio R is represented by what it was computed from: two equal        *)
(* representations have equal values, and a stale snapshot differs.  Times *)
(* are those a client states, all of them in the past.                     *)
(***************************************************************************)
EXTENDS Integers, Sequences, Functions

CONSTANTS
  Trades,      \* trades, by the mutation key of the create form
  Keys,        \* mutation keys of the exit form
  Whole,       \* the whole of a position: 10000 basis points in the code
  PlanPrices,  \* prices of plans and of system results
  Prices,      \* prices of executions and exits
  Risks,       \* initial risks, in minor units
  Rewards,     \* planned rewards, in minor units
  Profits,     \* realized results of exits, in minor units
  Costs,       \* costs of a system result, in R
  Grosses,     \* results a trader states for the system, in R
  Times,
  Null

ASSUME TradeAssumption ==
  /\ Whole \in Nat \ {0}
  /\ PlanPrices \cup Prices \cup Risks \cup Rewards \cup Profits \subseteq Int
  /\ Costs \cup Grosses \cup Times \subseteq Int
  /\ Null \notin Keys \cup PlanPrices \cup Prices \cup Risks \cup Rewards \cup Profits \cup Times

VARIABLES
  row,    \* trades
  exits   \* trade_exits of each trade, by sequence

vars == <<row, exits>>

Directions == {"long", "short"}
Modes      == {"price", "money"}

OrNull(S) == S \cup {Null}

-----------------------------------------------------------------------------
(* Plans. *)

Plan == [entry : OrNull(PlanPrices), stop : OrNull(PlanPrices), target : OrNull(PlanPrices),
         size : BOOLEAN, risk : OrNull(Risks), reward : OrNull(Rewards)]

NoPlan == [entry |-> Null, stop |-> Null, target |-> Null, size |-> FALSE, risk |-> Null, reward |-> Null]

HasPricePlan(p) == p.entry # Null /\ p.stop # Null
HasMoneyPlan(p) == p.risk # Null

(* The basis inferred from a plan is both price and money. *)
Dual(p) ==
  /\ p.entry # Null \/ p.stop # Null \/ p.target # Null \/ p.size
  /\ p.risk # Null \/ p.reward # Null

(* The stop is on the losing side of the entry. *)
RiskContext(direction, entry, stop) ==
  /\ entry # Null /\ stop # Null
  /\ IF direction = "long" THEN stop < entry ELSE stop > entry

Profitable(direction, entry, target) ==
  IF direction = "long" THEN target > entry ELSE target < entry

PlanComposes(direction, p) ==
  /\ \/ p.entry = Null /\ p.stop = Null /\ p.target = Null
     \/ /\ RiskContext(direction, p.entry, p.stop)
        /\ p.target # Null => Profitable(direction, p.entry, p.target)
  /\ p.risk # Null => p.risk > 0
  /\ p.reward # Null => p.risk # Null /\ p.reward >= 0

PriceR(p, price) == <<"price", p.entry, p.stop, price>>
MoneyR(p)        == <<"money", p.risk, p.reward>>

PlannedR(p) ==
  IF HasPricePlan(p) /\ p.target # Null THEN PriceR(p, p.target)
  ELSE IF p.reward # Null THEN MoneyR(p) ELSE Null

NewPlans(direction) == {p \in Plan : ~Dual(p) /\ PlanComposes(direction, p)}

-----------------------------------------------------------------------------
(* Executions and exits. *)

NoExecution == [mode |-> Null, entry |-> Null, stop |-> Null, risk |-> Null, entered |-> Null]

Execution == [mode : Modes, entry : OrNull(Prices), stop : OrNull(Prices),
              risk : OrNull(Risks), entered : Times]

ExecutionComposes(direction, x) ==
  IF x.mode = "price"
  THEN x.risk = Null /\ RiskContext(direction, x.entry, x.stop)
  ELSE /\ x.risk # Null /\ x.risk > 0
       /\ \/ x.entry = Null /\ x.stop = Null
          \/ RiskContext(direction, x.entry, x.stop)

Executions(direction) == {x \in Execution : ExecutionComposes(direction, x)}

Exit == [key : OrNull(Keys), bps : 1..Whole, price : OrNull(Prices),
         pnl : OrNull(Profits), at : Times]

(* What a client sends of an exit; the key comes with it or is generated. *)
ExitInput == [bps : 1..Whole, price : OrNull(Prices), pnl : OrNull(Profits), at : Times]

Keyed(key, e) == [key |-> key, bps |-> e.bps, price |-> e.price, pnl |-> e.pnl, at |-> e.at]

ShapeFits(x, e) ==
  IF x.mode = "price" THEN e.price # Null /\ e.pnl = Null
                      ELSE x.mode = "money" /\ e.pnl # Null

NotBefore(x, e) == x.entered # Null /\ e.at >= x.entered

ClosedBps(legs) == FoldFunction(LAMBDA e, n : e.bps + n, 0, legs)
NetPnl(legs)    == FoldFunction(LAMBDA e, n : e.pnl + n, 0, legs)

(* composeRealizedActual succeeds. *)
Realizes(direction, x, legs) ==
  /\ x.mode \in Modes
  /\ \A i \in DOMAIN legs : legs[i].bps \in 1..Whole
  /\ ClosedBps(legs) <= Whole
  /\ IF x.mode = "money"
     THEN x.risk # Null /\ x.risk > 0 /\ \A i \in DOMAIN legs : legs[i].pnl # Null
     ELSE /\ RiskContext(direction, x.entry, x.stop)
          /\ \A i \in DOMAIN legs : legs[i].price # Null /\ legs[i].pnl = Null

RealizedR(x, legs) ==
  IF x.mode = "money" THEN <<"money", x.risk, NetPnl(legs)>>
  ELSE <<"weighted", x.entry, x.stop,
         [i \in DOMAIN legs |-> <<legs[i].bps, legs[i].price>>]>>

(* The last exit by (exitedAt, sequence). *)
FinalExit(legs) ==
  legs[CHOOSE i \in DOMAIN legs :
         \A j \in DOMAIN legs : legs[j].at < legs[i].at \/ (legs[j].at = legs[i].at /\ j <= i)]

(* The columns a closed trade caches. *)
Actual(x, legs) ==
  [r     |-> RealizedR(x, legs),
   net   |-> IF x.mode = "money" THEN NetPnl(legs) ELSE Null,
   price |-> FinalExit(legs).price,
   at    |-> FinalExit(legs).at]

(* Mutant: the last exit does not close the trade. *)
PersistAggregateStaysOpen(r, legs) ==
  IF ~Realizes(r.direction, r.execution, legs) THEN r
  ELSE [r EXCEPT !.actual = IF ClosedBps(legs) # Whole THEN Null ELSE Actual(r.execution, legs)]

(* Mutant: a closed trade keeps the result it was closed with. *)
PersistAggregateOnce(r, legs) ==
  IF ~Realizes(r.direction, r.execution, legs) \/ r.status = "closed" THEN r
  ELSE IF ClosedBps(legs) # Whole THEN [r EXCEPT !.actual = Null]
  ELSE [r EXCEPT !.status = "closed", !.actual = Actual(r.execution, legs)]

(* persistAggregate: where the exits do not compose it returns an error,   *)
(* and the exits already written stay written.                             *)
PersistAggregate(r, legs) ==
  IF ~Realizes(r.direction, r.execution, legs) THEN r
  ELSE IF ClosedBps(legs) # Whole THEN [r EXCEPT !.actual = Null]
  ELSE [r EXCEPT !.status = "closed", !.actual = Actual(r.execution, legs)]

-----------------------------------------------------------------------------
(* Results of the system: what would have happened by the rules. *)

Kinds == {"price_exit", "money_target", "money_stop", "money_break_even", "money_custom"}

(* A price is text: padded is the form with ten decimals the table returns. *)
Resolution ==
  [kind : {"price_exit"}, input : PlanPrices, padded : BOOLEAN, cost : Costs] \cup
  [kind : {"money_custom"}, input : Grosses, padded : {TRUE}, cost : Costs] \cup
  [kind : Kinds \ {"price_exit", "money_custom"}, input : {Null}, padded : {TRUE}, cost : Costs]

SystemGrossR(p, kind, input) ==
  CASE kind = "price_exit"       -> PriceR(p, input)
    [] kind = "money_target"     -> MoneyR(p)
    [] kind = "money_stop"       -> <<"given", -1>>
    [] kind = "money_break_even" -> <<"given", 0>>
    [] kind = "money_custom"     -> <<"given", input>>

Resolvable(direction, p, s) ==
  /\ s.cost >= 0
  /\ IF s.kind = "price_exit"
     THEN HasPricePlan(p) /\ RiskContext(direction, p.entry, p.stop)
     ELSE ~HasPricePlan(p) /\ p.risk # Null /\ p.risk > 0
  /\ s.kind = "money_target" => p.reward # Null /\ p.reward >= 0

Pending == [status |-> "pending", kind |-> Null, input |-> Null, gross |-> Null,
            cost |-> 0, r |-> Null]
(* Mutant: the cost is cleared with the other columns. *)
NoTradeClearsCost == [Pending EXCEPT !.status = "no_trade", !.cost = Null]
NoTrade == [Pending EXCEPT !.status = "no_trade"]

(* The input is the system's exit price, and the gross R that of money. *)
Resolved(p, s) ==
  LET gross == SystemGrossR(p, s.kind, s.input) IN
  [status |-> "resolved", kind |-> s.kind,
   input  |-> IF s.kind = "price_exit" THEN s.input ELSE Null,
   gross  |-> IF s.kind = "price_exit" THEN Null ELSE gross,
   cost   |-> s.cost, r |-> <<gross, s.cost>>]

-----------------------------------------------------------------------------
(* Rows. *)

NoRow ==
  [status |-> "none", deleted |-> FALSE, direction |-> "long",
   plan |-> NoPlan, plannedR |-> Null, execution |-> NoExecution, actual |-> Null, system |-> Pending]

NewRow(direction, p, x) ==
  [status |-> IF x = NoExecution THEN "planned" ELSE "open", deleted |-> FALSE,
   direction |-> direction, plan |-> p, plannedR |-> PlannedR(p),
   execution |-> x, actual |-> Null, system |-> Pending]

Init ==
  /\ row = [t \in Trades |-> NoRow]
  /\ exits = [t \in Trades |-> <<>>]

(* lockTradeRow finds the trade. *)
Live(t) == row[t].status # "none" /\ ~row[t].deleted

Remaining(t) == Whole - ClosedBps(exits[t])

(* A form sent again finds the trade by its mutation key and changes       *)
(* nothing.  A trade given an execution is created open; the one a form    *)
(* leaves out at entry, its plan's own, is one of them.                    *)
CreateTrade(t) ==
  /\ row[t].status = "none"
  /\ \E direction \in Directions : \E p \in NewPlans(direction),
        x \in Executions(direction) \cup {NoExecution} :
       row' = [row EXCEPT ![t] = NewRow(direction, p, x)]
  /\ UNCHANGED exits

(* What the form may say of the system. *)
SystemResults(direction, p) ==
  {Pending, NoTrade} \cup
  {Resolved(p, s) : s \in {q \in Resolution : Resolvable(direction, p, q)}}

(* A trade created open, with its exits added and its system result. *)
CompletedRow(direction, p, x, legs, s) ==
  [PersistAggregate(NewRow(direction, p, x), legs) EXCEPT !.system = s]

(* Everything known at once: all of it is written or nothing.  The form    *)
(* states the basis of the plan, so there has to be one.                   *)
CreateCompletedTrade(t) ==
  /\ row[t].status = "none"
  /\ \E direction \in Directions :
     \E p \in NewPlans(direction) \ {NoPlan}, x \in Executions(direction), n \in 1..Whole :
     \E inputs \in [1..n -> {e \in ExitInput : ShapeFits(x, e) /\ NotBefore(x, e)}],
        s \in SystemResults(direction, p) :
       LET legs == [i \in 1..n |-> Keyed(Null, inputs[i])] IN
       /\ Realizes(direction, x, legs)
       /\ ClosedBps(legs) = Whole
       /\ exits' = [exits EXCEPT ![t] = legs]
       /\ row' = [row EXCEPT ![t] = CompletedRow(direction, p, x, legs, s)]

(* Mutant: a result on prices keeps its R. *)
RepricedNever(s, p) == s

(* Mutant: the gross R at the target is not written with the R. *)
RetargetedKeepsGross(s, p) ==
  IF s.status = "resolved" /\ s.kind = "money_target"
  THEN [s EXCEPT !.r = <<MoneyR(p), s.cost>>] ELSE s

(* A system result on prices follows the entry and stop of the plan, *)
(* a result at the money target follows the plan's R.                *)
Repriced(s, p) ==
  IF s.status = "resolved" /\ s.kind = "price_exit"
  THEN [s EXCEPT !.r = <<PriceR(p, s.input), s.cost>>] ELSE s

Retargeted(s, p) ==
  IF s.status = "resolved" /\ s.kind = "money_target"
  THEN [s EXCEPT !.gross = MoneyR(p), !.r = <<MoneyR(p), s.cost>>] ELSE s

(* p is the plan after the fields of the form are laid over the stored *)
(* ones, in any status.  The position size alone is not a plan field.  *)
UpdateTradePlan(t) ==
  /\ Live(t)
  /\ \E p \in {q \in Plan : ~Dual(q)} :
       LET r       == row[t]
           touched == p # [r.plan EXCEPT !.size = p.size]
           moved   == p.entry # r.plan.entry \/ p.stop # r.plan.stop
       IN /\ touched =>
               /\ HasPricePlan(p) \/ HasMoneyPlan(p)
               /\ PlanComposes(r.direction, p)
               /\ r.system.status = "resolved" =>
                    IF r.system.kind = "price_exit" THEN moved => HasPricePlan(p)
                    ELSE /\ ~HasPricePlan(p)
                         /\ r.system.kind = "money_target" => p.reward # Null
          /\ row' = [row EXCEPT ![t].plan = p,
                                ![t].plannedR = IF touched THEN PlannedR(p) ELSE @,
                                ![t].system = IF ~touched THEN @
                                              ELSE IF moved THEN Retargeted(Repriced(@, p), p)
                                              ELSE Retargeted(@, p)]
  /\ UNCHANGED exits

(* The direction, and the entry and stop that have to follow it.  That an  *)
(* execution stays valid in the new direction is checked by the table      *)
(* alone (trades_actual_price_shape_check): the transaction is aborted.    *)
CorrectTradeIdentity(t) ==
  /\ Live(t)
  /\ \E direction \in Directions, entry \in PlanPrices \cup {row[t].plan.entry},
        stop \in PlanPrices \cup {row[t].plan.stop} :
       LET r == row[t]
           p == [r.plan EXCEPT !.entry = entry, !.stop = stop]
       IN /\ ~Dual(p)
          /\ PlanComposes(direction, p)
          /\ r.system.status = "resolved" =>
               IF r.system.kind = "price_exit" THEN HasPricePlan(p)
               ELSE p.entry = Null /\ p.stop = Null
          /\ r.execution.entry # Null =>
               RiskContext(direction, r.execution.entry, r.execution.stop)
          /\ row' = [row EXCEPT ![t].direction = direction, ![t].plan = p,
                                ![t].plannedR = PlannedR(p),
                                ![t].system = Repriced(@, p)]
  /\ UNCHANGED exits

OpenTrade(t) ==
  /\ Live(t)
  /\ row[t].status = "planned"
  /\ \E x \in Executions(row[t].direction) :
       row' = [row EXCEPT ![t].status = "open", ![t].execution = x]
  /\ UNCHANGED exits

(* Mutant: a replay is looked for on the trade alone. *)
AddExitSearchesTrade(t, e) ==
  /\ Live(t)
  /\ \A i \in DOMAIN exits[t] : exits[t][i].key # e.key
  /\ row[t].status = "open"
  /\ NotBefore(row[t].execution, e)
  /\ ShapeFits(row[t].execution, e)
  /\ e.bps \in 1..Remaining(t)
  /\ exits' = [exits EXCEPT ![t] = Append(@, e)]
  /\ row' = [row EXCEPT ![t] = PersistAggregate(@, Append(exits[t], e))]

(* The shared body of addTradeExit and closeRemainingTrade.  An exit whose *)
(* key is known is a replay, or belongs to another trade.                  *)
AddExit(t, e) ==
  /\ Live(t)
  /\ \A u \in Trades : \A i \in DOMAIN exits[u] : exits[u][i].key # e.key
  /\ row[t].status = "open"
  /\ NotBefore(row[t].execution, e)
  /\ ShapeFits(row[t].execution, e)
  /\ e.bps \in 1..Remaining(t)
  /\ exits' = [exits EXCEPT ![t] = Append(@, e)]
  /\ row' = [row EXCEPT ![t] = PersistAggregate(@, Append(exits[t], e))]

AddTradeExit(t) ==
  \E key \in Keys, e \in ExitInput : AddExit(t, Keyed(key, e))

CloseRemainingTrade(t) ==
  \E key \in Keys, e \in {f \in ExitInput : f.bps = 1} :
    AddExit(t, Keyed(key, [e EXCEPT !.bps = Remaining(t)]))

(* The older form of closing, for results in money and without a key.  As  *)
(* in AddExit, the exit is written before the result is composed.          *)
CloseInput == [price : Prices, padded : BOOLEAN, pnl : Profits, at : Times]

CloseTrade(t, e) ==
  LET r    == row[t]
      legs == Append(exits[t], [key |-> Null, bps |-> Remaining(t), price |-> e.price,
                                pnl |-> e.pnl, at |-> e.at])
  IN /\ Live(t)
     /\ r.status = "open"
     /\ NotBefore(r.execution, e)
     /\ r.execution.mode = "money"
     /\ Remaining(t) > 0
     /\ exits' = [exits EXCEPT ![t] = legs]
     /\ row' = IF ~Realizes(r.direction, r.execution, legs) THEN row
               ELSE [row EXCEPT ![t].status = "closed", ![t].actual = Actual(r.execution, legs)]

(* What a closed trade answers to closeTrade: success to a call that says  *)
(* what is stored, an error to any other.  Prices are compared as texts.   *)
MatchesCloseRetry(t, e) ==
  /\ row[t].status = "closed"
  /\ row[t].actual.price = e.price /\ e.padded
  /\ row[t].actual.net = e.pnl
  /\ row[t].actual.at = e.at

(* Mutant: an open trade can be canceled. *)
CancelTradeOpen(t) ==
  /\ Live(t)
  /\ row[t].status \in {"planned", "open"}
  /\ row' = [row EXCEPT ![t].status = "canceled"]
  /\ UNCHANGED exits

CancelTrade(t) ==
  /\ Live(t)
  /\ row[t].status = "planned"
  /\ row' = [row EXCEPT ![t].status = "canceled"]
  /\ UNCHANGED exits

(* x is the execution after the fields of the form are laid over it. *)
CorrectTradeExecution(t) ==
  /\ Live(t)
  /\ row[t].status \in {"open", "closed"}
  /\ \E x \in Executions(row[t].direction) :
       LET r == row[t] legs == exits[t] IN
       /\ legs # <<>> => x.mode = r.execution.mode /\ Realizes(r.direction, x, legs)
       /\ \A i \in DOMAIN legs : legs[i].at >= x.entered
       /\ r.status = "closed" => legs # <<>> /\ ClosedBps(legs) = Whole
       /\ row' = [row EXCEPT ![t].execution = x,
                             ![t].actual = IF r.status = "closed" THEN Actual(x, legs) ELSE Null]
  /\ UNCHANGED exits

(* Mutant: the corrected exit is a new one. *)
CorrectTradeExitAnew(t) ==
  /\ Live(t)
  /\ row[t].status \in {"open", "closed"}
  /\ \E i \in DOMAIN exits[t], e \in ExitInput :
       LET legs == [exits[t] EXCEPT ![i] = Keyed(Null, e)] IN
       /\ NotBefore(row[t].execution, e)
       /\ ShapeFits(row[t].execution, e)
       /\ IF row[t].status = "open" THEN ClosedBps(legs) < Whole ELSE ClosedBps(legs) = Whole
       /\ exits' = [exits EXCEPT ![t] = legs]
       /\ row' = [row EXCEPT ![t] = PersistAggregate(@, legs)]

(* An exit keeps its key and its place, and the position its completeness. *)
CorrectTradeExit(t) ==
  /\ Live(t)
  /\ row[t].status \in {"open", "closed"}
  /\ \E i \in DOMAIN exits[t], e \in ExitInput :
       LET legs == [exits[t] EXCEPT ![i] = Keyed(@.key, e)] IN
       /\ NotBefore(row[t].execution, e)
       /\ ShapeFits(row[t].execution, e)
       /\ IF row[t].status = "open" THEN ClosedBps(legs) < Whole ELSE ClosedBps(legs) = Whole
       /\ exits' = [exits EXCEPT ![t] = legs]
       /\ row' = [row EXCEPT ![t] = PersistAggregate(@, legs)]

ResolveSystemTrade(t, s) ==
  /\ Live(t)
  /\ row[t].system.status = "pending"
  /\ Resolvable(row[t].direction, row[t].plan, s)
  /\ row' = [row EXCEPT ![t].system = Resolved(row[t].plan, s)]
  /\ UNCHANGED exits

(* A call that resolves to what is stored is answered as a success without *)
(* a write.  Its price is compared as a text with the stored one.          *)
MatchesSystemResolveRetry(t, s) ==
  /\ row[t].system = Resolved(row[t].plan, s)
  /\ s.padded

MarkSystemNoTrade(t) ==
  /\ Live(t)
  /\ row[t].system.status = "pending"
  /\ row' = [row EXCEPT ![t].system = NoTrade]
  /\ UNCHANGED exits

CorrectSystemResolution(t) ==
  /\ Live(t)
  /\ row[t].system.status \in {"resolved", "no_trade"}
  /\ \/ row' = [row EXCEPT ![t].system = NoTrade]
     \/ \E s \in Resolution :
          /\ Resolvable(row[t].direction, row[t].plan, s)
          /\ row' = [row EXCEPT ![t].system = Resolved(row[t].plan, s)]
  /\ UNCHANGED exits

(* There is no call that restores a deleted trade. *)
SoftDeleteTrade(t) ==
  /\ Live(t)
  /\ row' = [row EXCEPT ![t].deleted = TRUE]
  /\ UNCHANGED exits

Next ==
  \E t \in Trades :
    \/ CreateTrade(t) \/ CreateCompletedTrade(t)
    \/ UpdateTradePlan(t) \/ CorrectTradeIdentity(t)
    \/ OpenTrade(t) \/ CancelTrade(t)
    \/ AddTradeExit(t) \/ CloseRemainingTrade(t) \/ (\E e \in CloseInput : CloseTrade(t, e))
    \/ CorrectTradeExecution(t) \/ CorrectTradeExit(t)
    \/ (\E s \in Resolution : ResolveSystemTrade(t, s)) \/ MarkSystemNoTrade(t) \/ CorrectSystemResolution(t)
    \/ SoftDeleteTrade(t)

Spec == Init /\ [][Next]_vars

-----------------------------------------------------------------------------
(* Properties. *)

(* The R of a result of the system, in money or as given. *)
MoneyGrosses == ({"money"} \X Risks \X OrNull(Rewards)) \cup ({"given"} \X ({-1, 0} \cup Grosses))

System ==
  [status : {"pending", "resolved", "no_trade"}, kind : OrNull(Kinds),
   input : OrNull(PlanPrices), gross : {Null} \cup MoneyGrosses, cost : Costs \cup {0},
   r : {Null} \cup
       ((({"price"} \X OrNull(PlanPrices) \X OrNull(PlanPrices) \X PlanPrices) \cup MoneyGrosses)
          \X Costs)]

Actuals ==
  [r : ({"money"} \X Risks \X Int) \cup
       ({"weighted"} \X Prices \X Prices \X Seq((1..Whole) \X Prices)),
   net : OrNull(Int), price : OrNull(Prices), at : Times]

(* An absent value is no result. *)
ASSUME NullAssumption == Null \notin MoneyGrosses \cup Actuals

(* The columns of the two tables hold values of their types.  The cached   *)
(* result of a closed trade is the subject of ActualIsCurrent.             *)
TypeOK ==
  /\ exits \in [Trades -> Seq(Exit)]
  /\ DOMAIN row = Trades
  /\ \A t \in Trades :
       /\ DOMAIN row[t] = DOMAIN NoRow
       /\ row[t].status \in {"none", "planned", "open", "closed", "canceled"}
       /\ row[t].deleted \in BOOLEAN
       /\ row[t].direction \in Directions
       /\ row[t].plan \in Plan
       /\ row[t].execution \in Execution \cup {NoExecution}
       /\ row[t].system \in System

(* No call leaves rows that a CHECK or a trigger of the tables refuses, so *)
(* that none ends in a database error where the code promises an answer:   *)
(* columns fit the status (trades_status_consistency_check), plan and      *)
(* execution fit the direction, exits fit the mode and the time of entry,  *)
(* and they make up the whole of a closed trade and less of an open one.   *)
StatusAccepted(r) ==
  /\ r.status = "planned" => r.execution = NoExecution
  /\ r.status \in {"open", "closed"} => ExecutionComposes(r.direction, r.execution)
  /\ (r.status = "closed") = (r.actual # Null)
  /\ r.status # "none" => PlanComposes(r.direction, r.plan) /\ ~Dual(r.plan)

SystemAccepted(r) ==
  LET s == r.system IN
  /\ s.status # "resolved" => s \in {Pending, NoTrade}
  /\ s.status = "resolved" =>
       IF s.kind = "price_exit" THEN HasPricePlan(r.plan) /\ s.gross = Null
       ELSE /\ r.plan.entry = Null /\ r.plan.stop = Null /\ HasMoneyPlan(r.plan)
            /\ s.gross # Null
            /\ s.kind = "money_target" => s.gross = r.plannedR

ExitsAccepted(r, legs) ==
  /\ r.status \in {"none", "planned", "canceled"} => legs = <<>>
  /\ r.status = "open" => ClosedBps(legs) < Whole
  /\ r.status = "closed" => ClosedBps(legs) = Whole
  /\ \A i \in DOMAIN legs : ShapeFits(r.execution, legs[i]) /\ NotBefore(r.execution, legs[i])

StorageAccepts ==
  \A t \in Trades :
    StatusAccepted(row[t]) /\ SystemAccepted(row[t]) /\ ExitsAccepted(row[t], exits[t])

(* What a closed trade shows as its result, net profit and last exit is    *)
(* what its execution and its exits now give, after any corrections of     *)
(* either, in any order (persistAggregate and its two copies).             *)
ActualIsCurrent ==
  \A t \in Trades :
    row[t].status = "closed" => row[t].actual = Actual(row[t].execution, exits[t])

(* The planned R is that of the stored plan, and the result of the system  *)
(* that of the stored plan and resolution, whichever was edited last.      *)
ResultsCurrent(r) ==
  LET s == r.system IN
  /\ r.plannedR = PlannedR(r.plan)
  /\ s.status = "resolved" =>
       s.r = <<IF s.kind = "price_exit" THEN PriceR(r.plan, s.input)
               ELSE IF s.kind = "money_target" THEN MoneyR(r.plan) ELSE s.gross, s.cost>>

PlanResultsAreCurrent == \A t \in Trades : ResultsCurrent(row[t])

(* An exit sent again, on whichever trade and after whatever else, is one  *)
(* exit: a mutation key is stored once.                                    *)
ExitsComeOnce ==
  \A t, u \in Trades : \A i \in DOMAIN exits[t], j \in DOMAIN exits[u] :
    exits[t][i].key = exits[u][j].key /\ exits[t][i].key # Null => t = u /\ i = j

(* Planned trades open or are canceled, open ones close, and nothing comes *)
(* back; neither does a system result become pending again.                *)
StatusMovesForward ==
  [][\A t \in Trades :
       /\ row'[t].status # row[t].status =>
            <<row[t].status, row'[t].status>> \in
              ({"none"} \X {"planned", "open", "closed"}) \cup
              ({"planned"} \X {"open", "canceled"}) \cup {<<"open", "closed">>}
       /\ row[t].system.status # "pending" => row'[t].system.status # "pending"]_vars

(* A deleted trade is never written again, by no late or repeated call. *)
DeletedIsFrozen ==
  [][\A t \in Trades : row[t].deleted =>
       row'[t] = row[t] /\ exits'[t] = exits[t]]_vars

(* Exits are added while a trade is open and corrected in place: none is   *)
(* lost, moved or given another key, and a closed trade gets none.         *)
ExitsAreKept ==
  [][\A t \in Trades :
       /\ \A i \in DOMAIN exits[t] : i \in DOMAIN exits'[t] /\ exits'[t][i].key = exits[t][i].key
       /\ row[t].status = "closed" => Len(exits'[t]) = Len(exits[t])]_vars

(* The comment on closeTrade: an exact retry of the call that closed the   *)
(* trade is answered as a success.  The code compares the call with the    *)
(* totals it stored, so a call that followed a partial exit does not match *)
(* itself, however its price was typed.                                    *)
ExactCloseRetrySucceeds ==
  [][\A t \in Trades : \A e \in CloseInput :
       CloseTrade(t, e) /\ e.padded => MatchesCloseRetry(t, e)']_vars

(* The comment on resolveSystemTradeInTx: an exact retry of the call that  *)
(* resolved the system result succeeds.  The stored price comes back with  *)
(* ten decimals, so a price typed with fewer does not match itself.        *)
ExactSystemRetrySucceeds ==
  [][\A t \in Trades : \A s \in Resolution :
       ResolveSystemTrade(t, s) => MatchesSystemResolveRetry(t, s)']_vars

(* The calls implement the ledger that readers rely on: whatever is called *)
(* and in which order, a trade moves forward only, has a result exactly    *)
(* while closed and a system result exactly while resolved, and a deleted  *)
(* trade is never written again.                                           *)
Entry(t) ==
  [status |-> row[t].status, deleted |-> row[t].deleted, actual |-> row[t].actual,
   system |-> row[t].system.status, verdict |-> row[t].system.r]

Ledger == INSTANCE TradeLedger WITH ledger <- [t \in Trades |-> Entry(t)]

ImplementsTradeLedger == Ledger!Spec
=============================================================================
