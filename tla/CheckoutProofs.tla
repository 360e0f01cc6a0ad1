---------------------------- MODULE CheckoutProofs ----------------------------
(***************************************************************************)
(* Proofs about checkout for any number of keys, requests, servers, plans  *)
(* and currencies.                                                         *)
(***************************************************************************)
EXTENDS Checkout, SubscriptionLifecycleProofs

(* What TypeOK does not say and the steps rely on: a request in flight     *)
(* carries what its stage reads, and the provider it talks to has started. *)
RequestOK(r) ==
  /\ req[r].stage # "idle" =>
       /\ req[r].key \in Keys /\ req[r].server \in Servers
       /\ provider[req[r].server].boot \in Nat
  /\ req[r].stage = "preparing" =>
       req[r].plan \in Plans /\ req[r].currency \in Currencies
  /\ req[r].stage = "finalizing" => req[r].at \in Nat

RequestsOK == \A r \in Requests : RequestOK(r)

Inv == TypeOK /\ RequestsOK

LEMMA IdleOK == Idle \in Request
BY DEF Idle, Request

LEMMA NoRowOK == NoRow.status = "none" /\ ~IsOpen(NoRow) /\ ~IsTerminal(NoRow)
BY DEF NoRow, IsOpen, IsTerminal, Open, Terminal

LEMMA BootedOK ==
  ASSUME TypeOK, NEW s \in Servers
  PROVE  Booted(s) \in [boot : Nat, known : SUBSET Keys]
BY NullAssumption DEF TypeOK, Booted, Times

LEMMA PeriodOK ==
  ASSUME TypeOK, NEW s \in Servers, provider[s].boot \in Nat
  PROVE  PeriodOf(s) \in Period
BY TimeAssumption DEF TypeOK, PeriodOf, Period

(* One request moves on: the types of the others, and what their stages    *)
(* rely on, are untouched.                                                 *)
LEMMA AdvanceOK ==
  ASSUME Inv, NEW r \in Requests, NEW q \in Request, Advance(r, q),
         \A s \in Servers : provider[s].boot \in Nat => provider'[s].boot \in Nat,
         q.stage # "idle" =>
           /\ q.key \in Keys /\ q.server \in Servers
           /\ provider'[q.server].boot \in Nat,
         q.stage = "preparing" => q.plan \in Plans /\ q.currency \in Currencies,
         q.stage = "finalizing" => q.at \in Nat
  PROVE  req' \in [Requests -> Request] /\ RequestsOK'
<1>1. req \in [Requests -> Request]
  BY DEF Inv, TypeOK
<1>2. /\ req' \in [Requests -> Request]
      /\ req'[r] = q
      /\ \A p \in Requests \ {r} : req'[p] = req[p]
  BY <1>1 DEF Advance
<1>3. ASSUME NEW p \in Requests PROVE RequestOK(p)'
  <2>1. CASE p = r
    BY <1>2, <2>1 DEF RequestOK
  <2>2. CASE p # r
    BY <1>2, <2>2 DEF Inv, RequestsOK, RequestOK
  <2> QED
    BY <2>1, <2>2
<1> QED
  BY <1>2, <1>3 DEF RequestsOK

-----------------------------------------------------------------------------
(* The steps of a request. *)

LEMMA BeginCheckoutOK ==
  ASSUME Inv, NEW r \in Requests, NEW k \in Keys, NEW plan \in Plans,
         NEW currency \in Currencies, NEW s \in Servers,
         BeginCheckout(r, k, plan, currency, s)
  PROVE  Inv'
<1> DEFINE q == [Idle EXCEPT !.stage = "preparing", !.kind = "start", !.key = k,
                             !.plan = plan, !.currency = currency,
                             !.server = s, !.at = now]
<1>1. q \in Request /\ q.stage = "preparing" /\ q.key = k /\ q.server = s
      /\ q.plan = plan /\ q.currency = currency
  BY DEF Idle, Request, Inv, TypeOK
<1>2. Advance(r, q)
  BY DEF BeginCheckout
<1>3. /\ provider' \in [Servers -> [boot : Times, known : SUBSET Keys]]
      /\ provider'[s].boot \in Nat
      /\ \A z \in Servers : provider[z].boot \in Nat => provider'[z].boot \in Nat
  BY BootedOK DEF BeginCheckout, Inv, TypeOK, Times
<1> HIDE DEF q
<1>4. req' \in [Requests -> Request] /\ RequestsOK'
  BY <1>1, <1>2, <1>3, AdvanceOK
<1> QED
  BY <1>3, <1>4 DEF BeginCheckout, Inv, TypeOK

LEMMA BeginReconcileOK ==
  ASSUME Inv, NEW r \in Requests, NEW k \in Keys, NEW s \in Servers,
         BeginReconcile(r, k, s)
  PROVE  Inv'
<1> DEFINE q == [Idle EXCEPT !.stage = "calling", !.kind = "reconcile",
                             !.key = k, !.server = s]
<1>1. q \in Request /\ q.stage = "calling" /\ q.key = k /\ q.server = s
  BY DEF Idle, Request
<1>2. Advance(r, q)
  BY DEF BeginReconcile
<1>3. /\ provider' \in [Servers -> [boot : Times, known : SUBSET Keys]]
      /\ provider'[s].boot \in Nat
      /\ \A z \in Servers : provider[z].boot \in Nat => provider'[z].boot \in Nat
  BY BootedOK DEF BeginReconcile, Inv, TypeOK, Times
<1> HIDE DEF q
<1>4. req' \in [Requests -> Request] /\ RequestsOK'
  BY <1>1, <1>2, <1>3, AdvanceOK
<1> QED
  BY <1>3, <1>4 DEF BeginReconcile, Inv, TypeOK

(* A request that ends leaves nothing to check of itself. *)
LEMMA EndedOK ==
  ASSUME Inv, NEW r \in Requests, Advance(r, Idle), UNCHANGED provider
  PROVE  req' \in [Requests -> Request] /\ RequestsOK'
<1>1. Idle.stage = "idle"
  BY DEF Idle
<1> QED
  BY <1>1, IdleOK, AdvanceOK

(* A request that goes on to call the provider. *)
LEMMA CallingOK ==
  ASSUME Inv, NEW r \in Requests, NEW intent \in Intents \cup {Null},
         req[r].stage = "preparing", UNCHANGED provider,
         Advance(r, [req[r] EXCEPT !.stage = "calling", !.intent = intent,
                                   !.plan = Null, !.currency = Null, !.at = Null])
  PROVE  req' \in [Requests -> Request] /\ RequestsOK'
<1> DEFINE q == [req[r] EXCEPT !.stage = "calling", !.intent = intent,
                               !.plan = Null, !.currency = Null, !.at = Null]
<1>1. req[r] \in Request
  BY DEF Inv, TypeOK
<1>2. q \in Request /\ q.stage = "calling" /\ q.key = req[r].key
      /\ q.server = req[r].server
  BY <1>1 DEF Request
<1>3. Advance(r, q)
  OBVIOUS
<1>4. q.key \in Keys /\ q.server \in Servers /\ provider'[q.server].boot \in Nat
  BY <1>2 DEF Inv, RequestsOK, RequestOK
<1> HIDE DEF q
<1> QED
  BY <1>2, <1>3, <1>4, AdvanceOK

LEMMA PrepareNewOK ==
  ASSUME Inv, NEW r \in Requests, PrepareNew(r)
  PROVE  Inv'
<1>1. PICK intent \in CheckoutIntent(req[r].plan, req[r].currency, req[r].at) :
        Advance(r, [req[r] EXCEPT !.stage = "calling", !.intent = intent,
                                  !.plan = Null, !.currency = Null, !.at = Null])
  BY DEF PrepareNew
<1>2. ent.status \in Statuses
  BY DEF Inv, TypeOK, Entitlement
<1>3. intent \in Intents
  BY <1>1, <1>2 DEF CheckoutIntent, Intents, Statuses
<1>4. req' \in [Requests -> Request] /\ RequestsOK'
  BY <1>1, <1>3, CallingOK DEF PrepareNew
<1>5. req[r].plan \in Plans /\ req[r].currency \in Currencies
  BY DEF PrepareNew, Inv, RequestsOK, RequestOK
<1>6. [status |-> "created", plan |-> req[r].plan, currency |-> req[r].currency,
       referenced |-> FALSE] \in BillingRow
  BY <1>5 DEF BillingRow, Open
<1>7. tx' \in [Keys -> BillingRow \cup {NoRow}]
  BY <1>6 DEF PrepareNew, Inv, TypeOK
<1> QED
  BY <1>4, <1>7 DEF PrepareNew, Inv, TypeOK

LEMMA PrepareReusedOK ==
  ASSUME Inv, NEW r \in Requests, PrepareReused(r)
  PROVE  Inv'
<1>1. CASE Advance(r, Idle)
  BY <1>1, EndedOK DEF PrepareReused, Inv, TypeOK
<1>2. CASE Advance(r, [req[r] EXCEPT !.stage = "calling", !.plan = Null,
                                     !.currency = Null, !.at = Null])
  <2>1. req[r] \in Request
    BY DEF Inv, TypeOK
  <2>2. PICK intent \in Intents \cup {Null} : intent = req[r].intent
    BY <2>1 DEF Request
  <2>3. [req[r] EXCEPT !.stage = "calling", !.plan = Null,
                       !.currency = Null, !.at = Null]
        = [req[r] EXCEPT !.stage = "calling", !.intent = intent, !.plan = Null,
                         !.currency = Null, !.at = Null]
    BY <2>1, <2>2 DEF Request
  <2> QED
    BY <1>2, <2>2, <2>3, CallingOK DEF PrepareReused, Inv, TypeOK
<1> QED
  BY <1>1, <1>2 DEF PrepareReused

(* The provider's answer, and the clock reading after it. *)
LEMMA AnsweredOK ==
  ASSUME Inv, NEW r \in Requests,
         NEW answer \in {"processing", "succeeded", "failed", "canceled"},
         req[r].stage = "calling",
         \A s \in Servers : provider'[s].boot = provider[s].boot,
         Advance(r, [req[r] EXCEPT !.stage = "finalizing", !.answer = answer, !.at = now])
  PROVE  req' \in [Requests -> Request] /\ RequestsOK'
<1> DEFINE q == [req[r] EXCEPT !.stage = "finalizing", !.answer = answer, !.at = now]
<1>1. req[r] \in Request /\ now \in Nat
  BY DEF Inv, TypeOK
<1>2. q \in Request /\ q.stage = "finalizing" /\ q.key = req[r].key
      /\ q.server = req[r].server /\ q.at \in Nat
  BY <1>1 DEF Request
<1>3. Advance(r, q)
  OBVIOUS
<1>4. q.key \in Keys /\ q.server \in Servers /\ provider'[q.server].boot \in Nat
  BY <1>2 DEF Inv, RequestsOK, RequestOK
<1> HIDE DEF q
<1> QED
  BY <1>2, <1>3, <1>4, AdvanceOK

LEMMA AnswersOK ==
  ASSUME outcome \in AllOutcomes
  PROVE  /\ CreationAnswer \in {"processing", "succeeded", "failed", "canceled"}
         /\ RetrievalAnswer \in {"processing", "succeeded", "failed", "canceled"}
<1>1. CreationAnswer \in {"processing", "succeeded", "failed", "canceled"}
  BY DEF CreationAnswer, AllOutcomes
<1> QED
  BY <1>1 DEF RetrievalAnswer, AllOutcomes

LEMMA ProviderCreatesOK ==
  ASSUME Inv, NEW r \in Requests, ProviderCreates(r)
  PROVE  Inv'
<1>1. outcome \in AllOutcomes
  BY OutcomeAssumption DEF Inv, TypeOK
<1>2. req[r].key \in Keys /\ req[r].server \in Servers
  BY DEF ProviderCreates, Inv, RequestsOK, RequestOK
<1>3. provider' = [provider EXCEPT ![req[r].server].known = @ \cup {req[r].key}]
  BY DEF ProviderCreates
<1>4. /\ provider' \in [Servers -> [boot : Times, known : SUBSET Keys]]
      /\ \A s \in Servers : provider'[s].boot = provider[s].boot
  BY <1>2, <1>3 DEF Inv, TypeOK
<1>5. PICK answer \in {"processing", "succeeded", "failed", "canceled"} :
        answer = CreationAnswer
  BY <1>1, AnswersOK
<1>6. Advance(r, [req[r] EXCEPT !.stage = "finalizing", !.answer = answer, !.at = now])
  BY <1>5 DEF ProviderCreates
<1>7. req' \in [Requests -> Request] /\ RequestsOK'
  BY <1>4, <1>6, AnsweredOK DEF ProviderCreates
<1> QED
  BY <1>4, <1>7 DEF ProviderCreates, Inv, TypeOK

LEMMA ProviderRetrievesOK ==
  ASSUME Inv, NEW r \in Requests, ProviderRetrieves(r)
  PROVE  Inv'
<1>1. outcome \in AllOutcomes
  BY OutcomeAssumption DEF Inv, TypeOK
<1>2. PICK answer \in {"processing", "succeeded", "failed", "canceled"} :
        answer = RetrievalAnswer
  BY <1>1, AnswersOK
<1>3. CASE Advance(r, Idle)
  BY <1>3, EndedOK DEF ProviderRetrieves, Inv, TypeOK
<1>4. CASE Advance(r, [req[r] EXCEPT !.stage = "finalizing", !.answer = answer,
                                     !.at = now])
  BY <1>4, AnsweredOK DEF ProviderRetrieves, Inv, TypeOK
<1> QED
  BY <1>2, <1>3, <1>4 DEF ProviderRetrieves

(* Settling an open transaction, with what it keeps. *)
LEMMA SettleOK ==
  ASSUME Inv, NEW r \in Requests, Finalizing(r), StillOpen(r),
         NEW status \in (Open \cup Terminal), Settle(r, status)
  PROVE  /\ tx' \in [Keys -> BillingRow \cup {NoRow}]
         /\ req[r].key \in Keys
         /\ tx'[req[r].key] \in BillingRow
         /\ tx'[req[r].key].status = status
         /\ tx'[req[r].key].plan = tx[req[r].key].plan
         /\ tx'[req[r].key].currency = tx[req[r].key].currency
         /\ \A k \in Keys \ {req[r].key} : tx'[k] = tx[k]
<1> DEFINE key == req[r].key
           row == tx[key]
           settled == [row EXCEPT !.status = status, !.referenced = TRUE]
<1>1. key \in Keys /\ tx \in [Keys -> BillingRow \cup {NoRow}]
  BY DEF Finalizing, Inv, TypeOK, RequestsOK, RequestOK
<1>2. row \in BillingRow
  BY <1>1, NoRowOK DEF StillOpen
<1>3. settled \in BillingRow /\ settled.status = status /\ settled.plan = row.plan
      /\ settled.currency = row.currency
  BY <1>2 DEF BillingRow
<1>4. tx' = [tx EXCEPT ![key] = settled]
  BY <1>1, <1>2 DEF Settle, BillingRow
<1> HIDE DEF settled
<1> QED
  BY <1>1, <1>3, <1>4

LEMMA FinalizeUnpaidOK ==
  ASSUME Inv, NEW r \in Requests, FinalizeUnpaid(r)
  PROVE  Inv'
<1>1. req[r].answer \in Open \cup Terminal
  BY DEF FinalizeUnpaid, Open, Terminal
<1>2. tx' \in [Keys -> BillingRow \cup {NoRow}]
  BY <1>1, SettleOK DEF FinalizeUnpaid
<1>3. req' \in [Requests -> Request] /\ RequestsOK'
  BY EndedOK DEF FinalizeUnpaid
<1> QED
  BY <1>2, <1>3 DEF FinalizeUnpaid, Inv, TypeOK

(* A payment writes a well-formed row, and one called paid has the plan    *)
(* and the currency of the transaction it was paid with.                   *)
LEMMA ApplyPaymentOK ==
  ASSUME Inv, NEW r \in Requests, Finalizing(r), StillOpen(r),
         NEW intent, ApplyPayment(r, intent)
  PROVE  /\ RowOK(ent')
         /\ \/ UNCHANGED ent
            \/ /\ ent'.plan = tx[req[r].key].plan
               /\ ent'.currency = tx[req[r].key].currency
<1>1. RowOK(ent)
  BY DEF Inv, TypeOK, RowOK
<1>2. req[r].key \in Keys /\ req[r].at \in Nat /\ PeriodOf(req[r].server) \in Period
  BY PeriodOK DEF Finalizing, Inv, RequestsOK, RequestOK
<1>3. PICK plan, currency, per, at :
        /\ plan = tx[req[r].key].plan /\ currency = tx[req[r].key].currency
        /\ per = PeriodOf(req[r].server) /\ at = req[r].at
  OBVIOUS
<1>4. plan \in Plans /\ currency \in Currencies
  BY <1>2, <1>3, NoRowOK DEF StillOpen, Inv, TypeOK, BillingRow
<1>5. per \in Period /\ at \in Nat
  BY <1>2, <1>3
<1>6. ActivatePaid(plan, currency, per, at) \/ ApplyUpgrade(plan, currency, per, at)
  BY <1>3 DEF ApplyPayment
<1>7. RowOK(ent')
  BY <1>1, <1>4, <1>5, <1>6, ActivatePaidOK, ApplyUpgradeOK
<1>8. PICK n : n = NoSchedule(ent) /\ n \in Entitlement
  BY <1>1, NoScheduleOK DEF RowOK
<1>9. CASE ActivatePaid(plan, currency, per, at)
  BY <1>3, <1>7, <1>8, <1>9 DEF ActivatePaid, ActivatedRow, Entitlement
<1>10. CASE ApplyUpgrade(plan, currency, per, at)
  <2>1. n.currency = currency
    BY <1>1, <1>8, <1>10 DEF RowOK, Entitlement, NoSchedule, ApplyUpgrade, UpgradeAllowed
  <2> QED
    BY <1>3, <1>7, <1>8, <1>10, <2>1 DEF ApplyUpgrade, UpgradedRow, Entitlement
<1> QED
  BY <1>6, <1>9, <1>10

LEMMA FinalizePaidOK ==
  ASSUME Inv, NEW r \in Requests, FinalizePaid(r)
  PROVE  Inv'
<1>1. RowOK(ent')
  BY ApplyPaymentOK DEF FinalizePaid
<1>2. tx' \in [Keys -> BillingRow \cup {NoRow}]
  BY SettleOK DEF FinalizePaid, Terminal
<1>3. req' \in [Requests -> Request] /\ RequestsOK'
  BY EndedOK DEF FinalizePaid
<1> QED
  BY <1>1, <1>2, <1>3 DEF FinalizePaid, Inv, TypeOK, RowOK

LEMMA RestartOK ==
  ASSUME Inv, NEW s \in Servers, Restart(s)
  PROVE  Inv'
<1>1. provider' \in [Servers -> [boot : Times, known : SUBSET Keys]]
  BY DEF Restart, NotBooted, Inv, TypeOK, Times
<1>2. req' \in [Requests -> Request]
  BY IdleOK DEF Restart, Inv, TypeOK
<1>3. ASSUME NEW p \in Requests PROVE RequestOK(p)'
  <2>1. CASE req[p].server = s
    BY <2>1 DEF Restart, RequestOK, Idle
  <2>2. CASE req[p].server # s
    <3>1. req'[p] = req[p]
      BY <2>2 DEF Restart
    <3>2. \A z \in Servers \ {s} : provider'[z] = provider[z]
      BY DEF Restart, Inv, TypeOK
    <3> QED
      BY <2>2, <3>1, <3>2 DEF RequestOK, Inv, RequestsOK
  <2> QED
    BY <2>1, <2>2
<1> QED
  BY <1>1, <1>2, <1>3 DEF Restart, Inv, TypeOK, RequestsOK

(* What a step leaves alone keeps the invariant. *)
LEMMA UnchangedOK ==
  ASSUME Inv, UNCHANGED <<tx, outcome, provider, req>>, now' \in Nat, RowOK(ent')
  PROVE  Inv'
BY DEF Inv, TypeOK, RequestsOK, RequestOK, RowOK

LEMMA InvHolds == Spec => []Inv
<1>1. Init => Inv
  <2> SUFFICES ASSUME Init PROVE Inv
    OBVIOUS
  <2>1. now \in Nat /\ RowOK(ent)
    BY TrialRowOK, TimeAssumption DEF Init, LifecycleInit
  <2>2. tx \in [Keys -> BillingRow \cup {NoRow}] /\ outcome \in Outcomes
    BY DEF Init
  <2>3. provider \in [Servers -> [boot : Times, known : SUBSET Keys]]
    BY DEF Init, NotBooted, Times
  <2>4. req \in [Requests -> Request]
    BY IdleOK DEF Init
  <2>5. RequestsOK
    BY DEF Init, RequestsOK, RequestOK, Idle
  <2> QED
    BY <2>1, <2>2, <2>3, <2>4, <2>5 DEF Inv, TypeOK, RowOK
<1>2. Inv /\ [Next]_vars => Inv'
  <2> SUFFICES ASSUME Inv, [Next]_vars PROVE Inv'
    OBVIOUS
  <2>0. now \in Nat /\ RowOK(ent)
    BY DEF Inv, TypeOK, RowOK
  <2>1. CASE ClockTicks
    BY <2>1, <2>0, UnchangedOK DEF ClockTicks, Tick
  <2>2. CASE CustomerManages
    BY <2>2, <2>0, CustomerTransitionOK, UnchangedOK DEF CustomerManages
  <2>3. CASE AdminMutates
    BY <2>3, <2>0, AdminTransitionOK, UnchangedOK DEF AdminMutates
  <2>4. ASSUME NEW r \in Requests, CustomerRequests(r) PROVE Inv'
    BY <2>4, BeginCheckoutOK, BeginReconcileOK DEF CustomerRequests
  <2>5. ASSUME NEW r \in Requests, RequestProceeds(r) PROVE Inv'
    <3>1. CASE PrepareNew(r)
      BY <3>1, PrepareNewOK
    <3>2. CASE PrepareReused(r)
      BY <3>2, PrepareReusedOK
    <3>3. CASE PrepareRefused(r) \/ FinalizeStale(r) \/ FinalizeRefused(r)
      BY <3>3, EndedOK DEF PrepareRefused, FinalizeStale, FinalizeRefused, Inv, TypeOK
    <3>4. CASE ProviderCreates(r)
      BY <3>4, ProviderCreatesOK
    <3>5. CASE ProviderRetrieves(r)
      BY <3>5, ProviderRetrievesOK
    <3>6. CASE FinalizeUnpaid(r)
      BY <3>6, FinalizeUnpaidOK
    <3>7. CASE FinalizePaid(r)
      BY <3>7, FinalizePaidOK
    <3> QED
      BY <2>5, <3>1, <3>2, <3>3, <3>4, <3>5, <3>6, <3>7 DEF RequestProceeds
  <2>6. ASSUME NEW r \in Requests, RequestFails(r) PROVE Inv'
    BY <2>6, EndedOK DEF RequestFails, Inv, TypeOK
  <2>7. ASSUME NEW s \in Servers, Restart(s) PROVE Inv'
    BY <2>7, RestartOK
  <2>8. CASE UNCHANGED vars
    BY <2>8, <2>0, UnchangedOK DEF vars
  <2> QED
    BY <2>1, <2>2, <2>3, <2>4, <2>5, <2>6, <2>7, <2>8 DEF Next
<1> QED
  BY <1>1, <1>2, PTL DEF Spec

(* Whatever requests, crashes, restarts, the customer and the Admin do, no *)
(* step writes a row that the types or CHECK constraints of the two tables *)
(* reject.                                                                 *)
THEOREM CheckoutTypeCorrect == Spec => []TypeOK
<1>1. Inv => TypeOK
  BY DEF Inv
<1> QED
  BY <1>1, InvHolds, PTL

-----------------------------------------------------------------------------
(* The safety of the transactions. *)

(* The three ways a step treats the table of transactions: it leaves it,   *)
(* it adds an open row when none is open, or it settles an open row.       *)
Untouched == UNCHANGED tx

Placed ==
  \E k \in Keys : /\ tx[k] = NoRow /\ NoOpenCheckout
                  /\ tx'[k].status = "created"
                  /\ \A j \in Keys \ {k} : tx'[j] = tx[j]

Settled ==
  \E k \in Keys : IsOpen(tx[k]) /\ \A j \in Keys \ {k} : tx'[j] = tx[j]

LEMMA TransactionSteps ==
  ASSUME Inv, [Next]_vars
  PROVE  Untouched \/ Placed \/ Settled
<1>1. ASSUME NEW r \in Requests, PrepareNew(r) PROVE Placed
  <2>1. req[r].key \in Keys
    BY <1>1 DEF PrepareNew, Inv, RequestsOK, RequestOK
  <2>2. tx \in [Keys -> BillingRow \cup {NoRow}]
    BY DEF Inv, TypeOK
  <2> QED
    BY <1>1, <2>1, <2>2 DEF PrepareNew, Placed
<1>2. ASSUME NEW r \in Requests, FinalizeUnpaid(r) PROVE Settled
  <2>1. req[r].answer \in Open \cup Terminal
    BY <1>2 DEF FinalizeUnpaid, Open, Terminal
  <2> QED
    BY <1>2, <2>1, SettleOK DEF FinalizeUnpaid, Settled, StillOpen
<1>3. ASSUME NEW r \in Requests, FinalizePaid(r) PROVE Settled
  BY <1>3, SettleOK DEF FinalizePaid, Settled, StillOpen, Terminal
<1>4. ASSUME NEW r \in Requests, CustomerRequests(r) PROVE Untouched
  BY <1>4 DEF CustomerRequests, BeginCheckout, BeginReconcile, Untouched
<1>5. ASSUME NEW r \in Requests, RequestProceeds(r) PROVE Untouched \/ Placed \/ Settled
  BY <1>5, <1>1, <1>2, <1>3
     DEF RequestProceeds, PrepareReused, PrepareRefused, ProviderCreates,
         ProviderRetrieves, FinalizeStale, FinalizeRefused, Untouched
<1> QED
  BY <1>4, <1>5
     DEF Next, vars, ClockTicks, CustomerManages, AdminMutates, RequestFails,
         Restart, Untouched

(* Two checkouts are never open at once, for any number of concurrent      *)
(* requests and keys, although only a query under the lock prevents it.    *)
THEOREM CheckoutsExclude == Spec => []OneOpenCheckout
<1>1. Init => OneOpenCheckout
  BY NoRowOK DEF Init, OneOpenCheckout, OpenKeys
<1>2. Inv /\ OneOpenCheckout /\ [Next]_vars => OneOpenCheckout'
  <2> SUFFICES ASSUME Inv, OneOpenCheckout, [Next]_vars,
                      NEW j \in Keys, NEW k \in Keys, IsOpen(tx'[j]), IsOpen(tx'[k])
               PROVE  j = k
    BY DEF OneOpenCheckout, OpenKeys
  <2>1. CASE Untouched
    BY <2>1 DEF Untouched, OneOpenCheckout, OpenKeys
  <2>2. CASE Placed
    BY <2>2 DEF Placed, NoOpenCheckout, OpenKeys
  <2>3. CASE Settled
    BY <2>3 DEF Settled, OneOpenCheckout, OpenKeys
  <2> QED
    BY <2>1, <2>2, <2>3, TransactionSteps
<1> QED
  BY <1>1, <1>2, InvHolds, PTL DEF Spec

(* A settled transaction is never written again, in whatever order the     *)
(* answers of any number of servers arrive.                                *)
THEOREM TerminalTransactionsAreFinal == Spec => TerminalIsFinal
<1>1. Inv /\ [Next]_vars => [\A k \in Keys : IsTerminal(tx[k]) => tx'[k] = tx[k]]_vars
  <2> SUFFICES ASSUME Inv, [Next]_vars, NEW k \in Keys, IsTerminal(tx[k])
               PROVE  tx'[k] = tx[k]
    OBVIOUS
  <2>1. ~IsOpen(tx[k]) /\ tx[k] # NoRow
    BY NoRowOK DEF IsTerminal, IsOpen, Terminal, Open
  <2> QED
    BY <2>1, TransactionSteps DEF Untouched, Placed, Settled
<1> QED
  BY <1>1, InvHolds, PTL DEF Spec, TerminalIsFinal

-----------------------------------------------------------------------------
(* Paid access.  Only rows that were paid for have a period: a retry that  *)
(* finds its very period active, and an upgrade, meet no other row.        *)
PeriodIsPaid == ent.periodStart # Null => ent.source = "paid"

SourceIsKept == ent'.source = ent.source /\ ent'.periodStart = ent.periodStart

LEMMA CustomerKeepsPaidPart ==
  ASSUME RowOK(ent), CustomerTransition
  PROVE  SourceIsKept /\ ent'.plan = ent.plan /\ ent'.currency = ent.currency
BY DEF CustomerTransition, ScheduleDowngrade, CancelDowngrade, ScheduleCancellation,
       CancelCancellation, SourceIsKept, RowOK, Entitlement

(* No Admin mutation applies to a paid row or makes one. *)
LEMMA AdminKeepsUnpaid ==
  ASSUME RowOK(ent), PeriodIsPaid, AdminTransition
  PROVE  ent.source # "paid" /\ ent'.source # "paid" /\ ent'.periodStart = Null
<1>1. PICK c : c = CommercialFieldsCleared(ent) /\ c \in Entitlement
  BY CommercialFieldsClearedOK DEF RowOK
<1>2. c.periodStart = Null
  BY <1>1 DEF CommercialFieldsCleared, NoSchedule, RowOK, Entitlement
<1>3. ASSUME NEW newEnd \in 0 .. MaxTime, ExtendTrial(newEnd)
      PROVE  ent.source = "trial" /\ SourceIsKept
  BY <1>3 DEF ExtendTrial, SourceIsKept, RowOK, Entitlement
<1>4. ASSUME NEW plan \in Plans, GrantComplimentary(plan)
      PROVE  /\ ent.source # "paid"
             /\ \/ SourceIsKept
                \/ ent'.source = "complimentary" /\ ent'.periodStart = Null
  BY <1>1, <1>2, <1>4
     DEF GrantComplimentary, FreshGrant, SourceIsKept, RowOK, Entitlement
<1>5. ASSUME RevokeComplimentary
      PROVE  /\ ent.source = "complimentary"
             /\ ent'.source = "trial" /\ ent'.periodStart = Null
  BY <1>1, <1>2, <1>5 DEF RevokeComplimentary, Entitlement
<1> QED
  BY <1>3, <1>4, <1>5 DEF AdminTransition, PeriodIsPaid, SourceIsKept

LEMMA PaymentGrantsPaid ==
  ASSUME Inv, PeriodIsPaid, NEW r \in Requests, FinalizePaid(r)
  PROVE  /\ ent'.source = "paid"
         /\ ent'.plan = tx[req[r].key].plan
         /\ ent'.currency = tx[req[r].key].currency
<1>1. PICK plan, currency, per, at :
        /\ plan = tx[req[r].key].plan /\ currency = tx[req[r].key].currency
        /\ per = PeriodOf(req[r].server) /\ at = req[r].at
  OBVIOUS
<1>2. ActivatePaid(plan, currency, per, at) \/ ApplyUpgrade(plan, currency, per, at)
  BY <1>1 DEF FinalizePaid, ApplyPayment
<1>3. PICK n : n = NoSchedule(ent) /\ n \in Entitlement
  BY NoScheduleOK DEF RowOK, Inv, TypeOK
<1>4. n.source = ent.source /\ n.currency = ent.currency
  BY <1>3 DEF NoSchedule, Inv, TypeOK, Entitlement
<1>5. per \in Period
  BY <1>1, PeriodOK DEF FinalizePaid, Finalizing, Inv, RequestsOK, RequestOK
<1>6. CASE AlreadyActivated(plan, currency, per) /\ UNCHANGED ent
  <2>1. ent.periodStart # Null
    BY <1>5, <1>6, NullAssumption DEF AlreadyActivated, Period
  <2> QED
    BY <1>1, <1>6, <2>1 DEF AlreadyActivated, PeriodIsPaid
<1>7. CASE ent' = ActivatedRow(plan, currency, per)
  BY <1>1, <1>3, <1>7 DEF ActivatedRow, Entitlement
<1>8. CASE ApplyUpgrade(plan, currency, per, at)
  <2>1. ent.periodStart # Null /\ currency = ent.currency
    BY <1>8 DEF ApplyUpgrade, UpgradeAllowed, RequireActivePaid
  <2> QED
    BY <1>1, <1>3, <1>4, <1>8, <2>1
       DEF ApplyUpgrade, UpgradedRow, PeriodIsPaid, Entitlement
<1> QED
  BY <1>2, <1>6, <1>7, <1>8 DEF ActivatePaid

(* A step either leaves the row, is a customer's or an Admin's, or pays. *)
LEMMA EntitlementSteps ==
  ASSUME [Next]_vars
  PROVE  \/ UNCHANGED ent
         \/ CustomerManages
         \/ AdminMutates
         \/ \E r \in Requests : FinalizePaid(r)
BY DEF Next, vars, ClockTicks, CustomerRequests, BeginCheckout, BeginReconcile,
       RequestProceeds, PrepareNew, PrepareReused, PrepareRefused, ProviderCreates,
       ProviderRetrieves, FinalizeStale, FinalizeUnpaid, FinalizeRefused,
       RequestFails, Restart

LEMMA PeriodIsPaidHolds == Spec => []PeriodIsPaid
<1>1. Init => PeriodIsPaid
  BY DEF Init, LifecycleInit, TrialRow, PeriodIsPaid
<1>2. Inv /\ PeriodIsPaid /\ [Next]_vars => PeriodIsPaid'
  <2> SUFFICES ASSUME Inv, PeriodIsPaid, [Next]_vars PROVE PeriodIsPaid'
    OBVIOUS
  <2>0. RowOK(ent)
    BY DEF Inv, TypeOK, RowOK
  <2>1. CASE UNCHANGED ent
    BY <2>1 DEF PeriodIsPaid
  <2>2. CASE CustomerManages
    BY <2>0, <2>2, CustomerKeepsPaidPart
       DEF CustomerManages, PeriodIsPaid, SourceIsKept
  <2>3. CASE AdminMutates
    BY <2>0, <2>3, AdminKeepsUnpaid DEF AdminMutates, PeriodIsPaid
  <2>4. ASSUME NEW r \in Requests, FinalizePaid(r) PROVE PeriodIsPaid'
    BY <2>4, PaymentGrantsPaid DEF PeriodIsPaid
  <2> QED
    BY <2>1, <2>2, <2>3, <2>4, EntitlementSteps
<1> QED
  BY <1>1, <1>2, InvHolds, PTL DEF Spec

(* Whoever has access called paid has paid for that plan in that currency, *)
(* for any number of plans, keys and concurrent requests.                  *)
THEOREM PaidAccessWasBought == Spec => []PaidAccessIsBought
<1>1. Init => PaidAccessIsBought
  BY DEF Init, LifecycleInit, TrialRow, PaidAccessIsBought
<1>2. Inv /\ PeriodIsPaid /\ PaidAccessIsBought /\ [Next]_vars => PaidAccessIsBought'
  <2> SUFFICES ASSUME Inv, PeriodIsPaid, PaidAccessIsBought, [Next]_vars
               PROVE  PaidAccessIsBought'
    OBVIOUS
  <2>0. RowOK(ent)
    BY DEF Inv, TypeOK, RowOK
  <2>1. ASSUME NEW k \in Keys, tx[k].status = "succeeded" PROVE tx'[k] = tx[k]
    <3>1. ~IsOpen(tx[k]) /\ tx[k] # NoRow
      BY <2>1, NoRowOK DEF IsOpen, Open
    <3> QED
      BY <3>1, TransactionSteps DEF Untouched, Placed, Settled
  <2>2. CASE UNCHANGED ent
    BY <2>1, <2>2 DEF PaidAccessIsBought
  <2>3. CASE CustomerManages
    BY <2>0, <2>1, <2>3, CustomerKeepsPaidPart
       DEF CustomerManages, PaidAccessIsBought, SourceIsKept
  <2>4. CASE AdminMutates
    BY <2>0, <2>4, AdminKeepsUnpaid DEF AdminMutates, PaidAccessIsBought
  <2>5. ASSUME NEW r \in Requests, FinalizePaid(r) PROVE PaidAccessIsBought'
    <3>1. /\ req[r].key \in Keys
          /\ tx'[req[r].key].status = "succeeded"
          /\ tx'[req[r].key].plan = tx[req[r].key].plan
          /\ tx'[req[r].key].currency = tx[req[r].key].currency
      BY <2>5, SettleOK DEF FinalizePaid, Terminal
    <3> QED
      BY <2>5, <3>1, PaymentGrantsPaid DEF PaidAccessIsBought
  <2> QED
    BY <2>2, <2>3, <2>4, <2>5, EntitlementSteps
<1> QED
  BY <1>1, <1>2, InvHolds, PeriodIsPaidHolds, PTL DEF Spec

-----------------------------------------------------------------------------
(* The refinement of PaidAccess. *)

Orders == [k \in Keys |-> OrderOf(tx[k])]
Access == IF ent.source = "paid" THEN ent.plan ELSE Null

(* A step that changes no transaction, nor what has been paid, stutters. *)
LEMMA StutterOK ==
  ASSUME UNCHANGED tx, Access' = Access
  PROVE  UNCHANGED <<Orders, Access>>
BY DEF Orders, OrderOf, IsOpen

LEMMA PlaceOK ==
  ASSUME Inv, NEW r \in Requests, PrepareNew(r)
  PROVE  Promise!Place(req[r].key, req[r].plan) /\ req[r].key \in Keys
                                              /\ req[r].plan \in Plans
<1>1. req[r].key \in Keys /\ req[r].plan \in Plans
  BY DEF PrepareNew, Inv, RequestsOK, RequestOK
<1>2. tx \in [Keys -> BillingRow \cup {NoRow}]
  BY DEF Inv, TypeOK
<1>3. Orders[req[r].key] = Promise!NoOrder
  BY <1>1, NoRowOK DEF PrepareNew, Orders, OrderOf, Promise!NoOrder, NoRow
<1>4. \A j \in Keys : Orders[j].state # "open"
  BY <1>2, NoRowOK
     DEF PrepareNew, NoOpenCheckout, OpenKeys, Orders, OrderOf, BillingRow, IsOpen,
         Terminal, Open
<1>5. Orders' = [Orders EXCEPT ![req[r].key] = [state |-> "open", plan |-> req[r].plan]]
  BY <1>1, <1>2 DEF PrepareNew, Orders, OrderOf, IsOpen, Open
<1>6. Access' = Access
  BY DEF PrepareNew, Access
<1> QED
  BY <1>1, <1>3, <1>4, <1>5, <1>6 DEF Promise!Place, Orders, Access

(* What settling an open row to "status" is to its order. *)
LEMMA CloseOK ==
  ASSUME Inv, NEW r \in Requests, Finalizing(r), StillOpen(r),
         NEW status \in Terminal, Settle(r, status)
  PROVE  /\ req[r].key \in Keys
         /\ Promise!Close(req[r].key, status)
<1>1. /\ req[r].key \in Keys
      /\ tx'[req[r].key].status = status
      /\ tx'[req[r].key].plan = tx[req[r].key].plan
      /\ \A k \in Keys \ {req[r].key} : tx'[k] = tx[k]
  BY SettleOK
<1>2. Orders[req[r].key] = [state |-> "open", plan |-> tx[req[r].key].plan]
  BY <1>1 DEF StillOpen, Orders, OrderOf
<1>3. Orders'[req[r].key] = [state |-> status, plan |-> tx[req[r].key].plan]
  BY <1>1 DEF Orders, OrderOf, IsOpen, Open, Terminal
<1>4. \A k \in Keys \ {req[r].key} : Orders'[k] = Orders[k]
  BY <1>1 DEF Orders, OrderOf, IsOpen
<1>5. Orders' = [Orders EXCEPT ![req[r].key].state = status]
  <2>1. Orders \in [Keys -> [state : {"open"} \cup {tx[k].status : k \in Keys},
                             plan : {tx[k].plan : k \in Keys}]]
    BY DEF Orders, OrderOf
  <2>2. [Orders[req[r].key] EXCEPT !.state = status]
        = [state |-> status, plan |-> tx[req[r].key].plan]
    BY <1>2
  <2>3. DOMAIN Orders' = Keys /\ DOMAIN Orders = Keys
    BY DEF Orders
  <2>4. Orders' = [k \in Keys |-> Orders'[k]]
    BY DEF Orders
  <2> QED
    BY <1>1, <1>3, <1>4, <2>2, <2>3, <2>4
<1> QED
  BY <1>1, <1>2, <1>5 DEF Promise!Close, Orders

(* An answer that leaves the payment processing leaves the order open. *)
LEMMA ProcessingOK ==
  ASSUME Inv, NEW r \in Requests, Finalizing(r), StillOpen(r), Settle(r, "processing")
  PROVE  UNCHANGED Orders
<1>1. /\ req[r].key \in Keys
      /\ tx'[req[r].key].status = "processing"
      /\ tx'[req[r].key].plan = tx[req[r].key].plan
      /\ \A k \in Keys \ {req[r].key} : tx'[k] = tx[k]
  BY SettleOK DEF Open
<1>2. \A k \in Keys : OrderOf(tx'[k]) = OrderOf(tx[k])
  BY <1>1 DEF OrderOf, IsOpen, Open, StillOpen
<1> QED
  BY <1>2 DEF Orders, OrderOf, IsOpen

(* Every behaviour of checkout is one of the abstract purchase: orders are *)
(* placed one at a time, settled once, and access comes from paying.       *)
THEOREM CheckoutImplementsPaidAccess == Spec => ImplementsPaidAccess
<1>1. Init => Promise!Init
  <2> SUFFICES ASSUME Init PROVE Promise!Init
    OBVIOUS
  <2>1. Orders = [k \in Keys |-> Promise!NoOrder]
    BY NoRowOK DEF Init, Orders, OrderOf, Promise!NoOrder, NoRow
  <2>2. Access = Null
    BY DEF Init, LifecycleInit, TrialRow, Access
  <2> QED
    BY <2>1, <2>2 DEF Promise!Init, Orders, Access
<1>2. Inv /\ PeriodIsPaid /\ [Next]_vars => [Promise!Next]_<<Orders, Access>>
  <2> SUFFICES ASSUME Inv, PeriodIsPaid, [Next]_vars
               PROVE  Promise!Next \/ UNCHANGED <<Orders, Access>>
    OBVIOUS
  <2>0. RowOK(ent)
    BY DEF Inv, TypeOK, RowOK
  <2>1. CASE UNCHANGED <<tx, ent>>
    BY <2>1, StutterOK DEF Access
  <2>2. CASE CustomerManages
    BY <2>0, <2>2, CustomerKeepsPaidPart, StutterOK
       DEF CustomerManages, SourceIsKept, Access
  <2>3. CASE AdminMutates
    BY <2>0, <2>3, AdminKeepsUnpaid, StutterOK DEF AdminMutates, Access
  <2>4. ASSUME NEW r \in Requests, PrepareNew(r) PROVE Promise!Next
    BY <2>4, PlaceOK DEF Promise!Next
  <2>5. ASSUME NEW r \in Requests, FinalizeUnpaid(r)
        PROVE  Promise!Next \/ UNCHANGED <<Orders, Access>>
    <3>1. UNCHANGED Access
      BY <2>5 DEF FinalizeUnpaid, Access
    <3>2. CASE req[r].answer = "processing"
      BY <2>5, <3>1, <3>2, ProcessingOK DEF FinalizeUnpaid
    <3>3. CASE req[r].answer \in {"failed", "canceled"}
      <4>1. /\ req[r].key \in Keys
            /\ Promise!Close(req[r].key, "failed") \/ Promise!Close(req[r].key, "canceled")
        BY <2>5, <3>3, CloseOK DEF FinalizeUnpaid, Terminal
      <4> QED
        BY <3>1, <4>1 DEF Promise!Next, Promise!Abandon, Access
    <3> QED
      BY <2>5, <3>2, <3>3 DEF FinalizeUnpaid
  <2>6. ASSUME NEW r \in Requests, FinalizePaid(r) PROVE Promise!Next
    <3>1. req[r].key \in Keys /\ Promise!Close(req[r].key, "succeeded")
      BY <2>6, CloseOK DEF FinalizePaid, Terminal
    <3>2. Access' = Orders[req[r].key].plan
      BY <2>6, <3>1, PaymentGrantsPaid DEF Access, Orders, OrderOf
    <3> QED
      BY <3>1, <3>2 DEF Promise!Next, Promise!Pay, Access, Orders
  <2> QED
    BY <2>1, <2>2, <2>3, <2>4, <2>5, <2>6
       DEF Next, vars, ClockTicks, CustomerRequests, BeginCheckout, BeginReconcile,
           RequestProceeds, PrepareReused, PrepareRefused, ProviderCreates,
           ProviderRetrieves, FinalizeStale, FinalizeRefused, RequestFails, Restart
<1>3. [Promise!Next]_<<Orders, Access>>
      <=> [Promise!Next]_<<[k \in Keys |-> OrderOf(tx[k])],
                           IF ent.source = "paid" THEN ent.plan ELSE Null>>
  BY DEF Orders, Access
<1> QED
  BY <1>1, <1>2, <1>3, InvHolds, PeriodIsPaidHolds, PTL
     DEF Spec, ImplementsPaidAccess, Promise!Spec
-----------------------------------------------------------------------------
(* Paid access over time.  The row of checkout is sound, a paid one stays  *)
(* active (nothing here marks one past due), and the clock reading that    *)
(* came with the provider's answer is not ahead of the clock.              *)
AnswersPast == \A r \in Requests : req[r].stage = "finalizing" => req[r].at <= now

PaidIsActive == ent.source = "paid" => ent.status = "active"

AccessInv == Inv /\ AnswersPast /\ Sound(ent, now) /\ PaidIsActive

(* A reader grants a paid row its plan exactly until the period ends. *)
LEMMA PaidRowGranted ==
  ASSUME NEW e, NEW at \in Nat, Sound(e, at), e.source = "paid", e.status = "active"
  PROVE  /\ Granted(e, at) <=> ~PeriodEnded(e, at)
         /\ ~PeriodEnded(e, at) => EffectiveLimit(e, at) = AccountLimit[e.plan]
<1>1. e \in Entitlement /\ PaidSound(e, at) /\ PendingPairValid(e)
  BY DEF Sound, RowOK, RowChecks, PendingPairValid
<1>2. EffectivePlan(e, at) # Null
  BY <1>1 DEF PaidSound, EffectivePlan, PendingPlanDue
<1>3. PaidShapeValid(e, at)
  BY <1>1, <1>2 DEF PaidSound, PaidShapeValid
<1>4. Granted(e, at) <=> ~PeriodEnded(e, at)
  BY <1>3, NullAssumption DEF Granted, Denial, Denials
<1>5. ~PeriodEnded(e, at) => EffectivePlan(e, at) = e.plan
  BY <1>1 DEF PaidSound, PeriodEnded, EffectivePlan, PendingPlanDue
<1> QED
  BY <1>1, <1>4, <1>5 DEF PaidSound, EffectiveLimit

(* The row a payment leaves: the very period again, or a new one that has  *)
(* begun, without a schedule.  Of a subscription that still runs it is an  *)
(* upgrade, with a larger plan and no earlier end.                         *)
NewPeriod(r) ==
  /\ ent'.status = "active" /\ ent'.source = "paid"
  /\ ent'.plan = tx[req[r].key].plan /\ ent'.plan # Null /\ ent'.currency # Null
  /\ ent'.periodStart \in Nat /\ ent'.periodEnd \in Nat
  /\ ent'.periodStart < ent'.periodEnd /\ ent'.periodStart <= now
  /\ ent'.pendingPlan = Null
  /\ ent'.trialStart = ent.trialStart /\ ent'.trialEnd = ent.trialEnd
  /\ ent.source = "paid" /\ ~PeriodEnded(ent, now) =>
       /\ AccountLimit[ent'.plan] > AccountLimit[ent.plan]
       /\ ent'.periodEnd >= ent.periodEnd

LEMMA PaymentWrites ==
  ASSUME AccessInv, NEW r \in Requests, FinalizePaid(r)
  PROVE  NewPeriod(r) \/ (UNCHANGED ent /\ ent.source = "paid")
<1>1. PICK plan, currency, per, at :
        /\ plan = tx[req[r].key].plan /\ currency = tx[req[r].key].currency
        /\ per = PeriodOf(req[r].server) /\ at = req[r].at
  OBVIOUS
<1>2. ActivatePaid(plan, currency, per, at) \/ ApplyUpgrade(plan, currency, per, at)
  BY <1>1 DEF FinalizePaid, ApplyPayment
<1>3. per \in Period /\ at \in Nat /\ at <= now /\ now \in Nat /\ req[r].key \in Keys
  BY <1>1, PeriodOK
     DEF FinalizePaid, Finalizing, AccessInv, AnswersPast, Inv, TypeOK, RequestsOK, RequestOK
<1>4. plan \in Plans /\ currency \in Currencies
  BY <1>1, <1>3, NoRowOK DEF FinalizePaid, StillOpen, AccessInv, Inv, TypeOK, BillingRow
<1>5. ent \in Entitlement
  BY DEF AccessInv, Inv, TypeOK
<1>6. PICK n \in Entitlement : n = NoSchedule(ent)
  BY <1>5, NoScheduleFields
<1>7. /\ n.pendingPlan = Null /\ n.trialStart = ent.trialStart /\ n.trialEnd = ent.trialEnd
      /\ n.status = ent.status /\ n.source = ent.source /\ n.currency = ent.currency
  BY <1>5, <1>6, NoScheduleFields
<1>8. ValidPaidPeriod(per, at)
  BY <1>2 DEF ActivatePaid, ActivationAllowed, ApplyUpgrade, UpgradeAllowed
<1>9. /\ per.start \in Nat /\ per.end \in Nat /\ per.start < per.end /\ per.start <= now
      /\ plan # Null /\ currency # Null
  BY <1>3, <1>4, <1>8, NullAssumption DEF Period, ValidPaidPeriod
<1>10. CASE AlreadyActivated(plan, currency, per) /\ UNCHANGED ent
  <2>1. RequireActivePaid(ent)
    BY <1>9, <1>10, NullAssumption DEF AlreadyActivated, RequireActivePaid
  <2> QED
    BY <1>10, <2>1, <1>3, RequireActivePaidIsPaid DEF AccessInv
<1>11. CASE ActivatePaid(plan, currency, per, at) /\ ent' = ActivatedRow(plan, currency, per)
            /\ ~AlreadyActivated(plan, currency, per)
  <2>1. ent' = [n EXCEPT
           !.status = "active", !.source = "paid", !.plan = plan, !.currency = currency,
           !.periodStart = per.start, !.periodEnd = per.end]
    BY <1>6, <1>11 DEF ActivatedRow
  <2>2. /\ ent'.status = "active" /\ ent'.source = "paid" /\ ent'.plan = plan
        /\ ent'.currency = currency
        /\ ent'.periodStart = per.start /\ ent'.periodEnd = per.end
        /\ ent'.pendingPlan = Null
        /\ ent'.trialStart = ent.trialStart /\ ent'.trialEnd = ent.trialEnd
    BY <2>1, <1>7 DEF Entitlement
  <2>3. ent.source = "paid" => PeriodEnded(ent, now)
    <3>1. ent.source = "paid" => PeriodEnded(ent, at)
      BY <1>11 DEF ActivatePaid, ActivationAllowed, AccessInv, PaidIsActive
    <3>2. ent.periodEnd \in Times
      BY <1>5 DEF Entitlement
    <3> QED
      BY <1>3, <3>1, <3>2, NullAssumption DEF PeriodEnded, Times
  <2> QED
    BY <1>1, <1>3, <1>9, <2>2, <2>3 DEF NewPeriod
<1>12. CASE ApplyUpgrade(plan, currency, per, at)
  <2>1. ent' = [n EXCEPT !.plan = plan, !.periodStart = per.start, !.periodEnd = per.end]
    BY <1>6, <1>12 DEF ApplyUpgrade, UpgradedRow
  <2>2. ent.source = "paid" /\ ent.status = "active" /\ ent.currency # Null
    BY <1>3, <1>12, RequireActivePaidIsPaid
       DEF ApplyUpgrade, UpgradeAllowed, RequireActivePaid, AccessInv
  <2>3. /\ ent'.status = "active" /\ ent'.source = "paid" /\ ent'.plan = plan
        /\ ent'.currency # Null
        /\ ent'.periodStart = per.start /\ ent'.periodEnd = per.end
        /\ ent'.pendingPlan = Null
        /\ ent'.trialStart = ent.trialStart /\ ent'.trialEnd = ent.trialEnd
    BY <2>1, <2>2, <1>7 DEF Entitlement
  <2>4. AccountLimit[plan] > AccountLimit[ent.plan] /\ per.end >= ent.periodEnd
    BY <1>12 DEF ApplyUpgrade, UpgradeAllowed, LargerPlan
  <2> QED
    BY <1>1, <1>3, <1>9, <2>3, <2>4 DEF NewPeriod
<1> QED
  BY <1>2, <1>10, <1>11, <1>12 DEF ActivatePaid

LEMMA PaymentSound ==
  ASSUME AccessInv, NEW r \in Requests, FinalizePaid(r)
  PROVE  Sound(ent', now) /\ ent'.status = "active"
<1>1. now \in Nat
  BY DEF AccessInv, Inv, TypeOK
<1>2. CASE UNCHANGED ent /\ ent.source = "paid"
  BY <1>2 DEF AccessInv, PaidIsActive
<1>3. CASE NewPeriod(r)
  <2>1. RowOK(ent')
    BY FinalizePaidOK DEF AccessInv, Inv, TypeOK, RowOK
  <2>2. TrialValid(ent')
    BY <1>3 DEF NewPeriod, TrialValid, AccessInv, Sound
  <2>3. ent'.periodStart # Null /\ ent'.periodEnd # Null
    BY <1>3, NullAssumption DEF NewPeriod
  <2> QED
    BY <1>3, <2>1, <2>2, <2>3 DEF NewPeriod, Sound, PaidSound
<1> QED
  BY <1>2, <1>3, PaymentWrites

(* A request that moves on leaves the answers of the others as they were. *)
LEMMA AdvanceKeepsAnswersPast ==
  ASSUME Inv, AnswersPast, NEW r \in Requests, NEW q \in Request, Advance(r, q),
         UNCHANGED now, q.stage = "finalizing" => q.at <= now
  PROVE  AnswersPast'
<1>1. req'[r] = q /\ \A p \in Requests \ {r} : req'[p] = req[p]
  BY DEF Advance, Inv, TypeOK
<1> QED
  BY <1>1 DEF AnswersPast

LEMMA AnswersStayPast ==
  ASSUME Inv, AnswersPast, [Next]_vars
  PROVE  AnswersPast'
<1>0. now \in Nat /\ req \in [Requests -> Request]
  BY DEF Inv, TypeOK
<1>1. CASE ClockTicks
  <2>1. \A r \in Requests : req[r].stage = "finalizing" => req[r].at \in Nat
    BY DEF Inv, RequestsOK, RequestOK
  <2> QED
    BY <1>0, <1>1, <2>1 DEF ClockTicks, Tick, AnswersPast
<1>2. CASE UNCHANGED <<now, req>>
  BY <1>2 DEF AnswersPast
<1>3. ASSUME NEW r \in Requests, Advance(r, Idle), UNCHANGED now PROVE AnswersPast'
  <2>1. Idle.stage # "finalizing"
    BY DEF Idle
  <2> QED
    BY <1>3, <2>1, IdleOK, AdvanceKeepsAnswersPast
<1>4. ASSUME NEW r \in Requests, CustomerRequests(r) PROVE AnswersPast'
  <2>1. /\ req'[r].stage # "finalizing"
        /\ \A p \in Requests \ {r} : req'[p] = req[p]
    <3>1. ASSUME NEW k \in Keys, NEW s \in Servers, BeginReconcile(r, k, s)
          PROVE  req'[r].stage = "calling"
      BY <1>0, <3>1 DEF BeginReconcile, Advance, Idle
    <3>2. ASSUME NEW k \in Keys, NEW s \in Servers, NEW plan \in Plans,
                 NEW currency \in Currencies, BeginCheckout(r, k, plan, currency, s)
          PROVE  req'[r].stage = "preparing"
      BY <1>0, <3>2 DEF BeginCheckout, Advance, Idle
    <3>3. \A p \in Requests \ {r} : req'[p] = req[p]
      BY <1>0, <1>4 DEF CustomerRequests, BeginCheckout, BeginReconcile, Advance
    <3> QED
      BY <1>4, <3>1, <3>2, <3>3 DEF CustomerRequests
  <2>2. UNCHANGED now
    BY <1>4 DEF CustomerRequests, BeginCheckout, BeginReconcile
  <2> QED
    BY <2>1, <2>2 DEF AnswersPast
<1>5. ASSUME NEW r \in Requests, PrepareNew(r) \/ PrepareReused(r) PROVE AnswersPast'
  <2>1. req[r] \in Request
    BY <1>0
  <2>2. CASE PrepareNew(r)
    <3>1. req'[r].stage = "calling" /\ \A p \in Requests \ {r} : req'[p] = req[p]
      BY <1>0, <2>1, <2>2 DEF PrepareNew, Advance, Request
    <3> QED
      BY <2>2, <3>1 DEF PrepareNew, AnswersPast
  <2>3. CASE /\ PrepareReused(r)
             /\ Advance(r, [req[r] EXCEPT !.stage = "calling", !.plan = Null,
                                          !.currency = Null, !.at = Null])
    <3>1. req'[r].stage = "calling" /\ \A p \in Requests \ {r} : req'[p] = req[p]
      BY <1>0, <2>1, <2>3 DEF Advance, Request
    <3> QED
      BY <2>3, <3>1 DEF PrepareReused, AnswersPast
  <2>4. CASE PrepareReused(r) /\ Advance(r, Idle)
    BY <1>3, <2>4 DEF PrepareReused
  <2> QED
    BY <1>5, <2>2, <2>3, <2>4 DEF PrepareReused
<1>6. ASSUME NEW r \in Requests, NEW answer, UNCHANGED now,
             Advance(r, [req[r] EXCEPT !.stage = "finalizing", !.answer = answer, !.at = now])
      PROVE  AnswersPast'
  <2>1. req'[r].at = now /\ \A p \in Requests \ {r} : req'[p] = req[p]
    BY <1>0, <1>6 DEF Advance, Request
  <2> QED
    BY <1>0, <1>6, <2>1 DEF AnswersPast
<1>7. ASSUME NEW r \in Requests, RequestProceeds(r) PROVE AnswersPast'
  <2>1. CASE ProviderCreates(r) \/ ProviderRetrieves(r)
    BY <1>3, <1>6, <2>1 DEF ProviderCreates, ProviderRetrieves
  <2>2. CASE PrepareRefused(r) \/ FinalizeStale(r) \/ FinalizeUnpaid(r)
             \/ FinalizePaid(r) \/ FinalizeRefused(r)
    BY <1>3, <2>2
       DEF PrepareRefused, FinalizeStale, FinalizeUnpaid, FinalizePaid, FinalizeRefused
  <2> QED
    BY <1>5, <1>7, <2>1, <2>2 DEF RequestProceeds
<1>8. ASSUME NEW r \in Requests, RequestFails(r) PROVE AnswersPast'
  BY <1>3, <1>8 DEF RequestFails
<1>9. ASSUME NEW s \in Servers, Restart(s) PROVE AnswersPast'
  BY <1>0, <1>9 DEF Restart, Idle, AnswersPast
<1>10. CASE CustomerManages \/ AdminMutates \/ UNCHANGED vars
  BY <1>2, <1>10 DEF CustomerManages, AdminMutates, vars
<1> QED
  BY <1>1, <1>4, <1>7, <1>8, <1>9, <1>10 DEF Next

(* The clock never goes back. *)
LEMMA ClockGoesOn ==
  ASSUME now \in Nat, [Next]_vars
  PROVE  now' \in Nat /\ now <= now'
<1>1. UNCHANGED now \/ ClockTicks
  BY DEF Next, vars, CustomerManages, AdminMutates, CustomerRequests, BeginCheckout,
         BeginReconcile, RequestProceeds, PrepareNew, PrepareReused, PrepareRefused,
         ProviderCreates, ProviderRetrieves, FinalizeStale, FinalizeUnpaid,
         FinalizePaid, FinalizeRefused, RequestFails, Restart
<1> QED
  BY <1>1 DEF ClockTicks, Tick

(* The row stays sound, however a step treats it. *)
LEMMA SoundPeriodIsPaid ==
  ASSUME NEW at, Sound(ent, at)
  PROVE  PeriodIsPaid
BY DEF Sound, NothingCommercial, RowOK, Entitlement, Sources, PeriodIsPaid

LEMMA RowStaysSound ==
  ASSUME AccessInv, [Next]_vars
  PROVE  Sound(ent', now') /\ PaidIsActive'
<1>0. now \in Nat /\ RowOK(ent) /\ PeriodIsPaid /\ Sound(ent, now)
  BY SoundPeriodIsPaid DEF AccessInv, Inv, TypeOK, RowOK
<1>1. CASE UNCHANGED ent
  BY <1>0, <1>1, ClockGoesOn, SoundLater DEF AccessInv, PaidIsActive
<1>2. CASE CustomerManages
  BY <1>0, <1>2, CustomerTransitionSound, CustomerTransitionReschedules
     DEF CustomerManages, OnlyReschedules, PaidIsActive
<1>3. CASE AdminMutates
  BY <1>0, <1>3, AdminTransitionSound, AdminKeepsUnpaid DEF AdminMutates, PaidIsActive
<1>4. ASSUME NEW r \in Requests, FinalizePaid(r) PROVE Sound(ent', now') /\ PaidIsActive'
  BY <1>4, PaymentSound DEF FinalizePaid, PaidIsActive
<1> QED
  BY <1>1, <1>2, <1>3, <1>4, EntitlementSteps

LEMMA AccessInvHolds == Spec => []AccessInv
<1>1. Init => AnswersPast /\ Sound(ent, now) /\ PaidIsActive
  <2> SUFFICES ASSUME Init PROVE AnswersPast /\ Sound(ent, now) /\ PaidIsActive
    OBVIOUS
  <2>1. AnswersPast
    BY DEF Init, Idle, AnswersPast
  <2>2. now \in Nat /\ ent = TrialRow(0, TrialLength)
    BY DEF Init, LifecycleInit
  <2>3. Sound(ent, now)
    BY <2>2, TrialRowSound, TimeAssumption
  <2>4. PaidIsActive
    BY <2>2 DEF TrialRow, PaidIsActive
  <2> QED
    BY <2>1, <2>3, <2>4
<1>2. Inv /\ AnswersPast /\ Sound(ent, now) /\ PaidIsActive /\ Inv' /\ [Next]_vars
        => AnswersPast' /\ Sound(ent, now)' /\ PaidIsActive'
  BY AnswersStayPast, RowStaysSound DEF AccessInv
<1>3. Inv /\ AnswersPast /\ Sound(ent, now) /\ PaidIsActive <=> AccessInv
  BY DEF AccessInv
<1> QED
  BY <1>1, <1>2, <1>3, InvHolds, PTL DEF Spec

(* A transaction becomes paid only as the payment of a request with its key. *)
LEMMA SettledAsPaid ==
  ASSUME Inv, [Next]_vars, NEW k \in Keys, IsOpen(tx[k]), tx'[k].status = "succeeded"
  PROVE  \E r \in Requests : FinalizePaid(r) /\ req[r].key = k
<1>1. tx[k].status # "succeeded"
  BY DEF IsOpen, Open
<1>2. tx'[k] # tx[k]
  BY <1>1
<1>3. tx \in [Keys -> BillingRow \cup {NoRow}]
  BY DEF Inv, TypeOK
<1>4. ASSUME NEW r \in Requests, PrepareNew(r) PROVE FALSE
  <2>1. tx[k] # NoRow
    BY NoRowOK
  <2>2. k # req[r].key
    BY <1>4, <2>1 DEF PrepareNew
  <2> QED
    BY <1>2, <1>3, <1>4, <2>2 DEF PrepareNew
<1>5. ASSUME NEW r \in Requests, FinalizeUnpaid(r) PROVE FALSE
  <2>1. req[r].answer \in Open \cup Terminal /\ req[r].answer # "succeeded"
    BY <1>5 DEF FinalizeUnpaid, Open, Terminal
  <2> QED
    BY <1>2, <1>5, <2>1, SettleOK DEF FinalizeUnpaid
<1>6. ASSUME NEW r \in Requests, FinalizePaid(r) PROVE req[r].key = k
  BY <1>2, <1>6, SettleOK DEF FinalizePaid, Terminal
<1> QED
  BY <1>2, <1>4, <1>5, <1>6
     DEF Next, vars, ClockTicks, CustomerManages, AdminMutates, CustomerRequests,
         BeginCheckout, BeginReconcile, RequestProceeds, PrepareReused, PrepareRefused,
         ProviderCreates, ProviderRetrieves, FinalizeStale, FinalizeRefused,
         RequestFails, Restart

LEMMA PaymentIsSettled ==
  ASSUME Inv, NEW r \in Requests, FinalizePaid(r)
  PROVE  PaymentSettles
BY SettleOK DEF FinalizePaid, StillOpen, Terminal, PaymentSettles

(* The success of a transaction and the paid part of the row commit in one *)
(* step, for any number of requests that race to finalize it.              *)
THEOREM PaymentsAreAtomic == Spec => PaymentIsAtomic
<1>1. AccessInv /\ [Next]_vars =>
        [/\ (ent'.source = "paid" /\ PaidPart' # PaidPart) => PaymentSettles
         /\ \A k \in Keys : IsOpen(tx[k]) /\ tx'[k].status = "succeeded" =>
              ent'.source = "paid" /\ ent'.plan = tx[k].plan]_vars
  <2> SUFFICES ASSUME AccessInv, [Next]_vars
               PROVE  /\ (ent'.source = "paid" /\ PaidPart' # PaidPart) => PaymentSettles
                      /\ \A k \in Keys : IsOpen(tx[k]) /\ tx'[k].status = "succeeded" =>
                           ent'.source = "paid" /\ ent'.plan = tx[k].plan
    OBVIOUS
  <2>0. now \in Nat /\ RowOK(ent) /\ PeriodIsPaid /\ Sound(ent, now) /\ Inv
    BY SoundPeriodIsPaid DEF AccessInv, Inv, TypeOK, RowOK
  <2>1. ASSUME ent'.source = "paid", PaidPart' # PaidPart PROVE PaymentSettles
    <3>1. ~UNCHANGED ent
      BY <2>1 DEF PaidPart
    <3>2. ~CustomerManages
      BY <2>0, <2>1, CustomerTransitionReschedules
         DEF CustomerManages, OnlyReschedules, PaidPart
    <3>3. ~AdminMutates
      BY <2>0, <2>1, AdminKeepsUnpaid DEF AdminMutates
    <3> QED
      BY <2>0, <3>1, <3>2, <3>3, EntitlementSteps, PaymentIsSettled
  <2>2. ASSUME NEW k \in Keys, IsOpen(tx[k]), tx'[k].status = "succeeded"
        PROVE  ent'.source = "paid" /\ ent'.plan = tx[k].plan
    BY <2>0, <2>2, SettledAsPaid, PaymentGrantsPaid
  <2> QED
    BY <2>1, <2>2
<1> QED
  BY <1>1, AccessInvHolds, PTL DEF Spec, PaymentIsAtomic

(* A row that is not paid has no schedule. *)
LEMMA UnpaidHasNoSchedule ==
  ASSUME NEW e, NEW at, Sound(e, at), e.source # "paid"
  PROVE  e.cancel = FALSE /\ e.pendingPlan = Null /\ e.pendingAt = Null
BY DEF Sound, NothingCommercial, RowOK, RowChecks, Entitlement, Sources

(* While a checkout stays open nobody moves the schedule it was begun      *)
(* with: not the customer, not the Admin, and no other checkout.           *)
THEOREM SchedulesFreeze == Spec => ScheduleFrozenDuringCheckout
<1>1. AccessInv /\ OneOpenCheckout /\ [Next]_vars =>
        [\A k \in OpenKeys : IsOpen(tx'[k]) => Schedule' = Schedule]_vars
  <2> SUFFICES ASSUME AccessInv, OneOpenCheckout, [Next]_vars,
                      NEW k \in Keys, IsOpen(tx[k]), IsOpen(tx'[k])
               PROVE  Schedule' = Schedule
    BY DEF OpenKeys
  <2>0. now \in Nat /\ RowOK(ent) /\ PeriodIsPaid /\ Sound(ent, now) /\ Inv
    BY SoundPeriodIsPaid DEF AccessInv, Inv, TypeOK, RowOK
  <2>1. CASE UNCHANGED ent
    BY <2>1 DEF Schedule
  <2>2. ~CustomerManages
    BY DEF CustomerManages, NoOpenCheckout, OpenKeys
  <2>3. CASE AdminMutates
    <3>1. ent.source # "paid" /\ ent'.source # "paid"
      BY <2>0, <2>3, AdminKeepsUnpaid DEF AdminMutates
    <3>2. Sound(ent', now)
      BY <2>0, <2>3, AdminTransitionSound DEF AdminMutates
    <3> QED
      BY <2>0, <3>1, <3>2, UnpaidHasNoSchedule DEF Schedule
  <2>4. ASSUME NEW r \in Requests, FinalizePaid(r) PROVE FALSE
    <3>1. req[r].key \in Keys /\ IsOpen(tx[req[r].key])
          /\ tx'[req[r].key].status = "succeeded"
      BY <2>0, <2>4, SettleOK DEF FinalizePaid, StillOpen, Terminal
    <3>2. req[r].key = k
      BY <3>1 DEF OneOpenCheckout, OpenKeys
    <3> QED
      BY <3>1, <3>2 DEF IsOpen, Open
  <2> QED
    BY <2>1, <2>2, <2>3, <2>4, EntitlementSteps
<1> QED
  BY <1>1, AccessInvHolds, CheckoutsExclude, PTL DEF Spec, ScheduleFrozenDuringCheckout

(* What a reader grants while the paid period runs. *)
LEMMA PaidUntilItEnds ==
  ASSUME NEW e, NEW at \in Nat, Sound(e, at), e.source = "paid", e.status = "active",
         at < e.periodEnd
  PROVE  Granted(e, at) /\ EffectiveLimit(e, at) = AccountLimit[e.plan]
<1>1. e.periodEnd \in Nat
  BY DEF Sound, PaidSound, RowOK, Entitlement, Times
<1>2. ~PeriodEnded(e, at)
  BY <1>1 DEF PeriodEnded
<1> QED
  BY <1>2, PaidRowGranted

(* Until its period ends, what was bought is granted, and a change of it   *)
(* grants no less, whoever acts and whichever answers arrive.              *)
THEOREM PaidAccessPersists == Spec => PaidAccessLasts
<1>1. AccessInv /\ [Next]_vars =>
        [ent.source = "paid" /\ Granted(ent, now) /\ now' < ent.periodEnd =>
           /\ Granted(ent', now')
           /\ EffectiveLimit(ent', now') >= EffectiveLimit(ent, now)]_vars
  <2> SUFFICES ASSUME AccessInv, [Next]_vars,
                      ent.source = "paid", Granted(ent, now), now' < ent.periodEnd
               PROVE  /\ Granted(ent', now')
                      /\ EffectiveLimit(ent', now') >= EffectiveLimit(ent, now)
    OBVIOUS
  <2>0. /\ now \in Nat /\ RowOK(ent) /\ PeriodIsPaid /\ Sound(ent, now) /\ Inv
        /\ ent.status = "active"
    BY SoundPeriodIsPaid DEF AccessInv, Inv, TypeOK, RowOK, PaidIsActive
  <2>1. Sound(ent', now') /\ (ent'.source = "paid" => ent'.status = "active")
    BY RowStaysSound DEF PaidIsActive
  <2>2. ~PeriodEnded(ent, now) /\ EffectiveLimit(ent, now) = AccountLimit[ent.plan]
    BY <2>0, PaidRowGranted
  <2>3. ent.periodEnd \in Nat /\ now' \in Nat /\ AccountLimit[ent.plan] \in Nat
    <3>1. ent.plan \in Plans /\ ent.periodEnd \in Nat
      BY <2>0 DEF Sound, PaidSound, RowOK, Entitlement, Times
    <3>2. now' \in Nat
      BY <2>0, ClockGoesOn
    <3> QED
      BY <3>1, <3>2, PlanAssumption
  <2>4. CASE ent'.source = "paid" /\ ent'.plan = ent.plan /\ ent'.periodEnd = ent.periodEnd
    BY <2>1, <2>2, <2>3, <2>4, PaidUntilItEnds
  <2>5. CASE CustomerManages
    BY <2>0, <2>4, <2>5, CustomerTransitionReschedules DEF CustomerManages, OnlyReschedules
  <2>6. ~AdminMutates
    BY <2>0, AdminKeepsUnpaid DEF AdminMutates
  <2>7. ASSUME NEW r \in Requests, FinalizePaid(r), NewPeriod(r)
        PROVE  /\ Granted(ent', now')
               /\ EffectiveLimit(ent', now') >= EffectiveLimit(ent, now)
    <3>1. /\ ent'.source = "paid" /\ AccountLimit[ent'.plan] > AccountLimit[ent.plan]
          /\ ent'.periodEnd >= ent.periodEnd /\ ent'.periodEnd \in Nat
      BY <2>2, <2>7 DEF NewPeriod
    <3>2. now' < ent'.periodEnd
      BY <2>3, <3>1
    <3>3. Granted(ent', now') /\ EffectiveLimit(ent', now') = AccountLimit[ent'.plan]
      BY <2>1, <2>3, <3>1, <3>2, PaidUntilItEnds
    <3>4. AccountLimit[ent'.plan] \in Nat
      BY <2>1, <3>1, PlanAssumption DEF Sound, PaidSound, RowOK, Entitlement
    <3> QED
      BY <2>2, <2>3, <3>1, <3>3, <3>4
  <2>8. CASE UNCHANGED ent
    BY <2>4, <2>8
  <2> QED
    BY <2>5, <2>6, <2>7, <2>8, EntitlementSteps, PaymentWrites
<1> QED
  BY <1>1, AccessInvHolds, PTL DEF Spec, PaidAccessLasts

(* A subscription whose period has ended is granted again by no step but a *)
(* payment: not by the clock, the customer, the Admin or a restart.        *)
THEOREM PaymentsAloneRevive == Spec => LapsedRegainsByPayment
<1>1. AccessInv /\ [Next]_vars =>
        [ent.source = "paid" /\ ~Granted(ent, now) /\ Granted(ent', now') =>
           PaymentSettles]_vars
  <2> SUFFICES ASSUME AccessInv, [Next]_vars,
                      ent.source = "paid", ~Granted(ent, now), Granted(ent', now')
               PROVE  PaymentSettles
    OBVIOUS
  <2>0. /\ now \in Nat /\ RowOK(ent) /\ PeriodIsPaid /\ Sound(ent, now) /\ Inv
        /\ ent.status = "active"
    BY SoundPeriodIsPaid DEF AccessInv, Inv, TypeOK, RowOK, PaidIsActive
  <2>1. PeriodEnded(ent, now)
    BY <2>0, PaidRowGranted
  <2>2. ~CustomerManages
    BY <2>1 DEF CustomerManages, CustomerTransition, ScheduleDowngrade, CancelDowngrade,
            ScheduleCancellation, CancelCancellation, BeforePeriodEnd
  <2>3. ~AdminMutates
    BY <2>0, AdminKeepsUnpaid DEF AdminMutates
  <2>4. ~UNCHANGED ent
    <3> SUFFICES ASSUME UNCHANGED ent PROVE FALSE
      OBVIOUS
    <3>1. now' \in Nat /\ now <= now'
      BY <2>0, ClockGoesOn
    <3>2. ent.periodEnd \in Times
      BY <2>0 DEF RowOK, Entitlement
    <3>3. PeriodEnded(ent, now')
      BY <2>0, <2>1, <3>1, <3>2, NullAssumption DEF PeriodEnded, Times
    <3>4. Sound(ent, now')
      BY <2>0, <3>1, SoundLater
    <3>5. ~Granted(ent, now')
      BY <2>0, <3>1, <3>3, <3>4, PaidRowGranted
    <3> QED
      BY <3>5
  <2> QED
    BY <2>0, <2>2, <2>3, <2>4, EntitlementSteps, PaymentIsSettled
<1> QED
  BY <1>1, AccessInvHolds, PTL DEF Spec, LapsedRegainsByPayment
=============================================================================
