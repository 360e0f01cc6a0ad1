------------------------------ MODULE Checkout ------------------------------
(***************************************************************************)
(* Checkout and reconciliation of one workspace:                           *)
(* src/src/server/services/checkout.ts, with the payment provider behind   *)
(* it, composed with the customer and Admin transitions of the entitlement *)
(* row.                                                                    *)
(*                                                                         *)
(* A checkout request is a process with three stages, and anything may     *)
(* happen between them:                                                    *)
(*   "preparing"   it has read the clock and waits for the workspace lock; *)
(*   "calling"     its transaction row is committed (or found), and it     *)
(*                 calls the provider outside any database transaction;    *)
(*   "finalizing"  it holds the provider's answer and a clock reading, and *)
(*                 waits for the workspace lock again.                     *)
(* A request may die in any stage, and a server may restart, which kills   *)
(* its requests and empties its in-memory payment provider.                *)
(*                                                                         *)
(* Keys are idempotency keys.  A key names at most one transaction of the  *)
(* workspace (a unique index), so a key also stands for its transaction's  *)
(* id, and for the provider's key and ids, which are functions of that id. *)
(* Those ids therefore never conflict with stored ones, and whether the    *)
(* provider's reference is stored is all that is kept of them.             *)
(***************************************************************************)
EXTENDS SubscriptionLifecycle, FiniteSets

CONSTANTS
  Keys,        \* idempotency keys the customer's browsers may use
  Requests,    \* request slots, which bound the concurrency
  Servers,     \* server processes, each with its own provider instance
  Outcomes     \* mock outcomes the deployment may be configured with

AllOutcomes == {"immediate_success", "immediate_decline", "canceled",
                "processing_then_success", "processing_then_failure"}

ASSUME OutcomeAssumption == Outcomes \subseteq AllOutcomes
ASSUME SlotAssumption == Null \notin Keys /\ Null \notin Servers

VARIABLES
  tx,        \* billing_transactions by idempotency key; NoRow when absent
  outcome,   \* the configured outcome
  provider,  \* provider instance of each server
  req        \* the requests in flight

vars == <<now, ent, tx, outcome, provider, req>>

Open     == {"created", "processing"}       \* 'pending' is never written
Terminal == {"succeeded", "failed", "canceled"}
NoRow    == [status |-> "none", plan |-> Null, currency |-> Null, referenced |-> FALSE]

BillingRow ==
  [status : Open \cup Terminal, plan : Plans, currency : Currencies, referenced : BOOLEAN]

Intents == {"activation", "upgrade"}
Idle == [stage |-> "idle", kind |-> Null, key |-> Null, plan |-> Null, currency |-> Null,
         server |-> Null, at |-> Null, intent |-> Null, answer |-> Null]

Request ==
  [stage    : {"idle", "preparing", "calling", "finalizing"},
   kind     : {"start", "reconcile", Null},
   key      : Keys \cup {Null},
   plan     : Plans \cup {Null},
   currency : Currencies \cup {Null},
   server   : Servers \cup {Null},
   at       : Nat \cup {Null},                \* clock reading of the stage
   intent   : Intents \cup {Null},            \* decided when the row was created
   answer   : {"processing", "succeeded", "failed", "canceled", Null}]

IsOpen(row)     == row.status \in Open
IsTerminal(row) == row.status \in Terminal
OpenKeys        == {k \in Keys : IsOpen(tx[k])}

(* Mutant: the query for open transactions forgets those just created. *)
NoCheckoutProcessing == \A k \in Keys : tx[k].status # "processing"

NoOpenCheckout == OpenKeys = {}

-----------------------------------------------------------------------------
(* The payment provider.  An instance is built at the first use after its  *)
(* server started; its billing period is one month from then on.           *)

NotBooted == [boot |-> Null, known |-> {}]

Booted(s) == IF provider[s].boot = Null THEN [provider[s] EXCEPT !.boot = now]
             ELSE provider[s]

PeriodOf(s) == [start |-> provider[s].boot, end |-> provider[s].boot + Month]

CreationAnswer ==
  CASE outcome = "immediate_success" -> "succeeded"
    [] outcome = "immediate_decline" -> "failed"
    [] outcome = "canceled"          -> "canceled"
    [] outcome \in {"processing_then_success", "processing_then_failure"} -> "processing"

RetrievalAnswer ==
  CASE outcome = "processing_then_success" -> "succeeded"
    [] outcome = "processing_then_failure" -> "failed"
    [] OTHER -> CreationAnswer

-----------------------------------------------------------------------------
(* determineCheckoutIntent: the intents a row allows, none when checkout   *)
(* is not allowed.                                                         *)

ActiveShapeValid(at) ==
  /\ RequireActivePaid(ent)
  /\ ent.periodStart <= at
  /\ PendingPairValid(ent)

CheckoutIntent(plan, currency, at) ==
  CASE ent.status = "trialing" -> IF TrialValid(ent) THEN {"activation"} ELSE {}
    [] ent.status \in {"expired", "canceled"} -> {"activation"}
    [] ent.status = "past_due" -> {}
    [] ent.status = "active" /\ ent.source = "complimentary" -> {"activation"}
    [] ent.status = "active" /\ ent.source # "complimentary" ->
         IF ~ActiveShapeValid(at) THEN {}
         ELSE IF PeriodEnded(ent, at) THEN {"activation"}
         ELSE IF currency = ent.currency /\ LargerPlan(ent, plan) THEN {"upgrade"}
         ELSE {}

-----------------------------------------------------------------------------
(* startCheckout and reconcileCheckout up to the provider call. *)

Advance(r, request) == req' = [req EXCEPT ![r] = request]

BeginCheckout(r, k, plan, currency, s) ==
  /\ req[r].stage = "idle"
  /\ provider' = [provider EXCEPT ![s] = Booted(s)]
  /\ Advance(r, [Idle EXCEPT !.stage = "preparing", !.kind = "start", !.key = k,
                             !.plan = plan, !.currency = currency,
                             !.server = s, !.at = now])
  /\ UNCHANGED <<now, ent, tx, outcome>>

(* prepareCheckout when the key is new and no other checkout is open. *)
PrepareNew(r) ==
  /\ req[r].stage = "preparing"
  /\ tx[req[r].key] = NoRow
  /\ NoOpenCheckout
  /\ \E intent \in CheckoutIntent(req[r].plan, req[r].currency, req[r].at) :
       Advance(r, [req[r] EXCEPT !.stage = "calling", !.intent = intent,
                                 !.plan = Null, !.currency = Null, !.at = Null])
  /\ tx' = [tx EXCEPT ![req[r].key] =
              [status |-> "created", plan |-> req[r].plan,
               currency |-> req[r].currency, referenced |-> FALSE]]
  /\ UNCHANGED <<now, ent, outcome, provider>>

SnapshotMatches(r) ==
  tx[req[r].key].plan = req[r].plan /\ tx[req[r].key].currency = req[r].currency

(* Mutant: a known key is answered from its row, whatever its status. *)
PrepareAnswersFromRow(r) ==
  /\ req[r].stage = "preparing"
  /\ tx[req[r].key] # NoRow
  /\ Advance(r, Idle)
  /\ UNCHANGED <<now, ent, tx, outcome, provider>>

(* prepareCheckout when the key already has its transaction: the request   *)
(* goes on without an intent, or ends when the transaction is terminal.    *)
PrepareReused(r) ==
  /\ req[r].stage = "preparing"
  /\ tx[req[r].key] # NoRow
  /\ SnapshotMatches(r)
  /\ IF IsTerminal(tx[req[r].key])
     THEN Advance(r, Idle)
     ELSE Advance(r, [req[r] EXCEPT !.stage = "calling", !.plan = Null,
                                    !.currency = Null, !.at = Null])
  /\ UNCHANGED <<now, ent, tx, outcome, provider>>

(* idempotency_conflict, checkout_already_in_progress, checkout_not_allowed *)
PrepareRefused(r) ==
  /\ req[r].stage = "preparing"
  /\ \/ tx[req[r].key] # NoRow /\ ~SnapshotMatches(r)
     \/ /\ tx[req[r].key] = NoRow
        /\ \/ ~NoOpenCheckout
           \/ CheckoutIntent(req[r].plan, req[r].currency, req[r].at) = {}
  /\ Advance(r, Idle)
  /\ UNCHANGED <<now, ent, tx, outcome, provider>>

(* The first transaction of reconcileCheckout; a terminal transaction and  *)
(* one the provider never answered for end the request at once, without    *)
(* a change.                                                               *)
BeginReconcile(r, k, s) ==
  /\ req[r].stage = "idle"
  /\ IsOpen(tx[k]) /\ tx[k].referenced
  /\ provider' = [provider EXCEPT ![s] = Booted(s)]
  /\ Advance(r, [Idle EXCEPT !.stage = "calling", !.kind = "reconcile",
                             !.key = k, !.server = s])
  /\ UNCHANGED <<now, ent, tx, outcome>>

(* createOrRetrievePayment, and the clock reading that follows its answer. *)
ProviderCreates(r) ==
  /\ req[r].stage = "calling" /\ req[r].kind = "start"
  /\ provider' = [provider EXCEPT ![req[r].server].known = @ \cup {req[r].key}]
  /\ Advance(r, [req[r] EXCEPT !.stage = "finalizing", !.answer = CreationAnswer,
                               !.at = now])
  /\ UNCHANGED <<now, ent, tx, outcome>>

(* retrievePayment; a payment this instance does not hold is an error. *)
ProviderRetrieves(r) ==
  /\ req[r].stage = "calling" /\ req[r].kind = "reconcile"
  /\ IF req[r].key \in provider[req[r].server].known
     THEN Advance(r, [req[r] EXCEPT !.stage = "finalizing",
                                    !.answer = RetrievalAnswer, !.at = now])
     ELSE Advance(r, Idle)
  /\ UNCHANGED <<now, ent, tx, outcome, provider>>

-----------------------------------------------------------------------------
(* finalizeProviderResult: one transaction under the workspace lock.  Each *)
(* branch ends the request.                                                *)

Finalizing(r) == req[r].stage = "finalizing"

(* Mutant: finalize trusts the status its first transaction read. *)
OpenWhenPrepared(r) == req[r].key # Null

StillOpen(r) == IsOpen(tx[req[r].key])

(* A terminal transaction is returned as stored: the answer is stale. *)
FinalizeStale(r) ==
  /\ Finalizing(r)
  /\ IsTerminal(tx[req[r].key])
  /\ Advance(r, Idle)
  /\ UNCHANGED <<now, ent, tx, outcome, provider>>

Settle(r, status) ==
  tx' = [tx EXCEPT ![req[r].key].status = status, ![req[r].key].referenced = TRUE]

FinalizeUnpaid(r) ==
  /\ Finalizing(r)
  /\ StillOpen(r)
  /\ req[r].answer \in {"processing", "failed", "canceled"}
  /\ Settle(r, req[r].answer)
  /\ Advance(r, Idle)
  /\ UNCHANGED <<now, ent, outcome, provider>>

(* The intent decided when the row was created, else decided now. *)
FinalIntent(r) ==
  IF req[r].intent # Null THEN {req[r].intent}
  ELSE CheckoutIntent(tx[req[r].key].plan, tx[req[r].key].currency, req[r].at)

(* assertSafeProviderResult for a payment that succeeded. *)
SafePeriod(r, intent) ==
  /\ ValidPaidPeriod(PeriodOf(req[r].server), req[r].at)
  /\ (intent = "upgrade" /\ ent.periodEnd # Null) =>
        PeriodOf(req[r].server).end >= ent.periodEnd

PaymentAllowed(r, intent) ==
  LET row == tx[req[r].key]
      per == PeriodOf(req[r].server)
  IN /\ SafePeriod(r, intent)
     /\ \/ intent = "activation" /\ ActivationAllowed(row.plan, row.currency, per, req[r].at)
        \/ intent = "upgrade" /\ UpgradeAllowed(row.plan, row.currency, per, req[r].at)

(* Mutant: the lifecycle transition is left to a later transaction. *)
ApplyPaymentLater(r, intent) == intent \in Intents /\ r \in Requests /\ UNCHANGED ent

ApplyPayment(r, intent) ==
  LET row == tx[req[r].key]
      per == PeriodOf(req[r].server)
  IN \/ intent = "activation" /\ ActivatePaid(row.plan, row.currency, per, req[r].at)
     \/ intent = "upgrade" /\ ApplyUpgrade(row.plan, row.currency, per, req[r].at)

(* The lifecycle transition and the terminal status commit together. *)
FinalizePaid(r) ==
  /\ Finalizing(r)
  /\ StillOpen(r)
  /\ req[r].answer = "succeeded"
  /\ \E intent \in FinalIntent(r) : PaymentAllowed(r, intent) /\ ApplyPayment(r, intent)
  /\ Settle(r, "succeeded")
  /\ Advance(r, Idle)
  /\ UNCHANGED <<now, outcome, provider>>

(* Mutant: the request asks the provider once more. *)
FinalizeAsksAgain(r) ==
  /\ Finalizing(r)
  /\ StillOpen(r)
  /\ Advance(r, [req[r] EXCEPT !.stage = "calling", !.answer = Null, !.at = Null])
  /\ UNCHANGED <<now, ent, tx, outcome, provider>>

(* The payment succeeded and cannot be applied: the error rolls the whole  *)
(* transaction back and the row stays open.                                *)
FinalizeRefused(r) ==
  /\ Finalizing(r)
  /\ StillOpen(r)
  /\ req[r].answer = "succeeded"
  /\ \A intent \in FinalIntent(r) : ~PaymentAllowed(r, intent)
  /\ Advance(r, Idle)
  /\ UNCHANGED <<now, ent, tx, outcome, provider>>

(* The process, its connection or its database transaction dies: nothing   *)
(* of it that has not committed remains.  A missing VAT configuration      *)
(* fails a preparing request the same way.                                 *)
RequestFails(r) ==
  /\ req[r].stage # "idle"
  /\ Advance(r, Idle)
  /\ UNCHANGED <<now, ent, tx, outcome, provider>>

Restart(s) ==
  /\ provider[s] # NotBooted
  /\ provider' = [provider EXCEPT ![s] = NotBooted]
  /\ req' = [r \in Requests |-> IF req[r].server = s THEN Idle ELSE req[r]]
  /\ UNCHANGED <<now, ent, tx, outcome>>

-----------------------------------------------------------------------------
(* runCustomerTransition refuses while a checkout is open; the Admin       *)
(* mutations do not ask.                                                   *)
CustomerManages ==
  /\ NoOpenCheckout
  /\ CustomerTransition
  /\ UNCHANGED <<now, tx, outcome, provider, req>>

AdminMutates == AdminTransition /\ UNCHANGED <<now, tx, outcome, provider, req>>

ClockTicks == Tick /\ UNCHANGED <<ent, tx, outcome, provider, req>>

Init ==
  /\ LifecycleInit
  /\ tx = [k \in Keys |-> NoRow]
  /\ outcome \in Outcomes
  /\ provider = [s \in Servers |-> NotBooted]
  /\ req = [r \in Requests |-> Idle]

RequestProceeds(r) ==
  \/ PrepareNew(r) \/ PrepareReused(r) \/ PrepareRefused(r)
  \/ ProviderCreates(r) \/ ProviderRetrieves(r)
  \/ FinalizeStale(r) \/ FinalizeUnpaid(r) \/ FinalizePaid(r) \/ FinalizeRefused(r)

CustomerRequests(r) ==
  \E k \in Keys, s \in Servers :
    \/ BeginReconcile(r, k, s)
    \/ \E plan \in Plans, currency \in Currencies : BeginCheckout(r, k, plan, currency, s)

Next ==
  \/ ClockTicks
  \/ CustomerManages
  \/ AdminMutates
  \/ \E r \in Requests : CustomerRequests(r) \/ RequestProceeds(r) \/ RequestFails(r)
  \/ \E s \in Servers : Restart(s)

Spec == Init /\ [][Next]_vars

(* Fairness.  A request that waits for a lock or an answer gets it (row    *)
(* locks queue, and lock orders agree); crashes and restarts stop some     *)
(* day; and, the assumption about the customer, an open checkout is sent   *)
(* again with its own key, or reconciled, whenever that is possible.       *)
CalmNext ==
  \/ ClockTicks
  \/ CustomerManages
  \/ AdminMutates
  \/ \E r \in Requests : CustomerRequests(r) \/ RequestProceeds(r)

Resubmits(k) ==
  /\ IsOpen(tx[k])
  /\ \E r \in Requests, s \in Servers : BeginCheckout(r, k, tx[k].plan, tx[k].currency, s)

Reconciles(k) == \E r \in Requests, s \in Servers : BeginReconcile(r, k, s)

LiveSpec ==
  /\ Spec
  /\ \A r \in Requests : WF_vars(RequestProceeds(r))
  /\ \A k \in Keys : SF_vars(Resubmits(k)) /\ SF_vars(Reconciles(k))
  /\ <>[][CalmNext]_vars

-----------------------------------------------------------------------------
(* The types of the variables, and the CHECK constraints of both tables:   *)
(* no write of the services is one the database rejects.                   *)
TypeOK ==
  /\ now \in Nat
  /\ ent \in Entitlement /\ RowChecks(ent)
  /\ tx \in [Keys -> BillingRow \cup {NoRow}]
  /\ outcome \in Outcomes
  /\ provider \in [Servers -> [boot : Times, known : SUBSET Keys]]
  /\ req \in [Requests -> Request]

(* deployment-checklist.md:151: one open checkout per workspace, although  *)
(* the rule is enforced by a query under the workspace lock and by no      *)
(* index, and the stages of several requests interleave.                   *)
OneOpenCheckout == \A j, k \in OpenKeys : j = k

(* Access called paid was bought: a succeeded transaction of exactly the   *)
(* plan and currency in the row stands behind it, whatever the Admin,      *)
(* retries, restarts and stale answers did meanwhile.                      *)
PaidAccessIsBought ==
  ent.source = "paid" =>
    \E k \in Keys : /\ tx[k].status = "succeeded"
                    /\ tx[k].plan = ent.plan /\ tx[k].currency = ent.currency

(* Some transaction is settled as paid by this step. *)
PaymentSettles == \E k \in Keys : IsOpen(tx[k]) /\ tx'[k].status = "succeeded"

(* A terminal transaction is final: an answer that comes late or out of    *)
(* order ("processing" after "succeeded") changes nothing.                 *)
TerminalIsFinal == [][\A k \in Keys : IsTerminal(tx[k]) => tx'[k] = tx[k]]_vars

(* The paid part of the row and a transaction's success commit together:   *)
(* neither changes without the other, so a retry never applies it twice.   *)
PaidPart == <<ent.source = "paid", ent.plan, ent.periodEnd>>
PaymentIsAtomic ==
  [][/\ (ent'.source = "paid" /\ PaidPart' # PaidPart) => PaymentSettles
     /\ \A k \in Keys : IsOpen(tx[k]) /\ tx'[k].status = "succeeded" =>
          ent'.source = "paid" /\ ent'.plan = tx[k].plan]_vars

(* While one checkout stays open, the schedule the customer set before it  *)
(* (downgrade or cancellation) is frozen, so the upgrade that clears it    *)
(* never clears one it did not see.                                        *)
Schedule == <<ent.cancel, ent.pendingPlan, ent.pendingAt>>
ScheduleFrozenDuringCheckout ==
  [][\A k \in OpenKeys : IsOpen(tx'[k]) => Schedule' = Schedule]_vars

(* Purchased access lasts: until the end of the period nobody but the      *)
(* customer's own upgrade replaces it, and the allowance never shrinks.    *)
PaidAccessLasts ==
  [][ent.source = "paid" /\ Granted(ent, now) /\ now' < ent.periodEnd =>
       Granted(ent', now') /\ EffectiveLimit(ent', now') >= EffectiveLimit(ent, now)]_vars

(* A lapsed subscription regains access by a payment and nothing else. *)
LapsedRegainsByPayment ==
  [][ent.source = "paid" /\ ~Granted(ent, now) /\ Granted(ent', now') =>
       PaymentSettles]_vars

(* A request in flight always has a next step: no combination of stage,    *)
(* answer, transaction and entitlement is left without a branch.           *)
RequestsEnd == \A r \in Requests : req[r].stage # "idle" ~> req[r].stage = "idle"

(* The billing period of the running provider instance is over: it is      *)
(* fixed when the instance is built, and every payment it answers is then  *)
(* refused as invalid_billing_period.                                      *)
ProviderPeriodOver ==
  \E s \in Servers : provider[s].boot # Null /\ now >= provider[s].boot + Month

(* A checkout left open by a lost response, a crash or a payment that was  *)
(* still processing is settled in the end by sending it again or           *)
(* reconciling it, unless the provider's period has run out.               *)
OpenCheckoutSettles ==
  \A k \in Keys : IsOpen(tx[k]) ~> ~IsOpen(tx[k]) \/ ProviderPeriodOver

-----------------------------------------------------------------------------
(* The promise of PaidAccess, kept: an order is a transaction seen from    *)
(* outside, and its access is the plan of a row that says it is paid.      *)
OrderOf(row) ==
  [state |-> IF IsOpen(row) THEN "open" ELSE row.status, plan |-> row.plan]

Promise == INSTANCE PaidAccess WITH
  order  <- [k \in Keys |-> OrderOf(tx[k])],
  access <- IF ent.source = "paid" THEN ent.plan ELSE Null

(* Checkout, with everything that can go wrong in it, implements the       *)
(* abstract purchase.                                                      *)
ImplementsPaidAccess == Promise!Spec
=============================================================================
