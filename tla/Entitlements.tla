---------------------------- MODULE Entitlements ----------------------------
(***************************************************************************)
(* The workspace entitlement row and its pure resolution:                  *)
(* src/src/lib/entitlements/resolve.ts over the row of                     *)
(* src/src/server/db/schema/workspace-entitlements.ts.                     *)
(*                                                                         *)
(* Nothing in the service runs when a trial or a billing period ends: the  *)
(* row stays as it was and every reader resolves it against the clock.     *)
(* The operators below are that resolution.  Times are ticks; a plan or a  *)
(* currency is an opaque value (the CHECK constraints of the table rule    *)
(* out any other string, so resolve.ts's unknown_plan is not reachable);   *)
(* the only billing interval, 'monthly', is left out.                      *)
(***************************************************************************)
EXTENDS Integers

CONSTANTS
  Plans,               \* PlanKey
  AccountLimit,        \* activeTradingAccountLimit of each plan
  TrialAccountLimit,   \* TRIAL_ACCOUNT_LIMIT
  Currencies,          \* BillingCurrency
  Null                 \* SQL NULL

ASSUME PlanAssumption ==
  /\ AccountLimit \in [Plans -> Nat \ {0}]
  /\ TrialAccountLimit \in Nat \ {0}

Denials == {"malformed_entitlement", "trial_expired", "subscription_past_due",
            "subscription_canceled", "subscription_expired"}

ASSUME NullAssumption ==
  /\ Null \notin Plans
  /\ Null \notin Currencies
  /\ Null \notin Int
  /\ Null \notin Denials

Statuses == {"trialing", "active", "past_due", "expired", "canceled"}
Sources  == {"trial", "paid", "complimentary"}
Times    == Nat \cup {Null}

Entitlement ==
  [status      : Statuses,
   source      : Sources,
   plan        : Plans \cup {Null},
   trialStart  : Times,
   trialEnd    : Times,
   periodStart : Times,
   periodEnd   : Times,
   currency    : Currencies \cup {Null},
   cancel      : BOOLEAN,               \* cancelAtPeriodEnd
   canceledAt  : Times,
   pendingPlan : Plans \cup {Null},
   pendingAt   : Times]                 \* pendingPlanEffectiveAt

(* The CHECK constraints of the table that relate columns. *)
RowChecks(e) ==
  /\ (e.periodStart # Null /\ e.periodEnd # Null) => e.periodStart <= e.periodEnd
  /\ e.cancel => e.periodEnd # Null
  /\ (e.pendingPlan = Null) <=> (e.pendingAt = Null)

(* The row startTrialInTx inserts when onboarding completes. *)
TrialRow(start, length) ==
  [status      |-> "trialing", source      |-> "trial",
   plan        |-> Null,       currency    |-> Null,
   trialStart  |-> start,      trialEnd    |-> start + length,
   periodStart |-> Null,       periodEnd   |-> Null,
   cancel      |-> FALSE,      canceledAt  |-> Null,
   pendingPlan |-> Null,       pendingAt   |-> Null]

-----------------------------------------------------------------------------
(* resolveEffectiveEntitlement *)

TrialValid(e) ==
  e.trialStart # Null /\ e.trialEnd # Null /\ e.trialStart < e.trialEnd

PendingPairValid(e) == (e.pendingPlan = Null) <=> (e.pendingAt = Null)

PendingPlanDue(e, now) ==
  PendingPairValid(e) /\ e.pendingPlan # Null /\ now >= e.pendingAt

EffectivePlan(e, now) == IF PendingPlanDue(e, now) THEN e.pendingPlan ELSE e.plan

PeriodEnded(e, now) == e.periodEnd # Null /\ now >= e.periodEnd

ComplimentaryShapeValid(e, now) ==
  /\ EffectivePlan(e, now) # Null
  /\ PendingPairValid(e)
  /\ e.periodStart = Null /\ e.periodEnd = Null /\ e.currency = Null
  /\ ~e.cancel /\ e.canceledAt = Null

PaidShapeValid(e, now) ==
  /\ e.periodStart # Null /\ e.periodEnd # Null
  /\ e.periodStart < e.periodEnd /\ e.periodStart <= now
  /\ EffectivePlan(e, now) # Null
  /\ e.currency # Null
  /\ PendingPairValid(e)

(* denialReason before the account count is looked at; Null grants access. *)
Denial(e, now) ==
  CASE e.status = "trialing" ->
         IF ~TrialValid(e) THEN "malformed_entitlement"
         ELSE IF now >= e.trialEnd THEN "trial_expired" ELSE Null
    [] e.status = "active" /\ e.source = "complimentary" ->
         IF ComplimentaryShapeValid(e, now) THEN Null ELSE "malformed_entitlement"
    [] e.status = "active" /\ e.source # "complimentary" ->
         IF ~PaidShapeValid(e, now) THEN "malformed_entitlement"
         ELSE IF ~PeriodEnded(e, now) THEN Null
         ELSE IF e.cancel THEN "subscription_canceled" ELSE "subscription_expired"
    [] e.status = "past_due" -> "subscription_past_due"
    [] e.status = "canceled" -> "subscription_canceled"
    [] e.status = "expired"  ->
         IF EffectivePlan(e, now) = Null THEN "trial_expired" ELSE "subscription_expired"

Granted(e, now) == Denial(e, now) = Null

EffectiveStatus(e, now) ==
  IF Granted(e, now) THEN e.status
  ELSE IF Denial(e, now) \in {"subscription_canceled", "subscription_past_due"}
       THEN "canceled" ELSE "expired"

(* accountLimit; Null when the row has no plan to take it from. *)
EffectiveLimit(e, now) ==
  IF e.status = "trialing" THEN TrialAccountLimit
  ELSE IF EffectivePlan(e, now) # Null THEN AccountLimit[EffectivePlan(e, now)]
  ELSE IF e.status \in {"canceled", "expired"} THEN TrialAccountLimit
  ELSE Null

OverLimit(e, count, now) ==
  EffectiveLimit(e, now) # Null /\ count > EffectiveLimit(e, now)

AccessMode(e, count, now) ==
  IF ~Granted(e, now) THEN "read_only"
  ELSE IF OverLimit(e, count, now) THEN "over_limit" ELSE "writable"

(* authorizeWorkspaceMutation *)
Operations == {"ordinary_write", "create", "restore", "archive"}

Authorized(e, op, count, now) ==
  \/ /\ AccessMode(e, count, now) = "writable"
     /\ op \in {"create", "restore"} => count < EffectiveLimit(e, now)
  \/ AccessMode(e, count, now) = "over_limit" /\ op = "archive"
=============================================================================
