------------------------ MODULE SubscriptionLifecycle ------------------------
(***************************************************************************)
(* The transitions of one workspace's entitlement row:                     *)
(* src/src/server/services/subscription-lifecycle.ts and the Admin         *)
(* mutations of src/src/server/services/admin/subscription-support.ts with *)
(* their decisions in src/src/lib/entitlements/admin-transitions.ts.       *)
(*                                                                         *)
(* Every transition runs in one database transaction that locks the        *)
(* workspace row and then the entitlement row, so each is one atomic       *)
(* action.  An error leaves the row alone: a refused call is a disabled    *)
(* action.  Provider references, the audit trail and updated_at are left   *)
(* out: nothing reads them back.                                           *)
(***************************************************************************)
EXTENDS Entitlements

CONSTANTS
  TrialLength,     \* TRIAL_DAYS, in ticks
  Month,           \* length of a billing period, in ticks
  MaxExtension,    \* MAX_TRIAL_EXTENSION_MS, in ticks
  MaxTime          \* bound on the clock

ASSUME TimeAssumption ==
  /\ TrialLength \in Nat \ {0}
  /\ Month \in Nat \ {0}
  /\ MaxExtension \in Nat
  /\ MaxTime \in Nat

VARIABLES
  now,   \* the clock every service reads
  ent    \* the workspace_entitlements row

Period == [start : Nat, end : Nat]

-----------------------------------------------------------------------------
(* Guards shared by the transitions. *)

ValidPaidPeriod(per, at) == per.start < per.end /\ per.start <= at /\ at < per.end

RequireActivePaid(e) ==
  /\ e.status = "active"
  /\ e.plan # Null /\ e.currency # Null
  /\ e.periodStart # Null /\ e.periodEnd # Null /\ e.periodStart < e.periodEnd

LargerPlan(e, plan) == AccountLimit[plan] > AccountLimit[e.plan]

SmallerPlan(e, plan) == AccountLimit[plan] < AccountLimit[e.plan]

(* What activation, upgrade, recovery, grant and revoke all clear. *)
NoSchedule(e) ==
  [e EXCEPT !.cancel = FALSE, !.canceledAt = Null,
            !.pendingPlan = Null, !.pendingAt = Null]

-----------------------------------------------------------------------------
(* Paid transitions.  "at" is the time the caller read. *)

(* exactRetry: the very period is already active. *)
AlreadyActivated(plan, currency, per) ==
  /\ ent.status = "active" /\ ent.plan = plan /\ ent.currency = currency
  /\ ent.periodStart = per.start /\ ent.periodEnd = per.end

ActivationAllowed(plan, currency, per, at) ==
  /\ ValidPaidPeriod(per, at)
  /\ \/ AlreadyActivated(plan, currency, per)
     \/ /\ ent.status # "past_due"
        /\ ent.status = "active" =>
             PeriodEnded(ent, at) \/ ent.source = "complimentary"

(* Mutant: the write forgets the provenance. *)
ActivatedRowKeepsSource(plan, currency, per) ==
  [NoSchedule(ent) EXCEPT
     !.status = "active", !.plan = plan, !.currency = currency,
     !.periodStart = per.start, !.periodEnd = per.end]

ActivatedRow(plan, currency, per) ==
  [NoSchedule(ent) EXCEPT
     !.status = "active", !.source = "paid", !.plan = plan, !.currency = currency,
     !.periodStart = per.start, !.periodEnd = per.end]

ActivatePaid(plan, currency, per, at) ==
  /\ ActivationAllowed(plan, currency, per, at)
  /\ \/ AlreadyActivated(plan, currency, per) /\ UNCHANGED ent
     \/ /\ ~AlreadyActivated(plan, currency, per)
        /\ ent' = ActivatedRow(plan, currency, per)

UpgradeAllowed(plan, currency, per, at) ==
  /\ RequireActivePaid(ent)
  /\ ValidPaidPeriod(per, at)
  /\ currency = ent.currency
  /\ LargerPlan(ent, plan)
  /\ per.end >= ent.periodEnd

(* Mutant: a scheduled downgrade or cancellation survives the upgrade. *)
UpgradedRowKeepsSchedule(plan, per) ==
  [ent EXCEPT !.plan = plan, !.periodStart = per.start, !.periodEnd = per.end]

UpgradedRow(plan, per) ==
  [NoSchedule(ent) EXCEPT
     !.plan = plan, !.periodStart = per.start, !.periodEnd = per.end]

ApplyUpgrade(plan, currency, per, at) ==
  UpgradeAllowed(plan, currency, per, at) /\ ent' = UpgradedRow(plan, per)

-----------------------------------------------------------------------------
(* Schedules the customer sets and clears during a paid period. *)

BeforePeriodEnd == RequireActivePaid(ent) /\ ~PeriodEnded(ent, now)

(* Mutant: the downgrade takes effect at once. *)
DowngradeNow(plan) ==
  BeforePeriodEnd /\ SmallerPlan(ent, plan) /\ ent' = [ent EXCEPT !.plan = plan]

ScheduleDowngrade(plan) ==
  /\ BeforePeriodEnd
  /\ ~ent.cancel
  /\ SmallerPlan(ent, plan)
  /\ ent' = [ent EXCEPT !.pendingPlan = plan, !.pendingAt = ent.periodEnd]

(* Mutant: half of the pending pair stays behind. *)
CancelDowngradeKeepsDate ==
  BeforePeriodEnd /\ ent' = [ent EXCEPT !.pendingPlan = Null]

CancelDowngrade ==
  /\ BeforePeriodEnd
  /\ ent' = [ent EXCEPT !.pendingPlan = Null, !.pendingAt = Null]

(* Mutant: a downgrade already scheduled stays scheduled. *)
ScheduleCancellationKeepsDowngrade ==
  BeforePeriodEnd /\ ent' = [ent EXCEPT !.cancel = TRUE]

ScheduleCancellation ==
  /\ BeforePeriodEnd
  /\ ent' = [ent EXCEPT !.cancel = TRUE, !.pendingPlan = Null, !.pendingAt = Null]

CancelCancellation ==
  /\ BeforePeriodEnd
  /\ ent' = [ent EXCEPT !.cancel = FALSE]

CustomerTransition ==
  \/ \E plan \in Plans : ScheduleDowngrade(plan)
  \/ CancelDowngrade
  \/ ScheduleCancellation
  \/ CancelCancellation

-----------------------------------------------------------------------------
(* Transitions exported for a billing back office.  No caller in the       *)
(* repository reaches them yet.                                            *)

MarkPastDue ==
  /\ RequireActivePaid(ent)
  /\ ent' = [ent EXCEPT !.status = "past_due"]

Recover(currency, per) ==
  /\ ent.status = "past_due" /\ ent.plan # Null
  /\ ValidPaidPeriod(per, now)
  /\ currency = ent.currency
  /\ ent' = [NoSchedule(ent) EXCEPT
               !.status = "active", !.periodStart = per.start, !.periodEnd = per.end]

MarkExpired ==
  /\ ent.status \in {"active", "past_due"}
  /\ ent' = [ent EXCEPT !.status = "expired", !.cancel = FALSE]

(* materializeDueLifecycleState in two steps of one row: a due downgrade   *)
(* is applied (or dropped, when a cancellation is scheduled), then a       *)
(* period that has ended closes the subscription.                          *)
DowngradeMaterialized(e, at) ==
  IF e.pendingPlan # Null /\ e.pendingAt # Null /\ at >= e.pendingAt
  THEN [e EXCEPT !.plan = IF e.cancel THEN e.plan ELSE e.pendingPlan,
                 !.pendingPlan = Null, !.pendingAt = Null]
  ELSE e

EndMaterialized(e, at) ==
  IF e.status = "active" /\ PeriodEnded(e, at)
  THEN [e EXCEPT !.status = IF e.cancel THEN "canceled" ELSE "expired",
                 !.canceledAt = IF e.cancel THEN at ELSE e.canceledAt,
                 !.cancel = FALSE]
  ELSE e

Materialized(e, at) == EndMaterialized(DowngradeMaterialized(e, at), at)

Materialize ==
  /\ Materialized(ent, now) # ent
  /\ ent' = Materialized(ent, now)

-----------------------------------------------------------------------------
(* Admin mutations. *)

HasTrialBaseline(e) == e.trialStart # Null /\ e.trialEnd # Null

ExtendTrial(newEnd) ==
  /\ ent.source = "trial" /\ ent.status = "trialing"
  /\ HasTrialBaseline(ent)
  /\ newEnd # ent.trialEnd
  /\ newEnd > now /\ newEnd >= ent.trialEnd /\ newEnd <= now + MaxExtension
  /\ ent' = [ent EXCEPT !.trialEnd = newEnd]

CommercialFieldsCleared(e) ==
  [NoSchedule(e) EXCEPT !.periodStart = Null, !.periodEnd = Null, !.currency = Null]

(* A fresh grant rewrites the row; a grant to a complimentary row changes  *)
(* its plan and nothing else.                                              *)
FreshGrant(plan) ==
  ent' = [CommercialFieldsCleared(ent) EXCEPT
            !.status = "active", !.source = "complimentary", !.plan = plan]

(* Mutant: nothing refuses a paid row. *)
GrantToPaidRow(plan) ==
  /\ HasTrialBaseline(ent)
  /\ IF ent.source = "trial" THEN FreshGrant(plan)
     ELSE ent' = [ent EXCEPT !.plan = plan]

(* Mutant: a lapsed subscription counts as unpaid. *)
GrantToLapsedRow(plan) ==
  /\ ent.source # "paid" \/ PeriodEnded(ent, now)
  /\ HasTrialBaseline(ent)
  /\ FreshGrant(plan)

GrantComplimentary(plan) ==
  /\ ent.source # "paid"
  /\ HasTrialBaseline(ent)
  /\ IF ent.source = "trial" THEN FreshGrant(plan)
     ELSE ent.plan # plan /\ ent' = [ent EXCEPT !.plan = plan]

RevokeComplimentary ==
  /\ ent.source = "complimentary"
  /\ HasTrialBaseline(ent)
  /\ ent' = [CommercialFieldsCleared(ent) EXCEPT
               !.status = "trialing", !.source = "trial", !.plan = Null]

AdminTransition ==
  \/ \E newEnd \in 0 .. MaxTime : ExtendTrial(newEnd)
  \/ \E plan \in Plans : GrantComplimentary(plan)
  \/ RevokeComplimentary

-----------------------------------------------------------------------------
(* Any exported transition, with any billing period that began by now.     *)

Tick == now < MaxTime /\ now' = now + 1

BackOfficeTransition ==
  \/ MarkPastDue
  \/ MarkExpired
  \/ Materialize
  \/ \E s \in 0 .. now, currency \in Currencies :
       Recover(currency, [start |-> s, end |-> s + Month])

PaidTransition ==
  \E plan \in Plans, currency \in Currencies, s \in 0 .. now :
    LET per == [start |-> s, end |-> s + Month] IN
    ActivatePaid(plan, currency, per, now) \/ ApplyUpgrade(plan, currency, per, now)

LifecycleInit == now = 0 /\ ent = TrialRow(0, TrialLength)

-----------------------------------------------------------------------------
(* The types of the clock and the row, and the table's CHECK constraints:  *)
(* no transition writes a row the database rejects.                        *)
LifecycleTypeOK == now \in Nat /\ ent \in Entitlement /\ RowChecks(ent)

(* Every row the write paths leave is one the read path understands:       *)
(* resolveEffectiveEntitlement never fails closed on a malformed row.      *)
NeverMalformed == Denial(ent, now) # "malformed_entitlement"

(* A scheduled downgrade takes effect when the paid period ends, not       *)
(* before and not after, whatever moved that end since it was scheduled.   *)
DowngradeAtPeriodEnd ==
  ent.pendingPlan # Null => ent.pendingAt = ent.periodEnd

(* What a reader is told of a row at time t. *)
Resolution(e, t) ==
  <<EffectiveStatus(e, t), EffectivePlan(e, t), EffectiveLimit(e, t), Denial(e, t)>>

(* Writing a due change into the row (materializeDueLifecycleState) tells  *)
(* readers what resolving the untouched row told them already.             *)
MaterializingChangesNothing ==
  Resolution(Materialized(ent, now), now) = Resolution(ent, now)

(* While a paid subscription runs, current or past due, its plan changes   *)
(* to a larger one only; a scheduled downgrade waits for the period's end. *)
RunningPlanNeverShrinks ==
  [][/\ ent.source = "paid" /\ ent.status \in {"active", "past_due"}
     /\ ~PeriodEnded(ent, now)
     => ent'.plan = ent.plan \/ LargerPlan(ent, ent'.plan)]_<<now, ent>>
=============================================================================
