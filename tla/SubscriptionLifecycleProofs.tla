--------------------- MODULE SubscriptionLifecycleProofs ---------------------
(***************************************************************************)
(* Proofs about the entitlement row for every catalogue of plans, every    *)
(* period length and an unbounded set of plans and currencies.             *)
(***************************************************************************)
EXTENDS SubscriptionLifecycle, TLAPS

RowOK(e) == e \in Entitlement /\ RowChecks(e)

USE DEF Times

(* The row a completed onboarding inserts is well formed. *)
LEMMA TrialRowOK ==
  ASSUME NEW start \in Nat, NEW length \in Nat
  PROVE  RowOK(TrialRow(start, length))
BY NullAssumption DEF RowOK, TrialRow, Entitlement, RowChecks, Statuses, Sources

(* Clearing the schedule keeps a row well formed. *)
LEMMA NoScheduleOK ==
  ASSUME NEW e, RowOK(e)
  PROVE  /\ RowOK(NoSchedule(e))
         /\ NoSchedule(e).cancel = FALSE
         /\ NoSchedule(e).pendingPlan = Null /\ NoSchedule(e).pendingAt = Null
BY NullAssumption DEF RowOK, NoSchedule, Entitlement, RowChecks

LEMMA CommercialFieldsClearedOK ==
  ASSUME NEW e, RowOK(e)
  PROVE  /\ RowOK(CommercialFieldsCleared(e))
         /\ CommercialFieldsCleared(e).cancel = FALSE
         /\ CommercialFieldsCleared(e).pendingPlan = Null
         /\ CommercialFieldsCleared(e).pendingAt = Null
         /\ CommercialFieldsCleared(e).periodEnd = Null
BY NoScheduleOK, NullAssumption
   DEF RowOK, CommercialFieldsCleared, Entitlement, RowChecks

(* Each transition writes a well-formed row.  The paid ones are stated for *)
(* the arbitrary clock reading they are called with.                       *)
LEMMA ActivatePaidOK ==
  ASSUME RowOK(ent), NEW plan \in Plans, NEW currency \in Currencies,
         NEW per \in Period, NEW at \in Nat, ActivatePaid(plan, currency, per, at)
  PROVE  RowOK(ent')
<1>1. CASE UNCHANGED ent
  BY <1>1
<1>2. CASE ent' = ActivatedRow(plan, currency, per)
  <2>1. per.start \in Nat /\ per.end \in Nat /\ per.start <= per.end
    BY DEF ActivatePaid, ActivationAllowed, ValidPaidPeriod, Period
  <2>2. PICK n : n = NoSchedule(ent) /\ n \in Entitlement
    BY NoScheduleOK DEF RowOK
  <2>3. n.cancel = FALSE /\ n.pendingPlan = Null /\ n.pendingAt = Null
    BY <2>2, NoScheduleOK
  <2>4. ent' = [n EXCEPT
           !.status = "active", !.source = "paid", !.plan = plan, !.currency = currency,
           !.periodStart = per.start, !.periodEnd = per.end]
    BY <1>2, <2>2 DEF ActivatedRow
  <2> QED
    BY <2>1, <2>2, <2>3, <2>4, ZenonT(40) DEF RowOK, Entitlement, RowChecks, Statuses, Sources
<1> QED
  BY <1>1, <1>2 DEF ActivatePaid

LEMMA ApplyUpgradeOK ==
  ASSUME RowOK(ent), NEW plan \in Plans, NEW currency \in Currencies,
         NEW per \in Period, NEW at \in Nat, ApplyUpgrade(plan, currency, per, at)
  PROVE  RowOK(ent')
<1>1. per.start \in Nat /\ per.end \in Nat /\ per.start <= per.end
  BY DEF ApplyUpgrade, UpgradeAllowed, ValidPaidPeriod, Period
<1>2. PICK n : n = NoSchedule(ent) /\ n \in Entitlement
  BY NoScheduleOK DEF RowOK
<1>3. n.cancel = FALSE /\ n.pendingPlan = Null /\ n.pendingAt = Null
  BY <1>2, NoScheduleOK
<1>4. ent' = [n EXCEPT !.plan = plan, !.periodStart = per.start, !.periodEnd = per.end]
  BY <1>2 DEF ApplyUpgrade, UpgradedRow
<1> QED
  BY <1>1, <1>2, <1>3, <1>4, ZenonT(40) DEF RowOK, Entitlement, RowChecks

LEMMA PaidTransitionOK ==
  ASSUME RowOK(ent), now \in Nat, PaidTransition
  PROVE  RowOK(ent')
<1>1. PICK plan \in Plans, currency \in Currencies, s \in 0 .. now :
        \/ ActivatePaid(plan, currency, [start |-> s, end |-> s + Month], now)
        \/ ApplyUpgrade(plan, currency, [start |-> s, end |-> s + Month], now)
  BY DEF PaidTransition
<1>2. [start |-> s, end |-> s + Month] \in Period
  BY TimeAssumption DEF Period
<1> QED
  BY <1>1, <1>2, ActivatePaidOK, ApplyUpgradeOK

LEMMA CustomerTransitionOK ==
  ASSUME RowOK(ent), now \in Nat, CustomerTransition
  PROVE  RowOK(ent')
<1> USE NullAssumption DEF RowOK, Entitlement, RowChecks, BeforePeriodEnd, RequireActivePaid
<1>1. ASSUME NEW plan \in Plans, ScheduleDowngrade(plan) PROVE RowOK(ent')
  BY <1>1 DEF ScheduleDowngrade
<1>2. CASE CancelDowngrade
  BY <1>2 DEF CancelDowngrade
<1>3. CASE ScheduleCancellation
  BY <1>3 DEF ScheduleCancellation
<1>4. CASE CancelCancellation
  BY <1>4 DEF CancelCancellation
<1> QED
  BY <1>1, <1>2, <1>3, <1>4 DEF CustomerTransition

LEMMA AdminTransitionOK ==
  ASSUME RowOK(ent), now \in Nat, AdminTransition
  PROVE  RowOK(ent')
<1>1. ASSUME NEW newEnd \in 0 .. MaxTime, ExtendTrial(newEnd) PROVE RowOK(ent')
  BY <1>1, TimeAssumption DEF ExtendTrial, RowOK, Entitlement, RowChecks
<1>2. ASSUME NEW plan \in Plans, GrantComplimentary(plan) PROVE RowOK(ent')
  <2>1. CASE ent' = [ent EXCEPT !.plan = plan]
    BY <2>1 DEF RowOK, Entitlement, RowChecks
  <2>2. CASE FreshGrant(plan)
    <3>1. PICK c : c = CommercialFieldsCleared(ent) /\ c \in Entitlement
      BY CommercialFieldsClearedOK DEF RowOK
    <3>2. c.cancel = FALSE /\ c.pendingPlan = Null /\ c.pendingAt = Null
          /\ c.periodEnd = Null
      BY <3>1, CommercialFieldsClearedOK
    <3>3. ent' = [c EXCEPT !.status = "active", !.source = "complimentary", !.plan = plan]
      BY <2>2, <3>1 DEF FreshGrant
    <3> QED
      BY <3>1, <3>2, <3>3, ZenonT(40) DEF RowOK, Entitlement, RowChecks, Statuses, Sources
  <2> QED
    BY <1>2, <2>1, <2>2 DEF GrantComplimentary
<1>3. ASSUME RevokeComplimentary PROVE RowOK(ent')
  BY <1>3, CommercialFieldsClearedOK
     DEF RevokeComplimentary, RowOK, Entitlement, RowChecks, Statuses, Sources
<1> QED
  BY <1>1, <1>2, <1>3 DEF AdminTransition

LEMMA DowngradeMaterializedOK ==
  ASSUME NEW e, RowOK(e), NEW at \in Nat
  PROVE  RowOK(DowngradeMaterialized(e, at))
<1>1. ASSUME NEW plan \in Plans \cup {Null}
      PROVE  RowOK([e EXCEPT !.plan = plan, !.pendingPlan = Null, !.pendingAt = Null])
  BY NullAssumption, ZenonT(40) DEF RowOK, Entitlement, RowChecks
<1>2. e.plan \in Plans \cup {Null} /\ e.pendingPlan \in Plans \cup {Null}
  BY DEF RowOK, Entitlement
<1> DEFINE kept == IF e.cancel THEN e.plan ELSE e.pendingPlan
<1>3. kept \in Plans \cup {Null}
  BY <1>2
<1> HIDE DEF kept
<1>4. RowOK([e EXCEPT !.plan = kept, !.pendingPlan = Null, !.pendingAt = Null])
  BY <1>1, <1>3
<1> QED
  BY <1>4 DEF DowngradeMaterialized, kept

LEMMA EndMaterializedOK ==
  ASSUME NEW e, RowOK(e), NEW at \in Nat
  PROVE  RowOK(EndMaterialized(e, at))
<1>1. e.canceledAt \in Times
  BY DEF RowOK, Entitlement
<1>2. ASSUME NEW status \in {"canceled", "expired"}, NEW canceledAt \in Times
      PROVE  RowOK([e EXCEPT !.status = status, !.canceledAt = canceledAt,
                             !.cancel = FALSE])
  <2> DEFINE d == [e EXCEPT !.status = status, !.canceledAt = canceledAt, !.cancel = FALSE]
  <2>1. status \in Statuses /\ e \in Entitlement
    BY DEF Statuses, RowOK
  <2>2. d \in Entitlement
    BY <2>1 DEF Entitlement
  <2>3. /\ d.periodStart = e.periodStart /\ d.periodEnd = e.periodEnd /\ d.cancel = FALSE
        /\ d.pendingPlan = e.pendingPlan /\ d.pendingAt = e.pendingAt
    BY <2>1 DEF Entitlement
  <2> HIDE DEF d
  <2> QED
    BY <2>2, <2>3 DEF RowOK, RowChecks, d
<1>3. RowOK([e EXCEPT !.status = "canceled", !.canceledAt = at, !.cancel = FALSE])
  BY <1>2
<1>4. RowOK([e EXCEPT !.status = "expired", !.canceledAt = e.canceledAt,
                      !.cancel = FALSE])
  BY <1>1, <1>2
<1>5. CASE e.cancel
  BY <1>3, <1>5 DEF EndMaterialized
<1>6. CASE ~e.cancel
  BY <1>4, <1>6 DEF EndMaterialized
<1> QED
  BY <1>5, <1>6

LEMMA MaterializedOK ==
  ASSUME NEW e, RowOK(e), NEW at \in Nat
  PROVE  RowOK(Materialized(e, at))
BY DowngradeMaterializedOK, EndMaterializedOK DEF Materialized

LEMMA BackOfficeTransitionOK ==
  ASSUME RowOK(ent), now \in Nat, BackOfficeTransition
  PROVE  RowOK(ent')
<1>1. CASE MarkPastDue
  BY <1>1 DEF MarkPastDue, RowOK, Entitlement, RowChecks, Statuses
<1>2. CASE MarkExpired
  BY <1>2 DEF MarkExpired, RowOK, Entitlement, RowChecks, Statuses
<1>3. CASE Materialize
  BY <1>3, MaterializedOK DEF Materialize
<1>4. ASSUME NEW s \in 0 .. now, NEW currency \in Currencies,
             Recover(currency, [start |-> s, end |-> s + Month])
      PROVE  RowOK(ent')
  <2> DEFINE per == [start |-> s, end |-> s + Month]
  <2>1. per.start \in Nat /\ per.end \in Nat /\ per.start <= per.end
    BY TimeAssumption
  <2>2. PICK n : n = NoSchedule(ent) /\ n \in Entitlement
    BY NoScheduleOK DEF RowOK
  <2>3. n.cancel = FALSE /\ n.pendingPlan = Null /\ n.pendingAt = Null
    BY <2>2, NoScheduleOK
  <2>4. ent' = [n EXCEPT
           !.status = "active", !.periodStart = per.start, !.periodEnd = per.end]
    BY <1>4, <2>2 DEF Recover
  <2> HIDE DEF per
  <2> QED
    BY <2>1, <2>2, <2>3, <2>4 DEF RowOK, Entitlement, RowChecks, Statuses
<1> QED
  BY <1>1, <1>2, <1>3, <1>4 DEF BackOfficeTransition

-----------------------------------------------------------------------------
(* What every row the transitions leave looks like to a reader: a trial    *)
(* has never been paid for, a complimentary row carries nothing            *)
(* commercial, and a paid row has a plan, a currency and a period that has *)
(* begun, with a scheduled downgrade due at its end and none beside a      *)
(* scheduled cancellation.                                                 *)
NothingCommercial(e) ==
  /\ e.periodStart = Null /\ e.periodEnd = Null /\ e.currency = Null
  /\ ~e.cancel /\ e.canceledAt = Null /\ e.pendingPlan = Null

PaidSound(e, at) ==
  /\ e.status # "trialing"
  /\ e.plan # Null /\ e.currency # Null
  /\ e.periodStart # Null /\ e.periodEnd # Null
  /\ e.periodStart < e.periodEnd /\ e.periodStart <= at
  /\ e.pendingPlan # Null => e.pendingAt = e.periodEnd /\ ~e.cancel

Sound(e, at) ==
  /\ RowOK(e)
  /\ TrialValid(e)
  /\ e.source = "trial" => e.status = "trialing" /\ NothingCommercial(e)
  /\ e.source = "complimentary" =>
       e.status \in {"active", "expired"} /\ e.plan # Null /\ NothingCommercial(e)
  /\ e.source = "paid" => PaidSound(e, at)

LEMMA TrialRowSound ==
  ASSUME NEW start \in Nat, NEW length \in Nat \ {0}, NEW at \in Nat
  PROVE  Sound(TrialRow(start, length), at)
<1>1. RowOK(TrialRow(start, length))
  BY TrialRowOK
<1> QED
  BY <1>1, NullAssumption DEF Sound, TrialRow, TrialValid, NothingCommercial

LEMMA SoundLater ==
  ASSUME NEW e, NEW at \in Nat, NEW later \in Nat, at <= later, Sound(e, at)
  PROVE  Sound(e, later)
<1>1. e.periodStart \in Times
  BY DEF Sound, RowOK, Entitlement
<1> QED
  BY <1>1, NullAssumption DEF Sound, PaidSound

(* The fields of the row without its schedule. *)
LEMMA NoScheduleFields ==
  ASSUME NEW e \in Entitlement
  PROVE  /\ NoSchedule(e) \in Entitlement
         /\ ~NoSchedule(e).cancel /\ NoSchedule(e).canceledAt = Null
         /\ NoSchedule(e).pendingPlan = Null /\ NoSchedule(e).pendingAt = Null
         /\ NoSchedule(e).trialStart = e.trialStart /\ NoSchedule(e).trialEnd = e.trialEnd
         /\ NoSchedule(e).status = e.status /\ NoSchedule(e).source = e.source
         /\ NoSchedule(e).plan = e.plan /\ NoSchedule(e).currency = e.currency
         /\ NoSchedule(e).periodStart = e.periodStart /\ NoSchedule(e).periodEnd = e.periodEnd
BY NullAssumption DEF NoSchedule, Entitlement

LEMMA CommercialFieldsClearedFields ==
  ASSUME NEW e \in Entitlement
  PROVE  /\ CommercialFieldsCleared(e) \in Entitlement
         /\ NothingCommercial(CommercialFieldsCleared(e))
         /\ CommercialFieldsCleared(e).trialStart = e.trialStart
         /\ CommercialFieldsCleared(e).trialEnd = e.trialEnd
<1>1. PICK n \in Entitlement : n = NoSchedule(e)
  BY NoScheduleFields
<1>2. /\ ~n.cancel /\ n.canceledAt = Null /\ n.pendingPlan = Null /\ n.pendingAt = Null
      /\ n.trialStart = e.trialStart /\ n.trialEnd = e.trialEnd
  BY <1>1, NoScheduleFields
<1>3. CommercialFieldsCleared(e) = [n EXCEPT !.periodStart = Null, !.periodEnd = Null, !.currency = Null]
  BY <1>1 DEF CommercialFieldsCleared
<1> QED
  BY <1>2, <1>3, NullAssumption DEF Entitlement, NothingCommercial

(* A customer's transition finds a paid row: nothing else has a currency. *)
LEMMA RequireActivePaidIsPaid ==
  ASSUME NEW e, NEW at \in Nat, Sound(e, at), RequireActivePaid(e)
  PROVE  e.source = "paid" /\ e.status = "active"
BY DEF Sound, RequireActivePaid, NothingCommercial, RowOK, Entitlement, Sources

LEMMA PaidTransitionSound ==
  ASSUME Sound(ent, now), now \in Nat, PaidTransition
  PROVE  Sound(ent', now)
<1> ent \in Entitlement /\ RowOK(ent)
  BY DEF Sound, RowOK
<1>0. RowOK(ent')
  BY PaidTransitionOK
<1>1. PICK plan \in Plans, currency \in Currencies, s \in 0 .. now :
        \/ ActivatePaid(plan, currency, [start |-> s, end |-> s + Month], now)
        \/ ApplyUpgrade(plan, currency, [start |-> s, end |-> s + Month], now)
  BY DEF PaidTransition
<1> DEFINE per == [start |-> s, end |-> s + Month]
<1>2. /\ per.start = s /\ per.end = s + Month
      /\ s \in Nat /\ s + Month \in Nat /\ s < s + Month /\ s <= now
      /\ s # Null /\ s + Month # Null /\ plan # Null /\ currency # Null
  BY TimeAssumption, NullAssumption
<1> HIDE DEF per
<1>3. PICK n \in Entitlement : n = NoSchedule(ent)
  BY NoScheduleFields
<1>4. /\ ~n.cancel /\ n.canceledAt = Null /\ n.pendingPlan = Null /\ n.pendingAt = Null
      /\ n.trialStart = ent.trialStart /\ n.trialEnd = ent.trialEnd
      /\ n.status = ent.status /\ n.source = ent.source /\ n.currency = ent.currency
  BY <1>3, NoScheduleFields
<1>5. CASE ActivatePaid(plan, currency, per, now) /\ ent' = ent
  BY <1>5
<1>6. CASE ActivatePaid(plan, currency, per, now) /\ ent' = ActivatedRow(plan, currency, per)
  <2>1. ent' = [n EXCEPT
           !.status = "active", !.source = "paid", !.plan = plan, !.currency = currency,
           !.periodStart = per.start, !.periodEnd = per.end]
    BY <1>3, <1>6 DEF ActivatedRow
  <2>2. /\ ent'.status = "active" /\ ent'.source = "paid" /\ ent'.plan = plan
        /\ ent'.currency = currency /\ ent'.periodStart = s /\ ent'.periodEnd = s + Month
        /\ ent'.pendingPlan = Null
        /\ ent'.trialStart = ent.trialStart /\ ent'.trialEnd = ent.trialEnd
    BY <2>1, <1>2, <1>4 DEF Entitlement
  <2> QED
    BY <2>2, <1>0, <1>2 DEF Sound, TrialValid, PaidSound
<1>7. CASE ApplyUpgrade(plan, currency, per, now)
  <2>1. ent' = [n EXCEPT !.plan = plan, !.periodStart = per.start, !.periodEnd = per.end]
    BY <1>3, <1>7 DEF ApplyUpgrade, UpgradedRow
  <2>2. ent.source = "paid" /\ ent.status = "active" /\ ent.currency # Null
    BY <1>7, RequireActivePaidIsPaid DEF ApplyUpgrade, UpgradeAllowed, RequireActivePaid
  <2>3. /\ ent'.status = "active" /\ ent'.source = "paid" /\ ent'.plan = plan
        /\ ent'.currency # Null /\ ent'.periodStart = s /\ ent'.periodEnd = s + Month
        /\ ent'.pendingPlan = Null
        /\ ent'.trialStart = ent.trialStart /\ ent'.trialEnd = ent.trialEnd
    BY <2>1, <2>2, <1>2, <1>4 DEF Entitlement
  <2> QED
    BY <2>3, <1>0, <1>2 DEF Sound, TrialValid, PaidSound
<1> QED
  BY <1>1, <1>5, <1>6, <1>7 DEF ActivatePaid, per

(* A customer's transition writes the schedule of the row and nothing else. *)
OnlyReschedules(e, d) ==
  /\ d.source = e.source /\ d.status = e.status
  /\ d.trialStart = e.trialStart /\ d.trialEnd = e.trialEnd
  /\ d.plan = e.plan /\ d.currency = e.currency
  /\ d.periodStart = e.periodStart /\ d.periodEnd = e.periodEnd
  /\ d.pendingPlan # Null => d.pendingAt = d.periodEnd /\ ~d.cancel

LEMMA CustomerTransitionReschedules ==
  ASSUME Sound(ent, now), now \in Nat, CustomerTransition
  PROVE  ent.source = "paid" /\ ent.status = "active" /\ OnlyReschedules(ent, ent')
<1>0. ent \in Entitlement
  BY DEF Sound, RowOK
<1>1. RequireActivePaid(ent)
  BY DEF CustomerTransition, ScheduleDowngrade, CancelDowngrade, ScheduleCancellation,
         CancelCancellation, BeforePeriodEnd
<1>2. ent.source = "paid" /\ ent.status = "active" /\ PaidSound(ent, now)
  BY <1>1, RequireActivePaidIsPaid DEF Sound
<1>3. ASSUME NEW plan \in Plans, ScheduleDowngrade(plan) PROVE OnlyReschedules(ent, ent')
  BY <1>0, <1>2, <1>3 DEF ScheduleDowngrade, Entitlement, OnlyReschedules
<1>4. CASE CancelDowngrade
  BY <1>0, <1>2, <1>4 DEF CancelDowngrade, Entitlement, OnlyReschedules
<1>5. CASE ScheduleCancellation
  BY <1>0, <1>2, <1>5 DEF ScheduleCancellation, Entitlement, OnlyReschedules
<1>6. CASE CancelCancellation
  BY <1>0, <1>2, <1>6 DEF CancelCancellation, Entitlement, PaidSound, OnlyReschedules
<1> QED
  BY <1>2, <1>3, <1>4, <1>5, <1>6 DEF CustomerTransition

LEMMA CustomerTransitionSound ==
  ASSUME Sound(ent, now), now \in Nat, CustomerTransition
  PROVE  Sound(ent', now)
<1>1. RowOK(ent')
  BY CustomerTransitionOK DEF Sound
<1>2. ent.source = "paid" /\ ent.status = "active" /\ OnlyReschedules(ent, ent')
  BY CustomerTransitionReschedules
<1> QED
  BY <1>1, <1>2 DEF Sound, PaidSound, TrialValid, OnlyReschedules

LEMMA AdminTransitionSound ==
  ASSUME Sound(ent, now), now \in Nat, AdminTransition
  PROVE  Sound(ent', now)
<1>0. ent \in Entitlement /\ RowOK(ent) /\ RowOK(ent')
  BY AdminTransitionOK DEF Sound, RowOK
<1>1. PICK c \in Entitlement : c = CommercialFieldsCleared(ent)
  BY <1>0, CommercialFieldsClearedFields
<1>2. NothingCommercial(c) /\ c.trialStart = ent.trialStart /\ c.trialEnd = ent.trialEnd
  BY <1>0, <1>1, CommercialFieldsClearedFields
<1>3. ASSUME NEW newEnd \in 0 .. MaxTime, ExtendTrial(newEnd) PROVE Sound(ent', now)
  <2>1. /\ ent.source = "trial" /\ ent.status = "trialing" /\ TrialValid(ent)
        /\ NothingCommercial(ent) /\ ent.trialEnd <= newEnd
        /\ ent' = [ent EXCEPT !.trialEnd = newEnd]
    BY <1>3 DEF ExtendTrial, Sound
  <2>2. ent'.source = "trial" /\ ent'.status = "trialing" /\ NothingCommercial(ent')
    BY <1>0, <2>1 DEF Entitlement, NothingCommercial
  <2>3. ent'.trialStart = ent.trialStart /\ ent'.trialEnd = newEnd
    BY <1>0, <2>1 DEF Entitlement
  <2>4. ent.trialStart \in Nat /\ ent.trialEnd \in Nat /\ newEnd \in Nat /\ newEnd # Null
    BY <1>0, <2>1, TimeAssumption, NullAssumption DEF Entitlement, TrialValid
  <2>5. TrialValid(ent')
    BY <2>1, <2>3, <2>4 DEF TrialValid
  <2> QED
    BY <1>0, <2>2, <2>5 DEF Sound
<1>4. ASSUME NEW plan \in Plans, GrantComplimentary(plan) PROVE Sound(ent', now)
  <2>0. plan # Null
    BY NullAssumption
  <2>1. CASE ent.source = "complimentary" /\ ent' = [ent EXCEPT !.plan = plan]
    BY <2>0, <2>1, <1>0 DEF Sound, Entitlement, NothingCommercial, TrialValid
  <2>2. CASE FreshGrant(plan)
    <3>1. ent' = [c EXCEPT !.status = "active", !.source = "complimentary", !.plan = plan]
      BY <2>2, <1>1 DEF FreshGrant
    <3>2. /\ ent'.status = "active" /\ ent'.source = "complimentary" /\ ent'.plan = plan
          /\ NothingCommercial(ent')
          /\ ent'.trialStart = ent.trialStart /\ ent'.trialEnd = ent.trialEnd
      BY <3>1, <1>2 DEF Entitlement, NothingCommercial
    <3> QED
      BY <3>2, <2>0, <1>0 DEF Sound, TrialValid
  <2> QED
    BY <1>0, <1>4, <2>1, <2>2 DEF GrantComplimentary, Entitlement, Sources
<1>5. ASSUME RevokeComplimentary PROVE Sound(ent', now)
  <2>1. ent' = [c EXCEPT !.status = "trialing", !.source = "trial", !.plan = Null]
    BY <1>5, <1>1 DEF RevokeComplimentary
  <2>2. /\ ent'.status = "trialing" /\ ent'.source = "trial"
        /\ NothingCommercial(ent')
        /\ ent'.trialStart = ent.trialStart /\ ent'.trialEnd = ent.trialEnd
    BY <2>1, <1>2 DEF Entitlement, NothingCommercial
  <2> QED
    BY <2>2, <1>0 DEF Sound, TrialValid
<1> QED
  BY <1>3, <1>4, <1>5 DEF AdminTransition

-----------------------------------------------------------------------------
(* Materializing a paid row: the only one with anything due. *)

LEMMA NothingDue ==
  ASSUME NEW e \in Entitlement, NothingCommercial(e), NEW at \in Nat
  PROVE  Materialized(e, at) = e
BY DEF NothingCommercial, Materialized, DowngradeMaterialized, EndMaterialized, PeriodEnded

(* The row after a due downgrade. *)
LEMMA DowngradeMaterializedPaid ==
  ASSUME NEW e \in Entitlement, NEW at \in Nat, PaidSound(e, at)
  PROVE  LET d == DowngradeMaterialized(e, at) IN
         /\ d \in Entitlement /\ PaidSound(d, at)
         /\ d.status = e.status /\ d.source = e.source /\ d.cancel = e.cancel
         /\ d.trialStart = e.trialStart /\ d.trialEnd = e.trialEnd
         /\ d.canceledAt = e.canceledAt /\ d.currency = e.currency
         /\ d.periodStart = e.periodStart /\ d.periodEnd = e.periodEnd
         /\ d.plan = EffectivePlan(e, at) /\ EffectivePlan(d, at) = EffectivePlan(e, at)
<1>1. CASE e.pendingPlan # Null /\ e.pendingAt # Null /\ at >= e.pendingAt
  <2>1. ~e.cancel
    BY <1>1 DEF PaidSound
  <2>2. DowngradeMaterialized(e, at)
          = [e EXCEPT !.plan = e.pendingPlan, !.pendingPlan = Null, !.pendingAt = Null]
    BY <1>1, <2>1 DEF DowngradeMaterialized
  <2>3. EffectivePlan(e, at) = e.pendingPlan
    BY <1>1 DEF EffectivePlan, PendingPlanDue, PendingPairValid
  <2> DEFINE d == [e EXCEPT !.plan = e.pendingPlan, !.pendingPlan = Null, !.pendingAt = Null]
  <2>4. /\ d \in Entitlement
        /\ d.status = e.status /\ d.source = e.source /\ d.cancel = e.cancel
        /\ d.trialStart = e.trialStart /\ d.trialEnd = e.trialEnd
        /\ d.canceledAt = e.canceledAt /\ d.currency = e.currency
        /\ d.periodStart = e.periodStart /\ d.periodEnd = e.periodEnd
        /\ d.plan = e.pendingPlan /\ d.pendingPlan = Null
    BY DEF Entitlement
  <2> HIDE DEF d
  <2>5. PaidSound(d, at) /\ EffectivePlan(d, at) = e.pendingPlan
    BY <1>1, <2>4 DEF PaidSound, EffectivePlan, PendingPlanDue
  <2> QED
    BY <2>2, <2>3, <2>4, <2>5 DEF d
<1>2. CASE ~(e.pendingPlan # Null /\ e.pendingAt # Null /\ at >= e.pendingAt)
  <2>1. DowngradeMaterialized(e, at) = e
    BY <1>2 DEF DowngradeMaterialized
  <2>2. EffectivePlan(e, at) = e.plan
    BY <1>2 DEF EffectivePlan, PendingPlanDue, PendingPairValid
  <2> QED
    BY <2>1, <2>2
<1> QED
  BY <1>1, <1>2

(* The row after a period that has ended. *)
LEMMA EndMaterializedPaid ==
  ASSUME NEW d \in Entitlement, NEW at \in Nat, PaidSound(d, at)
  PROVE  LET m == EndMaterialized(d, at) IN
         /\ PaidSound(m, at)
         /\ m.status = IF d.status = "active" /\ PeriodEnded(d, at)
                       THEN IF d.cancel THEN "canceled" ELSE "expired"
                       ELSE d.status
         /\ m.cancel => d.cancel
         /\ ~(d.status = "active" /\ PeriodEnded(d, at)) => m.cancel = d.cancel
         /\ m.source = d.source /\ m.trialStart = d.trialStart /\ m.trialEnd = d.trialEnd
         /\ m.plan = d.plan /\ m.currency = d.currency
         /\ m.periodStart = d.periodStart /\ m.periodEnd = d.periodEnd
         /\ m.pendingPlan = d.pendingPlan /\ m.pendingAt = d.pendingAt
<1>1. CASE d.status = "active" /\ PeriodEnded(d, at)
  <2> DEFINE status == IF d.cancel THEN "canceled" ELSE "expired"
             canceledAt == IF d.cancel THEN at ELSE d.canceledAt
             m == [d EXCEPT !.status = status, !.canceledAt = canceledAt, !.cancel = FALSE]
  <2> HIDE DEF status, canceledAt
  <2>1. /\ m.status = status /\ m.cancel = FALSE
        /\ m.source = d.source /\ m.trialStart = d.trialStart /\ m.trialEnd = d.trialEnd
        /\ m.plan = d.plan /\ m.currency = d.currency
        /\ m.periodStart = d.periodStart /\ m.periodEnd = d.periodEnd
        /\ m.pendingPlan = d.pendingPlan /\ m.pendingAt = d.pendingAt
    BY DEF Entitlement
  <2>2. EndMaterialized(d, at) = m
    BY <1>1 DEF EndMaterialized, status, canceledAt
  <2> HIDE DEF m
  <2>3. status # "trialing"
    BY DEF status
  <2>4. PaidSound(m, at)
    BY <2>1, <2>3 DEF PaidSound
  <2>5. m.status = IF d.cancel THEN "canceled" ELSE "expired"
    BY <2>1 DEF status
  <2> QED
    BY <1>1, <2>1, <2>2, <2>4, <2>5
<1>2. CASE ~(d.status = "active" /\ PeriodEnded(d, at))
  BY <1>2 DEF EndMaterialized
<1> QED
  BY <1>1, <1>2

LEMMA MaterializedPaid ==
  ASSUME NEW e \in Entitlement, NEW at \in Nat, PaidSound(e, at)
  PROVE  LET m == Materialized(e, at) IN
         /\ PaidSound(m, at)
         /\ m.status = IF e.status = "active" /\ PeriodEnded(e, at)
                       THEN IF e.cancel THEN "canceled" ELSE "expired"
                       ELSE e.status
         /\ ~(e.status = "active" /\ PeriodEnded(e, at)) => m.cancel = e.cancel
         /\ m.source = e.source /\ m.trialStart = e.trialStart /\ m.trialEnd = e.trialEnd
         /\ m.currency = e.currency
         /\ m.periodStart = e.periodStart /\ m.periodEnd = e.periodEnd
         /\ m.plan = EffectivePlan(e, at) /\ EffectivePlan(m, at) = EffectivePlan(e, at)
<1>1. PICK d \in Entitlement : d = DowngradeMaterialized(e, at)
  BY DowngradeMaterializedPaid
<1>2. /\ PaidSound(d, at)
      /\ d.status = e.status /\ d.source = e.source /\ d.cancel = e.cancel
      /\ d.trialStart = e.trialStart /\ d.trialEnd = e.trialEnd /\ d.currency = e.currency
      /\ d.periodStart = e.periodStart /\ d.periodEnd = e.periodEnd
      /\ d.plan = EffectivePlan(e, at) /\ EffectivePlan(d, at) = EffectivePlan(e, at)
  BY <1>1, DowngradeMaterializedPaid
<1>3. PeriodEnded(d, at) = PeriodEnded(e, at)
  BY <1>2 DEF PeriodEnded
<1>4. PICK m : m = EndMaterialized(d, at)
  OBVIOUS
<1>5. /\ PaidSound(m, at)
      /\ m.status = IF d.status = "active" /\ PeriodEnded(d, at)
                    THEN IF d.cancel THEN "canceled" ELSE "expired"
                    ELSE d.status
      /\ ~(d.status = "active" /\ PeriodEnded(d, at)) => m.cancel = d.cancel
      /\ m.source = d.source /\ m.trialStart = d.trialStart /\ m.trialEnd = d.trialEnd
      /\ m.plan = d.plan /\ m.currency = d.currency
      /\ m.periodStart = d.periodStart /\ m.periodEnd = d.periodEnd
      /\ m.pendingPlan = d.pendingPlan /\ m.pendingAt = d.pendingAt
  BY <1>2, <1>4, EndMaterializedPaid
<1>6. EffectivePlan(m, at) = EffectivePlan(d, at)
  BY <1>5 DEF EffectivePlan, PendingPlanDue, PendingPairValid
<1>7. m = Materialized(e, at)
  BY <1>1, <1>4 DEF Materialized
<1> QED
  BY <1>2, <1>3, <1>5, <1>6, <1>7

LEMMA BackOfficeTransitionSound ==
  ASSUME Sound(ent, now), now \in Nat, BackOfficeTransition
  PROVE  Sound(ent', now)
<1>0. ent \in Entitlement /\ RowOK(ent) /\ RowOK(ent') /\ ent.source \in Sources
  BY BackOfficeTransitionOK DEF Sound, RowOK, Entitlement
<1>1. CASE MarkPastDue
  <2>1. ent.source = "paid" /\ PaidSound(ent, now)
    BY <1>1, RequireActivePaidIsPaid DEF MarkPastDue, Sound
  <2> QED
    BY <1>0, <1>1, <2>1 DEF MarkPastDue, Sound, PaidSound, Entitlement, TrialValid
<1>2. CASE MarkExpired
  BY <1>0, <1>2 DEF MarkExpired, Sound, PaidSound, Entitlement, TrialValid, NothingCommercial
<1>3. CASE Materialize
  <2>1. ent.source = "paid" /\ PaidSound(ent, now)
    BY <1>0, <1>3, NothingDue DEF Materialize, Sound, Sources
  <2>2. PICK m : m = Materialized(ent, now)
    OBVIOUS
  <2>3. PaidSound(m, now) /\ m.source = "paid"
        /\ m.trialStart = ent.trialStart /\ m.trialEnd = ent.trialEnd
    BY <1>0, <2>1, <2>2, MaterializedPaid
  <2>4. ent' = m
    BY <1>3, <2>2 DEF Materialize
  <2> QED
    BY <1>0, <2>3, <2>4 DEF Sound, TrialValid
<1>4. ASSUME NEW s \in 0 .. now, NEW currency \in Currencies,
             Recover(currency, [start |-> s, end |-> s + Month])
      PROVE  Sound(ent', now)
  <2> DEFINE per == [start |-> s, end |-> s + Month]
  <2>1. /\ per.start = s /\ per.end = s + Month
        /\ s \in Nat /\ s + Month \in Nat /\ s < s + Month /\ s <= now
        /\ s # Null /\ s + Month # Null
    BY TimeAssumption, NullAssumption
  <2>2. ent.source = "paid" /\ PaidSound(ent, now)
    BY <1>0, <1>4 DEF Recover, Sound, Sources
  <2>3. PICK n \in Entitlement : n = NoSchedule(ent)
    BY <1>0, NoScheduleFields
  <2>4. /\ n.pendingPlan = Null /\ n.plan = ent.plan /\ n.currency = ent.currency
        /\ n.trialStart = ent.trialStart /\ n.trialEnd = ent.trialEnd
        /\ n.source = ent.source
    BY <1>0, <2>3, NoScheduleFields
  <2>5. ent' = [n EXCEPT !.status = "active", !.periodStart = per.start, !.periodEnd = per.end]
    BY <1>4, <2>3 DEF Recover
  <2> HIDE DEF per
  <2>6. /\ ent'.status = "active" /\ ent'.source = "paid" /\ ent'.plan = ent.plan
        /\ ent'.currency = ent.currency /\ ent'.periodStart = s /\ ent'.periodEnd = s + Month
        /\ ent'.pendingPlan = Null
        /\ ent'.trialStart = ent.trialStart /\ ent'.trialEnd = ent.trialEnd
    BY <2>1, <2>2, <2>4, <2>5 DEF Entitlement
  <2> QED
    BY <1>0, <2>1, <2>2, <2>6 DEF Sound, PaidSound, TrialValid
<1> QED
  BY <1>1, <1>2, <1>3, <1>4 DEF BackOfficeTransition

-----------------------------------------------------------------------------
(* What a reader makes of a sound row. *)

LEMMA SoundNeverMalformed ==
  ASSUME Sound(ent, now), now \in Nat
  PROVE  NeverMalformed
<1> ent \in Entitlement /\ RowChecks(ent) /\ ent.status \in Statuses /\ ent.source \in Sources
  BY DEF Sound, RowOK, Entitlement
<1>0. Null # "malformed_entitlement" /\ PendingPairValid(ent)
  BY NullAssumption DEF Denials, RowChecks, PendingPairValid
<1>1. CASE ent.source = "trial"
  <2>1. Denial(ent, now) = IF now >= ent.trialEnd THEN "trial_expired" ELSE Null
    BY <1>1 DEF Sound, Denial
  <2> QED
    BY <1>0, <2>1 DEF NeverMalformed
<1>2. CASE ent.source = "complimentary"
  <2>1. ComplimentaryShapeValid(ent, now)
    BY <1>0, <1>2 DEF Sound, NothingCommercial, ComplimentaryShapeValid, EffectivePlan, PendingPlanDue
  <2> QED
    BY <1>0, <1>2, <2>1 DEF Sound, Denial, NeverMalformed
<1>3. CASE ent.source = "paid"
  <2>1. PaidSound(ent, now)
    BY <1>3 DEF Sound
  <2>2. EffectivePlan(ent, now) # Null
    BY <2>1 DEF PaidSound, EffectivePlan, PendingPlanDue
  <2>3. PaidShapeValid(ent, now)
    BY <1>0, <2>1, <2>2 DEF PaidSound, PaidShapeValid
  <2>4. CASE ent.status = "active"
    BY <1>0, <1>3, <2>3, <2>4 DEF Denial, NeverMalformed
  <2>5. CASE ent.status \in {"past_due", "canceled", "expired"}
    BY <2>5 DEF Denial, NeverMalformed
  <2> QED
    BY <2>1, <2>4, <2>5 DEF PaidSound, Statuses
<1> QED
  BY <1>1, <1>2, <1>3 DEF Sources

LEMMA SoundDowngradeAtPeriodEnd ==
  ASSUME Sound(ent, now), now \in Nat
  PROVE  DowngradeAtPeriodEnd
BY DEF Sound, PaidSound, NothingCommercial, DowngradeAtPeriodEnd, RowOK, Entitlement, Sources

LEMMA SoundMaterializing ==
  ASSUME Sound(ent, now), now \in Nat
  PROVE  MaterializingChangesNothing
<1>0. ent \in Entitlement /\ RowChecks(ent) /\ ent.status \in Statuses /\ ent.source \in Sources
  BY DEF Sound, RowOK, Entitlement
<1>1. CASE ent.source \in {"trial", "complimentary"}
  BY <1>0, <1>1, NothingDue DEF Sound, MaterializingChangesNothing
<1>2. CASE ent.source = "paid"
  <2>1. PaidSound(ent, now)
    BY <1>2 DEF Sound
  <2>2. PICK m : m = Materialized(ent, now)
    OBVIOUS
  <2>3. /\ PaidSound(m, now)
        /\ m.status = IF ent.status = "active" /\ PeriodEnded(ent, now)
                      THEN IF ent.cancel THEN "canceled" ELSE "expired"
                      ELSE ent.status
        /\ ~(ent.status = "active" /\ PeriodEnded(ent, now)) => m.cancel = ent.cancel
        /\ m.source = ent.source /\ m.trialStart = ent.trialStart /\ m.trialEnd = ent.trialEnd
        /\ m.currency = ent.currency
        /\ m.periodStart = ent.periodStart /\ m.periodEnd = ent.periodEnd
        /\ m.plan = EffectivePlan(ent, now) /\ EffectivePlan(m, now) = EffectivePlan(ent, now)
    BY <1>0, <2>1, <2>2, MaterializedPaid
  <2>4. RowOK(m)
    BY <2>2, MaterializedOK DEF Sound
  <2>5. PendingPairValid(m) /\ PendingPairValid(ent)
    BY <1>0, <2>4 DEF RowOK, RowChecks, PendingPairValid
  <2>6. EffectivePlan(ent, now) # Null
    BY <2>1 DEF PaidSound, EffectivePlan, PendingPlanDue
  <2>7. PaidShapeValid(ent, now) /\ PaidShapeValid(m, now)
    BY <2>1, <2>3, <2>5, <2>6 DEF PaidSound, PaidShapeValid
  <2>8. PeriodEnded(m, now) = PeriodEnded(ent, now)
    BY <2>3 DEF PeriodEnded
  <2>9. ent.status \in {"active", "past_due", "canceled", "expired"}
    BY <1>0, <2>1 DEF PaidSound, Statuses
  <2>10. Denial(m, now) = Denial(ent, now)
    <3>1. CASE ent.status = "active" /\ PeriodEnded(ent, now)
      <4>1. CASE ent.cancel
        BY <1>2, <2>3, <2>7, <2>8, <3>1, <4>1 DEF Denial
      <4>2. CASE ~ent.cancel
        BY <1>2, <2>3, <2>6, <2>7, <2>8, <3>1, <4>2 DEF Denial
      <4> QED
        BY <4>1, <4>2
    <3>2. CASE ent.status = "active" /\ ~PeriodEnded(ent, now)
      BY <1>2, <2>3, <2>7, <2>8, <3>2 DEF Denial
    <3>3. CASE ent.status \in {"past_due", "canceled", "expired"}
      BY <2>3, <3>3 DEF Denial
    <3> QED
      BY <2>9, <3>1, <3>2, <3>3
  <2>11. Granted(ent, now) => m.status = ent.status
    <3>1. SUFFICES ASSUME ent.status = "active", PeriodEnded(ent, now)
                   PROVE  ~Granted(ent, now)
      BY <2>3
    <3>2. Denial(ent, now) \in {"subscription_canceled", "subscription_expired"}
      BY <1>2, <2>7, <3>1 DEF Denial
    <3> QED
      BY <3>2, NullAssumption DEF Granted, Denials
  <2>12. EffectiveStatus(m, now) = EffectiveStatus(ent, now)
    BY <2>10, <2>11 DEF EffectiveStatus, Granted
  <2>13. EffectiveLimit(m, now) = EffectiveLimit(ent, now)
    BY <2>1, <2>3, <2>6 DEF PaidSound, EffectiveLimit
  <2> QED
    BY <2>2, <2>3, <2>10, <2>12, <2>13 DEF MaterializingChangesNothing, Resolution
<1> QED
  BY <1>0, <1>1, <1>2 DEF Sources

(* A running subscription's plan only grows. *)
LEMMA RunningPlanStep ==
  ASSUME Sound(ent, now), now \in Nat,
         PaidTransition \/ CustomerTransition \/ AdminTransition \/ BackOfficeTransition,
         ent.source = "paid", ent.status \in {"active", "past_due"}, ~PeriodEnded(ent, now)
  PROVE  ent'.plan = ent.plan \/ LargerPlan(ent, ent'.plan)
<1>0. ent \in Entitlement /\ PaidSound(ent, now)
  BY DEF Sound, RowOK
<1>1. CASE PaidTransition
  <2>1. PICK plan \in Plans, currency \in Currencies, s \in 0 .. now :
          \/ ActivatePaid(plan, currency, [start |-> s, end |-> s + Month], now)
          \/ ApplyUpgrade(plan, currency, [start |-> s, end |-> s + Month], now)
    BY <1>1 DEF PaidTransition
  <2> DEFINE per == [start |-> s, end |-> s + Month]
  <2> HIDE DEF per
  <2>2. CASE ActivatePaid(plan, currency, per, now)
    BY <2>2, <1>0 DEF ActivatePaid, ActivationAllowed
  <2>3. CASE ApplyUpgrade(plan, currency, per, now)
    <3>1. PICK n \in Entitlement : n = NoSchedule(ent)
      BY <1>0, NoScheduleFields
    <3>2. ent' = [n EXCEPT !.plan = plan, !.periodStart = per.start, !.periodEnd = per.end]
      BY <2>3, <3>1 DEF ApplyUpgrade, UpgradedRow
    <3>3. ent'.plan = plan
      BY <3>1, <3>2 DEF Entitlement
    <3> QED
      BY <2>3, <3>3 DEF ApplyUpgrade, UpgradeAllowed
  <2> QED
    BY <2>1, <2>2, <2>3 DEF per
<1>2. CASE CustomerTransition
  BY <1>2, CustomerTransitionReschedules DEF OnlyReschedules
<1>3. CASE AdminTransition
  BY <1>3 DEF AdminTransition, ExtendTrial, GrantComplimentary, RevokeComplimentary
<1>4. CASE BackOfficeTransition
  <2>1. CASE MarkPastDue \/ MarkExpired
    BY <1>0, <2>1 DEF MarkPastDue, MarkExpired, Entitlement
  <2>2. CASE Materialize
    <3>1. ent'.plan = EffectivePlan(ent, now)
      BY <1>0, <2>2, MaterializedPaid DEF Materialize
    <3>2. EffectivePlan(ent, now) = ent.plan
      BY <1>0 DEF EffectivePlan, PendingPlanDue, PaidSound, PeriodEnded
    <3> QED
      BY <3>1, <3>2
  <2>3. ASSUME NEW s \in 0 .. now, NEW currency \in Currencies,
               Recover(currency, [start |-> s, end |-> s + Month])
        PROVE  ent'.plan = ent.plan
    <3>1. PICK n \in Entitlement : n = NoSchedule(ent)
      BY <1>0, NoScheduleFields
    <3>2. n.plan = ent.plan
      BY <1>0, <3>1, NoScheduleFields
    <3> DEFINE per == [start |-> s, end |-> s + Month]
    <3>3. ent' = [n EXCEPT !.status = "active", !.periodStart = per.start, !.periodEnd = per.end]
      BY <2>3, <3>1 DEF Recover
    <3> HIDE DEF per
    <3> QED
      BY <3>1, <3>2, <3>3 DEF Entitlement
  <2> QED
    BY <1>4, <2>1, <2>2, <2>3 DEF BackOfficeTransition
<1> QED
  BY <1>1, <1>2, <1>3, <1>4
=============================================================================
