CONSTANTS
  starter = starter
  trader = trader
  professional = professional
  Plans = {starter, trader, professional}
  AccountLimit <- MCLimit
  TrialAccountLimit = 1
  Currencies = {thb, usd}
  Null = Null
  TrialLength = 2
  Month = 3
  MaxExtension = 3
  MaxTime = 6
  Users = {u1, u2}
  Workspaces = {w1, w2}
  Calls = {c1, c2}
  SignIns = {p1, p2}
  Rates = {3}
  Baseline <- MCBaseline
  Subtotals = {1, 2, 5, 9}
  Scale = 10
  MaxMinor = 10
  MaxGrants = 3
  MaxChanges = 3
CONSTRAINT MCBound
SYMMETRY MCSymmetry
SPECIFICATION Spec
INVARIANT
  TypeOK
  NeverMalformed
  DowngradeAtPeriodEnd
  MaterializingChangesNothing
  VatChangesFollow
  OnePersonalWorkspace
  BillIsExact
PROPERTY
  RunningPlanNeverShrinks
  AuthorityInForce
