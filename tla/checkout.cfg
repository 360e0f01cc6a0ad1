CONSTANTS
  starter = starter
  trader = trader
  professional = professional
  Plans = {starter, trader, professional}
  AccountLimit <- MCLimit
  TrialAccountLimit = 1
  Currencies = {thb}
  Null = Null
  TrialLength = 1
  Month = 2
  MaxExtension = 2
  MaxTime = 3
  Keys = {k1, k2}
  Requests = {r1, r2}
  Servers = {s1}
  Outcomes = {"immediate_success"}
SYMMETRY MCSymmetry
SPECIFICATION Spec
INVARIANT
  TypeOK
  OneOpenCheckout
  PaidAccessIsBought
PROPERTY
  PaymentIsAtomic
  ScheduleFrozenDuringCheckout
  PaidAccessLasts
  LapsedRegainsByPayment
  ImplementsPaidAccess
