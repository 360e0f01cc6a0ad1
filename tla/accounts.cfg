CONSTANTS
  small = small
  large = large
  c1 = c1
  c2 = c2
  k1 = k1
  k2 = k2
  Plans = {small, large}
  AccountLimit <- MCTwoLimits
  TrialAccountLimit = 1
  Currencies = {thb}
  Null = Null
  TrialLength = 1
  Month = 1
  MaxExtension = 1
  MaxTime = 1
  Accounts = {1, 2}
  Keys = {k1}
  BaseCurrencies = {usd, eur}
  Calls = {c1, c2}
  Pages = {p1}
  Onboarding = Onboarding
SPECIFICATION LiveSpec
INVARIANT
  TypeOK
  UsableAccountRemains
  OneFirstAccount
PROPERTY
  GrowthWithinLimit
  ImplementsAccountBook
  PreferenceHeals
