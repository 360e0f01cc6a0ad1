CONSTANTS
  t1 = t1
  t2 = t2
  k1 = k1
  k2 = k2
  Trades = {t1}
  Keys = {k1, k2}
  Whole = 2
  PlanPrices = {}
  Prices = {1, 2, 3}
  Risks = {1}
  Rewards = {}
  Profits = {2, 3}
  Costs = {}
  Grosses = {}
  Times = {1, 2}
  Null = Null

SPECIFICATION Spec
PROPERTY
  ExactCloseRetrySucceeds
CHECK_DEADLOCK FALSE
