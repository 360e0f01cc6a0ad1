CONSTANTS
  t1 = t1
  t2 = t2
  k1 = k1
  k2 = k2
  Trades = {t1}
  Keys = {}
  Whole = 1
  PlanPrices = {1, 2, 3, 4, 5}
  Prices = {1, 2}
  Risks = {0, 1, 2}
  Rewards = {0, 1}
  Profits = {1}
  Costs = {0, 1}
  Grosses = {2}
  Times = {1}
  Null = Null
SPECIFICATION Spec
PROPERTY
  ExactSystemRetrySucceeds
CHECK_DEADLOCK FALSE
