CONSTANTS
  Trades = {1, 2, 3}
  Null = Null
  Actuals <- MCActuals
  Verdicts <- MCVerdicts
  Accounts = {"main", "second"}
  AccountOf <- MCAccountOf
  Filters <- MCFilters
  DayLength = 10
  DaysPerMonth = 2
  Dates = {0, 1, 2}
  Zones <- MCZones
  Now = 23
  Instants = {23, 30}
  CheckSets <- MCCheckSets
  MaxWrites = 1
  Starting = 5
CONSTRAINT MCBackground
CONSTRAINT MCPages
SPECIFICATION Spec
INVARIANT
  PagesAgree
  FiguresAddUp
