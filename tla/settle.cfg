CONSTANTS
  starter = starter
  trader = trader
  professional = professional
  Plans = {starter, trader}
  AccountLimit <- MCTwoLimits
  TrialAccountLimit = 1
  Currencies = {thb}
  Null = Null
  TrialLength = 1
  Month = 2
  MaxExtension = 1
  MaxTime = 2
  Keys = {k1}
  Requests = {r1, r2}
  Servers = {s1}
  Outcomes = {"immediate_success", "processing_then_success", "processing_then_failure", "canceled"}
SPECIFICATION LiveSpec
PROPERTY
  TerminalIsFinal
  RequestsEnd
  OpenCheckoutSettles
