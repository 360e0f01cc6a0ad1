CONSTANTS
  s1 = s1
  u1 = u1
  u2 = u2
  t1 = t1
  t2 = t2
  a = a
  b = b
  StrategyIds = {s1}
  Setups = {u1, u2}
  Rules = {r1}
  Conditions = {k1}
  Names = {n1}
  Texts = {a, b}
  Trades = {t1, t2}
  MaxVersions = 2
  Null = Null
CONSTRAINT MCBound
SYMMETRY MCSymmetry
SPECIFICATION Spec
INVARIANT
  TypeOK
  RulesStayInVersion
  RecordsMatchVersion
PROPERTY
  AnswersFitThePage
  ImplementsStrategyHistory
