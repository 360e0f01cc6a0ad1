-------------------------- MODULE MCTradingAccounts --------------------------
EXTENDS TradingAccounts, TLC

CONSTANTS small, large, c1, c2, k1, k2

MCSmallLimit == small :> 2
MCTwoLimits == small :> 1 @@ large :> 2
MCCallSymmetry == Permutations({c1, c2})
MCSymmetry == MCCallSymmetry \cup Permutations({k1, k2})
=============================================================================
