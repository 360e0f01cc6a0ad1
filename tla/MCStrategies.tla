---------------------------- MODULE MCStrategies ----------------------------
(* Instances of Strategies for TLC. *)
EXTENDS Strategies, TLC

CONSTANTS s1, u1, u2, t1, t2, a, b

MCSymmetry == Permutations({u1, u2}) \cup Permutations({t1, t2}) \cup Permutations({a, b})

(* With all trades recorded, nothing is archived and no rule ticked off. *)
MCBound ==
  (\A t \in Trades : trade[t] # Null) =>
    /\ \A s \in StrategyIds : Exists(s) => ~strategy[s].archived
    /\ \A u \in Setups : setup[u] # Null => ~setup[u].archived
    /\ \A t \in Trades : \A r \in DOMAIN trade[t].checks :
         trade[t].checks[r].status = "not_checked"
=============================================================================
