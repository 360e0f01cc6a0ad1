------------------------------ MODULE MCTrades ------------------------------
EXTENDS Trades, TLC

CONSTANTS t1, t2, k1, k2

MCKeySymmetry == Permutations({k1, k2})

(* The second trade is a bystander: opened first, and kept as it is. *)
MCBystander ==
  \A t \in Trades \ {t1} :
    \/ row[t].status = "none" /\ row[t1].status = "none"
    \/ /\ row[t].status = "open" /\ ~row[t].deleted
       /\ row[t].direction = "long" /\ row[t].plan = NoPlan /\ row[t].system = Pending
       /\ row[t].execution.mode = "price" /\ row[t].execution.entry = 2 /\ row[t].execution.stop = 1 /\ row[t].execution.entered = 2
       /\ row[t].execution.risk = Null /\ exits[t] = << >>

(* The first gets a system result only while it is long. *)
MCSystemOfLong == row[t1].direction = "short" => row[t1].system = Pending
=============================================================================
