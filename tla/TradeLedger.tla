----------------------------- MODULE TradeLedger -----------------------------
(***************************************************************************)
(* What the trades of a workspace are to those who read them: whether a    *)
(* trade is closed and with which result, and what the system would have   *)
(* made.  A trade only moves forward, has a result exactly while closed    *)
(* and a verdict exactly while resolved, and is never written once it is   *)
(* deleted.  How a result comes about is left open.                        *)
(*                                                                         *)
(* Trades implements this module; Analytics reads trades that move by it.  *)
(***************************************************************************)
CONSTANTS Trades, Null

VARIABLE ledger   \* what is known of each trade

NoEntry ==
  [status |-> "none", deleted |-> FALSE, actual |-> Null, system |-> "pending", verdict |-> Null]

Forward(from, to) ==
  \/ to = from
  \/ from = "none"    /\ to \in {"planned", "open", "closed"}
  \/ from = "planned" /\ to \in {"open", "canceled"}
  \/ from = "open"    /\ to = "closed"

Shaped(e) ==
  /\ e.status # "closed" => e.actual = Null
  /\ e.system # "resolved" => e.verdict = Null

Delete(before, after) ==
  /\ before.status # "none"
  /\ after.deleted
  /\ \A f \in {"status", "actual", "system", "verdict"} : after[f] = before[f]

Advance(before, after) ==
  /\ ~after.deleted
  /\ Forward(before.status, after.status)
  /\ before.system # "pending" => after.system # "pending"
  /\ Shaped(after)

Moves(before, after) == ~before.deleted /\ (Delete(before, after) \/ Advance(before, after))

Init == ledger = [t \in Trades |-> NoEntry]

Next ==
  /\ DOMAIN ledger' = Trades
  /\ \E t \in Trades :
       /\ Moves(ledger[t], ledger'[t])
       /\ \A u \in Trades \ {t} : ledger'[u] = ledger[u]

Spec == Init /\ [][Next]_ledger
=============================================================================
