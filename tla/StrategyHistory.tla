--------------------------- MODULE StrategyHistory ---------------------------
(***************************************************************************)
(* What the strategies of a workspace promise the trades that use them: a  *)
(* strategy publishes versions one after the other and keeps every one as  *)
(* it was published, and a trade is tied once and for good to the version  *)
(* that was the newest when it was classified.  Drafts are not seen here.  *)
(***************************************************************************)
EXTENDS Naturals, Sequences

CONSTANTS Strategies, Trades, Null

VARIABLES
  published,  \* the published versions of each strategy
  pinned      \* the version each trade is tied to: <<strategy, number>>

vars == <<published, pinned>>

Init ==
  /\ published = [s \in Strategies |-> << >>]
  /\ pinned = [t \in Trades |-> Null]

Keep == UNCHANGED published

Publish(s) ==
  /\ Len(published'[s]) = Len(published[s]) + 1
  /\ \A n \in 1..Len(published[s]) : published'[s][n] = published[s][n]
  /\ \A other \in Strategies \ {s} : published'[other] = published[other]

PinNewest(t, s) ==
  /\ pinned[t] = Null
  /\ Len(published'[s]) > 0
  /\ pinned' = [pinned EXCEPT ![t] = <<s, Len(published'[s])>>]

Next ==
  \E s \in Strategies :
    /\ Keep \/ Publish(s)
    /\ UNCHANGED pinned \/ \E t \in Trades : PinNewest(t, s)

Spec == Init /\ [][Next]_vars
=============================================================================
