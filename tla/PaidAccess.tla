----------------------------- MODULE PaidAccess -----------------------------
(***************************************************************************)
(* What checkout promises, without requests, providers, retries or a       *)
(* clock: a workspace has at most one order open, an order is settled      *)
(* once, and paying for it and receiving its plan are one step.  Access    *)
(* comes from orders only.  Checkout.tla implements this.                  *)
(***************************************************************************)
CONSTANTS Plans, Keys, Null

VARIABLES
  order,    \* the orders: their plan, and how far each has come
  access    \* the plan the workspace has paid for last

NoOrder == [state |-> "none", plan |-> Null]

Place(k, plan) ==
  /\ order[k] = NoOrder
  /\ \A j \in Keys : order[j].state # "open"
  /\ order' = [order EXCEPT ![k] = [state |-> "open", plan |-> plan]]
  /\ UNCHANGED access

Close(k, state) ==
  order[k].state = "open" /\ order' = [order EXCEPT ![k].state = state]

Abandon(k) == (Close(k, "failed") \/ Close(k, "canceled")) /\ UNCHANGED access

Pay(k) == Close(k, "succeeded") /\ access' = order[k].plan

Init == order = [k \in Keys |-> NoOrder] /\ access = Null

Next == \E k \in Keys : Abandon(k) \/ Pay(k) \/ \E plan \in Plans : Place(k, plan)

Spec == Init /\ [][Next]_<<order, access>>
=============================================================================
