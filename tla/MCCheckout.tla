----------------------------- MODULE MCCheckout -----------------------------
(* Instances of Checkout for TLC. *)
EXTENDS Checkout, TLC

CONSTANTS starter, trader, professional

MCLimit == (starter :> 1) @@ (trader :> 2) @@ (professional :> 3)
MCTwoLimits == (starter :> 1) @@ (trader :> 2)
MCSymmetry == Permutations(Keys) \cup Permutations(Requests) \cup Permutations(Servers)
=============================================================================
