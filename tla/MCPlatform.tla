----------------------------- MODULE MCPlatform -----------------------------
(* Instances of Platform for TLC. *)
EXTENDS Platform, TLC

CONSTANTS starter, trader, professional

MCLimit == starter :> 1 @@ trader :> 2 @@ professional :> 3
MCBaseline == [enabled |-> FALSE, rate |-> 3]
MCSymmetry == Permutations(Users) \cup Permutations(Calls) \cup Permutations(SignIns)

(* The parts of the platform meet in few places, so they take turns: the   *)
(* row's whole life without Admins; support of it by Admins with one       *)
(* grant; the VAT and the grants; and the first visits of the users.       *)
RowMoved     == ent # TrialRow(0, TrialLength)
AdminsAct    == grant # << >> \/ \E c \in Calls : call[c] # Idle
UsersVisit   == \E u \in Users : home[u] # NoHome \/ \E p \in SignIns : signIn[p] # SignedOut
VatMoves     == Len(vat) > 1 \/ \E c \in Calls : call[c].wants # Null

MCBound ==
  /\ bill = Null
  /\ AdminsAct  => now <= 2 /\ ~UsersVisit
  /\ VatMoves   => ~RowMoved /\ Len(grant) <= 2
  /\ RowMoved   => ~UsersVisit
  /\ RowMoved /\ ~AdminsAct => \A u \in Users : user[u] = "absent"
  /\ RowMoved /\ AdminsAct => now = 0 /\ Len(grant) <= 1
  /\ UsersVisit => now = 0
=============================================================================
