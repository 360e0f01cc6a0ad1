---------------------------- MODULE MCAnalytics ----------------------------
EXTENDS Figures

(* The results of the trades: a gain and losses, one of them at the moment *)
(* of the gain and one in another month, and a gain not known in money.    *)
MCActuals ==
  {[r |-> 2, net |-> 4, at |-> 5], [r |-> -3, net |-> -6, at |-> 8],
   [r |-> -1, net |-> -2, at |-> 22], [r |-> 2, net |-> Null, at |-> 5]}

MCVerdicts == {[r |-> 1, at |-> 14], [r |-> -1, at |-> 6]}

MCAccountOf == [t \in Trades |-> IF t = 3 THEN "second" ELSE "main"]

(* All there is, a custom range, today, and a week of three days so far;   *)
(* of all accounts, of the active one, and of one by its name.             *)
MCFilters ==
  LET custom == [preset |-> "custom", first |-> 1, last |-> 2]
  IN {[dates |-> [preset |-> "all"], account |-> "all"],
      [dates |-> [preset |-> "all"], account |-> "main"],
      [dates |-> custom, account |-> "active"],
      [dates |-> [preset |-> "rolling", back |-> 0], account |-> "all"],
      [dates |-> [preset |-> "period", length |-> 3], account |-> "active"]}

(* The days of the page, and those that begin seven ticks later. *)
MCZones == {0, 7}

MCCheckSets == {{}, {"followed", "violated"}, {"followed", "not_checked"}, {"not_applicable"}}

(* The second trade is closed at once and then deleted at most; the third, *)
(* of another account, has the late loss at most, and no system result     *)
(* beside it.                                                              *)
MCBackground ==
  /\ ledger[2].status \in {"none", "closed"}
  /\ ledger[2].deleted \/ ledger[3] # Book!NoEntry => ledger[2].system = "pending"
  /\ ledger[3].status \in {"none", "closed"} /\ ~ledger[3].deleted
  /\ ledger[3].system = "pending" /\ ledger[3].actual \in {Null, [r |-> -1, net |-> -2, at |-> 22]}

(* The third trade and the last two ranges matter to days only, one        *)
(* account by its name to balances.  The account that is active at first   *)
(* is the main one, and a day is torn in one way at a time.                *)
MCPages ==
  /\ page # NoPage /\ page.kind # "day" =>
       ledger[3] = Book!NoEntry /\ page.filter.dates.preset \in {"all", "custom"}
  /\ page # NoPage /\ page.kind # "balance" => page.filter.account # "main"
  /\ scope # Null => scope.account # "second"
  /\ writes = 0 \/ again \in {Null, scope}
=============================================================================
