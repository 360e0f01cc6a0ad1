----------------------------- MODULE AccountBook -----------------------------
(***************************************************************************)
(* What the account services promise, as if each call were one step: an    *)
(* account is opened once, at least one stays usable, only a usable one is *)
(* traded or edited, and its currency stands from its first trade on.      *)
(* TradingAccounts.tla, where calls overlap, implements this.              *)
(***************************************************************************)
CONSTANTS Accounts, BaseCurrencies, Null

VARIABLES
  usable,    \* the accounts that may be used
  base,      \* the currency of each account, Null until it is opened
  traded     \* the accounts that hold a trade

vars == <<usable, base, traded>>

Opened(a) == base[a] # Null

Open(a, currency) ==
  /\ ~Opened(a)
  /\ usable' = usable \cup {a}
  /\ base' = [base EXCEPT ![a] = currency]
  /\ UNCHANGED traded

Archive(a) ==
  /\ a \in usable
  /\ usable \ {a} # {}
  /\ usable' = usable \ {a}
  /\ UNCHANGED <<base, traded>>

Restore(a) ==
  /\ Opened(a) /\ a \notin usable
  /\ usable' = usable \cup {a}
  /\ UNCHANGED <<base, traded>>

ChangeCurrency(a, currency) ==
  /\ a \in usable /\ a \notin traded
  /\ base' = [base EXCEPT ![a] = currency]
  /\ UNCHANGED <<usable, traded>>

Trade(a) ==
  /\ a \in usable
  /\ traded' = traded \cup {a}
  /\ UNCHANGED <<usable, base>>

Init == usable = {} /\ traded = {} /\ base = [a \in Accounts |-> Null]

Next ==
  \E a \in Accounts :
    \/ Archive(a) \/ Restore(a) \/ Trade(a)
    \/ \E currency \in BaseCurrencies : Open(a, currency) \/ ChangeCurrency(a, currency)

Spec == Init /\ [][Next]_vars
=============================================================================
