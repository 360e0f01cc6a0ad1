--------------------------- MODULE TradingAccounts ---------------------------
(***************************************************************************)
(* The trading accounts of one workspace and the one its user has chosen:  *)
(* src/src/server/services/trading-account.ts (onboarding),                *)
(* trading-account-management.ts, the account side of createTradeInTx in   *)
(* trade-management.ts, and the repair-on-read of src/src/server/auth/     *)
(* dal.ts, composed with the transitions of the entitlement row.           *)
(*                                                                         *)
(* Every service call is a database transaction that locks the workspace   *)
(* row, reads the entitlement, the accounts and the clock, decides, and    *)
(* commits.  It is two steps here, the locked read and the commit, because *)
(* what makes the decision still right at the commit is the lock alone.    *)
(* A refused call changes nothing and is a disabled action.                *)
(*                                                                         *)
(* A page load resolves the chosen account with reads and a write that     *)
(* take no lock and share no transaction: four steps.                      *)
(***************************************************************************)
EXTENDS SubscriptionLifecycle, FiniteSets

CONSTANTS
  Accounts,    \* account ids, numbered in the order of (createdAt, id)
  Keys,        \* mutation keys of the create form
  BaseCurrencies,
  Calls,       \* slots for concurrent service calls
  Pages,       \* slots for concurrent page loads
  Onboarding   \* the key, unknown to any form, of the first account

ASSUME AccountAssumption ==
  /\ Accounts \subseteq Nat /\ IsFiniteSet(Accounts)
  /\ Onboarding \notin Keys
  /\ Null \notin Accounts \cup Keys \cup {Onboarding} \cup BaseCurrencies \cup Calls

VARIABLES
  acct,       \* trading_accounts
  pref,       \* user_preferences.active_trading_account_id
  onboarded,  \* workspaces.onboarding_completed_at is set
  lock,       \* the call that holds the workspace row
  write,      \* what each call has decided to write
  page        \* how far each page load has come

accountVars == <<acct, pref, onboarded>>
vars == <<now, ent, accountVars, lock, write, page>>

NoAccount  == [key |-> Null, archived |-> FALSE, base |-> Null, traded |-> FALSE]
AccountRow == [key : Keys \cup {Onboarding}, archived : BOOLEAN,
               base : BaseCurrencies, traded : BOOLEAN]

Created == {a \in Accounts : acct[a] # NoAccount}
Usable  == {a \in Created : ~acct[a].archived}

(* The first by (createdAt, id). *)
Oldest(S) == CHOOSE a \in S : \A b \in S : a <= b

Kinds == {"onboard", "create", "restore", "archive", "prefer", "update", "trade"}

NoWrite == [kind |-> "none", account |-> Null, key |-> Null, base |-> Null,
            pref |-> Null, at |-> Null]

Write ==
  [kind : Kinds, account : Accounts, key : Keys \cup {Onboarding, Null},
   base : BaseCurrencies \cup {Null}, pref : Accounts \cup {Null}, at : Nat]

NoPage == [step |-> "idle", seen |-> Null, fallback |-> Null]

Page ==
  [step : {"idle", "checking", "choosing", "writing"},
   seen : Accounts \cup {Null}, fallback : Accounts \cup {Null}]

-----------------------------------------------------------------------------
(* Service calls. *)

(* Mutant: no call locks the workspace row. *)
NoLockTaken == lock \in Calls \cup {Null}

WorkspaceUnlocked == lock = Null

(* lockAndResolveEntitlement and authorizeWorkspaceMutation. *)
Allowed(op) == ent # Null /\ Authorized(ent, op, Cardinality(Usable), now)

Decide(c, w) ==
  /\ WorkspaceUnlocked
  /\ write[c] = NoWrite
  /\ lock' = c
  /\ write' = [write EXCEPT ![c] = [w EXCEPT !.at = now]]
  /\ UNCHANGED <<now, ent, accountVars, page>>

(* A first submission creates the first account, or adopts one a partial   *)
(* attempt left.  A replay repairs a preference that is not set.           *)
CompleteOnboarding(c, a, base) ==
  LET account == IF Created = {} THEN a ELSE Oldest(Created) IN
  /\ acct[a] = NoAccount
  /\ onboarded => pref = Null /\ Allowed("ordinary_write")
  /\ Decide(c, [NoWrite EXCEPT !.kind = IF onboarded THEN "prefer" ELSE "onboard",
                               !.account = account, !.pref = account,
                               !.key = Onboarding, !.base = base])

CreateAccount(c, a, k, base, setActive) ==
  /\ acct[a] = NoAccount
  /\ \A b \in Created : acct[b].key # k
  /\ Allowed("create")
  /\ Decide(c, [NoWrite EXCEPT !.kind = "create", !.account = a, !.key = k, !.base = base,
                               !.pref = IF setActive THEN a ELSE Null])

RestoreAccount(c, a) ==
  /\ a \in Created \ Usable
  /\ Allowed("restore")
  /\ Decide(c, [NoWrite EXCEPT !.kind = "restore", !.account = a])

(* Mutant: nothing asks whether another account remains. *)
ArchiveAnyAccount(c, a) ==
  /\ Allowed("archive")
  /\ a \in Usable
  /\ Decide(c, [NoWrite EXCEPT !.kind = "archive", !.account = a])

ArchiveAccount(c, a) ==
  LET remaining == Usable \ {a} IN
  /\ Allowed("archive")
  /\ a \in Usable
  /\ remaining # {}
  /\ Decide(c, [NoWrite EXCEPT !.kind = "archive", !.account = a,
                               !.pref = IF pref = a THEN Oldest(remaining) ELSE Null])

SetActiveAccount(c, a) ==
  /\ a \in Usable
  /\ pref # a
  /\ Decide(c, [NoWrite EXCEPT !.kind = "prefer", !.account = a, !.pref = a])

(* Of the edits, the one that changes the base currency. *)
UpdateAccount(c, a, base) ==
  /\ Allowed("ordinary_write")
  /\ a \in Usable
  /\ base # acct[a].base /\ ~acct[a].traded
  /\ Decide(c, [NoWrite EXCEPT !.kind = "update", !.account = a, !.base = base])

(* createTrade, of which only the first trade of an account matters here. *)
RecordTrade(c, a) ==
  /\ Allowed("ordinary_write")
  /\ a \in Usable
  /\ ~acct[a].traded
  /\ Decide(c, [NoWrite EXCEPT !.kind = "trade", !.account = a])

AccountsAfter(w) ==
  CASE w.kind \in {"onboard", "create"} ->
         IF acct[w.account] # NoAccount THEN acct
         ELSE [acct EXCEPT ![w.account] = [key |-> w.key, archived |-> FALSE,
                                           base |-> w.base, traded |-> FALSE]]
    [] w.kind = "restore" -> [acct EXCEPT ![w.account].archived = FALSE]
    [] w.kind = "archive" -> [acct EXCEPT ![w.account].archived = TRUE]
    [] w.kind = "update"  -> [acct EXCEPT ![w.account].base = w.base]
    [] w.kind = "trade"   -> [acct EXCEPT ![w.account].traded = TRUE]
    [] w.kind = "prefer"  -> acct

(* startTrialInTx: the row is inserted unless it exists. *)
EntitlementAfter(w) ==
  IF w.kind = "onboard" /\ ent = Null THEN TrialRow(w.at, TrialLength) ELSE ent

Commit(c) ==
  /\ write[c] # NoWrite
  /\ acct' = AccountsAfter(write[c])
  /\ ent' = EntitlementAfter(write[c])
  /\ pref' = IF write[c].pref = Null THEN pref ELSE write[c].pref
  /\ onboarded' = (onboarded \/ write[c].kind = "onboard")
  /\ write' = [write EXCEPT ![c] = NoWrite]
  /\ lock' = Null
  /\ UNCHANGED <<now, page>>

(* The call or its connection dies: the database rolls it back. *)
RollBack(c) ==
  /\ write[c] # NoWrite
  /\ write' = [write EXCEPT ![c] = NoWrite]
  /\ lock' = Null
  /\ UNCHANGED <<now, ent, accountVars, page>>

-----------------------------------------------------------------------------
(* getActiveTradingAccountForResolvedContext *)

Turn(p, next) == page' = [page EXCEPT ![p] = next]

ReadPreference(p) ==
  /\ page[p].step = "idle"
  /\ Turn(p, [NoPage EXCEPT !.step = "checking", !.seen = pref])
  /\ UNCHANGED <<now, ent, accountVars, lock, write>>

(* Mutant: the stored account need only exist. *)
CheckExistence(p) ==
  /\ page[p].step = "checking"
  /\ Turn(p, IF page[p].seen \in Created THEN NoPage
             ELSE [page[p] EXCEPT !.step = "choosing"])
  /\ UNCHANGED <<now, ent, accountVars, lock, write>>

CheckPreference(p) ==
  /\ page[p].step = "checking"
  /\ Turn(p, IF page[p].seen \in Usable THEN NoPage
             ELSE [page[p] EXCEPT !.step = "choosing"])
  /\ UNCHANGED <<now, ent, accountVars, lock, write>>

(* No usable account and no stored reference to clear: nothing to write. *)
ChooseFallback(p) ==
  /\ page[p].step = "choosing"
  /\ Turn(p, IF Usable # {}
             THEN [page[p] EXCEPT !.step = "writing", !.fallback = Oldest(Usable)]
             ELSE IF page[p].seen # Null THEN [page[p] EXCEPT !.step = "writing"]
             ELSE NoPage)
  /\ UNCHANGED <<now, ent, accountVars, lock, write>>

WriteRepair(p) ==
  /\ page[p].step = "writing"
  /\ pref' = page[p].fallback
  /\ Turn(p, NoPage)
  /\ UNCHANGED <<now, ent, acct, onboarded, lock, write>>

-----------------------------------------------------------------------------
(* The entitlement row changes under the same lock; the clock under none. *)
EntitlementChanges ==
  /\ WorkspaceUnlocked
  /\ ent # Null
  /\ PaidTransition \/ CustomerTransition \/ AdminTransition
  /\ UNCHANGED <<now, accountVars, lock, write, page>>

ClockTicks == Tick /\ UNCHANGED <<ent, accountVars, lock, write, page>>

Init ==
  /\ now = 0 /\ ent = Null
  /\ acct = [a \in Accounts |-> NoAccount]
  /\ pref = Null
  /\ onboarded = FALSE
  /\ lock = Null
  /\ write = [c \in Calls |-> NoWrite]
  /\ page = [p \in Pages |-> NoPage]

CallDecides(c) ==
  \E a \in Accounts :
    \/ \E base \in BaseCurrencies :
         \/ CompleteOnboarding(c, a, base)
         \/ \E k \in Keys, setActive \in BOOLEAN : CreateAccount(c, a, k, base, setActive)
         \/ UpdateAccount(c, a, base)
    \/ RestoreAccount(c, a)
    \/ ArchiveAccount(c, a)
    \/ SetActiveAccount(c, a)
    \/ RecordTrade(c, a)

PageTurns(p) ==
  ReadPreference(p) \/ CheckPreference(p) \/ ChooseFallback(p) \/ WriteRepair(p)

Next ==
  \/ \E c \in Calls : CallDecides(c) \/ Commit(c) \/ RollBack(c)
  \/ \E p \in Pages : PageTurns(p)
  \/ EntitlementChanges
  \/ ClockTicks

Spec == Init /\ [][Next]_vars

(* Fairness.  The database commits or rolls back what it was given, pages  *)
(* keep being loaded, and, the assumption about the user, accounts stop    *)
(* being archived some day.                                                *)
Settles(c) == Commit(c) \/ RollBack(c)

NothingArchived == \A a \in Usable : ~acct'[a].archived

LiveSpec ==
  /\ Spec
  /\ \A c \in Calls : WF_vars(Settles(c))
  /\ \A p \in Pages : WF_vars(PageTurns(p))
  /\ <>[][NothingArchived]_vars

-----------------------------------------------------------------------------
(* The types of the variables; the preference refers to an account that    *)
(* exists (its foreign key).                                               *)
TypeOK ==
  /\ now \in Nat
  /\ ent = Null \/ (ent \in Entitlement /\ RowChecks(ent))
  /\ acct \in [Accounts -> AccountRow \cup {NoAccount}]
  /\ pref \in Created \cup {Null}
  /\ onboarded \in BOOLEAN
  /\ lock \in Calls \cup {Null}
  /\ write \in [Calls -> Write \cup {NoWrite}]
  /\ page \in [Pages -> Page]

(* trading-account-management.ts:403: a workspace past onboarding is never *)
(* left with zero non-archived accounts, though each of two archives may   *)
(* find the other's account remaining.                                     *)
UsableAccountRemains == onboarded => Usable # {}

(* No submission of the onboarding form, replayed or concurrent, creates a *)
(* second first account.                                                   *)
OneFirstAccount ==
  Cardinality({a \in Accounts : acct[a].key = Onboarding}) <= 1

(* Two calls racing for the last slot never both get it: a step that adds  *)
(* a usable account ends within the limit of the entitlement as it was     *)
(* when that call resolved it.                                             *)
GrowthWithinLimit ==
  [][LET count == Cardinality(Usable') IN
     (onboarded /\ count > Cardinality(Usable)) =>
       \E c \in Calls : /\ write[c] # NoWrite /\ write'[c] = NoWrite
                        /\ Granted(ent, write[c].at)
                        /\ count <= EffectiveLimit(ent, write[c].at)]_vars

(* trading-account-management.ts:227: the base currency is frozen the      *)
(* instant a trade refers to the account, because the stored money of the  *)
(* trade has no other currency.                                            *)
CurrencyFrozenByTrades ==
  [][\A a \in Created : acct[a].traded => acct'[a].base = acct[a].base]_vars

(* While an account is archived it takes no trade and no edit, whatever    *)
(* call was under way when it was archived.                                *)
ArchivedAccountIsFrozen ==
  [][\A a \in Created \ Usable :
       acct'[a] = [acct[a] EXCEPT !.archived = acct'[a].archived]]_vars

(* A preference that a race left on an archived account does not stay      *)
(* there once accounts stop being archived: a page load repairs it.        *)
PreferenceHeals == <>[](onboarded => pref \in Usable)

(* dal.ts:318: the repair selects a non-archived account and persists that *)
(* as the new preference.                                                  *)
RepairPersistsUsableAccount ==
  [][\A p \in Pages :
       (page[p].step = "writing" /\ page'[p].step = "idle" /\ pref' # Null) =>
         pref' \in Usable]_vars

-----------------------------------------------------------------------------
(* The account services implement AccountBook: overlapping calls have the  *)
(* effect of calls made one at a time.                                     *)
Bases == [a \in Accounts |-> acct[a].base]
Traded == {a \in Accounts : acct[a].traded}

Book == INSTANCE AccountBook WITH usable <- Usable, base <- Bases, traded <- Traded

ImplementsAccountBook == Book!Spec
=============================================================================
