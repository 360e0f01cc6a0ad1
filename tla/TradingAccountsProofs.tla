------------------------ MODULE TradingAccountsProofs ------------------------
(***************************************************************************)
(* Proofs about the trading accounts for any number of accounts, calls,    *)
(* page loads, plans and limits.                                           *)
(*                                                                         *)
(* The argument is the lock: what a call has decided was true when it was  *)
(* read, only a commit or a transition of the entitlement can make it      *)
(* false, and both need the lock the call holds.                           *)
(***************************************************************************)
EXTENDS TradingAccounts, SubscriptionLifecycleProofs, FiniteSetTheorems,
        WellFoundedInduction

EntOK == ent = Null \/ RowOK(ent)

(* What a decided write relies on until it commits. *)
Decided(w) ==
  /\ w.kind = "onboard" =>
       /\ ~onboarded /\ acct[w.account] = NoAccount
       /\ w.key = Onboarding /\ w.base \in BaseCurrencies /\ w.pref = w.account
  /\ w.kind = "create" =>
       /\ onboarded /\ acct[w.account] = NoAccount
       /\ w.key \in Keys /\ w.base \in BaseCurrencies /\ w.pref \in {w.account, Null}
  /\ w.kind = "restore" => w.account \in Created \ Usable /\ w.pref = Null
  /\ w.kind = "archive" =>
       /\ w.account \in Usable /\ \E b \in Usable : b # w.account
       /\ w.pref \in Usable \cup {Null}
  /\ w.kind = "update" =>
       /\ w.account \in Usable /\ ~acct[w.account].traded
       /\ w.base \in BaseCurrencies /\ w.pref = Null
  /\ w.kind = "trade" => w.account \in Usable /\ w.pref = Null
  /\ w.kind = "prefer" => w.pref \in Created

(* The slot a decided write takes was paid for when the call read it. *)
SlotAllowed(w) ==
  w.kind \in {"create", "restore"} =>
    /\ Granted(ent, w.at)
    /\ EffectiveLimit(ent, w.at) \in Nat
    /\ Cardinality(Usable) + 1 <= EffectiveLimit(ent, w.at)

WritesDecided ==
  \A c \in Calls : write[c] # NoWrite =>
    lock = c /\ Decided(write[c]) /\ SlotAllowed(write[c])

StartOK == ~onboarded => Created = {} /\ ent = Null

FallbacksExist == \A p \in Pages : page[p].fallback \in Created \cup {Null}

FirstAccountUnique ==
  \A a, b \in Accounts : (acct[a].key = Onboarding /\ acct[b].key = Onboarding) => a = b

AccountsInv ==
  /\ TypeOK
  /\ WritesDecided
  /\ StartOK
  /\ FallbacksExist
  /\ FirstAccountUnique
  /\ UsableAccountRemains

-----------------------------------------------------------------------------
(* Lemmas about the operators. *)

(* The first by (createdAt, id) is one of those it is taken from. *)
LEMMA OldestIsMember ==
  ASSUME NEW T \in SUBSET Accounts, T # {}
  PROVE  Oldest(T) \in T
<1>1. T \in SUBSET Nat
  BY AccountAssumption
<1>2. \A x, y \in Nat : y < x => <<y, x>> \in OpToRel(<, Nat)
  BY DEF OpToRel
<1>3. IsWellFoundedOn(OpToRel(<, Nat), Nat)
  BY NatLessThanWellFounded
<1>4. \E x \in T : \A y \in T : ~(<<y, x>> \in OpToRel(<, Nat))
  BY <1>1, <1>3, WFMin
<1>5. \E x \in T : \A y \in T : ~(y < x)
  BY <1>1, <1>2, <1>4
<1>6. \E x \in T : \A y \in T : x <= y
  BY <1>1, <1>5
<1> QED
  BY <1>6 DEF Oldest

LEMMA NoAccountOK ==
  NoAccount.key = Null /\ NoAccount \notin AccountRow
BY AccountAssumption DEF NoAccount, AccountRow

LEMMA NoWriteOK == NoWrite \notin Write
BY DEF NoWrite, Write, Kinds

(* A row that grants access has a number for its limit. *)
LEMMA GrantedHasLimit ==
  ASSUME NEW e, RowOK(e), NEW at \in Nat, Granted(e, at)
  PROVE  EffectiveLimit(e, at) \in Nat
<1>1. e.status \in Statuses /\ e.plan \in Plans \cup {Null}
      /\ e.pendingPlan \in Plans \cup {Null}
  BY DEF RowOK, Entitlement
<1>2. EffectivePlan(e, at) \in Plans \cup {Null}
  BY <1>1 DEF EffectivePlan
<1>3. \A plan \in Plans : AccountLimit[plan] \in Nat
  BY PlanAssumption
<1>4. CASE e.status = "trialing"
  BY <1>4, PlanAssumption DEF EffectiveLimit
<1>5. CASE e.status = "active"
  <2>1. EffectivePlan(e, at) # Null
    BY <1>5, NullAssumption
       DEF Granted, Denial, Denials, ComplimentaryShapeValid, PaidShapeValid
  <2> QED
    BY <1>2, <1>3, <1>5, <2>1 DEF EffectiveLimit
<1>6. CASE e.status \in {"past_due", "canceled", "expired"}
  BY <1>6, NullAssumption DEF Granted, Denial, Denials
<1> QED
  BY <1>1, <1>4, <1>5, <1>6 DEF Statuses

LEMMA UsableFinite ==
  ASSUME TypeOK
  PROVE  IsFiniteSet(Usable) /\ Cardinality(Usable) \in Nat
BY AccountAssumption, FS_Subset, FS_CardinalityType DEF Usable, Created

(* What authorizeWorkspaceMutation promises a call that adds an account. *)
LEMMA AllowedHasSlot ==
  ASSUME AccountsInv, NEW op \in {"create", "restore"}, Allowed(op)
  PROVE  /\ Granted(ent, now)
         /\ EffectiveLimit(ent, now) \in Nat
         /\ Cardinality(Usable) + 1 <= EffectiveLimit(ent, now)
         /\ onboarded
<1>1. ent # Null /\ RowOK(ent) /\ now \in Nat
  BY DEF Allowed, AccountsInv, TypeOK, RowOK
<1>2. Granted(ent, now) /\ Cardinality(Usable) < EffectiveLimit(ent, now)
  BY DEF Allowed, Authorized, AccessMode
<1>3. EffectiveLimit(ent, now) \in Nat
  BY <1>1, <1>2, GrantedHasLimit
<1>4. Cardinality(Usable) \in Nat
  BY UsableFinite DEF AccountsInv
<1> QED
  BY <1>1, <1>2, <1>3, <1>4 DEF AccountsInv, StartOK

-----------------------------------------------------------------------------
(* Steps that decide. *)

(* A call that takes the lock is the only one with a write. *)
LEMMA DecideOK ==
  ASSUME AccountsInv, NEW c \in Calls, NEW q \in Write,
         lock = Null, write[c] = NoWrite, lock' = c, write' = [write EXCEPT ![c] = q],
         UNCHANGED <<now, ent, accountVars, page>>,
         Decided(q), SlotAllowed(q)
  PROVE  AccountsInv'
<1>1. write' \in [Calls -> Write \cup {NoWrite}] /\ lock' \in Calls \cup {Null}
  BY DEF AccountsInv, TypeOK
<1>2. \A d \in Calls : write[d] = NoWrite
  BY AccountAssumption DEF AccountsInv, WritesDecided
<1>3. write'[c] = q /\ \A d \in Calls \ {c} : write'[d] = NoWrite
  BY <1>2 DEF AccountsInv, TypeOK
<1>4. Created' = Created /\ Usable' = Usable
  BY DEF accountVars, Created, Usable
<1>5. Decided(q)'
  BY <1>4 DEF Decided, accountVars
<1>6. SlotAllowed(q)'
  BY <1>4 DEF SlotAllowed
<1>7. WritesDecided'
  BY <1>3, <1>5, <1>6 DEF WritesDecided
<1>8. TypeOK'
  BY <1>1, <1>4 DEF AccountsInv, TypeOK, accountVars
<1> QED
  BY <1>4, <1>7, <1>8
     DEF AccountsInv, StartOK, FallbacksExist, FirstAccountUnique,
         UsableAccountRemains, accountVars

(* The same, of the record a call hands to Decide. *)
LEMMA DecisionOK ==
  ASSUME AccountsInv, NEW c \in Calls, NEW w, Decide(c, w),
         NEW q \in Write, q = [w EXCEPT !.at = now], Decided(q), SlotAllowed(q)
  PROVE  AccountsInv'
<1>1. lock = Null /\ write[c] = NoWrite /\ lock' = c /\ write' = [write EXCEPT ![c] = q]
      /\ UNCHANGED <<now, ent, accountVars, page>>
  BY DEF Decide, WorkspaceUnlocked
<1> QED
  BY <1>1, DecideOK

LEMMA OnboardDecided ==
  ASSUME AccountsInv, NEW c \in Calls, NEW a \in Accounts, NEW base \in BaseCurrencies,
         CompleteOnboarding(c, a, base)
  PROVE  AccountsInv'
<1>1. PICK account : account = IF Created = {} THEN a ELSE Oldest(Created)
  OBVIOUS
<1>2. PICK kind : kind = IF onboarded THEN "prefer" ELSE "onboard"
  OBVIOUS
<1>3. account \in Accounts /\ (Created # {} => account \in Created) /\ kind \in Kinds
  BY <1>1, <1>2, OldestIsMember DEF Created, Kinds
<1> DEFINE w == [NoWrite EXCEPT !.kind = kind, !.account = account, !.pref = account,
                                !.key = Onboarding, !.base = base]
<1>4. PICK q : q = [w EXCEPT !.at = now]
  OBVIOUS
<1>5. q \in Write /\ q.kind = kind /\ q.account = account /\ q.pref = account
      /\ q.key = Onboarding /\ q.base = base
  BY <1>3, <1>4 DEF NoWrite, Write, AccountsInv, TypeOK
<1>6. Decide(c, w)
  BY <1>1, <1>2 DEF CompleteOnboarding
<1>7. SlotAllowed(q)
  BY <1>2, <1>5 DEF SlotAllowed
<1>8. Decided(q)
  <2>1. CASE onboarded
    <3>1. Created # {}
      BY <2>1 DEF AccountsInv, UsableAccountRemains, Usable
    <3> QED
      BY <1>2, <1>3, <1>5, <2>1, <3>1 DEF Decided
  <2>2. CASE ~onboarded
    <3>1. Created = {}
      BY <2>2 DEF AccountsInv, StartOK
    <3> QED
      BY <1>1, <1>2, <1>5, <2>2, <3>1 DEF CompleteOnboarding, Decided
  <2> QED
    BY <2>1, <2>2
<1> HIDE DEF w
<1> QED
  BY <1>4, <1>5, <1>6, <1>7, <1>8, DecisionOK

LEMMA CreateDecided ==
  ASSUME AccountsInv, NEW c \in Calls, NEW a \in Accounts, NEW k \in Keys,
         NEW base \in BaseCurrencies, NEW setActive \in BOOLEAN,
         CreateAccount(c, a, k, base, setActive)
  PROVE  AccountsInv'
<1>1. PICK prefers : prefers = IF setActive THEN a ELSE Null
  OBVIOUS
<1> DEFINE w == [NoWrite EXCEPT !.kind = "create", !.account = a, !.key = k,
                                !.base = base, !.pref = prefers]
<1>2. PICK q : q = [w EXCEPT !.at = now]
  OBVIOUS
<1>3. q \in Write /\ q.kind = "create" /\ q.account = a /\ q.key = k /\ q.base = base
      /\ q.pref \in {a, Null} /\ q.at = now
  BY <1>1, <1>2 DEF NoWrite, Write, Kinds, AccountsInv, TypeOK
<1>4. Decide(c, w)
  BY <1>1 DEF CreateAccount
<1>5. Granted(ent, now) /\ EffectiveLimit(ent, now) \in Nat
      /\ Cardinality(Usable) + 1 <= EffectiveLimit(ent, now) /\ onboarded
  BY AllowedHasSlot DEF CreateAccount
<1>6. SlotAllowed(q)
  BY <1>3, <1>5 DEF SlotAllowed
<1>7. Decided(q)
  BY <1>3, <1>5 DEF CreateAccount, Decided
<1> HIDE DEF w
<1> QED
  BY <1>2, <1>3, <1>4, <1>6, <1>7, DecisionOK

LEMMA RestoreDecided ==
  ASSUME AccountsInv, NEW c \in Calls, NEW a \in Accounts,
         RestoreAccount(c, a)
  PROVE  AccountsInv'
<1> DEFINE w == [NoWrite EXCEPT !.kind = "restore", !.account = a]
<1>1. PICK q : q = [w EXCEPT !.at = now]
  OBVIOUS
<1>2. q \in Write /\ q.kind = "restore" /\ q.account = a /\ q.pref = Null /\ q.at = now
  BY <1>1 DEF NoWrite, Write, Kinds, AccountsInv, TypeOK
<1>3. Decide(c, w)
  BY DEF RestoreAccount
<1>4. Decided(q)
  BY <1>2 DEF RestoreAccount, Decided
<1>5. SlotAllowed(q)
  BY <1>2, AllowedHasSlot DEF RestoreAccount, SlotAllowed
<1> HIDE DEF w
<1> QED
  BY <1>1, <1>2, <1>3, <1>4, <1>5, DecisionOK

LEMMA ArchiveDecided ==
  ASSUME AccountsInv, NEW c \in Calls, NEW a \in Accounts, ArchiveAccount(c, a)
  PROVE  AccountsInv'
<1>1. a \in Usable /\ Usable \ {a} # {} /\ Usable \ {a} \in SUBSET Accounts
  BY DEF ArchiveAccount, Usable, Created
<1>2. Oldest(Usable \ {a}) \in Usable \ {a}
  BY <1>1, OldestIsMember
<1>3. PICK prefers : prefers = IF pref = a THEN Oldest(Usable \ {a}) ELSE Null
  OBVIOUS
<1>4. prefers \in Usable \cup {Null} /\ prefers \in Accounts \cup {Null}
  BY <1>1, <1>2, <1>3
<1> DEFINE w == [NoWrite EXCEPT !.kind = "archive", !.account = a, !.pref = prefers]
<1>5. PICK q : q = [w EXCEPT !.at = now]
  OBVIOUS
<1>6. q \in Write /\ q.kind = "archive" /\ q.account = a /\ q.pref = prefers
  BY <1>4, <1>5 DEF NoWrite, Write, Kinds, AccountsInv, TypeOK
<1>7. Decide(c, w)
  BY <1>3 DEF ArchiveAccount
<1>8. Decided(q) /\ SlotAllowed(q)
  BY <1>1, <1>4, <1>6 DEF Decided, SlotAllowed
<1> HIDE DEF w
<1> QED
  BY <1>5, <1>6, <1>7, <1>8, DecisionOK

LEMMA SetActiveDecided ==
  ASSUME AccountsInv, NEW c \in Calls, NEW a \in Accounts,
         SetActiveAccount(c, a)
  PROVE  AccountsInv'
<1> DEFINE w == [NoWrite EXCEPT !.kind = "prefer", !.account = a, !.pref = a]
<1>1. PICK q : q = [w EXCEPT !.at = now]
  OBVIOUS
<1>2. q \in Write /\ q.kind = "prefer" /\ q.pref = a
  BY <1>1 DEF NoWrite, Write, Kinds, AccountsInv, TypeOK
<1>3. Decide(c, w)
  BY DEF SetActiveAccount
<1>4. Decided(q)
  BY <1>2 DEF SetActiveAccount, Decided, Usable
<1>5. SlotAllowed(q)
  BY <1>2 DEF SlotAllowed
<1> HIDE DEF w
<1> QED
  BY <1>1, <1>2, <1>3, <1>4, <1>5, DecisionOK

LEMMA UpdateDecided ==
  ASSUME AccountsInv, NEW c \in Calls, NEW a \in Accounts, NEW base \in BaseCurrencies,
         UpdateAccount(c, a, base)
  PROVE  AccountsInv'
<1> DEFINE w == [NoWrite EXCEPT !.kind = "update", !.account = a, !.base = base]
<1>1. PICK q : q = [w EXCEPT !.at = now]
  OBVIOUS
<1>2. q \in Write /\ q.kind = "update" /\ q.account = a /\ q.base = base
      /\ q.pref = Null
  BY <1>1 DEF NoWrite, Write, Kinds, AccountsInv, TypeOK
<1>3. Decide(c, w)
  BY DEF UpdateAccount
<1>4. Decided(q)
  BY <1>2 DEF UpdateAccount, Decided
<1>5. SlotAllowed(q)
  BY <1>2 DEF SlotAllowed
<1> HIDE DEF w
<1> QED
  BY <1>1, <1>2, <1>3, <1>4, <1>5, DecisionOK

LEMMA TradeDecided ==
  ASSUME AccountsInv, NEW c \in Calls, NEW a \in Accounts,
         RecordTrade(c, a)
  PROVE  AccountsInv'
<1> DEFINE w == [NoWrite EXCEPT !.kind = "trade", !.account = a]
<1>1. PICK q : q = [w EXCEPT !.at = now]
  OBVIOUS
<1>2. q \in Write /\ q.kind = "trade" /\ q.account = a /\ q.pref = Null
  BY <1>1 DEF NoWrite, Write, Kinds, AccountsInv, TypeOK
<1>3. Decide(c, w)
  BY DEF RecordTrade
<1>4. Decided(q)
  BY <1>2 DEF RecordTrade, Decided
<1>5. SlotAllowed(q)
  BY <1>2 DEF SlotAllowed
<1> HIDE DEF w
<1> QED
  BY <1>1, <1>2, <1>3, <1>4, <1>5, DecisionOK

-----------------------------------------------------------------------------
(* Steps that commit. *)

NewAccount(key, base) == [key |-> key, archived |-> FALSE, base |-> base, traded |-> FALSE]

(* What each kind of write does to the accounts. *)
LEMMA CommitByKind ==
  ASSUME AccountsInv, NEW c \in Calls, Commit(c), NEW w, w = write[c]
  PROVE  /\ w \in Write /\ Decided(w) /\ SlotAllowed(w)
         /\ w.kind \in {"onboard", "create"} =>
              acct' = [acct EXCEPT ![w.account] = NewAccount(w.key, w.base)]
         /\ w.kind = "restore" => acct' = [acct EXCEPT ![w.account].archived = FALSE]
         /\ w.kind = "archive" => acct' = [acct EXCEPT ![w.account].archived = TRUE]
         /\ w.kind = "update" => acct' = [acct EXCEPT ![w.account].base = w.base]
         /\ w.kind = "trade" => acct' = [acct EXCEPT ![w.account].traded = TRUE]
         /\ w.kind = "prefer" => acct' = acct
<1>1. w \in Write /\ Decided(w) /\ SlotAllowed(w)
  BY DEF Commit, AccountsInv, TypeOK, WritesDecided
<1>2. acct' = AccountsAfter(w)
  BY DEF Commit
<1>3. w.kind \in Kinds
  BY <1>1 DEF Write
<1>4. CASE w.kind \in {"onboard", "create"}
  <2>1. acct[w.account] = NoAccount
    BY <1>1, <1>4 DEF Decided
  <2> QED
    BY <1>1, <1>2, <1>4, <2>1 DEF AccountsAfter, NewAccount
<1>5. CASE w.kind \in {"restore", "archive", "update", "trade", "prefer"}
  BY <1>1, <1>2, <1>5 DEF AccountsAfter
<1> QED
  BY <1>3, <1>4, <1>5 DEF Kinds

LEMMA Opened ==
  ASSUME AccountsInv, NEW a \in Accounts, acct[a] = NoAccount,
         NEW key \in Keys \cup {Onboarding}, NEW base \in BaseCurrencies,
         acct' = [acct EXCEPT ![a] = NewAccount(key, base)]
  PROVE  /\ acct' \in [Accounts -> AccountRow \cup {NoAccount}]
         /\ acct'[a].key = key /\ \A b \in Accounts \ {a} : acct'[b] = acct[b]
         /\ Created' = Created \cup {a} /\ Usable' = Usable \cup {a}
<1>1. NewAccount(key, base) \in AccountRow /\ ~NewAccount(key, base).archived
      /\ NewAccount(key, base).key = key
  BY DEF NewAccount, AccountRow
<1>2. acct \in [Accounts -> AccountRow \cup {NoAccount}]
  BY DEF AccountsInv, TypeOK
<1>3. acct'[a] = NewAccount(key, base) /\ \A b \in Accounts \ {a} : acct'[b] = acct[b]
  BY <1>2
<1>4. acct' \in [Accounts -> AccountRow \cup {NoAccount}]
  BY <1>1, <1>2
<1> QED
  BY <1>1, <1>3, <1>4, NoAccountOK DEF Created, Usable

LEMMA Rewritten ==
  ASSUME AccountsInv, NEW a \in Created, NEW row \in AccountRow, row.key = acct[a].key,
         acct' = [acct EXCEPT ![a] = row]
  PROVE  /\ acct' \in [Accounts -> AccountRow \cup {NoAccount}]
         /\ acct'[a] = row /\ \A b \in Accounts \ {a} : acct'[b] = acct[b]
         /\ \A b \in Accounts : acct'[b].key = acct[b].key
         /\ Created' = Created
         /\ Usable' = IF row.archived THEN Usable \ {a} ELSE Usable \cup {a}
<1>1. acct \in [Accounts -> AccountRow \cup {NoAccount}] /\ a \in Accounts
  BY DEF AccountsInv, TypeOK, Created
<1>2. acct'[a] = row /\ \A b \in Accounts \ {a} : acct'[b] = acct[b]
  BY <1>1
<1>3. acct' \in [Accounts -> AccountRow \cup {NoAccount}]
  BY <1>1
<1>4. row # NoAccount /\ acct[a] # NoAccount
  BY NoAccountOK DEF Created
<1> QED
  BY <1>1, <1>2, <1>3, <1>4 DEF Created, Usable

(* A write to one field of an account that exists. *)
LEMMA FieldWritten ==
  ASSUME AccountsInv, NEW w \in Write, Decided(w), w.account \in Created,
         \/ w.kind = "restore" /\ acct' = [acct EXCEPT ![w.account].archived = FALSE]
         \/ w.kind = "archive" /\ acct' = [acct EXCEPT ![w.account].archived = TRUE]
         \/ w.kind = "update" /\ acct' = [acct EXCEPT ![w.account].base = w.base]
         \/ w.kind = "trade" /\ acct' = [acct EXCEPT ![w.account].traded = TRUE]
  PROVE  /\ acct' \in [Accounts -> AccountRow \cup {NoAccount}]
         /\ \A b \in Accounts : acct'[b].key = acct[b].key
         /\ \A b \in Accounts \ {w.account} : acct'[b] = acct[b]
         /\ Created' = Created
         /\ Usable' = IF w.kind = "archive" THEN Usable \ {w.account}
                      ELSE Usable \cup {w.account}
<1>1. acct[w.account] \in AccountRow
  BY DEF Created, AccountsInv, TypeOK
<1>2. CASE w.kind = "restore"
  <2> DEFINE row == [acct[w.account] EXCEPT !.archived = FALSE]
  <2>1. row \in AccountRow /\ row.key = acct[w.account].key /\ ~row.archived
    BY <1>1 DEF AccountRow
  <2>2. acct' = [acct EXCEPT ![w.account] = row]
    BY <1>2
  <2> HIDE DEF row
  <2> QED
    BY <1>2, <2>1, <2>2, Rewritten
<1>3. CASE w.kind = "archive"
  <2> DEFINE row == [acct[w.account] EXCEPT !.archived = TRUE]
  <2>1. row \in AccountRow /\ row.key = acct[w.account].key /\ row.archived
    BY <1>1 DEF AccountRow
  <2>2. acct' = [acct EXCEPT ![w.account] = row]
    BY <1>3
  <2> HIDE DEF row
  <2> QED
    BY <1>3, <2>1, <2>2, Rewritten
<1>4. CASE w.kind = "update"
  <2> DEFINE row == [acct[w.account] EXCEPT !.base = w.base]
  <2>1. w.base \in BaseCurrencies /\ w.account \in Usable
    BY <1>4 DEF Decided
  <2>2. row \in AccountRow /\ row.key = acct[w.account].key /\ ~row.archived
    BY <1>1, <2>1 DEF AccountRow, Usable
  <2>3. acct' = [acct EXCEPT ![w.account] = row]
    BY <1>4
  <2> HIDE DEF row
  <2> QED
    BY <1>4, <2>2, <2>3, Rewritten
<1>5. CASE w.kind = "trade"
  <2> DEFINE row == [acct[w.account] EXCEPT !.traded = TRUE]
  <2>1. w.account \in Usable
    BY <1>5 DEF Decided
  <2>2. row \in AccountRow /\ row.key = acct[w.account].key /\ ~row.archived
    BY <1>1, <2>1 DEF AccountRow, Usable
  <2>3. acct' = [acct EXCEPT ![w.account] = row]
    BY <1>5
  <2> HIDE DEF row
  <2> QED
    BY <1>5, <2>2, <2>3, Rewritten
<1> QED
  BY <1>2, <1>3, <1>4, <1>5

(* What every commit does, whatever its kind. *)
LEMMA CommitAccountsOK ==
  ASSUME AccountsInv, NEW c \in Calls, Commit(c), NEW w, w = write[c]
  PROVE  /\ acct' \in [Accounts -> AccountRow \cup {NoAccount}]
         /\ Created \subseteq Created'
         /\ w.pref = Null \/ w.pref \in Created'
         /\ w.kind = "onboard" \/ (w.kind # "create" /\ Created' = Created) \/ onboarded
         /\ FirstAccountUnique'
         /\ (onboarded \/ w.kind = "onboard") => Usable' # {}
<1>1. w \in Write /\ Decided(w) /\ w.kind \in Kinds
  <2>1. w \in Write /\ Decided(w)
    BY CommitByKind
  <2> QED
    BY <2>1 DEF Write
<1>2. CASE w.kind \in {"onboard", "create"}
  <2>1. /\ w.account \in Accounts /\ acct[w.account] = NoAccount
        /\ w.key \in Keys \cup {Onboarding} /\ w.base \in BaseCurrencies
    BY <1>1, <1>2 DEF Decided, Write
  <2>2. acct' = [acct EXCEPT ![w.account] = NewAccount(w.key, w.base)]
    BY <1>2, CommitByKind
  <2>3. /\ acct' \in [Accounts -> AccountRow \cup {NoAccount}]
        /\ acct'[w.account].key = w.key
        /\ \A b \in Accounts \ {w.account} : acct'[b] = acct[b]
        /\ Created' = Created \cup {w.account} /\ Usable' = Usable \cup {w.account}
    BY <2>1, <2>2, Opened, ZenonT(40)
  <2>4. CASE w.kind = "onboard"
    <3>1. \A b \in Accounts : acct[b] = NoAccount
      BY <1>1, <2>4 DEF Decided, AccountsInv, StartOK, Created
    <3>2. \A b \in Accounts \ {w.account} : acct'[b].key = Null
      BY <2>3, <3>1, NoAccountOK
    <3>3. Null # Onboarding
      BY AccountAssumption
    <3> QED
      BY <1>1, <2>3, <2>4, <3>2, <3>3 DEF FirstAccountUnique, Decided
  <2>5. CASE w.kind = "create"
    <3>1. w.key # Onboarding /\ onboarded
      BY <1>1, <2>5, AccountAssumption DEF Decided
    <3> QED
      BY <1>1, <2>3, <2>5, <3>1 DEF FirstAccountUnique, Decided, AccountsInv
  <2> QED
    BY <1>2, <2>4, <2>5
<1>3. CASE w.kind \in {"restore", "archive", "update", "trade"}
  <2>1. w.account \in Created
    BY <1>1, <1>3 DEF Decided, Usable
  <2>2. /\ acct' \in [Accounts -> AccountRow \cup {NoAccount}]
        /\ \A b \in Accounts : acct'[b].key = acct[b].key
        /\ Created' = Created
        /\ Usable' = IF w.kind = "archive" THEN Usable \ {w.account}
                     ELSE Usable \cup {w.account}
    BY <1>1, <1>3, <2>1, CommitByKind, FieldWritten
  <2>3. FirstAccountUnique'
    BY <2>2 DEF AccountsInv, FirstAccountUnique
  <2>4. Usable' # {}
    BY <1>1, <1>3, <2>2 DEF Decided
  <2>5. w.pref = Null \/ w.pref \in Created'
    BY <1>1, <1>3, <2>2 DEF Decided, Usable
  <2> QED
    BY <1>3, <2>2, <2>3, <2>4, <2>5
<1>4. CASE w.kind = "prefer"
  <2>1. acct' = acct
    BY <1>4, CommitByKind
  <2> QED
    BY <1>1, <1>4, <2>1
       DEF AccountsInv, TypeOK, Created, Usable, FirstAccountUnique,
           UsableAccountRemains, Decided
<1> QED
  BY <1>1, <1>2, <1>3, <1>4 DEF Kinds

LEMMA CommitOK ==
  ASSUME AccountsInv, NEW c \in Calls, Commit(c)
  PROVE  AccountsInv'
<1>1. PICK w : w = write[c]
  OBVIOUS
<1>2. w \in Write /\ Decided(w)
  BY <1>1, CommitByKind
<1>3. /\ acct' \in [Accounts -> AccountRow \cup {NoAccount}]
      /\ Created \subseteq Created'
      /\ w.pref = Null \/ w.pref \in Created'
      /\ w.kind = "onboard" \/ (w.kind # "create" /\ Created' = Created) \/ onboarded
      /\ FirstAccountUnique'
      /\ (onboarded \/ w.kind = "onboard") => Usable' # {}
  BY <1>1, CommitAccountsOK
<1>4. write[c] # NoWrite /\ \A d \in Calls \ {c} : write[d] = NoWrite
  BY DEF Commit, AccountsInv, WritesDecided
<1>5. write' \in [Calls -> Write \cup {NoWrite}] /\ \A d \in Calls : write'[d] = NoWrite
  BY <1>4 DEF Commit, AccountsInv, TypeOK
<1>6. /\ onboarded' = (onboarded \/ w.kind = "onboard")
      /\ pref' = IF w.pref = Null THEN pref ELSE w.pref
      /\ lock' = Null /\ UNCHANGED <<now, page>>
      /\ ent' = EntitlementAfter(w)
  BY <1>1 DEF Commit
<1>7. onboarded' \in BOOLEAN /\ pref' \in Created' \cup {Null}
  BY <1>3, <1>6 DEF AccountsInv, TypeOK
<1>8. ent' = Null \/ RowOK(ent')
  <2>1. w.at \in Nat
    BY <1>2 DEF Write
  <2> QED
    BY <1>6, <2>1, TrialRowOK, TimeAssumption
       DEF EntitlementAfter, AccountsInv, TypeOK, RowOK
<1>9. TypeOK'
  BY <1>3, <1>5, <1>6, <1>7, <1>8 DEF AccountsInv, TypeOK, RowOK
<1>10. StartOK'
  BY <1>3, <1>6 DEF AccountsInv, StartOK, EntitlementAfter
<1>11. FallbacksExist' /\ WritesDecided' /\ UsableAccountRemains'
  BY <1>3, <1>5, <1>6
     DEF AccountsInv, FallbacksExist, WritesDecided, UsableAccountRemains
<1> QED
  BY <1>3, <1>9, <1>10, <1>11 DEF AccountsInv

LEMMA RollBackOK ==
  ASSUME AccountsInv, NEW c \in Calls, RollBack(c)
  PROVE  AccountsInv'
<1>1. write[c] # NoWrite /\ \A d \in Calls \ {c} : write[d] = NoWrite
  BY DEF RollBack, AccountsInv, WritesDecided
<1>2. write' \in [Calls -> Write \cup {NoWrite}] /\ \A d \in Calls : write'[d] = NoWrite
  BY <1>1 DEF RollBack, AccountsInv, TypeOK
<1>3. Created' = Created /\ Usable' = Usable
  BY DEF RollBack, accountVars, Created, Usable
<1> QED
  BY <1>2, <1>3
     DEF RollBack, accountVars, AccountsInv, TypeOK, WritesDecided, StartOK,
         FallbacksExist, FirstAccountUnique, UsableAccountRemains

-----------------------------------------------------------------------------
(* Page loads, and the row and clock around the accounts. *)

LEMMA PageOK ==
  ASSUME AccountsInv, NEW p \in Pages, PageTurns(p)
  PROVE  AccountsInv'
<1>1. page[p] \in Page /\ page[p].fallback \in Created \cup {Null}
  BY DEF AccountsInv, TypeOK, FallbacksExist
<1>2. PICK q : /\ page' = [page EXCEPT ![p] = q]
               /\ q \in Page /\ q.fallback \in Created \cup {Null}
  <2>1. NoPage \in Page /\ NoPage.fallback = Null
    BY DEF NoPage, Page
  <2>2. CASE ReadPreference(p)
    <3>1. pref \in Accounts \cup {Null}
      BY DEF AccountsInv, TypeOK, Created
    <3>2. PICK q : q = [NoPage EXCEPT !.step = "checking", !.seen = pref]
      OBVIOUS
    <3>3. q \in Page /\ q.fallback = Null
      BY <3>1, <3>2 DEF NoPage, Page
    <3> QED
      BY <2>2, <3>2, <3>3 DEF ReadPreference, Turn
  <2>3. CASE CheckPreference(p)
    <3>1. PICK q : q = [page[p] EXCEPT !.step = "choosing"]
      OBVIOUS
    <3>2. q \in Page /\ q.fallback = page[p].fallback
      BY <1>1, <3>1 DEF Page
    <3> QED
      BY <1>1, <2>1, <2>3, <3>1, <3>2 DEF CheckPreference, Turn
  <2>4. CASE ChooseFallback(p)
    <3>1. Usable # {} => Oldest(Usable) \in Usable
      BY OldestIsMember DEF Usable, Created
    <3>2. CASE Usable # {}
      <4>1. PICK q : q = [page[p] EXCEPT !.step = "writing", !.fallback = Oldest(Usable)]
        OBVIOUS
      <4>2. q \in Page /\ q.fallback = Oldest(Usable)
        BY <1>1, <3>1, <3>2, <4>1 DEF Page, Usable, Created
      <4> QED
        BY <2>4, <3>1, <3>2, <4>1, <4>2 DEF ChooseFallback, Turn, Usable
    <3>3. CASE Usable = {}
      <4>1. PICK q : q = [page[p] EXCEPT !.step = "writing"]
        OBVIOUS
      <4>2. q \in Page /\ q.fallback = page[p].fallback
        BY <1>1, <4>1 DEF Page
      <4> QED
        BY <1>1, <2>1, <2>4, <3>3, <4>1, <4>2 DEF ChooseFallback, Turn
    <3> QED
      BY <3>2, <3>3
  <2>5. CASE WriteRepair(p)
    BY <2>1, <2>5 DEF WriteRepair, Turn
  <2> QED
    BY <2>2, <2>3, <2>4, <2>5 DEF PageTurns
<1>3. page' \in [Pages -> Page]
      /\ \A z \in Pages : page'[z].fallback \in Created \cup {Null}
  BY <1>2 DEF AccountsInv, TypeOK, FallbacksExist
<1>4. UNCHANGED <<now, ent, acct, onboarded, lock, write>>
      /\ pref' \in Created \cup {Null}
  BY <1>1 DEF PageTurns, ReadPreference, CheckPreference, ChooseFallback, WriteRepair,
              accountVars, AccountsInv, TypeOK
<1>5. Created' = Created /\ Usable' = Usable
  BY <1>4 DEF Created, Usable
<1>6. TypeOK' /\ FallbacksExist'
  BY <1>3, <1>4, <1>5 DEF AccountsInv, TypeOK, FallbacksExist
<1>7. WritesDecided'
  BY <1>4, <1>5 DEF AccountsInv, WritesDecided, Decided, SlotAllowed
<1> QED
  BY <1>4, <1>5, <1>6, <1>7
     DEF AccountsInv, StartOK, FirstAccountUnique, UsableAccountRemains

(* While no call holds the lock nothing is decided that the row could void. *)
LEMMA EntitlementChangesOK ==
  ASSUME AccountsInv, EntitlementChanges
  PROVE  AccountsInv'
<1>1. RowOK(ent) /\ now \in Nat
  BY DEF EntitlementChanges, AccountsInv, TypeOK, RowOK
<1>2. RowOK(ent')
  BY <1>1, PaidTransitionOK, CustomerTransitionOK, AdminTransitionOK DEF EntitlementChanges
<1>3. \A c \in Calls : write[c] = NoWrite
  BY AccountAssumption DEF EntitlementChanges, WorkspaceUnlocked, AccountsInv, WritesDecided
<1>4. Created' = Created /\ Usable' = Usable /\ UNCHANGED <<acct, pref, onboarded>>
  BY DEF EntitlementChanges, accountVars, Created, Usable
<1>5. onboarded
  BY DEF EntitlementChanges, AccountsInv, StartOK, TypeOK
<1> QED
  BY <1>2, <1>3, <1>4, <1>5
     DEF EntitlementChanges, AccountsInv, TypeOK, WritesDecided, StartOK,
         FallbacksExist, FirstAccountUnique, UsableAccountRemains, RowOK

LEMMA ClockOK ==
  ASSUME AccountsInv, now' \in Nat,
         UNCHANGED <<ent, accountVars, lock, write, page>>
  PROVE  AccountsInv'
<1>1. Created' = Created /\ Usable' = Usable /\ UNCHANGED <<acct, pref, onboarded>>
  BY DEF accountVars, Created, Usable
<1>2. WritesDecided'
  BY <1>1 DEF AccountsInv, WritesDecided, Decided, SlotAllowed
<1> QED
  BY <1>1, <1>2
     DEF AccountsInv, TypeOK, StartOK, FallbacksExist, FirstAccountUnique,
         UsableAccountRemains

LEMMA AccountsInvInit == Init => AccountsInv
<1> SUFFICES ASSUME Init PROVE AccountsInv
  OBVIOUS
<1>1. Created = {} /\ Usable = {}
  BY DEF Init, Created, Usable
<1>2. NoPage \in Page /\ NoPage.fallback = Null
  BY DEF NoPage, Page
<1>3. TypeOK
  BY <1>1, <1>2 DEF Init, TypeOK
<1>4. FirstAccountUnique
  BY NoAccountOK, AccountAssumption DEF Init, FirstAccountUnique
<1> QED
  BY <1>1, <1>2, <1>3, <1>4
     DEF Init, AccountsInv, WritesDecided, StartOK, FallbacksExist, UsableAccountRemains

LEMMA AccountsInvNext == AccountsInv /\ [Next]_vars => AccountsInv'
<1> SUFFICES ASSUME AccountsInv, [Next]_vars PROVE AccountsInv'
  OBVIOUS
<1>1. ASSUME NEW c \in Calls, CallDecides(c) PROVE AccountsInv'
  BY <1>1, OnboardDecided, CreateDecided, RestoreDecided, ArchiveDecided,
     SetActiveDecided, UpdateDecided, TradeDecided DEF CallDecides
<1>2. ASSUME NEW c \in Calls, Commit(c) \/ RollBack(c) PROVE AccountsInv'
  BY <1>2, CommitOK, RollBackOK
<1>3. ASSUME NEW p \in Pages, PageTurns(p) PROVE AccountsInv'
  BY <1>3, PageOK
<1>4. CASE EntitlementChanges
  BY <1>4, EntitlementChangesOK
<1>5. CASE ClockTicks
  <2>1. now' \in Nat
    BY <1>5 DEF ClockTicks, Tick, AccountsInv, TypeOK
  <2> QED
    BY <1>5, <2>1, ClockOK DEF ClockTicks
<1>6. CASE UNCHANGED vars
  <2>1. now' \in Nat
    BY <1>6 DEF vars, AccountsInv, TypeOK
  <2> QED
    BY <1>6, <2>1, ClockOK DEF vars
<1> QED
  BY <1>1, <1>2, <1>3, <1>4, <1>5, <1>6 DEF Next

LEMMA AccountsInvHolds == Spec => []AccountsInv
BY AccountsInvInit, AccountsInvNext, PTL DEF Spec

-----------------------------------------------------------------------------
(* Theorems. *)

(* No interleaving of calls, page loads and transitions of the entitlement *)
(* writes a row its types reject or a preference without an account.       *)
THEOREM AccountsTypeCorrect == Spec => []TypeOK
<1>1. AccountsInv => TypeOK
  BY DEF AccountsInv
<1> QED
  BY <1>1, AccountsInvHolds, PTL

(* A workspace past onboarding keeps a usable account, for any number of   *)
(* accounts and of concurrent archives.                                    *)
THEOREM UsableAccountAlwaysRemains == Spec => []UsableAccountRemains
<1>1. AccountsInv => UsableAccountRemains
  BY DEF AccountsInv
<1> QED
  BY <1>1, AccountsInvHolds, PTL

(* At most one account ever comes from onboarding. *)
THEOREM FirstAccountIsUnique == Spec => []OneFirstAccount
<1>1. AccountsInv => OneFirstAccount
  <2> SUFFICES ASSUME AccountsInv PROVE OneFirstAccount
    OBVIOUS
  <2> DEFINE F == {a \in Accounts : acct[a].key = Onboarding}
  <2>1. IsFiniteSet(F)
    BY AccountAssumption, FS_Subset
  <2>2. F = {} \/ \E a : F = {a}
    BY DEF AccountsInv, FirstAccountUnique
  <2>3. Cardinality(F) \in {0, 1}
    BY <2>1, <2>2, FS_EmptySet, FS_Singleton
  <2> QED
    BY <2>3 DEF OneFirstAccount
<1> QED
  BY <1>1, AccountsInvHolds, PTL

LEMMA AccountSteps ==
  ASSUME [Next]_vars
  PROVE  UNCHANGED acct \/ \E c \in Calls : Commit(c)
<1>1. ASSUME NEW c, NEW w, Decide(c, w) PROVE UNCHANGED acct
  BY <1>1 DEF Decide, accountVars
<1>2. ASSUME NEW c \in Calls, CallDecides(c) PROVE UNCHANGED acct
  BY <1>1, <1>2
     DEF CallDecides, CompleteOnboarding, CreateAccount, RestoreAccount, ArchiveAccount,
         SetActiveAccount, UpdateAccount, RecordTrade
<1>3. ASSUME NEW p \in Pages, PageTurns(p) PROVE UNCHANGED acct
  BY <1>3 DEF PageTurns, ReadPreference, CheckPreference, ChooseFallback, WriteRepair,
              accountVars
<1>4. EntitlementChanges \/ ClockTicks \/ UNCHANGED vars => UNCHANGED acct
  BY DEF EntitlementChanges, ClockTicks, vars, accountVars
<1>5. ASSUME NEW c \in Calls, RollBack(c) PROVE UNCHANGED acct
  BY <1>5 DEF RollBack, accountVars
<1> QED
  BY <1>2, <1>3, <1>4, <1>5 DEF Next

(* What a commit does to an account that existed. *)
LEMMA CommitKeeps ==
  ASSUME AccountsInv, NEW c \in Calls, Commit(c), NEW a \in Created
  PROVE  \/ acct'[a] = acct[a]
         \/ acct'[a] = [acct[a] EXCEPT !.archived = acct'[a].archived]
         \/ a \in Usable /\ acct'[a] = [acct[a] EXCEPT !.traded = TRUE]
         \/ /\ a \in Usable /\ ~acct[a].traded
            /\ \E base \in BaseCurrencies : acct'[a] = [acct[a] EXCEPT !.base = base]
<1>1. PICK w : w = write[c]
  OBVIOUS
<1>2. w \in Write /\ Decided(w)
  BY <1>1, CommitByKind
<1>3. w.kind \in Kinds /\ w.account \in Accounts
  BY <1>2 DEF Write
<1>4. acct \in [Accounts -> AccountRow \cup {NoAccount}] /\ a \in Accounts
      /\ acct[a] \in AccountRow
  BY DEF AccountsInv, TypeOK, Created
<1>5. CASE w.kind \in {"onboard", "create"}
  <2>1. acct' = [acct EXCEPT ![w.account] = NewAccount(w.key, w.base)]
    BY <1>1, <1>5, CommitByKind
  <2>2. w.account # a
    BY <1>2, <1>5 DEF Decided, Created
  <2> QED
    BY <1>3, <1>4, <2>1, <2>2
<1>6. CASE w.kind \in {"restore", "archive"}
  <2>1. \/ acct' = [acct EXCEPT ![w.account].archived = FALSE]
        \/ acct' = [acct EXCEPT ![w.account].archived = TRUE]
    BY <1>1, <1>6, CommitByKind
  <2> QED
    BY <1>3, <1>4, <2>1 DEF AccountRow
<1>7. CASE w.kind = "update"
  <2>1. acct' = [acct EXCEPT ![w.account].base = w.base]
    BY <1>1, <1>7, CommitByKind
  <2>2. w.account \in Usable /\ ~acct[w.account].traded /\ w.base \in BaseCurrencies
    BY <1>2, <1>7 DEF Decided
  <2> QED
    BY <1>3, <1>4, <2>1, <2>2
<1>8. CASE w.kind = "trade"
  <2>1. acct' = [acct EXCEPT ![w.account].traded = TRUE]
    BY <1>1, <1>8, CommitByKind
  <2>2. w.account \in Usable
    BY <1>2, <1>8 DEF Decided
  <2> QED
    BY <1>3, <1>4, <2>1, <2>2
<1>9. CASE w.kind = "prefer"
  BY <1>1, <1>9, CommitByKind
<1> QED
  BY <1>3, <1>5, <1>6, <1>7, <1>8, <1>9 DEF Kinds

(* The stored money of a trade keeps the currency it was recorded in. *)
THEOREM CurrencyIsFrozen == Spec => CurrencyFrozenByTrades
<1>1. AccountsInv /\ [Next]_vars =>
        [\A a \in Created : acct[a].traded => acct'[a].base = acct[a].base]_vars
  <2> SUFFICES ASSUME AccountsInv, [Next]_vars, NEW a \in Created, acct[a].traded
               PROVE  acct'[a].base = acct[a].base
    OBVIOUS
  <2>1. acct[a] \in AccountRow
    BY DEF AccountsInv, TypeOK, Created
  <2>2. CASE UNCHANGED acct
    BY <2>2
  <2>3. ASSUME NEW c \in Calls, Commit(c) PROVE acct'[a].base = acct[a].base
    BY <2>1, <2>3, CommitKeeps DEF AccountRow
  <2> QED
    BY <2>2, <2>3, AccountSteps
<1> QED
  BY <1>1, AccountsInvHolds, PTL DEF Spec, CurrencyFrozenByTrades

(* No call that was under way when an account was archived still edits it. *)
THEOREM ArchivedAccountsAreFrozen == Spec => ArchivedAccountIsFrozen
<1>1. AccountsInv /\ [Next]_vars =>
        [\A a \in Created \ Usable :
           acct'[a] = [acct[a] EXCEPT !.archived = acct'[a].archived]]_vars
  <2> SUFFICES ASSUME AccountsInv, [Next]_vars, NEW a \in Created \ Usable
               PROVE  acct'[a] = [acct[a] EXCEPT !.archived = acct'[a].archived]
    OBVIOUS
  <2>1. acct[a] \in AccountRow
    BY DEF AccountsInv, TypeOK, Created
  <2>2. acct[a] = [acct[a] EXCEPT !.archived = acct[a].archived]
    BY <2>1 DEF AccountRow
  <2>3. CASE UNCHANGED acct
    BY <2>2, <2>3
  <2>4. ASSUME NEW c \in Calls, Commit(c)
        PROVE  acct'[a] = [acct[a] EXCEPT !.archived = acct'[a].archived]
    BY <2>2, <2>4, CommitKeeps
  <2> QED
    BY <2>3, <2>4, AccountSteps
<1> QED
  BY <1>1, AccountsInvHolds, PTL DEF Spec, ArchivedAccountIsFrozen

(* Two calls never share the last slot of a plan, whatever the limits. *)
THEOREM GrowthStaysWithinLimit == Spec => GrowthWithinLimit
<1> DEFINE Growth ==
      LET count == Cardinality(Usable') IN
      (onboarded /\ count > Cardinality(Usable)) =>
        \E c \in Calls : /\ write[c] # NoWrite /\ write'[c] = NoWrite
                         /\ Granted(ent, write[c].at)
                         /\ count <= EffectiveLimit(ent, write[c].at)
<1>1. AccountsInv /\ AccountsInv' /\ [Next]_vars => [Growth]_vars
  <2> SUFFICES ASSUME AccountsInv, [Next]_vars, onboarded,
                      Cardinality(Usable') > Cardinality(Usable)
               PROVE  \E c \in Calls :
                        /\ write[c] # NoWrite /\ write'[c] = NoWrite
                        /\ Granted(ent, write[c].at)
                        /\ Cardinality(Usable') <= EffectiveLimit(ent, write[c].at)
    OBVIOUS
  <2>1. IsFiniteSet(Usable) /\ Cardinality(Usable) \in Nat
    BY UsableFinite DEF AccountsInv
  <2>2. UNCHANGED acct => Usable' = Usable
    BY DEF Usable, Created
  <2>3. PICK c \in Calls : Commit(c)
    BY <2>1, <2>2, AccountSteps
  <2>4. PICK w : w = write[c]
    OBVIOUS
  <2>5. w \in Write /\ Decided(w) /\ SlotAllowed(w)
    BY <2>3, <2>4, CommitByKind
  <2>6. w.kind \in Kinds /\ w.account \in Accounts
    BY <2>5 DEF Write
  <2>7. w.kind # "onboard"
    BY <2>5 DEF Decided
  <2>8. w.kind # "prefer"
    <3>1. w.kind = "prefer" => UNCHANGED acct
      BY <2>3, <2>4, CommitByKind
    <3> QED
      BY <2>1, <2>2, <3>1
  <2>9. CASE w.kind \in {"archive", "update", "trade"}
    <3>1. w.account \in Usable /\ w.account \in Created
      BY <2>5, <2>9 DEF Decided, Usable
    <3>2. Usable' = IF w.kind = "archive" THEN Usable \ {w.account}
                    ELSE Usable \cup {w.account}
      BY <2>3, <2>4, <2>5, <2>9, <3>1, CommitByKind, FieldWritten
    <3>3. Usable' \subseteq Usable
      BY <3>1, <3>2
    <3>4. Cardinality(Usable') <= Cardinality(Usable)
      BY <2>1, <3>3, FS_Subset
    <3>5. Cardinality(Usable') \in Nat
      BY <2>1, <3>3, FS_Subset, FS_CardinalityType
    <3> QED
      BY <2>1, <3>4, <3>5
  <2>10. CASE w.kind \in {"create", "restore"}
    <3>1. Usable' = Usable \cup {w.account}
      <4>1. CASE w.kind = "create"
        <5>1. acct' = [acct EXCEPT ![w.account] = NewAccount(w.key, w.base)]
          BY <2>3, <2>4, <4>1, CommitByKind
        <5>2. acct[w.account] = NoAccount /\ w.key \in Keys /\ w.base \in BaseCurrencies
          BY <2>5, <4>1 DEF Decided
        <5> QED
          BY <2>6, <5>1, <5>2, Opened
      <4>2. CASE w.kind = "restore"
        BY <2>3, <2>4, <2>5, <4>2, CommitByKind, FieldWritten DEF Decided
      <4> QED
        BY <2>10, <4>1, <4>2
    <3>2. Cardinality(Usable') \in {Cardinality(Usable), Cardinality(Usable) + 1}
      BY <2>1, <3>1, FS_AddElement
    <3>3. /\ Granted(ent, w.at) /\ EffectiveLimit(ent, w.at) \in Nat
          /\ Cardinality(Usable) + 1 <= EffectiveLimit(ent, w.at)
      BY <2>5, <2>10 DEF SlotAllowed
    <3>4. Cardinality(Usable') <= EffectiveLimit(ent, w.at)
      BY <2>1, <3>2, <3>3
    <3>5. write[c] # NoWrite /\ write'[c] = NoWrite
      BY <2>3 DEF Commit, AccountsInv, TypeOK
    <3> QED
      BY <2>4, <3>3, <3>4, <3>5
  <2> QED
    BY <2>6, <2>7, <2>8, <2>9, <2>10 DEF Kinds
<1> QED
  BY <1>1, AccountsInvHolds, PTL DEF Spec, GrowthWithinLimit

-----------------------------------------------------------------------------
(* The refinement of AccountBook. *)

(* What a write of one account does to the currencies and the traded set. *)
LEMMA BookWritten ==
  ASSUME AccountsInv, NEW a \in Accounts, NEW currency,
         acct'[a].base = currency,
         \A b \in Accounts \ {a} : acct'[b] = acct[b]
  PROVE  /\ Bases' = [Bases EXCEPT ![a] = currency]
         /\ currency = acct[a].base => Bases' = Bases
         /\ acct'[a].traded => Traded' = Traded \cup {a}
         /\ acct'[a].traded = acct[a].traded => Traded' = Traded
<1>1. \A b \in Accounts \ {a} : acct'[b].base = acct[b].base /\ acct'[b].traded = acct[b].traded
  OBVIOUS
<1> QED
  BY <1>1 DEF Bases, Traded

(* The abstract step behind each kind of write. *)
LEMMA CommitImplements ==
  ASSUME AccountsInv, NEW c \in Calls, Commit(c)
  PROVE  Book!Next \/ UNCHANGED <<Usable, Bases, Traded>>
<1>1. PICK w : w = write[c]
  OBVIOUS
<1>2. w \in Write /\ Decided(w)
  BY <1>1, CommitByKind
<1>3. w.kind \in Kinds /\ w.account \in Accounts
  BY <1>2 DEF Write
<1>4. PICK a \in Accounts : a = w.account
  BY <1>3
<1>5. acct \in [Accounts -> AccountRow \cup {NoAccount}]
  BY DEF AccountsInv, TypeOK
<1>6. CASE w.kind \in {"onboard", "create"}
  <2>1. acct' = [acct EXCEPT ![a] = NewAccount(w.key, w.base)]
    BY <1>1, <1>4, <1>6, CommitByKind
  <2>2. /\ acct[a] = NoAccount /\ w.key \in Keys \cup {Onboarding}
        /\ w.base \in BaseCurrencies
    BY <1>2, <1>4, <1>6 DEF Decided
  <2>3. Usable' = Usable \cup {a}
    BY <2>1, <2>2, Opened
  <2>4. acct'[a] = NewAccount(w.key, w.base)
        /\ \A b \in Accounts \ {a} : acct'[b] = acct[b]
    BY <1>5, <2>1
  <2>5. acct'[a].base = w.base /\ acct'[a].traded = FALSE
    BY <2>4 DEF NewAccount
  <2>6. acct[a].base = Null /\ acct[a].traded = FALSE
    BY <2>2 DEF NoAccount
  <2>7. Bases' = [Bases EXCEPT ![a] = w.base] /\ Traded' = Traded
    BY <2>4, <2>5, <2>6, BookWritten
  <2>8. Book!Open(a, w.base)
    BY <2>3, <2>6, <2>7 DEF Book!Open, Book!Opened, Bases
  <2> QED
    BY <2>2, <2>8 DEF Book!Next
<1>7. ASSUME w.kind \in {"restore", "archive", "update", "trade"}
      PROVE  /\ a \in Created /\ acct[a] \in AccountRow
             /\ \A b \in Accounts \ {a} : acct'[b] = acct[b]
             /\ Usable' = IF w.kind = "archive" THEN Usable \ {a} ELSE Usable \cup {a}
  <2>1. w.account \in Created
    BY <1>2, <1>7 DEF Decided, Usable
  <2>2. /\ \A b \in Accounts \ {w.account} : acct'[b] = acct[b]
        /\ Usable' = IF w.kind = "archive" THEN Usable \ {w.account}
                     ELSE Usable \cup {w.account}
    BY <1>1, <1>2, <1>7, <2>1, CommitByKind, FieldWritten
  <2> QED
    BY <1>4, <1>5, <2>1, <2>2 DEF Created
<1>8. CASE w.kind = "restore"
  <2>1. acct' = [acct EXCEPT ![a].archived = FALSE]
    BY <1>1, <1>4, <1>8, CommitByKind
  <2>2. acct'[a].base = acct[a].base /\ acct'[a].traded = acct[a].traded
    BY <1>5, <1>7, <1>8, <2>1 DEF AccountRow
  <2>3. Bases' = Bases /\ Traded' = Traded
    BY <1>7, <1>8, <2>2, BookWritten
  <2>4. a \notin Usable /\ acct[a].base # Null
    BY <1>2, <1>4, <1>7, <1>8, AccountAssumption DEF Decided, AccountRow
  <2>5. Book!Restore(a)
    BY <1>7, <1>8, <2>3, <2>4 DEF Book!Restore, Book!Opened, Bases
  <2> QED
    BY <2>5 DEF Book!Next
<1>9. CASE w.kind = "archive"
  <2>1. acct' = [acct EXCEPT ![a].archived = TRUE]
    BY <1>1, <1>4, <1>9, CommitByKind
  <2>2. acct'[a].base = acct[a].base /\ acct'[a].traded = acct[a].traded
    BY <1>5, <1>7, <1>9, <2>1 DEF AccountRow
  <2>3. Bases' = Bases /\ Traded' = Traded
    BY <1>7, <1>9, <2>2, BookWritten
  <2>4. a \in Usable /\ Usable \ {a} # {}
    BY <1>2, <1>4, <1>9 DEF Decided
  <2>5. Book!Archive(a)
    BY <1>7, <1>9, <2>3, <2>4 DEF Book!Archive
  <2> QED
    BY <2>5 DEF Book!Next
<1>10. CASE w.kind = "update"
  <2>1. acct' = [acct EXCEPT ![a].base = w.base]
    BY <1>1, <1>4, <1>10, CommitByKind
  <2>2. a \in Usable /\ ~acct[a].traded /\ w.base \in BaseCurrencies
    BY <1>2, <1>4, <1>10 DEF Decided
  <2>3. acct'[a].base = w.base /\ acct'[a].traded = acct[a].traded
    BY <1>5, <1>7, <1>10, <2>1 DEF AccountRow
  <2>4. Bases' = [Bases EXCEPT ![a] = w.base] /\ Traded' = Traded
    BY <1>7, <1>10, <2>3, BookWritten
  <2>5. Usable' = Usable /\ a \notin Traded
    BY <1>7, <1>10, <2>2 DEF Traded
  <2>6. Book!ChangeCurrency(a, w.base)
    BY <2>2, <2>4, <2>5 DEF Book!ChangeCurrency
  <2> QED
    BY <2>2, <2>6 DEF Book!Next
<1>11. CASE w.kind = "trade"
  <2>1. acct' = [acct EXCEPT ![a].traded = TRUE]
    BY <1>1, <1>4, <1>11, CommitByKind
  <2>2. a \in Usable
    BY <1>2, <1>4, <1>11 DEF Decided
  <2>3. acct'[a].base = acct[a].base /\ acct'[a].traded
    BY <1>5, <1>7, <1>11, <2>1 DEF AccountRow
  <2>4. Bases' = Bases /\ Traded' = Traded \cup {a}
    BY <1>7, <1>11, <2>3, BookWritten
  <2>5. Usable' = Usable
    BY <1>7, <1>11, <2>2
  <2>6. Book!Trade(a)
    BY <2>2, <2>4, <2>5 DEF Book!Trade
  <2> QED
    BY <2>6 DEF Book!Next
<1>12. CASE w.kind = "prefer"
  <2>1. acct' = acct
    BY <1>1, <1>12, CommitByKind
  <2> QED
    BY <2>1 DEF Usable, Created, Bases, Traded
<1> QED
  BY <1>3, <1>6, <1>8, <1>9, <1>10, <1>11, <1>12 DEF Kinds

(* Overlapping calls of the account services have the effect of calls made *)
(* one at a time: every commit is one step of AccountBook.                 *)
THEOREM AccountsImplementBook == Spec => ImplementsAccountBook
<1>1. Init => Book!Init
  BY DEF Init, NoAccount, Book!Init, Usable, Created, Bases, Traded
<1>2. AccountsInv /\ [Next]_vars => [Book!Next]_<<Usable, Bases, Traded>>
  <2> SUFFICES ASSUME AccountsInv, [Next]_vars
               PROVE  Book!Next \/ UNCHANGED <<Usable, Bases, Traded>>
    OBVIOUS
  <2>1. UNCHANGED acct => UNCHANGED <<Usable, Bases, Traded>>
    BY DEF Usable, Created, Bases, Traded
  <2> QED
    BY <2>1, AccountSteps, CommitImplements
<1> QED
  BY <1>1, <1>2, AccountsInvHolds, PTL DEF Spec, ImplementsAccountBook, Book!Spec, Book!vars
=============================================================================
