------------------------------ MODULE Platform ------------------------------
(***************************************************************************)
(* The platform around one customer's entitlement: its users and their     *)
(* personal workspaces (workspace-provisioning.ts), the platform Admins'   *)
(* grants (platform-admin-provisioning.ts, admin-dal.ts), and what an      *)
(* Admin may change under a grant: the entitlement row                     *)
(* (admin/subscription-support.ts) and the VAT configuration               *)
(* (admin/vat-configuration-support.ts), which prices are quoted with      *)
(* (lib/billing/quote.ts, vat.ts).                                         *)
(*                                                                         *)
(* An Admin's call is three transactions' worth of waiting:                *)
(*   "checked"   it found a grant outside any transaction, and began one;  *)
(*   "granted"   it found a grant again and locked its row;                *)
(*   "decided"   a VAT change also holds the mutex, has read the clock and *)
(*               the configuration in force, and has yet to commit.        *)
(* Making someone an Admin is a call of two steps, the search ("granting") *)
(* and the insert.  A provisioning transaction is "begun", then either     *)
(* owns a new workspace nobody else sees or has found one, and commits.    *)
(* Any call may fail in any stage, which rolls its transaction back.       *)
(***************************************************************************)
EXTENDS SubscriptionLifecycle, Sequences

CONSTANTS
  Users,
  Workspaces,   \* ids of personal workspaces
  Calls,        \* Admin calls in flight, which bound the concurrency
  SignIns,      \* provisioning calls in flight
  Rates,        \* VAT rates, in basis points
  Baseline,     \* the configuration of migration 0009
  Subtotals,    \* prices in minor units
  Scale,        \* BASIS_POINTS_SCALE
  MaxMinor,     \* MAX_SAFE_MINOR
  MaxGrants,    \* bound on the grants ever made
  MaxChanges    \* bound on the VAT configurations ever in force

Configurations == [enabled : BOOLEAN, rate : Rates]

ASSUME PlatformAssumption ==
  /\ Scale \in Nat \ {0} /\ Scale % 2 = 0
  /\ Rates \subseteq 0..Scale
  /\ Subtotals \subseteq 0..MaxMinor
  /\ MaxMinor \in Nat /\ MaxGrants \in Nat /\ MaxChanges \in Nat
  /\ Baseline \in Configurations
  /\ Null \notin Users \cup Workspaces \cup Configurations

VARIABLES
  user,     \* users: absent, unverified or verified
  home,     \* workspaces, workspace_members and user_preferences of each user
  signIn,   \* calls of ensurePersonalWorkspace
  grant,    \* platform_admins, in the order the rows were inserted
  call,     \* Admin calls
  vat,      \* platform_vat_configuration, in the order of the commits
  bill      \* the last amounts written for a checkout

platform == <<user, home, signIn, grant, call, vat, bill>>
vars == <<now, ent, user, home, signIn, grant, call, vat, bill>>

-----------------------------------------------------------------------------
(* Users and their personal workspaces. *)

NoHome == [owned |-> {}, member |-> {}, active |-> Null]
SignedOut == [stage |-> "idle", user |-> Null, workspace |-> Null]

(* Better Auth commits the user before it calls the hook. *)
SignUp(u) ==
  /\ user[u] = "absent"
  /\ user' = [user EXCEPT ![u] = "unverified"]
  /\ UNCHANGED <<now, ent, home, signIn, grant, call, vat, bill>>

VerifyEmail(u) ==
  /\ user[u] = "unverified"
  /\ user' = [user EXCEPT ![u] = "verified"]
  /\ UNCHANGED <<now, ent, home, signIn, grant, call, vat, bill>>

(* The sign-up hook and every page without an active workspace call it. *)
BeginProvisioning(p, u) ==
  /\ signIn[p] = SignedOut
  /\ user[u] # "absent"
  /\ signIn' = [signIn EXCEPT ![p] = [stage |-> "begun", user |-> u, workspace |-> Null]]
  /\ UNCHANGED <<now, ent, user, home, grant, call, vat, bill>>

(* Workspaces inserted for u by transactions that have not ended. *)
Uncommitted(u) ==
  {p \in SignIns : signIn[p].stage = "owns" /\ signIn[p].user = u}

TakenWorkspaces ==
  UNION {home[u].owned : u \in Users}
  \cup {signIn[p].workspace : p \in {q \in SignIns : signIn[q].stage = "owns"}}

(* Mutant: no unique index on the owner; the call looks and then inserts. *)
NoCommittedHome(u) == home[u].owned = {}

(* workspaces_personal_owner_idx: an insert waits for an uncommitted one.  *)
InsertWins(u) == home[u].owned = {} /\ Uncommitted(u) = {}

InsertWorkspace(p) ==
  LET u == signIn[p].user IN
  /\ signIn[p].stage = "begun"
  /\ \/ /\ InsertWins(u)
        /\ \E w \in Workspaces \ TakenWorkspaces :
             signIn' = [signIn EXCEPT ![p].stage = "owns", ![p].workspace = w]
     \/ \E w \in home[u].owned :
          signIn' = [signIn EXCEPT ![p].stage = "found", ![p].workspace = w]
  /\ UNCHANGED <<now, ent, user, home, grant, call, vat, bill>>

(* Membership and preferences are added where they are missing; the page   *)
(* that repairs sets the active workspace, the hook only fills it in.      *)
FinishProvisioning(p) ==
  LET u == signIn[p].user
      w == signIn[p].workspace
  IN
  /\ signIn[p].stage \in {"owns", "found"}
  /\ \E active \in {w} \cup ({home[u].active} \ {Null}) :
       home' = [home EXCEPT ![u] = [owned |-> @.owned \cup {w}, member |-> @.member \cup {w},
                                    active |-> active]]
  /\ signIn' = [signIn EXCEPT ![p] = SignedOut]
  /\ UNCHANGED <<now, ent, user, grant, call, vat, bill>>

ProvisioningFails(p) ==
  /\ signIn[p] # SignedOut
  /\ signIn' = [signIn EXCEPT ![p] = SignedOut]
  /\ UNCHANGED <<now, ent, user, home, grant, call, vat, bill>>

-----------------------------------------------------------------------------
(* Grants. *)

Idle == [stage |-> "idle", user |-> Null, grant |-> Null, wants |-> Null,
         start |-> Null, at |-> Null, before |-> Null]

ActiveGrants(u) == {g \in DOMAIN grant : grant[g].user = u /\ ~grant[g].revoked}

LockedGrants == {call[c].grant : c \in {d \in Calls : call[d].stage \in {"granted", "decided"}}}

(* findActiveGrant found none; an existing grant ends the call at once. *)
SearchGrant(c, u) ==
  /\ call[c] = Idle
  /\ user[u] = "verified"
  /\ ActiveGrants(u) = {}
  /\ call' = [call EXCEPT ![c] = [Idle EXCEPT !.stage = "granting", !.user = u]]
  /\ UNCHANGED <<now, ent, user, home, signIn, grant, vat, bill>>

(* Mutant: no unique index on active grants. *)
AnyGrantFits(u) == user[u] # "absent"

(* platform_admins_active_user_idx *)
GrantFits(u) == ActiveGrants(u) = {}

InsertGrant(c) ==
  /\ call[c].stage = "granting"
  /\ Len(grant) < MaxGrants
  /\ GrantFits(call[c].user)
  /\ grant' = Append(grant, [user |-> call[c].user, revoked |-> FALSE])
  /\ call' = [call EXCEPT ![c] = Idle]
  /\ UNCHANGED <<now, ent, user, home, signIn, vat, bill>>

RevokePlatformAdmin(g) ==
  /\ ~grant[g].revoked
  /\ g \notin LockedGrants
  /\ grant' = [grant EXCEPT ![g].revoked = TRUE]
  /\ UNCHANGED <<now, ent, user, home, signIn, call, vat, bill>>

-----------------------------------------------------------------------------
(* Admin calls.  "wants" is the VAT configuration, Null for the support of *)
(* a subscription. *)

(* requirePlatformAdmin, and the start of the transaction. *)
EnterAdminCall(c, u, wants) ==
  /\ call[c] = Idle
  /\ ActiveGrants(u) # {}
  /\ call' = [call EXCEPT ![c] = [Idle EXCEPT !.stage = "checked", !.user = u,
                                              !.wants = wants, !.start = now]]
  /\ UNCHANGED <<now, ent, user, home, signIn, grant, vat, bill>>

(* Mutant: the grant found before the transaction is used. *)
GrantsFound(c) == {g \in DOMAIN grant : grant[g].user = call[c].user}

(* lockActivePlatformAdminGrant: the row is active and not locked. *)
GrantsToLock(c) == ActiveGrants(call[c].user) \ LockedGrants

LockGrant(c) ==
  /\ call[c].stage = "checked"
  /\ \E g \in GrantsToLock(c) :
       call' = [call EXCEPT ![c].stage = "granted", ![c].grant = g]
  /\ UNCHANGED <<now, ent, user, home, signIn, grant, vat, bill>>

(* admin_required, or any error. *)
AdminCallFails(c) ==
  /\ call[c] # Idle
  /\ call' = [call EXCEPT ![c] = Idle]
  /\ UNCHANGED <<now, ent, user, home, signIn, grant, vat, bill>>

(* withAdminMutation, from the lock of the workspace to the commit. *)
SupportSubscription(c) ==
  /\ call[c].stage = "granted" /\ call[c].wants = Null
  /\ AdminTransition
  /\ call' = [call EXCEPT ![c] = Idle]
  /\ UNCHANGED <<now, user, home, signIn, grant, vat, bill>>

-----------------------------------------------------------------------------
(* The VAT configuration in force. *)

(* desc(effective_at), desc(created_at); ids of one instant are random. *)
Later(i, j) ==
  \/ vat[i].at > vat[j].at
  \/ vat[i].at = vat[j].at /\ vat[i].start >= vat[j].start

(* resolveEffective: the rows that may come first. *)
InForce(at) ==
  LET due == {i \in DOMAIN vat : vat[i].at <= at} IN
  {vat[i].config : i \in {j \in due : \A k \in due : Later(j, k)}}

(* Mutant: nobody locks the baseline row. *)
NoMutex(c) == call[c].user \in Users

(* lockVatMutationMutex *)
MutexFree(c) == \A d \in Calls : call[d].stage # "decided"

(* Under the mutex the clock and the configuration are read. *)
DecideVat(c) ==
  /\ call[c].stage = "granted" /\ call[c].wants # Null
  /\ MutexFree(c)
  /\ \E current \in InForce(now) :
       call' = [call EXCEPT ![c] =
                  IF current = call[c].wants THEN Idle
                  ELSE [@ EXCEPT !.stage = "decided", !.at = now, !.before = current]]
  /\ UNCHANGED <<now, ent, user, home, signIn, grant, vat, bill>>

(* The row, with its entry in the audit log. *)
CommitVat(c) ==
  /\ call[c].stage = "decided"
  /\ Len(vat) < MaxChanges
  /\ vat' = Append(vat, [config |-> call[c].wants, at |-> call[c].at, start |-> call[c].start,
                         before |-> call[c].before])
  /\ call' = [call EXCEPT ![c] = Idle]
  /\ UNCHANGED <<now, ent, user, home, signIn, grant, bill>>

-----------------------------------------------------------------------------
(* Prices. *)

(* Mutant: the VAT is cut off and not rounded. *)
VatCutOff(subtotal, rate) == (subtotal * rate) \div Scale

(* calculateExclusiveVat *)
VatAmount(subtotal, rate) == (subtotal * rate + Scale \div 2) \div Scale

(* quoteCheckout in prepareCheckout, and the amounts of the row it writes. *)
PriceCheckout(subtotal) ==
  /\ \E config \in InForce(now) :
       LET rate   == IF config.enabled THEN config.rate ELSE 0
           amount == IF config.enabled THEN VatAmount(subtotal, rate) ELSE 0
       IN  /\ amount <= MaxMinor
           /\ subtotal <= MaxMinor - amount
           /\ bill' = [subtotal |-> subtotal, rate |-> rate, vat |-> amount,
                       total |-> subtotal + amount, at |-> now]
  /\ UNCHANGED <<now, ent, user, home, signIn, grant, call, vat>>

-----------------------------------------------------------------------------
Init ==
  /\ LifecycleInit
  /\ user = [u \in Users |-> "absent"]
  /\ home = [u \in Users |-> NoHome]
  /\ signIn = [p \in SignIns |-> SignedOut]
  /\ grant = << >>
  /\ call = [c \in Calls |-> Idle]
  /\ vat = <<[config |-> Baseline, at |-> 0, start |-> 0, before |-> Null]>>
  /\ bill = Null

Provisioning(p) ==
  \/ \E u \in Users : BeginProvisioning(p, u)
  \/ InsertWorkspace(p) \/ FinishProvisioning(p) \/ ProvisioningFails(p)

AdminCall(c) ==
  \/ \E u \in Users : SearchGrant(c, u)
  \/ \E u \in Users, wants \in Configurations \cup {Null} : EnterAdminCall(c, u, wants)
  \/ InsertGrant(c) \/ LockGrant(c) \/ AdminCallFails(c)
  \/ SupportSubscription(c) \/ DecideVat(c) \/ CommitVat(c)

CustomerAndBilling ==
  /\ PaidTransition \/ CustomerTransition \/ BackOfficeTransition
  /\ UNCHANGED <<now, platform>>

Next ==
  \/ Tick /\ UNCHANGED <<ent, platform>>
  \/ CustomerAndBilling
  \/ \E u \in Users : SignUp(u) \/ VerifyEmail(u)
  \/ \E p \in SignIns : Provisioning(p)
  \/ \E c \in Calls : AdminCall(c)
  \/ \E g \in DOMAIN grant : RevokePlatformAdmin(g)
  \/ \E subtotal \in Subtotals : PriceCheckout(subtotal)

Spec == Init /\ [][Next]_vars

-----------------------------------------------------------------------------
(* The rows have the shape of their tables, pass the checks of the         *)
(* entitlement row, and a user has at most one grant in force, although    *)
(* two calls may look for it at once.                                      *)
TypeOK ==
  /\ LifecycleTypeOK
  /\ user \in [Users -> {"absent", "unverified", "verified"}]
  /\ home \in [Users -> [owned : SUBSET Workspaces, member : SUBSET Workspaces,
                         active : Workspaces \cup {Null}]]
  /\ signIn \in [SignIns -> [stage : {"idle", "begun", "owns", "found"},
                             user : Users \cup {Null}, workspace : Workspaces \cup {Null}]]
  /\ grant \in Seq([user : Users, revoked : BOOLEAN])
  /\ \A g, h \in DOMAIN grant :
       ~grant[g].revoked /\ ~grant[h].revoked /\ grant[g].user = grant[h].user => g = h
  /\ call \in [Calls -> [stage : {"idle", "granting", "checked", "granted", "decided"},
                         user : Users \cup {Null}, grant : Nat \cup {Null},
                         wants : Configurations \cup {Null}, start : Nat \cup {Null},
                         at : Nat \cup {Null}, before : Configurations \cup {Null}]]
  /\ vat \in Seq([config : Configurations, at : Nat, start : Nat,
                  before : Configurations \cup {Null}])
  /\ bill \in [subtotal : Nat, rate : Nat, vat : Nat, total : Nat, at : Nat] \cup {Null}

(* admin-dal.ts:107: a grant revoked before or while an Admin's call waits  *)
(* for its locks is never honored.  The step that changes the entitlement  *)
(* or the VAT configuration ends a call whose grant is in force.           *)
AuthorityInForce ==
  [][\A c \in Calls :
       call[c].stage \in {"granted", "decided"} /\ call'[c] = Idle /\ <<ent, vat>>' # <<ent, vat>>
         => ~grant[call[c].grant].revoked]_vars

(* Two changes of one millisecond are ordered by the start of their        *)
(* transactions, which need not be the order of their commits.             *)
Tied(i) == \E j \in DOMAIN vat \ {i} : vat[j].at = vat[i].at

(* Changes to the VAT have one order, that of the mutex: the last one is   *)
(* in force, and every entry of the audit log goes on from the one before. *)
VatChangesFollow ==
  \A i \in DOMAIN vat :
    ~Tied(i) =>
      IF i = Len(vat) THEN InForce(now) = {vat[i].config}
      ELSE vat[i + 1].before = vat[i].config /\ vat[i + 1].config # vat[i].config

(* workspace-provisioning.ts:12: every user has exactly one personal       *)
(* workspace, whoever created it and however many calls raced or died, and *)
(* is a member of it and active in it once any call has returned.          *)
OnePersonalWorkspace ==
  \A u \in Users :
    home[u] = NoHome \/ \E w \in Workspaces : home[u] = [owned |-> {w}, member |-> {w}, active |-> w]

(* The VAT of a bill is the exact one, rounded half up to a minor unit,    *)
(* and the total is storable.                                              *)
BillIsExact ==
  bill # Null =>
    LET error == 2 * (bill.vat * Scale - bill.subtotal * bill.rate) IN
    /\ -Scale < error /\ error <= Scale
    /\ bill.total = bill.subtotal + bill.vat /\ bill.total <= MaxMinor
=============================================================================
