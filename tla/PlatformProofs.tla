--------------------------- MODULE PlatformProofs ---------------------------
(***************************************************************************)
(* Proofs about the platform, for any number of users, calls, grants and   *)
(* VAT changes, any catalogue, rates and prices.                           *)
(***************************************************************************)
EXTENDS Platform, SubscriptionLifecycleProofs

GrantRow  == [user : Users, revoked : BOOLEAN]
ChangeRow == [config : Configurations, at : Nat, start : Nat,
              before : Configurations \cup {Null}]
SignIn    == [stage : {"idle", "begun", "owns", "found"},
              user : Users \cup {Null}, workspace : Workspaces \cup {Null}]
Call      == [stage : {"idle", "granting", "checked", "granted", "decided"},
              user : Users \cup {Null}, grant : Nat \cup {Null},
              wants : Configurations \cup {Null}, start : Nat \cup {Null},
              at : Nat \cup {Null}, before : Configurations \cup {Null}]
Bill      == [subtotal : Nat, rate : Nat, vat : Nat, total : Nat, at : Nat]
Home      == [owned : SUBSET Workspaces, member : SUBSET Workspaces,
              active : Workspaces \cup {Null}]

-----------------------------------------------------------------------------
(* Arithmetic of a bill. *)

LEMMA Quotient ==
  ASSUME NEW x \in Nat, NEW n \in Nat \ {0}
  PROVE  /\ x \div n \in Nat
         /\ (x \div n) * n <= x /\ x < (x \div n) * n + n
OBVIOUS

LEMMA VatAmountRounds ==
  ASSUME NEW subtotal \in Nat, NEW rate \in Nat
  PROVE  /\ VatAmount(subtotal, rate) \in Nat
         /\ LET error == 2 * (VatAmount(subtotal, rate) * Scale - subtotal * rate) IN
            -Scale < error /\ error <= Scale
<1> DEFINE x == subtotal * rate
           half == Scale \div 2
           q == (x + half) \div Scale
<1>1. x \in Nat
  OBVIOUS
<1>2. Scale \in Nat \ {0} /\ half \in Nat /\ Scale = 2 * half
  BY PlatformAssumption
<1> HIDE DEF x, half
<1>3. x + half \in Nat
  BY <1>1, <1>2
<1>4. q \in Nat /\ q * Scale <= x + half /\ x + half < q * Scale + Scale
  BY <1>2, <1>3, Quotient
<1>5. VatAmount(subtotal, rate) = q
  BY DEF VatAmount, x, half
<1> HIDE DEF q
<1>6. PICK p \in Int : p = q * Scale
  BY <1>2, <1>4
<1>7. -Scale < 2 * (p - x) /\ 2 * (p - x) <= Scale
  BY <1>1, <1>2, <1>4, <1>6
<1> QED
  BY <1>4, <1>5, <1>6, <1>7 DEF x
-----------------------------------------------------------------------------
(* Types, and what a call in each stage has found. *)

UserInv == user \in [Users -> {"absent", "unverified", "verified"}]

HomeInv == home \in [Users -> Home]

SignInInv ==
  /\ signIn \in [SignIns -> SignIn]
  /\ \A p \in SignIns :
       /\ signIn[p].stage # "idle" => signIn[p].user \in Users
       /\ signIn[p].stage \in {"owns", "found"} => signIn[p].workspace \in Workspaces

GrantInv ==
  /\ grant \in Seq(GrantRow)
  /\ \A g, h \in DOMAIN grant :
       ~grant[g].revoked /\ ~grant[h].revoked /\ grant[g].user = grant[h].user => g = h

(* A lock on a grant keeps it in force. *)
CallInv ==
  /\ call \in [Calls -> Call]
  /\ \A c \in Calls :
       /\ call[c].stage # "idle" => call[c].user \in Users
       /\ call[c].stage \in {"checked", "granted", "decided"} => call[c].start \in Nat
       /\ call[c].stage \in {"granted", "decided"} =>
            call[c].grant \in DOMAIN grant /\ ~grant[call[c].grant].revoked
       /\ call[c].stage = "decided" =>
            call[c].wants \in Configurations /\ call[c].at \in Nat /\ call[c].before \in Configurations

VatInv == vat \in Seq(ChangeRow)

BillInv == bill \in Bill \cup {Null}

TypeInv ==
  UserInv /\ HomeInv /\ SignInInv /\ GrantInv /\ CallInv /\ VatInv /\ BillInv

LEMMA TypesFit ==
  ASSUME LifecycleTypeOK, TypeInv
  PROVE  TypeOK
BY DEF TypeOK, TypeInv, UserInv, HomeInv, SignInInv, GrantInv, CallInv, VatInv, BillInv,
       Home, SignIn, GrantRow, Call, ChangeRow, Bill

(* What a step leaves alone keeps its type. *)
LEMMA KeptTypes ==
  ASSUME TypeInv
  PROVE  /\ user' = user => UserInv'
         /\ home' = home => HomeInv'
         /\ signIn' = signIn => SignInInv'
         /\ grant' = grant => GrantInv'
         /\ call' = call /\ grant' = grant => CallInv'
         /\ vat' = vat => VatInv'
         /\ bill' = bill => BillInv'
BY DEF TypeInv, UserInv, HomeInv, SignInInv, GrantInv, CallInv, VatInv, BillInv

(* A configuration in force is one of the table. *)
LEMMA InForceConfigurations ==
  ASSUME VatInv, NEW at, NEW config \in InForce(at)
  PROVE  config \in Configurations
<1>1. PICK i \in DOMAIN vat : config = vat[i].config
  BY DEF InForce
<1>2. vat[i] \in ChangeRow
  BY <1>1 DEF VatInv
<1> QED
  BY <1>1, <1>2 DEF ChangeRow

LEMMA IdleFields ==
  /\ Idle \in Call /\ Idle.stage = "idle" /\ Idle.grant = Null
  /\ SignedOut \in SignIn /\ SignedOut.stage = "idle"
  /\ NoHome \in Home /\ NoHome.owned = {} /\ NoHome.active = Null
<1>1. Idle \in Call /\ Idle.stage = "idle" /\ Idle.grant = Null
  BY DEF Idle, Call
<1>2. SignedOut \in SignIn /\ SignedOut.stage = "idle"
  BY DEF SignedOut, SignIn
<1>3. NoHome \in Home /\ NoHome.owned = {} /\ NoHome.active = Null
  BY DEF NoHome, Home
<1> QED
  BY <1>1, <1>2, <1>3

-----------------------------------------------------------------------------
(* Each action keeps TypeInv. *)

LEMMA SignInMoves ==
  ASSUME SignInInv, NEW p \in SignIns, NEW s \in SignIn, signIn' = [signIn EXCEPT ![p] = s],
         s.stage # "idle" => s.user \in Users,
         s.stage \in {"owns", "found"} => s.workspace \in Workspaces
  PROVE  SignInInv'
BY DEF SignInInv

LEMMA ProvisioningTypes ==
  ASSUME TypeInv, NEW p \in SignIns, Provisioning(p)
  PROVE  TypeInv'
<1>0. /\ UNCHANGED <<user, grant, call, vat, bill>>
      /\ SignInInv /\ HomeInv /\ signIn[p] \in SignIn
  BY DEF TypeInv, SignInInv, Provisioning, BeginProvisioning, InsertWorkspace, FinishProvisioning,
         ProvisioningFails
<1>1. SUFFICES SignInInv' /\ HomeInv'
  BY <1>0, KeptTypes DEF TypeInv
<1>2. ASSUME NEW u \in Users, BeginProvisioning(p, u) PROVE SignInInv' /\ HomeInv'
  <2>1. [stage |-> "begun", user |-> u, workspace |-> Null] \in SignIn
    BY DEF SignIn
  <2> QED
    BY <1>0, <1>2, <2>1, SignInMoves, KeptTypes DEF BeginProvisioning
<1>3. CASE InsertWorkspace(p)
  <2>1. signIn[p].stage = "begun" /\ signIn[p].user \in Users
    BY <1>0, <1>3 DEF InsertWorkspace, SignInInv
  <2>2. PICK w \in Workspaces, stage \in {"owns", "found"} :
          signIn' = [signIn EXCEPT ![p].stage = stage, ![p].workspace = w]
    BY <1>0, <1>3, <2>1 DEF InsertWorkspace, HomeInv, Home
  <2>3. signIn' = [signIn EXCEPT ![p] = [signIn[p] EXCEPT !.stage = stage, !.workspace = w]]
    BY <2>2
  <2>4. /\ [signIn[p] EXCEPT !.stage = stage, !.workspace = w] \in SignIn
        /\ [signIn[p] EXCEPT !.stage = stage, !.workspace = w].user = signIn[p].user
        /\ [signIn[p] EXCEPT !.stage = stage, !.workspace = w].workspace = w
    BY <1>0, <2>2 DEF SignIn
  <2> HIDE DEF SignIn
  <2> QED
    BY <1>0, <1>3, <2>1, <2>2, <2>3, <2>4, SignInMoves, KeptTypes, ZenonT(40) DEF InsertWorkspace
<1>4. CASE FinishProvisioning(p)
  <2>1. signIn[p].user \in Users /\ signIn[p].workspace \in Workspaces
    BY <1>0, <1>4 DEF FinishProvisioning, SignInInv
  <2>2. HomeInv'
    BY <1>0, <1>4, <2>1 DEF FinishProvisioning, HomeInv, Home
  <2>3. SignInInv'
    BY <1>0, <1>4, SignInMoves, IdleFields DEF FinishProvisioning
  <2> QED
    BY <2>2, <2>3
<1>5. CASE ProvisioningFails(p)
  BY <1>0, <1>5, SignInMoves, IdleFields, KeptTypes DEF ProvisioningFails
<1> QED
  BY <1>2, <1>3, <1>4, <1>5 DEF Provisioning

LEMMA CallMoves ==
  ASSUME CallInv, NEW c \in Calls, NEW d \in Call, call' = [call EXCEPT ![c] = d], grant' = grant,
         d.stage # "idle" => d.user \in Users,
         d.stage \in {"checked", "granted", "decided"} => d.start \in Nat,
         d.stage \in {"granted", "decided"} => d.grant \in DOMAIN grant /\ ~grant[d.grant].revoked,
         d.stage = "decided" =>
           d.wants \in Configurations /\ d.at \in Nat /\ d.before \in Configurations
  PROVE  CallInv'
BY DEF CallInv

(* A call ends. *)
LEMMA CallEnds ==
  ASSUME TypeInv, NEW c \in Calls, call' = [call EXCEPT ![c] = Idle], grant' = grant
  PROVE  CallInv'
BY IdleFields, CallMoves DEF TypeInv

LEMMA GrantsGrow ==
  ASSUME TypeInv, NEW c \in Calls, InsertGrant(c)
  PROVE  GrantInv' /\ CallInv'
<1>1. call[c].user \in Users
  BY DEF TypeInv, CallInv, InsertGrant
<1> DEFINE row == [user |-> call[c].user, revoked |-> FALSE]
<1>2. row \in GrantRow /\ row.user = call[c].user /\ row.revoked = FALSE
  BY <1>1 DEF GrantRow
<1>3. grant' = Append(grant, row) /\ call' = [call EXCEPT ![c] = Idle]
      /\ ActiveGrants(call[c].user) = {}
  BY DEF InsertGrant, GrantFits
<1> HIDE DEF row
<1>4. /\ Len(grant') = Len(grant) + 1 /\ grant' \in Seq(GrantRow)
      /\ \A g \in 1..Len(grant) : grant'[g] = grant[g]
      /\ grant'[Len(grant) + 1] = row
      /\ DOMAIN grant = 1..Len(grant) /\ DOMAIN grant' = 1..Len(grant) + 1
      /\ Len(grant) \in Nat
  BY <1>2, <1>3 DEF TypeInv, GrantInv
<1>5. \A g \in 1..Len(grant) : grant[g].user = row.user => grant[g].revoked
  BY <1>2, <1>3, <1>4 DEF ActiveGrants
<1>6. GrantInv'
  BY <1>2, <1>4, <1>5 DEF TypeInv, GrantInv
<1>7. CallInv'
  BY <1>3, <1>4, IdleFields DEF TypeInv, CallInv
<1> QED
  BY <1>6, <1>7

LEMMA AdminCallTypes ==
  ASSUME LifecycleTypeOK, TypeInv, NEW c \in Calls, AdminCall(c)
  PROVE  TypeInv'
<1>0. /\ now \in Nat /\ CallInv /\ call[c] \in Call /\ call \in [Calls -> Call]
      /\ GrantInv /\ VatInv
  BY DEF TypeInv, CallInv, LifecycleTypeOK
<1>1. ASSUME NEW u \in Users, SearchGrant(c, u) PROVE TypeInv'
  <2>1. /\ [Idle EXCEPT !.stage = "granting", !.user = u] \in Call
        /\ [Idle EXCEPT !.stage = "granting", !.user = u].stage = "granting"
        /\ [Idle EXCEPT !.stage = "granting", !.user = u].user = u
    BY DEF Idle, Call
  <2>2. CallInv'
    BY <1>0, <1>1, <2>1, CallMoves DEF SearchGrant
  <2> QED
    BY <1>1, <2>2, KeptTypes DEF SearchGrant, TypeInv
<1>2. ASSUME NEW u \in Users, NEW wants \in Configurations \cup {Null},
             EnterAdminCall(c, u, wants)
      PROVE  TypeInv'
  <2> DEFINE d == [Idle EXCEPT !.stage = "checked", !.user = u, !.wants = wants, !.start = now]
  <2>1. d \in Call /\ d.stage = "checked" /\ d.user = u /\ d.start = now
    BY <1>0 DEF Idle, Call
  <2>2. call' = [call EXCEPT ![c] = d]
    BY <1>2 DEF EnterAdminCall
  <2> HIDE DEF d
  <2>3. CallInv'
    BY <1>0, <1>2, <2>1, <2>2, CallMoves DEF EnterAdminCall
  <2> QED
    BY <1>2, <2>3, KeptTypes DEF EnterAdminCall, TypeInv
<1>3. CASE InsertGrant(c)
  BY <1>3, GrantsGrow, KeptTypes DEF InsertGrant, TypeInv
<1>4. CASE LockGrant(c)
  <2>1. PICK g \in GrantsToLock(c) : call' = [call EXCEPT ![c].stage = "granted", ![c].grant = g]
    BY <1>4 DEF LockGrant
  <2>2. g \in DOMAIN grant /\ ~grant[g].revoked /\ g \in Nat
    BY <1>0, <2>1 DEF GrantsToLock, ActiveGrants, GrantInv
  <2> DEFINE d == [call[c] EXCEPT !.stage = "granted", !.grant = g]
  <2>3. /\ d \in Call /\ d.stage = "granted" /\ d.grant = g
        /\ d.user = call[c].user /\ d.start = call[c].start
    BY <1>0, <2>2 DEF Call
  <2>4. call' = [call EXCEPT ![c] = d]
    BY <2>1
  <2>5. call[c].user \in Users /\ call[c].start \in Nat
    BY <1>0, <1>4 DEF CallInv, LockGrant
  <2> HIDE DEF d
  <2>6. CallInv'
    BY <1>0, <1>4, <2>2, <2>3, <2>4, <2>5, CallMoves DEF LockGrant
  <2> QED
    BY <1>4, <2>6, KeptTypes DEF LockGrant, TypeInv
<1>5. CASE AdminCallFails(c)
  BY <1>5, CallEnds, KeptTypes DEF AdminCallFails, TypeInv
<1>6. CASE SupportSubscription(c)
  BY <1>6, CallEnds, KeptTypes DEF SupportSubscription, TypeInv
<1>7. CASE DecideVat(c)
  <2>1. PICK current \in InForce(now) :
          call' = [call EXCEPT ![c] = IF current = call[c].wants THEN Idle
                     ELSE [call[c] EXCEPT !.stage = "decided", !.at = now, !.before = current]]
    BY <1>7 DEF DecideVat
  <2>2. current \in Configurations
    BY <1>0, <2>1, InForceConfigurations
  <2>3. CASE current = call[c].wants
    BY <1>7, <2>1, <2>3, CallEnds, KeptTypes DEF DecideVat, TypeInv
  <2>4. CASE current # call[c].wants
    <3> DEFINE d == [call[c] EXCEPT !.stage = "decided", !.at = now, !.before = current]
    <3>1. call' = [call EXCEPT ![c] = d]
      BY <2>1, <2>4
    <3>2. /\ d \in Call /\ d.stage = "decided" /\ d.at = now /\ d.before = current
          /\ d.user = call[c].user /\ d.start = call[c].start
          /\ d.grant = call[c].grant /\ d.wants = call[c].wants
      BY <1>0, <2>2 DEF Call
    <3>3. /\ call[c].user \in Users /\ call[c].start \in Nat /\ call[c].wants \in Configurations
          /\ call[c].grant \in DOMAIN grant /\ ~grant[call[c].grant].revoked
      BY <1>0, <1>7 DEF CallInv, DecideVat, Call
    <3> HIDE DEF d
    <3>4. CallInv'
      BY <1>0, <1>7, <2>2, <3>1, <3>2, <3>3, CallMoves DEF DecideVat
    <3> QED
      BY <1>7, <3>4, KeptTypes DEF DecideVat, TypeInv
  <2> QED
    BY <2>3, <2>4
<1>8. CASE CommitVat(c)
  <2> DEFINE row == [config |-> call[c].wants, at |-> call[c].at, start |-> call[c].start,
                     before |-> call[c].before]
  <2>1. row \in ChangeRow
    BY <1>0, <1>8 DEF CommitVat, CallInv, ChangeRow
  <2>2. vat' = Append(vat, row)
    BY <1>8 DEF CommitVat
  <2> HIDE DEF row
  <2>3. VatInv'
    BY <1>0, <2>1, <2>2 DEF VatInv
  <2> QED
    BY <1>8, <2>3, CallEnds, KeptTypes DEF CommitVat, TypeInv
<1> QED
  BY <1>1, <1>2, <1>3, <1>4, <1>5, <1>6, <1>7, <1>8 DEF AdminCall

LEMMA RevokeTypes ==
  ASSUME TypeInv, NEW g \in DOMAIN grant, RevokePlatformAdmin(g)
  PROVE  TypeInv'
<1>1. grant \in Seq(GrantRow) /\ grant[g] \in GrantRow
  BY DEF TypeInv, GrantInv
<1> DEFINE row == [grant[g] EXCEPT !.revoked = TRUE]
<1>2. row \in GrantRow /\ row.revoked
  BY <1>1 DEF GrantRow
<1>3. grant' = [grant EXCEPT ![g] = row]
  BY DEF RevokePlatformAdmin
<1> HIDE DEF row
<1>4. /\ grant' \in Seq(GrantRow) /\ DOMAIN grant' = DOMAIN grant /\ grant'[g] = row
      /\ \A h \in DOMAIN grant \ {g} : grant'[h] = grant[h]
  BY <1>1, <1>2, <1>3
<1>5. GrantInv'
  BY <1>2, <1>4 DEF TypeInv, GrantInv
<1>6. \A c \in Calls : call[c].stage \in {"granted", "decided"} => call[c].grant # g
  BY DEF RevokePlatformAdmin, LockedGrants
<1>7. CallInv'
  BY <1>4, <1>6 DEF TypeInv, CallInv, RevokePlatformAdmin
<1> QED
  BY <1>5, <1>7, KeptTypes DEF TypeInv, RevokePlatformAdmin

(* quoteCheckout: the VAT that was in force, rounded half up. *)
LEMMA PriceEffect ==
  ASSUME LifecycleTypeOK, VatInv, NEW subtotal \in Subtotals, PriceCheckout(subtotal)
  PROVE  bill' \in Bill /\ BillIsExact'
<1>1. PICK config \in InForce(now) :
        LET rate   == IF config.enabled THEN config.rate ELSE 0
            amount == IF config.enabled THEN VatAmount(subtotal, rate) ELSE 0
        IN  /\ amount <= MaxMinor
            /\ subtotal <= MaxMinor - amount
            /\ bill' = [subtotal |-> subtotal, rate |-> rate, vat |-> amount,
                        total |-> subtotal + amount, at |-> now]
  BY DEF PriceCheckout
<1> DEFINE rate   == IF config.enabled THEN config.rate ELSE 0
           amount == IF config.enabled THEN VatAmount(subtotal, rate) ELSE 0
<1>2. /\ now \in Nat /\ subtotal \in Nat /\ rate \in Nat /\ MaxMinor \in Nat
      /\ Scale \in Nat \ {0}
  <2>1. Scale \in Nat \ {0} /\ MaxMinor \in Nat /\ subtotal \in 0..MaxMinor
    BY PlatformAssumption
  <2>2. config \in [enabled : BOOLEAN, rate : Rates]
    BY InForceConfigurations DEF Configurations
  <2>3. config.rate \in 0..Scale
    BY <2>2, PlatformAssumption
  <2> QED
    BY <2>1, <2>3 DEF LifecycleTypeOK
<1>3. /\ amount \in Nat
      /\ -Scale < 2 * (amount * Scale - subtotal * rate)
      /\ 2 * (amount * Scale - subtotal * rate) <= Scale
  <2>1. CASE config.enabled
    BY <1>2, <2>1, VatAmountRounds
  <2>2. CASE ~config.enabled
    <3>1. amount = 0 /\ rate = 0
      BY <2>2
    <3> HIDE DEF amount, rate
    <3>2. 0 * Scale = 0 /\ subtotal * 0 = 0
      BY <1>2
    <3> QED
      BY <1>2, <3>1, <3>2
  <2> QED
    BY <2>1, <2>2
<1>4. /\ amount <= MaxMinor /\ subtotal <= MaxMinor - amount
      /\ bill' = [subtotal |-> subtotal, rate |-> rate, vat |-> amount,
                  total |-> subtotal + amount, at |-> now]
  BY <1>1
<1> HIDE DEF rate, amount
<1>5. bill' \in Bill /\ bill'.subtotal = subtotal /\ bill'.rate = rate /\ bill'.vat = amount
      /\ bill'.total = subtotal + amount
  BY <1>2, <1>3, <1>4 DEF Bill
<1> QED
  BY <1>2, <1>3, <1>4, <1>5 DEF BillIsExact

-----------------------------------------------------------------------------
(* Personal workspaces.  A call that found one found the user's; while a   *)
(* call owns one nobody sees, its user has none and no other call owns     *)
(* one for that user.                                                      *)

OneHome(h) ==
  h = NoHome \/ \E w \in Workspaces : h = [owned |-> {w}, member |-> {w}, active |-> w]

HomesInv ==
  /\ \A u \in Users : OneHome(home[u])
  /\ \A p \in SignIns : signIn[p].stage = "found" => signIn[p].workspace \in home[signIn[p].user].owned
  /\ \A p \in SignIns : signIn[p].stage = "owns" => home[signIn[p].user].owned = {}
  /\ \A p, q \in SignIns :
       signIn[p].stage = "owns" /\ signIn[q].stage = "owns" /\ signIn[p].user = signIn[q].user => p = q

LEMMA HomesFit ==
  ASSUME HomesInv
  PROVE  OnePersonalWorkspace
BY DEF HomesInv, OneHome, OnePersonalWorkspace

(* What a home with a given workspace, or with none, can be. *)
LEMMA OneHomeCases ==
  ASSUME NEW h, OneHome(h)
  PROVE  /\ h.owned = {} => h = NoHome
         /\ \A w \in h.owned : h = [owned |-> {w}, member |-> {w}, active |-> w]
<1>1. CASE h = NoHome
  BY <1>1, IdleFields
<1>2. ASSUME NEW x \in Workspaces, h = [owned |-> {x}, member |-> {x}, active |-> x]
      PROVE  h.owned = {x}
  BY <1>2
<1>3. CASE \E x \in Workspaces : h = [owned |-> {x}, member |-> {x}, active |-> x]
  <2>1. PICK x \in Workspaces : h = [owned |-> {x}, member |-> {x}, active |-> x]
    BY <1>3
  <2>2. h.owned = {x}
    BY <1>2, <2>1
  <2> QED
    BY <2>1, <2>2
<1> QED
  BY <1>1, <1>3 DEF OneHome

LEMMA OneHomeOfOne ==
  ASSUME NEW w \in Workspaces
  PROVE  OneHome([owned |-> {w}, member |-> {w}, active |-> w])
BY DEF OneHome

LEMMA HomesUnchanged ==
  ASSUME HomesInv, UNCHANGED <<home, signIn>>
  PROVE  HomesInv'
BY DEF HomesInv

LEMMA HomesStep ==
  ASSUME TypeInv, HomesInv, NEW p \in SignIns, Provisioning(p)
  PROVE  HomesInv'
<1> DEFINE u == signIn[p].user
           w == signIn[p].workspace
<1>0. /\ signIn \in [SignIns -> SignIn] /\ home \in [Users -> Home]
      /\ \A q \in SignIns : signIn[q].stage # "idle" => signIn[q].user \in Users
      /\ \A q \in SignIns : signIn[q].stage \in {"owns", "found"} => signIn[q].workspace \in Workspaces
      /\ signIn[p] \in SignIn
  BY DEF TypeInv, SignInInv, HomeInv
<1>1. ASSUME NEW s \in SignIn, s.stage \in {"idle", "begun"},
             signIn' = [signIn EXCEPT ![p] = s], home' = home
      PROVE  HomesInv'
  <2>1. signIn'[p] = s /\ \A q \in SignIns \ {p} : signIn'[q] = signIn[q]
    BY <1>0, <1>1
  <2> QED
    BY <1>1, <2>1 DEF HomesInv
<1>2. ASSUME NEW v \in Users, BeginProvisioning(p, v) PROVE HomesInv'
  <2>1. [stage |-> "begun", user |-> v, workspace |-> Null] \in SignIn
    BY DEF SignIn
  <2> QED
    BY <1>1, <1>2, <2>1 DEF BeginProvisioning
<1>3. CASE InsertWorkspace(p)
  <2>1. signIn[p].stage = "begun" /\ u \in Users /\ home' = home
    BY <1>0, <1>3 DEF InsertWorkspace
  <2>2. ASSUME InsertWins(u), NEW x \in Workspaces,
               signIn' = [signIn EXCEPT ![p].stage = "owns", ![p].workspace = x]
        PROVE  HomesInv'
    <3>1. /\ signIn'[p].stage = "owns" /\ signIn'[p].user = u /\ signIn'[p].workspace = x
          /\ \A q \in SignIns \ {p} : signIn'[q] = signIn[q]
      BY <1>0, <2>2 DEF SignIn
    <3>2. home[u].owned = {} /\ \A q \in SignIns : ~(signIn[q].stage = "owns" /\ signIn[q].user = u)
      BY <2>2 DEF InsertWins, Uncommitted
    <3> HIDE DEF u
    <3> QED
      BY <2>1, <3>1, <3>2 DEF HomesInv
  <2>3. ASSUME NEW x \in home[u].owned,
               signIn' = [signIn EXCEPT ![p].stage = "found", ![p].workspace = x]
        PROVE  HomesInv'
    <3>1. /\ signIn'[p].stage = "found" /\ signIn'[p].user = u /\ signIn'[p].workspace = x
          /\ \A q \in SignIns \ {p} : signIn'[q] = signIn[q]
      BY <1>0, <2>3 DEF SignIn
    <3>2. x \in home'[u].owned
      BY <2>1, <2>3
    <3> HIDE DEF u
    <3>3. \A q \in SignIns : signIn'[q].stage = "found" => signIn'[q].workspace \in home'[signIn'[q].user].owned
      BY <2>1, <3>1, <3>2 DEF HomesInv
    <3>4. \A q \in SignIns : signIn'[q].stage = "owns" => q # p
      BY <3>1
    <3> QED
      BY <2>1, <3>1, <3>3, <3>4 DEF HomesInv
  <2> QED
    BY <1>3, <2>2, <2>3 DEF InsertWorkspace
<1>4. CASE FinishProvisioning(p)
  <2>1. signIn[p].stage \in {"owns", "found"} /\ u \in Users /\ w \in Workspaces
    BY <1>0, <1>4 DEF FinishProvisioning
  <2>2. PICK active \in {w} \cup ({home[u].active} \ {Null}) :
          home' = [home EXCEPT ![u] = [owned |-> home[u].owned \cup {w},
                                       member |-> home[u].member \cup {w}, active |-> active]]
    BY <1>4 DEF FinishProvisioning
  <2>3. home[u] = NoHome \/ home[u] = [owned |-> {w}, member |-> {w}, active |-> w]
    <3>1. CASE signIn[p].stage = "owns"
      BY <2>1, <3>1, OneHomeCases DEF HomesInv
    <3>2. CASE signIn[p].stage = "found"
      BY <2>1, <3>2, OneHomeCases DEF HomesInv
    <3> QED
      BY <2>1, <3>1, <3>2
  <2>4. [owned |-> home[u].owned \cup {w}, member |-> home[u].member \cup {w}, active |-> active]
          = [owned |-> {w}, member |-> {w}, active |-> w]
    <3>1. CASE home[u] = NoHome
      <4>1. home[u].owned = {} /\ home[u].member = {} /\ home[u].active = Null
        BY <3>1 DEF NoHome
      <4> QED
        BY <2>2, <4>1
    <3>2. CASE home[u] = [owned |-> {w}, member |-> {w}, active |-> w]
      <4>1. home[u].owned = {w} /\ home[u].member = {w} /\ home[u].active = w
        BY <3>2
      <4> QED
        BY <2>2, <4>1
    <3> QED
      BY <2>3, <3>1, <3>2
  <2>5. /\ home'[u] = [owned |-> {w}, member |-> {w}, active |-> w]
        /\ \A v \in Users \ {u} : home'[v] = home[v]
    BY <1>0, <2>1, <2>2, <2>4
  <2>6. signIn'[p] = SignedOut /\ \A q \in SignIns \ {p} : signIn'[q] = signIn[q]
    BY <1>0, <1>4 DEF FinishProvisioning
  <2>7. ASSUME NEW v \in Users PROVE OneHome(home'[v])
    <3>1. CASE v = u
      BY <2>1, <2>5, <3>1, OneHomeOfOne
    <3>2. CASE v # u
      BY <2>5, <3>2 DEF HomesInv
    <3> QED
      BY <3>1, <3>2
  <2>8. ASSUME NEW q \in SignIns, signIn'[q].stage = "found"
        PROVE  signIn'[q].workspace \in home'[signIn'[q].user].owned
    <3>1. q # p /\ signIn'[q] = signIn[q] /\ signIn[q].user \in Users
      BY <1>0, <2>6, <2>8, IdleFields
    <3>2. signIn[q].workspace \in home[signIn[q].user].owned
      BY <2>8, <3>1 DEF HomesInv
    <3>3. CASE signIn[q].user = u
      BY <2>3, <2>5, <3>1, <3>2, <3>3, IdleFields
    <3>4. CASE signIn[q].user # u
      BY <2>5, <3>1, <3>2, <3>4
    <3> QED
      BY <3>3, <3>4
  <2>9. ASSUME NEW q \in SignIns, signIn'[q].stage = "owns"
        PROVE  home'[signIn'[q].user].owned = {}
    <3>1. q # p /\ signIn'[q] = signIn[q] /\ signIn[q].user \in Users
      BY <1>0, <2>6, <2>9, IdleFields
    <3>2. home[signIn[q].user].owned = {}
      BY <2>9, <3>1 DEF HomesInv
    <3>3. signIn[q].user # u
      <4>1. signIn[p].stage = "found" => w \in home[u].owned
        BY DEF HomesInv
      <4>2. signIn[p].stage = "owns" => signIn[q].user # u
        BY <2>9, <3>1 DEF HomesInv
      <4> QED
        BY <2>1, <3>2, <4>1, <4>2
    <3> QED
      BY <2>5, <3>1, <3>2, <3>3
  <2>10. \A q, r \in SignIns :
           signIn'[q].stage = "owns" /\ signIn'[r].stage = "owns" /\ signIn'[q].user = signIn'[r].user
             => q = r
    BY <2>6, IdleFields DEF HomesInv
  <2> QED
    BY <2>7, <2>8, <2>9, <2>10 DEF HomesInv
<1>5. CASE ProvisioningFails(p)
  BY <1>1, <1>5, IdleFields DEF ProvisioningFails
<1> QED
  BY <1>2, <1>3, <1>4, <1>5 DEF Provisioning

-----------------------------------------------------------------------------
(* The VAT.  Only one call at a time is between reading the configuration  *)
(* in force and writing the next, so what it read is what it replaces.     *)

VatOrder ==
  /\ Len(vat) > 0
  /\ \A i \in DOMAIN vat : vat[i].at <= now
  /\ \A i, j \in DOMAIN vat : i <= j => vat[i].at <= vat[j].at
  /\ \A i \in DOMAIN vat : ~Tied(i) /\ i # Len(vat) =>
       vat[i + 1].before = vat[i].config /\ vat[i + 1].config # vat[i].config
  /\ \A c \in Calls : call[c].stage = "decided" =>
       /\ vat[Len(vat)].at <= call[c].at /\ call[c].at <= now
       /\ ~Tied(Len(vat)) => call[c].before = vat[Len(vat)].config
       /\ call[c].wants # call[c].before
  /\ \A c, d \in Calls : call[c].stage = "decided" /\ call[d].stage = "decided" => c = d

LEMMA VatRows ==
  ASSUME VatInv
  PROVE  /\ Len(vat) \in Nat /\ DOMAIN vat = 1..Len(vat)
         /\ \A i \in DOMAIN vat : vat[i] \in ChangeRow /\ vat[i].at \in Nat /\ vat[i].start \in Nat
<1>1. Len(vat) \in Nat /\ DOMAIN vat = 1..Len(vat) /\ \A i \in DOMAIN vat : vat[i] \in ChangeRow
  BY DEF VatInv
<1>2. \A row \in ChangeRow : row.at \in Nat /\ row.start \in Nat
  BY DEF ChangeRow
<1> QED
  BY <1>1, <1>2

(* The last change is in force, unless another was decided at its instant. *)
LEMMA LastInForce ==
  ASSUME VatInv, now \in Nat, VatOrder, ~Tied(Len(vat))
  PROVE  InForce(now) = {vat[Len(vat)].config}
<1> DEFINE n == Len(vat)
<1>1. n \in DOMAIN vat /\ vat[n].at <= now
  BY VatRows DEF VatOrder
<1>2. \A k \in DOMAIN vat : Later(n, k)
  <2> TAKE k \in DOMAIN vat
  <2>1. CASE k = n
    BY <1>1, <2>1, VatRows DEF Later
  <2>2. CASE k # n
    BY <1>1, <2>2, VatRows DEF Later, Tied, VatOrder
  <2> QED
    BY <2>1, <2>2
<1>3. \A j \in DOMAIN vat : Later(j, n) => j = n
  BY <1>1, VatRows DEF Later, Tied, VatOrder
<1> QED
  BY <1>1, <1>2, <1>3 DEF InForce

LEMMA VatUnchanged ==
  ASSUME VatInv, CallInv, now \in Nat, VatOrder, vat' = vat, now' \in Nat, now <= now',
         \A c \in Calls : call'[c].stage = "decided" => call'[c] = call[c]
  PROVE  VatOrder'
<1>1. \A i : Tied(i)' <=> Tied(i)
  BY DEF Tied
<1>2. \A i \in DOMAIN vat : vat[i].at \in Nat
  BY VatRows
<1>3. \A c \in Calls : call[c].stage = "decided" => call[c].at \in Nat
  BY DEF CallInv
<1> QED
  BY <1>1, <1>2, <1>3 DEF VatOrder

LEMMA VatStep ==
  ASSUME LifecycleTypeOK, TypeInv, VatOrder, NEW c \in Calls, AdminCall(c)
  PROVE  VatOrder'
<1>0. now \in Nat /\ VatInv /\ CallInv /\ call \in [Calls -> Call]
  BY DEF LifecycleTypeOK, TypeInv, CallInv
<1>1. ASSUME NEW d, d.stage # "decided", call' = [call EXCEPT ![c] = d], vat' = vat, now' = now
      PROVE  VatOrder'
  <2>1. \A e \in Calls : call'[e].stage = "decided" => call'[e] = call[e]
    BY <1>0, <1>1
  <2> QED
    BY <1>0, <1>1, <2>1, VatUnchanged
<1>2. ASSUME NEW u \in Users, SearchGrant(c, u) PROVE VatOrder'
  <2>1. [Idle EXCEPT !.stage = "granting", !.user = u].stage = "granting"
    BY DEF Idle
  <2> QED
    BY <1>1, <1>2, <2>1 DEF SearchGrant
<1>3. ASSUME NEW u \in Users, NEW wants \in Configurations \cup {Null}, EnterAdminCall(c, u, wants)
      PROVE  VatOrder'
  <2>1. [Idle EXCEPT !.stage = "checked", !.user = u, !.wants = wants, !.start = now].stage = "checked"
    BY DEF Idle
  <2> QED
    BY <1>1, <1>3, <2>1 DEF EnterAdminCall
<1>4. CASE LockGrant(c)
  <2>1. PICK g \in GrantsToLock(c) : call' = [call EXCEPT ![c].stage = "granted", ![c].grant = g]
    BY <1>4 DEF LockGrant
  <2>2. [call[c] EXCEPT !.stage = "granted", !.grant = g].stage = "granted"
    BY <1>0 DEF Call
  <2>3. call' = [call EXCEPT ![c] = [call[c] EXCEPT !.stage = "granted", !.grant = g]]
    BY <2>1
  <2> QED
    BY <1>1, <1>4, <2>2, <2>3 DEF LockGrant
<1>5. CASE InsertGrant(c) \/ AdminCallFails(c) \/ SupportSubscription(c)
  BY <1>1, <1>5, IdleFields DEF InsertGrant, AdminCallFails, SupportSubscription
<1>6. CASE DecideVat(c)
  <2>1. PICK current \in InForce(now) :
          call' = [call EXCEPT ![c] = IF current = call[c].wants THEN Idle
                     ELSE [call[c] EXCEPT !.stage = "decided", !.at = now, !.before = current]]
    BY <1>6 DEF DecideVat
  <2>2. CASE current = call[c].wants
    BY <1>1, <1>6, <2>1, <2>2, IdleFields DEF DecideVat
  <2>3. CASE current # call[c].wants
    <3> DEFINE d == [call[c] EXCEPT !.stage = "decided", !.at = now, !.before = current]
    <3>1. call' = [call EXCEPT ![c] = d]
      BY <2>1, <2>3
    <3>2. d.at = now /\ d.before = current /\ d.wants = call[c].wants
      BY <1>0 DEF Call
    <3> HIDE DEF d
    <3>3. call'[c] = d /\ \A e \in Calls \ {c} : call'[e] = call[e]
      BY <1>0, <3>1
    <3>4. \A e \in Calls : call[e].stage # "decided"
      BY <1>6 DEF DecideVat, MutexFree
    <3>5. ~Tied(Len(vat)) => current = vat[Len(vat)].config
      BY <1>0, <2>1, LastInForce
    <3>6. vat[Len(vat)].at <= now
      BY <1>0, VatRows DEF VatOrder
    <3>7. vat' = vat /\ now' = now /\ \A i : Tied(i)' <=> Tied(i)
      BY <1>6 DEF DecideVat, Tied
    <3> QED
      BY <1>0, <2>3, <3>2, <3>3, <3>4, <3>5, <3>6, <3>7 DEF VatOrder
  <2> QED
    BY <2>2, <2>3
<1>7. CASE CommitVat(c)
  <2> DEFINE row == [config |-> call[c].wants, at |-> call[c].at, start |-> call[c].start,
                     before |-> call[c].before]
             n == Len(vat)
  <2>1. row.config = call[c].wants /\ row.at = call[c].at /\ row.before = call[c].before
    OBVIOUS
  <2>2. vat' = Append(vat, row) /\ now' = now /\ call' = [call EXCEPT ![c] = Idle]
        /\ call[c].stage = "decided"
    BY <1>7 DEF CommitVat
  <2> HIDE DEF row
  <2>3. n \in Nat /\ n > 0 /\ DOMAIN vat = 1..n
    BY <1>0, VatRows DEF VatOrder
  <2>4. /\ Len(vat') = n + 1 /\ DOMAIN vat' = 1..(n + 1) /\ vat'[n + 1] = row
        /\ \A i \in 1..n : vat'[i] = vat[i]
    BY <1>0, <2>2, <2>3 DEF VatInv
  <2>5. /\ vat[n].at <= row.at /\ row.at <= now /\ row.at \in Nat
        /\ ~Tied(n) => row.before = vat[n].config
        /\ row.config # row.before
    BY <1>0, <2>1, <2>2 DEF VatOrder, CallInv
  <2>6. \A e \in Calls : call'[e].stage # "decided"
    <3> TAKE e \in Calls
    <3>1. CASE e = c
      BY <1>0, <2>2, <3>1, IdleFields
    <3>2. CASE e # c
      BY <1>0, <2>2, <3>2 DEF VatOrder
    <3> QED
      BY <3>1, <3>2
  <2>7. \A i \in 1..n : Tied(i) => Tied(i)'
    BY <2>3, <2>4 DEF Tied
  <2>8. \A i \in DOMAIN vat' : vat'[i].at <= now /\ vat'[i].at \in Nat
    BY <1>0, <2>3, <2>4, <2>5, VatRows DEF VatOrder
  <2>9. \A i, j \in DOMAIN vat' : i <= j => vat'[i].at <= vat'[j].at
    <3> TAKE i, j \in DOMAIN vat'
    <3>1. CASE j = n + 1 /\ i \in 1..n
      <4>1. vat[i].at <= vat[n].at /\ vat[i].at \in Nat /\ vat[n].at \in Nat
        BY <1>0, <2>3, <3>1, VatRows DEF VatOrder
      <4> QED
        BY <2>4, <2>5, <3>1, <4>1
    <3>2. CASE j = n + 1 /\ i = n + 1
      BY <2>8, <3>2
    <3>3. CASE j \in 1..n
      BY <2>3, <2>4, <3>3 DEF VatOrder
    <3> QED
      BY <2>3, <2>4, <3>1, <3>2, <3>3
  <2>10. ASSUME NEW i \in DOMAIN vat', ~Tied(i)', i # n + 1
         PROVE  vat'[i + 1].before = vat'[i].config /\ vat'[i + 1].config # vat'[i].config
    <3>1. i \in 1..n /\ ~Tied(i)
      BY <2>3, <2>4, <2>7, <2>10
    <3>2. CASE i = n
      BY <2>4, <2>5, <3>1, <3>2
    <3>3. CASE i # n
      BY <2>3, <2>4, <3>1, <3>3 DEF VatOrder
    <3> QED
      BY <3>2, <3>3
  <2> QED
    BY <2>2, <2>3, <2>4, <2>6, <2>8, <2>9, <2>10 DEF VatOrder
<1> QED
  BY <1>2, <1>3, <1>4, <1>5, <1>6, <1>7 DEF AdminCall

LEMMA VatFollows ==
  ASSUME VatInv, now \in Nat, VatOrder
  PROVE  VatChangesFollow
BY LastInForce DEF VatChangesFollow, VatOrder

-----------------------------------------------------------------------------
(* The inductive invariant, and what follows from it. *)

Inv ==
  /\ now \in Nat /\ Sound(ent, now)
  /\ TypeInv
  /\ HomesInv
  /\ VatOrder
  /\ BillIsExact

LEMMA InvInit == Init => Inv
<1> SUFFICES ASSUME Init PROVE Inv
  OBVIOUS
<1>1. now = 0 /\ Sound(ent, now)
  BY TrialRowSound, TimeAssumption DEF Init, LifecycleInit
<1>2. TypeInv
  <2>1. UserInv /\ HomeInv
    BY IdleFields DEF Init, UserInv, HomeInv
  <2>2. SignInInv
    BY IdleFields DEF Init, SignInInv
  <2>3. GrantInv
    BY DEF Init, GrantInv
  <2>4. CallInv
    BY IdleFields DEF Init, CallInv
  <2>5. VatInv
    BY PlatformAssumption DEF Init, VatInv, ChangeRow
  <2>6. BillInv
    BY DEF Init, BillInv
  <2> QED
    BY <2>1, <2>2, <2>3, <2>4, <2>5, <2>6 DEF TypeInv
<1>3. HomesInv
  BY IdleFields DEF Init, HomesInv, OneHome
<1>4. VatOrder
  <2> DEFINE row == [config |-> Baseline, at |-> 0, start |-> 0, before |-> Null]
  <2>1. vat = <<row>> /\ row.at = 0
    BY DEF Init
  <2> HIDE DEF row
  <2>2. Len(vat) = 1 /\ DOMAIN vat = {1} /\ vat[1].at = 0
    BY <2>1
  <2>3. \A c \in Calls : call[c].stage # "decided"
    BY IdleFields DEF Init
  <2> QED
    BY <1>1, <2>2, <2>3 DEF VatOrder
<1>5. BillIsExact
  BY DEF Init, BillIsExact
<1> QED
  BY <1>1, <1>2, <1>3, <1>4, <1>5 DEF Inv

LEMMA InvTypes ==
  ASSUME Inv
  PROVE  LifecycleTypeOK
BY DEF Inv, Sound, RowOK, LifecycleTypeOK

LEMMA EntitlementStep ==
  ASSUME Inv, PaidTransition \/ CustomerTransition \/ AdminTransition \/ BackOfficeTransition
  PROVE  Sound(ent', now)
BY PaidTransitionSound, CustomerTransitionSound, AdminTransitionSound, BackOfficeTransitionSound DEF Inv

(* The last bill stays as it was written. *)
LEMMA BillKept ==
  ASSUME BillIsExact, bill' = bill
  PROVE  BillIsExact'
BY DEF BillIsExact

LEMMA InvNext == Inv /\ [Next]_vars => Inv'
<1> SUFFICES ASSUME Inv, [Next]_vars PROVE Inv'
  OBVIOUS
<1>0. /\ now \in Nat /\ Sound(ent, now) /\ TypeInv /\ HomesInv /\ VatOrder /\ BillIsExact
      /\ VatInv /\ CallInv /\ LifecycleTypeOK
  BY InvTypes DEF Inv, TypeInv
<1>1. ASSUME vat' = vat, call' = call, now' \in Nat, now <= now' PROVE VatOrder'
  BY <1>0, <1>1, VatUnchanged
<1>2. CASE Tick /\ UNCHANGED <<ent, platform>>
  <2>1. now' \in Nat /\ now <= now' /\ UNCHANGED <<ent, user, home, signIn, grant, call, vat, bill>>
    BY <1>0, <1>2 DEF Tick, platform
  <2>2. Sound(ent, now')
    BY <1>0, <2>1, SoundLater
  <2> QED
    BY <1>0, <1>1, <2>1, <2>2, KeptTypes, HomesUnchanged, BillKept DEF Inv, TypeInv
<1>3. CASE CustomerAndBilling
  <2>1. UNCHANGED <<now, user, home, signIn, grant, call, vat, bill>>
    BY <1>3 DEF CustomerAndBilling, platform
  <2>2. Sound(ent', now)
    BY <1>3, EntitlementStep DEF CustomerAndBilling
  <2> QED
    BY <1>0, <1>1, <2>1, <2>2, KeptTypes, HomesUnchanged, BillKept DEF Inv, TypeInv
<1>4. ASSUME NEW u \in Users, SignUp(u) \/ VerifyEmail(u) PROVE Inv'
  <2>1. UNCHANGED <<now, ent, home, signIn, grant, call, vat, bill>>
    BY <1>4 DEF SignUp, VerifyEmail
  <2>2. UserInv'
    BY <1>0, <1>4 DEF SignUp, VerifyEmail, TypeInv, UserInv
  <2> QED
    BY <1>0, <1>1, <2>1, <2>2, KeptTypes, HomesUnchanged, BillKept DEF Inv, TypeInv
<1>5. ASSUME NEW p \in SignIns, Provisioning(p) PROVE Inv'
  <2>1. UNCHANGED <<now, ent, user, grant, call, vat, bill>>
    BY <1>5 DEF Provisioning, BeginProvisioning, InsertWorkspace, FinishProvisioning,
                ProvisioningFails
  <2>2. TypeInv' /\ HomesInv'
    BY <1>0, <1>5, ProvisioningTypes, HomesStep
  <2> QED
    BY <1>0, <1>1, <2>1, <2>2, BillKept DEF Inv
<1>6. ASSUME NEW c \in Calls, AdminCall(c) PROVE Inv'
  <2>1. UNCHANGED <<now, user, home, signIn, bill>>
    BY <1>6 DEF AdminCall, SearchGrant, EnterAdminCall, InsertGrant, LockGrant, AdminCallFails,
                SupportSubscription, DecideVat, CommitVat
  <2>2. ent' = ent \/ AdminTransition
    BY <1>6 DEF AdminCall, SearchGrant, EnterAdminCall, InsertGrant, LockGrant, AdminCallFails,
                SupportSubscription, DecideVat, CommitVat
  <2>3. Sound(ent', now)
    BY <1>0, <2>2, EntitlementStep
  <2>4. TypeInv' /\ VatOrder'
    BY <1>0, <1>6, AdminCallTypes, VatStep
  <2> QED
    BY <1>0, <2>1, <2>3, <2>4, HomesUnchanged, BillKept DEF Inv
<1>7. ASSUME NEW g \in DOMAIN grant, RevokePlatformAdmin(g) PROVE Inv'
  <2>1. UNCHANGED <<now, ent, user, home, signIn, call, vat, bill>>
    BY <1>7 DEF RevokePlatformAdmin
  <2>2. TypeInv'
    BY <1>0, <1>7, RevokeTypes
  <2> QED
    BY <1>0, <1>1, <2>1, <2>2, HomesUnchanged, BillKept DEF Inv
<1>8. ASSUME NEW subtotal \in Subtotals, PriceCheckout(subtotal) PROVE Inv'
  <2>1. UNCHANGED <<now, ent, user, home, signIn, grant, call, vat>>
    BY <1>8 DEF PriceCheckout
  <2>2. bill' \in Bill /\ BillIsExact'
    BY <1>0, <1>8, PriceEffect
  <2>3. BillInv'
    BY <2>2 DEF BillInv
  <2> QED
    BY <1>0, <1>1, <2>1, <2>2, <2>3, KeptTypes, HomesUnchanged DEF Inv, TypeInv
<1>9. CASE UNCHANGED vars
  <2>1. UNCHANGED <<now, ent, user, home, signIn, grant, call, vat, bill>>
    BY <1>9 DEF vars
  <2> QED
    BY <1>0, <1>1, <2>1, KeptTypes, HomesUnchanged, BillKept DEF Inv, TypeInv
<1> QED
  BY <1>2, <1>3, <1>4, <1>5, <1>6, <1>7, <1>8, <1>9 DEF Next

THEOREM Invariance == Spec => []Inv
BY InvInit, InvNext, PTL DEF Spec

(* No transition, in any order, writes a row the types or the CHECK        *)
(* constraints of a table reject, and no user has two grants in force.     *)
THEOREM TypeCorrect == Spec => []TypeOK
<1>1. Inv => TypeOK
  BY InvTypes, TypesFit DEF Inv
<1> QED
  BY <1>1, Invariance, PTL

(* Whatever the customer, an Admin or the back office did to it, a row is  *)
(* one resolveEffectiveEntitlement understands.                            *)
THEOREM RowsResolve == Spec => []NeverMalformed
<1>1. Inv => NeverMalformed
  BY SoundNeverMalformed DEF Inv
<1> QED
  BY <1>1, Invariance, PTL

(* Upgrades, renewals and recoveries move the end of the period, and no    *)
(* scheduled downgrade is left behind at another date.                     *)
THEOREM DowngradesWait == Spec => []DowngradeAtPeriodEnd
<1>1. Inv => DowngradeAtPeriodEnd
  BY SoundDowngradeAtPeriodEnd DEF Inv
<1> QED
  BY <1>1, Invariance, PTL

(* materializeDueLifecycleState writes what every reader derived already.  *)
THEOREM MaterializingIsSilent == Spec => []MaterializingChangesNothing
<1>1. Inv => MaterializingChangesNothing
  BY SoundMaterializing DEF Inv
<1> QED
  BY <1>1, Invariance, PTL

(* The VAT changes of any number of Admins have one order. *)
THEOREM VatHasOneOrder == Spec => []VatChangesFollow
<1>1. Inv => VatChangesFollow
  BY VatFollows DEF Inv, TypeInv
<1> QED
  BY <1>1, Invariance, PTL

(* However many calls provision a user, one workspace comes of it. *)
THEOREM OneWorkspaceEach == Spec => []OnePersonalWorkspace
<1>1. Inv => OnePersonalWorkspace
  BY HomesFit DEF Inv
<1> QED
  BY <1>1, Invariance, PTL

(* calculateExclusiveVat, for every rate and price. *)
THEOREM BillsAreExact == Spec => []BillIsExact
<1>1. Inv => BillIsExact
  BY DEF Inv
<1> QED
  BY <1>1, Invariance, PTL

(* lockActivePlatformAdminGrant: the grant a call acts under is in force   *)
(* from the lock to the commit.                                            *)
THEOREM AuthorityHolds == Spec => AuthorityInForce
<1>1. Inv => \A c \in Calls :
               call[c].stage \in {"granted", "decided"} => ~grant[call[c].grant].revoked
  BY DEF Inv, TypeInv, CallInv
<1>2. Inv /\ [Next]_vars =>
        [\A c \in Calls :
           call[c].stage \in {"granted", "decided"} /\ call'[c] = Idle /\ <<ent, vat>>' # <<ent, vat>>
             => ~grant[call[c].grant].revoked]_vars
  BY <1>1
<1> QED
  BY <1>2, Invariance, PTL DEF Spec, AuthorityInForce

(* No call, of a customer, an Admin or the back office, takes from a       *)
(* subscriber what the running period has paid for.                        *)
THEOREM RunningPlansGrow == Spec => RunningPlanNeverShrinks
<1>1. Inv /\ [Next]_vars =>
        [/\ ent.source = "paid" /\ ent.status \in {"active", "past_due"}
         /\ ~PeriodEnded(ent, now)
         => ent'.plan = ent.plan \/ LargerPlan(ent, ent'.plan)]_<<now, ent>>
  <2> SUFFICES ASSUME Inv, [Next]_vars,
                      ent.source = "paid", ent.status \in {"active", "past_due"},
                      ~PeriodEnded(ent, now)
               PROVE  ent'.plan = ent.plan \/ LargerPlan(ent, ent'.plan)
    OBVIOUS
  <2>1. CASE PaidTransition \/ CustomerTransition \/ AdminTransition \/ BackOfficeTransition
    BY <2>1, RunningPlanStep DEF Inv
  <2>2. CASE ent' = ent
    BY <2>2
  <2>3. ASSUME NEW c \in Calls, AdminCall(c) PROVE ent' = ent \/ AdminTransition
    BY <2>3 DEF AdminCall, SearchGrant, EnterAdminCall, InsertGrant, LockGrant, AdminCallFails,
                SupportSubscription, DecideVat, CommitVat
  <2>4. ASSUME NEW p \in SignIns, Provisioning(p) PROVE ent' = ent
    BY <2>4 DEF Provisioning, BeginProvisioning, InsertWorkspace, FinishProvisioning,
                ProvisioningFails
  <2>5. ASSUME NEW u \in Users, SignUp(u) \/ VerifyEmail(u) PROVE ent' = ent
    BY <2>5 DEF SignUp, VerifyEmail
  <2>6. ASSUME NEW g \in DOMAIN grant, RevokePlatformAdmin(g) PROVE ent' = ent
    BY <2>6 DEF RevokePlatformAdmin
  <2>7. ASSUME NEW subtotal \in Subtotals, PriceCheckout(subtotal) PROVE ent' = ent
    BY <2>7 DEF PriceCheckout
  <2> QED
    BY <2>1, <2>2, <2>3, <2>4, <2>5, <2>6, <2>7 DEF Next, CustomerAndBilling, vars
<1> QED
  BY <1>1, Invariance, PTL DEF Spec, RunningPlanNeverShrinks
=============================================================================
