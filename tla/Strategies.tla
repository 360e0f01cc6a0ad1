----------------------------- MODULE Strategies -----------------------------
(***************************************************************************)
(* The strategies of one workspace and the trades classified under them:   *)
(* the rows of strategies, strategy_versions, setups,                      *)
(* strategy_setup_versions, setup_conditions and strategy_rules, and the   *)
(* columns and snapshots of a trade that refer to them                     *)
(* (strategy-management.ts, strategy-versioning.ts,                        *)
(* setup-condition-snapshots.ts, trade-discipline.ts, and the              *)
(* classification in trade-management.ts).                                 *)
(*                                                                         *)
(* Every call is one transaction that locks the workspace row first and    *)
(* holds it to the end, so a call is one step.  A refused call is a        *)
(* disabled action, except for the two that return their refusal after a   *)
(* write: the transaction commits, and the write stays (CreateSetup,       *)
(* AssignTradeClassification).  The replay of a create writes nothing.     *)
(* Entitlement and membership, which may refuse any call, are modelled in  *)
(* TradingAccounts.                                                        *)
(*                                                                         *)
(* A row made by a form is named by the form's key.  The version number    *)
(* names a version within its strategy, and <<number, setup>> the snapshot *)
(* of a setup in that version.                                             *)
(***************************************************************************)
EXTENDS Naturals, Sequences

CONSTANTS
  StrategyIds,  \* strategies, by the mutation key of the create form
  Setups,       \* setups, by the mutation key of the create form
  Rules,        \* rule keys
  Conditions,   \* condition keys, generated by the table
  Names,        \* what a form writes of a strategy or a setup
  Texts,        \* what a form writes of a rule or a condition
  Trades,
  MaxVersions,  \* bound on the versions of a strategy
  Null

ASSUME StrategiesAssumption ==
  /\ MaxVersions \in Nat \ {0}
  /\ Null \notin StrategyIds \cup Setups \cup Rules \cup Conditions \cup Names \cup Texts

VARIABLES
  strategy,  \* strategies
  versions,  \* strategy_versions of each strategy, with the rows they own
  setup,     \* setups
  trade,     \* trades, with trade_rule_checks and trade_setup_condition_checks
  form       \* what a page for a new trade has rendered

vars == <<strategy, versions, setup, trade, form>>

NoRows == [x \in {} |-> Null]

(* The rows left when the one of key k is deleted, or added or changed. *)
Without(rows, k)     == [x \in DOMAIN rows \ {k} |-> rows[x]]
With(rows, k, value) == [x \in DOMAIN rows \cup {k} |-> IF x = k THEN value ELSE rows[x]]

Answers == {"met", "not_met"}
CheckStatuses == {"followed", "violated", "not_applicable", "not_checked"}

-----------------------------------------------------------------------------
(* Versions. *)

Exists(s)  == strategy[s] # Null
Open(s)    == Exists(s) /\ ~strategy[s].archived
Current(s) == versions[s][strategy[s].current]

FirstVersion(name) == [locked |-> FALSE, name |-> name, setups |-> NoRows, rules |-> NoRows]

(* The snapshot of a setup in the copy of a version stands for its snapshot in the original. *)
Rescoped(scope, n) == IF scope = Null THEN Null ELSE <<n, scope[2]>>

CopyVerbatim(v, n) == [v EXCEPT !.locked = FALSE]

CopyOf(v, n) ==
  [v EXCEPT !.locked = FALSE,
            !.rules = [r \in DOMAIN v.rules |->
                         [scope |-> Rescoped(v.rules[r].scope, n), text |-> v.rules[r].text]]]

WriteInPlace(s, v, noted) ==
  /\ versions' = [versions EXCEPT ![s][strategy[s].current] = v]
  /\ UNCHANGED strategy

WriteUnpointed(s, v, noted) ==
  LET n == strategy[s].current IN
  /\ UNCHANGED strategy
  /\ IF Current(s).locked
     THEN noted /\ versions' = [versions EXCEPT ![s] = Append(@, CopyOf(v, n + 1))]
     ELSE versions' = [versions EXCEPT ![s][n] = v]

WriteCopy(s, v, noted) ==
  LET n == strategy[s].current IN
  /\ n < MaxVersions
  /\ versions' = [versions EXCEPT ![s] = Append(@, CopyOf(v, n + 1))]
  /\ strategy' = [strategy EXCEPT ![s].current = n + 1]

(* Gives the current version of s the content of v.  A locked version is   *)
(* left as it is and a copy becomes the current one.  The code copies and  *)
(* then edits the copy; the copy of the edited content is the same.        *)
Write(s, v, noted) ==
  LET n == strategy[s].current IN
  IF Current(s).locked
  THEN /\ noted
       /\ n < MaxVersions
       /\ versions' = [versions EXCEPT ![s] = Append(@, CopyOf(v, n + 1))]
       /\ strategy' = [strategy EXCEPT ![s].current = n + 1]
  ELSE /\ versions' = [versions EXCEPT ![s][n] = v]
       /\ UNCHANGED strategy

(* lockStrategyVersionForReferenceInTx of the current version. *)
LockCurrent(s) == versions' = [versions EXCEPT ![s][strategy[s].current].locked = TRUE]

-----------------------------------------------------------------------------
(* Strategies. *)

CreateStrategy(s, name) ==
  /\ strategy[s] = Null
  /\ strategy' = [strategy EXCEPT ![s] = [archived |-> FALSE, current |-> 1]]
  /\ versions' = [versions EXCEPT ![s] = <<FirstVersion(name)>>]
  /\ UNCHANGED <<setup, trade, form>>

UpdateStrategyContent(s, name, noted) ==
  /\ Open(s)
  /\ Write(s, [Current(s) EXCEPT !.name = name], noted)
  /\ UNCHANGED <<setup, trade, form>>

ArchiveStrategy(s) ==
  /\ Exists(s)
  /\ strategy' = [strategy EXCEPT ![s].archived = TRUE]
  /\ UNCHANGED <<versions, setup, trade, form>>

RestoreStrategy(s) ==
  /\ Exists(s)
  /\ strategy' = [strategy EXCEPT ![s].archived = FALSE]
  /\ UNCHANGED <<versions, setup, trade, form>>

-----------------------------------------------------------------------------
(* Setups. *)

(* The setup can be edited or chosen: it is not archived and the version has a snapshot of it. *)
Usable(u, v) == ~setup[u].archived /\ u \in DOMAIN v.setups

OwnedBy(u, s) == setup[u] # Null /\ setup[u].strategy = s

(* The row of the setup is inserted before the change note is asked for.   *)
(* Without a note the call answers change_note_required from within the    *)
(* transaction, which commits the row without a snapshot.                  *)
CreateSetup(u, s, name, noted) ==
  /\ setup[u] = Null
  /\ Open(s)
  /\ setup' = [setup EXCEPT ![u] = [strategy |-> s, archived |-> FALSE]]
  /\ IF Current(s).locked /\ ~noted
     THEN UNCHANGED <<strategy, versions>>
     ELSE Write(s, [Current(s) EXCEPT
                      !.setups = With(@, u, [name |-> name, conditions |-> NoRows])], noted)
  /\ UNCHANGED <<trade, form>>

UpdateSetupContent(u, s, name, noted) ==
  /\ OwnedBy(u, s) /\ Open(s)
  /\ Usable(u, Current(s))
  /\ Write(s, [Current(s) EXCEPT !.setups[u].name = name], noted)
  /\ UNCHANGED <<setup, trade, form>>

ArchiveSetup(u, s) ==
  /\ OwnedBy(u, s) /\ Open(s)
  /\ setup' = [setup EXCEPT ![u].archived = TRUE]
  /\ UNCHANGED <<strategy, versions, trade, form>>

RestoreSetup(u, s) ==
  /\ OwnedBy(u, s) /\ Open(s)
  /\ setup' = [setup EXCEPT ![u].archived = FALSE]
  /\ UNCHANGED <<strategy, versions, trade, form>>

-----------------------------------------------------------------------------
(* Rules of a strategy, or of one of its setups. *)

Snapshot(s, u) == <<strategy[s].current, u>>

CreateStrategyRule(s, r, u, text, noted) ==
  /\ Open(s)
  /\ u # Null => OwnedBy(u, s) /\ Usable(u, Current(s))
  /\ r \notin DOMAIN Current(s).rules
  /\ LET scope == IF u = Null THEN Null ELSE Snapshot(s, u) IN
     Write(s, [Current(s) EXCEPT !.rules = With(@, r, [scope |-> scope, text |-> text])], noted)
  /\ UNCHANGED <<setup, trade, form>>

UpdateStrategyRule(s, r, text, noted) ==
  /\ Open(s)
  /\ r \in DOMAIN Current(s).rules
  /\ LET scope == Current(s).rules[r].scope IN scope # Null => ~setup[scope[2]].archived
  /\ Write(s, [Current(s) EXCEPT !.rules[r].text = text], noted)
  /\ UNCHANGED <<setup, trade, form>>

RemoveStrategyRule(s, r, noted) ==
  /\ Open(s)
  /\ r \in DOMAIN Current(s).rules
  /\ Write(s, [Current(s) EXCEPT !.rules = Without(@, r)], noted)
  /\ UNCHANGED <<setup, trade, form>>

-----------------------------------------------------------------------------
(* Conditions of a setup. *)

(* The key is generated: no version has it, and no page has rendered it. *)
Fresh(k) ==
  /\ \A s \in StrategyIds : \A n \in DOMAIN versions[s] : \A u \in DOMAIN versions[s][n].setups :
       k \notin DOMAIN versions[s][n].setups[u].conditions
  /\ form # Null => k \notin DOMAIN form.labels

CreateSetupCondition(u, s, k, text, noted) ==
  /\ OwnedBy(u, s) /\ Open(s)
  /\ Usable(u, Current(s))
  /\ Fresh(k)
  /\ Write(s, [Current(s) EXCEPT !.setups[u].conditions = With(@, k, text)], noted)
  /\ UNCHANGED <<setup, trade, form>>

UpdateSetupCondition(u, s, k, text, noted) ==
  /\ OwnedBy(u, s) /\ Open(s)
  /\ Usable(u, Current(s))
  /\ k \in DOMAIN Current(s).setups[u].conditions
  /\ Write(s, [Current(s) EXCEPT !.setups[u].conditions[k] = text], noted)
  /\ UNCHANGED <<setup, trade, form>>

RemoveSetupCondition(u, s, k, noted) ==
  /\ OwnedBy(u, s) /\ Open(s)
  /\ Usable(u, Current(s))
  /\ k \in DOMAIN Current(s).setups[u].conditions
  /\ Write(s, [Current(s) EXCEPT !.setups[u].conditions = Without(@, k)], noted)
  /\ UNCHANGED <<setup, trade, form>>

-----------------------------------------------------------------------------
(* Trades. *)

Unclassified == [strategy |-> Null, version |-> Null, setup |-> Null, snapshot |-> Null,
                 checks |-> NoRows, answers |-> NoRows]

UnderStrategy(row, s) == [row EXCEPT !.strategy = s, !.version = strategy[s].current]

UnderSetup(row, u) == [row EXCEPT !.setup = u, !.snapshot = <<row.version, u>>]

(* The rules of the version, without those of its other setups. *)
ApplicableRules(v, snapshot) == {r \in DOMAIN v.rules : v.rules[r].scope \in {Null, snapshot}}

RuleChecks(v, snapshot) ==
  [r \in ApplicableRules(v, snapshot) |-> [text |-> v.rules[r].text, status |-> "not_checked"]]

(* The label is the table's, the status the client's. *)
ConditionChecks(labels, status) ==
  [k \in DOMAIN labels |-> [label |-> labels[k], status |-> status[k]]]

(* A page for a new trade is loaded, or loaded again, and a setup chosen on it. *)
OpenTradeForm(s, u) ==
  /\ Open(s) /\ OwnedBy(u, s)
  /\ Usable(u, Current(s))
  /\ form' = [strategy |-> s, setup |-> u, token |-> Snapshot(s, u),
              locked |-> Current(s).locked, labels |-> Current(s).setups[u].conditions]
  /\ UNCHANGED <<strategy, versions, setup, trade>>

CreateTrade(t) ==
  /\ trade[t] = Null
  /\ trade' = [trade EXCEPT ![t] = Unclassified]
  /\ UNCHANGED <<strategy, versions, setup, form>>

CreateTradeUnderStrategy(t, s) ==
  /\ trade[t] = Null
  /\ Open(s)
  /\ LockCurrent(s)
  /\ trade' = [trade EXCEPT ![t] = UnderStrategy(Unclassified, s)]
  /\ UNCHANGED <<strategy, setup, form>>

(* Mutant: the token names the setup and not its snapshot. *)
PageShowsSetup(s, u) == form.strategy = s /\ form.token[2] = u

(* conditionSetToken: the page rendered the snapshot that is current. *)
PageIsCurrent(s, u) == form.token = Snapshot(s, u)

CreateTradeUnderSetup(t, s, u) ==
  /\ trade[t] = Null
  /\ form # Null /\ form.strategy = s /\ form.setup = u
  /\ Open(s) /\ OwnedBy(u, s)
  /\ Usable(u, Current(s))
  /\ PageIsCurrent(s, u)
  /\ LockCurrent(s)
  /\ LET v      == Current(s)
         labels == v.setups[u].conditions
         row    == UnderSetup(UnderStrategy(Unclassified, s), u)
     IN  /\ DOMAIN form.labels = DOMAIN labels
         /\ \E status \in [DOMAIN labels -> Answers] :
              trade' = [trade EXCEPT ![t] = [row EXCEPT
                          !.checks = RuleChecks(v, Snapshot(s, u)),
                          !.answers = ConditionChecks(labels, status)]]
  /\ form' = Null
  /\ UNCHANGED <<strategy, setup>>

(* assignTradeClassification of a trade without a strategy.  The version   *)
(* is locked before the setup is looked at, and a refused setup commits    *)
(* the lock.                                                               *)
AssignStrategy(t, s, u) ==
  /\ trade[t] # Null /\ trade[t].strategy = Null
  /\ Open(s)
  /\ LockCurrent(s)
  /\ LET row == UnderStrategy(trade[t], s) IN
     \/ /\ u = Null
        /\ trade' = [trade EXCEPT ![t] = row]
     \/ /\ u # Null /\ OwnedBy(u, s) /\ Usable(u, Current(s))
        /\ trade' = [trade EXCEPT ![t] = UnderSetup(row, u)]
     \/ /\ u # Null /\ ~(OwnedBy(u, s) /\ Usable(u, Current(s)))
        /\ UNCHANGED trade
  /\ UNCHANGED <<strategy, setup, form>>

AssignCurrentSetup(t, u) ==
  /\ trade[t] # Null /\ trade[t].strategy # Null /\ trade[t].setup = Null
  /\ OwnedBy(u, trade[t].strategy)
  /\ Usable(u, Current(trade[t].strategy))
  /\ trade' = [trade EXCEPT ![t] = [@ EXCEPT !.setup = u, !.snapshot = Snapshot(trade[t].strategy, u)]]
  /\ UNCHANGED <<strategy, versions, setup, form>>

(* assignTradeClassification of a trade without a setup.  The snapshot is  *)
(* that of the version the trade has, whatever the current one is.         *)
AssignSetup(t, u) ==
  /\ trade[t] # Null /\ trade[t].strategy # Null /\ trade[t].setup = Null
  /\ OwnedBy(u, trade[t].strategy)
  /\ Usable(u, versions[trade[t].strategy][trade[t].version])
  /\ trade' = [trade EXCEPT ![t] = UnderSetup(@, u)]
  /\ UNCHANGED <<strategy, versions, setup, form>>

UpdateTradeRuleCheck(t, r, status) ==
  /\ trade[t] # Null
  /\ r \in DOMAIN trade[t].checks
  /\ trade' = [trade EXCEPT ![t].checks[r].status = status]
  /\ UNCHANGED <<strategy, versions, setup, form>>

-----------------------------------------------------------------------------
Init ==
  /\ strategy = [s \in StrategyIds |-> Null]
  /\ versions = [s \in StrategyIds |-> << >>]
  /\ setup = [u \in Setups |-> Null]
  /\ trade = [t \in Trades |-> Null]
  /\ form = Null

StrategyCall(s) ==
  \/ ArchiveStrategy(s)
  \/ RestoreStrategy(s)
  \/ \E name \in Names : CreateStrategy(s, name)
  \/ \E name \in Names, noted \in BOOLEAN : UpdateStrategyContent(s, name, noted)

SetupCall(s, u) ==
  \/ ArchiveSetup(u, s)
  \/ RestoreSetup(u, s)
  \/ \E name \in Names, noted \in BOOLEAN :
       \/ CreateSetup(u, s, name, noted)
       \/ UpdateSetupContent(u, s, name, noted)

RuleCall(s, r) ==
  \E noted \in BOOLEAN :
    \/ RemoveStrategyRule(s, r, noted)
    \/ \E text \in Texts : UpdateStrategyRule(s, r, text, noted)
    \/ \E text \in Texts, u \in Setups \cup {Null} : CreateStrategyRule(s, r, u, text, noted)

ConditionCall(s, u, k) ==
  \E noted \in BOOLEAN :
    \/ RemoveSetupCondition(u, s, k, noted)
    \/ \E text \in Texts :
         \/ CreateSetupCondition(u, s, k, text, noted)
         \/ UpdateSetupCondition(u, s, k, text, noted)

TradeCall(t) ==
  \/ CreateTrade(t)
  \/ \E u \in Setups : AssignSetup(t, u)
  \/ \E s \in StrategyIds : CreateTradeUnderStrategy(t, s)
  \/ \E s \in StrategyIds, u \in Setups : CreateTradeUnderSetup(t, s, u)
  \/ \E s \in StrategyIds, u \in Setups \cup {Null} : AssignStrategy(t, s, u)
  \/ \E r \in Rules, status \in CheckStatuses : UpdateTradeRuleCheck(t, r, status)

Next ==
  \/ \E s \in StrategyIds : StrategyCall(s)
  \/ \E s \in StrategyIds, u \in Setups : SetupCall(s, u) \/ OpenTradeForm(s, u)
  \/ \E s \in StrategyIds, r \in Rules : RuleCall(s, r)
  \/ \E s \in StrategyIds, u \in Setups, k \in Conditions : ConditionCall(s, u, k)
  \/ \E t \in Trades : TradeCall(t)

Spec == Init /\ [][Next]_vars

-----------------------------------------------------------------------------
(* Properties. *)

Partial(S, T) == UNION {[D -> T] : D \in SUBSET S}

SnapshotIds == (1..MaxVersions) \X Setups

Version ==
  [locked : BOOLEAN,
   name   : Names,
   setups : Partial(Setups, [name : Names, conditions : Partial(Conditions, Texts)]),
   rules  : Partial(Rules, [scope : SnapshotIds \cup {Null}, text : Texts])]

Trade ==
  [strategy : StrategyIds \cup {Null},
   version  : 1..MaxVersions \cup {Null},
   setup    : Setups \cup {Null},
   snapshot : SnapshotIds \cup {Null},
   checks   : Partial(Rules, [text : Texts, status : CheckStatuses]),
   answers  : Partial(Conditions, [label : Texts, status : Answers])]

ASSUME NullRowAssumption ==
  Null \notin Trade /\ Null \notin [archived : BOOLEAN, current : 1..MaxVersions]

(* The rows have the shape of their tables, and the current version of a   *)
(* strategy is the last of its versions.                                   *)
TypeOK ==
  /\ strategy \in [StrategyIds -> [archived : BOOLEAN, current : 1..MaxVersions] \cup {Null}]
  /\ versions \in [StrategyIds -> Seq(Version)]
  /\ \A s \in StrategyIds : Len(versions[s]) = IF Exists(s) THEN strategy[s].current ELSE 0
  /\ setup \in [Setups -> [strategy : StrategyIds, archived : BOOLEAN] \cup {Null}]
  /\ trade \in [Trades -> Trade \cup {Null}]

(* A rule of a setup belongs to the snapshot of that setup in the rule's   *)
(* own version, in every copy.                                             *)
RulesStayInVersion ==
  \A s \in StrategyIds : \A n \in DOMAIN versions[s] : \A r \in DOMAIN versions[s][n].rules :
    LET scope == versions[s][n].rules[r].scope IN
    scope # Null => scope[1] = n /\ scope[2] \in DOMAIN versions[s][n].setups

(* What a trade recorded of its strategy is what its version says now: the *)
(* version is locked, the setup is one of that version, every rule that    *)
(* applied is checked in the version's words and no other is, and every    *)
(* condition is answered in the version's words.  A trade classified later *)
(* has neither checks nor answers.                                         *)
RecordsMatchVersion ==
  \A t \in Trades :
    trade[t] # Null /\ trade[t].strategy # Null =>
      LET row == trade[t]
          v   == versions[row.strategy][row.version]
      IN  /\ row.version \in DOMAIN versions[row.strategy] /\ v.locked
          /\ row.setup # Null =>
               /\ row.setup \in DOMAIN v.setups
               /\ row.snapshot = <<row.version, row.setup>>
          /\ DOMAIN row.checks \in {{}, ApplicableRules(v, row.snapshot)}
          /\ \A r \in DOMAIN row.checks : row.checks[r].text = v.rules[r].text
          /\ \A k \in DOMAIN row.answers :
               row.answers[k].label = v.setups[row.setup].conditions[k]

(* The published versions of a strategy are its locked ones. *)
Published(s) ==
  IF versions[s] = << >> \/ versions[s][Len(versions[s])].locked THEN versions[s]
  ELSE SubSeq(versions[s], 1, Len(versions[s]) - 1)

Pinned(t) ==
  IF trade[t] = Null \/ trade[t].strategy = Null THEN Null
  ELSE <<trade[t].strategy, trade[t].version>>

History == INSTANCE StrategyHistory WITH
  Strategies <- StrategyIds,
  published  <- [s \in StrategyIds |-> Published(s)],
  pinned     <- [t \in Trades |-> Pinned(t)]

(* Edits, copies, archiving and classifications, in any order, keep what   *)
(* StrategyHistory promises: a locked version never changes, and a trade   *)
(* keeps the version that was current when it was classified.              *)
ImplementsStrategyHistory == History!Spec

(* strategy-management.ts:679: a create of a setup is safely replayable,   *)
(* and reports where its snapshot landed; the page of the strategy needs   *)
(* that snapshot of each of its setups.                                    *)
EverySetupHasSnapshot ==
  \A u \in Setups : setup[u] # Null => u \in DOMAIN Current(setup[u].strategy).setups

(* trade-management.ts:406: the token of a page stands for the condition   *)
(* set it rendered.  A page that rendered a locked version records every   *)
(* answer under the label it showed, whatever was edited, copied or        *)
(* archived since.  (A draft is edited in place and keeps its token.)      *)
AnswersFitThePage ==
  [][\A t \in Trades :
       trade[t] = Null /\ trade'[t] # Null /\ form # Null /\ form.locked =>
         \A k \in DOMAIN trade'[t].answers :
           k \in DOMAIN form.labels /\ trade'[t].answers[k].label = form.labels[k]]_vars
=============================================================================
