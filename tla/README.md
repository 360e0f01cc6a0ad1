# A verification project for trading-journal-saas

TLA+ models of the parts of this repository where several requests, servers or
clocks meet, or where a long history of edits has to leave a record consistent: the
entitlement of a workspace, checkout, the platform around it (users, Admins, VAT), the
trading accounts, the strategies with their versions, the trades with their exits, and the
pages that read them.
TLC checks each model on small instances; TLAPS proves the theorems listed below
for every value of the constants.

## The system and its inventory

The program is a Next.js application over PostgreSQL. Server actions
(`src/src/server/actions`) validate input, resolve the session's user and
workspace (`server/auth`), and call a service (`server/services`). A service call
is one database transaction, at READ COMMITTED, that first locks the `workspaces`
row `FOR UPDATE`, then the `workspace_entitlements` row where it needs it, decides,
writes and commits. Nothing runs in the background: trials and billing periods
end because readers resolve a row against the clock. Three things do not fit
this pattern, and the models are built around them: checkout calls a payment
provider *between* two transactions; the stored choice of trading account is
repaired on read without any lock; and each server process keeps payments in memory.

| Component | State | Operations | What is hard | What makes it correct |
|---|---|---|---|---|
| Entitlement resolution | `workspace_entitlements` row | resolve, authorize | shapes of rows, boundaries in time | never a row the resolver rejects |
| Subscription lifecycle | the same row | activate, upgrade, schedule, cancel, past due, recover, expire, materialize | any order of calls, moved period ends, lazy against written changes | provenance and paid time are never lost |
| Admin support | the same row | extend trial, grant, revoke | independent of the customer's calls | a paid row stays paid |
| Checkout | `billing_transactions` | start, reconcile | provider call between transactions, retries, crashes, late answers | one open checkout, settled once, paid and granted together |
| Payment provider | payments in memory, one period per process | create or retrieve, retrieve | lost on restart, period fixed at start | settles every open checkout in time |
| VAT configuration, prices | `platform_vat_configuration` | change, snapshot | clocks of several servers | one effective row, exact totals |
| Trading accounts, onboarding | `trading_accounts`, `user_preferences`, `workspaces` | onboard, create, update, activate, archive, restore | races for the last slot and the last account | account limit, a usable account, frozen currency |
| Workspace context | `user_preferences` | repair on read | no lock | repairs end in a usable choice |
| Provisioning | `workspaces`, `workspace_members` | ensure personal workspace | two first sign-ins | one personal workspace |
| Trade recording | `trades`, rule and condition checks, emotions | create, edit plan, open, close, cancel, correct, resolve, delete | retries of status changes, corrections after closing | a status only moves forward, snapshots match |
| Partial exits, completed trades | `trade_exits` | add, close remaining, correct | error after a write commits it | exits add up, aggregate agrees |
| Strategies and versions | `strategies`, `strategy_versions`, `setups` | edit, copy on write, lock for a trade | edit racing a trade | a pinned version never changes |
| Chart attachments | object storage | upload, replace, delete | outside the transaction | no chart in use is deleted |
| Admin authority | `platform_admins` | grant, revoke, recheck | revoked between check and use | no write without a grant in force |
| Account security | `rate_limits`, sessions | change password, revoke sessions | concurrent attempts | at most the allowed attempts |
| Calculations | none | risk, outcome, totals, drawdown, balance, attribution | rounding, boundaries, the order of ties | equal to their definitions |
| Analytics and dashboards | none | the statements of a page, the figures computed from them | statements of one page without a common snapshot, several axes of time | cards, squares and lists account for the same trades |
| Admin views, exports, UI, tooling | none of their own | queries and pages | | not modelled |

`PROJECT.json` lists every component with its sources, and every hazard of this
kind at its line.

## Modules

| Module | Models |
|---|---|
| `Entitlements` | The row, its CHECK constraints, `resolveEffectiveEntitlement`, `authorizeWorkspaceMutation`. Operators only. |
| `SubscriptionLifecycle` | `now` and `ent`: one action per exported transition, and the Admin mutations. |
| `Checkout` | Extends the lifecycle with `tx` (transactions by idempotency key), `provider` (one in-memory instance per server), `outcome` (configuration) and `req` (requests in flight). |
| `PaidAccess` | The abstract purchase that `Checkout` implements. |
| `Platform` | Extends the lifecycle with users and their personal workspaces, Admin grants, Admin calls in flight, the VAT configurations, and the bill of a checkout. |
| `TradingAccounts` | Extends the lifecycle with `acct`, `pref`, `onboarded`, the workspace `lock`, what each call has decided to write, and page loads. |
| `AccountBook` | The abstract accounts, one step per call, that `TradingAccounts` implements. |
| `Strategies` | `strategy`, `versions` (with the setups, conditions and rules they own), `setup`, what each `trade` recorded of them, and the `form` a page has rendered. |
| `StrategyHistory` | The abstract history of published versions and pinned trades that `Strategies` implements. |
| `Trades` | `row` (the `trades` rows) and `exits` (their `trade_exits`, by sequence), with the calculations that fill the cached columns: one action per service call. |
| `TradeLedger` | What readers of trades rely on: the abstract ledger that `Trades` implements. |
| `Analytics` | The pages that read the trades: `ledger` (moving by `TradeLedger`), the open `page`, what its filters admit (`scope`) and, resolved a second time for the rows of a day, what they admit then (`again`), what its statements have `read`, and the `writes` that committed between them. |
| `Figures` | What a page computes from the rows it has read: totals, running totals, drawdown, squares of the calendar, the modeled balance. |
| `MCCheckout`, `MCPlatform`, `MCTradingAccounts`, `MCStrategies`, `MCTrades`, `MCAnalytics` | Values of constants, bounds and symmetry sets for TLC. |
| `SubscriptionLifecycleProofs` | Lemmas about the lifecycle's transitions, which the proofs of the modules that extend it use. |
| `CheckoutProofs` | Theorems about checkout, with the refinement of `PaidAccess`. |
| `PlatformProofs` | Theorems about the platform and about the lifecycle itself. |
| `TradingAccountsProofs` | Theorems about the accounts, with the refinement of `AccountBook`. |
| `StrategiesProofs` | Theorems about the strategies, with the refinement of `StrategyHistory`. |
| `TradesProofs` | Theorems about the trades, with the refinement of `TradeLedger`. |
| `AnalyticsProofs` | Theorems about the pages and their figures. |
| `Sums` | Lemmas about sums over finite sets and about folds in an order, which the proofs of `Trades` and of the figures rest on. |

How steps correspond to code. A transaction that takes the workspace lock at its
start and does nothing in between is one action. A refused call changes
nothing, so it is a disabled action, except in `Checkout`, where being refused
ends a request that holds state, and where the code commits a refusal (below). A
checkout request has three stages, because locks are waited for and the provider is
called in between: *preparing* (clock read, lock not yet held), *calling* (row
committed, provider not yet answered), *finalizing* (answer and clock read, lock not
yet held). In `TradingAccounts` a call is two steps, the locked read and the commit,
so that dropping the lock is a change the properties notice; a page load is four.

In `Platform` nothing is behind the workspace lock but the row, so a call has a step for
each point where it can wait. An Admin's call is *checked* (a grant found outside any
transaction), *granted* (found again, and its row locked), and, for a VAT change, *decided* (mutex
held, clock read, configuration read). Making an Admin is a search and an insert, which the
unique index may refuse. A provisioning call inserts or finds the workspace and then adds
the membership and the preference; a call may die between any two of these, which rolls it back.

In `Strategies` a call is one step under the workspace lock. Two calls return a refusal
*after* a write, and the transaction commits: `createSetup` leaves a setup without a
snapshot, `assignTradeClassification` a version locked for nothing. Both are
modelled as the code does them. A row made by a form is named by the form's mutation
key, so that a repeated create changes nothing. The page of a new trade is the variable
`form`: it shows a version, and its submission comes after whatever was edited since.

In `Analytics` a page is several SQL statements, each a step that reads the ledger as it is. Most are sent
together (`Promise.all`) and answered in any order; the rows of a day wait for its month. Calls on trades
commit in between, and `writes` counts them. A call that commits before the first statement or after the last
is no different from one while no page is open, and is modelled there. What the filters of the URL admit
depends on settings, the active account and the stored time zone, and on the clock
(`resolveAnalyticsQueryContext`). Dashboard, insights and balance resolve them once, before their statements
(`OpenPage` sets `scope`). The page of a day resolves them for its month and again for its rows
(`server/dal/analytics.ts:1702`, `:1853`), with whatever the settings and the clock are by then
(`Read("rows")` sets `again`); the days and months of its squares are those of the dashboard that holds it. A
page is *untorn* if no call committed between its statements and, for a day, `again` is `scope`. Trades never
change accounts, and no call on a trade changes a setting, so that to resolve the filters and to send the
statement is one step.

Abstractions. Times are ticks, a month is `Month` ticks. An idempotency key stands
for the transaction it names, and with it for the provider's ids, which are
functions of that id. Provider references, audit rows and wording are
left out. The five mock outcomes are all modelled. A plan is its account limit.
Money appears in `Platform` alone, where the VAT of a price is integer arithmetic with
the scale and the largest amount as constants.
Account ids are numbers in the order of `(createdAt, id)`, handed out in any order,
because `created_at` is the time a transaction began and not the time it got the lock.
VAT configurations are ordered by the clock reading each change made under the
mutex; two in one millisecond are ordered by the time their transactions began, and the
model leaves that order open.

In `Trades` every call holds the workspace lock and the trade row from start to end,
so a call is one step, and what is hard is the order of calls. A ratio R is
represented by the values it was computed from, so that a result left stale by an
edit differs from the current one; exact rounding is not modelled. A plan edit is
represented by the plan that results from laying the form over the stored plan. The
CHECKs and triggers of the tables are not guards of the actions but a property,
`StorageAccepts`: the services never rely on them. The one that they do rely on, when a
direction is changed under an execution, is a guard and is named there. An exit that
is refused after it was inserted is a step that keeps it, because the
code returns instead of throwing; `StorageAccepts` and `ActualIsCurrent` show that it
never comes to that. A price is text where a text is compared, and the two forms of
it are told apart by `padded`. The position size of an execution, costs, reasons and
times of the system result, emotions, charts and audit rows are left out.

In `Analytics` all trades are of one strategy and setup: filters by those compare an id that is the same at
both readings. A filter has dates and an account (all, the active one, one by its name). Dates are all, a
custom range, some days back from today, or the period so far, of so many days, which stands for week, month,
quarter and year. A page whose filters are refused, or that finds no active account, shows an error and no
trades, and is left out. A row holds a whole entry of the ledger, and the figures look only at the columns
that its statement selects. An R is an integer, because the code adds and compares decimals exactly and rounds
for display only. A day is `DayLength` ticks and a month `DaysPerMonth` days; a time zone is how much later
its days begin than those of the page, without daylight saving.

## Runs

Every run ends within two and a half minutes on two cores, most of them within one.

| Run | Question | Bounds |
|---|---|---|
| `platform` | Does any order of transitions write a row the resolver rejects, take a running plan from a subscriber, or resolve otherwise than it materializes? Does an Admin ever write without a grant in force, do racing VAT changes form one sequence, does a user get one workspace, is the bill exact? | 3 plans, 2 currencies, a trial of 2 ticks, a month of 3, clock to 6; 2 users, 2 Admin calls, 2 provisioning calls, 3 grants, 3 configurations; 4 prices |
| `checkout` | Can two requests, retries, crashes, a restart, Admin and customer open two checkouts, grant access nobody paid for, or lose paid access, and does it all implement the abstract purchase? | 3 plans, 2 keys, 2 concurrent requests, 1 server, clock to 3, payments that succeed at once |
| `settle` | Do late, repeated and lost answers move a settled payment? Does every request end, and every open checkout settle? | 1 key, 2 requests, 1 server, clock to 2; payments that end now or later in success, failure or cancellation; liveness under `LiveSpec` |
| `accounts` | Can overlapping calls exceed the limit, create two first accounts, or leave none, and do they have the effect of calls made one at a time? Is a stored choice left on an archived account repaired? | 2 accounts, 1 key, 2 calls, 1 page, 2 base currencies, limits 1 and 2; liveness |
| `strategies` | Does any order of edits, copies, archiving and classifications change a locked version, move a rule to another setup, or contradict what a trade recorded or a page showed? | 1 strategy of 2 versions, 2 setups, 1 rule, 1 condition, 2 texts, 2 trades |
| `exits` | Does any order of exits, corrections, status changes and deletions leave rows the tables refuse, a result that the exits do not give, or an exit stored twice, and does a trade move as its readers assume? | 1 trade beside another, a position of 2 parts, 3 prices, 2 results, 2 times, 2 keys |
| `plans` | Does any order of plan edits, direction changes and system resolutions leave a stale result? | 1 trade, 5 plan prices, 3 risks (one invalid), 2 rewards, 2 costs |
| `analytics` | Do the cards, squares and lists of a page account for the same trades and add up, and when may a call that commits between its statements, or filters that admit something else by then, keep them from it? | 3 trades in 2 accounts, 4 results (one not known in money, two at one moment), 2 system results, 5 filters, 2 time zones, clock before and past midnight, 3 days in 2 months, 1 call between the statements of a page |
| `retried` | Does closing, sent again unchanged, succeed as its comment says? It does not. | as `exits` |
| `retyped` | Does resolving the system result, sent again unchanged, succeed as its comment says? It does not. | as `plans` |
| `repaired` | Does a repair always persist a usable account, as its comment says? It does not. | as `accounts`, 1 base currency |
| `orphaned` | Has every setup the snapshot that the replay of its creation assumes? It has not. | as `strategies`, 1 trade |

Why the bounds are enough. Each race needs two actors and an observer of one row; a third request or key adds
no new pair of steps. Three plans give a plan in the middle that can be upgraded and downgraded. The clock
runs past the end of a trial, of a period bought at its start, and of one bought after an upgrade. Two
accounts exceed the smaller limit by one, which is where a downgraded workspace is over its limit. Two
versions are a locked one and its copy, and two setups a rule that may go to the wrong one. A position of two
parts has a partial exit and a rest; two exits can be stated in the wrong order of time and corrected into it.
Five prices hold stop, entry and target in both directions, with a price for the system beyond the target. Two
trades are enough for an exit sent to the wrong one; in `exits` the second is opened first and then left as it
is (`MCBystander`), so that it can be the trade a key already belongs to or is sent to by mistake, and only a
long trade gets a system result there (`MCSystemOfLong`). In `analytics` gains and losses, and the exits of
trader and system, lie on both sides of the start of the range, which is where the axes and the opening
balance differ; one call between two statements is enough to tear a page, and two trades to swap the order of
two axes. With the other account, the other time zone and the clock past midnight the list of a day may lose
all of its square, a part of it, or show what the square does not. The prices of `platform` have a VAT that
rounds down, one that rounds up, one exactly at the half, and a total above the largest amount.

Three more runs are bounded by a constraint. In `MCPlatform` the parts take turns, because they meet in few
places: the row's whole life without Admins; the Admins' support of it, at one moment and with one grant; the
VAT changes with two grants; and the first visits of the users. In `MCStrategies`, once both trades are
recorded, nothing is archived and no rule is ticked. In `MCAnalytics` the second trade is closed at once and
then deleted at most; the third, which is of the second account, is closed at most and matters to days only,
as do the moving presets; the account active at first is the main one; and a day is torn either by a call or
by its filters. `settle` has one server, because with two `OpenCheckoutSettles` is false: reconciliations may
all reach the server whose provider never had the payment. That no answer of any number of servers moves a
settled payment is proved (`TerminalTransactionsAreFinal`).

Fairness. `LiveSpec` of `Checkout` assumes that a request waiting for a row lock or
the provider gets its turn (every transaction locks the workspace first, so
there is no cycle to wait in), that crashes and restarts stop some day, and
that the customer sends an open checkout again under its own key or reconciles it whenever that
is possible (strong fairness, because other requests may hold the slot). Nothing
in the service settles a checkout by itself, so without the customer's help the
property would be false, and the key the tab keeps is that help. Even so it
settles only while the period of the running provider instance lasts:
`ProviderPeriodOver` names that exception. `LiveSpec` of `TradingAccounts` assumes
that transactions end, pages keep being loaded, and accounts stop being archived.

## Findings

`repaired`: the comment above `getActiveTradingAccount` (`server/auth/dal.ts:318`)
says that a stale reference is repaired by persisting a non-archived account. The
repair selects the account and stores it in two statements with no lock between
them and the archive of that account. The stored account can be archived; the
run `accounts` shows that the next page loads put it right.

`retried`: the comment on `closeTrade` (`server/services/trade-management.ts:1603`)
promises success to an exact retry. `matchesCloseRetry` compares the call with the
*sum* of the results of all exits, and with the price and time of the last by time.
After a partial exit the call that closed the trade therefore does not match itself.
The trade is closed and correct; only the answer to the retry is an error.

`retyped`: the comment on `resolveSystemTradeInTx` (`trade-management.ts:2162`)
promises the same. `matchesSystemResolveRetry` compares the price as text with the text
of a `numeric(20, 10)` column, which has ten decimals, and the form's schema does not
add them. The tests state such prices with ten decimals. `closeTrade` compares its price the same way;
`retried` is checked for padded prices, so that the two findings are independent.

`orphaned`: `createSetup` (`server/services/strategy-management.ts:794`) inserts the
`setups` row and then returns `change_note_required` from inside the transaction callback, which
commits. The setup has no snapshot in the current version. The form keeps its mutation key and shows the
refusal; sent again with a note it takes the replay branch, which answers
`setup_snapshot_missing` for good, while the comment at line 679 calls that branch safely replayable.
The page of the strategy fails with the same code (`server/dal/strategies.ts:310`).

Observed while modelling, and not a disagreement that a run can show:

- A draft version is edited in place and keeps its identity, so the token by which a page
  recognises the condition set it rendered (`trade-management.ts:406`) also accepts answers given to an
  older wording of a draft. `AnswersFitThePage` is therefore about locked versions.
- `assignTradeClassification` locks the version before it checks the setup; a refused setup
  leaves the version locked, and the next edit of the strategy makes a copy.
- The insert of a workspace names the owner's index as its ON CONFLICT arbiter, so a collision
  of slugs in a tight race raises an error; the call then fails and is repeated (`ProvisioningFails`).
- The total of a checkout is computed again from the price in force, not compared with the one
  the customer saw.
- A trade that closes between two statements of the insights can make `validateInput`
  (`lib/dashboard/insight-pillars.ts:375`) answer `orphan_dimension_record` though the data is right.
  `InsightsAgree` shows that nothing else can.
- The review of a day takes its headline from the statement of the month and its list from a second one
  (`server/services/dashboard-calendar.ts:96`, `:203`), each of which resolves the filters for itself. A call
  that commits between them tears the page; and so does, with no trade written, a switch of the active account
  or time zone in another tab, or midnight under a preset that moves: the list may be empty under a filled
  square. The comments that the panel cannot disagree with its square and that both come from one bounded read
  (`lib/dashboard/day-review.ts:95`, `:189`) therefore hold of an untorn page, which is what `ReviewAddsUp`
  says. `DayAgrees` says what holds of a page torn by its filters alone: square and list agree on every trade
  that both readings of the filters admit.
- "Awaiting a System result" (`messages/en.json:656`) also counts trades whose system result is *no trade*.

## Proofs

The theorems hold for every value of the constants that satisfies the named assumptions of the modules: plans
have limits that are natural numbers, lengths of time are natural numbers, `Null` is none of the values a
column can hold, and the accounts, and the trades whose figures are computed, are a finite set of numbers (ids
in their order). Each states a property that a run checks on a small instance, except the five marked *proved
only*, which an abstract specification checked by a run implies in part.

| Theorem | Property |
|---|---|
| `CheckoutTypeCorrect` | `TypeOK` of `Checkout` |
| `CheckoutsExclude` | `OneOpenCheckout` |
| `TerminalTransactionsAreFinal` | `TerminalIsFinal` |
| `PaidAccessWasBought` | `PaidAccessIsBought` |
| `PaymentsAreAtomic` | `PaymentIsAtomic` |
| `SchedulesFreeze` | `ScheduleFrozenDuringCheckout` |
| `PaidAccessPersists` | `PaidAccessLasts` |
| `PaymentsAloneRevive` | `LapsedRegainsByPayment` |
| `CheckoutImplementsPaidAccess` | `ImplementsPaidAccess` |
| `PlatformProofs!TypeCorrect` | `TypeOK` of `Platform` |
| `RowsResolve` | `NeverMalformed` |
| `DowngradesWait` | `DowngradeAtPeriodEnd` |
| `MaterializingIsSilent` | `MaterializingChangesNothing` |
| `RunningPlansGrow` | `RunningPlanNeverShrinks` |
| `AuthorityHolds` | `AuthorityInForce` |
| `VatHasOneOrder` | `VatChangesFollow` |
| `OneWorkspaceEach` | `OnePersonalWorkspace` |
| `BillsAreExact` | `BillIsExact` |
| `AccountsTypeCorrect` | `TypeOK` of `TradingAccounts` |
| `UsableAccountAlwaysRemains` | `UsableAccountRemains` |
| `FirstAccountIsUnique` | `OneFirstAccount` |
| `GrowthStaysWithinLimit` | `GrowthWithinLimit` |
| `AccountsImplementBook` | `ImplementsAccountBook` |
| `CurrencyIsFrozen` | `CurrencyFrozenByTrades`, *proved only* |
| `ArchivedAccountsAreFrozen` | `ArchivedAccountIsFrozen`, *proved only* |
| `StrategiesProofs!TypeCorrect` | `TypeOK` of `Strategies` |
| `RulesAreRescoped` | `RulesStayInVersion` |
| `RecordsStayTrue` | `RecordsMatchVersion` |
| `AnswersAreThoseShown` | `AnswersFitThePage` |
| `StrategiesImplementHistory` | `ImplementsStrategyHistory` |
| `ClosedResultIsCurrent` | `ActualIsCurrent` |
| `PlanResultsStayCurrent` | `PlanResultsAreCurrent` |
| `ExitKeysComeOnce` | `ExitsComeOnce` |
| `StatusesMoveForward` | `StatusMovesForward`, *proved only* |
| `DeletedTradesAreFrozen` | `DeletedIsFrozen`, *proved only* |
| `ExitsStay` | `ExitsAreKept`, *proved only* |
| `ColumnsAreTyped` | `TypeOK` of `Trades` |
| `TablesAcceptEveryCall` | `StorageAccepts` |
| `TradesImplementLedger` | `ImplementsTradeLedger` |
| `PagesTellOneLedger` | `PagesAgree` |
| `FiguresAlwaysAddUp` | `FiguresAddUp` |

*Lifecycle.* One lemma per group of transitions shows that the row it writes
passes its CHECK constraints. That is too little for `NeverMalformed`: the resolver rejects
rows that the CHECKs admit. `Sound` says what the transitions keep besides: which columns a
trial, a paid row and a complimentary one carry, that a scheduled change waits for the end
of the current period, that no time lies in the future. `Sound` is inductive, and the three properties
of the row follow from it without a further induction.

*Platform.* The invariant is `Sound` and one conjunct per variable (`TypeInv`), with
`HomesInv` for the users and `VatOrder` for the configurations. `AuthorityInForce` is an action property
that needs the lock as a state: a call that is granted or decided holds a grant that nobody else
holds and that is not revoked, since a revoke waits for the lock. `OnePersonalWorkspace` needs that an uncommitted
insert excludes both another one and a committed workspace of the same owner.
`VatOrder` says that a decided change has seen the last configuration, which the mutex keeps true until
it commits. `BillIsExact` is integer arithmetic: a quotient with remainder determines the rounding.

*Checkout.* `TypeOK` is not inductive: a request that resumes after the provider
call uses what it read before. `RequestsOK` adds what each stage of a request in
flight relies on: its key, its server with a running provider instance, the plan and
currency it is preparing, the time its answer came. `PeriodIsPaid` (a row with a
period has source `paid`) is what a retry needs: a success that finds its very
period active already writes nothing, and the row it finds, like the row an upgrade
finds, must be a paid one. The
Admin mutations keep it, because a grant refuses a row with paid provenance and a
revoke restores a trial. What lasts over time needs more, `AccessInv`: the row is sound in the
sense of the lifecycle proofs (below), a paid row is active (no transition checkout
reaches marks one past due), and the clock reading that came with an answer is not ahead
of the clock. Then a reader grants a paid row exactly until its period ends
(`PaidRowGranted`), and a payment for a running subscription writes a larger plan with no
earlier end (`PaymentWrites`), however late it is applied. In the refinement, `PrepareNew` is `Place`, `FinalizePaid` is
`Pay`, `FinalizeUnpaid` is `Abandon` or a stutter, and every other step stutters.

*Accounts.* The argument is the workspace lock. `WritesDecided` says that a call that
has decided holds the lock and that what it decided is still right: its guards hold
of the *current* accounts and entitlement, because nobody else changes them
while the lock is held. The other conjuncts of `AccountsInv` follow from it at
each commit: `OneFirstAccount` because only a workspace without accounts is
onboarded, `UsableAccountRemains` because an archive found another usable
account, the limit because a slot was free. The page loads write without
the lock, but only the preference, and no account property depends on it. The
refinement maps each commit to the `AccountBook` step of the same name.

*Strategies.* A locked version is never written: every edit goes through `Write`, which
either changes a draft in place or appends a copy. So the invariant has a part per table.
`HistoriesOK` says that all versions before the last are locked and that the rules of each refer to
setups of their own version; `SetupsOK` ties a setup to its strategy; `RecordsOK` says what a
trade recorded of its version; `FormOK` says what a page still knows of the version it rendered. The
refinement follows because an edit of a draft is a stutter of `StrategyHistory` and a lock a `Publish`.

*Trades.* `TradeStep` collects what any call may do to its trade, and a lemma per call shows that it is such a
step; every theorem follows from `TradeStep`. For the refinement it also says that only a closed trade has a
result and only a resolved system a verdict (`Shaped`). `ActualIsCurrent` is not inductive: a correction whose
exits do not compose would write the exits and leave the cached result, so `ClosedInv` carries along that the
exits of a closed trade compose with its execution, in whatever direction it has been given since.
`StorageAccepts` is inductive only together with `TypeOK`, with the invariant of the closed trades, and with
`Settled`: a resolved system has a kind, a cost and, if it is a price exit, the price, from which an edit of
the plan recomputes its result. `StoresInv` has these as `Stored`, a predicate of one trade; a lemma per call
shows it of the trade the call writes, given what `TradeStep` says of it. `ExitsAccepted` bounds the sum of
the exits, a fold that takes its elements in an order nowhere said. `Sums` shows what such a fold is without
an order: the number of units in the positive elements less those owed by the negative ones. Where that needs
an induction over the subsets of a finite set, a smallest counterexample is taken in the well-founded order of
strict inclusion, so no theorem with an operator for a parameter is instantiated. That a sum splits and grows
by the element that is added gives the bounds when an exit is added, corrected or completed.

*Analytics.* `PagesAgree` speaks of complete pages, so the invariant says what each answer is worth from the
moment it is read: as long as nothing was committed since the first statement, it is the answer that the
current ledger gives; whatever was committed, a row is a trade that the tables can hold and that its statement
selects by the mode of the page and the range its filters admitted when it was sent (`RowsOK`: `scope`, or
`again` for the rows of a day). The first needs that a call commits between statements only by raising
`writes`. Square and list of a day then are the trades of one ledger admitted by `scope` and by `again`, each
taken on the same day, and those admitted by both are the same seen from either. `ScopeOK` says what `scope`
was resolved from; a balance needs it, because its range must not reach back before the first day.

*Figures.* `FiguresAddUp` needs no further invariant: by `RowsOK` the rows have the numbers and times that a
page computes with. What is hard is that the figures are folds, in an order of which the model says only which
trade precedes which. `ChronologicalSorts` shows that finitely many trades have such an order (take the last
one away and put it back), and `FoldExists`, by a smallest counterexample again, that a fold whose steps stay
in a set has a solution, so that every fold is a walk: a value before the first element and one after each.
Then a running total is the total of the trades up to its place, and a series ends at the total of its card in
whichever order (`SeriesEnds`); by day it does because the sum of the sums of classes is the sum
(`SumOfClasses`). `PeakIsHighest` and `WorstIsDeepest` say of any walk that the peak it carries is its highest
value so far and its worst fall the deepest between two of its places, the one claim that `DrawdownIsDeepest`
and the modeled balance share. For the balance, `ModeledWalks` joins the fold before the range and the fold in
it into one walk over the horizon, whose places are its moments, so that the drawdown of the range also counts
the peaks before it.

Model-checked only: liveness (`RequestsEnd`, `OpenCheckoutSettles`, `PreferenceHeals`),
which with the ENABLED conditions behind fairness is out of the prover's reach.

## Not modelled, and the plan

- Of the read side: the strategy and psychology pillars, which group the same populations by one more column; filters by
  strategy, setup and version, and daylight saving; presentation; exports and the Admin views, which read and keep no state.
- Charts: objects in storage, outside every transaction. The mounted form sends none, and the forms
  that do are not mounted by any page.
- Account security: one counter in one row under its lock, in front of Better Auth, which keeps the state.
- The exact rounding of R and the attribution of costs: decimal arithmetic, which would be
  checked against itself. Win rate, expectancy and profit factor are quotients of the totals in `Figures`.
- Preferences, profile and the audit log: rows that no other row depends on.
- The UI, routing, migrations and tooling.

Next: the rate limit; charts, once a mounted form sends them.
