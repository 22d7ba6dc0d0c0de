# A verification project for MealQuest

MealQuest is a marketing and payment platform for restaurants: a TypeScript
server (`src/MealQuestServer`), a React Native app for the merchant
(`src/MealQuestMerchant`) and a Taro mini program for the customer
(`src/meal-quest-customer`).  The server keeps the state that matters most: the
customers' wallets and vouchers, payments, the ledger, marketing policies and
their budgets.  It runs on one Node.js event loop, so code between two `await`s
is atomic, and everything hard about it comes from what other requests do
during an `await`, from retries and late callbacks, and from caches of the
database.  The two apps keep a session and a few views of the server's state,
and what is hard about them is that answers come late, fail, or come twice.

This directory holds TLA+ models of the server and of the apps' state machines,
the TLC configurations that check them and the theorems TLAPS proves about them.
`PROJECT.json` lists the components, runs, mutants, hazards, findings and
theorems, and maps every definition to the lines it models.  A definition ending
in `Mutant` (or, in the older modules, one introduced as a mutant) is a broken
variant of the one after it, which shows that a property can fail; no
specification uses one.

## 1. Inventory

| component | state | operations | what is hard | what makes it correct |
|---|---|---|---|---|
| Checkout arithmetic (`core/smartCheckout.ts`, `core/clawback.ts`) | none | split an order over voucher, bonus, principal, silver and an external payment; give a refund back | rounding, the order of the deductions | the parts add up to the order, no balance is overdrawn, the reclaimed bonus is the refund's share |
| Payment service (`services/paymentService.ts`) | wallets, vouchers, payments, ledger, idempotency records, key locks | quote, verify, gateway callback, refund | callbacks do not take the tenant lock; a decision is awaited in the middle of a handler; retries; quotes applied later than computed | a payment is settled once, refunded within its order, answered the same to every retry; the books balance |
| Policy registry (`policyos/policyRegistry.ts`, `approvalTokenService.ts`) | drafts, approvals, policies, the published list of each merchant | create, submit, approve, publish, pause, resume, expire | an approval used twice, by another draft or late; a policy resumed after its time | only approved drafts are published, once; the active list is what is published and alive |
| Policy decision (`policyos/decisionService.ts`, `plugins/defaultPlugins.ts`, `policyRuntimeExecutor.ts`) | budgets, inventory locks, frequency markers | evaluate an event: check, allocate, reserve, execute, release | all candidates are checked before any is reserved; the execution is awaited; partial failure | caps hold, what fails is given back |
| Ledger (`policyos/ledgerService.ts`) | ledger rows, idempotency records | grant, record, clawback, reconcile | repeated grants | one grant per event, policy and action |
| Realtime (`policyos/wsDispatcher.ts`, `core/websocketHub.ts`) | sequence per merchant, deduplication map, clients | dispatch, connect, disconnect | order, duplicates, clients that come and go | each client sees increasing sequence numbers, a message once |
| PostgreSQL store (`store/postgresDb.ts`, `inMemoryDb.ts`) | tables per tenant, the process's cache, the queue of saves | transaction on fresh state, save, flush | crash between answer and flush, failed commit, snapshots older than what they overwrite | what was answered survives |
| Tenant routing and migration (`core/tenantRouter.ts`, `core/tenantPolicy.ts`, `http/serverHelpers.ts`) | database of each merchant, write freeze, rate counters | freeze, cutover, limit | requests in flight during a cutover; what the copied slice leaves out | no write is lost or applied twice |
| Agent runtime (`services/agentRuntimeService.ts`) | sessions, messages, tasks | stream a turn, cancel, compact | two streams of a session, cancellation racing the end | no message is lost, a cancelled task stays cancelled |
| Merchant service (`services/merchantService.ts`) | proposals, strategy configuration, kill switch | review, evaluate, approve, publish | steps over several services | a proposal and its policy agree |
| Account services (`allianceService.ts`, `privacyService.ts`, `invoiceService.ts`, `supplierService.ts`) | alliance configuration, users, invoices, partner orders | share wallets, copy, cancel an account, invoice, verify a partner order | users that disappear under a pending payment, copied wallets | money is neither lost nor copied |
| Notifications and feedback (`services/notificationService.js`, `feedbackService.ts`) | inbox, preferences, delivery times, tickets | create, read, page, open a ticket, move it on | caps at window edges, pages while rows come and go, sockets that follow by messages | caps hold, pages are complete, whoever should be told is told or the suppression is logged |
| Login and onboarding (`http/routes/preAuthRoutes.ts`, `services/socialAuthService.ts`) | phone codes, onboarding tokens, identity and phone bindings | send a code, log in, onboard, apply for a contract | a code or token used twice, bindings that outlive accounts, a check and a write in two transactions | a code logs in once, a phone owns one store, an account is new once |
| Reports (`releaseGateService.ts`, `customerExperienceGuardService.ts`, `automationService.ts`, `policyGovernanceService.js`) | none of their own | work out gates, paths, lists | two services with filters of their own over the same rows; windows; lists that are cut | the reports agree with one another and with the rows |
| Experiments (`services/experimentService.ts`) | configuration, history of rollbacks | configure, roll back, report | groups are worked out at report time | the last rollback is on record, the groups share out the store |
| Customer mini program (`pages/*`, `services/customerApp/*`) | stored session, snapshots, the page's flags | start, scan, pay, open the account, cancel it | calls side by side that log in and clear the session on their own | the token is the store's, one payment at a time, a cancelled customer stays away |
| Merchant app (`context/MerchantContext.tsx`, `hooks/useNotificationDots.ts`) | stored session, shown data, chat, dots | start, log in, onboard, log out, chat | answers of an earlier session, storage that fails, two messages at once | the data and the stored session are the current store's |
| State snapshots, wiring, templates | none of their own | projections | - | - |

How they interact: `createHttpRequestHandler.ts` takes a promise-chain lock per
merchant around every authenticated route; routes before authentication (logins,
the gateway callback) and WebSocket messages run outside it.  The payment service
calls the policy service for a revenue decision, which grants into the wallet and
the ledger; decisions, approvals and agent tasks send WebSocket events to the apps.  All
services share one database object, or, with PostgreSQL, a copy of it read inside
a transaction.

## 2. How the project is built

| modules | component | checked by |
|---|---|---|
| `Checkout`, `PaymentProofs` (part 1) | the arithmetic of orders and refunds | proofs |
| `PaymentService`, `PaymentLifecycle`, `PaymentProofs` (parts 2 and 3) | payments, refining what is promised of a payment | `MCPayment`, proofs |
| `Registry`, `PolicyRegistry`, `PolicyProofs` (first part) | the registry as operators, and under the owner's routes | `MCRegistry`, proofs |
| `ProposalWorkflow`, `PolicyProofs` (second part) | the merchant service over the same registry | `MCProposal`, proofs |
| `PolicyDecision`, `DecisionProofs` | events decided at once | `MCDecision`, proofs |
| `PostgresStore`, `PersistenceProofs` (part 1) | graph, saves, transactions, crashes | `MCStore`, `MCPersistence`, proofs |
| `Tenancy`, `TenantQuota`, `PersistenceProofs` (parts 2 and 3) | migration of a merchant, rate limits | `MCPersistence`, proofs |
| `AgentRuntime`, `MerchantApp`, `CustomerApp`, `ClientsProofs` | the agent's sessions and the two apps | `MCClients`, proofs |
| `RealtimeHub`, `PeopleProofs` (part 1) | the broadcast of decisions | `MCPeople`, proofs |
| `NotificationService`, `FeedbackService`, `PeopleProofs` (part 5) | notifications and tickets | `MCPeople`, proofs |
| `NotificationDots` | the unread dots | `MCPeople` |
| `MerchantAccounts`, `CustomerAccounts`, `PeopleProofs` (parts 2 and 3) | owners and customers | `MCPeople`, proofs |
| `ActivationContext`, `PeopleProofs` (part 4) | the facts of an entry | `MCPeople`, proofs |
| `StoreRows`, `ReleaseGate`, `GateWhatIf`, `ExperienceGuard`, `DecisionLists`, `Experiment`, `StoreReports`, `ReportsProofs` | the reports over one store's rows | `MCReports`, proofs |
| `Sums` | sums over finite sets, for the proofs about money and counters | proofs |

`FeedbackService` extends `NotificationService`, whose operations its routes call, and
`ProposalWorkflow` extends `PolicyRegistry`, whose steps go on next to its own;
`Stores` names the stores the two apps share, `PhoneBook` the stores and phones of the
accounts; the report modules extend `StoreRows`, the rows they all read; `Experiment`,
`ExperienceGuard` and `GateWhatIf` extend `ReleaseGate`, as the code uses it, and
`StoreReports` puts the reports together.  `MCPersistence`, `MCClients` and
`MCPeople` check components that share no state one after the other: `part` is chosen
by the initial state, never changes, and says which component moves; in `MCReports` it
says which rows appear.  A group of related properties of a component is checked as one
conjunction of named parts; each part has a mutant of its own.

The plan was followed in this order, most important first: payments, registry,
proposals, decisions, the store, migration and quota, the agent and the apps,
what reaches people, accounts, reports; then the proofs, in the same order, until every
property that holds was a theorem, but for those of liveness and `PaceKept` (section 13).

### How the proofs are built

A proof module extends its component's module and states, for every value of the
constants, what the runs check.  Each theorem rests on an inductive invariant, written
as a conjunction of named parts and checked by TLC on the component's run before it
was proved.  One lemma per action shows that a step keeps it, and a last step puts
them together with temporal logic.

What holds of a recursive definition for every input would take induction over data,
which the provers do not do from the library's induction theorems.  Two kinds of facts
are reached without it:

- sums.  `SumFunctionOnSet` of the community modules adds up over a set by picking one
  element after the other.  `Sums` proves that the sum of a finite set is of its type,
  that any element may be taken out first (`SumTakesOut`), that disjoint sums add
  (`SumUnion`), and what one changed term does (`SumChangesAt`).  The strict subset
  ordering of finite sets is well founded, so a claim that fails for some set fails for
  a least one, and a first-order argument refutes that;
- lists built over the numbers up to a length, and least elements of sets of numbers:
  the same with `<` on the naturals.  A recursive function is what satisfies its
  equation, if anything does: that something does is proved first, and what it computes
  by the least argument for which it would compute something else (`DeliveriesExist` and
  `AllDelivered` for `createAll`, `WalkExists` and `WalkIsRun` for the streak).

A list that is only filtered, sorted and cut is modelled as the set of the positions of
its rows, and a page as those that fewer than its size come before; then what a page
leaves out is a matter of counting (`PageOf`, `NewestCount`).

## 3. The payment modules

### Checkout

The code rounds some amounts and not others.  A balance, a deduction, the ledger
row and `refundedAmount` are what `roundMoney` returns, a whole number of cents; the
order, the refund and what the gateway says it was paid are kept as the client sent
them (`paymentService.ts:239`, `:297`, `:510`), and the bound of a refund is rounded but
the refund compared with it is not (`:511`).  So the module has two kinds of amounts: as
they came, integers of a unit of which `Cent` make a cent, and rounded, integers of
cents.  `Cents(x)` are the roundings `x` may have: one, or the two neighbours when `x`
ends in half a cent, because `Math.round(value * 100)` of a binary fraction may fall on
either side.  `BuildCheckoutQuotes`, `BonusConsumed`, `Clawbacks` and `NextWallets` are
therefore sets, one member for each way the roundings go.

What that costs, and the properties say: an order of 1.006 may be refunded with 1.01
(`RefundsWithinOrder` bounds the refunds by the order in whole cents); an order below
half a cent is settled with no deduction; a refund that ends in half a cent may put a
cent into the wallet that its row or the payment does not show, and may leave the
principal at -0.01 (`HalfCentRefunds`, `DebtIsRounding`); the parts of a quote add up to
the order only up to a cent.

`PaymentProofs`, part 1, proves for every order, wallet, refund and set of vouchers,
however they are rounded, that a quote's parts are within a cent of the order and leave
a wallet with no new debt (`QuoteWellFormed`), that the bonus a refund reclaims is its
share up to half a cent and half a cent's worth of the refund (`ReclaimInProportion`),
that a refund does to the wallet what its row says up to a cent (`RefundKeepsRow`), and
that the rounded bound keeps what was refunded within the order in whole cents
(`RefundedStaysWithin`).

### PaymentService

A request is a process: `Arrive` puts it into the queue of the tenant lock (the
callback goes straight to the key lock), `EnterService` into the queue of the key
lock, and when it is the head of that queue its handler runs.  A handler is
atomic up to its first `await` after the checks, which is
`executeRevenueDecision`:

- `VerifyPending`, `ConfirmSettledAgain`, `ConfirmFailure`, `RefundPayment`,
  `Reject` and `Replay` await nothing: one action each, which also releases the locks;
- `VerifyInternal` and `ConfirmSuccess` write the wallet, the payment and the
  ledger and then await a decision (`RevenueDecision`, which grants any member of
  `Grants` or nothing); `Finish` writes the idempotency record and releases the locks.

`IdempotencyKey` and `LockKey` name what the code's keys name; `GetQuote` and
`ApplyQuoteToUser` read and overwrite the wallet of the merchant that
`resolveWalletScope` finds (`WalletMerchant`), while a grant goes to the paying
merchant's record, as in the code.  `SetWalletShared` is the owner switching the
alliance's shared wallet, `Tick` the clock that vouchers expire by.
`outdated` is a history variable: the payments settled with a quote that no longer
held when it was applied.

Merged steps: the release of the key lock and of the tenant lock, which only the
holder's queue sees.  Left to `PostgresStore`: `runWithFreshState`, by which each
call works on its own copy of the state.

Bounds: two stores of an alliance and one customer, `Requests` (four in
`payment_core`, three in `payment_answered`, each used once), the calls `Calls`
offers, the clock `MaxNow`, two units in a cent (`Cent = 2`, so that half cents occur).
Four requests are enough for open, settle, refund twice, or for two payments that
compete for one wallet or voucher; the calls hold orders and refunds that end in half a
cent, a good, a repeated, a failed and a wrong callback and, in `payment_answered`, a
request without a key.  The clock passes a voucher's expiry in `payment_answered` only:
in `payment_core` a voucher is outdated by being used.  The owner may share or separate
the stores' wallets between any two steps; the first store's own setting changes nothing.

Fairness: weak fairness of each request's own steps (`Serve(r)`): the event loop
runs every due promise and a decision's promise settles.  Nothing is assumed of
arrivals, of the clock or of the owner.

| run | what it shows |
|---|---|
| `payment_core` | types, `SettledOnce`, `RefundsWithinOrder`, `OneAnswerPerKey`, `AnswersHold`, `MoneyAccounted` (`BooksBalance`, `RefundsReclaimBonus` and `DebtIsRounding`), `VouchersAccounted` (`VoucherSpentOnce` and `BudgetIsVouchersSettled`), and the refinement of `PaymentLifecycle` |
| `payment_answered` | `EveryRequestAnswered`, whatever each waits for: two stores, three requests that contend for the tenant locks and the key locks |
| `payment_ledger` (violation) | the ledger does not explain the wallet after a callback: the quote of the verify call overwrites what happened since |

`BooksBalance` and `VoucherSpentOnce` except the payments of `outdated`; the
violation run shows why that exception is there.

### PaymentLifecycle

What the service promises of a payment: opened once, waiting or settled; settled or
failed once and for good; refunded step by step up to its order amount in whole cents.
`PaymentService!Book` is the refinement mapping.

### Proofs

Part 2 of `PaymentProofs` proves for every value of the constants (under
`PaymentAssumption` and `VoucherAssumption` only): `TypeCorrect`, `SettledOnceHolds`,
`RefundsWithinOrderHolds`, `OneAnswerPerKeyHolds`, `AnswersHoldHolds` and
`ImplementsLifecycle`.  They rest on one inductive invariant `IInv`:

- `QueueTypes`, `LocksHeld`: a request past a lock heads that lock's queue.  It is
  what makes `OneAnswerPerKey` inductive: between the write of the payment and the
  write of the idempotency record the holder of the key cannot change, so nobody
  with the same key sees the gap (for verify the tenant lock is what excludes them,
  since the key lock is per user);
- `DataTypes` and `LedgerPast`: ledger rows have ids below `nextTxn`, so a new row is new;
- `SettledOnce`, `RefundsWithinOrder`;
- `AnswersHold` for the requests that are answered, and `RecordsHold`, the same of
  the idempotency records they will be replayed from;
- `KeysAnswered`: a recorded key is what every finished request of that key was answered.

Each action is reduced to one of a few step shapes (`StepShapes`: nothing of the
payments changes, one is opened, settled, failed or refunded with its row), and the
invariants and the refinement are proved from the shapes.

Part 3 proves `MoneyAccountedHolds` and `VouchersAccountedHolds`, the sums over the
ledger, the payments and the vouchers.  Its invariant `MoneyInv` adds to `IInv` and
to the two properties

- `RowsKnown`: finitely many rows, and every settlement or refund row names a payment
  on record, so that a new payment has no rows yet and starts its sums from zero;
- `BonusWithinOrder`: a quote takes no more bonus than the order and half a cent, which
  is what `ReclaimInProportion` needs for its slack;
- `QuotesWithinDebt`: a quote that waits for its callback leaves the principal no further
  below zero than the half cents of the user's refunds explain, whenever it is applied;
- `UsedStaysUsed`: a voucher used from the start is never active again, so a voucher
  counts as spent by one payment at most.

The money side has step shapes of its own (`Pends`, `Settles`, `Fails`, `RefundsMoney`,
`GrantsMoney`, `KeepsMoney`), each of which adds one row or changes one payment; then
`SumAdds` and `SumChangesAt` give both sides of each equation.  `PaymentAssumption`
asks that merchants are finitely many (requests need not be), without which the sums have no value.

Only model-checked: `EveryRequestAnswered` (liveness), and `payment_ledger`, whose
property is false.

## 4. The registry modules

### Registry and PolicyRegistry

`Registry` translates `policyRegistry.ts` and the tokens of
`approvalTokenService.ts` into operators over one record of four tables (`drafts`,
`approvals`, `policies`, `publishedByMerchant`): a check (`CanSubmit`, `CanApprove`,
`CanPublish`, `ApprovalServes`, `TokenServes`) and a result (`SubmitDraft`,
`ApproveDraft`, `PublishDraft`, ...) for each operation.  Every operation of the
code is synchronous, so a state machine may apply one of them in a step, or several
of them as a handler does.

`PolicyRegistry` is the registry under the owner's routes (`policyOsRoutes.ts`):

| action | code |
|---|---|
| `Create`, `Submit`, `Approve` | `createDraft`, `submitDraft`, `approveDraft` |
| `PublishByApproval`, `PublishByToken` | `publishDraft` with an approval id, which is looked up and marked used, or with a token, which is only verified |
| `Pause`, `Resume` | `pausePolicy`, `resumePolicy`; resuming after the time expires the policy and throws |
| `ListActive` | `listActivePolicies`, the first thing an event does, which sweeps the expired ones |
| `Tick` | time |

A call whose check fails throws before it writes and is no step.  Draft ids (clock
and random number), approval ids and tokens (UUID, signature) are taken as unique
and unforgeable.

| run | what it shows |
|---|---|
| `registry_core` | types, `ListsAreExact` (four operations edit the list of active policies on their own), `PoliciesApproved` (by either way of publishing), `ServedAlive`, `PolicyHistory` |

Bounds: one key, which two merchants share, two drafts, two approvals, five
instants, policies that live one or two of them and approvals that live one.
That is enough for a second version of a key, a policy paused past its time and an
approval that runs out before, at and after its use.  No fairness is assumed and no
liveness claimed: nothing but the owner moves a draft.

### Proofs

The first part of `PolicyProofs` proves `RegistryTypes`, `ListsAreExactHolds`,
`PoliciesApprovedHolds`, `ServedAliveHolds` and `PolicyHistoryHolds` for every value
of the constants, from `RegistryAssumption` and `MaxNowAssumption` alone.  The
inductive invariant `IInv` adds to the four invariants

- `VersionsHaveNoGaps`: the version after the largest is new, so that publishing
  never replaces a policy;
- `ApprovalsArePast`: no approval lies in the future, so that whoever publishes
  under one that has not run out does so between its two times;
- `ServedKnown`: what was served is in the table, so that its record can be spoken of.

One lemma per action shows `StepOK`: `IInv` holds afterwards, policies keep all
but their status, approvals only grow.  The theorems follow from these lemmas.

## 5. ProposalWorkflow

`merchantService.ts` and `agentOsRoutes.ts` over the same registry, next to all
actions of `PolicyRegistry` (`RegistryStep`):

| action | code |
|---|---|
| `Generate` | `createProposalFromAiCandidate`, with its draft |
| `Evaluate` | `evaluateProposalPolicy`: a new evaluation or a cached one still fresh |
| `Reject` | `rejectProposalPolicy` |
| `DecideApprove` | `decideProposalReview` with APPROVE: evaluate, approve (making up for what is missing of submission), publish.  A throw in the middle keeps what was written |
| `Enable`, `EnableAgain` | `enableLifecycleStrategy`, publishing and pausing the older policies, or answering `alreadyEnabled` |
| `SetRevenueConfig` | `setRevenueStrategyConfig`, which publishes anew each time |

Each holds the tenant lock throughout, so with the in-memory database it is one
step.  Left out: the branch of `ensurePolicyDraft` that creates a missing draft
(`Generate` always makes one), templates with more than one usable branch, the
texts and the risk report of an evaluation, and the read-only dashboards.

| run | what it shows |
|---|---|
| `proposal_core` | `ProposalInvariant` (types; `RegistryKept`: the handlers that chain operations and edit the lists themselves keep the registry's invariants; `PublishedProposalsExact`), `DecisionsFinal`, `PublishedOnFreshEvaluation`, `EnabledAlone` |

Bounds: a lifecycle template and the one enabled through its configuration, two
drafts, approvals and proposals, three instants; approvals run out before the first
template's policy does, and an evaluation is fresh for one instant.

### Proofs

The second part of `PolicyProofs` proves `ProposalInvariantHolds`, `DecisionsFinalHolds`,
`PublishedOnFreshEvaluationHolds` and `EnabledAloneHolds` for every value of the
constants.  A handler applies several operations of the registry in one step, and
edits the published lists itself, so there is no state between them an invariant
could be of.  The lemmas are therefore about registries and not about steps:
`Sound(reg, t)` is the registry's invariant of any record of four tables at time `t`
(`Types`, `Lists`, `Approvals`, `NoGaps`, `Past`), and `Keeps(reg, new)` says that
nothing of `reg` is gone in `new`.  Each operation takes a sound registry to a sound one
that keeps it, whatever its check; a handler is a chain of such facts, and the
proposals' own records follow.

## 6. PolicyDecision

`evaluateEvent` in mode EXECUTE (`decisionService.ts`), the constraint and action
plugins (`defaultPlugins.ts`) and the executor.  Several calls are under way at
once: `executeDecision` is called by payments, by the owner's route and, outside any
lock, by customers who enter.

| action | code, from one `await` to the next |
|---|---|
| `Decide` | checks every matching policy, ranks and allocates the winners, reserves for the first and runs its first action |
| `Continue` | the next action of the same winner |
| `Settle` | releases if an action refused; reserves for the next winner and runs its first action, or saves the decision |
| `SetActive`, `SetKillSwitch`, `Tick` | the owner's routes and the clock |

`RunNext` is the loop over winners, `Act` one turn of the executor's loop, and
`Reserve`/`Release` are the three constraints' together (budget, own or shared by
the merchant; inventory; frequency).  An action that throws ends the call: what was
reserved stays.  Two variables are history: `reservations`, what was reserved and
not given back, and `checked`, what was reserved when a call under way checked its
candidates (`Remembers`).  The model lets any other step come between two actions; the code's
promises are mostly settled already, so fewer interleavings occur than are
checked.  Ranking is a constant order; triggers, segments and the fraud hook, which
read the event only, are part of what a call `matches`.  Left out: mode EVALUATE (it
writes nothing but the removal of frequency markers that no longer count),
explanations, metrics and the retention jobs.

| run | what it shows |
|---|---|
| `decision_core` | `DecisionInvariant` (types, `CountersAreReservations`, `GrantsAreCharged`), `GrantedOnce`, `ChecksHold`, `PaceKept` |
| `decision_stackable` (violation) | two stackable winners that share a pool exceed its cap together (`HardGates`) |

Bounds: three calls (an event, its retry by the same user, another user's), four
policies, a clock of three instants with a pacing window of two.  Three of the policies
exclude one another and share a budget: the first is under every constraint, the second
grants a fragment and then refuses, the third throws after it paid.  The fourth wins
twice, next to the others, in another conflict set and on a pool with room for one, so
that a winner does go past what its check saw.

The docs promise that automated execution does not bypass the limits (`HardGates`), and
the code keeps that for the first winner of a decision only.  What the other properties
say instead, and what they leave out:

- `ChecksHold`: the first winner reserves in the step of the check and keeps the kill
  switch, the caps, the pace, the stock and the daily hits; a later one goes past them
  by what was reserved since the check, its own call's earlier winners included, and by
  no more.  Left out are the daily hits of a policy that may refuse (a release removes
  all of the user's markers of that instant, other calls' included) and the pace of pools
  that are given back to; and the cap of a stock is that of some policy of the sku, since
  a reservation writes its own policy's cap over the record the next check reads;
- `GrantsAreCharged` leaves out policies that may refuse (`MayRefuse`): when an action
  refuses after another gave, the code releases the whole reservation and leaves the grant
  (`decisionService.ts:458`).  `CountersAreReservations` does cover that release;
- `GrantedOnce` is of wallet and voucher grants; a fragment is granted each time;
- `PaceKept` allows twice the pace in any window's length, since windows are fixed,
  and leaves out pools that are given back to: a release lowers the current window,
  whichever the amount was reserved in.

### Proofs

All four theorems are for any policies (`DecisionAssumption` only says what a published
policy looks like):

| theorem | rests on |
|---|---|
| `CountersHold` (types, `CountersAreReservations`) | `CountersInv` |
| `GrantedOnceHolds` | `CountersInv`, `Deduplicated` |
| `DecisionInvariantHolds` (also `GrantsAreCharged`) | `CountersInv`, `GrantsInv` |
| `ChecksHoldAlways` | `LimitsInv` |

`CountersInv` says that a reservation belongs to a turn of its call and that turns only
go down (`TurnsGoDown`): so a new reservation is new, the one given back is there, and
the counters, which are sums over the reservations (`Agree`), move by exactly that
term.  `Deduplicated` ties a grant to its key in the ledger.

`LimitsInv` says why a later winner's check still means something when its turn comes.
What its call knew when it checked only shrinks: a reservation that was there may be
given back, and none is added to it (`SeenTurns`).  So whatever had room for the winner
then has room for it now, apart from what was reserved since (`RoomLeft`); and windows,
markers and stock records say of what is held what the next check will read from them
(`Books`).

`PaceKept` is only model-checked, and `HardGates` is false.

## 7. PostgresStore

The driver (`postgresDb.ts`) keeps every tenant's rows as one object graph.  A
request stands for the rows it changes, so a part of the state is the set of the
requests whose changes are in it.  Three facts of the code make the model:

- `serialize()` copies references: a queued save (`Enqueue`) holds a graph, not its
  contents, and writes what the graph holds when each table is inserted
  (`InsertPart`, one table a step);
- a transaction on fresh state (`BeginFresh`, `RunFresh`) builds a graph of its own
  under the tenant's advisory lock, puts it in the live one's place (`SyncBack`)
  and commits afterwards (`CommitFresh`);
- the response is followed, not preceded, by the flush, which waits for the whole
  chain of saves (`Flushed`).

`AbortFresh` and `AbortSave` are statements PostgreSQL refuses, `Crash` stops the
process at any point.

| run | what it shows |
|---|---|
| `persistence_core` (first behaviour) | `StoreInvariant`: a runner sees what is committed and nobody else commits meanwhile (`RunnerSeesRows`), a refused request leaves nothing (`RefusedLeavesNothing`), at rest the rows are the live graph's although single saves may be torn (`QuietRowsAreLive`); `OnlyOtherGraphsLoseRows`; `StoreFlushReturns` |
| `store_committed` (violation) | a save queued before a transaction brings the older rows back |

Bounds (`MCStore`): a payment, whose decision saves the live graph while its
transaction is open, a proposal of the same store that changes the live graph only,
and an invoice of another store of the tenant; two refused statements and one crash.
Two lock keys are enough for requests to meet in the chain and in the advisory
lock, three parts with a table and one without for a torn save.

`QuietRowsAreLive` leaves out a last save that failed and a last save of a graph that
was replaced; the second is the violation run.  A crash between response and flush
forgets what was answered, and no property says otherwise.

### Proofs

Part 1 of `PersistenceProofs` proves `StoreInvariantHolds` and
`OnlyOtherGraphsLoseRowsHolds` for any requests, keys, parts, tables and bounds
(`StoreAssumption`).  The inductive invariant `StoreInv` has, besides the types,

- `Exclusive`: whoever has a transaction open holds the advisory lock;
- `FreshTx`: a transaction on fresh state works on the last graph, which is neither live
  nor queued before it is synced back; what it reads is what is committed;
- `SaveTx`: the save that is written is the head of the chain;
- `Filled`: a part that was inserted is what the graph holds, or the graph is queued
  once more behind: the step that changes a graph also queues it;
- `Saved`: the rows of the graph written last are that graph's, or a save will make them
  so, or the last save failed;
- `Grown`: no row is committed that the graph written last does not hold, and graphs
  only grow, so only a save of another graph takes rows away;
- `Untouched`: what a request changes on fresh state alone is in no graph but its own
  before it is synced back, which is why a refused request leaves nothing.

TLC checked `StoreInv` on `MCStore` before it was proved.  `StoreFlushReturns` is
liveness and only model-checked.

Fairness: the process's and PostgreSQL's own steps go on (`Fairness`).  Refusals and
crashes are bounded by `MaxFailures` and `MaxCrashes` and not fair.

## 8. Tenancy and TenantQuota

`Tenancy` is one merchant between the shared database and a dedicated one.  `stored`
is what PostgreSQL has of the merchant in either database: the writes executed there and
their idempotency records.  Every cutover, and every start of the server, opens the
dedicated database anew: a database object (`Place`) with a cache and a queue of saves
of its own over the same rows, so that a second cutover's object is another than the
first one's.

| action | code |
|---|---|
| `Arrive` | `getServicesForMerchant`: the request is bound to the object of this moment; a callback of the gateway takes neither the merchant's lock nor the write switch |
| `Execute`, `NotFound` | `runWithFreshState` on that object: the advisory lock, the rows, the write or the answer on record, the cache.  It waits for no queued save |
| `Resend` | a client or the gateway sends the key again |
| `SaveCache` | `appendAuditLog` of any request: a save of the cache as it is joins the queue |
| `Save` | the next save of a queue, a transaction of its own that replaces the rows; one that fails is dropped |
| `MigrationStep` | the migration route; its transaction may not commit |
| `BeginCutover`, `OpenDedicated`, `AttachDedicated`, `CommitCutover`, `CutoverFails`, `CommitFails` | the cutover route, split at its awaits.  `AttachDedicated` copies the slice and queues three saves: what was read, the copy, and the copy again (`CopySaves`) |
| `Restart` | the override and the queues are gone, the routes are read back from what is committed |

The two steps that switch the realtime channel change nothing else and are left out.
`kept` is a history: the writes executed undisturbed, that is in the serving database
and, if that is a dedicated one, while no cutover ran and no save was queued.

`TenantQuota` is `evaluate` of the policy manager: a fixed window that starts with a
call, a limit the owner changes at any time, the write switch.

| run | what it shows |
|---|---|
| `persistence_core` (second behaviour) | `MigrationInvariant`: a write executed undisturbed is served from then on, through later cutovers, failed ones, queued saves and restarts (`AnsweredIsServed`), and its key is not executed in that database again (`OncePerDatabase`); no cutover leaves the merchant read-only (`CutoverUnfreezes`) |
| `persistence_core` (third behaviour) | `QuotaInvariant`: any stretch of a window's length admits fewer calls than twice the largest limit |

Bounds: a payment through the merchant's own route and a gateway callback, three
arrivals and migration steps together; two cutovers, one failure, one restart, and one
save in a queue when a request adds another.  The quota: limits 0 (none) to 3,
windows of three instants, seven calls.

The properties speak of undisturbed writes because the code gives no more:

- a write on a dedicated database whose copy is still being saved is answered, and the
  next save of the queue overwrites it: a queued save writes the slice it was queued
  with, as in `store_committed`;
- a write resolved to the shared database and executed after a cutover has left it is
  answered and not served, and one resolved to the object of an earlier cutover is
  overwritten by the saves of the later one;
- idempotency records are not part of the copied slice, so a retry after a cutover is
  executed a second time;
- an override whose transaction did not commit (`stranded`) is forgotten by a restart,
  and what was answered under it is out of reach.

### Proofs

Parts 2 and 3 of `PersistenceProofs` prove `MigrationInvariantHolds` from
`TenancyAssumption` and `QuotaInvariantHolds` from `QuotaAssumption`.

Migration: `MigrationInv` looks at every slice the merchant could be served from later
(`InPlay`): what the dedicated database stores, whatever waits in a queue of saves, the
cache the router names and the one a cutover is opening.  Each has the records of the
writes kept in the dedicated database, has all that was kept if it knows the merchant,
and does not know the merchant while the shared database serves it (`Kept`, `Holds`).
So whichever of them is written or served next, nothing kept is missing.  `Apart` says
that a cutover opens an object other than the one the router names, and `Unfrozen` that
a cutover which is about to commit has switched writes on again.  The case that matters
is `AttachDedicated`: the copy is taken from the object that serves, so it has what was
kept, and the save of what was read before it, which comes first in the queue, knows
the merchant only if it has that too.

Quota: the bound counts calls in a stretch of time, and the proof counts places in the
history instead.  The calls of the current window are the last ones admitted and the
first of them was admitted as the window opened (`InWindow`); whatever lies a full limit
before that call is of a window that had ended (`Opened`); so two calls twice the limit
apart are at least a window of time apart (`Spread`).

## 9. AgentRuntime, MerchantApp and CustomerApp

### AgentRuntime

The routes of `/api/agent-os` take the merchant's lock (`line`), a stream keeps it to
the end of the turn, and an operator has one session.  A turn is `Start`,
`InitAgent`, `Token`, `StreamEnds`, with a compaction (`Compacted`,
`CompactionFails`) after each append that makes the session too long; each is what
runs between two awaits.  `Wipe` is another caller's fresh-state transaction, which
reloads the database object and with it forgets sessions and tasks; `Restart`
forgets the process.  A model's failure ends the generator early and the task is a
success with what was streamed; an agent whose initialisation failed stays failed
until a restart (the promise is cached).

### MerchantApp

`MerchantContext.tsx`: the stored session and the queue of `SecureStore` operations,
login, onboarding, logout, the fetches of the session's data and the chat.  Every
fetch is a record in `fetching` or `sending`, answered in any order, in or after the
session it was begun in.  The history variable `late` marks that an earlier session's
answer came after a reset, which nothing prevents; `StoreDataIsOwn` is of the other
behaviours.

### CustomerApp

The mini program's startup, home and account pages and the session service.  A call
(`calls`) first makes sure of a session (`ensureCustomerSession`: the kept token of
this store, or a login) and then asks; a failed call clears token, merchant and user
id, whoever relies on them, except the informing calls and the startup's prefetch.
`ledger` and `invoices` are one kind of read, the two forms of the account page one
kind of write.  `departed` and `untidy` are history: the store whose account was
cancelled, and whether the cancellation met other calls or the user id of another
store, after which the session may come back.

| run | what it shows |
|---|---|
| `clients_core` | `AgentInvariant` (`MemoryComplete`, `TurnsAreWhole`, `TasksSeenFinished`), `MerchantAppInvariant` (`StoreDataIsOwn`, `StoredSessionIsCurrent`, `SubmittingIsSending`), `CustomerAppInvariant` (`OwnToken`, `PayingIsPayment`, `CancelledStaysAway`), `NobodyWaitsForEver` (`EveryRequestServed`, `EveryMessageSettles`, `ConnectingEnds`, `PayButtonReturns`) |

Bounds: two streams and one other request, sessions of two messages of which one is
kept, one token, one wipe, one restart; two stores, two starts, two logins and two
messages of the merchant's app; two stores, two starts, two taps and three calls of
the customer's.  Two messages make a session compact in the middle of a turn; two
logins and two starts are what a late answer and a stale stored session take; three
calls are an account page's two reads next to a payment or a cancellation.

Fairness: one weak fairness over whatever has been asked and not answered
(`Progress`, `ChatAnswer`, `Answer`): requests end, with an answer or an error.  It is
enough because requests are bounded; nothing is assumed of the owner or the customer.
The runs stop when the bounds are used up, so deadlock is not checked.

### Proofs

`ClientsProofs` proves the invariants of all three, for every value of the constants
that `AgentAssumption`, `AppAssumption` and `CustomerAppAssumption` admit.

The agent runtime (`AgentInvariantHolds`): `AgentIInv` adds to the types `LineKept` (the
line holds each request once, and only its head runs, which is a task), `Memory` (a
session is compacted when it is one message too long), `Statuses` (a task is running
exactly while its stream does, or was cut off by a restart) and `Turns`.  `Turns` says
what each task has said in the conversation, the summary followed by the messages: while
it runs its question or its answer is the last message, and its own answer occurs
nowhere else; once it has settled, `Paired` or `Unanswered`.  Another task's message is
appended behind that and taken back again by a failed compaction, so it disturbs neither
(`OthersGrow`, `OthersShrink`).  That a compaction keeps the conversation is `Compacts`,
that a failed one gives back the one before is `RollsBack`: both are equations between
concatenated sequences.

The merchant app (`MerchantAppInvariantHolds`): `OwnerIInv` adds `OneSession` (outside
"ready" nobody is logged in and nothing under way; a login call is made without a
session), `OwnData` (`StoreDataIsOwn` also where there is no session: what is shown is
nobody's, so the next session starts clean) and `LastWrite` (the last write in the queue,
or else what is stored, is the session in use).

The mini program: `OwnTokenHolds`, `PayingIsPaymentHolds` and
`CustomerAppInvariantHolds`.  The first two rest on `IInv`: a closed program has no calls, and the page's flag is the existence
of a payment it began, one at most.  `TInv` adds the types; `Numbered`, that calls have
ids of their own, which takes the counting of free ids; and `Away`: after a cancellation
that met no other call there is no session, no last store, no call under way and no
snapshot of the store, which is why nothing logs in again: a start of the program without
a last store opens the scan page.

`NobodyWaitsForEver` is liveness and model-checked only.

## 10. What reaches people: NotificationService, FeedbackService, RealtimeHub, NotificationDots

`NotificationService` has `setRecipientPreference`, `shouldDeliverNotification`,
`createNotification`, `listInbox` with its cursor, `markRead`, and the hub's messages to
the sockets of a recipient; a socket is modelled with the unread set a client would keep
from them.  `FeedbackService` adds tickets, their transitions, the notifications of their
routes and the pages of their list.  A notification is known by its place in `notes`, a
ticket by its number, as their identifiers count up; the delivery times that
`dispatchState` keeps for a cap are those of the notifications it counts, so the model
keeps the notifications.  The actions are the routes, which take the tenant's lock:

| action | code |
|---|---|
| `emitApprovalTodo`, `emitExecutionResult` | the hooks of `server.ts`: owners or all staff, and the decision's customer, one delivery after the other (`createAll`) |
| `PutPreferences`, `PostRead`, `GetInbox` | `notificationRoutes.ts`; a page is asked for from the start or with the cursor of the page before, with the three filters on the status |
| `handleUpgrade`, `cleanupClient` | `websocketHub.ts` |
| `PostTicket`, `PostTransition`, `GetTickets` | `feedbackRoutes.ts`: a new ticket is told to the `Managers` (`FEEDBACK_MANAGE_ROLES`), a transition to the customer; the list for the staff or for one customer |

`reading` and `paging` are what one client has read so far, with what was there when it
began; `since` remembers when a preference was last set.  `RealtimeHub` is the
dispatcher's queue per merchant, its sequence and deduplication in memory and, later, in
the database (`Flush`), and connections.  `NotificationDots` is the hook of the
merchant's app that polls the unread summary.

`InboxInvariant` (`CapHolds`, `SocketsKnowUnread`, `PagesComplete`,
`TicketNewsDelivered`: once to whom it is for, and to nobody else;
`TicketPagesMissUpdatedOnly`), `BroadcastInvariant`
(`ConnectionSeesEveryNumber`, `DispatchedOnce`) and `DotsCatchUp` are checked by
`people_core` in five of its behaviours.  Caps count since the recipient last changed a
preference: a cap changed to a longer window has forgotten what the shorter one
dropped.  A preference is laid over the default, so the cap on execution results can
be changed and never removed.  A ticket that is updated while its list is read moves to
the front and may be on no page; `TicketPagesMissUpdatedOnly` says that no other is
missed.  After a restart a sequence number is handed out again, to a decision the
database had not stored.  The dots may show the store just left until the next poll;
`DotsCatchUp` says they settle.

Bounds: two staff, one of them owner and manager, and one customer, three categories, pages of
one row, which put every pair of rows on two sides of a boundary.  Three behaviours:
the preferences of two recipients change twice while decisions are announced, with caps
of different windows, in six changes, announcements and instants; the chief reads pages or holds a socket, not both at once, for two
instants and two announcements; two tickets move for two instants, with no other
notifications.  Two merchants, two decisions, two clients, one restart; two stores, two
changes of the summary, two polls in flight.

Fairness (dots only): the timer fires again and again and every poll ends.

### Proofs

Part 1 of `PeopleProofs` proves `BroadcastInvariantHolds` for any merchants, decisions,
connections and bounds (`HubAssumption`).  The inductive invariant `HubInv` has
`Numbered` (a merchant's number counts the identifiers remembered for it, in memory and
in the database, each of the two pairs moving together), `SentOnce` (what a process
sent it remembers, so it does not send it again), `Connected` (a connection that has
seen a number has seen the last one: a restart, which takes the number back, closes it)
and `Counted`, which bounds the numbers by the dispatches asked for.  TLC checked it
first, and the invariants of section 11, on the behaviours of `MCPeople`.

Part 5 proves `InboxInvariantHolds` for any staff, users, categories, patches, caps,
retention, sockets and page size (`NotificationAssumption`, `FeedbackAssumption`: staff
and users are finite, what a patch names is a category, the default cap is one).  A
client may read an inbox and a socket tell of it at once, which the bounds keep apart.
The inductive invariant `InboxInv` has

- `Capped`: every notification of a cap's window is one of the deliveries counted for
  it, and they are within the limit.  A delivery drops what is older than the window of
  now, and time only narrows that window; a changed preference starts counting anew;
- `InTime`: notifications are in order of creation, so newer means later, and a page's
  last row is its least number (`NewerIsLater`, `InboxPage`);
- `ReadingOK`: pages lie at or above the cursor, and a row listed from the start and
  still listed is on a page or below the cursor.  The filter on read rows is special:
  rows may come to it later but those it began with stay read;
- `PagingOK`: the same of tickets by time and number.  An update makes a ticket's time
  the present, so it leaves only the rows below the cursor (`PagingKeeps`);
- `Tells`: an open socket has what is unread, a closed one nothing.  A broadcast is for
  the recipient of the rows only;
- `NewsOK`: every event of a ticket was told to whom it concerns or logged, once, and no
  event that has not happened was, so that the next one starts from none.

`DbOK` says the part that a delivery changes of any database, so that `CreateKeeps` can
be applied once per recipient by `AllDelivered`; the routes then only have to say what
they leave alone.  `NotificationDots` is liveness and model-checked only.

## 11. Who they are: MerchantAccounts, CustomerAccounts, ActivationContext

`MerchantAccounts` has the phone code, the login that uses it, the onboarding with the
token of that login, and the contract application, whose check and write are two
transactions (`contractCheck`, `contractApply`).  `CustomerAccounts` has the two
providers' logins with their identity and phone bindings, the decision awaited at the
door, a payment and its callback, invoices, deletion, cancellation, the alliance with
its shared wallet and the copy to its stores; an account's id is computed from the
phone, so a phone is its own user.  A token outlives the account.  Whoever holds one
may still make a call that fails or reads the inbox and leaves an audit row naming him
(`auditCall`; `createHttpRequestHandler.ts:233`, `notificationRoutes.ts:72`), and may pay
with the account he has at the store that keeps the shared wallet (`resolveWalletScope`).
The audit row of a call that was carried out comes in a step of its own (`owed`,
`auditDone`).  Two histories are part of a row: `home`, whether its user had an account
at the row's store when it was written, and `wallet`, the store that was charged.
`ActivationContext` is the streak and the absence worked out from the newest decisions.

`OwnersInvariant` (`CodeUsedOnce`, `OwnerPhonesDiffer`, `BoundTwiceOnlyByRace`),
`CustomersInvariant` (`RowsNameAccounts`, `InvoiceFollowsPayment`, `NewOncePerAccount`)
and `EntryFactsTrue` (`StreakIsRunOfDays`, `AbsenceIsReal`) are checked by
`people_core` in the other four behaviours.  `BoundTwiceOnlyByRace` is named for its
exception: two applications checked before either is written bind one phone to two
stores, and its owner can log in to neither.  `RowsNameAccounts` says what a cancellation
leaves: no row written while a user had an account names him after the account has gone,
and what would be exported of such a user was paid with the wallet of another store.  The
rows it excepts are those the code writes afterwards: the audit rows of his later calls,
that of the cancellation itself among them, and payments from a shared wallet.  What an
audit row says in its details is not modelled, and so is not the limit of the list of
invoices (20, at most 100), which changes nothing.

Bounds: two stores and two phones, three codes, two onboarding tokens and two
applications; three logins, one payment and two of the other operations; six entries
over six days where three decisions are read (ninety in the code), so that the page cuts
a streak and an absence short.  `MCPeople` runs `CustomerAccounts` in two behaviours: in
one there is one store, and logins, rows and other operations are six together; in the
other there is an alliance of two stores, configured by the second, with two logins by
the first provider and three rows.

### Proofs

Part 2 of `PeopleProofs` proves `OwnersInvariantHolds` for any stores, phones, lifetimes
and bounds.  `MerchantInv` has `CodesUnused` (a code that can still log in has not, and
no other phone has its number), `OneOwner` (the onboarding looks for the phone in the
transaction that writes it), `StoresKnown` (contacts, sessions and applications are of
stores that were onboarded, so an onboarding meets no contact of its own store) and
`BoundOnce` (a phone that was not raced leads to one store).

Part 3 proves `CustomersInvariantHolds` for any stores, phones, identities and bounds,
from `CustomerAssumption`: a provider tells phones, and the alias of a deleted user is
nobody's identifier (`privacyService.ts` prefixes it with `DELETED_`).  `RowsFine` says
what the rows must: who is named has an account or is an alias, or the row was written
when he had none and is audited or paid elsewhere; an invoice has the store and the user of the row it is about, and is
the only one about it.  `AddRow` and `RowsRenamed` are the two ways rows change.
`NewCounted` strengthens `NewOncePerAccount`: the logins answered "new" are at most the
cancellations and the account that is there now, which is what a login that adds the
account needs.

Part 4 proves `EntryFactsHold` for any number of decisions read, days and entries
(`ActivationAssumption`).  `EntryInv` says that entries are in order of days, none of
them in the future, and that the context is what the rows say.  The walk back from
today is a recursive function over days: `WalkExists` builds one from the runs of days
that every day has (`RunExists`), and `WalkIsRun` shows by the least day at which it
would not that it counts the run of days with entries.  The page read has the newest
entries, so a run that is longer than what was read is cut short and never longer
(`PageIs`, `RunIsMax`), and the day before the run that was read is the last one there
is (`LastDay`).

## 12. Reports: StoreRows, ReleaseGate, GateWhatIf, ExperienceGuard, DecisionLists, Experiment, StoreReports

`StoreRows` lets rows appear in any order: payments, confirmations, refunds,
invoices, decisions and previews, privacy calls, logins, with time passing between
them.  The report modules are operators over these rows, one per function of the
services, with rates in ten-thousandths as the code rounds them; `Experiment` also
has the configuration and the rollbacks as actions.  `GateWhatIf` works the gate out
once more with one row changed (`Invoiced`, `Refunded`, `Decided`).  `DecisionLists` has
the lists as sets of positions, which are in order of time.  `StoreReports` is the
specification that all of them are read off.

| run | what it shows |
|---|---|
| `reports_core` | `GateInvariant`: where the experience guard sees a risk customers are told and the gate says NO_GO (`RiskIsUnstable`), a healthy score is high (`HealthyScoresHigh`), and what the next row may do to the gate (`InvoicesNeverHurt`, `RecentRefundsNeverHelp`, `PreviewsNeverClear`); `PagesAreNewest`; `ExperimentInvariant`: `RollbackIsOnRecord`, `PassMeansGatesPass`, `GroupsAddUp`, and over a report's window the gate counts what the experiment counts for its two events, and previews and other events, and the governance centre's last day has no decision the experiment leaves out (`DecisionsAgree`) |

Bounds: the initial state chooses which rows appear.  For the gate two payments, two
decisions, one privacy call and three instants, of one customer, with refunds and
invoices; for the guard three payments and two privacy calls, also without an audit row,
and logins; for the lists four decisions; for the experiment a payment and a decision of
either of two customers, and three changes.  Six rows, instants and changes altogether
for the gate and for the experiment, five for the guard.  Windows are two instants long, the governance centre's day and the trend one (the
code's windows are never below seven days); the
thresholds on sample sizes are lowered through the store's own configuration
(`TenantGate`, as `tenantPolicies[m].releaseGate` does), so that small samples decide.

### Proofs

`ReportsProofs` proves, for any customers, amounts, windows, thresholds, weights, kinds
of decisions, buckets and caps and any number of rows, `GateInvariance`,
`ExperimentInvariance` and `PagesInvariance`.  The inductive part is small
(`ReportsInvariant`: rows are typed, of the past and in order, and the record of rollbacks
agrees with the configuration); what is hard is that the reports agree in every such state:

- rounding, rates, the uplift and the index grow with what they are made of
  (`RoundGrows`, `RateGrows`, `RateDilutes`, `UpliftGrows`, `IndexGrows`), worse figures
  make no gate better (`GatesWorse`) and worse gates no better a standing (`RankWorse`).
  A refund of a recent payment makes every figure worse (`RefundWorsens`), an invoice
  none (`InvoiceHelps`), and a preview leaves a failed gate failed (`PreviewKeeps`);
- the guard and the gate select the same rows (`SinceIsWithin`), so the guard's rates are
  the gate's (`TracePath`, `PrivacyPath`);
- the two groups of the experiment are disjoint parts of the store's rows, so that their
  sums add up (`GroupsShare`, `GroupsCount`);
- the newest rows of a list (`NewestUpwards`, `RecentAreNewest`).

Trying to prove `RiskIsUnstable` corrected it: as first stated it had every risk of the
guard be one of the gate.  The guard also calls three failed payments a RISK, whatever
share of the payments they are: among six hundred or more, the success rate still passes
the gate's threshold of 99.5%.  No small instance has that many payments, so TLC had not
seen it.  The property now asks of a payment risk that the success rate be below the
guard's own 90%.

## 13. What is proved and what is only checked

Proved for every value of the constants, with no assumption but the named ones of
their modules, which TLC evaluates on every run: every invariant, every property of
steps but `PaceKept`, and the refinement that the passing runs check (sections 3 to 12).
`PreviewsNeverClear` and `RecentRefundsNeverHelp` are proved under a hypothesis on the
weights (`NothingCountsAgainst`), for the code has none.

Only model-checked:

- `PaceKept` (section 6);
- liveness (`EveryRequestAnswered`, `StoreFlushReturns`, `NobodyWaitsForEver`,
  `DotsCatchUp`): TLAPS does not reason about `ENABLED`;
- the properties that are violated, `payment_ledger`, `decision_stackable` and
  `store_committed`: what they show is a counterexample.

## 14. Not modelled

- Policy schema, templates and normalisation; the request bodies' validation: pure
  functions over JSON.  State snapshots and contracts, dashboards, the merchant app's
  local engine: read-only projections.
- `supplierService.registerPartnerOrder`, `ledgerService.record` and `clawbackRefund`:
  nothing calls them.
- `evaluateDecision` beyond the row it leaves (in `StoreRows`), `runRetentionJobs`, the
  feedback summary, approvals and overview of the governance centre, the editing of
  automation rules.
- Token signatures, the providers' and the model's services (external), the parsing of
  the environment, the route tables, scripts and tests.
- The apps' layout, mappings, wording and the mini program's local quote.

## 15. Seen while modelling, without a run

- `paymentService.ts:213`: the idempotency namespace is the merchant; two customers
  whose clients draw one key share an answer, and the second is shown the first one's
  payment.
- `policyOsRoutes.ts:516`: the publish route takes a proposal's draft, so a proposal
  still PENDING may have a policy that decides events; and a proposal may stay APPROVED
  under an approval that has run out (`merchantService.ts:2365`).
- `docs/specs/mealquest-spec.md:386` has a repeated enable answer `alreadyEnabled`; the
  code asks for the strategy record's status ACTIVE (`merchantService.ts:2782`), which a
  proposal of the template overwrites, and publishes again.  The policy that counts as
  enabled (`merchantService.ts:2772`) is one with stored status PUBLISHED, which a policy
  past its time keeps until an event sweeps it.
- `defaultPlugins.ts:414`: the inventory check reads the cap the last reservation left,
  so a new version of a policy with more units never passes once the old one's are used
  up.  Fragments are granted again when an event is repeated.
- `paymentService.ts:510`: an order of 1.006 may be refunded with 1.01, an order below
  half a cent settles with no deduction, and a refund that ends in half a cent may put a
  cent into the wallet that no row shows, or leave the principal at -0.01 (section 3).
- `decisionService.ts:458`: an action that refuses after another gave takes the
  reservation back and not the grant (section 6).
- `postgresDb.ts:1041`, `serverHelpers.ts:1287`: a write answered while the saves of a
  cutover's copy are queued is overwritten by them (section 8).
- `createHttpRequestHandler.ts:216`: the response is sent before the flush, where
  `MealQuestServer/README.md:83` has writes flushed before the response.
- `privacyService.ts:126`: a cancellation leaves identity and phone bindings, tickets,
  notifications and preferences, and a payment waiting for the gateway can be settled no
  more.  Its token stays valid: calls of the cancelled customer write audit rows naming
  him, and pay where an alliance shares its wallet (section 11).  Copies to an alliance overwrite wallets.
- `preAuthRoutes.ts`: a code is used up even when the login answers 409.
- The mini program draws a new idempotency key at each tap, so a payment repeated after
  a lost answer is a new payment; two scans at once may leave home and account page with
  different stores.
- The merchant app clears the stored session when the store check at its start fails
  for any reason, and its back button does not stop an onboarding under way.
- `releaseGateService.ts:319`: previews count for the sample and may lift NEEDS_REVIEW
  to GO; one failed privacy call makes a store NO_GO; payments that are all pending make
  the technical gate fail.  A refund of an older payment improves the trend.  The
  experiment's risk fails without rows where the gate says REVIEW.  Three failed payments
  are a RISK to the experience guard among however many (`customerExperienceGuardService.ts:117`).
- `automationService.ts` asks for 600 decisions and gets 200
  (`policyRegistry.ts:530`); the outcome filter comes after the cut.
