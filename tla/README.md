# Preo in TLA+

Preo pays a user's payroll into a private ledger (Daml on Canton), splits it by
the user's policy, and lets an agent carry out the parts that leave the ledger,
some of them only after the user approved. These modules model that path from
the vault's events and the pages of the web application over the server to the
transfer of the money, as the code under `src/` has it.

## The system

| Component | State | Operations | Talks to |
|---|---|---|---|
| Daml ledger, `daml/Preo/` | active contracts: notices, credits, policies, runs, balances, pending actions, receipts, portfolio records | create of each template, 18 choices | - |
| Policy engine, `packages/policy-engine` | none; loops over categories | `validatePolicy`, `allocateAtomic`, `requiresApproval`, `buildAllocationPlan` | called by the canton client, routes and UI |
| Shared schemas, `packages/shared` | none | zod schemas of requests | all routes |
| Canton client, `packages/canton-client` | none live; in demo mode an in-memory ledger | create, query, exercise; `demo*` | JSON API of Canton, policy engine |
| Orchestration, `apps/web/lib/orchestration.ts` | Prisma tables `PolicyCache`, `FundingIntent`, `CantonContract` | `createPolicyForUser`, `createPayrollCreditFromFundingIntent` | canton client, Prisma |
| Funding routes, `app/api/funding`, `app/api/demo/employer` | `FundingIntent`, `EvmEvent`, `WebhookEvent` | checkout, webhook, direct deposit, Blink session, verify-deposit, send-payroll | orchestration |
| Agent and approvals, `app/api/agent`, `app/api/approvals` | `AgentAction` | approve, reject, execute-approved-action | canton client, agent wallet |
| Allocation and policy routes | - | run, validate, create policy | canton client, orchestration |
| Users, demo parties, bootstrap, reset | `User`, `DemoParty`, party and profile on Canton | ensureBootstrappedUser, reset, full demo flow | canton client |
| Funding vault, `contracts/contracts` | supported tokens, agents, paused, token balances | deposit, record, withdraw, pause, admin | ERC-20 tokens |
| Dynamic integration, `packages/dynamic-integration` | none | agent wallet, Flow HTTP client | EVM chain, Dynamic |
| UI, `apps/web/app/ui/product.tsx` | identity, policy form, busy flag, contract ids in localStorage | pages and their buttons | routes |
| Environment, `lib/settlement.ts`, `blink.ts`, `dynamic-env.ts`, health routes | variables of the process | which contracts, signer, ledger and wallet are used | all routes |
| Views | none | read-only queries | canton client |

What is hard to test here:

- every `await` of a route is a point where another request may run; the code
  checks and acts in separate calls to Prisma, Canton and the wallet, without a
  transaction around them (double reports, double execution);
- calls fail after they took effect, requests die half way, providers retry;
- Daml choices replace contracts, so ids that clients hold go stale; all choices
  are `nonconsuming` and archive by hand;
- one decision (does this line wait for approval?) has two implementations;
- amounts are rounded, and the last line takes what is left;
- the demo ledger re-implements the Daml templates, lives in memory, and hands out
  the same ids again after a reset or a restart, while tables and browsers
  remember the old ones;
- a user's rows are written and deleted in many calls, beside other requests;
- events of a contract are taken for evidence of money, though some of them move
  none, and a transaction may hold several;
- demo and live parts are chosen separately, each from its own variables;
- a page's answer arrives when the form, the user or the page has changed.

`PROJECT.json` lists each hazard with its line and the properties that cover it.

What makes each part correct:

- *ledger*: a contract lives in one version, a credit is spent once, a gated line
  releases money only through its executed action, and every line that may
  release it does, the lines of a run add up to its credit;
- *engine*: no line is negative or off by more than rounding, the parts make the
  whole, a share that reaches a rule's threshold waits for approval;
- *settlement*: a payment becomes one credit, rows name only credits that exist
  and belong to their user, nothing is marked done before it is;
- *demo server*: allocated money is in one place, but for what rounding explains, a
  user who saved policies has an active one, the ledger and the cache agree on it,
  nobody disturbs another user;
- *vault*: it holds what its deposits say, and the server stores only evidence of
  the vault it trusts;
- *environment*: a health route promises what the routes keep;
- *pages*: what is saved is what was clicked, and what is remembered exists;
- *agent*: an `executed` row means Canton executed this action with this
  transfer as its evidence, checked transfers were approved, rows get closed.

## Modules

### ApprovalGate, PayrollLedger (Daml)

`ApprovalGate` is the promise: actions are opened pending, decided once, executed
only when approved, and release their money in that step or never.

`PayrollLedger` is the ledger. One variable per template holds its live
contracts; a contract id is a pair (transaction, position). One action per choice
or create command, named after it, each a whole Daml transaction: `assertMsg` and
`ensure` are guards, `archive self; create this with` is `Replace`. The bodies of
`createArtifactsForRule` appear as the set of lines that get a balance, an action,
a receipt or a record. `MarkAllocated` occurs inside `ExecuteAllocation` and, as
`MarkUnused`, on its own. Amounts are multiples of 1/10000, so that Daml's
`Decimal` shares of small amounts are exact. Two fields are history: `root` is the
id of the first version of a contract, `line` the line of the allocation it came
from; `allocations` remembers what was allocated. `tx` numbers transactions and
is bounded by `MaxTx`. Which parties may see or sign a contract is reduced to who
may exercise what.

### AllocationEngine (policy engine)

The three loops of `buildAllocationPlan`, one iteration a step: `CheckCategory`,
`AllocateLine`, `RouteLine`. Amounts are integers in the precision of the API (six
decimals). An asset is its precision: `dust` amounts make a unit of an asset with
fewer decimals, `finer` units make an amount of one with more (`assetDecimals`: 10^4
for two decimals, 10^12 for eighteen), and what makes no unit is cut off as in
`parseAmountToUnits`. The doubles in which the engine compares and returns amounts
are taken as exact; they are for amounts of up to about 10^9 in assets of six
decimals, and carry some 16 digits of finer ones. `running` is history: the partial sums of the percentages.

A last category of 0 bps gets what rounding left, although validation warns that it
"will receive no allocation": the split and the warning
disagree (`policy-engine/src/index.ts:253` and `:212`). `SharesFair` states what the
split does, and bounds that residual.

### SettlementAttestor (funding routes and orchestration)

Requests are served by `Handlers`; each holds the local variables of the route it
runs and a `pc`, and every `await` is one step. Requests that make one database
call are a single action. `Abort` is a call that rejects or a server that dies: the
request ends where it is, the rows stay. `credits` and `audited` stand for Canton,
the other variables for Prisma tables. Payments are what really happened; `answered`
and the `pay` fields are history and read by no guard. Reports enter decoded and
with a valid signature.

### AgentExecution (execute-approved-action, approvals)

Built the same way. A pending action has a live `version`; a request may name any
version up to the live one. `SendTransaction` may fail after the broadcast,
`ExecuteApprovedAction` after Canton took it, `FailedCall` is any other call that
fails, `Crash` a request that dies without its `catch`. It, too, implements
`ApprovalGate`.

### DemoLedger, DemoServer (demo ledger, users, policies, demo flow and reset)

`DemoLedger` has the in-memory ledger of `canton-client` as operators: a ledger is
the sequence of all contracts ever created, each `live` until archived, so that
the counter of the code is the length of the sequence, and `resetCantonDemoState`
is `<<>>`. `visibleTo` filters what a party may fetch; `demoExecuteAllocation`
checks, then walks the buckets of the engine's plan in the order of its loops,
with the engine's own operators (`Engine(...)!`, an instance of
`AllocationEngine`), for assets of any precision; `formatAmount` rounds the units of
a line to the six digits of a contract. Which half of an amount `toFixed(6)` rounds up
depends on the double nearest to it; `RoundedUp` is the set of amounts where it does.
The recipient of a category is any party, also that of another user (`NoParty` for
none), and sees the receipt. `dashboard` and `partyView` are the queries of the views.

`DemoServer` is the server over that ledger and the tables. A request is the list
`todo` of the calls its route still makes (`Steps`), each call one action with the
name of the function or of what it does; the constants `Workloads` and
`Concurrency` say which requests come and how many at once. Ids in requests are
those of any contract on the ledger, archived ones included. `Fail` is a call that rejects, `Restart` loses
the ledger and the requests and keeps the tables. Facts of the code that show in
the model: a payroll intent without a transaction id takes any earlier credit of
the user (`FindCredit`), so a second full flow reuses the old credit and fails at
the allocation; after a restart intents still name lost credits; the engine's
new-recipient rule never fires, since the client passes no recipients
(`canton-client/src/index.ts:741`); a payment at once without a recipient party
leaves no contract (776), and neither does an executed action of a gated reserve or
hold (676-703), which `LedgerConserves` counts by the run and by the action. It counts
runs that are archived too: after a reset ids are handed out again, so a request from
before it may execute, and archive, an allocation run that is not the one it made.
It also counts what each run lost (`lost`): digits an asset cannot hold, and what
rounding lines to six digits takes or adds; and it bounds that loss (`lostLittle`).
The table of Canton contracts is written and never read; only its foreign key is
modelled.

### Environment, FundingVault (vault, evidence, configuration)

`Environment` has the functions that read environment variables, as operators over
a record `env`; a variable is unset, invalid or a value. `SETTLEMENT_CHAIN_ID` is
read without a check: an invalid one is NaN, with which the configuration is made and
every comparison of `sameChain` fails. `FundingVault` extends it
with vaults on a chain: one action per function of `PreoFundingVault.sol`, its
modifiers and reverts as guards. `call` collects the events of an open transaction
and `Mine` publishes them, so that one receipt can hold several deposits, also of
several vaults. `VerifyDeposit` is the evidence part of the verify-deposit route
(decode, select, store); `SettlementAttestor` has what follows. The library's
`safeTransfer` is a transfer that moves the amount or reverts; a withdrawal may pay a
vault, also the one it comes from. `everAgents` is history.

`ReadinessHonest` ends where a variable cannot be parsed. The health route of Blink
looks only whether there is a merchant key, and neither it nor the settlement
configuration asks whether `SETTLEMENT_CHAIN_ID` is a number: with a key that is none,
or a chain id that becomes NaN, it reports a ready signer, and sign-payment (with such
a chain id verify-deposit too) answers an error to every request. No check promises
otherwise.

### ProductPages (product.tsx)

One browser tab: identity, the mounted page with its `useAsyncState`, the policy
form, `localStorage`. A click captures user, form and reference, as the closures of
React do; `Serve...` is what the server makes of it, `lost` an error or a lost
answer, and `Answer` the continuation in the page: `Catch`, `PostPolicy` (the
second request of Save), `Remember`, `Clear`, `SetBlinkRef`. An answer for a page
that was left changes `localStorage` and no page. The server is reduced to the
contract ids it has. An earlier credit that the server answers again may be one that a
reset of another user took from the ledger, whose counter all users share: it is not
counted as known again. `saves`, `validated`, `left`, and `taken`, that such a reset
happened, are history.

### Sums

`SumOver(f)`, the sum of a sequence, by a recursive function. The ledgers add up
shares and lines with it, the engine's and the vault's properties lines and logs.

`MC*` modules give the constants: policies, payments, amounts.

## Runs

| Run | Bounds | Shows |
|---|---|---|
| `ledger_core` | 1 user, 2 policies (rent and an investment, both gated; bad sum), 7 transactions | `OneLiveVersion`, `CreditAllocatedOnce`, `ReleaseNeedsApproval`, `ClearedIsReleased`, `RunConservesCredit`, `ActionLifecycle` |
| `ledger_choices` | 2 users (symmetric), 1 employer, rent gated and an investment at once, every choice, 6 transactions | `TypeOK`, `LedgerInv`, `AllocationOwned`, `GateImplemented` |
| `ledger_zero` | as core, a gated 0 bps category | refutes `ValidPolicyAllocates` |
| `ledger_rules` | as core, an approval rule without flags | refutes `ApprovalRulesRouted` |
| `engine_plan` | 11 policies, amounts 1..40, assets with as many decimals as amounts, one fewer, one more | `TypeOK`, `SharesFair`, `SplitConserves`, `LargeSharesWait`, `PlansAreValid` |
| `settlement_routes` | 4 payments of 2 users, 3 requests, 2 at a time, 1 failing | `TypeOK`, `NamedCreditIsGood`, `ProcessedIsCredited`, `CreditedOnce`, `CreditKept`, `SettledIsCredited` |
| `settlement_lost` | 2 direct deposits, one request at a time | refutes `PaymentsCredited` |
| `agent_route` | 1 action, 3 requests, 2 at a time, 2 faults | `TypeOK`, `ExecutedIsBacked`, `CheckedTransferApproved`, `TransferredOnce`, `RowsClose`, `GateImplemented` |
| `agent_stale` | 1 action, one request at a time, no faults | refutes `TransfersApproved` |
| `demo_server` | 2 users (symmetric), 10 workloads of 2 to 6 requests, 2 at a time (payrolls and full flows alone), 1 fault, 3 policies that pay either user or nobody, 4 payrolls of 3 assets | `TypeOK`, `LedgerConserves`, `UserKeepsPolicy`, `SerialUserConsistent`, `OthersUndisturbed` |
| `vault_evidence` | 1404 environments; for one of them 2 vaults, 2 tokens, 2 users (symmetric), owner and agent, 4 calls, 2 per transaction, 3 events, 2 rows | `TypeOK`, `DepositsAreHeld`, `VerifiedIsBacked`, `ReadinessHonest` |
| `product_pages` | mock and live wallet, 1 person, 4 pages, 3 clicks, 2 edits, 2 turns, 5 of these together | `SavedIsValidated`, `StoredIdsKnown`, `BusyEnds` |

Why the bounds are enough: seven transactions are credit, policy, run, allocation,
approval, execution and one more (a second credit, a re-executed run, an update in
between, the other line's decision); six reach every choice of every template, and
two decreases of one balance. Three
requests, two of them overlapping, are a report, its duplicate and a third that
meets the result; two faults are a broadcast that failed followed by a failed
retry. Forty amounts against thirds of 10000 give every residual. The factor of a
two-decimal asset is 10^4 in the code and 10 in the runs, where it truncates as
well; that of an eighteen-decimal asset is 10^12, and 10 in the run of the engine,
10^4 in that of the server, where shares of six amounts have halves that
round either way and others that round up and down. The demo workloads are chosen by
what meets: logins and a reset, two saves and a reset, allocations of one credit,
decisions of one action, two payrolls, and the full flow with each of these; two
users are needed for ids that change hands, one fault for a request cut off or a
ledger lost in the middle. Money routes run alone because their overlaps are
`SettlementAttestor`'s. Four calls on the vault are: authorise, record, revoke,
and one more, or deposit, withdraw, delist, withdraw; two vaults distinguish the
trusted one. The environments vary together those variables that one function
reads together, one family each for signer and wallets, over all settlement
variables, the chain id among them. Five uses of a tab are a login, an edit, a save, another edit or user
and another click meanwhile. Two of the four category types are in its form; the
check that an investment has a target (`portfolioTarget`), which the other two would
add, is left to `engine_plan`.
All bounds are constants and guard the actions that would pass them;
behaviours that end there are no deadlock of the system, so these runs do not check
for it. `engine_plan` has no such bound and checks deadlock.

Fairness: in `ProductPages`, `WF` on `Progress`: `fetch` settles, with an answer or
an error, and its continuation runs; the user owes nothing. `BusyEnds` rests on it.
In the routes, `WF` on each handler's steps, not on arrivals, decisions, aborts or
crashes. The server runs on an event loop that resumes a request when its call
returns, and calls return or reject. Where a call may fail, the liveness
properties say so: `SettledIsCredited` and `RowsClose` promise nothing once a
request was cut off, since the code has no job that repairs rows.

Two properties hold only of undisturbed behaviours, and say so. `CreditedOnce` and
`TransferredOnce` fail when requests overlap or are retried after a failure,
because the code checks and acts in separate steps; the `disturbed` variable marks
exactly these behaviours. What does hold under all disturbances (`NamedCreditIsGood`,
`ProcessedIsCredited`, `CheckedTransferApproved`, `ExecutedIsBacked`,
`GateImplemented`) is stated without it.

Two more say what they leave out. `SerialUserConsistent` excludes users who had two
requests at once or one cut off: overlapping logins make two profiles, overlapping
saves two active rows, and nothing repairs them; it holds through restarts and the
resets of others, and `UserKeepsPolicy`, `LedgerConserves` and `OthersUndisturbed`
hold with overlaps too. `StoredIdsKnown` excludes behaviours that left a page with a
request under way, and those in which a reset took a credit that another user's row
names (`taken`), and assumes a server that does not restart: ids in `localStorage` do
not name their user. The run has one person, the proof any number.

`vault_evidence` and `demo_server` check safety only.

Refuted claims, with what each run finds, are under `findings` in `PROJECT.json`.

## Proofs

Checked by TLAPS for all values of the constants.

`Sums_proofs`: what `SumOver` computes. The library's induction theorems take a
predicate as a parameter, which the provers cannot instantiate, so induction is over
a set instead: strict inclusion is well founded on finite sets, hence a nonempty set
of numbers has a least one (`LeastNumber`), hence a set with 0 that is closed under
successors has all numbers (`NatInductionSet`). By it the recursive function exists,
sums are integers, an element more adds its value (`SumLonger`, `SumAppend`), a
common factor can be taken out (`SumScaled`), sums add up element by element
(`SumsAdd`), and replacing an element adds the difference (`SumReplaced`).

`PayrollLedger_proofs`. Most safety properties are not inductive: that an executed
action releases what its line said needs to know that no other line has its id, so
`LedgerInv` adds `IdsAreOld` (every id on the ledger is of an earlier transaction),
`ActionsGateLines` (a pending action stands for one gated line and has its
recipient and portfolio) and `NoEarlyRelease` (nothing released for an unexecuted
action). One lemma per action shows that it keeps types, another that it keeps the
rest; the lemmas on `Replace` are shared. That what an allocation leaves behind
belongs to its user needs that no older allocation has the id of the run being
executed (`OwnedInv`), and that the lines add up is `SumScaled` applied to the
shares a policy must have. Assumptions: those the module names, that users, amounts
and policies are of their types and amounts positive.
Theorems: `LedgerInvariant`, `TypeCorrect`, `OneLiveVersionHolds`,
`CreditAllocatedOnceHolds`, `ReleaseNeedsApprovalHolds`, `ClearedIsReleasedHolds`,
`AllocationOwnedHolds`, `RunConservesCreditHolds`, `ActionLifecycleHolds`, and
`GateImplementedHolds`, the refinement. Under the mapping a
gated line has the status of its action and is released when a receipt or record
carries it; each choice is shown to be a step of the gate or a stutter, using
`LedgerInv` before and after.

`AllocationEngine_proofs`: `EngineInvariant`, `TypeCorrect`, `SharesFairHolds`;
`PlanInvariant`, `SplitConservesHolds`, `PlansAreValidHolds`,
`LargeSharesWaitHolds`. `EngineInv` carries the partial sums: 10000 times what
was given out is at most the total times the percentages so far, and lags behind it
by less than 10000 for each line. From it follow a last line that is never negative
and never more than rounding explains. `PlanInv` carries what the loops have done so
far: the ids of the categories seen are apart and in the set of ids, the units given
out are the sum of the lines, and each line routed is in the bucket its rules name. That a share which reaches a
threshold waits needs the bound of `EngineInv` on the residual, and that a threshold
of whole units below the exact share is below the share rounded down.

`SettlementAttestor_proofs`: `TypeCorrect`, `NamedCreditIsGoodHolds`,
`ProcessedIsCreditedHolds`, `CreditedOnceHolds`, `CreditKeptHolds`, for any payments,
requests and aborts. What a request holds in its local variables was read before an
`await` and is used after it; `AttestorInv` says for each `pc` why it is still true
(`knows`): rows and contracts only grow (`Grows`), no two handlers work on one
delivery (`DeliveriesApart`) and no two intents have one transaction (`TidsApart`).
`CreditedOnce` needs a second invariant, `OnceInv`, over undisturbed behaviours:
either nobody is under way and every credited payment would be found again, or the
one request under way is about to make it so. `CreditKept` follows from `Grows` and
from who may name a credit.

`AgentExecution_proofs`: `TypeCorrect`, `ExecutedIsBackedHolds`,
`CheckedTransferApprovedHolds`, `TransferredOnceHolds`, and `GateImplementedHolds`:
the route implements `ApprovalGate`, step by step, whatever fails. `AgentInv` has
again what a request remembers (`HandlersKnow`); that each request writes a row of
its own (`RowsApart`) and only the one that Canton let execute an action will claim
it (`ClaimsAlone`); and where the single request of an undisturbed behaviour is when
its action is paid and not executed (`Undisturbed`).

`FundingVault_proofs`: `TypeCorrect`, `DepositsAreHeldHolds`,
`VerifiedIsBackedHolds`, `ReadinessHonestHolds`, for any
vaults, tokens, accounts, environments and length of history. A payroll recorded by
an agent is stored later, when the agent may
have been removed, so `VaultInv` remembers from the call on who emitted each log
(`EmittedByAgents`); that a second user who verifies the same log takes over a row
and no evidence needs that the row is the only one of its log (`RowsUnique`) and that
a server makes all its deposits up or none (`RowsOfOneKind`). One lemma for all calls
(`CallInv`) says what a call must leave in order, and each function of the vault is
shown to meet it. `DepositsAreHeld` is inductive among typed states: a call appends
one log at most and moves at least what it says (`LoudHeld`, `QuietHeld`), mining
moves a sum from the open logs to the mined ones. `ReadinessHonest` needs that what
was signed would be signed again (`SignedTrusted`); the rest is cases over the
environment. Assumptions: addresses of vaults and accounts differ, the placeholder
contracts of the demo are not on the chain, a refusal is no other answer.

`ProductPages_proofs`: `SavedIsValidatedHolds`, `StoredIdsKnownHolds`, for any
people, forms and number of clicks. A request carries what was clicked on
(`CarriesClick`), and once it may be posted, what was found valid (`CarriesValid`).
As long as no page was left with a request under way, all requests are of the
mounted page, which has one at most besides those of the Blink button
(`OneAtATime`); so a reset never runs beside a request that brings ids, and what is
stored is known unless a reset is still to be answered (`KnowsIds`). A credit the
server names is one it knows, unless a reset took another user's (`CreditsKept`).

`DemoServer_proofs`: `TypeOKHolds`, `LedgerConservesHolds`, `UserKeepsPolicyHolds`,
`OthersUndisturbedHolds`, `SerialUserConsistentHolds`, for any users, policies, workloads, concurrency, failures and
restarts. The invariant has two halves. `TablesInv` is about rows and requests: what a
request remembers fits the calls it still has to make (`Fits`, with the four calls of a
save in their place, `SavesAt`), and a user with rows has an active one or a request
that has deactivated the rows and will save one (`PolicyOrSave`), whichever reset or
other save comes between. The ledger half uses one relation, `Grown`: a call leaves the
contracts there are, but for archiving its own user's, adds contracts of that user, and
changes what these hold by a number. For every call but the reset the number is 0.
Creations hold nothing; an allocation turns its credit into the lines of the
plan, whose units add up to those of the credit (the engine's loops as sums,
`SumsAdd`), whose amounts are the units but for a half each (`FormatRounds`, and
`SumBounded` for all of them), and which the loops over the buckets visit once each
(induction over the lines by `NatInductionSet`); a decision replaces an action by one that holds as much, and an
execution by what it pays or invests. From `Grown` follow `LedgerConserves` and
`OthersUndisturbed`: contracts of one user change no query of another, but for
receipts that name the other as recipient.
`SerialUserConsistent` needs an invariant of its own, `SerialInv`, over the users whose
requests neither overlapped nor were cut off. For their one request it says what each
call leaves for the next (`Fine`): the version taken is above all rows, none is active
between deactivation and caching, the new policy is the newest on the ledger until its
row is there (`SaveFine`), a reset has deleted what is of the row before the row
(`ResetFine`), and no profile is there when one is about to be created. Between
requests, the active row is that of the newest policy, or the ledger has none
(`Settled`). `Follows` says what the calls of others do to this: they leave the policies
of the user as they are, or a reset of theirs takes all of them away. That a reset
consists of its seven calls and a profile is created right after it was asked for
comes from `Steps` (`Shapes`). Assumptions:
the parties of the demo are no users (their ids are fixed in `demo-parties.ts`, those
of users come from the login), and submitted policies and payrolls have the form the
request schemas ask for (`PolicyForm`, `PayrollForm`: a whole number of 10^-6, which
those schemas parse).

Only model-checked: liveness (`SettledIsCredited`, `RowsClose`, `BusyEnds`), which the
provers cannot express: it rests on fairness and `ENABLED`.

## Plan

1. Done: ledger and gate with proofs; engine with proofs; settlement; agent.
2. Done: `createPolicyForUser`, the policy and allocation routes, the demo ledger,
   users, demo flow and reset, in one module, `DemoServer`, since they meet in the
   same rows; the comparison with `PayrollLedger` is `LedgerConserves`, as the two
   ledgers create different contracts.
3. Done: the vault, its evidence and the environment; the pages.
4. Done: proofs of every safety property of the ledger, the gate, the engine, the
   settlement, the agent, the vault, the pages and the demo server.

## Not modelled

Daml: the Archive choice all templates have and no code here exercises, and privacy
(which party sees which contract) on the live ledger; `UserProfile` and
`OperatorAuditEvent` only as contracts of the demo ledger. Client: requests to the
JSON API of Canton, template ids with a package prefix, and which of the two ledgers
an environment selects (`isLive`); nor when a webhook may come unsigned, nor the wallet
mode of the browser (`dynamic-env.ts`). The direct-deposit route makes up its
transaction hash on a live ledger too; nothing here says that made-up evidence stays
off one. Chain: reorganisations,
allowances, tokens that charge on transfer, ownership transfer. Providers: HTTP,
the encoding of keys, signatures, payloads and events; a report or log enters
decoded. UI: markup; the Flow checkout, whose answer is only displayed; pages and
animations with made-up data (landing page, user flow, agentic allocation, the
dashboard, approvals, portfolio and privacy pages of `product.tsx`), which keep no
state that matters; `dashboard.tsx`, which no page imports. Read-only routes
(history, status, views) beyond the queries of `DemoLedger`. Request schemas but for
policies. Text, dates and logging.
