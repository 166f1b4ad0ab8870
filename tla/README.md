# Verification of the nao backend

TLA+ models of the parts of nao that keep shared state consistent while several processes, requests, webhooks and
background jobs work on it: what they do is model-checked with TLC on small instances, and the properties that matter
most are proved with TLAPS for every size. Paths below are relative to `src/apps/backend/src/` unless they start with
`src/`.

Contents: [the system](#the-system) · [modules](#modules) · [how the models read the code](#how-the-models-read-the-code)
· [runs](#runs) · [fairness](#fairness) · [proofs](#proofs) · [disagreements](#where-the-code-and-the-repository-disagree)
· [not modelled](#not-modelled) · [plan](#plan)

## The system

The backend is a Node process, run as several replicas over one Postgres database, or as a single process over SQLite.
Replicas share nothing but the database: rows, conditional updates, row locks and leases are the only coordination, and
between any two awaits of one function every other request, job and replica may act. The web client, chat platforms,
Stripe, GitHub and the model providers are its environment.

| component | state | operations | interacts with | what is hard | what makes it correct |
|---|---|---|---|---|---|
| Job scheduler (`services/scheduler.service.ts`, `queries/scheduled-job.queries.ts`) | rows of `scheduled_job`; the executions in memory | enqueue, upsert, delete, poll and claim, execute, complete, reschedule, retry, reclaim | runs the handlers of all the components below; edited by requests | claims of several replicas on stale candidates; crashes with rows running; edits in the middle of an execution; the retry budget | one execution of a job at a time; budget kept; a recurring job is never dropped; orphans are reclaimed; one-off jobs end |
| Credit wallet and ledger (`queries/credit-ledger.queries.ts`, `agents/managed-ai.ts`, `handlers/managed-credit-lifecycle.handler.ts`) | `credit_wallet`, `credit_ledger`, `managed_ai_usage` | purchase, grant, reserve, settle, release | model calls, the Stripe webhook, members joining, a lifecycle job | row locks taken one statement at a time; settlement against release; idempotency keys; reservations nobody settles | balance = sum of the ledger; settled or released, never both; grant limit; no overdraft; lost reservations return |
| Warehouse provisioning (`services/warehouse-provisioning.ts`) | `warehouse_provisioning_job` with lease and attempts; a project, a repository at GitHub | start, provision, context, finalize, cancel, retry, roll back, reconcile | user requests; the reconciler of every replica; GitHub | leases and takeover; cancel at any await; undoing what was created outside the row; crashes | one driver; ready keeps its project; failed leaves nothing; cancelled stays; setups end |
| Story refresh and delivery (`handlers/story-*.handler.ts`, `services/story-delivery.service.ts`, `services/notification.service.ts`) | `story`, `story_delivery`, two kinds of `scheduled_job` rows with a payload | deliver on a schedule or on refresh, retry, edit settings | scheduler, keyed lock, mail and chat platforms | partial delivery; retry payload; two paths that exclude each other by settings edited concurrently | nobody twice, everybody once; one path; retries go on until their attempts are used up |
| Keyed lock (`utils/keyed-lock.ts`, `queries/keyed-lock.queries.ts`) | map of promises (SQLite) or `keyed_lock` row (Postgres) | acquire, renew, release, expire | billing, story refresh | chained continuations; lease arithmetic; crash of the owner | both are one mutex; first come first served in memory; polling ends |
| Billing reconciliation (`services/billing-reconciliation.service.ts`, `services/billing-lifecycle.service.ts`) | `organization_billing`; subscriptions at Stripe | claim, list, carry the trial end, write, cancel the placeholder, provision | webhook jobs, admins, the hourly lifecycle job, Stripe | overlapping reconciliations; Stripe changes between list and write; crash before the cancel | the row never goes back; it catches up; the placeholder goes once, and only once, the paid one is shown |
| Refunds and disputes (`handlers/stripe-webhook.handler.ts`, `queries/credit-ledger.queries.ts`) | movements of a purchase on the ledger | read from Stripe, set the movement | webhook events, retries | events out of order, twice, or before the purchase is credited | the movements hold what was refunded or withdrawn, and no more than the purchase |
| Agent runs of a chat (`services/agent.ts`, `handlers/agent.ts`, `trpc/chat.routes.ts`, `queries/chat.queries.ts`) | `_agents` in memory; `chat_message` rows with versions and supersedings | send, edit, run, finish, stop, cancel, switch versions, delete | client, messaging, story routes that refuse edits meanwhile | a late finish of an older run; cancel against registration; edits of edits | the registry tells who runs; whole turns, one version, nothing lost; a cancel takes the empty turn only; stops take effect |
| Automations (`handlers/automation.handler.ts`, `trpc/automation.routes.ts`, `queries/automation.queries.ts`) | `automation`, `automation_run`, their `scheduled_job` row and chats | trigger by schedule, webhook or button; run, cancel, fail stale; schedule, pause, transfer, delete | scheduler, agent runs | requests in several statements while the scheduler runs the job; crash; hand-over during a run | a run ends once, and does end; no job without its automation; the owner reads the history |
| Metered model streams (`agents/managed-ai.ts`) | one recording per call, in memory | open, read, finish, fail, abort, cancel | wallet and ledger, model providers, agent runs | five ends that race, the recording of one still being written | charged once, for the end that came first; every call comes to its settlement |
| Live stories (`services/live-story.ts`, `services/local-query.service.ts`, `services/query-result.service.ts`) | the runs and results of one refresh, in memory; the story's data cache | load upstream queries, run each once, read, cache | warehouses, the local engine, metered calls for the text | promises that wait for each other; a shared map of results; circular and dangling references | fresh rows; one run per query; the refresh ends |
| Context recommendations (`services/context-recommendations.*.ts`, `queries/context-recommendation.queries.ts`) | `context_recommendation`, their links to downvotes, runs | start, run an agent, reconcile, cover downvotes, settle links, cancel, give up stale runs; dismiss, apply, reopen | scheduler, an agent, administrators, users who vote | read, work for minutes, write; two runs at once; a run that was given up and works on | a run ends once, and does end; what was read as dismissed stays so; downvotes keep a recommendation |

The components without state shared across requests, or whose correctness is somebody else's, are listed under
[not modelled](#not-modelled), and every part of the system, modelled or not, in `PROJECT.json`.

## Modules

| module | models | checked by | proved in |
|---|---|---|---|
| `Scheduler` | the scheduler: rows, poll loop, executions, reclaim loop, callers | `MCScheduler` | `Scheduler_proofs` |
| `CreditLedger` | wallet and ledger, callers, grants, the lifecycle job | `MCCreditLedger` | `CreditLedger_proofs` |
| `MeteredStreams` (EXTENDS `CreditLedger`) | both kinds of metered model call, from the reservation to the recorded usage | `MCMeteredStreams` | `CreditLedger_proofs` |
| `WarehouseProvisioning` | one user's setups, their runs, reconciler, leases | `MCWarehouse` | `WarehouseProvisioning_proofs` |
| `StoryDelivery` | the delivery of one story, its settings and its retries | `MCStories` | `WithKeyedLock_proofs`, which also holds the proofs about what runs under the lock |
| `StoryPromises` | what the delivery of a story promises: the two properties that are proved | `MCStories` | `WithKeyedLock_proofs` |
| `StoryQueries` | one refresh of a live story | `MCStories` | – |
| `Stories` | deliveries and refreshes, side by side | `MCStories` | – |
| `LockCalls` | what both locks are called with | – | – |
| `Mutex` | abstract: what `withKeyedLock` promises its callers | through the two below | – |
| `InMemoryLock` | `withInMemoryLock`, refines `Mutex` | `MCKeyedLock` | `WithKeyedLock_proofs` |
| `KeyedLock` | `withDatabaseLock`, refines `Mutex` | `MCKeyedLock` | `WithKeyedLock_proofs` |
| `WithKeyedLock` | `withKeyedLock`: the dialect decides which of them | `MCKeyedLock` | `WithKeyedLock_proofs` |
| `BillingSync` | reconciliations of one customer, and Stripe | `MCStripeEvents` | `StripeEvents_proofs` |
| `PurchaseMovements` | refunds and disputes of one purchase | `MCStripeEvents` | `StripeEvents_proofs` |
| `StripeEvents` | the jobs of Stripe events, which lead to one of the two | `MCStripeEvents` | `StripeEvents_proofs` |
| `AgentRuns` | the runs of one chat and the versions of its messages | `MCAgentRuns` | `AgentRuns_proofs` |
| `Automations` | one automation, its job, runs and chats | `MCAutomations` | `Automations_proofs` |
| `ContextRecommendations` | the analysis runs of one project | `MCRecommendations` | `ContextRecommendations_proofs` |

`StoryDelivery` takes from `Scheduler` that a row is claimed by one worker at a time and handed out again after a crash
(`MutualExclusion`, `JobsGoOn`), and so does `Automations`; `BillingSync` and `PurchaseMovements` take from it that a
failed job runs again, `ContextRecommendations` that its job comes back.
`CreditLedger` and `PurchaseMovements` share the ledger: the first has the entries that calls and customers make, the
second those that take a purchase back.

`MeteredStreams` composes with `CreditLedger` step by step: a call of the middleware is a call of the ledger, and the
settlement it awaits is the ledger's. `Stories`, `StripeEvents` and `WithKeyedLock` put two components side by side that
share no state (`concern`, `dialect`): a behaviour is about one of them, and the other keeps the state it began with.

In each module the definitions called *Variant* differ from the one after them as a plausible mistake would; no action
uses them. They show that the properties notice the mistake.

## How the models read the code

One action is what runs between two awaits: one SQL statement with the JavaScript after it, or one transaction where a
transaction reads and writes without taking row locks in between. Phases of an execution are named for what it does
next. Ids, payloads, amounts and names are model values or small numbers; formatting, logging, error texts, credentials
and rendering are left out.

**Scheduler.** `row[id]` is a row of `scheduled_job`. `runIn` and `lockAge` are `run_at - now` and `now - locked_at` in
ticks, so that behaviours of any length have finitely many states. `poll[w]` is a call of `claimDueJobs` with the
candidates it selected, `exec[c]` an `executeJob` with the job it carries (a copy that goes stale), `caller` one request
inside `upsertRecurringJob`, between its SELECT and its write. `Poll`, `ClaimNext` and `PollDone` are `claimDueJobs`;
`StartExecuting` .. `RetryFailed` are `executeJob`, `onJobSuccess` and `onJobFailure`; `Reclaim` is `reclaimStaleJobs`.
Crashes end all executions of a process; any statement may fail, and each failure goes where the code's catch sends it.
Left out is that a cron has no next tick when a job is rescheduled, which fails the job
(`services/scheduler.service.ts:188`, `:205`): whatever writes a cron, `ensureRecurring` (`:60`) and the routes of stories
and automations, refuses one without a next tick.

**CreditLedger.** `balance`, `sequence` and `ledger` (by idempotency key) are the tables. Transactions run as on
Postgres: each `SELECT ... FOR UPDATE` is a step that takes `rowLock` or `walletLock`, and the last step writes and
commits. SQLite's `BEGIN IMMEDIATE` gives a subset of these behaviours. `call[o]` is the model call, `sweep[s]` the
lifecycle job over the reservations it listed.

**MeteredStreams.** `stream[o]` is what `wrapGenerate`, `wrapStream` and `meterStream` know of a call: its phase, the abort
signal, the deltas streamed, `recorded` (the cost of the end that came first, which `recordOnce` remembers), whether a
failure of the recording is only logged, and the read that awaits it (`pulling`). A prompt and each delta cost one credit,
which is all `estimateUsage` is needed for.

**WarehouseProvisioning.** `job[j]` is the row, `project` and `repo` what exists outside it, `run[r]` an asynchronous
call chain in some worker: `provisionWarehouse` (phases `naming` .. `secrets`), `finalizeWarehouseProvisioning`
(`finalize` .. `readiness`), their catch blocks (`rollback`, `fail`), the end of `withJobLease` (`release`),
`recoverProvisioningJob` (`undo`, `requeue`), `cleanUpCancelledJob` and `failExhaustedJob`. A lease is fresh or stale.
`scope` is the bound of a behaviour, chosen at its start: which setups and workers there are, and how many faults of which kinds.
`faults` (the kinds there were), `overtaken` and `left` (projects whose deletion failed) are history, for the properties.
`TakeAway` is `rollbackRegisteredProject`: any of its deletions may fail, which is logged, and the caller goes on as if all
had gone well. A setup is overtaken when a worker goes on with it, or takes it up, while another one gives it up:
`failExhaustedJob` works from the row that was listed and claims nothing, so that nothing keeps the two apart. Steps that the code makes in two statements are one where a later one
looks again: the check for an active setup and the insert (`Start`, `Retry`; a unique index refuses the second), the list
of the reconciler and its claim (the claim tests status and lease). The update that notes the temporary directory is part
of the step after it; its failure is one of `naming`.

**StoryDelivery.** `rows` are the recurring `story.deliver` job and one-off retries, with the payload's
`skipDeliveries`; `exec[o]` the handler of an occurrence; `editing[e]` a request inside `setDelivery`,
`updateLiveSettings` or `disableStoryDelivery`, up to the writes of `syncStoryDeliveryJob`. `sent` counts what reached
each target and is the model's memory, not the program's; so is `overlap`, whether requests overlap (`now`), did at some time
before the last one that had the story to itself (`before`), or `never` did. A handler reads story and delivery in one
step, where a refresh reads the story before it refreshes and the delivery after it.

**StoryQueries.** `queries`, `frontier` and `requested` are those of `loadUpstreamQueries`; `Plan` is the depth-first order
in which `run` promises executions and `exec` these promises, each with what it awaits; `results` is the map of the tool
context. A row is `old` (from the chat), `fresh`, or `mixed` (computed from older rows). Every story over the queries is an
initial state.

**KeyedLock, InMemoryLock.** In memory, `previous[c]` is the promise a call chained itself behind and `held` the entry
of the map; `chain[c]` is how far a call is. On Postgres, `phase[c]` is that, `left` is `expires_at - now()` in renewal
intervals, and one renewal is `due` in every interval.

**BillingSync.** `placeholder` and `paid` are the subscriptions at Stripe, `row` the billing row, `sync[s]` a
reconciliation with what it claimed, listed and selected. `clock` numbers the changes at Stripe and `row.asOf` is the
reading the row was written from: these are history, for the properties.

**PurchaseMovements.** `movement` are the ledger's entries by idempotency key; a worker reads the charge or the dispute
(`reading`, `read`), then locks the wallet and writes what `calculatePurchaseMovementDelta` says, then marks the event. A job whose purchase is not
credited yet is retried without limit, where the code does so ten times.

**AgentRuns.** `row[m]` is a row of `chat_message`: when it was saved, its version group, the superseding that hid it (0:
none) and whether it has text. `registry` is the one entry `_agents` has for the chat. A request goes through `supersede`
and `insert` (the two transactions of an edit), `load`, `dispose`, `create`, `run`, `finish` (the answer is saved) and
`leave` (`_onDispose`). `cancel[k]` is a call of the cancel route: it waits for the run, then reads, counts and drops in
`deleteLastEmptyTurn`, whose statements see what was committed meanwhile. A *patient* client sends one request, cancel or
switch at a time, as the web client does; a *hasty* one sends them as it likes, as several windows do.

**Automations.** `automation` (`AutomationRow`), `job` (`JobRow`), `run[i]` (`RunRow`) and `chat[i]` are rows;
`worker[i]` is a call of `runAutomation` with the owner it has read, `edit[e]` a request inside `syncAutomationJob`,
`removeAutomationSchedule` or `deleteAutomation`. `disturbed` (requests have overlapped, or one was cut short) and
`handover` (runs that were starting at a transfer) are history, for the properties.

**ContextRecommendations.** `rec` holds the status of the recommendation of every fingerprint; the fingerprint of a
fallback is the digest of a set of messages, so the set stands for it. `links` are rows of
`context_recommendation_linked_feedback`. `pass[p]` is an execution of `runContextRecommendations` with everything it has
read: what exists, what was dismissed, the plan of `reconcile`, the downvotes to cover, the clusters. The agent, the model
that groups downvotes and the references that match them choose among all answers about what they were shown. `owed` (downvotes
a run has to have covered) and `mixed` (links were deleted while another run was about to delete some) are history.

## Runs

Every run explores its instance completely; none has a state constraint.

| run | question | instance | states |
|---|---|---|---|
| `scheduler_exclusive` | are claims exclusive and is the budget kept, over crashes and reclaims? | 2 row ids, 2 workers, 3 executions, 2 attempts, 1 fault, batch 2 | 974 k |
| `scheduler_liveness` | do jobs end, and come back after a crash, also when handlers outlive their lease, users edit, and one replica has no handler yet? | 1 id, 2 workers, 2 executions, 1 fault | 248 k |
| `credits_safety` | do wallet and ledger agree under every interleaving? | 1 wallet, 2 calls, 1 purchase, 2 grant requests, 2 sweeps, 2 faults | 510 k |
| `metered_streams` | is a call charged once, for the end that came first, and do its credits come back if it is lost? | 1 call, 2 deltas, 1 purchase, 2 sweeps, 2 faults | 24 k |
| `warehouse` | one driver, status and project agree, all setups end | 1 setup, 2 workers, 2 faults of any kind but a failed statement, or 1 failed statement; 1 worker, 2 failed statements, failed deletions or crashes; or 2 setups that retry each other, 1 worker; 2 runs, 2 projects, 3 attempts | 508 k |
| `warehouse_cancelled` | does a cancelled setup leave nothing? *No, see below* | 1 setup, 2 workers, no faults | – |
| `stories` | is everyone reached, nobody twice, on one path, also after overlapping edits; is what a story shows fresh, and does its refresh end? | 2 targets, 2 attempts, 2 editors; up to 2 occurrences, 3 faults and 4 requests, in the combinations of `SmallBounds`; every story over 3 queries | 377 k |
| `keyed_lock` | is either lock a mutex, in order in memory, and does nobody wait for ever? | 3 calls; lease 4, 2 missed renewals, crashes | 286 k |
| `stripe_events` | does the row follow Stripe, and the placeholder go; do movements end at what Stripe says? | 1 webhook reconciliation and the hourly one, 3 changes, 1 failure; 1 refund of up to 3 in steps, 1 dispute of 2 of a purchase of 3 credits for 2, 2 workers | 503 k |
| `agent_runs` | does the registry tell who runs, does the thread stay whole, do stops and cancels do what they say? | patient: 4 requests, 2 cancels, 2 switches, 1 fault; hasty: 2 requests, 1 cancel, 1 fault | 249 k |
| `automations` | does a run end once, and end; are job, history and automation linked? | a transfer and looks at any time; 1 run and 2 edits over 2 job rows, 2 runs and 1 cancel or 1 crash, or 1 run, 1 edit, 1 cancel and 1 crash | 224 k |
| `recommendations` | does a run end once, and end; do decisions and links stay; is no downvote left? | one run after another, with a decision, a vote, a fault; one run with 2 findings and 2 downvotes; two runs at once | 652 k |

**Why the bounds are enough.**

- *Scheduler.* Two workers and two executions are what a double claim takes; three executions let a third reclaim and
  claim while two are under way. One fault makes an orphan or a partial poll. The lease of 2 (exclusive) or 1 tick is
  longer than, equal to and shorter than a handler. Two attempts are the least with a retry and an end. `attempts` is
  kept exactly up to one more than the budget and capped there: the code only compares it.
- *CreditLedger.* Two calls of 2 against a balance of 3 compete for the last credits; costs of 0, 1 and 2 settle to a
  failure, a return and the full amount; two requests compete for the one grant. Two faults: a call crashes and the
  sweep that finds it fails.
- *MeteredStreams.* One call: calls meet in the wallet only, where `credits_safety` has two. Two deltas make an abort
  between them cost less than one after them; the reservation is smaller than, equal to and larger than the cost. Two
  sweeps and two faults: a call is lost, and so is the first attempt to give its credits back.
- *WarehouseProvisioning.* Three attempts: a first, a recovery, and the one at which the give-up begins. A second
  project id is what a recovery registers after it undid the first. Workers stall while they publish only (`Stalling`):
  a stall at any phase multiplies the states and no property says more after one. Of two setups, one run belongs to the
  setup that stopped and one to the setup that retries it.
- *StoryDelivery.* Two targets give a partial success; two occurrences overlap. Two attempts and three faults make a
  delivery fail and then its retry as often as it may, so that the retry ends failed with someone not reached. Two
  requests overlap while the story is delivered, with and without a fault; without a delivery, a third comes after two that
  overlapped and has the story to itself, and with a fourth two overlap again after that. `SmallBounds` gives what is combined:
  everything at once multiplies the states without a new pair of actors.
- *StoryQueries.* Three queries are the fewest with an upstream query that two others share, a reference of a reference,
  circles of two and three, and a name the chat does not have, all shown or not and in any order.
- *Locks.* Three calls are one that runs, one behind it and one that comes before or after the map was emptied. Lease 4
  and two missed renewals are the code's two minutes, thirty seconds and what that forgives. One more missed renewal
  breaks `IsMutex`.
- *BillingSync.* Two overlapping reconciliations decide the token; trial ends 1..2 are before and after an extension.
- *PurchaseMovements.* A refund in several parts and a dispute that together exceed the purchase.
- *AgentRuns.* Four requests are a turn, one after it, an edit of the first and an edit of that; two switches go there
  and back; a second cancel finds the turn before the one the first removed. Two hasty requests overlap in every way.
- *Automations.* A second job row is what an edit creates after another one removed the first; two runs
  overlap, and one of them is cancelled or dies; a run, an edit, a cancel and a crash meet. More of everything at once multiplies the states without a new pair of actors.
- *ContextRecommendations.* Three instances, as each question needs another size: a run after one that was given up, with
  everything administrators do; two findings and two downvotes, so that clusters split and overlap; two runs at once.

Symmetry is used in runs without liveness only, over sets whose members no definition tells apart;
`WarehouseProvisioning` draws names of runs and projects in a fixed order instead.

**The properties.** Each module states them at its end with a comment. Those that relate several actors:

- *`MutualExclusion`* and *`LocksTell`*: a claim is a condition in an UPDATE and a lease; crash, reclaim, heartbeat and
  takeover must leave one owner.
- *`SettledOrReleased`*, *`BooksBalance`*, *`LimitsKept`*: three tables, two writers per reservation, counts and balances
  read in one statement and used in another.
- *`ChargedAsEnded`*, *`CallsSettle`*: of five racing ends one is recorded, and none is forgotten.
- *`StatusTells`*: the row and the world outside agree at both ends of a setup. A deletion that fails is logged and the
  setup still ends failed: its project (`left`) is exempt, every other one is not.
- *`DeliveredOnce`*, *`StoriesEnd`*: what the payload carries over retries is neither too much nor too little, and a retry
  goes on until everyone was reached, the delivery is disabled, or its attempts are used up, when the row ends failed and
  the others are not reached; and no query of a refresh waits for one that waits for it.
- *`SettingsAgree`*: two requests read each other's settings before they write the job. Without an overlap there is one
  path of delivery. Requests that overlap may leave settings and job apart, which the next request that has the story to
  itself repairs, but for a job that the row does not name any more: nobody finds it.
- *`RefreshedOnceFromFresh`*: whatever order queries end in, none reads what an earlier refresh left.
- *`NeverGoesBack`*, *`CanceledOncePaid`*, *`RowCatchesUp`*: readings of a moving system, written in the order they were
  claimed; *`HoldsWhatWasLost`*, *`WorkedOff`*: whatever the order of events, the ledger ends at what Stripe says.
- *`RegistryTells`*, *`StopsTakeEffect`*: an entry of the registry and a run under way stand for each other.
- *`ThreadWhole`*, *`CancelTakesEmptyTurn`*: versions are found again by times alone, over edits, switches and cancels.
- *`RowsLinked`*, *`HistoryReadable`*, *`EndsOnce`*, *`NothingStaysRunning`*: four tables, changed one statement at a time. A run ends by
  itself while its process lives; one whose process died, or whose last write failed, ends once users go on looking.
- *`DownvotesCovered`*, *`LinksStay`*, *`DecidedStays`*, *`RunsEnd`*: what a long run writes on what it has read.

`recommendations` is checked for deadlock. In the other systems everything may come to rest, when jobs have ended, faults
are used up, or nobody calls any more; `JobsGoOn`, `CallsSettle`, `SetupsEnd`, `StoriesEnd`, `NobodyWaitsForEver`,
`RowCatchesUp`, `WorkedOff`, `StopsTakeEffect` and `NothingStaysRunning` are what must not be left undone then.

## Fairness

All fairness is on steps the program takes by itself; no request, fault or change at Stripe is fair.

- Polls and reclaims are timers (`setInterval`): weak fairness on each worker's poll and on reclaim. An execution goes
  on, as awaits are answered, and so does an upsert between its two statements: weak fairness on each. Time passes.
- `CreditLedger`: settlements and releases queue for row locks, which Postgres grants in turn: strong fairness on the
  steps that take one or retry after one. Model calls need not end; the ones that crashed are what the property is about.
- `MeteredStreams`: on top of that providers answer, end or fail, and a stream that nobody cancels is read on: weak
  fairness on what reading it does. Aborts and cancels need not come.
- `WarehouseProvisioning`: runs go on (every command has a timeout, or fails), the reconciler of every replica keeps
  its interval, a lease without heartbeats ends.
- `StoryDelivery`: handlers return, and rows are claimed and reclaimed as the scheduler does. Edits need not finish.
  `StoryQueries`: queries answer or fail.
- Locks: functions return in memory; on Postgres they need not, only timers fire and callers poll.
- `StripeEvents`: the hourly job comes back, a reconciliation goes on; jobs of events that started are carried through,
  and waiting ones are taken.
- `AgentRuns`: a run that was told to stop ends, what ended is saved and leaves the registry, a cancel goes on. A run that
  nobody stops need not end.
- `Automations`: what a run awaits is answered, the reclaim loop keeps its interval. No timer and no job fails stale runs:
  `failStaleAutomationRuns` is called by the queries behind the pages only, so that it is not fair, and that users go on
  looking is a premise of `LookedAtRunsEnd`, the part of `NothingStaysRunning` that needs it.
- `ContextRecommendations`: models answer or fail and statements return; the page and the job go on looking at the latest
  run; time passes.

## Proofs

All proofs are checked by TLAPS without omitted steps. The assumptions are the `ASSUME`s of the modules: bounds are
naturals (positive where the code's are), `Null` is not a value of the type it stands next to, the alternatives in
`Bounds` of `Automations` and the disputes of a payment are finitely many, `"fresh"` and `"deleted"` are no ids of
setups, and `"schedule"` and `"refresh"` no names of occurrences.

| theorem | statement | needs |
|---|---|---|
| `Scheduler_proofs!TypeCorrect` | `Spec => []TypeOK` | – |
| `Scheduler_proofs!Exclusive` | `Undisturbed` implies `Spec => []MutualExclusion` | no handler outlives its lease; upserts keep status and schedule |
| `Scheduler_proofs!RecurringKept` | `Spec => []RecurringNeverDropped` | nothing: also with slow handlers, edits and faults |
| `Scheduler_proofs!AttemptsBudgeted` | `Undisturbed` implies `Spec => []RetryBudget` | as for `Exclusive`; the property itself speaks of behaviours without crashes and failed statements |
| `CreditLedger_proofs!ReservationsEndOnce`, `Limited`, `BooksAlwaysBalance` | `[]SettledOrReleased`, `[]LimitsKept`, `[]BooksBalance` | nothing: also with crashes and sweeps that fail half-way |
| `CreditLedger_proofs!MeteringUsesLedger`, `ChargedOnce` | `MSpec => Spec` (so the three above hold of metered calls), `MSpec => []ChargedAsEnded` | – |
| `WarehouseProvisioning_proofs!OneDriverAtATime`, `StatusesTell` | `[]LocksTell`, `[]StatusTells` | nothing beyond the exemptions the properties name |
| `WarehouseProvisioning_proofs!CancelledForGood` | `CancelledStays` | nothing: also with stalls and crashes |
| `Automations_proofs!OwnersReadHistory`, `RunsEndOnce`, `JobsLinked` | `[]HistoryReadable`, `EndsOnce`, `[]RowsLinked` | – |
| `AgentRuns_proofs!RegistryTellsWhoRuns`, `ThreadStaysWhole`, `CancelTakesOnlyEmptyTurn` | `[]RegistryTells`, `[]ThreadWhole`, `CancelTakesEmptyTurn` | nothing; what the properties say of a patient client needs `Control` below |
| `WithKeyedLock_proofs!Refines` | `Spec => IsMutex` of `withDatabaseLock` | no stalls; `MaxMissed + 2 <= Lease` |
| `WithKeyedLock_proofs!LateReleaseHarmless` | `Spec => KeepsOthersRow` | nothing: with stalls and crashes |
| `WithKeyedLock_proofs!LeasedMutex`, `ChainedMutex`, `ChainedInOrder` | the same of `withKeyedLock`, whichever dialect it finds: `IsMutex`, `ChainIsMutex`, `[]InOrder` | as for `Refines`, for the first; nothing |
| `StripeEvents_proofs!TypeCorrect`, `Monotone`, `PaidStays` | `[]TypeOK`, `NeverGoesBack`, `[]CanceledOncePaid` | – |
| `StripeEvents_proofs!PurchaseBooks` | `[]HoldsWhatWasLost` | nothing: also with overlapping jobs, retries and deaths, which the property itself speaks of |
| `WithKeyedLock_proofs!Delivered` | `[]DeliveredOnce` of `StoryPromises` | nothing: also with crashes and failed statements, which the property itself speaks of |
| `WithKeyedLock_proofs!OnePathOnly` | `[]SettingsAgree` of `StoryPromises` | nothing: any number of requests that overlap, which the property itself speaks of |
| `ContextRecommendations_proofs!Covering`, `Decided`, `LastLinkStays` | `[]DownvotesCovered`, `DecidedStays`, `LinksStay` | nothing beyond the exemption of two runs that delete at once |

**`Exclusive`.** `MutualExclusion` is not inductive: a row must not become claimable while it is being executed.
`ClaimsHeld` says that every execution holds its row's lock and that the lock is exactly as old as the execution. As an
execution ends before its age reaches the lease, `Reclaim` never takes its row, and a claim, which needs `pending`, finds
none to take. Two executions of one row would both be the `lockedBy` of it.

**`RecurringKept`.** `KeptInv` follows the key: a recurring row always has a cron, an execution carries the key of its
row and, for a recurring key, a cron, so that `onJobFailure` never decides to give up on it; and a process with a handler
never gives up for want of one.

**`AttemptsBudgeted`.** `BudgetInv` follows the counter: a pending row has an attempt left, a running one is being executed,
and an execution carries the count its row has and retries only if that leaves an attempt. `onJobFailure` and the retry
without a handler therefore decide on the count that the next claim raises. It needs `ClaimsHeld`, since two executions of
one row would raise the count behind each other's back.

**`CreditLedger`.** `IInv` adds to the three properties: `Locks` (a row lock belongs to the settlement or to the sweep that
is at it, and only a reservation is locked), `Calls` (the entry of a call is its own, and a reservation holds an amount
that may be reserved), `Granted` (a request that has counted holds the wallet lock, so its count stays true) and
`Numbered` (no entry has a number beyond the wallet's). The state of a reservation, read under its lock, is therefore still
the state when the transaction writes. That a movement keeps `balance = sum of the entries` needs facts about sums over
sets: that a sum is extended by one element, and depends only on the amounts summed. A sum is a recursive function over the
subsets, and these facts would be proved by induction; here the smallest set they fail for is taken (`SmallestSet`, from
the well-foundedness of strict inclusion), and a smaller one found.

**`MeteredStreams`.** Every step of a stream is a step of the ledger or leaves it alone, so `MSpec => Spec`. `Recording` says
what ties the two: a settlement under way charges what the first end recorded, the usage written is that, and a stream
whose end was seen is no longer calling.

**`WarehouseProvisioning`.** In four layers, each over all the actions. *Typing*: also that a run's setup has a row, and
that a run's setup and process never change. *The lock* (`HeldAlone`): who works on a setup holds its lock under a fresh lease and
nobody else works on it or gives it up; claims need a free or stale lock, and the lease of a process that lives goes stale
by a stall only. *Ids* (`IdInv`): an id is drawn once, no two runs are about to register the same one, and rows and runs
that name a project name one of their setup. *Statuses* (`StatusInv`): while a setup is not stalled over, overtaken or
cancelled, `Told` says where its project is recorded at every moment. With a row whose status is past publishing, no project
exists but the one the row names; before that, or after a failure, none exists unless its one run is in a phase that has
yet to record or to delete it, or its deletion failed (`left`). `Rooted` (a project's setup has a row) and `Causes` (only a cancelled setup's updates are refused)
rule out the rest. A crash loses what only the run knew, which is why `FailedLeavesNothing` exempts it and
`ReadyKeepsProject` need not.

**`Automations`.** `RunInv`: the owner a call has read, or has given its chat to, is the automation's, for every run that was
not starting at a transfer, because the transfer changes all chats that are attached; and a run is inserted by its own call,
before it attaches anything. `LinkInv` knows where the one request is: a job that no automation names is about to be linked
by it, the job it unlinks is the automation's, and the automation is deleted when the job is gone. What `Runs`, `Edits` and
`JobIds` contain follows from the finiteness of `Bounds`, again by a smallest counterexample (`LargestExists`).

**`AgentRuns`.** *Who runs* (`Control`): an entry of the registry is of a run that has not left. A patient client has
one request under way, whose run is the entry, or one cancel, which waits for that run and reads and deletes when
there is none. *What the rows are* (`Records`): every message has a time of its own, and of a request that has not
saved its message there is no row and no version. *The thread* (`ThreadInv`): neither whole turns nor single versions
are inductive, because a switch restores a batch found by its superseding and hides what follows a time. What makes
the two fit is a tree that no row stores: the versions of a message all follow one and the same earlier message,
`P[g]` for the version group `g`, or begin the chat. There is such a `P` (`\E P` in the invariant; a message that is
sent follows the last one shown) with: what is shown follows what is shown (`ShownAfterShown`), and in a batch each
message but the first follows one of the batch, with none in between (`BatchesLinked`). A switch to a version of a
message that is shown therefore restores a batch that begins with this version, since what it follows is shown and not
in the batch; and it hides nothing that the batch follows, since the fork point is later. From the same facts no group
is shown twice, and no answer is parted from its question (`Turns`: no question comes between the two). `Found` says
that every batch, and what is shown if anything is hidden, holds a message with another version, or one that an edit
under way is about to save; an edit that is cut off at that point breaks it, and the property exempts it
(`interrupted`). `Tallied` keeps what a cancel has read true until it deletes: the question is the last one, has no
other version, and its answer goes with it, so that no message is left behind that follows a deleted one. If it then
finds the chat empty but for that turn, `Found` rules out that anything is hidden, and the chat can go.

**`InMemoryLock`.** The calls are ordered by arrival. Everybody behind an active call is chained (`Queue`), each to the
one right before it (`Links`), and the map's entry is the last arrival, or nobody is active (`Tail`). Of two that run,
the later would be chained. The refinement is then one step of `Mutex` for each `Chain`, `Run` and `Settle`, and a
stutter for `Finally`.

**`KeyedLock`.** `Held`: a call that runs owns the row, and at least `Lease - missed - due` of its lease is left, for each
interval costs one and only a failed or pending renewal does not give it back. So the row is never free while it runs.

**`WithKeyedLock`.** A step of the composition is a step of one lock and a stutter of the other, so that its behaviours
are behaviours of both, and the theorems of the two carry over.

**`BillingSync`.** `Fresh`: a reconciliation that still holds the token when it writes has listed Stripe after the last
write, because each write was made under an earlier token. `Lasting`: a paid subscription, once seen, never vanishes from
the customer's list. The row therefore moves to newer readings only, and stays with the paid subscription.

**`PurchaseMovements`.** Two things are followed. *The ledger* (`Ledger`): each movement records what Stripe came to at some
time and takes its group to that (`Follow`), the sequences count the movements, so that each group has a latest one
(`Counted`), and the total is the sum of what the latest ones record, bounded by what was bought (`AddsUp`). The sum over
the disputes is a fold over a set; that it is a sum, that it changes by the difference when one group does, and that it
depends on the groups that have a movement only, is proved from the smallest set it fails for, as for `CreditLedger`.
*The events* (`Course`): unless two events of a group overlapped, its movements are in Stripe's order and what its one
execution has read comes after them (`InTurn`), what an execution read is what Stripe says or said before (`Reads`), and
whatever Stripe says of a group is recorded, or a job or an execution is on its way that will record it (`Heard`). When
no event is left the latest movement of a group is therefore Stripe's last word.

**`ContextRecommendations`.** `Kept` says of each run that a downvote it answers for is linked or still carried by it, and
where it carries it at that phase (`Carried`: unassigned, to be attached, in the cluster it writes, in one to come). This
is stable because links only go in `Delete`, and a run that is about to delete links of a downvote has left it one
(`Keeps`), which holds from the moment it reads them: what is written meanwhile only adds links, and a second run that
deletes at that time sets `mixed`. `Apart` carries from `Reconcile` to `ApplyActions` that nothing read as dismissed is
touched.

**`StoryDelivery`.** Four facts, each over all the actions. `Typed` bounds the attempts of a row: a claim raises them below
the limit, and only a crash lets a row be claimed once more, so that `MaxAttempts + MaxFaults` is never passed.
`Paired`: an occurrence stays on the path it began on. The handler and the row it is worked on for are the recurring
ones if it began on the schedule, and the refresh or its own retry otherwise; a retry exists only once the refresh has
left. `SkipsSent`: of an occurrence of a refresh, whatever a handler or a retry skips was sent, so that a handler that
delivers without an error has reached everyone. It needs `Paired`, since the recurring row hands its skips on to the
next occurrence, for which it does not hold (see `DeliveryReachesAll` below). `Once`, while no process dies, no statement
fails and the settings changed at most once: a handler has the row it runs for and a running row its handler
(`HandlersOwnRows`), for the one edit finds no job to delete or to write over (`FirstEdit`); what was reached is therefore
in the payload of the row when the next attempt reads it, and is skipped (`ReachedSkipped`), or the row begins another
occurrence. For `SettingsAgree`, `Agreed` speaks of the states where no requests overlap (`overlap # "now"`): it says at each
step of the one request there is how far the job and the settings are apart, and, as long as none ever overlapped, that the
job the settings name is the one there is. A request that begins while another is under way ends the claim; one that begins
alone takes it up again, whatever it finds.

**Only model-checked.** Liveness (all `~>`, `<>` and `[]<>` properties: it rests on fairness, out of the prover's reach).
The properties of `StoryQueries` (`RefreshedOnceFromFresh`) rest on recursive functions over the graph of references, whose values for every graph take an
induction over data; on the bounded graphs TLC compares them with what the chat says.

## Where the code and the repository disagree

- **A cancelled setup may keep its project** (run `warehouse_cancelled`). The user cancels between the last update of
  `provisionWarehouse` and the release of the lock by `withJobLease`: `cancelWarehouseProvisioning` sees a live lease and
  leaves the clean-up to the worker, which has no update left to stop at and only releases the lock. The sweep of
  cancelled jobs looks for abandoned locks, so nobody comes back. The comment at `services/warehouse-provisioning.ts:423`
  says otherwise.

The modules also state, in a last section, what the repository promises and the code keeps only most of the time. TLC
finds each of them violated when it is checked; no run does:

- `Scheduler!ClaimsOnlyDueJobs`: `claimDueJobs` selects candidates and claims each with a condition on the status alone.
  One that was executed and rescheduled in between is claimed again before it is due.
- `Scheduler!NextRunReflectsDefinition`: `onJobSuccess` re-reads the definition before it computes the next run, and a
  user may still edit it before it is written.
- An upsert that resets the schedule and keeps the status (the context recommendations) clears `locked_at` of a row that
  is claimed between its SELECT and its UPDATE; with the worker dead `reclaimStaleJobs`, which looks for an old lock time,
  never finds it. The runs leave these edits out of `Edits`; with them `JobsGoOn` and `MutualExclusion` fail.
- `BillingSync!ExtensionKept`: a trial extended after the list was read is shortened when the placeholder is canceled.
- `StoryDelivery!DeliveryReachesAll`: `skipDeliveries` in the payload of the recurring job outlasts the occurrence, and
  the next one skips those targets.
- `PurchaseMovements`: two jobs of one refund that overlap may leave the older reading written last
  (`HoldsWhatWasLost` exempts overlaps).
- `WarehouseProvisioning`: `failExhaustedJob` works from the row that was listed, without a claim, so it may give up a
  setup that another worker has just taken (`LocksTell` and `StatusTells` exempt such a setup, `overtaken`), and a
  failing `reconcileProjectReadiness` rolls back the project of a setup that already says ready.
- `AgentRuns!StoriesGuarded`: the story routes refuse an edit while `agentService.get` finds a run. When requests overlap,
  the end of the older run removes the entry of the newer one (`_onDispose` goes by the id of the chat), and a run is at
  work that neither a stop nor these routes find.
- `Automations!PauseTakes`: a pause is written while the scheduler executes the job; the execution then sets the job
  pending again, and the automation goes on.

Other things the models came across, which no text of the repository contradicts and the properties leave out:

- *Agent runs.* A cancel that comes before the run is registered, or a run that takes longer than the ten seconds a cancel
  waits, loses its question and goes on. The late answer of a superseded turn becomes part of the conversation. An edit is
  two transactions (`handlers/agent.ts:237`): after a failure between them the messages are hidden and nothing replaces
  them. A cancel that drops the chat takes an answer with it that is saved at that moment.
- *Metered streams.* An abort that makes a pending `doStream` throw is recorded as failed and free.
- *Automations.* A run whose process died stays running until somebody lists automations or runs. An update that overlaps a delete leaves a job without an automation. A run that is starting at a transfer
  keeps its chat with the former owner; one that has no chat yet when the automation is deleted leaves it behind.
  A cancel that comes before the chat is attached lets the agent go on; a cancelled scheduled run that misses its
  integration tools throws, and its job is retried. A former owner's delete that overlaps a transfer removes the job and
  not the automation.
- *Warehouse.* A clean-up that fails is logged and not repeated: the setup is failed or cancelled all the same, and its
  project stays (`left`). A crash before the row names what was just created (`services/warehouse-provisioning.ts:726`, `:828`) leaves
  a project or a repository nobody knows.
- *Stories.* Of two requests that overlap, each may read the other's settings before it writes the job; a job can stay
  behind that no row names, and the story is then delivered on both paths while delivery is enabled. A retry that is
  out of attempts ends failed, and those it did not reach are not tried again. A refresh writes its text over whatever version is the latest by then (`updateLatestVersionCode`,
  `queries/story.queries.ts:597`). A refresh for one query (`getStoryQueryData`) takes no lock and may write older rows last.
- *Context recommendations.* `ensureFeedbackCoverage` leaves downvotes uncovered that the model puts into no cluster,
  when it names any (`applyFeedbackClusters` counts over the members of clusters). A recommendation dismissed after a run
  read it is reopened or marked applied, and a finding may attach a downvote to a dismissed recommendation, where nobody
  sees it. Two runs overlap when both starts read the latest run before either is created, or when the first was cancelled
  or given up and works on: both may then delete a link the other one keeps, and a fingerprint both insert fails the later
  transaction. `resolvePeriodStart` continues from the completion of the last run, not from the end of its window, so
  what happens during a run falls between windows.

## Not modelled

- *Needs a model of its own, planned*: credit top-ups and administrators' grants.
- *State of one request or one row*: authentication, members and groups, budgets, licenses, agent memory, cleanup jobs,
  MCP connections.
- *Rests on something external*: project git and its providers, e-mail, messaging platforms, the story app build, code
  mode, the command line and warehouse drivers, the web client.
- Within the modelled components: of the warehouse, credentials, validation of the connection and error texts; of
  billing, attaching the customer and the projection of plan and period; of delivery, rendering and the contents of
  messages; of the lock, `claimOnce` (it is `tryAcquireLock` alone); of the ledger, reading it; of metered calls, unbilled
  ones and the rates of token categories; of live stories, the expiry of the cache, deferred refreshes and the generated
  text; of agent runs, forks of a chat, titles, budget checks and messaging channels; of automations, the switch of the
  webhook and access checks; of recommendations, pull requests, the window of a run, impact and wording.

## Plan

In order of what matters most:

1. **Abstract ledger**: a wallet where a call takes and gives back credits in one step, refined by `CreditLedger`.
2. **Top-up checkouts** and administrators' grants: limits over sessions that are still open, and the ledger they end in.
3. **Live stories**: the expiry of the cache, deferred refreshes and the keyed lock around them, over `StoryQueries`.
4. **Pull requests of recommendations**: opened by hand and by a run, checked and recorded in separate steps.
