# A specification of the agent execution platform

The platform accepts transactions from AI agents over HTTP, queues them in
Redis, and lets workers execute them as ERC-4337 UserOperations through a
bundler, sponsored by its own paymaster. This directory holds TLA+ modules
translated from its Rust source, TLC configurations that check them, and
theorems that TLAPS proves. Paths below are relative to the repository root
(`src/...` is the Rust crate).

- [Inventory](#inventory)
- [The modules](#the-modules)
- [What is checked](#what-is-checked)
- [What the code does otherwise than it says](#what-the-code-does-otherwise-than-it-says)
- [What is proved](#what-is-proved)
- [What is left out](#what-is-left-out)
- [Plan](#plan)

To check a run: `tlc -config Crashes.cfg MCExecutionPipeline.tla`; to check a
proof module: `tlapm PipelineProofs.tla`.

## Inventory

| Component | State it keeps | Operations | Correct when |
|---|---|---|---|
| **Job queue** `src/queue/mod.rs` | three kinds of Redis lists: main, one processing list per worker id, dead letter | `enqueue_job`, `dequeue_job`, `ack_job`, `move_to_dlq`, `push_to_dlq`, `recover_stale_jobs` | a job is in one place, and never in none before its outcome is known |
| **Worker loop** `src/worker/mod.rs` | the job in hand; everything else is in Redis, PostgreSQL and on the chain | `run_worker`, `execute_erc4337`, `re_enqueue_with_bump`, `fire_webhook` | outcomes told are outcomes on the chain; attempts are bounded; every job ends |
| **Process** `src/main.rs` | worker supervisors, start-up recovery, eviction task, HashMap of chains | boot, spawn, restart a panicked worker, shutdown | recovery and live workers never see the same list; no list is forgotten |
| **Execute service** `src/api/services/mod.rs` | the row of a request | `handle_execute`, `handle_simulate`, `handle_get_wallet`, `resolve_chain_smart_wallet_address` | the status of a request only moves forward; every caller is given the same address |
| **Database** `src/db/mod.rs` | `execution_requests`, `transactions`, `agent_wallets`, `api_keys`, `platform_keys` | single SQL statements; there is no transaction around two of them | rows agree with what was told |
| **Bundler client** `src/relayer/erc4337/mod.rs` | none | build, sign, submit, poll for a receipt | an operation is not executed more often than the job is run |
| **Rate limiter** `src/rate_limit/mod.rs` | a token bucket per API key | `check`, `evict_stale` | admissions stay within rate and burst |
| **Agent wallets** `src/agent_wallet/mod.rs` | rows written once; keys encrypted | `get_or_create`, `compute_smart_wallet_address` | an agent has one wallet |
| **Webhook delivery** `src/webhook/mod.rs` | a detached task per event | `deliver`: three attempts with backoff | an agent learns the final outcome |
| **Paymaster** `src/relayer/paymaster/mod.rs`, `contracts/src/VerifyingPaymaster.sol` | the signer, on the platform and in the contract | sign, validate, `setVerifyingSigner` | what is sent is signed as it is, and only for a while; every instance signs with one key |
| **HTTP routes** `src/api/routes/mod.rs` | the issuance counters in Redis | handlers, `create_api_key_handler` | keys issued stay within the limit of a window |
| **Simulation** `src/execution_engine` | none | `eth_call` of each call, gas estimates | |
| **Protocol adapters** `src/protocols/*` (Aave, Compound, Morpho, Uniswap, Balancer, GMX) | none of their own; each keeps a cache of discovered pools or markets | validate, read the chain, guard, compile a batch of calls; answer queries | amounts mean what was asked, guards keep what they promise, nothing is left behind |

How they interact. A handler inserts a row, simulates, pushes a job (LPUSH) and
*then* marks the row Queued. A worker moves a job from the main list to its own
processing list (BLMOVE), writes Broadcasting, submits an operation, polls for
its receipt, writes the outcome, spawns a webhook and acknowledges the job
(LREM). A transient failure removes the job from the processing list and pushes
a copy with the next attempt count, or, when attempts are used up, pushes it to
the dead-letter list. Handlers, workers, supervisors, the eviction task and the
webhook tasks are tokio tasks of one process; Redis, PostgreSQL, the bundler and
the chain are shared by all processes and survive them. A process that starts
again drains the processing lists of all its worker ids before it serves.

What is hard here:

- *Crashes between two commands.* No operation on two lists, on a list and a
  row, or on a row and the chain is atomic.
- *Commands whose reply is lost.* The command may or may not have been executed.
- *Operations that outlive their run.* A worker gives up after 120 s; the
  paymaster's signature stays valid for 300 s.
- *Interleavings* of handlers and workers (status), of request tasks on a bucket
  (clock read outside the lock), of instances on a wallet row.
- *Recovery* by three parties: the supervisor of a panicked worker, start-up,
  and the retry path of the loop.
- *Choices made anew at each start*: the iteration order of the HashMap of
  chains decides with which factory wallet addresses are derived.
- *State read before it is used*: a handler reads quotes, debts and balances,
  the batch is executed later, and prices, interest and the wallet's other
  requests move the chain in between; attempts of one wallet read one nonce;
  a paymaster signs what may still change.
- *Answers of others*: bundlers, log indexes and webhook endpoints refuse,
  repeat, cut pages in the middle of a block, or do not answer.

`PROJECT.json` lists every hazard with its line and the properties that cover it.
A hazard without one has a note: a second instance with the same worker ids is
not modelled; a failure whose text reads like a revert is modelled
(`ExecuteFailsAsRevert`), and the properties say that they except it. Some notes
say how far the named property goes, e.g. that `BundlerSeesTheEstimate` is about
halves that are exchanged and not about values that are cut.

## The modules

### The execution pipeline

| Module | What it is |
|---|---|
| `Platform` | requests, worker ids, and the three fates of a remote command: `ok`, `lost` (executed, reply lost), `failed` (not executed); at most `MaxFaults` are not `ok` |
| `JobQueue` | the Redis commands of `queue/mod.rs`, one operator per command; a list is a sequence with its LEFT end first |
| `ExecutionStore` | `execution_requests.status` and the rows of `transactions`; an UPDATE overwrites whatever is there, as in the SQL |
| `UserOps` | the bundler and the chain as the code uses them (external): acceptance, inclusion with success or revert, replacement by an operation with the same nonce, operations nobody watches |
| `Worker` | `run_worker` and `re_enqueue_with_bump`, one action per await; `pc[w]` names the await |
| `ExecutionPipeline` | handlers, workers, supervisors, start-up recovery and crashes together; all properties |
| `JobDelivery` | the abstract promise: a job is in one place; it leaves its holder when its effect is decided, and is given up only while someone moves it |
| `PipelineRefinement` | the map from lists and hands to places |
| `MCExecutionPipeline` | instances for TLC |

A payload is `[req, attempt, form]`. All other fields of an `ExecutionJob` are
fixed by the request. `form` says whether the text was written by this release
or by an older one that lacks fields this release reads with a default:
`ack_job` looks for the text *this* release would write, so the two differ for
LREM. `Corrupt` is a payload serde rejects.

Between two awaits a tokio task runs without interruption as far as the state
modelled here goes, so an await is a step. Where a result is ignored
(`let _ =`, or an error that is only logged) the action goes on for every
reply. `execute_erc4337` up to `eth_sendUserOperation` writes no shared state,
so it is one step that submits or fails. History variables (`runs`, `events`,
`executed`, `undone`) are never read by an action.

The poison guard, an exhausted retry and a settled job all end in
`FireWebhook`, and what follows is read off the attempt count and the verdict:
only a job with its attempts used up can come from the guard, and only a failed
one can come from the end of `re_enqueue_with_bump`. `fire_webhook` does nothing
for a job without `callback_url` or `api_key_hash`; the model has no such jobs,
and `events` is what a job that asks for it is told.

### The rate limiter

`RateLimiter` has a request task read the clock in one step and lock its bucket
in the next, and `evict_stale` read the clock once and visit the buckets one by
one. Tokens are counted in ticks of refill time, so that refilling adds the
elapsed time: `Cost = 1/rate`, `Capacity = burst/rate`. `rewound[k]` records how
far late tasks moved `last_refill` back. `MCRateLimiter` instantiates it.

### Wallets

`WalletRegistry` is `get_or_create`, one action per await, called on several
instances that share the table, and the choice of the address on a chain.
`first[i]` is the chain whose factory instance `i` derives addresses with: any
chain, chosen at each start. `WriteOnce` is what it implements: a register per
name that is written once and of which readers learn only the written value.
`MCWalletRegistry` instantiates it.

### The protocol adapters

| Module | What it is |
|---|---|
| `Amounts` | U256 of a small width with the checked, saturating and 512-bit operations the adapters use, and their parsers of decimal and raw amounts |
| `ProtocolActions` | the course of a request, for any adapter: validate, read the chain one value at a time, decide, simulate or queue, execute as one batch; between any two of these the chain may move or another request of the wallet be executed |
| `AaveV3`, `CompoundV3`, `MorphoBlue` | for each adapter: `Valid`, `Reads` (which values in which order), `Decide` (from the values read to a batch, an answer or an error), and, external, `Call` (what the protocol does with a call) and `Moves` |
| `LendingProtocols` | the three with `ProtocolActions`, and their properties |
| `Swaps` | limits, deadlines, approvals and Permit2, which Uniswap and Balancer share |
| `UniswapV4`, `BalancerV3`, `GmxV2` | the other adapters, in the same form |
| `TradingProtocols` | the three with `ProtocolActions`, and their properties |
| `MCLending`, `MCTrading` | instances: initial chains and the requests that meet every branch of `Valid` and `Decide` |

A request is a record with the fields of the Rust struct; absent fields are
`Absent`. An amount is a text as the handlers tell texts apart (`max`, malformed,
a number with so many decimals). A token has one or two decimals, so a decimal
amount, its scaling and its loss of digits fit a small width. The protocols'
contracts are external: what they do is what the adapters rely on. A batch is
executed whole or not at all, as `executeBatch` is.

### The services around the pipeline

| Module | What it is |
|---|---|
| `UserOpSubmission` | `execute_erc4337` from the first draft to the receipt, for attempts that share a wallet; one action per await. An operation is a record of its fields, a hash the tuple of the fields it covers, a signature the hash it signs. EntryPoint, paymaster contract and bundler are external |
| `PoolDiscovery` | the caches of the Uniswap pools of a pair, and of the Balancer pools and Morpho markets, which come in pages; the log index of the explorer is external and may answer, refuse with an empty list, fail, or be late |
| `PlatformKey` | start-up's load-or-generate of the paymaster signer, on instances that boot together; implements `WriteOnce` |
| `KeyIssuance` | `POST /api-keys`: the Redis counter with its time to live, and the INSERT |
| `WebhookDelivery` | the delivery task of each event of a request |
| `Services` | the five beside each other, as they share no state; all their properties |
| `MCServices` | the instance for TLC |

`Worker.SubmitUserOp` is the pipeline's one-step view of `UserOpSubmission`, and
`Worker.FireWebhook` that of `WebhookDelivery`'s `Fire`.

## What is checked

| Run | Instance | Properties |
|---|---|---|
| `workers` | a request, a job pushed before the start, 2 workers, 2 attempts, nothing fails | `TypeOK`; `UnannouncedJobIsKept`: the loop itself loses no job on any path; `TerminalStatusLeft`: a terminal status is overwritten only by the late UPDATE to Queued; `EveryPushIsAnnounced` (liveness) |
| `crashes` | 1 request, 2 workers, 2 crashes and a panic at any await | `SingleCopy`: a job is never in two places; `DisturbancesCostOneRun`: each disturbance costs at most one run, one row and one webhook; `EffectsBounded`: at most one effect on the chain per run; `ImplementsDelivery` (refinement); `EveryJobLeavesItsLists` (liveness): no list is forgotten |
| `failing_commands` | 1 request, 2 workers, 1 crash, 1 command that fails or whose reply is lost | `OutcomeIsOnChain`: confirmed and reverted are told only of operations so included; `LastCopyLeavesDecided`: the last copy of a job leaves Redis only decided, in a hand, or as an announced poison pill |
| `old_backlog` | an unreadable payload, a job whose attempts are used up, and one in an older text, 2 workers, 1 crash, failures worded like reverts | `AttemptsWithinLimit`, `FailureIsDeadLettered`: the bump, the limit, the guard and the dead-letter list agree |
| `limiter` | 1 key, 2 tasks, the eviction task, 10 ticks | `AdmissionsAccounted`: a key is admitted its burst, its rate times the time, and what late tasks rewound, eviction or not; `RetryAfterHonoured`: who waits as told is admitted |
| `wallets` | 2 agents, 2 instances, 2 chains with factories of their own, 2 calls, a failed call, a restart | `OneWalletPerAgent`: one owner, and one address per chain, for every caller; `ImplementsWriteOnce` (refinement) |
| `lending` | 2 concurrent requests of one wallet to Aave, Compound or Morpho; one move of the chain | `CompiledAsAsked`: amounts are scaled to the token's units; `GuardedActionsKeepHealth`: what a guard let through leaves the health asked for; `MaxLeavesNothing`: "max" clears the position or uses up the balance; `AllowancesAreUsedUp`: no batch leaves what it opened; `AnswersCanBeActedOn`: a capacity that is answered can be borrowed; `TypeOK` with the width of amounts |
| `trading` | 2 concurrent requests of one wallet to Uniswap, Balancer or GMX; moving pools, clocks and keepers | `SlippageIsTheTolerance`, `ExecutionsKeepTheirTerms`: limit and deadline of what is executed are those asked for; `BestPoolIsChosen` in whatever order candidates come; `AcceptedBatchesRun` on the chain they were accepted on; `FundsReachOnlyTheNamed`: what goes to GMX reaches the wallet or whom a request names, and strangers take only collateral of decreases; `NothingIsLeftBehind`: a batch closes what it opened, and adds to a vault of GMX exactly the collateral of a decrease |
| `services` | 2 attempts of a wallet, 2 discoveries, 2 booting instances, 2 requests for a key, 3 events | `SubmittedIsCovered`, `BundlerSeesTheEstimate`: what is sent is signed and packed as it is; `AttemptRunsOnce`: the retry for preVerificationGas; `ReportsAreOwn`, `InitCodeFitsTheNonce`: attempts that race for a nonce; `EffectsEndWithTheWindow`; `ListingsAreComplete`, `KnownPoolsAreKept`: discovery and its cache; `KeyIsWrittenOnce` (refinement); `IssuanceKeepsItsWindow`: the limit of keys and `retry_after`; `EventsAreAccounted`: attempts, and which event is the latest |

The bounds. Two workers are enough for a job to meet a worker that is not the
one that had it before; a third adds no new meeting, because workers share
nothing but the lists. Two attempts have a first, a retried and an exhausted
run. Requests interact only through the order of the main list, so most runs
have one, and the runs with two have the second as a job in the backlog. Two
crashes let the second hit what the first left (a crash during recovery, or a
recovered job cut again). The clock of the limiter is long enough for a bucket
to be emptied, refilled, evicted and made anew (capacity 5, grace 2, 10 ticks),
and `Cost = 2` lets a bucket hold a fraction of a token. Two keys in `wallets`
allow a race for one agent, or a wallet for each.

In `lending` and `trading` a request reads at most a handful of values and one
move between two of them is enough to make any one of them stale; the second
request is what the wallet does itself meanwhile. In `trading` such a move may also be
another account's request to GMX, which takes what a vault holds uncredited. Initial chains are with and
without debt, allowance and balance. In `services` times are scaled: the
paymaster's window is 2, the confirmation timeout and the clock grace 1 (300 s,
120 s and 30 s in the code, in the same order), the margin of
`buffered_pre_verification_gas` 2 for 1000, and a uint128 has 3 bits, so a
uint256 6. A page of the index has 2 entries and a discovery 2 pages, so 3
pools, which may share blocks, end on, within and beyond a page and exceed the
pages. Second is 4 units, so Redis' rounding of a TTL can be off by half a
second either way.

Deadlock is not checked: workers wait for a job for ever once the requests are
handled, the limiter's clock ends, calls of the registry are bounded by the
keys, and the requests, attempts and events of the other runs come to an end.

Fairness (`FairSpec`, in `workers` and `crashes`): each worker's own steps, and
the steps of start-up. Tokio polls every ready task, BLMOVE and the receipt
poll have timeouts, supervisors restart panicked workers, and a service manager
restarts the process. Nothing is assumed of clients, of the bundler or of the
chain: an operation need never be included. Liveness claims no outcome, only
that one is announced, or that a list is left.

Every property of a passing run has a mutant of the code in `PROJECT.json`
(an ack instead of a retry, an attempt not counted, a recovery that stops one
id short, ON CONFLICT DO UPDATE, ...) that the run refutes.

## What the code does otherwise than it says

Each of these is a run that TLC refutes, with the line in `PROJECT.json`.

| Run | Said | Done |
|---|---|---|
| `lost_job` | a job is never silently lost (`queue/mod.rs:13`) | `re_enqueue_with_bump` removes before it pushes; a crash in between loses the job |
| `status_race` | requests terminate as confirmed, reverted or failed (`docs/gitbook/getting-started.md:41`) | `handle_execute` writes Queued after the push, over a terminal status if the worker was faster |
| `late_inclusion` | the status is the source of truth for failed (`docs/agent-integration/skills.md:484`) | attempts are used up after 120 s each, the last operation stays includable for 300 s: a Failed request may still be executed |

Three more have no run of their own, as passing properties already measure them.
`attempt_count` is described as the number of times the job was attempted
(`types/mod.rs:210`), but recovery puts a job back uncounted: `DisturbancesCostOneRun`
grants a run to each disturbance. The limiter is described as 30 requests at
once, then 10/s (`rate_limit/mod.rs:57-58`), but `now` is read before the lock
and stored even when it is older: `AdmissionsAccounted` adds what was rewound.
The wallet answer says its address is the one deployed on the first transaction
(`services/mod.rs:782-785`), but the stored address comes from the factory of
whichever chain the HashMap yields first: `OneWalletPerAgent` is one address
per chain, `WalletRegistry.AddressOn` which.

Some effects are in the model and bound what the passing properties claim.
A lost reply of BLMOVE leaves the job in the processing list of a worker that
lives on; it is run only after the next panic or restart (`Dequeue`). And
`ack_job` writes the text of a job again before it looks for it, so a payload
of an older release is not matched, stays in its list, and is run again by
recovery (`RemoveFromProcessing`, `form`); `SingleCopy` and
`DisturbancesCostOneRun` are therefore stated for payloads of this release. The
log index may refuse with an empty list, which the code takes for no pools, or
for the end of the pages; `ListingsAreComplete` and `KnownPoolsAreKept` except such
listings. A discovery that began earlier may end later and replace a newer
listing. Only Uniswap's HTTP client has a time limit, so how recent a
cached listing is is stated for it alone. `pack_two_uint128` cuts what exceeds 128 bits, and relies
on the bundler for that (`relayer/erc4337/mod.rs:1081`); `BundlerSeesTheEstimate`
is checked for estimates that fit. The Aave borrow guard reads the wallet's
account whoever `on_behalf_of` is, Balancer's removal of liquidity has no
deadline, Morpho's amounts lose digits beyond the token's decimals, and its
parser, whose error speaks of a non-negative number (`morpho/adapter.rs:251`), takes a
negative one for 2^256 less that number. An Aave repayment opens an allowance
for what was owed or held when it was read, and less may be owed by then; Comet
takes the greatest number for all that is owed, and leaves the rest of the
allowance. The properties of `lending` and `trading` say so where they except it.

`compile_create_order` of GMX sends the collateral to the OrderVault for every
type of order (`gmx_v2/adapter.rs:436-451`). GMX credits what a vault was sent
to swap orders and to orders that increase a position; one that decreases a
position passes its collateral as a number (`adapter.rs:1647`), and what was sent for
it stays in the vault, where the next request that names the token is credited
with it, whoever creates it. The model has decreases as they are
(`GmxV2.Recorded`, `Taken`): `NothingIsLeftBehind` says that what a batch adds to
a vault is the collateral of a decrease, to the unit, and nothing else, and
`FundsReachOnlyTheNamed` that other accounts take only tokens of which such
an order sent some.

## What is proved

All proofs hold for every value of the constants that the named assumptions
(`PlatformAssumption`, `QueueAssumption`, `WorkerAssumption`,
`PipelineAssumption`, `LimiterAssumption`, `RegistryAssumption`,
`ServicesAssumption`, `WidthsAssumption`, `UniswapAssumption`,
`BalancerAssumption`, `GmxAssumption`, `AaveAssumption`, `CompoundAssumption`,
`MorphoAssumption`, `MovesAssumption`) allow: any number of requests, workers,
attempts, keys, agents, pools, visitors and handlers, any limits, any backlog,
any requests to an adapter and any state of its chain.

| Module | Theorem | Statement and argument |
|---|---|---|
| `PipelineProofs` | `TypeCorrect`, `HandsCorrect` | `Spec => []TypeOK`. `TypeOK` is not inductive: an action that writes `held[w].req` into a list needs a readable job in the hand. `TypeInv` adds `HandOK`: at each await the worker has what the code there uses. One lemma per Redis command, which says what it keeps of the type, the members and the positions of a list, and one per action |
| | `OutcomeCorrect` | `Spec => []OutcomeIsOnChain`. The strengthening `OutcomeInv` follows the knowledge of an outcome from the chain to the webhook: a watched operation that succeeded is counted in `executed`, a worker about to write Confirmed holds a request with `executed > 0`, and the same with `undone` for a revert. Counters only grow, so the knowledge is never lost |
| | `SingleCopyCorrect` | `PlacesInv`: the limits of the constants, a request whose call is not yet at its push is nowhere (`FreshInv`), and, while no command failed, every trace of a request's job is of one kind (waiting, in a worker's list, in a worker's hand, dead), once, and a worker that took a job still has it in its list (`CopyInv`). One lemma per command says where the copies of a request go |
| | `UnannouncedJobIsKeptCorrect` | `KeptInv`: while nothing is disturbed, who is past the webhook has announced it, and a job between two lists is in the hand of the worker whose next await pushes it |
| | `ImplementsDeliveryCorrect` | each action of the pipeline is a step of `JobDelivery` or a stutter, under the map of `PipelineRefinement`. Besides `PlacesInv` it needs what a worker in each await has already done (`RanInv`, `DecidedInv`, `AnnouncedInv`). Hypotheses: no failing command, payloads of this release, no error worded like a revert; any crashes and panics. They are those of the run, and each is needed: see the previous section |
| | `AttemptsWithinLimitCorrect`, `FailureIsDeadLetteredCorrect` | `AttemptsInv`: a worker takes a used-up payload only of a request whose backlog had one, which then never runs, and the dead-letter list has only used-up ones. `FailInv`: while no command failed, who is about to say `failed` has written the dead letter |
| | `LastCopyLeavesDecidedCorrect` | action property, from the invariants above, with any failing commands; hypothesis: no error worded like a revert |
| | `EffectsBoundedCorrect` | `SpendingInv`: the effects of a request, its operations under way and the runs about to submit one are together at most its runs. `ToldInv`: the webhooks and the workers about to send one are at most the effects |
| | `DisturbancesCostOneRunCorrect` | `CostInv`: while its job rests in a list, a request has cost at most the attempts counted in the job's text and one for each disturbance; in a worker's hand at most one run, and after the webhook one event and one row, more |
| | `TerminalStatusLeftCorrect` | action property. `UndisturbedInv`: without a disturbance a request has one job, and once its status is terminal that job neither waits nor is in the hand of a worker that writes the status again |
| `RateLimiterProofs` | `AdmissionsCorrect` | `Spec => []AdmissionsAccounted`. The strengthening `LimiterInv` keeps books: what was spent plus what is in the bucket is at most the capacity plus `last_refill` plus what was rewound; a key without a bucket spent little enough that a full one is still paid for, which needs that a task is at most `MaxLag <= Grace` late |
| | `RetryAfterCorrect` | `Spec => RetryAfterHonoured`, an action property. `HonourInv`: a bucket that exists refills to a token no later than the last refusal promised; a late task that moves `last_refill` back takes no tokens away, and an evicted bucket comes back full |
| `WalletProofs` | `OneWalletCorrect`, `WriteOnceCorrect` | `Spec => []OneWalletPerAgent`, and `Spec => ImplementsWriteOnce`. `RegistryInv` says that everything told comes from the agent's row, and that a call that reached Reload has a row; the INSERT changes only missing rows, so both are kept |
| `ServicesProofs` | `KeyIsWrittenOnceCorrect` | `KeyInv`: a key an instance is about to trust is the stored one; `Spec => KeyIsWrittenOnce` is the refinement of `WriteOnce` |
| | `EventsAreAccountedCorrect` | `WebhookInv`: each copy received is of one of the tries made, and events are fired in their order at increasing times |
| | `ReportsAreOwnCorrect`, `InitCodeFitsTheNonceCorrect`, `SubmittedIsCoveredCorrect`, `AttemptRunsOnceCorrect`, `BundlerSeesTheEstimateCorrect`, `EffectsEndWithTheWindowCorrect` | one `SubmissionInv` for the course of an attempt: what each await knows of the draft, the estimate, the two signatures and the operations sent, which of these the mempool holds, and that receipts are of distinct nonces below the account's |
| | `ListingsAreCompleteCorrect`, `KnownPoolsAreKeptCorrect` | `DiscoveryInv`: while a discovery reads pages, what it has is every pool that existed when it began and lies below the block it asks from next; a page that ends within a block is followed by one that begins with that block |
| | `IssuanceKeepsItsWindowCorrect` | `IssuanceInv`: at most the limit entered since the running counter started, and at most the limit in the window's length before that, so a period of that length meets at most two of them. Those that wait for their INSERT are counted with the rows. A refused client's `retry_after` is beyond the counter it met, up to half a second |
| `ProtocolProofs` | (lemmas) | the handler of every adapter, for any operators a protocol gives: what a handler holds was read from chains of this behaviour, from the present one if nothing overtook it (`HandlerInv`, `FreshIsCurrent`); a batch is executed call by call (`RunPath`) and its result lies in any set its calls stay in (`RunStays`); the chain changes by the market or by such a batch (`ChainChanges`). Run and the community folds are functions of a position, so what holds of them is an induction over it: a set of naturals with 0 and with every successor has all (`SetInduction`, `Upwards`, `Iterates`, `FoldSteps`) |
| `TradingLemmas`, `TradingProofs` | `TermsAreKept`, `BatchesClean` | action properties, from `TradingInv`: of each protocol, the chain is one of its states and each task one of `HandlerInv`. What a batch was compiled to (`UniswapCompiled`, `BalancerCompiled`) fixes its terms; each call, on whichever chain it meets, changes the chain as these terms say, so the terms hold at the end however late the batch runs. Adding liquidity is a list whose length depends on the request: what it opens it closes, position by position |
| | `FundsStayNamed` | `GmxInv`: whoever has something of the wallet's is the wallet or named by a request so far, and so for each request in a vault. Of the tokens of which no decrease of the wallet sent collateral, the vaults are empty between batches and other accounts have taken nothing, because each batch ends by creating the request that is credited with what it sent; a decrease adds exactly its collateral |
| | `TheBestPoolIsChosen` | the choice is a fold over the discovered pools whose result nothing usable precedes (`UniswapChoice`, `BalancerChoice`), since `quote_is_better` is a total order on quotes; what a handler that was not overtaken saw is what the chain has |
| `LendingProofs` | `AmountsStayInRange` | `Spec => []TypeOK`. `LendingInv`: a behaviour stays with its protocol, whose chain is one of its states and each of whose tasks one of `HandlerInv`. One lemma per call of each protocol says what it changes and that the result is a state again; what a handler compiles has no call whose amount is an Err |
| | `AmountsAreKept` | `Spec => []CompiledAsAsked`. A batch is described by where its amount comes from: the request, or a chain the handler read. For an explicit amount the two folds of the parser and of `Meaning` are compared digit by digit, as sums along a sequence |
| | `HealthIsKept` | action property. For a batch that meets the chain its guard read, the guard's projection is computed through the calls of the batch: for Morpho debt and collateral afterwards are exactly the projected ones, interest, shares and both roundings included; for Aave the sum of an owner's debts rises by at most one unit more than the guard added, since each is rounded on its own |
| | `NothingIsLeftOfTheMaximum`, `AllowancesAreClosed` | action properties. What a batch does is proved for any chain it may meet, from the states alone; the reason for its amount then says what is left: shares do not change while interest accrues, so Morpho's are cleared on any chain without another batch of the wallet; Aave's and Compound's balances and debts are those that were read if nothing overtook the handler |

Two assumptions are about data. `WidthsAssumption` says that a uint256 is two
uint128, that the bundler's gas estimates and prices fit in 128 bits, which the
code relies on (`relayer/erc4337/mod.rs:1081`), and that the number in an error
text is one that parses. `Window` is positive, as `main.rs` passes 300. Those of
the adapters say what a request is after parsing and what a state of the chain
is (`IsRequest`, `States`), that discovery may list every pool in any order, of
GMX that at first nobody but the wallet has anything of it, and that nothing is in the vaults or was taken, and of Morpho that an
amount has at most one digit beyond the token's decimals, since the model's
tokens have none and one digit stands for what is cut off. In the proofs about
lending the prices, the tokens' balances, debts, shares, rates and elapsed times
are any numbers; the width of an amount, the tokens and their decimals, and the
loan-to-value of Aave and Compound are definitions of the model.

These stay with TLC:

- liveness (`EveryPushIsAnnounced`, `EveryJobLeavesItsLists`), which needs
  fairness and ENABLED;
- the properties of the runs that expect a violation, which TLC refutes;
- of `lending`, `AnswersCanBeActedOn`: for it a borrow of what was answered has
  to be shown not to revert, through the products of rounded quotients by which
  the protocols and the adapters bound a loan;
- of `trading`, `SlippageIsTheTolerance`, which compares rounded products and
  quotients of two amounts, and `AcceptedBatchesRun`, for which every call of
  every batch has to be shown not to revert.

## What is left out

- A second process on the same Redis: worker ids are per process, so two
  processes share processing lists and one's start-up recovery takes the
  other's live jobs.
- In the pipeline each request has a wallet of its own (`UserOps`); that
  requests of one wallet compete for a nonce is in `UserOpSubmission`, without
  the queue.
- A float for the tokens of a bucket: tokens are exact.
- The chain id, addresses and gas limits of the paymaster, which are the same
  in every hash; the HMAC of webhooks; encryption of keys.
- The ranking of Morpho's `handle_markets`, the listing of Balancer's pool API,
  the rates and names in answers.
- Formats, wording, logging, CORS, routing and the API key middleware, the
  translation of results to HTTP answers, queries that only read a row, and
  graceful shutdown, of which a crash is the worst case.
- Configuration and the client programs (`docs/agent-integration`), which keep
  no state of the platform.

## Plan

In order; row 8 is open.

| Step | Modules | Composes | Runs, abstract specification, theorems |
|---|---|---|---|
| 1 done | `JobQueue`, `ExecutionStore`, `UserOps`, `Worker`, `ExecutionPipeline` | all of them over one process | `workers`, `crashes`, `failing_commands`, `old_backlog`; `TypeCorrect`, `OutcomeCorrect` |
| 2 done | `JobDelivery`, `PipelineRefinement` | | `ImplementsDelivery` |
| 3 done | `RateLimiter` | | `limiter`; `AdmissionsCorrect` |
| 4 done | `WriteOnce`, `WalletRegistry` | | `wallets`; `OneWalletCorrect`, `WriteOnceCorrect` |
| 5 done | `Amounts`, `ProtocolActions`, `AaveV3`, `CompoundV3`, `MorphoBlue`, `LendingProtocols` | the adapters with the course of a request | `lending` |
| 6 done | `Swaps`, `UniswapV4`, `BalancerV3`, `GmxV2`, `TradingProtocols` | the same | `trading` |
| 7 done | `UserOpSubmission`, `PoolDiscovery`, `PlatformKey`, `KeyIssuance`, `WebhookDelivery`, `Services` | `WriteOnce` | `services` |
| 8 | `ProcessOverlap`: two processes, rolling releases, another number of workers | `JobQueue` | who may have a job in hand when two recover |
| 9 done | `PipelineProofs`, `ServicesProofs` | | every safety property of the pipeline and of the services, `ImplementsDelivery` step by step |
| 10 done | `ProtocolProofs`, `TradingLemmas`, `TradingProofs`, `LendingProofs` | | proofs about the adapters: all properties of `trading` and `lending` but the three named under [What is proved](#what-is-proved) |
