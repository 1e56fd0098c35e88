# Verification of kr-stock-autotrader

TLA+ models of the paper-trading service under `src/`, TLC configurations that
check them on small instances, and TLAPS proofs of the main results for every
value of the constants. Line numbers refer to `src/kr_stock_autotrader/` unless
another directory is named.

## 1. The system

One uvicorn process serves a FastAPI application over one SQLite file. External
schedules (the 07:00 research, the 09:05 context runner) and agents call its
internal HTTP endpoints; users call it through a browser. It never sends an
order: "buying" and "selling" are rows of paper tables.

    DART pages -> prehook -> research run -> evidence -> filter result -> decision card
    decision card -> user decision -> order plan -> evaluation ticks -> paper fills
    decision card -> scenario set -> observations, 09:05 context, outcomes
                  -> calibration -> second-stage recommendation

| Component | State it keeps | Operations | Calls / is called by |
|---|---|---|---|
| Evidence, filters, cards (`decision_cards.py`) | `material_evidence`, `deterministic_filter_results`, `decision_cards` | create, patch, invalidate evidence; `save_filter`; `save_card` | revokes order plans through `invalidate_lineage`; appends conditional scenarios |
| Order plans (`decision_cards.py`) | `user_decisions`, `order_plan_drafts`, `order_plans`, `positions`, `order_fills`, `order_events`, `order_evaluations`, `exit_lineage`, `user_settings` | decide, edit draft, edit plan, evaluate, close, default amount | reads cards |
| Conditional scenarios (`conditional_scenarios.py`, `conditional_scenario_backfill.py`) | `event_conditional_scenario_sets` (immutable) | create, backfill | called by `save_card` |
| Event scenarios (`event_scenarios.py`) | `event_scenario_sets`, `event_scenario_observations` (append-only) | create, observe | reads cards and their revocation |
| Hybrid engine (`hybrid_recommendations.py`) | policies, outcome ledger, calibration plans, snapshots, evaluations (append-only) | record, plan, snapshot, evaluate | scenario sets, 09:05 contexts |
| Research runs and backlog (`api.py`) | `scheduler_runs`, `giraffe_research_backlog`, `material_evidence` | register, read, refresh, finish | prehook, agent |
| DART prehook (`scripts/giraffe_dart_*`) | retained packets, local commitment file | capture, build the contract, commit, register | research runs |
| Intraday context, expected price, 09:05 runner (`intraday_market_context.py`, `expected_price*.py`, `scripts/giraffe_market_context_0905.py`) | the aggregate run, one context and one expected price per card | start, post, read, finish | cards, KIS client |
| KIS client (`kis_readonly.py`) | token in memory and in `kis_oauth_token_cache` | issue, reuse, invalidate on refusal, retry once | quotes, bars, order book |
| Quote cache and dry runs (`api.py`, `live_dry_run.py`) | lock registry, cache, durable receipts | quote, dry run | KIS client, order plans |
| Market data (`market_data.py`) | none | snapshot, retry | KIS client |
| Legacy plans (`service.py`, `domain.py`) | `plans`, `conditions`, `fills`, `events` | create, cancel, tick | none |
| Schema (`db.py`) | all tables, triggers, indexes | create, migrate on connect | everything |
| Pure parts (card schema, calendar, classification), session, CLI, UI | none or a cookie | validate, render | everything |

### What is hard

* **Two kinds of handlers.** `async def` endpoints run their synchronous body on
  the event loop and are atomic towards each other. Plain `def` endpoints run in
  worker threads on connections of their own. Evidence invalidation (api.py:1963),
  the default amount (api.py:1795) and the quote endpoints are plain, the
  evaluator and the decisions are not, so a revocation can commit between what
  a decision or a tick reads and what it writes.
* **Reads outside a transaction.** `save_filter`, `save_card` and the conditional
  scenarios take the write lock before they read. `user_decision`, `edit_draft`
  and `evaluate_order_plan` read in autocommit mode, and their transaction starts
  at their first write. Some of their writes are absolute (`bought_qty=?`,
  `status=?`), others relative (`sold_qty=sold_qty+?`, `qty=qty-?`).
* **Revocation from four sides**: evidence, newer card, hold or reject, plan edit.
  The evaluator trusts the plan's status alone.
* **Append-only lineages** whose parent is named by the caller, with retries after
  lost answers.
* **Two processes that fail apart.** The prehook and the 09:05 runner keep their
  own files and memory, lose answers, die between two requests and are started
  again, while the server has or has not stored what they asked for.
* **One token for all threads**, refreshed inside a database transaction and
  deleted after a refusal, next to locks that are created on first use and
  dropped after the last, under keys that hold the identity of a client which is
  itself built at first use without a lock.
* **A calibration that must not look ahead**: plans, outcomes and snapshots
  arrive in any order; the times of bars and of windows, the holdout key and the event
  identity are the caller's, the freezes the server's.
* **Three contract versions** that register accepts side by side: version 1 admits
  receipts without a tracking row.

### What makes each component correct

* Order plans: fills within both budgets; the counters and the position table
  agree; entry permission is lost for good; nothing enters against the card's
  or the user's last word; one approval, one exposure.
* Evidence, filters, cards: one unforked chain of results per evidence version;
  live cards belong to the present version; one live card per lineage key.
* Scenarios: frozen only for current cards; after an exit review no observation
  takes it back.
* Research runs: every receipt admitted under contract version 2 or 3 is tracked until
  a run that admitted it decides it, a decision is never rewritten, a done run's receipt matches its rows,
  and the agent only works under a contract that is committed on both sides.
* 09:05 runner: a done run is backed by its cards' stored contexts and prices;
  success stays, a reported failure is terminal, every started run ends.
* Token: the good token is the stored one and the only one; every call returns.
* Quote cache: one fetch per client and symbol and one dry run per key at a time; no lock
  outlives its users; a receipt key gives one answer; every request is answered.
* Hybrid engine: what was in the ledger, its bars known, before a plan was frozen is
  not learned from under it; a window tested again keeps the cases it had; a result is not
  booked on a superseded version; a replayed answer is the present one, and a buy
  review has the cases behind it.

`PROJECT.json` lists every component with its status, and the hazards line by
line with the properties that cover them.

## 2. Modules

| Module | What it is |
|---|---|
| `PaperLedger` | Abstract specification of one approved plan: open with a frozen budget, buy within it, sell what is held, entry permission never comes back |
| `OrderPlan` | Cards (seen from the plans), user decisions, drafts, order plans, evaluator; one action per handler that ran alone; refines `PaperLedger` |
| `OrderPlanRace` | Extends `OrderPlan`: handlers split where they read and write, against the two threaded endpoints |
| `OrderPlanProofs`, `OrderPlanRaceProofs` | Theorems about both, the refinement included |
| `FilterLineage`, `FilterLineageProofs` | Evidence, filter results, cards, conditional scenario sets; theorems |
| `ResearchBacklog` | The server's side of the 07:00 research: runs, backlog rows, evidence |
| `ResearchGate` | Extends it by the prehook, its disk, the calendar and the agent |
| `ResearchProofs` | Theorems about the server alone and about the composition |
| `MarketContext`, `MarketContextProofs` | The 09:05 runner and its server, with lost and late requests; theorems |
| `KISClient`, `KISClientProofs` | The shared KIS client and its stored token; theorems |
| `QuoteCache`, `QuoteCacheProofs` | Registered locks, quote cache, dry-run receipt; theorems |
| `EventScenarios` | Scenario sets and their observations |
| `HybridEngine`, `HybridEngineProofs` | Extends `EventScenarios` by contexts, outcomes, calibration and evaluations; theorems |
| `MC*` | Constants for TLC |

### OrderPlan

| Variable | Code |
|---|---|
| `card` | `decision_cards`: absent, live, or `invalidated_at` set |
| `setting` | `user_settings.default_paper_amount`; a user without a row has the 500,000 default, which is one of the values `Init` chooses |
| `decision` | `user_decisions.decision` (`reject` is kept as `hold`: same code path) |
| `draft`, `archived` | `order_plan_drafts`: the row with status `draft`, and which of `approved`, `superseded` exist (`UNIQUE(card_id,user_id,status)`) |
| `plans`, `terms`, `status` | `order_plans`: number of rows, immutable columns, status |
| `bought`, `amount`, `sold` | `bought_qty`, `bought_amount`, `sold_qty` |
| `position` | `positions.qty` |
| `stages` | take-profit rules in `exit_lineage` |
| `evaluated` | tick keys in `order_evaluations` |

| Action | Handler |
|---|---|
| `PublishCard`, `InvalidateEvidence` | the part of `save_card` and `mutate_evidence` that touches cards and plans |
| `SetPaperAmount` | `update_paper_settings` |
| `Hold`, `Approve` | `user_decision` |
| `EditDraft`, `EditPlan` | `edit_draft`, `edit_order_plan` |
| `Evaluate`, `Close` | `evaluate_order_plan`, and the close endpoint that calls it |

A snapshot keeps `max_qty`, `max_amount` and a *form*. The form stands for every
other field: `"column"` when the plan's columns give the field back as it was
written, `"json"` when they do not (an integer in a REAL column). It decides the
snapshot hash, and through it which approval is recognised as a repetition.
A tick is what the evaluator computes from its body and the clock: the price, whether
the quote is fresh and the market open, whether a manual or evidence exit is
asked for, whether a deadline has passed, whether the remaining entry checks
pass, and how many shares are asked for. The ticks are arbitrary combinations,
so nothing depends on the order of prices or times.

Prices are whole won in the model, so `math.floor` of the money left by the price
in `BuyQty` is the integer quotient; rounding of REAL sums is not modelled.

### OrderPlanRace

`inFlight` holds the handler on the event loop that has read and not yet
written; there is at most one because the loop runs one body at a time.
`BeginEvaluate`/`FinishEvaluate`, `BeginApprove`/`FinishApprove` and
`BeginEditDraft`/`FinishEditDraft` are its halves. `OnThread` is the two plain
endpoints, `OnLoop` the handlers that read nothing before their first write that
a thread can change. The read of `order_evaluations` needs no second look: only
the loop writes that table.

### FilterLineage

`status` and `version` are the columns of an evidence; `filters` and `cards` are
the tables in insertion order, so a row's id is its index. A scope is a pair
`(as_of, known_at)`, an input a canonical JSON body. `Childless`, `Heads`,
`Exact`, `NamesHead` are the queries of `save_filter`; the unique indexes of
db.py:397-402 never fire because the write lock is taken first. The status word `new` stands
also for `error`, `card_generated` also for `decision_pending`: no handler tells
them apart. A status-only patch may bring an invalidated evidence back, as in
the code. A card's `scenario` is `none` when its text gives no complete set,
`possible` when its verdict keeps `save_card` from storing one, and `frozen`
once stored; `FreezeScenario` is the explicit endpoint.

`InvalidateEvidence` and `PublishCard` of `OrderPlan` are what
`MutateEvidence` and `SaveCard` do to the plans of one evidence; the two modules
meet in the pair (card, live), which both keep.

### ResearchBacklog and ResearchGate

| Variable | Code |
|---|---|
| `rows` | `giraffe_research_backlog`, one row per identity: the DART row of a receipt, a correction of a packet generation, or a discovery |
| `runs` | the research rows of `scheduler_runs`: status, contract, terminal body |
| `evid` | the research rows of `material_evidence` |
| `day`, `disk` | the business day; per receipt the capture days of its packet generations |
| `files` | the local commitment file of each run key: none, torn or whole |
| `gate` | the running invocation of the prehook and what it holds in memory |
| `woken` | the run keys whose handle the agent received |

A contract has its version: 1 lists receipts only, 2 adds the carried rows, 3 the
exclusions, corrections and the audit of each item, and is what the prehook writes. The
server still accepts all three (api.py:670-788). `Enlisted` is what it opens rows for
at registration and closes at the finish: under version 1 nothing (api.py:1052, 2367). Rows for what
a version 1 run left unfinished come from a later seeding; once it is done none ever do.

| Action | Code |
|---|---|
| `ReadBacklog`, and `Seeded` inside the others | `_seed_unfinished_research_backlog`: reopened, quarantined and enqueued rows |
| `Register` | `register_research_run` |
| `RefreshPackets` | `refresh_dart_backlog_packets` |
| `CreateEvidence` | admission of research evidence |
| `FinishDone`, `FinishError` | `scheduler_finish` with `_safe_research_scheduler_finish` and `_terminalize_v2_backlog` |
| `ReadStep`, `RefreshStep`, `PrepareStep`, `RegisterStep` | `main` of the manifest gate with `control_contract`, cut at its server calls |
| `OldRegister` | an older prehook, which writes contracts of version 1 or 2 and no commitment file (tests/test_giraffe_research_completion.py registers the former) |
| `AgentStores`, `AgentStoresFind`, `AgentFinishes` | the agent's calls |
| `Crash`, `NextDay` | death of the prehook; the calendar |

Two facts about the shape of the model. A run key is a pair (day, revision), and a
source is a receipt with the amount of provenance its contract version carries
("failed", "core", "full") and the packet generation; the hashes of the code
are equality of these records. The async handlers have no await between first
read and commit, so each is one step; the prehook is a process of its own and
is cut at every call. Time passes only between invocations. One handler is coarser than
the code: `GET research-backlog` (api.py:2248) runs on a worker thread, and between its
SELECT of the failures an old server had closed (558) and the UPDATE that reopens
them (562) another request may come. `ReadBacklog` is one step and leaves that window
out; only rows of an old server open it. The unfinished runs are seeded
from a SELECT without an order, so which of two runs a row is made from is left to a
`CHOOSE`.

### MarketContext

`agg` is the aggregate scheduler run, `ctx` and `price` the two rows of a card,
which the server commits one after the other (`PostHalf` is the death between
them). `left` counts the whole request slots that remain of the runner's
deadline; every request reserves the slots of those that must follow
(`RequestBudget.timeout`), and time passes only within requests. `mail` keeps
requests whose answer was lost; the server handles them now, later or never
(`Deliver*`). The runner is `Launch`, `Start`, `Probe` (after a lost start),
`GetChild`, `Post`, `ReadChild` per card, `FinishDone`, `CheckDone` (after a
lost finish), `FinishError`, `ConfirmError`; `Die` is a kill at any point.
A price whose calculation failed is stored, but refused by the runner
(`EXPECTED_PRICE_TERMINAL_STATUSES`): the model keeps no outcome of the calculation, and
`ReadChild` may refuse any child instead.
Abstracted: the 20 s cap of a single request, the socket timeout taken as the
total time of a request, clock skew between the two hosts, and the order of cards,
which is that of their numbers.

### KISClient

`mem` is the token in the one client object of the process, `row` the stored
one, `token` what has become of each token the broker issued, `writer` the
thread inside `BEGIN IMMEDIATE`, `wire` the holder of `_request_start_lock`.
A call reads memory twice (`CheckMemory`, `TakeMemory`, as the code does), then the row
under the write lock, then asks for a token inside that transaction
(`StartOAuth`, `EndOAuth`); `EndQuote` answers, fails or is refused, `ClearToken`
and `InvalidateRow` are the two halves of an invalidation, and a call is retried
once. `TokenEnds` lets a token age or be revoked at any time. The busy timeout of
SQLite is the step that gives up while another thread writes.

### QuoteCache

`client` is the global `_default_kis_client`. It is built at first use without a lock
(api.py:379-381): `Provide` looks at it, `Build` fills it, `Provide` reads it again, so
threads that found none may each build one and the last is the one that stays. A client
has the name of the thread that built it. `registry` maps an identity (client and
symbol, or the dry-run key) to a lock slot, `slot` has the reference counts and holders,
`cache` the keys of the entries in insertion order, `job` the client, the symbol and the stack of slots of each
thread's request. `Join`, `Acquire`, `Release` and `Leave` are `_registered_lock`;
`Lookup`, `Recheck`, `Fetch` the quote endpoint (a lookup before and again under
the lock); `SeekReceipt`, `SeekAgain`, `Persist` the dry run, which asks for a
quote while it holds its own lock. A hit that no longer passes validation is deleted
and answered "unavailable" without a fetch (`LookedUp`). Purging what is past its TTL is
a step of the environment (`EntryAges`), which may come before any lookup or store, as is
the end of the plan or its card (`PlanEnds`). The provider is what `KISClient` promises (`CallsReturn`): a quote or the
unavailable answer.

`SingleFlight` is per client and symbol. The comment "The keyed lock makes a simultaneous miss
single-flight" (api.py:389-390) does not hold of a symbol while two first-use clients
live: each has a lock of its own. Left out: the provider a test injects, which is one object;
the other endpoints that build the same global (market data, 09:05 context), so that more
threads than those of quotes and dry runs may build a client; and the reuse of an `id`
after an overwritten client has been collected.

### EventScenarios and HybridEngine

All tables are sequences in insertion order. `CreateScenarioSet`, `Observe`,
`PersistContext`, `RecordOutcome`, `CreatePlan`, `CreateSnapshot` and `Evaluate`
are `create`, `observe`, `persist_intraday_market_context_run`, `record_outcome`,
`create_calibration_plan`, `create_calibration_snapshot` and `create_evaluation`; `Invalidate` is the revocation of a card and
`Pass` the clock. A calculation of a profile yields one of `Forecasts` (which
label has the highest prior, and a band per label), an outcome carries a *chart*
(its bars), and `LabelFor`, `RealizedIn`, `Gain`, `LowerBoundAtHalf` are the
label, the realised exit after costs, the mean and the Wilson bound in integer
arithmetic.

What a set is about is the caller's: a `Subject` is a card, an event identity and the cohort of
event type and profile, so that a card may have several events. So are the two times of each bar. `BarsInOrder`
is `_validate_outcome_rows`: times increase, no bar is known before it is traded, and
all are known between the freeze of the set and the cutoff; nothing compares them
with the clock. Bars may be dated in the future and an outcome recorded before
the plan, as tests/test_hybrid_decision_engine.py:763-797 does, and one bar may be
reported for two sets. Of an outcome the model keeps when its first bar was traded and
known and when its last was known (`traded`, `seen`, `observed`).

Three properties follow from that. `NoLookAhead` says that nobody
draws up a plan over a result he has: a plan frozen after a qualified outcome of its windows
entered the ledger, its bars known by then, never gets a snapshot, neither with the case nor
without it. The code compares only bar times with `frozen_at`, never the times of entry;
of bars from the future no such thing holds. `CasesNeverDropOut` is what is left of
holdout discipline when the holdout key is the caller's: the same window may be tested again under
another key, but the later test contains every case of the earlier one that is not of its own
target, invalidated cards included, so that a failed test cannot be repeated on the
survivors. `LedgerFollowsVersions` says that an event's cases are
booked in the order of its sets; a superseded set never gets one afterwards.

A repeated idempotency key has no step. It changes no table; the answer to a repeated observation
is the action stored when it first came, also after an invalidation
(event_scenarios.py:306-313), and `ExitReviewIsFinal` speaks of what is stored later. All cases share a
baseline price, so returns compare as gains; one policy version is in force.

## 3. Runs

| Run | Instance | States | What it shows |
|---|---|---|---|
| `order_plan` | 1 user, 2 cards of one lineage (1 approvable), 2 plans, 2 tick keys, share budgets 2 and 3, money budgets 4 and 7, 4 ticks | 163,954 | entry follows the card and the last decision, one entry per hash, the ledger is implemented |
| `order_plan_race` | 1 card, 1 plan, 4 tick keys, 8 ticks | 17,013 | the ledger facts survive the threads |
| `filter_lineage` | 2 evidences, 1 scope, 3 inputs, 2 keys, version at most 3, 3 filters, 2 cards | 843,509 | chains, versions, live cards, scenario sets |
| `research_gate` | one contract filed before day 1, runs of two days and a rerun of the first, whose first run an older prehook may register, 3 packet generations, 1 fault | 605,482 | decisions stay, stand under a contract, nothing admitted under version 2 or 3 is lost, handles are committed |
| `research_discoveries` | two receipts of different classes, one discovery, two days | 90,676 | discoveries are tracked and closed on evidence of the right run |
| `market_context` | 1 invocation, 2 cards, 9 slots, 3 of them in the launch minute, 2 faults; fair | 929,048 | what a done run stands on; runs and invocations end |
| `market_context_pair` | 2 invocations, 1 card, 7 slots, 2 in the minute, 2 faults | 682,016 | reports stay true beside another invocation and late requests |
| `kis_client` | 2 threads, 3 tokens, 2 calls each; fair | 218,858 | one good token, stored; calls return |
| `quote_cache` | 2 threads with 2 requests, so up to 2 clients, 2 symbols, a cache of 1 entry; fair | 392,332 | single flight per client and symbol, exact lock registry, one receipt, answers |
| `hybrid_engine` | 2 cards of one cohort, one with 2 events, 2 sets, versions 2, 2 observations, clock to 1, bars dated to 2, 2 contexts, 3 charts, 2 outcomes, 2 plans, 2 holdout keys (symmetric), 2 snapshots, 1 evaluation, 9 rows | 2,263,060 | the calibration and its use |
| `revocation_is_final`, `frozen_before_evidence` | the race and the hybrid instance | | documented claims the code does not keep, section 6 |

### Bounds

*Order plans.* Two plans are what it takes for a plan to be superseded and for two to
be in force together; two cards for a card to be replaced; the second card is
not approvable, which is what lets one revoke the other's plans without
doubling the state. Two tick keys allow two fills and a repetition; the race
instance has four so that a plan can buy, sell a stage, be revoked and be
flattened. The budgets are such that the share budget, the money budget and the
requested quantity each are the smallest in some state.

*Filters.* Three filters give a chain of three or two chains; version 3 with
bumps of 2 gives a patch of two fields and an invalidation on top.

*Research.* A correction needs a decided original, a rerun and a new packet
generation; the first instance has exactly that on one receipt, with a packet
age of 0 days so that every packet of day 1 is stale on day 2. A legacy row of the
receipt may exist at the start. The older prehook may register the first run (`OldKeys`), with at least one receipt
and no carried row: a done run of version 1, a failed one whose row a later run
seeds, and one of version 2 all occur. Discoveries are independent of packet
generations, so the second instance has a single one.

*09:05.* Two cards are a finished and an unfinished one; 9 slots are more than the
requests of an undisturbed invocation over both, so time runs out in some states and
not in others. A pair needs one card only, since its invocations meet in the
aggregate run. Two faults allow a lost start followed by a lost finish.

*KIS, cache.* Three tokens let one be deleted while a newer one is in memory and a
third is fetched; two calls let a thread meet the other's token before and after a
refusal. One cache entry for two keys makes every second fetch evict, and
two threads are enough for two clients.

*Hybrid.* The target is judged, the case followed, both in one cohort; the target has two events, so that
its sets may have equal versions. Bars may be dated one instant past the last of the clock, two bars fit,
and a plan may be frozen before the first, between them, or after them. The
thresholds are 1 case and a Wilson z of 1 (in place of 30, 20 and 1.96), so that one or two
cases can qualify and can fail; the engine compares only sums and counts. A
behaviour fills the observation table or the hybrid tables, whose rows never
read each other: `MaxRows` bounds the rows together (9 leave room for two snapshots
of two plans over two cases) and `Unused` is this split. The theorems hold for
every value of the bounds, under the same split.

Symmetric sets are only those no action distinguishes. `CHECK_DEADLOCK FALSE`
everywhere: with every row, request or key used up the bounded systems stop, and
the program itself waits for requests.

Properties of `OrderPlan` that the race run leaves out:
`RevokedCardHasNoEntry` (an approval can be in flight while its card dies),
`OneEntryPerHash` (one plan there), `ImplementsLedger` (the finding
`RevocationIsFinal` is its failure). `LedgerConsistent`, `SoldPlanNeverBuys` and
`StatusMatchesPosition` of `OrderPlan`, and the types of `OrderPlan` and
`FilterLineage`, are proved and not run a second time (the race run checks the three
ledger properties with threads).

### Fairness

Weak fairness of a thread's next step, in three modules and for whoever is already
inside a call:

* `KISClient`: `WF(Step(t))`. A worker thread that has begun runs; the requests
  to the broker have timeouts, and waiting for the database ends with its busy timeout.
  `CallsReturn` is the result.
* `QuoteCache`: `WF(Work(t))`. The fetch inside is justified by `CallsReturn`. Locks
  are not assumed fair: every thread asks a bounded number of times here, which is
  what weak fairness needs. `RequestsReturn` is the result.
* `MarketContext`: `WF(Step(r))`. Each request of the runner has a timeout
  (`RequestBudget`), after which it is answered, lost or refused. `StartedRunEnds`
  is claimed when no fault happened (a killed runner leaves a started run, and the
  code has no reaper), `InvocationReports` always; a death counts as an end.

Elsewhere nothing runs by itself: evaluations, filters, cards, decisions and
research runs are requests of external callers (README.md, "Scheduler rows ...
are bookkeeping/display only"), and no liveness is claimed.

Every property has a mutant: a definition of the model replaced by a plausible
slip of the code, which TLC must catch under the same configuration. The
replacements stand beside the definitions they replace, marked *mutant*.

## 4. Proofs

All theorems hold for any sets of users, threads, cards, budgets, ticks, evidences,
inputs, charts and keys and any bounds, under the named assumptions of the modules: bounds are
naturals, budgets and prices of rules are positive integers, overrides, ticks and
forecasts have their types, a run key is a positive day and a revision, the threads
of the quote cache are finitely many. The inductive invariants of the race, the runner, the
quote cache and the research were checked by TLC on the instances of section 3 (the race
also with two plans) before they were proved.

`OrderPlanProofs`. `Invariance` proves `Spec => []IInv`. The invariant is the
conjunction of the checked properties and two facts that make it inductive: rows that do
not exist yet have zero counters (an inserted plan must start flat), and the card
of a plan has been published (a later publication cannot bring it to life). The
properties need each other: `SoldPlanNeverBuys` rests on `LedgerConsistent` for
the closing sale, `StatusMatchesPosition` on `SoldPlanNeverBuys`, because a
plan that may buy has sold nothing. `CoreInv` is the part about the plans alone, the
rest relates plans to cards and decisions. `RevocationStep` is the shared step of the
four revocations, `SaleCovered` and `BuyCovered` the arithmetic of a fill, the latter on
`CostFits` (n shares cost at most the money left when n is at most its quotient
by the price). `LedgerRefinement` maps each action to a ledger step or a
stutter: approvals to `Open`, revocations and plan edits to `Withdraw`, fills to
`Buy` and `Sell`.

`OrderPlanRaceProofs`. A thread breaks the relation of plans to cards, and not
`CoreInv`. What keeps `CoreInv` inductive is `FreshRow`: the row an evaluation in flight
has read agrees with the tables in its three counters, since no thread trades, and if it
allowed an entry when it was read then the plan has sold nothing and no other plan with
its terms may enter, since the loop approves nothing meanwhile. So the absolute writes
of the evaluator lose no update. The lemmas of `OrderPlanProofs` about the evaluator are
stated for any fresh row, and `Row(p)` is one. `RestoredOnlyByBuy` bounds the finding
`RevocationIsFinal`: an existing plan regains its entry permission only by a buy from
a row read before the revocation. The race does not refine `PaperLedger`, for
exactly that step.

`FilterLineageProofs`. `LineageInvariance` proves `Spec => []LInv`, which adds
to the checked properties: every chain with a row has a head (so "no head"
means "no row", and a row without parent is the first), the evidence of a
filter exists, and every key with a card has a newest card (so that the next
version is above all). `SaveFilterInv` carries the argument that the head's
successor number is free: a row with that number would be a child of the head.

`KISClientProofs`. `OneLiveToken` and `LiveTokenIsStored` become inductive with four
facts about who is where: a thread between the read of the row and the commit is the
writer (`HolderWrites`); a thread asks for a token only when the stored one is not
good (`RefillIsNeeded`); every token held anywhere was issued (`HeldIsIssued`); and a
token that was refused is good no longer (`RefusedIsDead`). The last makes the
deletion harmless: what `InvalidateRow` removes by name is dead, so a newer
token stored in between stays.

`HybridEngineProofs`. Every table is append-only, and each step changes at most one
of them (`TableSteps`); what an old row says about old rows therefore stays true
(`ResultsStay`, `RecommendationStays`), and each property is shown for the new row.
`HInv` adds what is needed across tables: references point to existing rows
(`References`), the cases of a snapshot are those its plan selects, as of its time
(`CasesBelong`), it leaves out none that was in the ledger before its plan (`NoneLeftOut`, which
needs that no plan is frozen in the future, `PlansPast`), a card with an exit review is dead (`ExitMeansDead`), a qualified
outcome has its context (`QualifiedEntered`), an eligible snapshot its cases
(`EligibleBacked`), and an evaluation its snapshot (`EvaluationFrozen`).
`CasesNeverDropOut` is the one that must be inductive itself: nothing a selection depends on (cohort,
target, window, what qualified) changes once an outcome is stored, in contrast to the card's
validity. `LedgerFollowsVersions` needs that only the newest set of an event gets an
outcome and that a later set has a higher number.

`MarketContextProofs`. A done run is backed because the invocation that finished it had
read back every card it counts. `MInv` follows that knowledge from the loop
(`LoopInv`: the open and the observed cards make up the list of the day) over finishes still under way
to the aggregate run (`FinishesBacked`); it survives because a card's rows are written
once. `SuccessIsDurable` and `ReportedFailureIsTerminal` rest on the fact `TerminalRunIsFinal`
states of every step.
The finish carries a count, so the proof also needs that a set of cards is as large as
the cards taken from it one by one.

`QuoteCacheProofs`. The theorems hold for any number of clients at once. Lock objects come and go, so exclusion is stated of identities. The
`pc` of a request tells which identities it uses and which it holds; its
stack is what the registry has for them (`RequestInv`), a registered slot
counts the users of exactly one identity (`Registered`, `SlotsApart`), and its lock
is with the thread inside (`HeldInside`). A join always finds an unused slot, by counting:
a thread uses at most two. `LocksAreGivenBack` adds that a held lock has its holder inside.

`ResearchProofs`. The five books of the backlog are proved of the server alone, for any
order of its calls and all three contract versions (`ServerKeepsItsBooks`; the readback counts as one
step, see section 2); that prehook and agent are such callers is a
refinement (`GateUsesTheServer`), and the books of the composition follow. `SInv` adds to them
that a row holds the source of its own receipt (`RowsProper`) and that what a done run
decided is terminal (`DoneRunIsClosed`). `RowStep` and `RunStep` say what every step
leaves alone: decided rows, finished runs, contracts of registered runs; `Owed` is what a
step must show of the objects it makes. `HandleIsCommitted` needs the invocation's memory:
at its register call the file on disk is the contract it holds (`Committed`). One
consequence is worth knowing: the enqueuing branch of `_seed_unfinished_research_backlog`
makes rows for runs of contract version 1 only (`NothingLost`). What a run of version 2 or 3 admitted
has its row since it was registered.

Only model-checked: all liveness (`InvocationReports`, `StartedRunEnds`, `CallsReturn`,
`RequestsReturn`), because fairness and `ENABLED` are out of the prover's reach. No safety
property of a passing run is left without a theorem. Nothing is proved of the modules that only
give constants to TLC.

## 5. Plan

Done: the modules of section 2 with their runs, and proofs for all of them.

Left, in this order:

1. Order between the components: an abstract token store that `KISClient` implements
   and an abstract receipt store for `QuoteCache`, in the manner of `PaperLedger`.
2. The readback of the backlog cut at its SELECT and UPDATE, with the legacy rows that
   open the window.
3. Smaller components as the runs allow: scenario backfill, legacy ticks.

## 6. Disagreements between code and documents

Kept by a run:

| Property | The code | The document |
|---|---|---|
| `RevocationIsFinal` | a buy in flight writes `partial_or_filled` over a revocation that committed after its read (decision_cards.py:780, 821) | decision_cards.py:106, atomic revocation of every entry-capable plan |
| `FrozenBeforeEvidence` | `create_calibration_snapshot` compares the freeze with the last bar of a case only (hybrid_recommendations.py:647, 940); the first, which may decide its label, can precede it | hybrid_recommendations.py:941, "calibration plan was frozen after eligible outcome evidence"; tests/test_hybrid_decision_engine.py:732 |

Met while modelling, visible in the models, without a run of their own:

| Where | The code | The document |
|---|---|---|
| decision_cards.py:710-723 | `edit_draft` leaves the approved plan in force; approving the draft adds a second | README.md:37, an edit invalidates the existing entry |
| decision_cards.py:690 | price columns come back as REAL and change the hash | decision_cards.py:687, the hash identity is preserved |
| decision_cards.py:775 | the third draft approval of a card and user fails on the unique archive row | decision_cards.py:774, prior drafts are kept as lineage |
| api.py:2630 | a close without a position is an ordinary tick and may buy | api.py:2624, only closes an open position |
| scripts/giraffe_dart_manifest_gate.py:330 | only core-shaped carried payloads are renewed, so a classified pending row whose packet ages out makes every later contract fail (616-619) | api.py:517, "unresolved work is never aged out or overwritten" |
| api.py:2411-2421 | a done finish after an error finish closes the rows while the receipt keeps the error | api.py:1162, 1120 |

## 7. Not modelled

* Conditional backfill: one command over rows stored before scenario sets existed, in
  one transaction; no modelled handler leaves such rows.
* Terminal audit and review queue: read-only projections of `ResearchBacklog`'s rows.
* Market data, filter verdicts, expected price, profile calculators: floating-point
  functions of bars. Where a property depends on them, their result is an arbitrary
  input (a verdict, a forecast).
* Legacy plans: superseded, one transaction per tick.
* DART fetching, pacing and parsing, card schema, calendar, classification: I/O and
  pure validation; the calendar window and report classes are parameters.
* Schema and migrations: before any handler. Indexes and triggers are guards of
  the actions that rely on them.
* Sessions, configuration, broker stub, CLI, UI.

Within the modelled components: fill prices, average price and events;
exceptions that write nothing; the chronology refusals of filters; several server processes
(the deployment runs one); authentication; repeated idempotency keys of the
scenario and hybrid endpoints; the wording of failure reasons.
