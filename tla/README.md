# AINS: TLA+ models, model checking and proofs

AINS is a multi-tenant AI gateway (`server/`) with an agent library
(`crates/rust-agent`) and its applications (`app/`). This directory models the parts
of it whose correctness depends on ordering: several replicas on one database and one
Redis, an agent loop that can be interrupted at any await, stores without transactions
in a browser, and pages made of small tasks.

    tlc -workers 2 -config MCPlanBilling.cfg MCPlanBilling   # one run
    tlapm PlanBillingProofs.tla                              # the proofs

`PROJECT.json` lists the components, the runs, the source lines behind every
definition, the hazards and the theorems.

## 1. Inventory

| Component | State | Operations | What is hard | What makes it correct |
|---|---|---|---|---|
| Plans, balances, quota (`services/plan.rs`, `user.rs`) | `users.balance`, `plans`, `user_plans`, `payment_orders` | create/update/delete plan, assign, purchase, set/adjust balance, consume, refund | READ COMMITTED interleavings, lost updates, EvalPlanQual dropout, replica death between consume and refund | balance equals credits minus orders; an instance is short of exactly the calls charged; purchase limit |
| Sessions, users, tenants (`auth.rs`, `user.rs`, `tenant.rs`) | refresh token rows, `token_version`, its Redis copy, role, tenant, `is_active` | login, rotate, logout, logout all, change, reset, role edit, move, delete, verify | rotations racing revocations, two lock orders, a cache filled after its invalidation | one living chain per login; claims are those of the row; the cached version converges |
| One-time codes (`verification.rs`, `password_reset.rs`, `wechat.rs`) | hash, expiry, attempt counter; captcha keys in Redis | issue, resend, verify, reset, claim | a resend between check and use | a code is used once, only while open, within its guesses |
| Gateway, quota, breaker, metering (`gateway.rs`, `quota.rs`, `metering.rs`) | channel and usage rows, windows, failure counters, flags | select, check, proxy, record, administer channels | counters and flags in separate cache calls, a lagging replica | the breaker opens for what was a failure; a counted channel is not deleted |
| Streaming and translation (`handlers/responses.rs`, `services/responses.rs`, `gateway.rs`) | two bounded queues, what was translated so far | open, relay, translate, close, meter; whole answers, requests, embeddings | order of ends, errors and drops; two ways for one answer | completed means whole; both ways end alike; the provider is let go |
| Cache and lock (`cache.rs`, `lock.rs`) | Redis keys with a TTL | get-or-insert, invalidate, lock | fill after invalidate, TTL ends while locked | only a fill begun before an invalidation may be old; a release frees only its own lock |
| Database router (`db_router.rs`) | a mark per replica | classify, select, retry, fall back, probe | replicas that fail during a read | a read fails only when nobody can answer; writes stay on the writer |
| Id generator and worker registry (`snowflake.rs`) | two atomics; worker rows | generate; register, heartbeat, deregister, clean | a pair of atomics; clocks; reclaimed rows | ids and worker ids are unique |
| Payment orders (`payment_order.rs`) | one table | create, edit, delete | `paid_at` read then written | a paid order has its time, that of its first payment |
| Agent kernel (`kernel/event_loop.rs`) | `AgentState`, conversation, interrupt flag, event channel, compaction state | `run`, `stream_model_turn`, `run_compaction` | Stop at any await, silent streams, restored half-finished histories, hooks | requests are well paired, Stop ends the query, state table respected |
| Transcript, compaction (`kernel/messages.rs`, `context/compact.rs`) | the message list | sanitize, cut, collapse, summarize, truncate | boundaries between a call and its result | sanitizing repairs, loses no user text, is idempotent |
| Tools, policy, MCP (`tools/runtime.rs`, `permission_engine.rs`, `tools/mcp.rs`) | metadata, allow list, mode; pipes, request ids | dispatch, dispatch many, decide, merge; connect, call | an answer after Stop, batches on copies, late or torn lines | nothing runs without its permission; no change of a batch is lost; an answer reaches its own call |
| Background tasks (`tasks/mod.rs`) | records, handles, notify | spawn, output, wait, stop, prune | stop racing completion, wake-ups without a permit | waiters return, final output is final |
| Memory (`memory/*.rs`, `context/session.rs`) | rows, embeddings, signatures, resident index, tombstones, document memberships | write, evict, undo, restart, extract, clear, index files, prompt | stores without a common transaction, several tabs | an entry is whole or gone; a cleared session stays gone; a project sees the texts of its files |
| Skill store (`skills/store.rs`, `files.rs`) | files, heads, index, version records | create, import, install, update, roll back, delete, prune, read | eight writes, each of which may fail | a failed change leaves what was there |
| Model client (`model_service.rs`, `client-api/src/ai.rs`) | buffer, tag filter, count of shown symbols | decode, stream, retry | tags and delimiters cut anywhere, a stream that starts over | every visible symbol is shown once |
| Chat page (`views/agent_chat.rs`, `agent/`) | view state, mirror, snapshot, epoch and gate, dialog, skill grant | send, `/skill`, Stop, answer, pump, clear | tasks that resume with old assumptions | composer unlocks, mirror equals the kernel's history, cleared stays cleared |
| Tool switches (`agent/service.rs`, `views/tools.rs`) | the set, its stored copy, the failure marker | toggle, load, save, dismiss | account changes under a load, toggles under a save | a switch is saved or its failure shown, per account |
| Purchase and administration pages (`personal_center.rs`, `users.rs` …) | shown list, balance, dialogs; the cached profile | load, page, confirm, save, delete, adjust | answers out of order, a cache filled after its invalidation | what stays on the screen is not older than what the page knows |
| Frameworks, e-mail, i18n, UI shells, bootstrap | none of their own | I/O and rendering | – | not modelled |

Interaction. A request `POST /api/ai/response` consumes a call, passes selection,
quota windows and breaker, and is answered whole or by two tasks with a queue each; the
call is refunded only when there was no channel, and usage is metered at the end. Every
authenticated request compares its token with the cached `token_version`. The agent
kernel is driven by an event channel and a shared `AtomicBool`; it asks the model client,
runs batches of tools and answers with stream events. The chat page owns both ends:
tasks spawned by the UI send events, a pump applies the stream events to the view and to
a mirror of the conversation, which it saves under a gate shared with the clear
operation; the clear also goes through the memory service, which guards one session
against other tabs with a tombstone and browser locks.

## 2. Plan

Done, the most important behaviour first: `PlanBilling` with `PlanBillingProofs`;
`Transcript` with `Histories`, `AgentKernel`, and `ChatHost` which composes the kernel with the page;
`Snowflake`; `Sessions`; `OneTimeCodes` and `WechatCaptcha`, which implement
`OneTimeGrant`; `Gateway`, `StreamRelay`, `Translation`; `CacheLock`, `DbRouter`,
`WorkerRegistry`, `PaymentOrders`; `SessionMemory`, `MemoryEngine`, `ProjectDocs`,
`SkillStore`; `BackgroundTasks`, `ToolRuntime`, `McpClient`, `ModelStream`, `SseDecoder`;
`ToolStates`, `PurchasePage` and `AdminPages`, which `WebPages` puts side by side.

Proved, for every value of the constants (section 5): the properties of `PlanBilling`,
`Sessions`, `OneTimeCodes`, `WechatCaptcha` (with the refinement of `OneTimeGrant`), `Gateway`, `StreamRelay`, `Translation`,
`WorkerRegistry`, `PaymentOrders`, `CacheLock`, `DbRouter`, `McpClient`, `ToolStates`,
`BackgroundTasks`, `Histories`, `AgentKernel`, `ToolRuntime`, `ChatHost`, `SessionMemory`, `MemoryEngine`, `ProjectDocs`,
`SkillStore`, `PurchasePage`, `AdminPages`.

Left, in this order:

1. The memory page and the memory directory (`views/memory.rs`, `memory/memdir.rs`).
2. The mailbox of the swarm, and the order in which hooks of several plugins are merged.

## 3. Modules and how they follow the code

### Server

**PlanBilling.** One action is one SQL statement as the database executes it, or a
commit. `rowLock` is the lock of `SELECT … FOR UPDATE` on a user row: `PurchaseBegin`
and `BalanceBegin` wait for it, commit or any early return (`Rollback`) releases it.
`purchase` reads the plan without a lock, counts earlier purchases in a statement of
its own, and checks and writes at the end; the writes become visible at once.
`consume_call` is split where PostgreSQL splits it: `ConsumeScan` (snapshot and pick),
`ConsumeApply` (lock granted, row re-checked) or `ConsumeDropout` (re-check failed),
then `ConsumeProbe` and the bounded retry. After a dropout PostgreSQL may affect no row,
as the code's comment says, or take the next row of the snapshot; both are modelled.
`GatewayOutcome`, `RefundCall` and `Abandon` are the handler: a refund only when there
was no channel, best effort, and possibly never. RBAC and tenant scoping of admins only
decide whether an admin operation happens, so its inputs are simply those accepted.
User rows are not created or deleted. `assign_to_user` reads and inserts in one step.

**Sessions.** One account. Each endpoint is a sequence of statements (`Step(p)`), with the
row locks they take and the rows they see under READ COMMITTED; a cycle of waits is ended
by aborting one of the two, as PostgreSQL does. `ExpireVersion` is the TTL of the cached
`token_version`. Living tokens remember the login they come from, so a fork is visible.

**OneTimeCodes, WechatCaptcha, OneTimeGrant.** The first two are the requests that read a
row or key, work on the copy and write later; resend, cooldown, failed attempts, expiry and
random collisions of codes are actions. `OneTimeGrant` is the promise: at most one open
grant, closed when redeemed or lapsed, nothing redeemed while none is open.
`ResetIsOneTime` and `CaptchaIsOneTime` instantiate it with a refinement mapping from the
columns and keys, and are checked as properties. The verification code does not implement it,
since a verified address may be verified again without effect; its bound is `CodesAreBounded`.

**Gateway.** Selection, the three windows, the breaker's counter and flag, metering, and
the administration of channels; every Redis call may fail, every key may expire, and
candidates come from a replica that lags. A provider is an outcome. A stream that an error on this side ends
has been opened, and is metered, or not.

**StreamRelay, Translation.** `StreamRelay` is the life of one streaming response: the task
that reads the provider, the translator, the two bounded queues, keep-alive, a client that
leaves, a notice lost in a full queue. `Translation` is what the two ways make of one answer:
the fold of the stream's events against the translation of the whole
(`StreamedAsWhole`), of requests (`RequestKept`) and embeddings (`EmbeddingsInPlace`). The
operators follow the code's tables of reasons and roles; texts are sequences of symbols that
the provider cuts into events as it likes.

**CacheLock, DbRouter, WorkerRegistry, PaymentOrders.** One Redis or SQL call is one action;
any may fail where the code handles it. In `WorkerRegistry` every process has its own clock
and may stop for a while; `late` marks a process that missed its heartbeat deadline. Of the time of a
payment `PaymentOrders` keeps whether it is the first that was stamped or a later one.

**Snowflake.** `generate` at the granularity of its atomic loads, exchanges and
increments, for threads of one process; the clock may be set back.

### Agent

**Transcript.** A message is its role, whether it has text, the ids it calls and the ids
it answers. `Sanitize` is the code's single scan with take-back, as a fold.

**Histories.** Every history a session can be restored with or be cut off in, message by message, and the
rules of `sanitize_conversation_messages`'s doc comment said at once of places in it: `Stay` is
the set of places that are kept, `Repaired` what becomes of the message there. `TranscriptHolds` compares the scan with them.

**AgentKernel.** `phase` is the `AgentState` and, inside `Querying` and
`ExecutingTools`, the await the loop is at. Each arm of `run` and each exit of
`stream_model_turn` is an action; `emitted` holds the stream events of the last step.
Token counts are abstracted: whether the threshold is reached, and whether a local
compaction suffices, is a free choice. The `Compacting` and `Failed` arms of `run`
have no action: nothing assigns `Compacting`, and the error that leads to `Failed` cannot occur.

**ToolRuntime.** The calls of a batch as futures of one task, with hooks, the decision of the
permission engine, the prompt, Stop, mode changes and the merge of the metadata copies. A list of the
metadata is what `push_capped_unique` makes of it; a batch with more notes of its own than the cap holds
loses the first of them, as the cap says.

**McpClient.** The stdio transport: a line is two pieces, so that a write or read can be cut by
a time limit; the handshake with its pages; calls that share the transport under a lock.
A piece carries the caller that made it, which no code looks at and the property does.

**BackgroundTasks.** A step is a section under the manager's mutex; `Notify` keeps no permit.

**SessionMemory, MemoryEngine, ProjectDocs.** `SessionMemory`: turns that end, background
extraction, the tool, the clear and the page without a memory service, over one origin with
browser locks or one native process. `MemoryEngine`: an entry is a row, an embedding, a
signature and a node of the index; every call may fail, so may the undo, and the process may
restart anywhere. `ProjectDocs`: a run of `index_project_docs` call by call over rows shared by
the hash of the text, with files that change, the contract of the embeddings, and prompts that
read meanwhile and are cached under `revision`.

**SkillStore.** A change is the sequence of writes of the code; the undo of a failed one is
again such a sequence. Readers in other tabs take no lock and refresh the index.

**ModelStream, SseDecoder.** The decoder works on bytes that stand for whole field lines, with
all three line ends and every cut into chunks. `ModelStream` has tags shorter than the
code's; its property is about a provider that repeats its answer when it is asked again. It uses
recursive operators, so it stays with TLC.

### Pages

**ChatHost.** The page's event handlers, each spawned task between two awaits, and the
pump. Kernel steps append what they emit to `pipe`; the pump takes from it. The page
holds the kernel's channels as long as it lives, so no send fails and the kernel does
not exit; leaving the page ends the system. The page configures no hooks. Compaction
is switched off in its runs: it changes the kernel's history and not the mirror's, on
purpose. `overlap` marks the runs in which a `/skill` prompt was queued behind another
query: the page allows it, and the order of the mirror is then not the kernel's.

**ToolStates, PurchasePage, AdminPages.** A step is an event handler, an effect, or what a task
does from one await to the next. The five pages of the administration are written alike: each
definition of `AdminPages` is mapped to one of them. A spawned task is polled before its effect
runs again. A listing is reduced to how many of its own changes the page knew of when it asked, and a page stands
for its number and its size. The balance of `PurchasePage` comes by `get_me`, which is `get_user` of
`services/user.rs` call by call: the cache, the row, the fill; `otherRead` is what another such call has read (of another page, or one whose
answer was given up), and a profile is `old` when the row had changed before it was cached, or when its deletion was lost.

### MC modules

They give the constants their values. Several components share one MC module (`MCServer`,
`MCParts`, `MCAgentHost`, `MCPages`; `MCPlanBilling` does it with money and calls): the components share no
variable there, so the variable `part` of an initial state sets one of them in motion and leaves the
others at rest, and the states explored are the sum of those of the parts. Operators marked
"Mutant" are deliberately broken variants of the definition that follows them; no specification
uses them. For every property they show that the run notices the bug. Type invariants other than
`PlanBilling`'s are parts of the proofs and no property of a run.

## 4. Runs

| Run | Shows | Distinct states |
|---|---|---|
| `plans` | two sessions that buy, set and adjust one balance while the plan is edited and deleted: `ReadStaysCurrent`, `MoneyConserved`, `PurchaseLimitHolds`; three requests on two instances with expiry, dropouts, retries, refunds, lost answers: `QuotaAccounting`; `TypeOK` in both | 974 thousand |
| `server` | two requests at a time on one account: `SessionsHold`, `VersionCacheConverges`, `RequestsEnd` (liveness); codes and captchas: `CodesAreBounded`, `ResetIsOneTime`, `CaptchaIsOneTime` (refinement); streams and translation: `AnswersAreFaithful`, `GoneClientReleasesProvider` (liveness) | 160 thousand |
| `parts` | components with safety properties only, one property each: `GatewayHolds`, `CacheHolds`, `ReadsSurviveReplicaLoss`, `WorkerIdsUnique`, `PaidOrdersKeepTheirTime`, `TranscriptHolds`, `BatchHolds`, `AnswersReachTheirCall`, `EngineHolds`, `ProjectDocsHold`, `SkillPackageHolds`, `FailedChangeUndone` (action property, like `PaidOrdersKeepTheirTime`) | 743 thousand |
| `agent_host` | kernel: `RequestWellPaired`, `StateChangesValid`, `StopEndsQuery` (liveness); tasks: `TaskRegistryHolds`, `WaitersReturn` (liveness); switches: `SwitchesHold`, `SavedOrReported` (liveness); decoder and model client: `ResponseTextHolds` | 297 thousand |
| `pages` | page and kernel: `MirrorAgrees`, `ClearedForGood`, `StopHitsShownQuery`, `GrantStaysInItsTurn`, `InputUnlocks` (liveness); two pages on one session: `ClearedStaysGone`; purchase and administration, with late answers, old cached profiles and failing calls to Redis: `PagesHold` | 825 thousand |

Seven runs exhibit disagreements between the code and what the repository says of it
(section 6): `kernel_stop_hook`, `kernel_preset_stop`, `chat_clear`, `snowflake_ids`,
`tool_owner`, `memory_rollback`, `purchase_retry`. Their bounds are those of the components' other runs, or smaller; TLC ends with the shortest counterexample.

### Bounds

Every bound is a constant of a `.cfg` file or a conjunct of the MC module with a comment.

- `plans`: two sessions suffice, since a lost update needs two; the templates differ in price,
  limit and status, so every edit matters; three instances allow one purchase above the largest
  limit. Three requests on instances of one or two calls give a drained row, a row that stays and a
  dropout followed by a retry; one tick lets an instance expire.
- `server`: two requests at a time out of three, in five workloads of endpoints that meet on the
  same rows: a rotation across a revocation, two rotations, a fill across an edit each need two. Two
  codes and three guesses against a limit the third exceeds; two followers and two codes, so that codes collide.
  Queues of one and three events fill and drain. Answers: up to two blocks for Anthropic, a text and a refusal for
  OpenAI, every reason, usage reported or not. Requests: instructions and developer text or none,
  one message of one or two parts of any kind in any role, perhaps a second one. Embeddings: two
  items with any vectors and indices, or three sound ones.
- `parts`: three requests against a threshold of two for the breaker, two elsewhere; three callers
  and one writer for the cache; two replicas, two statements; two servers, two worker ids, clocks that
  differ by one, explored while nobody is late (a late process is known to keep its id); two editors of
  one order; conversations of up to four messages over two ids, because a repair looks at two neighbours and
  takes back one; batches of up to three calls, one switch or one change of mode; two calls and two
  lines of the MCP server; four writes and two mishaps, five together, for the memory engine with room for one entry; one tab changes a skill
  package with one failed write or is closed, while another reads (what an undo could not
  restore is followed where the package is built in); two
  projects of which the first starts with one file or two equal ones and has two edits or
  faults, or one edit and a prompt that reads meanwhile; a third session with other
  embeddings that only tries to store a memory.
- `pages`: two pages that both end turns and clear, of which the first may also forget the memories or be
  closed, or one that writes memories while the other clears; a list with its dialogs, or the tenant selector, left only after a refused listing (nothing follows); two
  loads of a balance of up to two prices and one confirmed purchase with its retry, once with every call to Redis
  failing at will and once with another reader of the profile, while the purchase lock works.
- `agent_host` and the chat of `pages`: two host messages and one Stop are what a Stop for the wrong query needs;
  `MaxTurns = 2` reaches the limit after a tool round; retry and failure bounds of 1 reach each
  side of their tests. Two tasks against room for one, two waiters; two accounts, two flips, a stale
  stored name; responses of up to six bytes in chunks of one or two against a buffer of five; texts of up to four
  tags or pieces of tags with one retry.

Deadlock is not checked: every system here may come to rest (all requests answered,
model bounds used up, a user who does nothing).

### Fairness

The kernel leaves every phase in which only its own code or a bounded await is
pending (`WF_phase(Transient /\ Leaves)`); an idle kernel receives a queued event; the 100 ms
poll of the interrupt flag fires. Opening a stream, hooks and summary requests are taken to end
(they end by an answer or by an error of the HTTP client). In `pages` also: spawned tasks run, the
executor polls the pump, storage answers, tools end unless a dialog holds them up. There is no fairness
for the user, nor for the model's stream: `StopEndsQuery` and `InputUnlocks` hold with a model
that never says anything again.

In `server`, each statement of a request is executed when the locks allow it (the database
serves every session and aborts one member of a cycle), and the cached version expires (its TTL). The two tasks of a
stream are scheduled; there is none for the provider, which may be silent, or for the client.
In `agent_host`, a caller of `wait` or `stop` is polled once it is woken and the grace period of a stop
ends; commands need not. Storage and `get_me` answer the tools page (weak), and the saver is strongly
fair: each time the page lets go of `PERSIST_LOCK` the waiting task is woken, long before a new load
has its owner, so it is not passed over for ever.

## 5. Proofs

Each theorem holds for every value of the constants that its module's `ASSUME`s allow: any number
of users, requests, pages, messages or rows. None of the properties is inductive as it stands. For
each there is an invariant that is, which names what the code relies on between two of its steps;
TLC has checked that invariant on the bounded instance before it was proved. The proof then has a
case for each action, and under it one for each conjunct that the action can disturb.

`PlanBillingProofs` (`PlanAssumption`):

- `TypeCorrect` (`TypeOK`): balances and remaining calls never go below zero, since `ConsumeApply`
  re-checks the row.
- `ReadsAreCurrent` (`ReadStaysCurrent`): `MoneyInv` adds `LockHeld`, that a session between read and
  commit owns the lock of its row. A step begins, continues or ends a transaction; one lemma for each.
- `QuotaIsExact` (`QuotaAccounting`): `QuotaInv` adds `PickedExists`, that a request waits for or is
  charged to a row that exists. Without it an insert could reuse the id of a row somebody is charged to.
- `MoneyIsConserved` (`MoneyConserved`): `AuditInv` adds that orders carry numbers already issued, so
  that a new order is a new element of the sum.
- `PurchaseLimitIsKept` (`PurchaseLimitHolds`): `LimitInv` adds that a quote is within the most generous limit
  and that a session past its count still counts what is there, because it holds the lock of the buyer.

`AccountProofs` (`SessionAssumption`, `CodesAssumption`, `CaptchaAssumption`, `AnswersAssumption`, `RequestsAssumption`, `BatchesAssumption`):

- `SessionsAreSound` (`SessionsHold`): locked token rows exist and have one holder each; a hash that was
  never generated is in no chain; a row read or a JWT issued is not ahead of the users row and agrees
  with it while the version is the same.
- `GuessesAndMailsAreLimited` (`CodesAreBounded`): the comparisons of all the counts so far add up
  (`CountsAddUp`), and a stored code keeps the window closed.
- `ResetCodesAreOneTime`, `CaptchasAreOneTime`: both modules implement `OneTimeGrant`. Each step is shown to be
  one of `Issue`, `Redeem`, `Lapse` under the refinement mapping, or to leave the mapped state alone.
- `AnswersStayFaithful` (`AnswersAreFaithful`), for the two specifications side by side, which share no variable.
  For the relay, `StreamInv` counts the texts: those read, in either queue and in the hands of either task add up to those
  sent until something is given up, and the gateway's closing mark and the response's last event have nothing behind
  them. For the translation, what was heard is what the blocks before this one have of the kind and this block's
  symbols so far (`SoFar`); the two tables of Anthropic's reasons agree in what a client is told. For requests, flattening
  loses, invents and moves nothing (`FlattenSpreads`). The assumptions are the shapes of what comes in, a part's id being
  its place in the request and an item's `of` its input; they say nothing about the order of indices or events.

`ServiceProofs` (`RegistryAssumption`, `OrdersAssumption`, `CacheAssumption`, `RouterAssumption`, `GatewayAssumption`):

- `WorkersNeverShareAnId` (`WorkerIdsUnique`): while nobody was late, the row of a running process is its
  own, holds its last heartbeat and is too young to be stale on any clock. The assumption is that
  clocks differ by no more than the time after which a row is stale.
- `PaidOrdersAreDated` (`PaidOrdersKeepTheirTime`): whatever copy shows a time of payment is of an order that was stamped; only
  an update writes over a row, and it leaves the time alone unless the row it read had none.
- `CacheAndLockHold` (`CacheHolds`): a guard is taken with the lock, and until it is dropped the lock is the
  holder's or has expired; a row read as absent stays absent. No caller is named by the empty owner.
- `RouterLosesNoReads` (`ReadsSurviveReplicaLoss`): each round tries one replica more, so after the last one
  every replica was asked or shut out (a cardinality argument).
- `GatewayIsSound` (`GatewayHolds`): counter plus the requests about to count are at most the failures met,
  so a request that sets the flag has seen `Threshold` of them; there are finitely many requests.

`AgentProofs` (`McpAssumption`, `ToolStatesAssumption`, `TaskAssumption`, `SkillAssumption`):

- `McpAnswersReachTheirCall` (`AnswersReachTheirCall`): every message in a pipe, torn ones included, that has the id of
  a request under way was made by or for its caller, and ids under way are below the next one.
- `SwitchesAreKept` (`SwitchesHold`): what a save writes is the set in force at the version it will mark as clean;
  without unsaved switches the stored set is as good as the one in force; the lock separates load and save.
- `TaskRegistryIsSound` (`TaskRegistryHolds`): numbers are taken once and registered by their own spawn only, and a stop settles
  a task only after it saw it ended; there are finitely many spawns.
- `PackagesHold` (`SkillPackageHolds`) and `FailuresAreUndone` (`FailedChangeUndone`, an action property), both from `SkillInv`: what is left
  to write says what each slot of the package (file, index, record, head, versions) will be, since the last write to a slot counts. A change
  under way leads to a package in order, its undo to the one before or to none, as long as no write of the undo has failed. An update
  touches two versions only, an installation ends promoted, and a system package is met by updates and prunings alone.

`KernelProofs` (`KernelAssumption`, `RuntimeAssumption`, `HistoryAssumption`):

- `SanitizeRepairsHistories`: for histories of any length `Sanitize` returns one whose calls and results are
  paired, and does not change what it returned.
- `HistoriesAreRepaired` (`TranscriptHolds`): the invariant is that a history consists of messages the program writes, and the work is in
  `RuleState`, which speaks of the scan after `k` messages: what it kept is what the rules keep of the first `k` (`FollowsRules`: the messages at
  the places of `Stay`, by their rank, and as many texts of the user), plus the last message that counts if its calls still wait. One message more
  changes `Stay` by its own place and by that of the calls it answers (`StayNext`), which is what the scan appends or takes back.
  The lemmas on compaction hold as well where results may answer calls that were not made.
- `RequestsAreWellPaired` (`RequestWellPaired`): the conversation is paired in every phase that asks the model; while tools run it is a
  paired one with their calls appended (`BatchIsLast`); compaction cuts only at starts of rounds, and what a summary is asked about
  is paired too. Restored histories are any sequences of messages that the program writes.
- `StateTableIsKept` (`StateChangesValid`): an action property, from the phases alone.
- `BatchesLoseNothing` (`BatchHolds`): `BatchInv` says that in order the shared metadata have all that was written, and at once each snapshot is
  the first state with the change of its own call and nothing is shared yet. What a batch pushed is the end of the list (`Recent`), so
  the cap takes none of it while the batch's own notes fit. The merge is followed snapshot by snapshot: a note is replayed,
  unless it was the last one already, and then no other push removes it; a document is replaced by the one call that has its key.
  `RuntimeAssumption`: a batch is a sequence, the first list repeats nothing and is within the cap.

`ChatProofs` (`ChatAssumption`: the page configures no hooks, and there are finitely many tool ids; on top of `KernelProofs`):

- `StopsHitTheirQuery` (`StopHitsShownQuery`) and `GrantsStayInTheirTurn` (`GrantStaysInItsTurn`), both from `FlowInv`: as
  long as no `/skill` prompt was queued behind a query, the one open message is in exactly one place (outbox,
  channel, observed, in a query, or its end is on the way to the page), the page waits for it, a raised flag is for
  it and not answered yet, and the grant is of the present turn.
- `MirrorsAgree` (`MirrorAgrees`, under `~AutoCompact`, since compaction changes the kernel's history alone): `MirrorInv` is about the mirror
  that the pump reaches once it has taken what is in the pipe (`Reaches`). It fits the conversation in every phase: the round whose tools run is
  open in it, the message on its way is already in it, and clears still in the channel are counted in. `SanitizeAppends` and `SanitizeRound`
  say that sanitizing a repaired history with a message or a finished round behind it only appends.
- `ClearsAreForGood` (`ClearedForGood`): `ForgetInv` adds that the gate separates a save from a clear, that the open message was
  sent after the last clear and the kernel meets the clear first, and that mirror, snapshot being written
  and saved snapshot hold no more user messages than were sent since. Sanitizing and compaction add none: a history that is
  cut, repaired or condensed is mapped one to one into the old one, and a summary takes the place of the prompt it begins with.

`PageProofs` (`MemoryAssumption`, `PurchaseAssumption`, `AdminAssumption`):

- `ClearedSessionsStayGone` (`ClearedStaysGone`): what each page does behind the two locks excludes the rest, a clear past its
  marker has the tombstone, and a snapshot or checkpoint that is still there has a page on its way to drop it.
- `PagesShowWhatTheyKnow` (`PagesHold`): the balance only falls, so a profile that is not old is not above what any purchase left that has
  deleted its copy (`Current`), nor an answer of the present epoch above what the last purchase reported; a list request carries the version it was sent under; the one submission is that of the open dialog.

`MemoryProofs` (`DocsAssumption`, `EngineAssumption`):

- `ProjectsSeeTheirFiles` (`ProjectDocsHold`): whatever is found by a hash, a membership or the map is finished and is not written again; a
  run that read every file it came past has left only what the files to come still own (`RunIsWhole`); a prompt
  differs from what its project sees only while a run that will count its change is under way. A text is neither the absent nor the
  blank file.
- `MemoriesAreWhole` (`EngineHolds`): `EngineInv` sees an operation as a job with numbered calls. The stores are those before it, changed by as many of
  its calls as have worked or been undone; an entry that is not whole belongs to the job under way or is one that a failed undo or a
  restart has torn. An id is taken once, so a job never meets the rows of another.

Sums and folds. The prover has no induction over data. Where a property sums over a set
(`MoneyConserved`) or a function folds over a sequence (`Sanitize`, the merge of a batch, `FlattenSeq`), the library's
definitions are recursive functions, and the lemmas about them take a least counterexample (`WFMin` on the
naturals, or on the finite subsets by cardinality) and refute it by the defining equation.

Only model-checked:

- liveness, which needs fairness and `ENABLED`: out of the prover's reach;
- `ResponseTextHolds`: `ModelStream` uses recursive operators, which the prover does not take.

## 6. Findings

Each is shown by a run that TLC ends with a counterexample.

- `kernel_stop_hook`: an interrupt noticed inside `stream_model_turn` ends the query without
  the Stop hook that the tests and comments promise for every aborted turn.
- `kernel_preset_stop`: observing `ClearConversation` resets the interrupt flag, although it may
  have been raised for a message queued behind the clear.
- `chat_clear`: a `/skill` command still loading lets a clear be sent while the kernel is in a
  query; the comment says the two cannot interleave.
- `snowflake_ids`: two threads can receive the same id, because `last_timestamp` is published
  before `sequence` is reset; the doc comment excludes duplicates.
- `tool_owner`: a store that cannot be opened leaves the switches of the account before in force; the
  comment says they are cleared before any I/O.
- `memory_rollback`: a clear that fails in part withdraws the tombstone with which another page has
  committed its own; the comment says a committed clear is never withdrawn.
- `purchase_retry`: the client library repeats a purchase whose answer was lost; the lock that is said to
  suppress client retries has been released by then.

### Smaller observations

Met while modelling. Where the model has the behaviour, its properties allow for it and for nothing beyond it.

- Promises that hold up to an overlap. `paid_at` is stamped again by an edit that read the order before its first payment,
  where `payment_order.rs:276` speaks of the first transition only; `PaidOrdersKeepTheirTime` says that no other edit does it and that a
  time is never lost. A `get_user` that has read the row before a purchase caches the profile after the purchase has
  deleted it (`services/user.rs:316`), so `get_me` does not see "the deducted balance" of `plan.rs:501` until the TTL ends; `PagesHold` says
  that only this, or a deletion that was lost, brings an old balance back. A process without heartbeats for longer than the stale limit goes
  on with a worker id that another has taken, where the repository's README (line 70) says that nodes never share one;
  `WorkerIdsUnique` says that nothing else makes them. A tool call in its pre-hook when Stop is pressed goes on to the
  notification hook and the prompt, other than the comment at `runtime.rs:381`; `BatchHolds` says that no tool runs and no permission is
  stored. A usage row inserted between the count and the deletion of `delete_channel` loses its channel (`gateway.rs:379`);
  `GatewayHolds` says that no row that was there at the count does.

- Agent. `collect_summary` (`compact.rs:561`) does not look at the interrupt flag. `replay_list_delta`
  does not see a list entry that is recorded again as the last one. A task's handle may stay in `handles` when its
  record is pruned before the last locked section (`tasks/mod.rs`, about 465). A request to an MCP
  server that times out in the middle of its write leaves a torn line, which spoils the next request.
  A malformed tool block is hidden in the stream and kept as text; a `<tool_used …>` tag is the other way
  round. A lone CR at the end of a stream leaves the last event undelivered.
- Memory and skills. Status keys may be written for a session cleared in between
  (`memory/service.rs` 622–660). The undo of `insert_with_id` deletes the row before the
  embedding, so a restart in between leaves an orphan. A failed indexing run does not bump `revision` although
  memberships may have changed; a blank `AGENTS.md` makes every run fail, and the old text stays;
  a restart between document row and hash row indexes a text twice. A reader without the lock can write
  `skills_index:` back after a deletion; `put_file` can leave a resource without a `SKILL.md`; a tab closed during an
  update leaves `SKILL.md` and head apart.
- Accounts. A token inserted by a login or rotation that overlaps a revocation survives it. A role edit
  decided on an old row writes the role back without a new version. A reset claims that a hash is there, not
  that it is the one checked. `logout_all` and a password change lock in opposite orders, which the database resolves by
  an abort. Two logins at once leave two tokens.
- Gateway. Requests refused by a window stay charged to the ones before it, although `quota.rs` speaks of
  avoiding partial consumption. A channel that trips between probe and check fails the request. A `WITH` that writes
  only inside its definitions is sent to a replica; the second phase of selection takes marked replicas too.
  Worker rows are found by worker id alone, on the clocks of the hosts.
- Translation. An OpenAI answer with neither text nor refusal is an error whole and "completed" and
  empty when streamed. An Anthropic reason the table does not know counts as completed. An image in a system message is
  dropped for Anthropic; one with an unsupported URL is passed on as it is.
- Pages. On an administration list, page 1, 2, 1 lets an older answer for page 1 through. The tenant selector
  offers a retry for its first page only. The metering page compares version and page but not the
  filters its task has read.

## 7. Not modelled

About half of the counted lines are tests inside the source files; of the rest a large share is
rendering (`app/ui`, `views/*`), text tables, wire formats and the tools' own I/O. The map therefore stays at
about a seventh of the lines, concentrated where state changes.

- Wire formats, HTTP, SMTP, Redis and PostgreSQL beyond the statements used; token estimates, prompt
  building, memory scoring and search, path and command patterns of the policy: data, or straight-line code.
- Bootstrap, routing, middleware, the framework adapters: wiring without shared state.
- The file, shell and network tools: one I/O call each, to the runtime a write to the metadata.
- The browser's authentication state (`AuthState`, the expiry guard): what it does depends on how
  the UI framework tracks reads inside a resource's future, which is not part of the repository.
- The swarm: it has no caller outside its tests. Its mailbox has a lock per instance, so two instances of one
  scope are not serialized; a dropped dispatch leaves its agent `running`.
- The memory page and the memory directory: row and index line are written without a
  transaction; planned (section 2).
- MCP over HTTP, where each request has its own answer; reconnection, which makes a new transport.
- Speech and direct requests of the response handlers: one call without state of their own.
- The native build of the tool switches, and the assembling of a session in `agent/service.rs`.
