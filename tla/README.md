# A verification project for the MinKing gateway

MinKing AI is a cloud gateway (`src/app/`) that serves OpenAI-, Anthropic- and
Gemini-style APIs from a pool of upstream accounts (Codex, Grok, Antigravity,
WorkBuddy) and bills every request against the prepaid balance of an `sk-` key.
A desktop client (`src/clients/minking-desktop/`) points local tools at it.
This directory models the parts where the order of events decides whether the
program is right: the money, the seats and permits on upstream accounts, the
life of a call under cancellation, credentials, keys, sessions, files that are
written one after the other, and answers that are translated while they stream.
Every module starts with the code it models; `PROJECT.json` maps each
definition to its lines and lists the hazards the properties are for.

## 1. Inventory

The gateway is one asyncio process (several may share a MySQL database). All
persistent state goes through `GatewayStore.call(operation)`: one transaction
at a time per process. A handler is therefore a coroutine whose steps are whole
transactions, and whatever it does in two of them can be interleaved with other
handlers and with the background loops (maintenance every 60 s, routing
heartbeat every 30 s, cleanup of artifacts), cut short by a cancellation, or
left half done by a crash.

| Component | State | Operations | What is hard | What makes it correct |
|---|---|---|---|---|
| Prepaid wallet (`wallet_engine.py`, `billing.py`) | `api_keys.usd_credit`, `billing_requests`, `wallet_ledger` | reserve, settle, reverse, expire, grant, recovery in `start()` | competing holds, settlement after expiry, repeated grants, a crash between two transactions | no promise exceeds the balance; exact charge; bill and ledger agree; closed bills stay closed; no hold freezes for ever |
| Routing leases (`scheduler.py`) | `routing_leases`, `routing_bindings`, `routing_legacy`, `_active_routing` | select, occupy_attempt, complete_route, maintain | a clock read before the transaction, renewals from a snapshot, lost releases, crashes | an account is never overfilled; a live request keeps its seat; seats come back; a continued answer is asked where its history is |
| Call lifecycle (`codex_gateway.py`, `api/codex_gateway.py`) | `CallContext`, account semaphores, `UpstreamLease`, `call_records` | begin_call, note_attempt, the openers, stream/collect, finish_call | cancellation at any await, repeatedly; shielded tasks; retries | one permit per connection, given back; every call recorded and settled; what is delivered is billed |
| Account health and failover | `accounts.status`, cooldowns, counters, `account_model_health`, `api_key_routes`, `route_streaks` | _mark_*, _route_success/_failure, _fallback_account, administrators' operations | read-modify-write in two transactions, decisions made before a lock | removed accounts stay removed; nobody is blamed for another's failures; a preference is the administrator's |
| API keys | `api_keys` | create, rotate, update, delete, show, check | check and set in two transactions | a key shows the secret it accepts; a deleted key stays deleted |
| Quotas | the cache, locks and slots | list, fetch, reset | a fetch under way when a paid reset is made | what is shown as fresh is; a retried reset is paid once |
| Video jobs | `video_jobs`, the bill of the request | create, edit, extend, poll, delete | the loop's poll racing a user's; a crash between two statements | a finished video is billed once, and only such a one |
| Pictures | permits, hold and bill of a call with pictures | images endpoints, a response that is a picture, hosted pictures within a turn | a second permit while one is held; failure half-way | permits come back; what was shown is on the bill |
| Store (`store/gateway.py`) | the queue, the worker, the MySQL lock | call, start, stop | a cancelled caller's operation still runs; stop with a queue | each operation runs once, and its caller is told what became of it |
| Card keys, partner credits (`billing.py`) | `card_keys`, attempts, nonces | create, redeem, disable, signed credits | the attempt is counted apart from the redemption; replays | a card pays once; attempts are limited; a key credits once |
| Prices | price rows, settings, the copies a hold takes | synchronise, set, reserve, settle | repricing under an open hold | a call pays the price it was held at |
| Administrator sessions (`admin_auth.py`) | `_failures`, `admin_sessions` | login, logout, change password | awaits between check and update | a password change ends the old sessions; guesses are bounded |
| Portal (`portal.py`) | captchas, codes, sessions, users | send code, verify, sign in | use and expiry of codes, two clients at once | a code works once, for its address; one reward each |
| Account login, credentials | `_oauth_pending`, credential files | start, callback, poll, refresh | a refresh racing a login; callbacks twice | a login is imported whole and once; no token is spent twice |
| HTTP pool (`http_client.py`) | the shared client, retired clients | rotate, drain, close | rotation during streams | a client is retired for cause and closed in the end |
| Translation of answers, histories, tools (`providers/`) | a converter's state per stream, the Grok tool cache | translate events, histories, tools | fragments in any order, cut anywhere; replays | every text and call arrives once, in order; outputs follow calls |
| Image artifacts, MCP | files and rows of pictures | upload, make, link, delete, prune | file and row change apart; crashes | a live row has its file; nothing stays for ever |
| Desktop: harness switching (`harness.py`) | backups, configuration files, lists, conversations | snapshot, apply, restore, merge, sync | failure or kill between two files | a restore gives back what was there; conversations go on |
| Model catalog; console schema and reports; downloads, bundles, web UI; settings and assembly; desktop window, login and local service | none that outlives a request, or tables replaced whole | reports, static content | none of concurrency | not modelled (section 6) |

How they interact: an API handler calls `begin_call` (wallet hold at the
current prices, then call record), `select` (routing lease, key's route), then
for every attempt `note_attempt` (moves the lease, and checks the hold again)
and an opener (credentials, account semaphore, connection of the pool, upstream
request). The answer is translated as it streams, or collected; `finish_call`
closes the record, settles the hold, notes the health of the account and
releases the routing lease. The maintenance loop expires holds and polls
videos; the heartbeat renews the leases of this process and sweeps everybody's
expired rows. `start()` closes the records of calls that a previous process
left behind and releases or parks their holds. The portal, the cards and the
partner pay into the wallet; the console changes accounts, keys, prices and
routes at any time.

## 2. The modules

| Modules | What they model |
|---|---|
| `Wallet`, `Collections` | the wallet's rows and the transactions on them; sums over rows, elements picked from a list |
| `PrepaidAccount`, `WalletRefinement` | what a wallet promises, and the mapping under which `Wallet` implements it |
| `RoutingLeases` | leases, bindings, the selecting handlers, the heartbeat |
| `CallLifecycle` | one call: handler, attempts, stream, shielded tasks, cancellation |
| `StoreQueue` | how transactions reach the database: why one is one action everywhere else |
| `AccountHealth`, `KeyRoutes` | health of accounts; the keys' routes and their failures in a row |
| `OauthLogin`, `Credentials`, `Quotas`, `HttpPool` | signing in, renewing tokens, quotas and resets, connections |
| `VideoJobs`, `Pictures`, `PriceBook`, `Cards` | what else is charged or credited, and at which price |
| `ApiKeys`, `PortalLogin`, `AdminSessions` | who may come in |
| `Artifacts` | pictures as files and rows |
| `HarnessFiles`, `ProviderLists`, `CodexSessions` | what the desktop client writes |
| `ProviderStreams`, `ClientStreams`, `Streams` | translators (operators), converters (operators), and one answer on its way through both |
| `Histories`, `GrokTools` | replayed conversations; tools lowered for Grok and their cache |
| `MC*` | the instances for TLC (section 3) |
| `*Proofs` | theorems and their proofs (section 5) |

### Wallet

One action is one transaction. `reserve()` is two: `ReserveBegin` (the UPDATE
of `expire_reservations` and what precedes it) and `ReserveHold` or
`ReserveReturn`; in between, `reserving[r]` remembers the key. `settle()` is
one of `SettleExpired`, `SettleUnmetered` (no usable usage report) and
`SettleQuoted`. `start()` after a crash is a sequence of its own (`Restart`,
`RecoverCalls`, `ReleaseFailed`, `PendFinished`, by `boot`), and other
processes go on while it runs. Money is a number of indivisible units; what a
price list makes of a usage report is any member of `Quotes`. Time is one bit
per bill. `PrepaidAccount` has a balance and a set of promises per key;
`ImplementsAccount` says that every step of the wallet is a step of it.

### RoutingLeases

One action is one statement or transaction of the scheduler; a handler's place
between two of them is `pc`. Time moves in ticks, `lease[r].left` counts down.
The heartbeat is a process: a round starts (`BeatStart`, which copies the keys
of `_active_routing` and reads the clock), renews or reaps one lease at a time
(`BeatOne`), sweeps (`BeatSweep`) or fails on the storage (`BeatFails`). A
selection compares with a clock read before it was queued: it may sweep any
subset of the expired rows, and an expired binding may look valid to it.
Health, quotas, preference and load are inputs: `select` may take any account
of the pool that has a free seat. A retry may go to any account, except where
the code keeps it on the bound one (`Targets`).

Assumption (`LeaseAssumption`): `MaxSilence < LeaseLife`. The code's numbers
are a lease of 5 minutes and a round every 30 s, plus the time a round takes
(with `refresh_provider_catalogs`, every six hours, tens of seconds of HTTP
timeouts); `MaxSilence` is the time from the start of one complete round to
the end of the next complete one, failed rounds in between included. Eight
failed rounds in a row would break it, and with it `SeatKept`. `Tick` also
assumes that a coroutine whose transaction is done resumes within a tick.
Not modelled: the quota hysteresis (stop at 10 %, resume at 15 %), several
providers (their leases never meet).

### CallLifecycle

An action is what a coroutine does between two awaits. `pc` is the await the
handler is at, `fin[r]` are its `finish_call()` runs (a second one can start
while an earlier shielded one is still at work), `closer` the shielded
`lease.close()` of a stream, `free` the account semaphores. `Cancel*` deliver
a `CancelledError` at every await, repeatedly: Starlette cancels the task of a
stream whose client is gone, and every later await of that task, and a server
that stops cancels every task. What is behind `asyncio.shield` goes on. A
store call that is cancelled while it waits for the writer is executed anyway
(SQLite) or not (MySQL, waiting for the lock): both are allowed, and
`StoreQueue` shows why.

Requests in `Guarded` go to WorkBuddy or Antigravity, whose openers release
their permit on any exception; the Codex and Grok openers only on those they
name. `OddJson` lets an upstream answer JSON that is not an object, where
`open_grok_request` releases its permit twice. For requests in `Faulty` the
store may fail: `BeginFails`, `ReRecordFails`, `AttemptFails`, `SendBreaks` (an
opener leaves by an exception it does not name; unguarded, it keeps the permit)
and `FinishFails` (`finish_call` is finalized with its record or its hold still
open). `CallsLeaveNothing` names the awaits at which a first cancellation does
leave something behind (`hit`) and the store calls whose errors do (`broken`):
they are the code's, and a reader should look at them.

Not modelled: the text of answers (`Streams`), `aclose()` that raises in
`UpstreamLease.close` (its permit would be lost), the expiry of holds
(`Wallet`), which account is chosen (`RoutingLeases`, `KeyRoutes`),
`usage_daily`, the second round of retries when Grok's chat falls back to
`/responses`.

### StoreQueue

The calls of `GatewayStore.call` on both engines: on SQLite a queue and one
worker, on MySQL a thread per call under an asyncio lock. `CallsAreTrue` is
what the other modules rely on when they take a transaction for one action:
what a caller is told is what happened, what was queued before `stop()` is
done, a call that is cancelled on SQLite is carried out all the same, and only
a cancelled caller leaves a second transaction open (MySQL). Known limits, kept
in the model: a call put behind `stop()`'s sentinel is never answered, and
`start()` does not replace a dead worker.

### Accounts: AccountHealth, KeyRoutes, OauthLogin, Credentials, Quotas, HttpPool

`AccountHealth` has what attempts report of an account and its model, in one
transaction each, and what administrators do between them; `past` remembers
which removals stand, and which a late report has written over. `KeyRoutes` has the route of a key and the failures
in a row that move it, with the lock a failover waits for; which accounts are
healthy is an input there. `OauthLogin` treats every section under
`_oauth_lock` as one action, for logins of three modes, the loopback server and
the console at once. In `Credentials` a token is a number and a login starts a
family; the provider (external) accepts each once. An answer that is lost takes
its family out of the claim (`lost`). For Antigravity (`Google`) a project is
discovered and written without the lock: the two safety properties are about
the other providers. In `Quotas` the quota of an account is the number of its
resets. `HttpPool` counts clients in the order they are built, and time in
ticks.

### Money around the wallet: VideoJobs, Pictures, PriceBook, Cards

`VideoJobs` has the bill of a video only in its states; rows, polls by users
and by the maintenance loop, deletion and restart are all of it. A row is
inserted with what the provider says by then, which may be all, and is seen by
users before it is linked to its bill; `early` keeps the rows that were finished
past their bill in one of these ways. `Metered` are the videos whose failed
result reports a usage that costs something. `Pictures` has
the three ways to a picture (endpoint, a response that is a picture, hosted
calls of a WorkBuddy turn), with permits, hold and bill counted in pictures.
`PriceBook` reads settings and price rows in operations of their own, as
`reserve()` does, with the console between them. `Cards` counts half seconds,
since a time stamp has whole ones and a nonce does not.

### Who may come in: ApiKeys, PortalLogin, AdminSessions

In `ApiKeys` a handler reads a row and writes it in another operation; what it
read is in `ops`. A handler that overlaps a deletion may bring the key back
(`rotate`, `update`), so a removal is claimed final only if nobody was at work
(`quiet`). `PortalLogin` has captcha, code, mail and both logins. In
`AdminSessions` a login counts failures on a list it keeps in hand while
another may throw it away, and a password is verified in a thread.

### Files: Artifacts, HarnessFiles, ProviderLists, CodexSessions

Each copy, write, delete or row is an action; any of them may fail or be the
last before a kill. In `Artifacts` a creation may also be cancelled while its
INSERT is queued: the file goes and the row comes late. A tool call stores the
pictures of the answer that can be used and skips the others. The user edits files between operations of the desktop
client. Codex is closed during a session sync, as the client demands.

### Translation: ProviderStreams, ClientStreams, Streams, Histories, GrokTools

The translators and converters are operators from a state and an event to the
next state and the chunks sent; `Streams` lets an answer of text and calls
arrive in fragments, end, be truncated, be blocked or break anywhere, and
compares what a streaming and a collecting client make of it with what was
said. `Histories` does the same for a replayed conversation that grows turn by
turn, `GrokTools` for the tools lowered to functions and the cache that brings
their calls back. Texts and arguments are sequences of fragments.

## 3. What the runs check

The components share few variables, so several are checked in one run: in the
modules `MCMoney`, `MCAccounts`, `MCOutside`, `MCHolds` and `MCWaiting` the
variable `part` says which instance moves in a behaviour, the others stand
still, and their state spaces add up instead of multiplying. `MCMoney` extends
`PriceBook` and has the others as instances. A property of
such a run is a conjunction over its parts, each under the guard `part = ...`
where the constants of two instances differ.

| Run | Instance | Properties |
|---|---|---|
| `wallet` | 1 key, 2 requests, 1 grant id, a grant of 3, budget 2, usage 1 or 3, `Minimum` 1, `MaxCredit` 3, symmetric requests | `Solvent`, `ExactCharge`, `BillMatchesLedger`, `LedgerIsTrue`, `ClosedForGood`, `ImplementsAccount` |
| `routing_seats` | 3 requests, 2 accounts of one seat, `LeaseLife` 3, `MaxSilence` 2, one failed round, no conversation | `CapacityRespected`, `SeatKept` |
| `calls_seats` | 2 requests, 1 account with 1 permit, 2 attempts; one unguarded call that is cancelled up to twice and meets errors of the store, one guarded call that does neither | `ConcurrencyLimit`, `RecordFirst`, `CallsLeaveNothing` |
| `calls_live` | 2 requests, one guarded and cancelled up to once, both with errors of the store, 1 attempt, `OddJson`, fair | `EveryCallEnds` |
| `money` | prices of two models, one call and two administrators (in turn: one name and one administrator; two names without factors; two administrators at the settings); the wallet with 2 keys, 1 request, 1 grant id and no recovery; two jobs polled by the loop, one polled by two users as well, one whose failure is charged; pictures of 2 requests with `Limit` 2, `Afford` 1, `MaxData` 2 | `PricesHold`, `PaidAndRecorded` |
| `accounts` | leases of 2 requests, 2 accounts, 1 conversation with its continuation; health of 1 account under 2 requests and 2 administrators, `Threshold` 2; routes of 1 key over 2 accounts; logins in 3 modes by 2 tasks; 3 tokens, 3 renewing requests and 1 login; quota of 1 account with 1 listing and 2 resets; a pool of 1 connection and 3 clients | `HistoryAtHand`, `LoginsAreWhole`, `HealthEarned`, `UpstreamsAreReached`, `RoutesAreEarned`, `QuotasAreTrue` |
| `outside` | 2 keys with 2 secrets or 1 key with 3, 2 handlers; a portal with 2 addresses and 1 device; administrators; 2 pictures of a tool call and 1 restart; 2 files, 2 applications of a harness, the second up to its end; lists of 2 models; 2 conversations, 2 turns; 3 providers by 3 clients with answers of 5 fragments; 4 clients with histories of 6 turns and 3 calls; the tool cache | `KeysAreTrue`, `AdminsAreChecked`, `FilesComeBack`, `AnswersArrive`, `HistoriesPair`, `ToolsComeBack`, `PortalRewardsOnce`, `FilesAreKept`, `ListsAgree`, `SessionsFollow` |
| `holds` | 1 card, 3 users on one network, `Limit` 1, `NetLimit` 2, days of 2 ticks; 3 messages, `Skew` 1, a clock of 8; the wallet with recovery and 2 requests; leases of 2 requests and 2 accounts; fair | `CreditsAreTrue`, `OffStaysOff`, `EveryHoldEnds`, `SeatGivenBack` |
| `waiting` | 3 store operations on both engines; 2 requests each for pictures, routes and tokens (of Google too); 2 logins; quotas of three sorts; an uploaded file and one of a tool call; 2 videos, one of known length, polled by the loop only, `Limit` 1; fair | `CallsAreTrue`, `NothingStays`, `WaitersAnswered`, `VideosBilled` |
| `routing_conversation` | 3 requests of 1 conversation, `Limit` 2, `LeaseLife` 1 | `ConversationStays`, violated (section 4) |
| `health_removed` | 1 account, 1 request, 1 administrator | `RemovedStaysRemoved`, violated (section 4) |
| `calls_billed` | 1 request, 2 attempts, 1 cancellation, fair | `DeliveredIsBilled`, violated (section 4) |

The type invariants are checked with the safety properties of each part, and
those of all components are also proved,
as parts of the inductive invariants of section 5.

Why the bounds are enough. In the wallet, two requests are what a lost hold
needs, a grant of 3 with holds of 2 makes the second hold smaller than the
first, a usage of 3 is larger than any hold, and a usage of 1 leaves credit for
a third party to take. `MaxCredit` only stops grants. Three requests on two
seats make one wait, retry onto the other account and be refused; a lease of
three ticks and a silence of two leave exactly the one tick the assumption
grants. In the calls, cancellations reach the handler, its except clause, the
finish it waits for and its finally clause. Two jobs of a loop that polls one a
round make one wait for the next round; two users and the loop are three polls
of one row, more than the two it takes to overtake one another. Two users on
one network reach the limit of the network before their own. Three messages
are one, its retry under a new nonce, and another of the same moment. Two keys
of one owner, three secrets and two handlers at once are a rotation between
the read and the write of another. Three store operations are one at work, one
waiting and one cancelled. Three tokens are the one on disk, the one that
replaces it, and a new login's. Two pictures of a tool call fail after the
first. Five fragments are a text and two calls that alternate. Counters that
nothing else bounds (`Max...`) stop the behaviours in their guards; no property
reads them but where it names a limit of the code.

Runs do not check for deadlock where all work ends: every call, job or part
comes to rest.

Fairness, and why the code justifies it:

* `Wallet`: the maintenance loop (`ExpireReservations`) and the clock; no
  settlement is assumed ever to happen, which is what makes `EveryHoldEnds`
  worth stating. It relies on the loop being alive: its `expire_reservations`
  and `prune_calls` calls are outside the `try`, so a storage error ends it (a
  hazard without a property).
* `RoutingLeases`: the heartbeat's steps, the clock, and that a coroutine whose
  selection is done goes on (`Track`); no request is assumed to end by itself.
* `CallLifecycle`: the event loop runs every coroutine and task that can go on;
  each wait has a timeout (queue 5 s, pool 5 s, first token 45 s, stream idle
  300 s), which `Run` contains as failures; a client reads its stream or leaves.
* `VideoJobs` (in `MCWaiting`): weak fairness of the loop, which runs every minute and
  outlives an error of one poll, and strong fairness of the provider's answer about
  each video: who is asked again and again answers in the end. `BilledInTheEnd`
  itself supposes that the account stays on, that the process does not start
  again for ever, and that no video renders for ever: the loop takes the oldest
  jobs first, so as many of those as one round has would starve the rest (without
  this premise TLC finds it, with a round of one). Users owe no poll.
* `MCWaiting`: weak fairness of each component's own work, and strong fairness
  where it waits for an `asyncio.Lock` or a semaphore, which wake their waiters
  in the order they came.

## 4. Findings

1. `calls_billed`. `stream_response` and `stream_passthrough` finish a call
   that ended by itself only after `await asyncio.shield(lease.close())`, in
   their `finally` clause. A cancellation at that await leaves the clause: the
   record stays `in_progress`, the hold open, and after 24 hours it expires
   without a charge, although the answer was delivered in full.
2. `routing_conversation`. The upsert of a conversation's binding refreshes
   `expires_at` and keeps the account of the row. An expired row that was not
   swept yet is not followed but is revived: the conversation's current request
   runs on one account and its next one on another.
3. `health_removed`. `_mark_invalid` writes `invalid` over any status. A call that
   began before its account was deleted, and is refused after it, makes the removed
   account `invalid`, and an administrator can enable it, although
   `set_account_status` says that a removed account cannot be re-enabled. What holds
   is `BackByHand`: without a report that overlaps the removal nobody comes back
   but by who may bring it back.

Met while modelling, kept in the models as the code has them, without a run of
their own:

* Calls: `open_grok_request` releases its permit twice when an upstream body is
  JSON but no object (`codex_gateway.py:4566`); the model has it as `OddJson`.
* Calls: an error of the store that the Codex and Grok openers do not name, as at
  the statements at `codex_gateway.py:3839` and `4552` or in `_mark_failure`, loses the
  permit without any cancellation (`SendBreaks`); one in `finish_call` (725-752)
  skips the record's end or the settlement and yet sets `finalized` (759), so no later
  run makes up for it (`FinishFails`).
* Wallet on MySQL: `settle` locks bill then key, `reverse` key then bill
  (`wallet_engine.py:154`, `240`); one of the two then fails.
* API keys: a rotation or update that read the key before its deletion writes it
  back (`codex_gateway.py:2462-2467`, `2513`, against `2483`); an owner's rotation
  enables a disabled key (`portal.py:549-550`).
* Account health: besides finding 3, a disable that looked before another
  administrator's delete makes a removed account `disabled`, and so able to come
  back (`codex_gateway.py:2302-2305`); a success clears another request's cooldown
  (3839); a late failure ends a model's cooldown early (3016-3029).
* Credentials: a renewal under way may overwrite a new login
  (`codex_gateway.py:1442`); Antigravity writes a discovered project without the
  lock, so an old credential can come back there.
* Logins: one can be refused although fewer than `MaxPending` wait
  (`codex_gateway.py:1134-1139`).
* Quotas: after a reset whose own refresh fails, a fetch under way may cache the
  quota from before the reset; the console makes a new redeem key for each try
  (`web/static/app.js:1026`).
* Videos: a delivered video may stay uncharged when its hold expires or the
  bill's statement fails (`codex_gateway.py:5406-5441`, `5803-5809`). A row that is
  inserted `completed` because the provider was done at once (5397) is never polled
  by the loop (595), and one that a user polls between its INSERT and its link
  (5431-5432) is finished past its bill; both wait for a user's poll, if there is
  any, or expire uncharged (`early` names them). A failed result that reports a usage is charged for it
  (5811).
* Artifacts: a client that leaves while the INSERT of its picture is queued has the
  file removed (`image_artifacts.py:179-181`), and the INSERT is carried out all the
  same (`store/gateway.py:865-889`): the row is listed without a file until it
  expires or somebody asks for its content.
* Pictures: a client that leaves while pictures are passed on ahead loses the
  permit for good (`codex_gateway.py:439-450`); a picture asked for only by
  `tool_choice` has no price and is never charged.
* HTTP pool: streams longer than `gateway_pool_drain_seconds` after a rotation
  are cut; at shutdown the pool is closed before the gateway stops
  (`main.py:86`), and a maintenance poll may build a client nobody closes.
* Store: a call put behind `stop()`'s sentinel is never answered; on MySQL the
  operation of a cancelled call and the next one run at the same time
  (`store/gateway.py:906` against `669`).
* Cards: the `UPDATE` that marks a card expired is always rolled back
  (`billing.py:1185`); a nonce may be forgotten at the edge of its window, where
  the idempotency key protects.
* Histories: images in tool results are dropped, WorkBuddy's inline outputs too;
  Gemini calls without ids get new ids each time (`gemini_protocol.py:96`, `122`).
* Streams: a truncated Chat Completions answer ends with `stop`; a stream may
  send events after `message_stop` (`codex_gateway.py:5020`, against
  `tests/test_anthropic_messages_http.py:102`); streamed WorkBuddy calls lose
  their names (`workbuddy.py:532-540`).
* Grok's tools: a name declared anew in another form keeps the old one while the
  cache lives (`codex_gateway.py:2808-2813`); a call of a tool that only the
  history names comes back plain after the cache is lost.
* Desktop: a partial first snapshot or backup is not recognised as partial
  (`harness.py:361-413`, `633-643`); conversations put back after the rewrite keep
  their old provider (`harness.py:1418-1419`, against the message at 1421-1423).

## 5. What is proved

All proofs are checked by TLAPS for every value of the constants that satisfies
the named assumptions. The argument of each is an invariant stronger than the
property, because the property alone is not inductive.

* `WalletProofs`. The inductive invariant is `TypeOK`, `KeyOfBill`, `Solvent` and
  `ExactCharge`: solvency needs that the holds of other keys are not touched and
  that no charge is larger than its hold. `BillMatchesLedger` and `LedgerIsTrue`
  are inductive with it; `MoneyIsConserved` compares what was granted with the
  balance and the charges, by the sums of `Collections`. `Refines`: every step maps to a
  step or a stutter of `PrepaidAccount`; a settlement maps to its charge because
  an open bill was charged nothing.
* `RoutingProofs`, from `LeaseAssumption` (`MaxSilence < LeaseLife`) and
  `RoutingNamesAssumption`. `CapacityRespected` is inductive with the types.
  `SeatKept` needs `Known` (whom the heartbeat knows and whom it still has to
  serve) and `Renewable`, which bounds for every seat how long ago it was renewed:
  since the start of this round if it has had its turn, since the start of the
  last full one otherwise. `HistoryAtHand` needs `Histories`: what a
  conversation's row and a retry's target say of where a response was made.
* `CallProofs`, from `LimitAssumption`, `BoundsAssumption`, `RequestSets` and
  `NoAccountAssumption`. `Local` relates the await a handler is at, its lease, its
  `finish_call` runs and its two rows, and no other request disturbs it;
  `Conserved` says that the free permits of an account, and one for each request
  that holds or has lost one, are never more than its limit. `LimitAlways` is for
  `~OddJson`; it is false with it, as the code is. `CallsLeaveNothing` needs of each
  request where its first cancellation hit (`FirstHit`), which call of the store
  failed it, and the traces `Begun`, `Ended` and `Owned`.
* `CardProofs`, from `BoundsAssumption` and `NamesAssumption`. An attempt is
  counted in one transaction and its code looked up in another, so the limit
  needs `Attempted`: what was looked up on a day and the counted calls still under
  way are at most the rows of that day. `NonceHolds` needs `Remembered`: the nonce
  of a taken message is kept as long as its stamp is good. `OffStaysOff` follows
  from the same invariant.
* `VideoProofs`, from `LimitAssumption`: a bill is decided by a poll that knows the provider's answer and a
  copy of the row, both read earlier; the copy may be from before the link, which is
  why a row can be finished past its bill (`early`). An answer that is not `queued`
  is final (`Known`); a bill is held only while its request is under way and
  pending only after it (`Waiting`).
* `KeyProofs`: that a replaced secret lets nobody in needs that no two rows have one
  secret and that no row gets an old one back, although a handler writes rows that
  others have changed since it read them (`Owned`, `Made`); a deletion is final for
  a key that no handler had read before it (`Removals`).
* `StoreProofs`: an operation is in the queue once, has not happened while it is there,
  and stays there although its caller may have gone (`Line`); `stop()`'s sentinel
  comes behind what was queued before it (`Order`); only a caller that holds the
  lock has a thread of its own (`Threads`).
* `PriceProofs`, from `BoundsAssumption`: a call that has its price has a complete row,
  and its hold the price it was told (`Copied`); a settled call paid that price up to
  its budget, and something (`Paid`); a price set by hand is still the row's, marked
  `manual` (`Marked`); and an administrator whom nobody contested edits what was
  asked for last (`Alone`).

Seven of these modules also hold the proofs of smaller components, each in a section
of its own that names an instance of the component's module; its theorems are
implications from the component's assumptions, for any values of its constants.

* `Renew` (`Credentials`), from `BoundAssumption` and for `~Google`: who renews holds
  the lock (`Locked`), tokens count upwards (`Numbered`), and a renewed credential
  is on disk or belongs to another token (`Origin`).
* `SignIn` (`OauthLogin`), from `ModeAssumption`: the login a task works on is neither
  free for another nor completed (`Taken`), and what it has written and has yet to
  write is what the login brought (`Gathered`).
* `Console` (`AdminSessions`), from `BoundsAssumption`: what a request has read is the
  password, or it is marked as begun before the change (`UpToDate`). The bound of the
  tries also rests on which list of failures a request holds: the one in use has room
  for those that hold it (`Room`), and a wrong password it lacks was noted by one that
  holds another (`Close`).
* `Entry` (`PortalLogin`), from `BoundsAssumption`: all codes of an address but the last
  are used up (`Older`), each session and user came in by a code of its own
  (`Entered`), and the computer of a user is claimed (`Claims`).
* `Health` (`AccountHealth`), from `HealthLimits`: what a window counts was noted in this
  window (`Counted1`), and an account that a removal or a disabling has reached stays
  as it is until it is brought back, or the removal is written over (`StaysGone`).
* `Route` (`KeyRoutes`), from `RouteNames`: a streak of failures is of an account and
  those were seen there (`StreakInv`, `StreakEarned`); the second property, that a
  preference is the administrators', is about steps.
* `Quota` (`Quotas`), from `BoundsAssumption`: a fetcher that looks at the cache holds its
  account's lock and has seen at least what is there (`Holds`, `Ahead`), a reset's own
  fetcher starts after its post was answered (`Follows`), and with one key a reset pays
  once (`Pays`).
* `Pool` (`HttpPool`), from `PoolAssumption`: a retired client is not the current one
  (`Retirees`), and who waits on it, or streams on it, began early enough to end
  within the drain (`Fits`).
* `Harness` (`HarnessFiles`), from `OrderAssumption` and `KeepAssumption`: before the
  snapshot is complete nothing of the client's is anywhere (`Untouched`), and nothing
  is written before it is held twice, in a version that can be chosen and in the
  rollback copy (`HeldTwice`); a copy in the making has the first files of the order
  (`Partial`).
* `Talk` (`CodexSessions`), from `RouteAssumption` and `ThreadAssumption`: the copy beside
  a conversation is that conversation rewritten (`Beside`), what the sync has passed
  is as it should be and stays so (`Come`), and a row that was put back has its
  conversation (`PutBack`).
* `Shelf` (`Artifacts`), from `BoundsAssumption`: an id is created once, and a row that is
  written late is one that nobody was told of (`CreatedOnce`); what
  a cleanup has read before still means the right thing when it comes to the files
  (`Spared`), and an answered call has its links (`Answered`).
* `Show` (`Pictures`), from `PictureNames`, `PictureBounds` and `PictureTurns`: where a
  call is says which permits it may have, its stream's and one more at most (`Permitted`), and what
  was shown or is to be shown is counted, and can be paid (`Payable`).

* `Roster` (`ProviderLists`), from `ListNames`: a merge takes away only what is ours because no
  two entries have one name (`Single`), and of the gateway's models only those of our
  entries are listed by name (`Listed`).
* `Grok` (`GrokTools`), from `NamesAssumption` and `BoundsAssumption`: what was sent to Grok is
  covered by what its calls are turned back into (`GoodTurn`), also where that was
  remembered (`GoodEntry`); a request without tools is sent all that the conversation
  had, because the cache keeps them for its time (`Keeps`).
* `History` (`Histories`), from `BoundsAssumption`: each call of the conversation is
  numbered when it is made (`Counted`), asked before it is answered and answered at
  most once (`Turned`, `Increasing`, `OutputsOnce`, `CallsOnce`). The rest is about the
  translation: where each item of a list that was flattened (`PlacedAt`), picked
  (`Picked`) or woven (`Woven`) comes from, for each of the clients.
* `Relay` (`Streams`), from `PiecesAssumption`: what was sent is a message that goes on
  (`Talk`) as long as the stream is open (`HeardLive`), and a call of Codex that is not
  done has its block open (`CallOpened`). Most of the proof is about the converters:
  what each makes of one event (`Told`, `Over`), from which that of a list of events
  follows (`Along`), and how a chunk more leaves the blocks in order (`Blocks`).
  The theorem has three of the five parts of `AnswersArrive`, for streams of any length.

The loops over lists in these last four are recursive functions over a prefix's length. This
prover cannot instantiate an induction theorem with a formula, so the lemmas go by sets: the set
of the lengths at which a fact holds contains 0 and with each number the next
(`CountingTo`, `Recursion`). The same few lemmas on lists stand in three modules, since a
proof module extends one component.

Only model-checked: liveness (`EveryHoldEnds`, `SeatGivenBack`, `EveryCallEnds`,
`NothingStays`, `WaitersAnswered`, `VideosBilled`), which this prover does not reach; and
two parts of `AnswersArrive`: that a streaming client hears the calls that were said, in
order and with their own arguments (`HeardIsSaid`), and that a collecting client gets
the same answer (`CollectedIsSaid`). They compare whole answers: an invariant for
them would have to say of every prefix of an answer what each converter holds of each
of its calls, and what the client will make of the chunks so far.

## 6. What is not modelled

Wire formats, prompts, schemas and prices as data; MySQL row locks
(transactions are atomic here: `settle` locks bill then key, `reverse` key then
bill, and MySQL ends such a deadlock by failing one); the model catalog, whose
tables are replaced whole every six hours and are an input of routing and
prices; migrations, reports and the web UI; downloads and recipes (generated
files); the desktop client's window, secrets and local service (calls of the
operating system, one at a time, onto functions that are modelled); and, inside
the modelled components, what section 2 and the notes in `PROJECT.json` name.

## 7. Plan

Everything the runs check of safety is proved but `HeardIsSaid` and
`CollectedIsSaid` of `Streams`. What a converter promises of one event is (`Told`,
`Over` in `CallProofs`); it would have to promise the calls too: that the entry of a
call in its state and the chunks of this call agree with what was said of it.
