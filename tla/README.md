# TradePulse: a verification project

TLA+ modules of the event-driven trading ledger in this repository, TLC
configurations that check them on small instances, and theorems the TLA+ proof
system checks for every instance. Line numbers are those of the sources;
`PROJECT.json` maps every definition to the lines it stands for.

## The system

    dashboard --HTTP--> ledger-core --(outbox, relay)--> ledger.updates --> risk-engine worker
        ^  ^                |  PostgreSQL                                     |  SQLite
        |  |                +- Phase 5 consumer (proof worker)                v
        |  +--HTTP--------------------------- risk-engine REST <-- risk_snapshots
        +--SSE-- gateway <-- risk.updates, market.ticks <-- risk-engine, market-data

| component | state | operations | hard behaviour | what makes it correct |
|---|---|---|---|---|
| ledger-core posting | `accounts`, `trades`, `journal_*`, `audit_log`, `outbox_events` | `postTrade`, `creditAccount` | concurrent transactions under READ COMMITTED, retries of one request id, unique keys and row locks, aborts between statements, rounding to NUMERIC(20,4) | one request id, one outcome; all tables or none; cash never negative and equal to its journal; answers agree with the tables |
| ledger-core relay | the `sent` column, a batch in memory | `relayBatch`, `publish`, `markSent` | crash between publish and mark, ambiguous XADD, commit order against stamp order, two relays in a deployment | at least once, nothing uncommitted, oldest visible first, everything in the end |
| Phase 5 consumer | group `cg:phase5-poc`, dedupe set and view in memory | `ensureGroup`, `reclaimStale`, `pollOnce`, `handle` | failed cycles, reclaim after newer entries, restart forgets | once per process, never acknowledged unapplied |
| risk-engine worker | group `cg:risk-engine`, `applied_events`, price and value windows, `risk_snapshots` | `reclaim_ledger`, `refresh_prices`, `drain_ledger`, `maybe_recompute` | crash at any command, duplicates, two stores written one after the other | each event counted once, none lost, REST and stream agree in the end |
| risk-engine REST | none of its own | `/risk/summary`, `/risk/var`, `/risk/explain`, its capabilities | reads between the worker's transactions | serves what is published, or newer |
| risk-engine explanations | none | `explain_snapshot`, `generate_llm_narrative` | replies of a language model that make figures up | each statement of change is filed under a figure that moved that way; a rewrite keeps keys and values |
| gateway | `lastID` per stream, client map, channels | `run`, `publish`, `subscribe`, `unsubscribe`, `sseHandler` | `$` resolved by each XREAD, slow browsers, close against send, reconnect | order, no repetition, no gap, no stall, no send on a closed channel |
| market-data | last price per symbol | `publishOnce`, `Next` | failed XADDs, rounding to cents | one positive price per symbol and round |
| dashboard | latest tick and risk per page, selected account, form state | stream context, `useAsync`, Risk screen, trade form | late answers, snapshot against stream, cancelled requests, request id reuse | text beside figures is about them |
| kill-and-restart proof (`poc/native-kill-restart`) | an SQLite file, a Redis group, three processes | seed, drain, consume, the script `run_proof.py` | SIGKILL between any two commands, consumers that take entries from each other | at-least-once delivery, one effect per event; the assertions of the script |
| other proofs of concept, infrastructure, HTTP kit, authentication | | | | prototypes, deployment, or stateless |

## Modules

| module | models | extends or uses |
|---|---|---|
| `LedgerMoney` | amounts, signs, rounding, order validation | |
| `LedgerPromise` | abstract: decide each request once, move funds, announce | `LedgerMoney` |
| `LedgerPosting` | `TradeController.submitTrade`, `AdminController.credit`, `LedgerService`, `LedgerRepository`, the schema | implements `LedgerPromise` |
| `LedgerPostingProofs` | theorems about `LedgerPosting` | `FiniteLemmas` |
| `AtLeastOnce` | abstract: delivery contract of `ledger.updates` | |
| `OutboxRelay` | the outbox rows and the relay | implements `AtLeastOnce` |
| `OutboxRelayProofs` | theorems about `OutboxRelay` | |
| `EffectivelyOnce` | abstract: contract of a consumer of `ledger.updates` | |
| `StreamOrder` | the order in which XPENDING, XAUTOCLAIM and ORDER BY list entries | |
| `RiskWorker` | worker, consumer, store and the snapshot REST reads | `StreamOrder`; implements `EffectivelyOnce` |
| `RiskWorkerProofs` | theorems about `RiskWorker` | `FiniteLemmas` |
| `Phase5Consumer` | the in-memory proof consumer | `StreamOrder`; implements `EffectivelyOnce` within one process |
| `Phase5ConsumerProofs` | theorems about `Phase5Consumer` | `FiniteLemmas` |
| `Gateway` | tailer, broker, SSE handlers | |
| `GatewayProofs` | theorems about `Gateway` | `FiniteLemmas` |
| `KillRestart` | `relay_proc.py`, `consumer_proc.py`, `store.py`, `seed.py` | `StreamOrder`; implements `EffectivelyOnce` |
| `RunProof` | `run_proof.py`, or an operator in its place | `KillRestart` |
| `KillRestartProofs` | theorems about `KillRestart` and `RunProof` | `FiniteLemmas` |
| `RiskExplain` | pure: `explain.py`, `llm_explain.py` (also `dashboard/src/explain.js`) | |
| `RiskScreen` | the Risk screen over the REST handlers and the live feed: `Risk.jsx`, `useAsync.js`, `StreamContext.jsx`, `main.py` | `RiskExplain` |
| `RiskScreenProofs` | theorems about `RiskExplain` and `RiskScreen` | `FiniteLemmas` |
| `FiniteLemmas` | lemmas about sequences, least and greatest numbers and sums over finite sets | `StreamOrder` |
| `MCLedgerPosting`, `MCRiskWorker`, `MCKillRestart`, `MCRiskScreen` | constants for TLC; the other modules run as they are | |

Definitions commented "Mutated form" are defects of the definition after them.
They are used by no specification; each one breaks one of the properties, which
shows that the property depends on that piece of code.

### Correspondence

**LedgerPosting.** One call is one HTTP request in one transaction; `pc` is the
statement it executes next, `read` its local variables, `pending` the rows it has
inserted and not committed, `locked` the row locks its UPDATE took. Each action is
one SQL statement, with the constraint that can stop it in a twin action
(`InsertTradeDuplicate`, `InsertJournalFails`, `UpdateCashFails`). The journal
entry and its two lines are one action, since nothing but the entry's key can be
seen by others. `Rollback` may strike before any statement. The answer of a commit
may be lost (`"lost"`), which is why clients retry. UUIDs drawn by a call are the
call. `RequestHeld` and `SourceHeld` are PostgreSQL's wait for an uncommitted equal
key. Foreign keys take FOR KEY SHARE on the account row, which does not conflict
with the cash update.

**OutboxRelay.** `Stamp` is `now` in `postTrade`, `CommitRow` the commit of its
transaction. `Poll` reads a batch in stamp order, `Publish` and `Mark` follow row
by row; `PublishFails` may or may not have appended; `Restart` may also change
`ledger.stream.enabled`, which is read when the process starts.

**RiskWorker.** One action per Redis command or SQLite transaction. `cursor`,
`pending`, `idle` and `tickPending` are the consumer group as Redis keeps it.
An exception ends the process, so failures are `Crash`. Of `risk.updates` only
the latest entry per account is kept (`wire`), since no reader in the system asks
for more. Volatility, VaR and Sharpe are functions of the value and the return
series, which stand for them in the snapshot. SQLite is assumed to keep committed
transactions over a process crash; loss of the last commits in a power failure
(`synchronous=NORMAL`) is left out. An entry 0 is one the parsers skip; entries that
make them raise (a JSON value that is no object, a number that is no number) are
not produced by ledger-core and are left out. The two XGROUP CREATE of
`ensure_groups` are one action.

**Phase5Consumer.** `CycleFails` is an exception `workOnce` catches: memory
survives it, the pending entries stay. `Restart` clears memory. Left out: a claim
that comes back empty and goes on to the next entry (Phase5PocConsumer.java:154-156),
which takes a second consumer, and an event without `account_id` or `symbol`, which
counts as applied and leaves the view alone (:196) and which ledger-core never writes.

**Gateway.** `Call` sends an XREAD, at which Redis resolves `$`; `Return` and
`ReturnNothing` are its answers. A reply holds a record per stream, the entries
`next..last` of it that are still to be forwarded (`Count` limits them); `Forward`
takes the first one as `Message`. The read lock is held from `Forward` to
`Published`; `Subscribe` and `Unsubscribe` need it free. An entry without the field
`event` moves `lastID` and is not published (stream.go:70-73); the producers of this
repository write none, and the module leaves it out.

**KillRestart.** One action per Redis command or SQLite transaction of
`relay_proc.py` and `consumer_proc.py`; `phase` says whether a relay, and whether a
consumer, has exited 0. A kill may strike either process anywhere, a process may be
started again or not, and a second consumer may run beside the first, which
`--consumer` allows. A reclaim takes every pending entry, where XAUTOCLAIM stops at
100 (COUNT, redis_client.py:138), more than there are here. With
`--min-idle-ms 0` a reclaim takes entries another consumer is working on, so
`_handle`'s check and `store.apply` are separate actions and the primary key of
`processed_events` decides (`Apply`, `ApplyConflict`). An outbox row is its `seq`.

**RunProof.** `script` is where `main` of `run_proof.py` is: two runs of the relay,
then two of one consumer, each to its end. The first of each kills itself, the relay
between the XADD and the mark of row `DieOn`, the consumer between the handling and
the XACK of entry `DieOnC` (`RelayAtDeath`, `ConsumerAtDeath`). What `main` asserts
after a run (exit code, lengths, unsent rows, pending entries, the baseline) is the
condition of `Asserts`: where it fails, `script` is `"failed"` and nothing more is
started. A SIGKILL from elsewhere ends the script too (`"killed"`): it runs no
process a third time. Or `script` is `"by hand"`: an operator runs the processes
from the command line, in the steps of `KillRestart`.

**RiskExplain.** Figures are integers in the unit the snapshot rounds them to, so
every difference is exact. A sentence is the direction or band it states; wording
is left out. `explain.js` is the same algorithm in the browser, and the module
stands for both; `explain.js` counts a difference of volatility of just one unit,
a millionth, as none where its floating-point difference falls below 1e-6
(explain.js:154). A reply of the language model is a record of headline, summary,
notes, metrics and changes, whatever its entries hold.

**RiskScreen.** A snapshot is named by its place in the order the worker computes
them, which stands for `computed_at`; two snapshots of one microsecond are left
out. `SaveSnapshot` is the write of `_build_risk_envelope` (consumer.py:97-118) and
`PublishSnapshot` the XADD of what it returns; a
crash between them leaves a version that is never published. Events arrive in
order, with gaps (the properties of `Gateway` allow no more). `summary` and
`fetches` are `useAsync`: nothing cancels a fetch, and `ReceiveSummary` sets the
state whichever fetch it ends. `Render` is React's effect on
`[aiOn, account, s.computed_at]`: every action that can change one of them ends
with it. `ServeExplain` is the moment `risk_explain` reads the store,
`ReceiveExplain` and `ExplainFails` the ends of the browser's promise; a
cancelled promise is a request that is gone. `accountLog` is the set of the places
its events have in the log, and its second event is at the second of them. Capabilities are advertised when
the mode is enabled, even without a key (`llm = "no_key"`), and then every answer is
rule-based. The VaR table with its own fetch, error notices, `llm_unavailable`
and rendering are left out.

## Runs

Bounds are named in each module. They are chosen so that every action fires and
each interesting case happens: two actors on one row plus one that replays, a
batch larger and smaller than the backlog, a fault before and after each command.

| run | instance | shows |
|---|---|---|
| `race` | three calls, two request ids, orders that fit the cash alone and not together | replay, duplicate key, overdraft, rejection and crash leave the tables consistent (`EffectsAtomic`, `CashMatchesJournal`), the answers true (`AnswersAgree`) and `LedgerPromise` kept |
| `money` | two calls, trades, credits and refused bodies, `Scale` 4: products that round to nothing, half, and up | the rounded cash column stays non-negative, events explain it up to credits and half a unit per posting, every call is answered |
| `relay` | two relays, two events, two faults, the switch on or off at each, stamps that tie and invert | nothing dropped, nothing invented, oldest visible first, everything published in the end |
| `risk_views` | three entries of two events and garbage, a tick, a crash anywhere | each event counts once, none is acknowledged unapplied, the stream carries what REST serves, every entry is settled, REST and stream agree on the right value in the end |
| `gateway_feed` | two streams, four entries, channels of one message, one browser connecting twice, a gateway restart | no send on a closed channel, order, no gap, no stall |
| `phase5` | three entries, two failed cycles, one restart | once per process, nothing acknowledged unapplied, everything acknowledged |
| `kill_restart` | three trades over two symbols; `run_proof.py` with one consumer, its two planned kills and one from elsewhere; by hand two consumers and three kills anywhere | a relay kill costs at most one repeated entry, which follows its first copy (`OneDuplicatePerKill`); each event counts once; the projection is the single-delivery baseline, positions too unless two consumers were up together; the script passes unless something else than its plan kills a process, and a process that runs comes to an exit (`ProofEnds`) |
| `risk_screen` | two accounts, three snapshots (rising, falling, of the other account), two fetches at once, a log of two events, a reply that invents figures | the metric keys and value fields of the rewrite are those of one snapshot (`AnswersGrounded`), and it is not older than the screen (`ProseKeepsUp`); each statement of change is filed under a figure of the account that moved, in its direction, and none is missing for value, volatility, or VaR while volatility stayed (`ChangesMatchFigures`); a request not superseded ends (`AiSettles`) |

One browser is enough for `gateway_feed`: handlers share only the lock and the
client map, and a browser that need not read is the one that could stall the
tailer; two browsers give the same verdicts in a longer run. Three kills let one strike each
process and one strike a restarted process; three snapshots let one event
be skipped or be of the other account between two that are compared.

Runs that end in a violation, each against a sentence of the repository
(quoted in `PROJECT.json`):

| run | the sentence | what happens |
|---|---|---|
| `position` | a limit on the net position | two buys each pass on a position read before the other commits |
| `duplicate` | a retry gets the original outcome | a concurrent retry fails on the unique key and gets a 500 |
| `relay_order` | a later event is never marked sent before an earlier one is published | stamps are taken before the commit |
| `risk_stream_order` | the latest row is stream order | entries of a dead worker are applied after newer ones |

Smaller effects that the models contain and no property singles out: a buy that
passes the cash rule on a stale balance ends in a constraint error without an
audit row (`UpdateCashFails`); a credit answers with the balance it read plus the
amount (`CommitAnswer`); with half a NUMERIC unit the journal line and the cash
column round apart (`JournalRow`, `UpdatedCash`), which is why
`CashMatchesJournal` is checked with `Scale` 1 and `EventsExplainCash` has a
rounding bound; a crash between the snapshot and the XADD leaves REST ahead of the
stream until the next recompute (`SaveSnapshot`, `Publish`); ticks of a dead worker
stay pending, only `ledger.updates` is reclaimed (`ReadTicks`, `Reclaim`); until a
stream delivers its first entry each XREAD starts from `$` again and can pass over
entries (`Call`).

Effects of the screen, likewise in the model: a reply of the language model without
choices raises an IndexError in `_call_chat_completions` (llm_explain.py:112) that
`generate_llm_narrative` does not catch, so the endpoint answers 500, where
services/risk-engine/README.md:104 has it never break (`ExplainFails`; the screen
then shows its own text). An event of another account ends `live`, and the screen
goes back to the snapshot it fetched at load, which may be older than what it
showed (Risk.jsx:116, `Live`, `Shown`). An answer fetched for the account selected
before, or by an earlier refresh, replaces a later one (useAsync.js:10-20,
`ReceiveSummary`), which is why `ProseKeepsUp` speaks of figures of the selected
account. While a new rewrite is under way the one before stays on the screen, also
after a change of account, which is why `ProseKeepsUp` speaks of requests that
have ended. A toggle switched off during a request leaves the spinner's flag on
until the next request ends (`Render`). When volatility moves, the statement says
that VaR moved with it, "That's why VaR rose too" (explain.py:213-222); `_changes`
does not look at VaR there, and VaR gets no statement of its own. The sentence is
wrong where a smaller portfolio has held VaR or lowered it, as in the falling
snapshot of the run: volatility is up and VaR is what it was. `ChangesMatchFigures`
is about the figure a statement is filed under and does not see it. The screen
renders the prose of a rewrite, which `AnswersGrounded` does not look at either: a
figure the language model makes up inside a sentence is shown.

`CHECK_DEADLOCK FALSE` is given to the runs of `OutboxRelay`, where nothing is left
to do when all rows are sent and the bounds are used up, and to `kill_restart`,
where the script ends.

### Fairness

- `LedgerPosting`: a request that has started executes its next statement when it
  can (a thread of the server runs it). Starting requests and rollbacks are not owed.
- `OutboxRelay`: `@Scheduled(fixedDelay)` runs an enabled relay again and again.
  `EventuallyPublished` assumes that some relay stays enabled; faults are bounded.
- `RiskWorker`: `restart: unless-stopped` restarts the process, the loop goes on,
  pending entries grow idle and the recompute interval passes.
- `Phase5Consumer`: as the relay, and idle time passes.
- `Gateway`: the tailer goroutine runs; Redis, asked again and again, answers again
  and again (strong fairness of `Return`, since a failed read leads back to the
  call). No fairness for browsers.
- `RunProof`: a process that runs goes on, and `main` starts the next one. Nothing
  restarts a process that `main` does not run, an operator need not start anything,
  and no kill is owed but the two the script plans.
- `RiskScreen`: the server answers, the call to the model ends by its timeout, the
  browser's promise settles (one weak fairness over the three). `AiSettles` asks for
  a pause of toggles, account changes and snapshots: each of them supersedes a
  request, and snapshots that come faster than the model answers can put off the
  rewrite for ever. Nothing else of the screen is owed.

## Proofs

Every safety property of the passing runs, invariants, action properties and
refinements alike, is a theorem, for every value of the constants that satisfies
the module's assumptions. In each proofs module `Correct` states the inductive
invariant, and the other theorems follow from it or from a step that starts in
it. `Inductive` of `LedgerPosting` and `OutboxRelay` is an invariant of the runs
`race` and `relay`; the others (`IInv`) are state predicates of
their proofs modules, and TLC checks them with `INVARIANT IInv` in an MC module
that extends the proofs module.

The assumptions say of the constants what the code fixes: the shape of orders,
trades and quotes, batch and window sizes that are not zero, and for
`LedgerPosting` that no account of a user bears the name of the two internal
ones (`account_ref` is an account's id, such as `acct_123`, or `"securities"` or
`"funding"`) and that
opening balances are amounts the column can hold. `CashMatches` has a hypothesis of
its own, `ExactMoney`: no order or credit has to be rounded. Every integer order
and credit satisfies it when `Scale` is 1.

`LedgerPostingProofs`, for all calls, requests, accounts, orders, credits, opening
balances, limits and scales:

- `Correct`: `TypeOK` and `Inductive`, which has three parts. `OpenInv` is about
  open transactions: each holds the row lock exactly while it has updated cash, to a
  value that is not negative (`LockInv`), has written exactly the rows its position
  says (`PendingRows`), and no other open or committed transaction has its request
  id (`KeyInv`). `Settled` is about committed ones: each table consists of the rows
  of the committed calls, and what a client was told is the committed trade of its
  request id (`ToldInv`). `Priced` has the amounts in integers and the balances in
  units the column holds.
- `CashNeverNegative`: not inductive alone; the update is safe because the value it
  was computed for is still the committed one at the commit, which is `LockInv`.
- `AnswersTrue` (`AnswersAgree`) from `ToldInv` and `KeyInv`; `EffectsAllOrNothing`
  (`EffectsAtomic`), about request ids, from `Settled`: a table has the row of a call
  exactly if the others have theirs.
- `CashMatches` (`CashMatchesJournal`): a commit adds one line to a sum over the
  committed journal, and the same amount to one balance.
- `EventsExplain` (`EventsExplainCash`): a posting adds its exact product to the
  announced sum and the rounded one to the balance, which differ by at most half a
  unit (`StoredNear`, `StoredShift`); the bound grows by that half.
- `ImplementsPromise`: every step is a step of `LedgerPromise` or a stutter; only
  `Commit` maps to a step, `Post`, `Refuse` or `Credit`, and its guards follow from
  `KeyInv` and `LockInv`.

`OutboxRelayProofs`, for all events, relays, batch sizes and fault bounds:

- `Correct`: `TypeOK` and `Inductive`. `SentIsPublished` is not inductive, because
  a mark trusts the publication before it. `Inductive` adds that what a relay holds
  was committed when it polled (`BatchInv`), that a busy relay is enabled and marks
  only what is on the stream (`MarkInv`), and that a row it saw and must not
  overtake is on the stream or earlier in its batch (`OrderInv`).
- `NothingDropped`, `NothingInvented`: parts of it.
- `OrderKept`: `PublishesOldestFirst` from `OrderInv` at the head of the batch.
- `ImplementsContract`: every step is a `Commit`, `Deliver` or `Settle` of
  `AtLeastOnce`, or a stutter.

`RiskWorkerProofs`, for all accounts, symbols, entries, ticks and window sizes:

- `Correct`: `IInv`. The streams hold numbered data (`StreamInv`); the group gave
  away what is pending (`GroupInv`); no event is in the log twice, and a price comes
  from a tick that has one (`StoreInv`); a batch lists pending entries in ascending
  order (`ProcessInv`); an entry about to be acknowledged is applied, and an
  envelope about to be published is the stored snapshot (`EntryInv`). While no
  worker has died, what is applied is what was delivered up to the entry in hand
  (`OrderInv`): without it a reclaimed batch could follow a newer one, as the run
  `risk_stream_order` shows for a worker that died.
- `CountsOnce`: every step is a step of `EffectivelyOnce` or a stutter. The group
  lets go of an entry only at `AckEntry`, and `EntryInv` says that
  its event is in.
- `FollowsStreamInOrder`: `FollowsStreamUntilCrash` from `OrderInv`, since the latest
  row of an account is then that of the latest first copy on the stream.
- `ServedIsPublished`: `PublishesWhatItServes` from `EntryInv` at the publication.

`Phase5ConsumerProofs`, for all batch sizes, streams and fault bounds:

- `Correct`: `IInv`. A batch is ascending and pending, also after a failed cycle
  (`CycleInv`); what is about to be acknowledged is in memory (`MemoryInv`); while
  nothing has failed or restarted, the batch is the end of what was delivered and
  memory holds all that precedes it (`OrderInv`).
- `NoneLost` (`AckedWasHandled`), `ViewInOrder` (`ViewFollowsStreamUntilFault`), and
  `AppliedOnce` (`AppliesOnceInOneProcess`): between restarts each step is a step of
  `EffectivelyOnce`, by `MemoryInv` at the acknowledgement.

`GatewayProofs`, for all streams, browsers, channel capacities and XREAD counts:

- `Correct`: `IInv`. `Reached` is how far a stream is forwarded, or the end `$`
  stood or will stand for; what the tailer holds of a stream starts right
  after it (`TailerInv`), what it has published of a stream is an unbroken run up
  to its last entry (`PublishedInv`), what a browser has received precedes what waits
  in its channel and both precede the message in hand until it is sent
  (`BrowserInv`), and the clients in the map are those with an open channel
  (`BrokerInv`). The last one needs the lock: a handler leaves the map, and its
  channel is closed, only when no fan-out is under way.
- `OpenChannels`, `NoGap`, `StreamsInOrder`: `SendsOnOpenChannels`,
  `NoGapOnceStarted`, `InOrder`.

`KillRestartProofs`, for all trades, consumers and kills, as many as there may be:

- `Correct`: `IInv`. The stream goes up one row at a time, with repetitions
  (`StreamInv`); some prefix of the rows is marked, and its length, the last entry
  and the relay's position fit together (`RelayInv`, where the kills pay for the
  repeated entries); a consumer acknowledges only what is processed (`GroupInv`); no
  event is in twice and the cash is the sum over those that are in (`DatabaseInv`).
  While no two consumers have been up together, one holds at most the last entry
  delivered (`AloneInv`), the processed events are a prefix of the rows and the
  positions are those of that prefix (`ProgressInv`).
- `OneDuplicate` (`OneDuplicatePerKill`) from `RelayInv`; `Projection`
  (`ProjectionIsBaseline`) from `DatabaseInv` and `ProgressInv`; `CountsOnce`
  (`CountsEachEventOnce`) from `GroupInv`. Positions are absolute and follow the
  order of application, which is why they need `ProgressInv` and cash does not.
- `ProofRunsProcesses`: a step of `RunProof` is one of `KillRestart` or a stutter, so
  all of this holds of `run_proof.py`, for any trades and any place to die.

`RiskScreenProofs`, for all accounts, figures, model replies and bounds:

- `ChangeStatements`: of any two snapshots, `_changes` files each statement under a
  figure that differs, with its direction, and leaves out no move of value, of
  volatility, or of VaR while volatility stayed; by cases on the figures that differ.
  The sentences are not part of it.
- `TypeCorrect`.
- `Grounded`, `KeepsUp`: `AnswersGrounded` and `ProseKeepsUp`. Neither is inductive:
  an answer is judged by the request that brings it. `IInv` adds that the store
  holds the latest snapshot of each account (`StoreInv`), and that a request under
  way is about the selected account, was made with the toggle on and has read a
  snapshot no older than the figures (`RequestInv`). `RenderKeeps` is the central
  lemma: whatever changes what the effect depends on supersedes the request.
  `AnswerKeeps` uses `MergeKeepsFacts`: a merge keeps keys, values and directions,
  whatever the reply.
- `ChangesMatch` (`ChangesMatchFigures`): `previous` is the next event of the account
  in the log (`PreviousIsNext`), and `ChangeStatements` of the two.

`FiniteLemmas` has what these proofs share. Sums over sets of rows are
`SumFunctionOnSet` of the community modules, a fold in an order that is chosen;
that it is the same in any order, and that a new member adds its value, is proved
by induction over the sets that have the property (`SubsetInduction`,
`BoundedInduction`), since the library's induction theorems take the property as
an operator, which the provers cannot instantiate.

Only model-checked: liveness, since fairness is out of the prover's reach
(`EveryCallAnswered`, `EventuallyPublished`, `ViewsCatchUp`, `EveryEntrySettled`,
`FeedGoesOn`, `EveryEntryAcked`, `ProofEnds`, `AiSettles`), and the four sentences
that the code does not keep.

## Not modelled

- Read endpoints, authentication, the HTTP kit: no state of their own.
- `poc/outbox-idempotency`, `poc/end-to-end`: one process each, with rules the
  services keep. They differ in one point: a rejected request leaves no key in
  `ledger.py` (lines 80-86), so a retry is judged again; `LedgerPosting` records
  the outcome of the service.
- `live_wire_proof.py`, `verify-native.sh`: scripts that drive the services modelled.
- Market data: one producer, whose stream is an environment action of `RiskWorker`
  and `Gateway`.
- The dashboard's other screens and its trade form.
- The throttle of the worker forgets its timestamp at a restart (worker.py:145), so a
  restart samples early; `RiskWorker` lets the interval pass at any time and does
  not see it.
- Rendering, logging, deployment.

## Plan

1. `MarketData`: the publication round, the random walk in cents, MAXLEN.
2. `Pipeline`: `LedgerPosting`'s commits through the relay into the risk projection,
   to relate the projection's cash and positions to the tables (stale
   `position_after`, unannounced credits).
3. The trade form's request id over `LedgerPosting`.
4. Pure algorithms: metrics windows, average price, role rules.
5. Proofs: what `MarketData` and `Pipeline` promise; the request id of the trade form
   from `KeyInv`. That no assertion of `run_proof.py` fails, which `ProofEnds` checks for one
   instance, for any trades and places to die.
