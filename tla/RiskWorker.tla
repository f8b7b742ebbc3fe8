------------------------------ MODULE RiskWorker ------------------------------
(***************************************************************************)
(* The risk engine: app/worker.py over app/consumer.py and app/store.py,   *)
(* and the snapshot its REST API serves (app/main.py).                     *)
(*                                                                         *)
(* One worker process loops: reclaim idle entries of ledger.updates, read  *)
(* new ticks, read new ledger entries, recompute if the interval elapsed.  *)
(* An action is one Redis command or one SQLite transaction.  Nothing in   *)
(* the loop is caught: a failed command, like a kill, ends the process     *)
(* (Crash), and "restart: unless-stopped" starts another (Start).          *)
(*                                                                         *)
(* External: the streams with the consumer group's cursor and pending      *)
(* entries, and what ledger-core and market-data append.                   *)
(*                                                                         *)
(* Abstracted: amounts are small integers; of volatility, VaR and Sharpe   *)
(* the return series they are functions of; of risk.updates the latest     *)
(* entry of each account.  Trade events are numbered in the order          *)
(* ledger-core committed them, an entry 0 is one the parsers reject.       *)
(***************************************************************************)
EXTENDS StreamOrder, SequencesExt

CONSTANTS Posts,          \* LedgerUpdated data: [account, symbol, cash_delta, position_after, price]
          Quotes,         \* TickReceived data: [symbol, price]
          SeedCash,       \* config.seed_cash
          BatchSize,      \* config.batch_size
          WindowSize,     \* config.window_size
          MaxEntries,     \* bound on ledger.updates
          MaxTicks,       \* bound on market.ticks
          MaxCrashes      \* bound on crashes

ASSUME WorkerAssumption ==
    /\ BatchSize \in Nat \ {0}
    /\ {WindowSize, MaxEntries, MaxTicks, MaxCrashes} \subseteq Nat
    /\ SeedCash \in Int
    /\ {Len(Posts), Len(Quotes)} \subseteq Nat
    /\ \A e \in 1..Len(Posts) : {Posts[e].cash_delta, Posts[e].position_after,
                                 Posts[e].price} \subseteq Int
    /\ \A q \in 1..Len(Quotes) : Quotes[q].price \in Int

Events == 1..Len(Posts)
Accounts == {Posts[e].account : e \in Events}
Symbols == {Posts[e].symbol : e \in Events} \cup {Quotes[q].symbol : q \in 1..Len(Quotes)}

VARIABLES ledger, ticks, wire,               \* ledger.updates, market.ticks, risk.updates
          cursor, pending, idle, tickPending,                 \* cg:risk-engine
          applied, price_cache, price_history, pv_history, risk_snapshots,  \* the store
          pc, task, batch, env, due,                          \* the process
          crashes

streams == <<ledger, ticks>>
group == <<cursor, pending, idle, tickPending>>
prices == <<price_cache, price_history>>
valued == <<pv_history, risk_snapshots>>
process == <<pc, task, batch, env, due>>
vars == <<streams, wire, group, applied, prices, valued, process, crashes>>

NoGroup == -1
NoMetrics == [computed |-> "never"]
NoEnvelope == [account |-> "none"]

Init ==
    /\ ledger = << >> /\ ticks = << >>
    /\ wire = [a \in Accounts |-> NoMetrics]
    /\ cursor = [ledger |-> NoGroup, ticks |-> NoGroup]
    /\ pending = {} /\ idle = {} /\ tickPending = {}
    /\ applied = << >>
    /\ price_cache = [s \in Symbols |-> 0]
    /\ price_history = [s \in Symbols |-> << >>]
    /\ pv_history = [a \in Accounts |-> << >>]
    /\ risk_snapshots = [a \in Accounts |-> NoMetrics]
    /\ pc = "down" /\ task = "reclaim" /\ batch = << >> /\ env = NoEnvelope
    /\ due = TRUE
    /\ crashes = 0

-----------------------------------------------------------------------------
(* What the store derives from its tables *)

AlreadyApplied(e) == Contains(applied, e)

\* account_cash: seed plus the deltas of the deduplicated log.
AccountCash(a) ==
    SeedCash + SumFunction([e \in {d \in ToSet(applied) : Posts[d].account = a}
                                |-> Posts[e].cash_delta])

Rows(a, s) == {i \in DOMAIN applied : Posts[applied[i]].account = a
                                      /\ Posts[applied[i]].symbol = s}

\* Mutated form: the row inserted first.
FirstRow(a, s) == Posts[applied[Min(Rows(a, s))]]

\* latest_positions: the row inserted last (max rowid) for each symbol.
LatestRow(a, s) == Posts[applied[Max(Rows(a, s))]]

Held(a) == {s \in Symbols : Rows(a, s) # {}}

\* resolved_positions: the live price, or the trade price before any tick.
Mark(a, s) == IF price_cache[s] # 0 THEN Quotes[ticks[price_cache[s]]].price
              ELSE LatestRow(a, s).price

\* compute_metrics: cash plus marked positions.
PortfolioValue(a) ==
    AccountCash(a) +
    SumFunction([s \in Held(a) |-> LatestRow(a, s).position_after * Mark(a, s)])

\* pv_returns: consecutive pairs, a zero previous value skipped.  Volatility,
\* VaR and Sharpe are functions of them, zero below two returns.
Returns(pvs) ==
    LET pairs == [i \in 1..Len(pvs) - 1 |-> <<pvs[i], pvs[i + 1]>>]
    IN  SelectSeq(pairs, LAMBDA p : p[1] # 0)

Metrics(a) ==
    [portfolio_value |-> PortfolioValue(a), returns |-> Returns(pv_history[a])]

\* Mutated form: nothing is evicted.
Grow(window, x) == Append(window, x)

\* Append to a rolling window that keeps WindowSize returns.
Slide(window, x) ==
    LET longer == Append(window, x)
        keep == WindowSize + 1
    IN  IF Len(longer) > keep THEN SubSeq(longer, Len(longer) - keep + 1, Len(longer))
        ELSE longer

\* GET /risk/summary and GET /risk/var answer from the stored snapshot; there
\* is none (404) before the first computation.
Summary(a) == risk_snapshots[a]

-----------------------------------------------------------------------------
(* The environment *)

\* ledger-core publishes its next event, or one again (its relay is
\* at-least-once), or something the consumer cannot parse is on the stream.
LedgerPublishes(e) ==
    /\ Len(ledger) < MaxEntries
    /\ e > 1 => Contains(ledger, e - 1)
    /\ ledger' = Append(ledger, e)
    /\ UNCHANGED <<ticks, wire, group, applied, prices, valued, process, crashes>>

MarketPublishes(q) ==
    /\ Len(ticks) < MaxTicks
    /\ ticks' = Append(ticks, q)
    /\ UNCHANGED <<ledger, wire, group, applied, prices, valued, process, crashes>>

\* A delivered entry has been pending for min_idle_ms.
Age(i) ==
    /\ i \in pending \ idle
    /\ idle' = idle \cup {i}
    /\ UNCHANGED <<streams, wire, cursor, pending, tickPending, applied, prices, valued,
                   process, crashes>>

\* recompute_interval_ms have passed since the last recompute.
Elapse ==
    /\ ~due
    /\ due' = TRUE
    /\ UNCHANGED <<streams, wire, group, applied, prices, valued, pc, task, batch, env, crashes>>

Crash ==
    /\ pc # "down"
    /\ crashes < MaxCrashes
    /\ crashes' = crashes + 1
    /\ pc' = "down" /\ batch' = << >> /\ env' = NoEnvelope /\ task' = "reclaim"
    /\ UNCHANGED <<streams, wire, group, applied, prices, valued, due>>

-----------------------------------------------------------------------------
(* The process *)

\* ensure_groups: a missing group is created at the beginning of its stream.
\* Its two XGROUP CREATE are one action: only this process uses the groups.
EnsureGroups ==
    cursor' = [s \in DOMAIN cursor |-> IF cursor[s] = NoGroup THEN 0 ELSE cursor[s]]

\* build_worker; the first recompute is due at once.
Start ==
    /\ pc = "down"
    /\ EnsureGroups
    /\ pc' = "reclaim"
    /\ due' = TRUE
    /\ UNCHANGED <<streams, wire, pending, idle, tickPending, applied, prices, valued,
                   task, batch, env, crashes>>

\* Mutated form: no reclaim pass.
ReclaimNothing ==
    /\ pc = "reclaim"
    /\ pc' = "ticks"
    /\ task' = "reclaim"
    /\ UNCHANGED <<streams, wire, group, applied, prices, valued, batch, env, due, crashes>>

\* reclaim_ledger: XAUTOCLAIM takes over idle entries, which restarts their
\* idle time.
Reclaim ==
    /\ pc = "reclaim"
    /\ batch' \in Ascending(Lowest(idle, BatchSize))
    /\ idle' = idle \ ToSet(batch')
    /\ pc' = IF batch' = << >> THEN "ticks" ELSE "apply"
    /\ task' = "reclaim"
    /\ UNCHANGED <<streams, wire, cursor, pending, tickPending, applied, prices, valued,
                   env, due, crashes>>

\* The new entries an XREADGROUP ">" delivers from a stream.
New(stream, from) ==
    [i \in 1..Min({BatchSize, Len(stream) - from}) |-> from + i]

\* refresh_prices reads ticks.
ReadTicks ==
    /\ pc = "ticks"
    /\ batch' = New(ticks, cursor.ticks)
    /\ cursor' = [cursor EXCEPT !.ticks = @ + Len(batch')]
    /\ tickPending' = tickPending \cup ToSet(batch')
    /\ pc' = IF batch' = << >> THEN "drain" ELSE "price"
    /\ UNCHANGED <<streams, wire, pending, idle, applied, prices, valued, task, env, due, crashes>>

Tick == ticks[Head(batch)]

\* process_tick_envelope: upsert_price, then append_price, each its own
\* transaction; a malformed tick is only acknowledged.
UpsertPrice ==
    /\ pc = "price"
    /\ IF Tick = 0
       THEN pc' = "ack_tick" /\ UNCHANGED price_cache
       ELSE /\ price_cache' = [price_cache EXCEPT ![Quotes[Tick].symbol] = Head(batch)]
            /\ pc' = "price_history"
    /\ UNCHANGED <<streams, wire, group, applied, price_history, valued, task, batch, env,
                   due, crashes>>

AppendPrice ==
    /\ pc = "price_history"
    /\ price_history' = [price_history EXCEPT ![Quotes[Tick].symbol] =
                            Slide(@, Quotes[Tick].price)]
    /\ pc' = "ack_tick"
    /\ UNCHANGED <<streams, wire, group, applied, price_cache, valued, task, batch, env,
                   due, crashes>>

AckTick ==
    /\ pc = "ack_tick"
    /\ tickPending' = tickPending \ {Head(batch)}
    /\ batch' = Tail(batch)
    /\ pc' = IF Len(batch) = 1 THEN "drain" ELSE "price"
    /\ UNCHANGED <<streams, wire, cursor, pending, idle, applied, prices, valued, task, env,
                   due, crashes>>

\* Mutated form: entries are acknowledged as they are read (NOACK).
DrainNoAck ==
    /\ pc = "drain"
    /\ batch' = New(ledger, cursor.ledger)
    /\ cursor' = [cursor EXCEPT !.ledger = @ + Len(batch')]
    /\ pc' = IF batch' = << >> THEN "recompute" ELSE "apply"
    /\ task' = "drain"
    /\ UNCHANGED <<streams, wire, pending, idle, tickPending, applied, prices, valued, env,
                   due, crashes>>

\* drain_ledger reads ledger entries.
Drain ==
    /\ pc = "drain"
    /\ batch' = New(ledger, cursor.ledger)
    /\ cursor' = [cursor EXCEPT !.ledger = @ + Len(batch')]
    /\ pending' = pending \cup ToSet(batch')
    /\ pc' = IF batch' = << >> THEN "recompute" ELSE "apply"
    /\ task' = "drain"
    /\ UNCHANGED <<streams, wire, idle, tickPending, applied, prices, valued, env, due, crashes>>

Entry == ledger[Head(batch)]

\* process_ledger_envelope: INSERT OR IGNORE by event_id.
ApplyEvent ==
    /\ pc = "apply"
    /\ Entry # 0
    /\ ~AlreadyApplied(Entry)
    /\ applied' = Append(applied, Entry)
    /\ pc' = "save"
    /\ UNCHANGED <<streams, wire, group, prices, valued, task, batch, env, due, crashes>>

\* A duplicate or a malformed entry: no recompute, no publication.
SkipEntry ==
    /\ pc = "apply"
    /\ Entry = 0 \/ AlreadyApplied(Entry)
    /\ pc' = "ack"
    /\ UNCHANGED <<streams, wire, group, applied, prices, valued, task, batch, env, due, crashes>>

Subject == IF task = "recompute" THEN Head(batch) ELSE Posts[Entry].account

\* Mutated form: the envelope is built, the snapshot is not stored.
BuildEnvelope ==
    /\ pc = "save"
    /\ env' = [account |-> Subject, metrics |-> Metrics(Subject)]
    /\ pc' = "publish"
    /\ UNCHANGED <<streams, wire, group, applied, prices, valued, task, batch, due, crashes>>

\* _build_risk_envelope: the snapshot is committed before the publication.
SaveSnapshot ==
    /\ pc = "save"
    /\ risk_snapshots' = [risk_snapshots EXCEPT ![Subject] = Metrics(Subject)]
    /\ env' = [account |-> Subject, metrics |-> Metrics(Subject)]
    /\ pc' = "publish"
    /\ UNCHANGED <<streams, wire, group, applied, prices, pv_history, task, batch, due, crashes>>

\* _publish, and the step to the next account in a recompute.
Publish ==
    /\ pc = "publish"
    /\ wire' = [wire EXCEPT ![env.account] = env.metrics]
    /\ env' = NoEnvelope
    /\ IF task = "recompute"
       THEN /\ batch' = Tail(batch)
            /\ pc' = IF Len(batch) = 1 THEN "end" ELSE "sample"
       ELSE pc' = "ack" /\ UNCHANGED batch
    /\ UNCHANGED <<streams, group, applied, prices, valued, task, due, crashes>>

AckEntry ==
    /\ pc = "ack"
    /\ pending' = pending \ {Head(batch)}
    /\ idle' = idle \ {Head(batch)}
    /\ batch' = Tail(batch)
    /\ pc' = IF Len(batch) > 1 THEN "apply"
             ELSE IF task = "reclaim" THEN "ticks" ELSE "recompute"
    /\ UNCHANGED <<streams, wire, cursor, tickPending, applied, prices, valued, task, env,
                   due, crashes>>

\* Mutated form: only the ledger recomputes.
RecomputeNever ==
    /\ pc = "recompute"
    /\ pc' = "end"
    /\ due' = FALSE
    /\ task' = "recompute"
    /\ UNCHANGED <<streams, wire, group, applied, prices, valued, batch, env, crashes>>

\* maybe_recompute, over the accounts of the log in the order the query
\* happens to return them.
Recompute ==
    /\ pc = "recompute"
    /\ LET accounts == {Posts[e].account : e \in ToSet(applied)}
       IN  IF due /\ accounts # {}
           THEN batch' \in SetToSeqs(accounts) /\ pc' = "sample"
           ELSE pc' = "end" /\ UNCHANGED batch
    /\ due' = FALSE
    /\ task' = "recompute"
    /\ UNCHANGED <<streams, wire, group, applied, prices, valued, env, crashes>>

\* recompute_account: append_pv, then the envelope.
Sample ==
    /\ pc = "sample"
    /\ pv_history' = [pv_history EXCEPT ![Subject] = Slide(@, PortfolioValue(Subject))]
    /\ pc' = "save"
    /\ UNCHANGED <<streams, wire, group, applied, prices, risk_snapshots, task, batch, env,
                   due, crashes>>

\* The next iteration, or the end of a --once or --idle-exit-cycles run.
EndCycle ==
    /\ pc = "end"
    /\ \E next \in {"reclaim", "down"} : pc' = next
    /\ UNCHANGED <<streams, wire, group, applied, prices, valued, task, batch, env, due, crashes>>

WorkerStep ==
    \/ Reclaim \/ ReadTicks \/ UpsertPrice \/ AppendPrice \/ AckTick
    \/ Drain \/ ApplyEvent \/ SkipEntry \/ SaveSnapshot \/ Publish \/ AckEntry
    \/ Recompute \/ Sample \/ EndCycle

Next ==
    \/ \E e \in Events \cup {0} : LedgerPublishes(e)
    \/ \E q \in 0..Len(Quotes) : MarketPublishes(q)
    \/ \E i \in 1..MaxEntries : Age(i)
    \/ Elapse
    \/ Start \/ WorkerStep
    \/ Crash

Spec == Init /\ [][Next]_vars

\* The supervisor restarts the process, a running process goes on, and time
\* passes.
FairSpec ==
    /\ Spec
    /\ WF_vars(Start)
    /\ WF_vars(WorkerStep)
    /\ WF_vars(Elapse)
    /\ \A i \in 1..MaxEntries : WF_vars(Age(i))

-----------------------------------------------------------------------------
(* Properties *)

Delivered == 1..cursor.ledger

\* The store, the streams and the process keep the shapes above: windows never
\* exceed their size, and a process in a batch has an entry to work on.
TypeOK ==
    /\ ledger \in Seq(Events \cup {0}) /\ ticks \in Seq(0..Len(Quotes))
    /\ cursor \in [{"ledger", "ticks"} -> Nat \cup {NoGroup}]
    /\ cursor.ledger <= Len(ledger) /\ cursor.ticks <= Len(ticks)
    /\ pending \subseteq Delivered /\ idle \subseteq pending
    /\ tickPending \subseteq 1..cursor.ticks
    /\ applied \in Seq(Events)
    /\ price_cache \in [Symbols -> 0..Len(ticks)]
    /\ \A s \in Symbols : price_history[s] \in Seq(Int) /\ Len(price_history[s]) <= WindowSize + 1
    /\ \A a \in Accounts : pv_history[a] \in Seq(Int) /\ Len(pv_history[a]) <= WindowSize + 1
    /\ task \in {"reclaim", "drain", "recompute"}
    /\ pc \in {"apply", "ack", "price", "price_history", "ack_tick", "save", "publish", "sample"}
        => batch # << >>
    /\ pc \in {"apply", "ack"} => Head(batch) \in pending
    /\ pc \in {"price", "price_history", "ack_tick"} => Head(batch) \in tickPending

\* However often the worker dies and entries are delivered again, an event
\* counts once in the projection, and the group never lets go of an entry
\* whose event the store has not recorded ("each event's effect exactly once",
\* docs/contracts/streams/redis-streams.md; store.py's class comment).
Effects == INSTANCE EffectivelyOnce WITH
    Garbage <- {0},
    log <- ledger,
    effects <- applied,
    forgotten <- Delivered \ pending

CountsEachEventOnce == Effects!Spec

\* The position of an event's first copy on the stream.
FirstCopy(e) == CHOOSE i \in DOMAIN ledger : ledger[i] = e /\ \A j \in 1..i - 1 : ledger[j] # e

\* The latest position of a symbol is the one the stream says last, among the
\* events applied.
StreamLatest(a, s) ==
    LET rows == Rows(a, s)
    IN  CHOOSE p \in {Posts[applied[i]].position_after : i \in rows} :
            \E i \in rows : /\ p = Posts[applied[i]].position_after
                            /\ \A j \in rows : FirstCopy(applied[j]) <= FirstCopy(applied[i])

FollowsStream ==
    \A a \in Accounts : \A s \in Held(a) : LatestRow(a, s).position_after = StreamLatest(a, s)

\* Until a worker has died in a batch, positions follow the stream.
FollowsStreamUntilCrash == crashes = 0 => FollowsStream

\* What goes on risk.updates for an account is what GET /risk/summary has been
\* serving since before the publication.
PublishesWhatItServes ==
    [][\A a \in Accounts : wire'[a] # wire[a] => wire'[a] = Summary(a)]_vars

\* A worker that died anywhere, also between the commit of an event and the
\* publication its duplicate will not repeat, is made up for: in the end REST
\* and stream agree and show the account's value.
ViewsCatchUp ==
    \A a \in Accounts :
        <>[](Held(a) # {} => /\ wire[a] = Summary(a)
                             /\ wire[a] # NoMetrics
                             /\ wire[a].portfolio_value = PortfolioValue(a))

\* Every entry of ledger.updates, also one on the stream before the group
\* existed, is processed and acknowledged.
EveryEntrySettled ==
    \A i \in 1..MaxEntries :
        (i \in DOMAIN ledger) ~> (i \in Delivered /\ i \notin pending)

=============================================================================
