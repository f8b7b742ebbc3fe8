----------------------------- MODULE KillRestart -----------------------------
(***************************************************************************)
(* poc/native-kill-restart: real relay_proc.py and consumer_proc.py        *)
(* processes over an SQLite file (store.py) and a Redis stream with one    *)
(* consumer group.                                                         *)
(*                                                                         *)
(* An action is one Redis command or one SQLite transaction; a process may *)
(* be killed between any two, and started again or not.  Consumers of      *)
(* several --consumer names may run at once; they start when a relay has   *)
(* drained the outbox, the order of run_proof.py.  What run_proof.py       *)
(* itself does with the processes is RunProof.                             *)
(*                                                                         *)
(* External: Redis, which is not killed.  With --min-idle-ms 0, as         *)
(* run_proof.py passes it, XAUTOCLAIM takes every pending entry, also one  *)
(* another consumer is working on (at most 100 at a time, COUNT in         *)
(* redis_client.py: more than are ever pending here).  Abstracted: the     *)
(* stream id of an entry is its position, an event is the seq of its       *)
(* outbox row, all of one account.  Entries _extract rejects are not       *)
(* produced by seed.py.                                                    *)
(***************************************************************************)
EXTENDS StreamOrder, SequencesExt

CONSTANTS Trades,         \* seed.TRADES: [symbol, side, quantity, price]
          SeedCash,       \* seed.SEED_CASH
          Consumers,      \* consumer processes, by --consumer
          MaxIdlePolls,   \* --max-idle-polls
          MaxKills        \* bound on kills

ASSUME ProofAssumption ==
    /\ SeedCash \in Int
    /\ MaxIdlePolls \in Nat \ {0}
    /\ MaxKills \in Nat
    /\ Len(Trades) \in Nat
    /\ \A i \in 1..Len(Trades) : /\ {Trades[i].quantity, Trades[i].price} \subseteq Nat
                                  /\ Trades[i].side \in {"BUY", "SELL"}

Rows == 1..Len(Trades)
Symbols == {Trades[e].symbol : e \in Rows}

VARIABLES sent, processed, proj_cash, proj_positions,  \* the database
          stream, cursor, pending,                     \* ledger.updates and its group
          relay, consumer,                             \* the processes
          phase,                                       \* how far processes have come
          kills, overlapped                            \* kills so far; did two consumers ever run together

database == <<sent, processed, proj_cash, proj_positions>>
projection == <<processed, proj_cash, proj_positions>>
redis == <<stream, cursor, pending>>
vars == <<database, redis, relay, consumer, phase, kills, overlapped>>

NoGroup == -1
RelayDown == [pc |-> "down", batch |-> << >>]
ConsumerDown == [pc |-> "down", task |-> "reclaim", batch |-> << >>, idle |-> 0]

-----------------------------------------------------------------------------
(* seed.py *)

CashDelta(e) ==
    LET notional == Trades[e].quantity * Trades[e].price
    IN  IF Trades[e].side = "BUY" THEN -notional ELSE notional

SignedQuantity(e) == IF Trades[e].side = "BUY" THEN Trades[e].quantity ELSE -Trades[e].quantity

\* generate: the running position of the trade's symbol.
PositionAfter(e) ==
    SumFunction([d \in {d \in 1..e : Trades[d].symbol = Trades[e].symbol} |-> SignedQuantity(d)])

\* baseline: each event of E folded once, in the order of the outbox.
BaselineCash(E) == SeedCash + SumFunction([e \in E |-> CashDelta(e)])
BaselinePositions(E) ==
    [s \in Symbols |-> LET rows == {e \in E : Trades[e].symbol = s}
                       IN  IF rows = {} THEN 0 ELSE PositionAfter(Max(rows))]

\* store.init, seed_outbox and init_projection on a clean database and stream.
Init ==
    /\ sent = {}
    /\ processed = << >>
    /\ proj_cash = SeedCash
    /\ proj_positions = [s \in Symbols |-> 0]
    /\ stream = << >> /\ cursor = NoGroup /\ pending = {}
    /\ relay = RelayDown
    /\ consumer = [c \in Consumers |-> ConsumerDown]
    /\ phase = "relay"
    /\ kills = [relay |-> 0, consumer |-> 0]
    /\ overlapped = FALSE

-----------------------------------------------------------------------------
(* relay_proc.py *)

\* unsent_outbox: the rows not marked, in seq order.
Unsent == Ascending(Rows \ sent)

StartRelay ==
    /\ phase = "relay" /\ relay.pc = "down"
    /\ \E rows \in Unsent : relay' = [pc |-> "publish", batch |-> rows]
    /\ UNCHANGED <<database, redis, consumer, phase, kills, overlapped>>

XAdd ==
    /\ relay.pc = "publish" /\ relay.batch # << >>
    /\ stream' = Append(stream, Head(relay.batch))
    /\ relay' = [relay EXCEPT !.pc = "mark"]
    /\ UNCHANGED <<database, cursor, pending, consumer, phase, kills, overlapped>>

\* Mutated form: every row of the batch is marked with its first.
MarkBatch ==
    /\ relay.pc = "mark"
    /\ sent' = sent \cup ToSet(relay.batch)
    /\ relay' = [pc |-> "publish", batch |-> Tail(relay.batch)]
    /\ UNCHANGED <<projection, redis, consumer, phase, kills, overlapped>>

MarkSent ==
    /\ relay.pc = "mark"
    /\ sent' = sent \cup {Head(relay.batch)}
    /\ relay' = [pc |-> "publish", batch |-> Tail(relay.batch)]
    /\ UNCHANGED <<projection, redis, consumer, phase, kills, overlapped>>

\* Exit code 0: consumers may start.
RelayDrained ==
    /\ relay.pc = "publish" /\ relay.batch = << >>
    /\ relay' = RelayDown
    /\ phase' = "consumer"
    /\ UNCHANGED <<database, redis, consumer, kills, overlapped>>

\* os._exit(137), or a SIGKILL that lands mid-drain.
KillRelay ==
    /\ relay.pc # "down"
    /\ kills.relay + kills.consumer < MaxKills
    /\ kills' = [kills EXCEPT !.relay = @ + 1]
    /\ relay' = RelayDown
    /\ UNCHANGED <<database, redis, consumer, phase, overlapped>>

-----------------------------------------------------------------------------
(* consumer_proc.py *)

Running(c) == consumer[c].pc # "down"

\* XGROUP CREATE at 0; BUSYGROUP is ignored.
StartConsumer(c) ==
    /\ phase # "relay" /\ ~Running(c)
    /\ cursor' = IF cursor = NoGroup THEN 0 ELSE cursor
    /\ consumer' = [consumer EXCEPT ![c] = [ConsumerDown EXCEPT !.pc = "reclaim"]]
    /\ overlapped' = (overlapped \/ \E d \in Consumers : Running(d))
    /\ UNCHANGED <<database, stream, pending, relay, phase, kills>>

\* Mutated form: no reclaim.
ReclaimNothing(c) ==
    /\ consumer[c].pc = "reclaim"
    /\ consumer' = [consumer EXCEPT ![c].pc = "read", ![c].task = "reclaim"]
    /\ UNCHANGED <<database, redis, relay, phase, kills, overlapped>>

\* XAUTOCLAIM of every pending entry.
Reclaim(c) ==
    /\ consumer[c].pc = "reclaim"
    /\ \E entries \in Ascending(pending) :
        consumer' = [consumer EXCEPT ![c].batch = entries,
                                     ![c].task = "reclaim",
                                     ![c].pc = IF pending = {} THEN "read" ELSE "check"]
    /\ UNCHANGED <<database, redis, relay, phase, kills, overlapped>>

\* XREADGROUP ">" COUNT 1.
ReadNew(c) ==
    /\ consumer[c].pc = "read" /\ cursor < Len(stream)
    /\ cursor' = cursor + 1
    /\ pending' = pending \cup {cursor + 1}
    /\ consumer' = [consumer EXCEPT ![c] = [pc |-> "check", task |-> "new",
                                            batch |-> <<cursor + 1>>, idle |-> 0]]
    /\ UNCHANGED <<database, stream, relay, phase, kills, overlapped>>

\* XREADGROUP with nothing new.
ReadNothing(c) ==
    /\ consumer[c].pc = "read" /\ cursor = Len(stream)
    /\ consumer' = [consumer EXCEPT ![c].pc = "poll"]
    /\ UNCHANGED <<database, redis, relay, phase, kills, overlapped>>

\* XPENDING: the cycle counts as idle if nothing is pending.
Idle(c) == consumer[c].idle + IF pending = {} THEN 1 ELSE 0

\* Not idle for MaxIdlePolls cycles yet.
Poll(c) ==
    /\ consumer[c].pc = "poll" /\ (pending # {} \/ Idle(c) < MaxIdlePolls)
    /\ consumer' = [consumer EXCEPT ![c].pc = "reclaim", ![c].idle = Idle(c)]
    /\ UNCHANGED <<database, redis, relay, phase, kills, overlapped>>

\* Mutated form: an empty read counts as idle whatever is pending.
ExitEarly(c) ==
    /\ consumer[c].pc = "poll"
    /\ consumer' = [consumer EXCEPT ![c] = ConsumerDown]
    /\ phase' = "done"
    /\ UNCHANGED <<database, redis, relay, kills, overlapped>>

\* Exit code 0.
Exit(c) ==
    /\ consumer[c].pc = "poll" /\ pending = {} /\ Idle(c) >= MaxIdlePolls
    /\ consumer' = [consumer EXCEPT ![c] = ConsumerDown]
    /\ phase' = "done"
    /\ UNCHANGED <<database, redis, relay, kills, overlapped>>

Event(c) == stream[Head(consumer[c].batch)]

\* _handle: already_processed, on a connection of its own.
Check(c) ==
    /\ consumer[c].pc = "check"
    /\ consumer' = [consumer EXCEPT ![c].pc = IF Contains(processed, Event(c)) THEN "ack"
                                              ELSE "apply"]
    /\ UNCHANGED <<database, redis, relay, phase, kills, overlapped>>

\* Mutated form: the check of _handle is trusted, the dedupe key is not UNIQUE.
ApplyUnchecked(c) ==
    /\ consumer[c].pc = "apply"
    /\ processed' = Append(processed, Event(c))
    /\ proj_cash' = proj_cash + CashDelta(Event(c))
    /\ proj_positions' = [proj_positions EXCEPT ![Trades[Event(c)].symbol] = PositionAfter(Event(c))]
    /\ consumer' = [consumer EXCEPT ![c].pc = "ack"]
    /\ UNCHANGED <<sent, redis, relay, phase, kills, overlapped>>

\* store.apply: dedupe row, cash and position in one transaction.
Apply(c) ==
    /\ consumer[c].pc = "apply" /\ ~Contains(processed, Event(c))
    /\ processed' = Append(processed, Event(c))
    /\ proj_cash' = proj_cash + CashDelta(Event(c))
    /\ proj_positions' = [proj_positions EXCEPT ![Trades[Event(c)].symbol] = PositionAfter(Event(c))]
    /\ consumer' = [consumer EXCEPT ![c].pc = "ack"]
    /\ UNCHANGED <<sent, redis, relay, phase, kills, overlapped>>

\* The dedupe row is there since the check: rolled back.
ApplyConflict(c) ==
    /\ consumer[c].pc = "apply" /\ Contains(processed, Event(c))
    /\ consumer' = [consumer EXCEPT ![c].pc = "ack"]
    /\ UNCHANGED <<database, redis, relay, phase, kills, overlapped>>

\* Mutated form: the next entry of a batch is handled without asking for one.
XAckAndNext(c) ==
    /\ consumer[c].pc = "ack"
    /\ pending' = pending \ {Head(consumer[c].batch)}
    /\ consumer' = [consumer EXCEPT ![c].batch = Tail(@), ![c].pc = "check"]
    /\ UNCHANGED <<database, stream, cursor, relay, phase, kills, overlapped>>

\* XACK, and on to the rest of the batch, the read, or the next cycle.
XAck(c) ==
    /\ consumer[c].pc = "ack"
    /\ pending' = pending \ {Head(consumer[c].batch)}
    /\ LET rest == Tail(consumer[c].batch)
       IN  consumer' = [consumer EXCEPT ![c].batch = rest,
                                        ![c].pc = IF rest # << >> THEN "check"
                                                  ELSE IF consumer[c].task = "reclaim" THEN "read"
                                                  ELSE "reclaim"]
    /\ UNCHANGED <<database, stream, cursor, relay, phase, kills, overlapped>>

KillConsumer(c) ==
    /\ Running(c)
    /\ kills.relay + kills.consumer < MaxKills
    /\ kills' = [kills EXCEPT !.consumer = @ + 1]
    /\ consumer' = [consumer EXCEPT ![c] = ConsumerDown]
    /\ UNCHANGED <<database, redis, relay, phase, overlapped>>

-----------------------------------------------------------------------------

\* What a process does once it runs.
RelayStep == XAdd \/ MarkSent \/ RelayDrained

ConsumerStep(c) ==
    \/ Reclaim(c) \/ ReadNew(c) \/ ReadNothing(c) \/ Poll(c) \/ Exit(c)
    \/ Check(c) \/ Apply(c) \/ ApplyConflict(c) \/ XAck(c)

Next ==
    \/ StartRelay \/ RelayStep \/ KillRelay
    \/ \E c \in Consumers : StartConsumer(c) \/ ConsumerStep(c) \/ KillConsumer(c)

Spec == Init /\ [][Next]_vars

-----------------------------------------------------------------------------
(* Properties *)

\* The database, the stream and the processes keep their shapes: a consumer in
\* a batch has an entry the group delivered, a relay about to mark has a row.
TypeOK ==
    /\ sent \subseteq Rows
    /\ processed \in Seq(Rows)
    /\ proj_cash \in Int /\ proj_positions \in [Symbols -> Int]
    /\ stream \in Seq(Rows) /\ cursor \in {NoGroup} \cup 0..Len(stream)
    /\ pending \subseteq 1..cursor
    /\ relay.pc \in {"down", "publish", "mark"} /\ relay.batch \in Seq(Rows)
    /\ relay.pc = "mark" => relay.batch # << >>
    /\ phase \in {"relay", "consumer", "done"}
    /\ \A c \in Consumers :
        /\ consumer[c].pc \in {"down", "reclaim", "read", "poll", "check", "apply", "ack"}
        /\ ToSet(consumer[c].batch) \subseteq 1..cursor
        /\ consumer[c].pc \in {"check", "apply", "ack"} => consumer[c].batch # << >>

\* A killed relay costs at most one repeated entry, which follows its first
\* copy at once: the stream repeats rows but never reorders or skips one, a row
\* marked sent is on it, and a relay that exits 0 has left nothing unsent
\* (run_proof.py:186-188: "restart must re-publish exactly the un-marked row").
OneDuplicatePerKill ==
    /\ \A i \in 1..Len(stream) - 1 : stream[i + 1] \in {stream[i], stream[i] + 1}
    /\ stream # << >> => stream[1] = 1
    /\ sent \subseteq ToSet(stream)
    /\ Len(stream) <= Cardinality(ToSet(stream)) + kills.relay
    /\ phase # "relay" => sent = Rows

\* A consumer that takes an entry from another, dies between apply and XACK, or
\* sees a repeated entry counts its event once, and the group never lets go of
\* an entry whose event is not in processed_events.
Effects == INSTANCE EffectivelyOnce WITH
    Events <- Rows,
    Garbage <- {},
    log <- stream,
    effects <- processed,
    forgotten <- (1..cursor) \ pending

CountsEachEventOnce == Effects!Spec

\* The projection is what a single delivery of the processed events gives.
\* Cash at any time; positions, which are overwritten by the last event applied,
\* as long as no two consumers were up together, since a restarted consumer
\* reclaims before it reads.  When a consumer exits 0 nothing is pending and
\* every event is in.
ProjectionIsBaseline ==
    /\ proj_cash = BaselineCash(ToSet(processed))
    /\ ~overlapped => /\ proj_positions = BaselinePositions(ToSet(processed))
                      /\ \A i \in DOMAIN processed : processed[i] = i
    /\ phase = "done" => /\ pending = {}
                           /\ ToSet(processed) = Rows

=============================================================================
