----------------------------- MODULE OutboxRelay -----------------------------
(***************************************************************************)
(* ledger-core's transactional outbox and its relay (OutboxRelay,          *)
(* StreamPublisher, LedgerRepository.findUnsent and markSent).             *)
(*                                                                         *)
(* A posting transaction stamps its event with created_at early            *)
(* (LedgerService.postTrade takes now before it reads anything) and makes  *)
(* the row visible at its commit, so rows need not appear in created_at    *)
(* order.  A relay is the scheduled thread of one ledger-core process:     *)
(* with one process there is one, and two while a deployment replaces it.  *)
(*                                                                         *)
(* External: Redis accepts an XADD, refuses it, or accepts it and loses    *)
(* the reply.  Stream entries are not trimmed (StreamPublisher passes no   *)
(* MAXLEN).  Bounded: the clock by MaxClock, everything that goes wrong    *)
(* (failed or ambiguous XADD, crash, failed mark) by MaxFaults.            *)
(***************************************************************************)
EXTENDS Integers, Sequences, FiniteSets

CONSTANTS Events,       \* accepted trades, by their event
          Relays,       \* ledger-core processes with a relay thread
          BatchSize,    \* ledger.stream.batch-size
          MaxClock,     \* bound on created_at
          MaxFaults     \* bound on faults

ASSUME RelayAssumption ==
    /\ BatchSize \in Nat \ {0}
    /\ MaxClock \in Nat
    /\ MaxFaults \in Nat
    /\ IsFiniteSet(Events)

VARIABLES clock, created, row,      \* outbox_events and its transactions
          stream,                   \* ledger.updates
          enabled, pc, batch,       \* the relays
          faults,
          seen                      \* history: rows committed when a relay last polled

outbox == <<clock, created, row>>
relay == <<pc, batch, seen>>
vars == <<outbox, stream, enabled, relay, faults>>

Published(e) == \E i \in DOMAIN stream : stream[i] = e
Committed == {e \in Events : row[e] \in {"unsent", "sent"}}
\* Mutated form: the poll reads uncommitted rows.
UnsentDirty == {e \in Events : row[e] \in {"open", "unsent"}}

Unsent == {e \in Events : row[e] = "unsent"}

Init ==
    /\ clock = 0
    /\ created = [e \in Events |-> 0]
    /\ row = [e \in Events |-> "none"]
    /\ stream = << >>
    /\ enabled \in [Relays -> BOOLEAN]
    /\ pc = [r \in Relays |-> "idle"]
    /\ batch = [r \in Relays |-> << >>]
    /\ faults = 0
    /\ seen = [r \in Relays |-> {}]

-----------------------------------------------------------------------------
(* Posting transactions *)

Tick ==
    /\ clock < MaxClock
    /\ clock' = clock + 1
    /\ UNCHANGED <<created, row, stream, enabled, relay, faults>>

Stamp(e) ==
    /\ row[e] = "none"
    /\ row' = [row EXCEPT ![e] = "open"]
    /\ created' = [created EXCEPT ![e] = clock]
    /\ UNCHANGED <<clock, stream, enabled, relay, faults>>

CommitRow(e) ==
    /\ row[e] = "open"
    /\ row' = [row EXCEPT ![e] = "unsent"]
    /\ UNCHANGED <<clock, created, stream, enabled, relay, faults>>

AbortRow(e) ==
    /\ row[e] = "open"
    /\ row' = [row EXCEPT ![e] = "aborted"]
    /\ UNCHANGED <<clock, created, stream, enabled, relay, faults>>

-----------------------------------------------------------------------------
(* The relay *)

\* Mutated form: no ORDER BY created_at.
AnyUnsent(n) ==
    LET size == IF Cardinality(Unsent) < n THEN Cardinality(Unsent) ELSE n
    IN  {s \in [1..size -> Unsent] : \A i, j \in 1..size : s[i] = s[j] => i = j}

\* SELECT ... WHERE sent = FALSE ORDER BY created_at LIMIT n: rows with equal
\* stamps come in any order.
OldestUnsent(n) ==
    LET size == IF Cardinality(Unsent) < n THEN Cardinality(Unsent) ELSE n
    IN  {s \in [1..size -> Unsent] :
            /\ \A i, j \in 1..size : s[i] = s[j] => i = j
            /\ \A i, j \in 1..size : i < j => created[s[i]] <= created[s[j]]
            /\ \A e \in Unsent, j \in 1..size :
                created[e] < created[s[j]] => \E i \in 1..size : s[i] = e}

\* Mutated form: a disabled relay drains too.
PollAlways(r) ==
    /\ pc[r] = "idle"
    /\ Unsent # {}
    /\ \E s \in OldestUnsent(BatchSize) : batch' = [batch EXCEPT ![r] = s]
    /\ pc' = [pc EXCEPT ![r] = "publish"]
    /\ seen' = [seen EXCEPT ![r] = Committed]
    /\ UNCHANGED <<outbox, stream, enabled, faults>>

\* relayBatch reads its batch; disabled, it returns before reading.
Poll(r) ==
    /\ pc[r] = "idle"
    /\ enabled[r]
    /\ Unsent # {}
    /\ \E s \in OldestUnsent(BatchSize) : batch' = [batch EXCEPT ![r] = s]
    /\ pc' = [pc EXCEPT ![r] = "publish"]
    /\ seen' = [seen EXCEPT ![r] = Committed]
    /\ UNCHANGED <<outbox, stream, enabled, faults>>

\* publisher.publish returns: XADD appended the entry (a disabled publisher
\* would return without it).
Publish(r) ==
    /\ pc[r] = "publish"
    /\ stream' = IF enabled[r] THEN Append(stream, Head(batch[r])) ELSE stream
    /\ pc' = [pc EXCEPT ![r] = "mark"]
    /\ UNCHANGED <<outbox, enabled, batch, faults, seen>>

EndCycle(r) ==
    /\ pc' = [pc EXCEPT ![r] = "idle"]
    /\ batch' = [batch EXCEPT ![r] = << >>]

Fault == faults < MaxFaults /\ faults' = faults + 1

\* Mutated form: a failed publication is marked sent like a good one.
PublishFailsSent(r) ==
    /\ pc[r] = "publish"
    /\ Fault
    /\ stream' \in {stream, Append(stream, Head(batch[r]))}
    /\ row' = [row EXCEPT ![Head(batch[r])] = "sent"]
    /\ EndCycle(r)
    /\ UNCHANGED <<clock, created, enabled, seen>>

\* publisher.publish throws: the batch stops, this row and the later ones
\* stay unsent; the entry may or may not have reached the stream.
PublishFails(r) ==
    /\ pc[r] = "publish"
    /\ Fault
    /\ stream' \in {stream, Append(stream, Head(batch[r]))}
    /\ EndCycle(r)
    /\ UNCHANGED <<outbox, enabled, seen>>

\* Mutated forms: the loop does not end with the batch; one mark covers the
\* whole batch.
MarkRunsOn(r) ==
    /\ pc[r] = "mark"
    /\ row' = [row EXCEPT ![Head(batch[r])] = "sent"]
    /\ batch' = [batch EXCEPT ![r] = Tail(@)]
    /\ pc' = [pc EXCEPT ![r] = "publish"]
    /\ UNCHANGED <<clock, created, stream, enabled, faults, seen>>

MarkBatch(r) ==
    /\ pc[r] = "mark"
    /\ row' = [e \in Events |-> IF \E i \in DOMAIN batch[r] : batch[r][i] = e
                                THEN "sent" ELSE row[e]]
    /\ EndCycle(r)
    /\ UNCHANGED <<clock, created, stream, enabled, faults, seen>>

Mark(r) ==
    /\ pc[r] = "mark"
    /\ row' = [row EXCEPT ![Head(batch[r])] = "sent"]
    /\ batch' = [batch EXCEPT ![r] = Tail(@)]
    /\ pc' = [pc EXCEPT ![r] = IF Len(batch[r]) = 1 THEN "idle" ELSE "publish"]
    /\ UNCHANGED <<clock, created, stream, enabled, faults, seen>>

\* markSent throws: drainScheduled catches it and waits for the next poll.
MarkFails(r) ==
    /\ pc[r] = "mark"
    /\ Fault
    /\ EndCycle(r)
    /\ UNCHANGED <<outbox, stream, enabled, seen>>

\* The process dies between two steps and comes back, possibly with
\* ledger.stream.enabled set differently.
Restart(r) ==
    /\ Fault
    /\ EndCycle(r)
    /\ \E on \in BOOLEAN : enabled' = [enabled EXCEPT ![r] = on]
    /\ UNCHANGED <<outbox, stream, seen>>

RelayStep(r) == Poll(r) \/ Publish(r) \/ Mark(r)

Next ==
    \/ Tick
    \/ \E e \in Events : Stamp(e) \/ CommitRow(e) \/ AbortRow(e)
    \/ \E r \in Relays :
        \/ RelayStep(r)
        \/ PublishFails(r) \/ MarkFails(r) \/ Restart(r)

Spec == Init /\ [][Next]_vars

\* fixedDelay scheduling runs every enabled relay again and again, and a
\* started cycle goes on; nothing obliges a trade to be posted or a fault to
\* happen.
FairSpec == Spec /\ \A r \in Relays : WF_vars(RelayStep(r))

-----------------------------------------------------------------------------
(* Properties *)

\* The outbox, the stream and the relays keep the shapes above, and a relay
\* that is publishing or marking has a row to work on.
TypeOK ==
    /\ clock \in 0..MaxClock
    /\ created \in [Events -> 0..MaxClock]
    /\ row \in [Events -> {"none", "open", "aborted", "unsent", "sent"}]
    /\ stream \in Seq(Events)
    /\ enabled \in [Relays -> BOOLEAN]
    /\ pc \in [Relays -> {"idle", "publish", "mark"}]
    /\ batch \in [Relays -> Seq(Events)]
    /\ faults \in 0..MaxFaults
    /\ seen \in [Relays -> SUBSET Events]
    /\ \A r \in Relays : pc[r] # "idle" => batch[r] # << >>

\* publish-then-mark-sent: whatever fails or crashes, a row is only ever
\* marked sent when its event is on the stream, so no event is dropped
\* (OutboxRelay's class comment, LedgerStreamProperties.enabled).
SentIsPublished == \A e \in Events : row[e] = "sent" => Published(e)

\* The stream announces nothing that did not commit.
PublishedIsCommitted == \A i \in DOMAIN stream : stream[i] \in Committed

\* A relay never lets an event jump ahead of an older one it could see: all
\* rows with an earlier created_at that were committed when it polled are on
\* the stream before it appends.
PublishesOldestFirst ==
    [][\A r \in Relays :
        Publish(r) \/ PublishFails(r) =>
            \A e \in seen[r] :
                stream' # stream /\ created[e] < created[stream'[Len(stream')]] => Published(e)
      ]_vars

\* Every committed event gets to the stream, if some relay stays enabled.
EventuallyPublished ==
    (\E r \in Relays : <>[]enabled[r]) =>
        \A e \in Events : row[e] = "unsent" ~> Published(e)

\* The relay keeps the at-least-once contract.
Contract == INSTANCE AtLeastOnce WITH
    committed <- Committed,
    log <- stream,
    settled <- {e \in Events : row[e] = "sent"}

KeepsContract == Contract!Spec

-----------------------------------------------------------------------------
(* The inductive invariant *)

\* What relays hold was committed when they read it.
BatchInv ==
    \A r \in Relays :
        /\ \A i \in DOMAIN batch[r] : batch[r][i] \in Committed
        /\ seen[r] \subseteq Committed

\* A relay between poll and mark is enabled, and marks what it published.
MarkInv ==
    \A r \in Relays :
        /\ pc[r] # "idle" => enabled[r]
        /\ pc[r] = "mark" => Published(Head(batch[r]))

\* What a relay saw and must not be overtaken is published or earlier in its batch.
OrderInv ==
    \A r \in Relays : \A e \in seen[r] : \A j \in DOMAIN batch[r] :
        created[e] < created[batch[r][j]]
            => Published(e) \/ \E i \in 1..(j - 1) : batch[r][i] = e

\* Why relayBatch, publish and markSent keep the promises above over all
\* interleavings, failures and restarts.
Inductive == BatchInv /\ MarkInv /\ OrderInv /\ SentIsPublished /\ PublishedIsCommitted

-----------------------------------------------------------------------------
(* What the documentation says and the relay does not keep *)

\* docs/contracts/streams/redis-streams.md:83-84: "a later ledger event is never
\* marked sent (nor allowed to jump ahead) while an earlier one is still
\* unpublished".
NeverAheadOfEarlier ==
    \A e, f \in Events :
        row[f] = "sent" /\ row[e] = "unsent" /\ created[e] < created[f] => Published(e)

=============================================================================
