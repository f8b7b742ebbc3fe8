---------------------------- MODULE Phase5Consumer ----------------------------
(***************************************************************************)
(* Phase5PocConsumer: the worker inside ledger-core that proves idempotent *)
(* consumption of ledger.updates on the group cg:phase5-poc.  Its dedupe   *)
(* set and its projection live in memory and end with the process.         *)
(*                                                                         *)
(* An action is one Redis command or one call of handle.  Any command may  *)
(* throw, before or after Redis executed it: workOnce catches it and the   *)
(* next scheduled cycle starts over (CycleFails), memory intact.           *)
(*                                                                         *)
(* External: the stream with the group's cursor and pending entries, and   *)
(* its producer, which may publish an event again.  An entry 0 is one      *)
(* handle cannot use.  Abstracted: events are all of one account and       *)
(* symbol, numbered in posting order, so position_after is the number.     *)
(***************************************************************************)
EXTENDS StreamOrder, SequencesExt

CONSTANTS MaxEvent,      \* events 1..MaxEvent
          BatchSize,     \* ledger.consumer.batch-size
          MaxEntries,    \* bound on the stream
          MaxFaults,     \* bound on failed cycles
          MaxRestarts    \* bound on process restarts

ASSUME ConsumerAssumption ==
    /\ BatchSize \in Nat \ {0}
    /\ {MaxEvent, MaxEntries, MaxFaults, MaxRestarts} \subseteq Nat

Events == 1..MaxEvent

VARIABLES ledger, cursor, origin, pending, idle,    \* the stream and its group
          processed, positionView, handled,         \* memory: dedupe set, projection, order applied
          pc, task, batch,                          \* the scheduled cycle
          faults, restarts,
          everHandled                               \* history: events handled in any process

group == <<cursor, origin, pending, idle>>
memory == <<processed, positionView, handled>>
cycle == <<pc, task, batch>>
vars == <<ledger, group, memory, cycle, faults, restarts, everHandled>>

NoGroup == -1

Init ==
    /\ ledger = << >>
    /\ cursor = NoGroup /\ origin = NoGroup /\ pending = {} /\ idle = {}
    /\ processed = {} /\ positionView = 0 /\ handled = << >>
    /\ pc = "idle" /\ task = "reclaim" /\ batch = << >>
    /\ faults = 0 /\ restarts = 0
    /\ everHandled = {}

-----------------------------------------------------------------------------
(* The environment *)

Arrive(e) ==
    /\ Len(ledger) < MaxEntries
    /\ e > 1 => Contains(ledger, e - 1)
    /\ ledger' = Append(ledger, e)
    /\ UNCHANGED <<group, memory, cycle, faults, restarts, everHandled>>

\* A pending entry has not been delivered for min-idle-ms.
Age(i) ==
    /\ i \in pending \ idle
    /\ idle' = idle \cup {i}
    /\ UNCHANGED <<ledger, cursor, origin, pending, memory, cycle, faults, restarts, everHandled>>

StopCycle == pc' = "idle" /\ task' = "reclaim" /\ batch' = << >>

CycleFails ==
    /\ pc # "idle"
    /\ faults < MaxFaults
    /\ faults' = faults + 1
    /\ StopCycle
    /\ UNCHANGED <<ledger, group, memory, restarts, everHandled>>

Restart ==
    /\ restarts < MaxRestarts
    /\ restarts' = restarts + 1
    /\ StopCycle
    /\ processed' = {} /\ positionView' = 0 /\ handled' = << >>
    /\ UNCHANGED <<ledger, group, faults, everHandled>>

-----------------------------------------------------------------------------
(* workOnce *)

\* ensureGroup: a missing group is created at the stream's end.
EnsureGroup ==
    /\ pc = "idle"
    /\ cursor' = IF cursor = NoGroup THEN Len(ledger) ELSE cursor
    /\ origin' = IF cursor = NoGroup THEN Len(ledger) ELSE origin
    /\ pc' = "reclaim"
    /\ UNCHANGED <<ledger, pending, idle, memory, task, batch, faults, restarts, everHandled>>

\* Mutated form: no reclaim.
ListNothing ==
    /\ pc = "reclaim"
    /\ task' = "reclaim"
    /\ pc' = "poll"
    /\ UNCHANGED <<ledger, group, memory, batch, faults, restarts, everHandled>>

\* reclaimStale lists the first pending entries of the group and keeps those
\* idle long enough.
ListStale ==
    /\ pc = "reclaim"
    /\ batch' \in Ascending(Lowest(pending, BatchSize) \cap idle)
    /\ task' = "reclaim"
    /\ pc' = IF batch' = << >> THEN "poll" ELSE "claim"
    /\ UNCHANGED <<ledger, group, memory, faults, restarts, everHandled>>

\* claim: the entry is delivered to this consumer once more.  It is never taken
\* away before that, there being one consumer.
Claim ==
    /\ pc = "claim"
    /\ idle' = idle \ {Head(batch)}
    /\ pc' = "handle"
    /\ UNCHANGED <<ledger, cursor, origin, pending, memory, task, batch, faults, restarts,
                   everHandled>>

\* How many entries XREADGROUP ">" delivers.
New == Min({BatchSize, Len(ledger) - cursor})

\* Mutated form: entries are acknowledged as they are read.
PollNoAck ==
    /\ pc = "poll"
    /\ batch' = [i \in 1..New |-> cursor + i]
    /\ cursor' = cursor + New
    /\ pc' = IF New = 0 THEN "idle" ELSE "handle"
    /\ task' = "poll"
    /\ UNCHANGED <<ledger, origin, pending, idle, memory, faults, restarts, everHandled>>

\* pollOnce: XREADGROUP ">".
Poll ==
    /\ pc = "poll"
    /\ batch' = [i \in 1..New |-> cursor + i]
    /\ cursor' = cursor + New
    /\ pending' = pending \cup ToSet(batch')
    /\ pc' = IF New = 0 THEN "idle" ELSE "handle"
    /\ task' = "poll"
    /\ UNCHANGED <<ledger, origin, idle, memory, faults, restarts, everHandled>>

\* Mutated forms: no dedupe set; a duplicate still updates the view.
HandleAll ==
    LET e == ledger[Head(batch)]
    IN  /\ pc = "handle"
        /\ processed' = IF e # 0 THEN processed \cup {e} ELSE processed
        /\ positionView' = IF e # 0 THEN e ELSE positionView
        /\ handled' = IF e # 0 THEN Append(handled, e) ELSE handled
        /\ everHandled' = IF e # 0 THEN everHandled \cup {e} ELSE everHandled
        /\ pc' = "ack"
        /\ UNCHANGED <<ledger, group, task, batch, faults, restarts>>

HandleOverwrites ==
    LET e == ledger[Head(batch)]
        fresh == e # 0 /\ e \notin processed
    IN  /\ pc = "handle"
        /\ processed' = IF fresh THEN processed \cup {e} ELSE processed
        /\ positionView' = IF e # 0 THEN e ELSE positionView
        /\ handled' = IF fresh THEN Append(handled, e) ELSE handled
        /\ everHandled' = IF fresh THEN everHandled \cup {e} ELSE everHandled
        /\ pc' = "ack"
        /\ UNCHANGED <<ledger, group, task, batch, faults, restarts>>

\* handle: an event not in the dedupe set updates the view; any other entry
\* is skipped.  Events without account_id or symbol, which would count and leave
\* the view alone, are not written by ledger-core.
Handle ==
    LET e == ledger[Head(batch)]
        fresh == e # 0 /\ e \notin processed
    IN  /\ pc = "handle"
        /\ processed' = IF fresh THEN processed \cup {e} ELSE processed
        /\ positionView' = IF fresh THEN e ELSE positionView
        /\ handled' = IF fresh THEN Append(handled, e) ELSE handled
        /\ everHandled' = IF fresh THEN everHandled \cup {e} ELSE everHandled
        /\ pc' = "ack"
        /\ UNCHANGED <<ledger, group, task, batch, faults, restarts>>

Ack ==
    /\ pc = "ack"
    /\ pending' = pending \ {Head(batch)}
    /\ idle' = idle \ {Head(batch)}
    /\ batch' = Tail(batch)
    /\ pc' = IF Len(batch) > 1 THEN (IF task = "reclaim" THEN "claim" ELSE "handle")
             ELSE IF task = "reclaim" THEN "poll" ELSE "idle"
    /\ UNCHANGED <<ledger, cursor, origin, memory, task, faults, restarts, everHandled>>

WorkStep == EnsureGroup \/ ListStale \/ Claim \/ Poll \/ Handle \/ Ack

Next ==
    \/ \E e \in Events \cup {0} : Arrive(e)
    \/ \E i \in 1..MaxEntries : Age(i)
    \/ WorkStep
    \/ CycleFails \/ Restart

Spec == Init /\ [][Next]_vars

\* The enabled worker is scheduled again and again, and time passes.
FairSpec == Spec /\ WF_vars(WorkStep) /\ \A i \in 1..MaxEntries : WF_vars(Age(i))

-----------------------------------------------------------------------------
(* Properties *)

Given == IF cursor = NoGroup THEN {} ELSE (origin + 1)..cursor

\* The group and the cycle keep the shapes above; a cycle in a batch works on
\* an entry that is still pending.
TypeOK ==
    /\ ledger \in Seq(Events \cup {0})
    /\ origin <= cursor /\ cursor <= Len(ledger)
    /\ pending \subseteq Given /\ idle \subseteq pending
    /\ processed = ToSet(handled)
    /\ pc \in {"claim", "handle", "ack"} => batch # << >> /\ Head(batch) \in pending

\* In one process, failed cycles, reclaims and duplicates on the stream leave
\* every event applied once, and an entry is acknowledged only when its event
\* is applied ("Consumers XACK an entry only after successful processing",
\* docs/contracts/streams/redis-streams.md).
Effects == INSTANCE EffectivelyOnce WITH
    Garbage <- {0},
    log <- ledger,
    effects <- handled,
    forgotten <- Given \ pending

AppliesOnceInOneProcess ==
    [][restarts' = restarts => Effects!Next \/ UNCHANGED Effects!vars]_vars

\* Over restarts, which forget what was applied: an acknowledged event was
\* applied by some process.
AckedWasHandled ==
    \A i \in Given \ pending : ledger[i] # 0 => ledger[i] \in everHandled

\* The first copy of an event the group was given.
FirstGiven(e) == Min({i \in Given : ledger[i] = e})

\* The view follows the stream as long as no cycle failed: after a failed
\* acknowledgement newer entries overtake the ones left pending, and the view
\* later goes back to those.
ViewFollowsStreamUntilFault ==
    faults = 0 /\ restarts = 0 =>
        \A e \in processed : FirstGiven(e) <= FirstGiven(positionView)

\* Every entry delivered to the group is acknowledged in the end.
EveryEntryAcked ==
    \A i \in 1..MaxEntries :
        (cursor # NoGroup /\ origin < i /\ i <= Len(ledger)) ~> (i \in Given /\ i \notin pending)

=============================================================================
