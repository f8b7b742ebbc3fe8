------------------------- MODULE Phase5ConsumerProofs -------------------------
(***************************************************************************)
(* Theorems about Phase5Consumer, for any number of events, entries, failed *)
(* cycles and restarts and any batch size: an acknowledged event was       *)
(* applied, one process applies an event once, and without a failed cycle  *)
(* its view follows the stream.                                            *)
(***************************************************************************)
EXTENDS Phase5Consumer, FiniteLemmas, TLAPS

-----------------------------------------------------------------------------
(* The inductive invariant *)

\* A cycle works on an ascending batch of entries, all still pending, and none
\* is left between its tasks.
CycleInv ==
    /\ batch \in Seq(Nat)
    /\ \A i, j \in DOMAIN batch : i < j => batch[i] < batch[j]
    /\ \A i \in DOMAIN batch : batch[i] \in pending
    /\ pc \in {"idle", "reclaim", "poll", "claim", "handle", "ack"}
    /\ pc \in {"claim", "handle", "ack"} <=> batch # << >>
    /\ pc = "claim" => task = "reclaim"
    /\ task \in {"reclaim", "poll"}
    /\ cursor \in Nat \cup {NoGroup} /\ origin \in Nat \cup {NoGroup}
    /\ cursor = NoGroup => pc = "idle" /\ origin = NoGroup
    /\ cursor # NoGroup => origin # NoGroup

\* What a process applied it applied once, and an entry about to be
\* acknowledged is not left without effect.
MemoryInv ==
    /\ handled \in Seq(Events)
    /\ everHandled \subseteq Events
    /\ processed \subseteq everHandled
    /\ pc = "ack" => ledger[Head(batch)] \in processed \cup {0}

\* The position up to which entries are dealt with, in a process that never
\* failed.
Done == cursor - Len(batch) + IF pc = "ack" THEN 1 ELSE 0

\* Such a process takes the entries one after the other and has nothing to
\* reclaim.
OrderInv ==
    /\ pending = {batch[i] : i \in DOMAIN batch}
    /\ \A i \in DOMAIN batch : batch[i] = cursor - Len(batch) + i
    /\ processed = {ledger[i] : i \in {j \in Given : j <= Done}} \ {0}
    /\ processed # {} => positionView \in processed

\* Order holds as long as no cycle has failed and no process has restarted; the
\* other parts always hold.
Inductive ==
    /\ CycleInv /\ MemoryInv
    /\ faults \in Nat /\ restarts \in Nat
    /\ faults = 0 /\ restarts = 0 => OrderInv
    /\ AckedWasHandled /\ ViewFollowsStreamUntilFault

\* What every reachable state satisfies.
IInv == TypeOK /\ Inductive

-----------------------------------------------------------------------------
(* What an inductive state looks like *)

\* The group's entries are entries of the stream, and what is on the stream is
\* an event or 0.
LEMMA GivenType ==
    ASSUME ConsumerAssumption, IInv
    PROVE  /\ cursor \in Nat \cup {NoGroup} /\ origin \in Nat \cup {NoGroup}
           /\ Len(ledger) \in Nat /\ DOMAIN ledger = 1..Len(ledger)
           /\ Given \subseteq DOMAIN ledger
           /\ pending \subseteq Given
           /\ \A i \in DOMAIN ledger : ledger[i] \in Events \cup {0}
           /\ \A i \in Given : i \in Nat /\ i > origin /\ i <= cursor /\ cursor # NoGroup
  <1>1. ledger \in Seq(Events \cup {0})
    BY DEF IInv, TypeOK
  <1>2. Len(ledger) \in Nat /\ DOMAIN ledger = 1..Len(ledger)
        /\ \A i \in DOMAIN ledger : ledger[i] \in Events \cup {0}
    <2> DEFINE S == Events \cup {0}
    <2> HIDE DEF S
    <2> QED
      BY <1>1, SeqFacts DEF S
  <1>3. /\ cursor \in Nat \cup {NoGroup} /\ origin \in Nat \cup {NoGroup}
        /\ cursor <= Len(ledger) /\ pending \subseteq Given
        /\ cursor # NoGroup => origin # NoGroup
    BY DEF IInv, TypeOK, Inductive, CycleInv
  <1> QED
    BY <1>2, <1>3 DEF Given, NoGroup

\* The entry at hand.
LEMMA HeadEntry ==
    ASSUME ConsumerAssumption, IInv, pc \in {"claim", "handle", "ack"}
    PROVE  /\ batch \in Seq(Nat) /\ batch # << >> /\ 1 \in DOMAIN batch /\ Head(batch) = batch[1]
           /\ Head(batch) \in pending /\ Head(batch) \in Given /\ Head(batch) \in DOMAIN ledger
           /\ ledger[Head(batch)] \in Events \cup {0}
           /\ cursor # NoGroup
  <1>1. batch \in Seq(Nat) /\ batch # << >> /\ \A i \in DOMAIN batch : batch[i] \in pending
    BY DEF IInv, Inductive, CycleInv
  <1>2. 1 \in DOMAIN batch /\ Head(batch) = batch[1]
    BY <1>1, SeqFacts
  <1> QED
    BY <1>1, <1>2, GivenType

-----------------------------------------------------------------------------
(* Types *)

\* The initial states have the types.
LEMMA InitType == ConsumerAssumption /\ Init => IInv
  <1> SUFFICES ASSUME ConsumerAssumption, Init
               PROVE  IInv
    OBVIOUS
  <1> USE DEF Init
  <1>1. TypeOK
    BY DEF TypeOK, Given, NoGroup, ToSet
  <1>2. CycleInv
    BY DEF CycleInv, NoGroup
  <1>3. MemoryInv
    BY DEF MemoryInv
  <1>4. OrderInv
    BY DEF OrderInv, Given, Done, NoGroup
  <1>5. AckedWasHandled /\ ViewFollowsStreamUntilFault
    BY DEF AckedWasHandled, ViewFollowsStreamUntilFault, Given, NoGroup
  <1> QED
    BY <1>1, <1>2, <1>3, <1>4, <1>5 DEF IInv, Inductive

-----------------------------------------------------------------------------
(* The view *)

\* The first position at which L has e.
LEMMA FirstPosition ==
    ASSUME NEW G \in SUBSET Nat, NEW L, NEW e, NEW j \in G, L[j] = e
    PROVE  LET m == Min({i \in G : L[i] = e})
           IN  m \in G /\ L[m] = e /\ \A i \in G : L[i] = e => m <= i
  <1> DEFINE S == {i \in G : L[i] = e}
  <1>1. S \in SUBSET Nat /\ S # {}
    OBVIOUS
  <1>2. Min(S) \in S /\ \A i \in S : Min(S) <= i
    <2> HIDE DEF S
    <2> QED
      BY <1>1, LeastNumber
  <1> QED
    BY <1>2

\* Entries the group is given later do not come before those it was given.
Later == /\ Given \subseteq Given' /\ Given' \subseteq Nat
         /\ \A i \in Given' \ Given, j \in Given : j < i
         /\ \A i \in Given : ledger'[i] = ledger[i]

\* The first copy of an event the group was given.
LEMMA FirstFacts ==
    ASSUME ConsumerAssumption, IInv, NEW e, NEW j \in Given, ledger[j] = e
    PROVE  /\ FirstGiven(e) \in Given /\ FirstGiven(e) \in Nat /\ ledger[FirstGiven(e)] = e
           /\ \A i \in Given : ledger[i] = e => FirstGiven(e) <= i
  <1>1. Given \in SUBSET Nat
    BY GivenType
  <1> DEFINE G == Given
  <1>2. G \in SUBSET Nat /\ FirstGiven(e) = Min({i \in G : ledger[i] = e})
    BY <1>1 DEF FirstGiven
  <1> HIDE DEF G
  <1>3. j \in G
    BY DEF G
  <1>4. /\ FirstGiven(e) \in G /\ ledger[FirstGiven(e)] = e
        /\ \A i \in G : ledger[i] = e => FirstGiven(e) <= i
    BY <1>2, <1>3, FirstPosition
  <1> QED
    BY <1>1, <1>4 DEF G

\* They do not change which copy of an event came first.
LEMMA FirstKept ==
    ASSUME ConsumerAssumption, IInv, Later, NEW e, NEW j \in Given, ledger[j] = e
    PROVE  FirstGiven(e)' = FirstGiven(e)
  <1>1. /\ FirstGiven(e) \in Given /\ ledger[FirstGiven(e)] = e
        /\ \A i \in Given : ledger[i] = e => FirstGiven(e) <= i
    BY FirstFacts
  <1>2. /\ FirstGiven(e)' \in Given' /\ ledger'[FirstGiven(e)'] = e
        /\ \A i \in Given' : ledger'[i] = e => FirstGiven(e)' <= i
    <2>1. Given' \in SUBSET Nat /\ j \in Given' /\ ledger'[j] = e
      BY DEF Later
    <2>2. FirstGiven(e)' = Min({i \in Given' : ledger'[i] = e})
      BY DEF FirstGiven
    <2> DEFINE G == Given'
               L == ledger'
    <2>3. G \in SUBSET Nat /\ j \in G /\ L[j] = e
      BY <2>1
    <2>4. FirstGiven(e)' = Min({i \in G : L[i] = e})
      BY <2>2
    <2>5. /\ FirstGiven(e)' \in G /\ L[FirstGiven(e)'] = e
          /\ \A i \in G : L[i] = e => FirstGiven(e)' <= i
      <3> HIDE DEF G, L
      <3> QED
        BY <2>3, <2>4, FirstPosition
    <2> QED
      BY <2>5
  <1> DEFINE m == FirstGiven(e)
             n == FirstGiven(e)'
  <1>3. m \in Nat /\ n \in Nat
    BY <1>1, <1>2 DEF Later
  <1>4. n <= m
    BY <1>1, <1>2 DEF Later
  <1>5. n \in Given
    <2> SUFFICES ASSUME n \notin Given
                 PROVE  FALSE
      OBVIOUS
    <2>1. m < n
      BY <1>1, <1>2 DEF Later
    <2> HIDE DEF m, n
    <2> QED
      BY <1>3, <1>4, <2>1
  <1>6. m <= n
    BY <1>1, <1>2, <1>5 DEF Later
  <1> HIDE DEF m, n
  <1>7. m = n
    BY <1>3, <1>4, <1>6
  <1> QED
    BY <1>7 DEF m, n

\* In a process that never failed, an event applied was given and dealt with.
LEMMA ProcessedGiven ==
    ASSUME ConsumerAssumption, IInv, OrderInv, NEW e \in processed
    PROVE  \E j \in Given : j <= Done /\ ledger[j] = e
  BY DEF OrderInv

\* A step that neither applies an event nor forgets one keeps the view behind
\* the stream.
LEMMA ViewKept ==
    ASSUME ConsumerAssumption, IInv, Later, UNCHANGED <<processed, positionView>>,
           faults' = 0 => faults = 0, restarts' = 0 => restarts = 0
    PROVE  ViewFollowsStreamUntilFault'
  <1> SUFFICES ASSUME faults = 0, restarts = 0, NEW e \in processed
               PROVE  FirstGiven(e)' <= FirstGiven(positionView)'
    BY DEF ViewFollowsStreamUntilFault
  <1>1. OrderInv /\ FirstGiven(e) <= FirstGiven(positionView) /\ positionView \in processed
    BY DEF IInv, Inductive, ViewFollowsStreamUntilFault, OrderInv
  <1>2. FirstGiven(e)' = FirstGiven(e)
    BY <1>1, ProcessedGiven, FirstKept
  <1>3. \A v : v = positionView => FirstGiven(v)' = FirstGiven(v)
    BY <1>1, ProcessedGiven, FirstKept
  <1>4. FirstGiven(positionView)' = FirstGiven(positionView)
    <2>1. positionView' = positionView
      OBVIOUS
    <2> QED
      BY <1>3, <2>1 DEF FirstGiven
  <1> QED
    BY <1>1, <1>2, <1>4

\* Nothing the group holds changes.
LEMMA NothingLater ==
    ASSUME ConsumerAssumption, IInv, UNCHANGED <<ledger, cursor, origin>>
    PROVE  Later
  <1>1. Given' = Given /\ Given \subseteq Nat
    BY GivenType DEF Given, NoGroup
  <1> QED
    BY <1>1 DEF Later

-----------------------------------------------------------------------------
(* The environment's steps *)

\* Another entry on the stream.
LEMMA ArriveInv ==
    ASSUME ConsumerAssumption, IInv, NEW e \in Events \cup {0}, Arrive(e)
    PROVE  IInv'
  <1> USE DEF Arrive, group, memory, cycle
  <1> DEFINE S == Events \cup {0}
  <1>1. /\ ledger' \in Seq(S) /\ Len(ledger') = Len(ledger) + 1
        /\ \A i \in DOMAIN ledger : ledger'[i] = ledger[i]
    <2>1. ledger \in Seq(S) /\ e \in S /\ ledger' = Append(ledger, e)
      BY DEF IInv, TypeOK
    <2> HIDE DEF S
    <2> QED
      BY <2>1, SeqFacts
  <1>2. Given' = Given /\ Given \subseteq DOMAIN ledger /\ Given \subseteq Nat
    BY GivenType DEF Given
  <1>3. TypeOK'
    <2>1. cursor' <= Len(ledger')
      BY <1>1, GivenType DEF IInv, TypeOK, NoGroup
    <2> QED
      BY <1>1, <1>2, <2>1 DEF IInv, TypeOK
  <1>4. CycleInv'
    BY DEF IInv, Inductive, CycleInv
  <1>5. MemoryInv'
    <2>1. pc = "ack" => ledger'[Head(batch)] = ledger[Head(batch)]
      BY <1>1, HeadEntry
    <2> QED
      BY <2>1 DEF IInv, Inductive, MemoryInv
  <1>6. faults' = 0 /\ restarts' = 0 => OrderInv'
    <2>1. \A j \in Given : ledger'[j] = ledger[j]
      BY <1>1, <1>2
    <2> QED
      BY <1>2, <2>1 DEF IInv, Inductive, OrderInv, Done
  <1>7. AckedWasHandled'
    BY <1>1, <1>2 DEF IInv, Inductive, AckedWasHandled
  <1>8. ViewFollowsStreamUntilFault'
    <2>1. Later
      BY <1>1, <1>2 DEF Later
    <2> QED
      BY <2>1, ViewKept
  <1> QED
    BY <1>3, <1>4, <1>5, <1>6, <1>7, <1>8 DEF IInv, Inductive

\* Time passes for a pending entry.
LEMMA AgeInv ==
    ASSUME ConsumerAssumption, IInv, NEW i \in 1..MaxEntries, Age(i)
    PROVE  IInv'
  <1> USE DEF Age, memory, cycle
  <1>1. Given' = Given
    BY DEF Given
  <1>2. TypeOK'
    BY <1>1 DEF IInv, TypeOK
  <1>3. CycleInv' /\ MemoryInv'
    BY DEF IInv, Inductive, CycleInv, MemoryInv
  <1>4. faults' = 0 /\ restarts' = 0 => OrderInv'
    BY <1>1 DEF IInv, Inductive, OrderInv, Done
  <1>5. AckedWasHandled'
    BY <1>1 DEF IInv, Inductive, AckedWasHandled
  <1>6. ViewFollowsStreamUntilFault'
    BY NothingLater, ViewKept
  <1> QED
    BY <1>2, <1>3, <1>4, <1>5, <1>6 DEF IInv, Inductive

\* A cycle is given up, with the process or without it.
LEMMA StopInv ==
    ASSUME ConsumerAssumption, IInv, CycleFails \/ Restart
    PROVE  IInv'
  <1> USE DEF group, memory
  <1>1. StopCycle /\ UNCHANGED <<ledger, group, everHandled>>
    BY DEF CycleFails, Restart
  <1>2. Given' = Given
    BY <1>1 DEF Given
  <1>3. \/ UNCHANGED memory
        \/ processed' = {} /\ positionView' = 0 /\ handled' = << >>
    BY DEF CycleFails, Restart
  <1>4. /\ faults' \in Nat /\ restarts' \in Nat
        /\ ~(faults' = 0 /\ restarts' = 0)
    BY DEF CycleFails, Restart, IInv, Inductive
  <1>5. TypeOK'
    <2>1. processed' = ToSet(handled')
      BY <1>3 DEF IInv, TypeOK, ToSet
    <2> QED
      BY <1>1, <1>2, <2>1 DEF StopCycle, IInv, TypeOK
  <1>6. CycleInv'
    BY <1>1 DEF StopCycle, IInv, Inductive, CycleInv
  <1>7. MemoryInv'
    <2>1. pc' # "ack" /\ everHandled' = everHandled
      BY <1>1 DEF StopCycle
    <2>2. handled' \in Seq(Events) /\ processed' \subseteq everHandled
      <3>1. << >> \in Seq(Events)
        OBVIOUS
      <3>2. handled \in Seq(Events) /\ processed \subseteq everHandled
        BY DEF IInv, Inductive, MemoryInv
      <3>3. CASE UNCHANGED memory
        BY <3>2, <3>3
      <3>4. CASE processed' = {} /\ handled' = << >>
        BY <3>1, <3>4, Zenon
      <3> QED
        BY <1>3, <3>3, <3>4
    <2>3. everHandled \subseteq Events
      BY DEF IInv, Inductive, MemoryInv
    <2> QED
      BY <2>1, <2>2, <2>3 DEF MemoryInv
  <1>8. AckedWasHandled'
    BY <1>1, <1>2 DEF IInv, Inductive, AckedWasHandled
  <1>9. ViewFollowsStreamUntilFault'
    BY <1>4 DEF ViewFollowsStreamUntilFault
  <1> QED
    BY <1>4, <1>5, <1>6, <1>7, <1>8, <1>9 DEF IInv, Inductive

-----------------------------------------------------------------------------
(* The worker's steps *)

\* The group is created at the stream's end.
LEMMA EnsureGroupInv ==
    ASSUME ConsumerAssumption, IInv, EnsureGroup
    PROVE  IInv'
  <1> USE DEF EnsureGroup, memory
  <1>1. Given' = Given
    BY GivenType DEF Given, NoGroup
  <1>2. Len(ledger) \in Nat /\ (cursor = NoGroup => Given = {}) /\ batch = << >>
    BY GivenType DEF Given, IInv, Inductive, CycleInv
  <1>3. TypeOK'
    BY <1>1, <1>2 DEF IInv, TypeOK
  <1>4. CycleInv'
    BY <1>2 DEF IInv, Inductive, CycleInv, NoGroup
  <1>5. MemoryInv'
    BY DEF IInv, Inductive, MemoryInv
  <1>6. faults' = 0 /\ restarts' = 0 => OrderInv'
    <2> SUFFICES ASSUME faults = 0, restarts = 0
                 PROVE  OrderInv'
      OBVIOUS
    <2>1. OrderInv /\ DOMAIN batch = {} /\ Len(batch) = 0
      BY <1>2 DEF IInv, Inductive
    <2>2. {j \in Given : j <= Done}' = {j \in Given : j <= Done}
      <3>1. cursor # NoGroup => Done' = Done
        BY <2>1 DEF Done, IInv, Inductive, CycleInv
      <3>2. cursor = NoGroup => Given = {}
        BY <1>2
      <3> QED
        BY <1>1, <3>1, <3>2
    <2> QED
      BY <1>2, <2>1, <2>2 DEF OrderInv
  <1>7. AckedWasHandled'
    BY <1>1 DEF IInv, Inductive, AckedWasHandled
  <1>8. ViewFollowsStreamUntilFault'
    <2>1. Later
      BY <1>1, GivenType DEF Later
    <2> QED
      BY <2>1, ViewKept
  <1> QED
    BY <1>3, <1>4, <1>5, <1>6, <1>7, <1>8 DEF IInv, Inductive

\* Pending entries in stream order are a batch.
LEMMA BatchOf ==
    ASSUME ConsumerAssumption, IInv, NEW S \in SUBSET pending, NEW q \in Ascending(S)
    PROVE  /\ q \in Seq(Nat)
           /\ \A i, j \in DOMAIN q : i < j => q[i] < q[j]
           /\ \A i \in DOMAIN q : q[i] \in S
           /\ S = {} => q = << >>
  <1>1. S \in SUBSET (1..Len(ledger)) /\ Len(ledger) \in Nat
    BY GivenType
  <1> QED
    BY <1>1, AscendingFacts

\* The stale entries are listed.
LEMMA ListStaleInv ==
    ASSUME ConsumerAssumption, IInv, ListStale
    PROVE  IInv'
  <1> USE DEF group, memory
  <1>1. /\ pc = "reclaim" /\ task' = "reclaim"
        /\ pc' = IF batch' = << >> THEN "poll" ELSE "claim"
        /\ UNCHANGED <<ledger, cursor, origin, pending, idle, processed, positionView, handled,
                       faults, restarts, everHandled>>
    BY DEF ListStale
  <1>2. PICK S \in SUBSET pending : batch' \in Ascending(S)
    <2>1. Lowest(pending, BatchSize) \cap idle \in SUBSET pending
      BY DEF Lowest
    <2> QED
      BY <2>1 DEF ListStale
  <1>3. /\ batch' \in Seq(Nat)
        /\ \A i, j \in DOMAIN batch' : i < j => batch'[i] < batch'[j]
        /\ \A i \in DOMAIN batch' : batch'[i] \in S
        /\ S = {} => batch' = << >>
    BY <1>2, BatchOf
  <1>4. batch = << >> /\ cursor # NoGroup
    BY <1>1 DEF IInv, Inductive, CycleInv
  <1>5. Given' = Given
    BY <1>1 DEF Given
  <1>6. batch' # << >> => 1 \in DOMAIN batch' /\ Head(batch') = batch'[1]
    <2> DEFINE q == batch'
    <2>1. q \in Seq(Nat)
      BY <1>3
    <2> HIDE DEF q
    <2>2. q # << >> => 1 \in DOMAIN q /\ Head(q) = q[1]
      BY <2>1, SeqFacts
    <2> QED
      BY <2>2 DEF q
  <1>7. TypeOK'
    BY <1>1, <1>2, <1>3, <1>5, <1>6 DEF IInv, TypeOK
  <1>8. CycleInv'
    BY <1>1, <1>2, <1>3, <1>4 DEF IInv, Inductive, CycleInv
  <1>9. MemoryInv'
    BY <1>1 DEF IInv, Inductive, MemoryInv
  <1>10. faults' = 0 /\ restarts' = 0 => OrderInv'
    <2> SUFFICES ASSUME faults = 0, restarts = 0
                 PROVE  OrderInv'
      BY <1>1
    <2>1. OrderInv /\ DOMAIN batch = {}
      BY <1>4 DEF IInv, Inductive
    <2>2. S = {}
      BY <1>2, <2>1 DEF OrderInv
    <2>3. batch' = batch /\ pc' = "poll"
      BY <1>1, <1>3, <1>4, <2>2
    <2>4. Done' = Done
      BY <1>1, <2>3 DEF Done
    <2> QED
      BY <1>1, <1>5, <2>1, <2>3, <2>4 DEF OrderInv
  <1>11. AckedWasHandled'
    BY <1>1, <1>5 DEF IInv, Inductive, AckedWasHandled
  <1>12. ViewFollowsStreamUntilFault'
    BY <1>1, NothingLater, ViewKept
  <1> QED
    BY <1>1, <1>7, <1>8, <1>9, <1>10, <1>11, <1>12 DEF IInv, Inductive

\* An entry is claimed.
LEMMA ClaimInv ==
    ASSUME ConsumerAssumption, IInv, Claim
    PROVE  IInv'
  <1> USE DEF Claim, memory
  <1>1. Given' = Given
    BY DEF Given
  <1>2. TypeOK'
    BY <1>1 DEF IInv, TypeOK
  <1>3. CycleInv' /\ MemoryInv'
    BY DEF IInv, Inductive, CycleInv, MemoryInv
  <1>4. faults' = 0 /\ restarts' = 0 => OrderInv'
    <2>1. Done' = Done
      BY DEF Done
    <2> QED
      BY <1>1, <2>1 DEF IInv, Inductive, OrderInv
  <1>5. AckedWasHandled'
    BY <1>1 DEF IInv, Inductive, AckedWasHandled
  <1>6. ViewFollowsStreamUntilFault'
    BY NothingLater, ViewKept
  <1> QED
    BY <1>2, <1>3, <1>4, <1>5, <1>6 DEF IInv, Inductive

\* How many entries a read delivers.
LEMMA NewType ==
    ASSUME ConsumerAssumption, IInv, cursor # NoGroup
    PROVE  /\ cursor \in Nat /\ origin \in Nat /\ origin <= cursor
           /\ New \in Nat /\ cursor + New <= Len(ledger)
  <1>1. /\ cursor \in Nat /\ origin \in Nat /\ origin <= cursor
        /\ cursor <= Len(ledger) /\ Len(ledger) \in Nat /\ BatchSize \in Nat
    BY GivenType DEF ConsumerAssumption, IInv, TypeOK, Inductive, CycleInv
  <1>2. New \in {BatchSize, Len(ledger) - cursor} /\ New <= Len(ledger) - cursor
    <2> DEFINE room == Len(ledger) - cursor
    <2>1. BatchSize \in Int /\ room \in Int
      BY <1>1
    <2> HIDE DEF room
    <2>2. Min({BatchSize, room}) \in {BatchSize, room} /\ Min({BatchSize, room}) <= room
      BY <2>1, LeastOfTwo
    <2> QED
      BY <2>2 DEF room, New
  <1> QED
    BY <1>1, <1>2

\* What a read does to the group: the entries of the batch become pending.
LEMMA PollStep ==
    ASSUME ConsumerAssumption, IInv, Poll
    PROVE  /\ cursor \in Nat /\ origin \in Nat /\ cursor' = cursor + New
           /\ New \in Nat /\ cursor' <= Len(ledger) /\ origin <= cursor
           /\ batch = << >>
           /\ batch' \in Seq(Nat) /\ Len(batch') = New /\ DOMAIN batch' = 1..New
           /\ \A i \in 1..New : batch'[i] = cursor + i
           /\ Given' = Given \cup {batch'[i] : i \in 1..New}
           /\ \A i \in 1..New, j \in Given : j < batch'[i]
           /\ pending' = pending \cup {batch'[i] : i \in 1..New}
  <1>1. pc = "poll" /\ batch = << >> /\ cursor # NoGroup
    BY DEF Poll, IInv, Inductive, CycleInv
  <1>2. /\ cursor \in Nat /\ origin \in Nat /\ origin <= cursor
        /\ New \in Nat /\ cursor + New <= Len(ledger)
    BY <1>1, NewType
  <1>3. /\ batch' = [i \in 1..New |-> cursor + i] /\ cursor' = cursor + New /\ origin' = origin
        /\ pending' = pending \cup ToSet(batch')
    BY DEF Poll
  <1>4. batch' \in Seq(Nat) /\ Len(batch') = New /\ DOMAIN batch' = 1..New
    <2> DEFINE n == New
    <2>1. n \in Nat /\ batch' = [i \in 1..n |-> cursor + i]
      BY <1>2, <1>3
    <2> HIDE DEF n
    <2>2. batch' \in Seq(Nat) /\ Len(batch') = n /\ DOMAIN batch' = 1..n
      BY <1>2, <2>1
    <2> QED
      BY <2>2 DEF n
  <1>5. \A i \in 1..New : batch'[i] = cursor + i
    BY <1>3, Zenon
  <1>6. pending' = pending \cup {batch'[i] : i \in 1..New}
    BY <1>3, <1>4 DEF ToSet
  <1>7. Given' = (origin + 1)..(cursor + New) /\ Given = (origin + 1)..cursor
    BY <1>2, <1>3 DEF Given, NoGroup
  <1>8. Given' = Given \cup {batch'[i] : i \in 1..New}
    <2> DEFINE n == New
    <2>1. ASSUME NEW x \in Given', x \notin Given
          PROVE  x - cursor \in 1..New /\ batch'[x - cursor] = x
      <3>1. x \in Int /\ x <= cursor + New /\ x > cursor
        BY <1>2, <1>7, <2>1
      <3>2. x - cursor \in 1..New /\ cursor + (x - cursor) = x
        BY <1>2, <3>1
      <3> QED
        BY <1>5, <3>2
    <2>2. ASSUME NEW i \in 1..New
          PROVE  batch'[i] \in Given'
      BY <1>2, <1>5, <1>7
    <2>3. Given \subseteq Given'
      BY <1>2, <1>7
    <2> QED
      BY <2>1, <2>2, <2>3
  <1>9. \A i \in 1..New, j \in Given : j < batch'[i]
    BY <1>2, <1>5, <1>7
  <1> QED
    BY <1>1, <1>2, <1>3, <1>4, <1>5, <1>6, <1>8, <1>9

\* New entries are read.
LEMMA PollInv ==
    ASSUME ConsumerAssumption, IInv, Poll
    PROVE  IInv'
  <1> USE DEF memory
  <1>1. /\ pc = "poll" /\ task' = "poll" /\ pc' = IF New = 0 THEN "idle" ELSE "handle"
        /\ UNCHANGED <<ledger, origin, idle, processed, positionView, handled, faults, restarts,
                       everHandled>>
    BY DEF Poll
  <1>2. /\ cursor \in Nat /\ origin \in Nat /\ cursor' = cursor + New
        /\ New \in Nat /\ cursor' <= Len(ledger) /\ origin <= cursor
        /\ batch = << >>
        /\ batch' \in Seq(Nat) /\ Len(batch') = New /\ DOMAIN batch' = 1..New
        /\ \A i \in 1..New : batch'[i] = cursor + i
        /\ Given' = Given \cup {batch'[i] : i \in 1..New}
        /\ \A i \in 1..New, j \in Given : j < batch'[i]
        /\ pending' = pending \cup {batch'[i] : i \in 1..New}
    BY PollStep
  <1>3. batch' # << >> <=> New # 0
    BY <1>2
  <1>4. batch' # << >> => Head(batch') = batch'[1] /\ 1 \in 1..New
    BY <1>2
  <1>5. TypeOK'
    <2>1. pending' \subseteq Given' /\ idle' \subseteq pending'
      BY <1>1, <1>2 DEF IInv, TypeOK
    <2>2. pc' \in {"claim", "handle", "ack"} => batch' # << >> /\ Head(batch') \in pending'
      BY <1>1, <1>2, <1>3, <1>4
    <2>3. origin' <= cursor' /\ cursor' <= Len(ledger')
      BY <1>1, <1>2
    <2> QED
      BY <1>1, <2>1, <2>2, <2>3 DEF IInv, TypeOK
  <1>6. CycleInv'
    <2>1. \A i, j \in DOMAIN batch' : i < j => batch'[i] < batch'[j]
      BY <1>2
    <2>2. \A i \in DOMAIN batch' : batch'[i] \in pending'
      BY <1>2
    <2>3. cursor' \in Nat /\ origin' \in Nat
      BY <1>1, <1>2
    <2> QED
      BY <1>1, <1>2, <1>3, <2>1, <2>2, <2>3 DEF CycleInv, NoGroup
  <1>7. MemoryInv'
    BY <1>1 DEF IInv, Inductive, MemoryInv
  <1>8. faults' = 0 /\ restarts' = 0 => OrderInv'
    <2> SUFFICES ASSUME faults = 0, restarts = 0
                 PROVE  OrderInv'
      BY <1>1
    <2>1. OrderInv /\ DOMAIN batch = {} /\ Len(batch) = 0
      BY <1>2 DEF IInv, Inductive
    <2>2. pending' = {batch'[i] : i \in DOMAIN batch'}
      BY <1>2, <2>1 DEF OrderInv
    <2>3. \A i \in DOMAIN batch' : batch'[i] = cursor' - Len(batch') + i
      BY <1>2
    <2>4. Done' = cursor /\ Done = cursor
      BY <1>1, <1>2, <2>1 DEF Done
    <2>5. {j \in Given : j <= Done}' = {j \in Given : j <= Done}
      <3>1. \A i \in 1..New : ~(batch'[i] <= cursor)
        BY <1>2
      <3> QED
        BY <1>2, <2>4, <3>1
    <2> QED
      BY <1>1, <2>1, <2>2, <2>3, <2>5 DEF OrderInv
  <1>9. AckedWasHandled'
    <2>1. Given' \ pending' \subseteq Given \ pending
      BY <1>2
    <2> QED
      BY <1>1, <2>1 DEF IInv, Inductive, AckedWasHandled
  <1>10. ViewFollowsStreamUntilFault'
    <2>1. Later
      <3>1. Given' \subseteq Nat /\ Given \subseteq Nat
        BY <1>2, GivenType
      <3>2. \A i \in Given' \ Given, j \in Given : j < i
        BY <1>2
      <3> QED
        BY <1>1, <1>2, <3>1, <3>2 DEF Later
    <2> QED
      BY <1>1, <2>1, ViewKept
  <1> QED
    BY <1>1, <1>5, <1>6, <1>7, <1>8, <1>9, <1>10 DEF IInv, Inductive

\* handle, as one entry changes memory.
LEMMA HandleStep ==
    ASSUME ConsumerAssumption, IInv, Handle
    PROVE  LET e == ledger[Head(batch)]
           IN  /\ e \in Events \cup {0}
               /\ IF e # 0 /\ e \notin processed
                  THEN /\ processed' = processed \cup {e} /\ positionView' = e
                       /\ handled' = Append(handled, e) /\ everHandled' = everHandled \cup {e}
                  ELSE UNCHANGED <<processed, positionView, handled, everHandled>>
               /\ pc = "handle" /\ pc' = "ack"
               /\ UNCHANGED <<ledger, cursor, origin, pending, idle, task, batch, faults, restarts>>
  <1>1. pc = "handle"
    BY DEF Handle
  <1>2. ledger[Head(batch)] \in Events \cup {0}
    BY <1>1, HeadEntry
  <1> QED
    BY <1>1, <1>2 DEF Handle, group

\* An event is applied, or an entry is skipped.
LEMMA HandleInv ==
    ASSUME ConsumerAssumption, IInv, Handle
    PROVE  IInv'
  <1> DEFINE e == ledger[Head(batch)]
             fresh == e # 0 /\ e \notin processed
             h == Head(batch)
  <1>1. /\ e \in Events \cup {0}
        /\ fresh => /\ processed' = processed \cup {e} /\ positionView' = e
                    /\ handled' = Append(handled, e) /\ everHandled' = everHandled \cup {e}
        /\ ~fresh => UNCHANGED <<processed, positionView, handled, everHandled>>
        /\ pc = "handle" /\ pc' = "ack"
        /\ UNCHANGED <<ledger, cursor, origin, pending, idle, task, batch, faults, restarts>>
    BY HandleStep
  <1>2. /\ batch \in Seq(Nat) /\ batch # << >> /\ 1 \in DOMAIN batch /\ h = batch[1]
        /\ h \in pending /\ h \in Given /\ h \in DOMAIN ledger /\ ledger[h] = e
        /\ cursor # NoGroup
    BY <1>1, HeadEntry
  <1>3. Given' = Given
    BY <1>1 DEF Given
  <1> HIDE DEF e, fresh, h
  <1>4. fresh => /\ handled' \in Seq(Events) /\ ToSet(handled') = ToSet(handled) \cup {e}
    <2> SUFFICES ASSUME fresh
                 PROVE  handled' \in Seq(Events) /\ ToSet(handled') = ToSet(handled) \cup {e}
      OBVIOUS
    <2>1. e \in Events /\ handled' = Append(handled, e) /\ handled \in Seq(Events)
      BY <1>1 DEF fresh, IInv, Inductive, MemoryInv
    <2>2. /\ Append(handled, e) \in Seq(Events)
          /\ DOMAIN Append(handled, e) = DOMAIN handled \cup {Len(handled) + 1}
          /\ \A i \in DOMAIN handled : Append(handled, e)[i] = handled[i]
          /\ Append(handled, e)[Len(handled) + 1] = e
      BY <2>1, SeqFacts
    <2>3. handled' \in Seq(Events) /\ DOMAIN handled' = DOMAIN handled \cup {Len(handled) + 1}
          /\ (\A i \in DOMAIN handled : handled'[i] = handled[i]) /\ handled'[Len(handled) + 1] = e
      BY <2>1, <2>2
    <2> QED
      BY <2>3 DEF ToSet
  <1>5. TypeOK'
    <2>1. processed' = ToSet(handled')
      <3>1. processed = ToSet(handled)
        BY DEF IInv, TypeOK
      <3>2. CASE fresh
        BY <1>1, <1>4, <3>1, <3>2
      <3>3. CASE ~fresh
        BY <1>1, <3>1, <3>3 DEF ToSet
      <3> QED
        BY <3>2, <3>3
    <2> QED
      BY <1>1, <1>2, <1>3, <2>1 DEF IInv, TypeOK, h
  <1>6. CycleInv'
    BY <1>1 DEF IInv, Inductive, CycleInv
  <1>7. MemoryInv'
    <2>1. handled' \in Seq(Events) /\ everHandled' \subseteq Events /\ processed' \subseteq everHandled'
      <3>1. handled \in Seq(Events) /\ everHandled \subseteq Events /\ processed \subseteq everHandled
        BY DEF IInv, Inductive, MemoryInv
      <3>2. fresh => e \in Events
        BY <1>1 DEF fresh
      <3> QED
        BY <1>1, <1>4, <3>1, <3>2
    <2>2. ledger'[Head(batch')] \in processed' \cup {0}
      <3>1. ledger'[Head(batch')] = e
        BY <1>1, <1>2 DEF h
      <3>2. e = 0 \/ e \in processed'
        BY <1>1 DEF fresh
      <3> QED
        BY <3>1, <3>2
    <2> QED
      BY <2>1, <2>2 DEF MemoryInv
  <1>8. AckedWasHandled'
    BY <1>1, <1>3 DEF IInv, Inductive, AckedWasHandled
  <1>9. ASSUME faults = 0, restarts = 0
        PROVE  OrderInv' /\ ViewFollowsStreamUntilFault'
    <2>1. OrderInv
      BY <1>9 DEF IInv, Inductive
    <2>2. cursor \in Nat /\ Len(batch) \in Nat /\ h \in Nat /\ h = Done + 1 /\ Done \in Int
          /\ Done' = Done + 1
      <3>1. cursor \in Nat /\ Len(batch) \in Nat /\ h \in Nat
        BY <1>2, GivenType, SeqFacts
      <3>2. h = cursor - Len(batch) + 1
        BY <1>2, <2>1 DEF OrderInv
      <3>3. Done = cursor - Len(batch) /\ Done' = cursor - Len(batch) + 1
        BY <1>1, <3>1 DEF Done
      <3> QED
        BY <3>1, <3>2, <3>3
    <2>3. {j \in Given : j <= Done'} = {j \in Given : j <= Done} \cup {h}
      <3>1. Given \subseteq Nat
        BY GivenType
      <3>2. \A j \in Given : j <= Done' <=> (j <= Done \/ j = h)
        <4> DEFINE d == Done
        <4>1. d \in Int /\ Done' = d + 1 /\ h = d + 1
          BY <2>2
        <4> HIDE DEF d
        <4>2. \A j \in Given : j <= d + 1 <=> (j <= d \/ j = d + 1)
          BY <3>1, <4>1
        <4> QED
          BY <4>1, <4>2 DEF d
      <3>3. h <= Done'
        BY <2>2
      <3> QED
        BY <1>2, <3>2, <3>3
    <2>4. {ledger[i] : i \in {j \in Given : j <= Done'}} \ {0} = (processed \cup {e}) \ {0}
      BY <1>2, <2>1, <2>3 DEF OrderInv
    <2>5. 0 \notin processed
      BY <2>1 DEF OrderInv
    <2>6. processed' = (processed \cup {e}) \ {0}
      BY <1>1, <2>5 DEF fresh
    <2>7. processed' # {} => positionView' \in processed'
      BY <1>1, <2>1 DEF OrderInv, fresh
    <2>8. OrderInv'
      BY <1>1, <1>3, <2>1, <2>4, <2>6, <2>7 DEF OrderInv
    <2>9. CASE ~fresh
      <3>1. Later
        BY <1>1, NothingLater
      <3>2. ViewFollowsStreamUntilFault'
        BY <1>1, <2>9, <3>1, ViewKept
      <3> QED
        BY <2>8, <3>2
    <2>10. CASE fresh
      <3>1. FirstGiven(e) \in Given /\ FirstGiven(e) \in Nat /\ ledger[FirstGiven(e)] = e
        BY <1>2, FirstFacts
      <3>2. ~(FirstGiven(e) <= Done)
        BY <2>1, <2>10, <3>1 DEF OrderInv, fresh
      <3>3. ASSUME NEW d \in processed
            PROVE  FirstGiven(d) <= FirstGiven(e)
        <4>1. PICK j \in Given : j <= Done /\ ledger[j] = d
          BY <2>1, ProcessedGiven
        <4>2. FirstGiven(d) \in Nat /\ FirstGiven(d) <= j
          BY <4>1, FirstFacts
        <4> DEFINE m == FirstGiven(d)
                   n == FirstGiven(e)
                   k == Done
        <4>3. /\ m \in Nat /\ n \in Nat /\ j \in Nat /\ k \in Int
              /\ m <= j /\ j <= k /\ ~(n <= k)
          BY <2>2, <3>1, <3>2, <4>1, <4>2, GivenType
        <4> HIDE DEF m, n, k
        <4>4. m <= n
          BY <4>3
        <4> QED
          BY <4>4 DEF m, n
      <3>4. FirstGiven(positionView)' = FirstGiven(e)
        <4>1. positionView' = e /\ Given' = Given /\ ledger' = ledger
          BY <1>1, <1>3, <2>10
        <4> QED
          BY <4>1 DEF FirstGiven
      <3>5. ASSUME NEW d \in processed'
            PROVE  FirstGiven(d)' <= FirstGiven(positionView)'
        <4>1. FirstGiven(d)' = FirstGiven(d)
          BY <1>1, <1>3 DEF FirstGiven
        <4>2. d \in processed \/ d = e
          BY <1>1, <2>10
        <4>3. FirstGiven(d) <= FirstGiven(e)
          BY <3>1, <3>3, <4>2
        <4> QED
          BY <3>4, <4>1, <4>3
      <3> QED
        BY <2>8, <3>5 DEF ViewFollowsStreamUntilFault
    <2> QED
      BY <2>9, <2>10
  <1>10. faults' = faults /\ restarts' = restarts
    BY <1>1
  <1>11. ViewFollowsStreamUntilFault'
    BY <1>9, <1>10 DEF ViewFollowsStreamUntilFault
  <1> QED
    BY <1>1, <1>5, <1>6, <1>7, <1>8, <1>9, <1>10, <1>11 DEF IInv, Inductive

\* The rest of the batch stays pending.
LEMMA AckStep ==
    ASSUME ConsumerAssumption, IInv, Ack
    PROVE  /\ batch # << >> /\ batch' = Tail(batch) /\ batch' \in Seq(Nat)
           /\ Len(batch) \in Nat /\ Len(batch') = Len(batch) - 1
           /\ batch' # << >> <=> Len(batch) > 1
           /\ DOMAIN batch = 1..Len(batch) /\ DOMAIN batch' = 1..Len(batch')
           /\ batch' # << >> => Head(batch') = batch'[1] /\ 1 \in DOMAIN batch'
           /\ \A i \in DOMAIN batch' : i + 1 \in DOMAIN batch /\ batch'[i] = batch[i + 1]
           /\ \A i \in DOMAIN batch' : batch'[i] \in pending'
           /\ pending' = pending \ {Head(batch)} /\ idle' = idle \ {Head(batch)}
           /\ pc = "ack"
           /\ pc' = IF Len(batch) > 1 THEN (IF task = "reclaim" THEN "claim" ELSE "handle")
                    ELSE IF task = "reclaim" THEN "poll" ELSE "idle"
           /\ UNCHANGED <<ledger, cursor, origin, processed, positionView, handled, task, faults,
                          restarts, everHandled>>
  <1>1. /\ pc = "ack" /\ batch' = Tail(batch)
        /\ pending' = pending \ {Head(batch)} /\ idle' = idle \ {Head(batch)}
        /\ pc' = IF Len(batch) > 1 THEN (IF task = "reclaim" THEN "claim" ELSE "handle")
                 ELSE IF task = "reclaim" THEN "poll" ELSE "idle"
        /\ UNCHANGED <<ledger, cursor, origin, processed, positionView, handled, task, faults,
                       restarts, everHandled>>
    BY DEF Ack, memory
  <1>2. batch \in Seq(Nat) /\ batch # << >> /\ Head(batch) = batch[1]
    BY <1>1, HeadEntry
  <1>3. /\ Tail(batch) \in Seq(Nat) /\ Len(Tail(batch)) = Len(batch) - 1
        /\ \A i \in DOMAIN Tail(batch) : i + 1 \in DOMAIN batch /\ Tail(batch)[i] = batch[i + 1]
        /\ DOMAIN batch = 1..Len(batch) /\ Len(batch) \in Nat
    BY <1>2, SeqFacts
  <1>4. /\ DOMAIN Tail(batch) = 1..Len(Tail(batch))
        /\ Tail(batch) # << >> => Head(Tail(batch)) = Tail(batch)[1] /\ 1 \in DOMAIN Tail(batch)
    BY <1>3, SeqFacts
  <1>5. Tail(batch) # << >> <=> Len(batch) > 1
    <2>1. Tail(batch) = << >> <=> Len(Tail(batch)) = 0
      BY <1>3, SeqFacts
    <2>2. Len(batch) # 0
      BY <1>2, SeqFacts
    <2> DEFINE n == Len(batch)
               rest == Tail(batch)
    <2>3. n \in Nat /\ n # 0 /\ Len(rest) = n - 1 /\ (rest = << >> <=> Len(rest) = 0)
      BY <1>3, <2>1, <2>2
    <2> HIDE DEF n, rest
    <2>4. rest # << >> <=> n > 1
      BY <2>3
    <2> QED
      BY <2>4 DEF n, rest
  <1>6. ASSUME NEW i \in DOMAIN batch'
        PROVE  batch'[i] \in pending'
    <2>1. i + 1 \in DOMAIN batch /\ 1 \in DOMAIN batch /\ 1 < i + 1 /\ batch'[i] = batch[i + 1]
      BY <1>1, <1>2, <1>3, <1>4
    <2>2. batch[1] < batch[i + 1] /\ batch[i + 1] \in pending /\ batch[1] \in Nat
      BY <1>2, <2>1 DEF IInv, Inductive, CycleInv
    <2>3. batch[i + 1] # batch[1]
      BY <2>2
    <2> QED
      BY <1>1, <1>2, <2>1, <2>2, <2>3
  <1> QED
    BY <1>1, <1>2, <1>3, <1>4, <1>5, <1>6

\* An entry is acknowledged.
LEMMA AckInv ==
    ASSUME ConsumerAssumption, IInv, Ack
    PROVE  IInv'
  <1>1. /\ batch # << >> /\ batch' \in Seq(Nat)
        /\ Len(batch) \in Nat /\ Len(batch') = Len(batch) - 1
        /\ batch' # << >> <=> Len(batch) > 1
        /\ DOMAIN batch = 1..Len(batch) /\ DOMAIN batch' = 1..Len(batch')
        /\ batch' # << >> => Head(batch') = batch'[1] /\ 1 \in DOMAIN batch'
        /\ \A i \in DOMAIN batch' : i + 1 \in DOMAIN batch /\ batch'[i] = batch[i + 1]
        /\ \A i \in DOMAIN batch' : batch'[i] \in pending'
        /\ pending' = pending \ {Head(batch)} /\ idle' = idle \ {Head(batch)}
        /\ pc = "ack"
        /\ pc' = IF Len(batch) > 1 THEN (IF task = "reclaim" THEN "claim" ELSE "handle")
                 ELSE IF task = "reclaim" THEN "poll" ELSE "idle"
        /\ UNCHANGED <<ledger, cursor, origin, processed, positionView, handled, task, faults,
                       restarts, everHandled>>
    BY AckStep
  <1>2. /\ Head(batch) = batch[1] /\ Head(batch) \in pending /\ Head(batch) \in Given
        /\ cursor # NoGroup
    BY <1>1, HeadEntry
  <1>3. Given' = Given
    BY <1>1 DEF Given
  <1>4. TypeOK'
    <2>1. pc' \in {"claim", "handle", "ack"} => batch' # << >> /\ Head(batch') \in pending'
      BY <1>1
    <2>2. pending' \subseteq Given' /\ idle' \subseteq pending'
      BY <1>1, <1>3 DEF IInv, TypeOK
    <2> QED
      BY <1>1, <1>3, <2>1, <2>2 DEF IInv, TypeOK
  <1>5. CycleInv'
    <2>1. \A i, j \in DOMAIN batch' : i < j => batch'[i] < batch'[j]
      <3> SUFFICES ASSUME NEW i \in DOMAIN batch', NEW j \in DOMAIN batch', i < j
                   PROVE  batch'[i] < batch'[j]
        OBVIOUS
      <3>1. i + 1 \in DOMAIN batch /\ j + 1 \in DOMAIN batch /\ i + 1 < j + 1
        BY <1>1
      <3>2. batch[i + 1] < batch[j + 1]
        BY <3>1 DEF IInv, Inductive, CycleInv
      <3> QED
        BY <1>1, <3>2
    <2>2. task \in {"reclaim", "poll"} /\ cursor \in Nat \cup {NoGroup} /\ origin \in Nat \cup {NoGroup}
          /\ (cursor # NoGroup => origin # NoGroup)
      BY DEF IInv, Inductive, CycleInv
    <2>3. /\ pc' \in {"idle", "reclaim", "poll", "claim", "handle", "ack"}
          /\ pc' \in {"claim", "handle", "ack"} <=> batch' # << >>
          /\ pc' = "claim" => task = "reclaim"
      BY <1>1
    <2> QED
      BY <1>1, <1>2, <2>1, <2>2, <2>3 DEF CycleInv
  <1>6. MemoryInv'
    <2>1. pc' # "ack"
      BY <1>1
    <2> QED
      BY <1>1, <2>1 DEF IInv, Inductive, MemoryInv
  <1>7. AckedWasHandled'
    <2> SUFFICES ASSUME NEW i \in Given \ pending', ledger[i] # 0
                 PROVE  ledger[i] \in everHandled
      BY <1>1, <1>3 DEF AckedWasHandled
    <2>1. CASE i = Head(batch)
      BY <1>1, <2>1 DEF IInv, Inductive, MemoryInv
    <2>2. CASE i # Head(batch)
      BY <1>1, <2>2 DEF IInv, Inductive, AckedWasHandled
    <2> QED
      BY <2>1, <2>2
  <1>8. faults' = 0 /\ restarts' = 0 => OrderInv'
    <2> SUFFICES ASSUME faults = 0, restarts = 0
                 PROVE  OrderInv'
      BY <1>1
    <2>1. /\ OrderInv
          /\ pending = {batch[i] : i \in DOMAIN batch}
          /\ \A i \in DOMAIN batch : batch[i] = cursor - Len(batch) + i
          /\ cursor \in Nat
      BY <1>2, GivenType DEF IInv, Inductive, OrderInv
    <2>2. \A i \in DOMAIN batch' : batch'[i] = cursor' - Len(batch') + i
      <3> SUFFICES ASSUME NEW i \in DOMAIN batch'
                   PROVE  batch'[i] = cursor - Len(batch') + i
        BY <1>1
      <3>1. batch'[i] = cursor - Len(batch) + (i + 1) /\ i \in Int
        BY <1>1, <2>1
      <3> QED
        BY <1>1, <2>1, <3>1
    <2>3. pending' = {batch'[i] : i \in DOMAIN batch'}
      <3>1. ASSUME NEW x \in pending'
            PROVE  \E i \in DOMAIN batch' : x = batch'[i]
        <4>1. PICK k \in DOMAIN batch : x = batch[k] /\ k # 1
          BY <1>1, <1>2, <2>1
        <4>2. k - 1 \in DOMAIN batch' /\ (k - 1) + 1 = k
          BY <1>1, <4>1
        <4> QED
          BY <1>1, <4>1, <4>2
      <3> QED
        BY <1>1, <3>1
    <2>4. Done' = Done
      BY <1>1, <2>1 DEF Done
    <2>5. {j \in Given : j <= Done}' = {j \in Given : j <= Done}
      BY <1>3, <2>4
    <2>6. /\ processed' = {ledger'[i] : i \in {j \in Given : j <= Done}'} \ {0}
          /\ processed' # {} => positionView' \in processed'
      <3>1. /\ processed = {ledger[i] : i \in {j \in Given : j <= Done}} \ {0}
            /\ processed # {} => positionView \in processed
        BY <2>1 DEF OrderInv
      <3> DEFINE dealt == {j \in Given : j <= Done}
      <3>2. dealt' = dealt /\ processed = {ledger[i] : i \in dealt} \ {0}
        BY <2>5, <3>1
      <3>3. /\ processed' = processed /\ ledger' = ledger /\ positionView' = positionView
        BY <1>1
      <3> HIDE DEF dealt
      <3>4. processed' = {ledger'[i] : i \in dealt'} \ {0}
        BY <3>2, <3>3
      <3> QED
        BY <3>1, <3>3, <3>4 DEF dealt
    <2> QED
      BY <2>2, <2>3, <2>6 DEF OrderInv
  <1>9. ViewFollowsStreamUntilFault'
    BY <1>1, NothingLater, ViewKept
  <1> QED
    BY <1>1, <1>4, <1>5, <1>6, <1>7, <1>8, <1>9 DEF IInv, Inductive

\* Nothing changes.
LEMMA StutterInv == IInv /\ UNCHANGED vars => IInv'
  <1> SUFFICES ASSUME IInv, UNCHANGED vars
               PROVE  IInv'
    OBVIOUS
  <1> USE DEF vars, group, memory, cycle
  <1>1. Given' = Given /\ Done' = Done
    BY DEF Given, Done
  <1>2. TypeOK' /\ CycleInv' /\ MemoryInv'
    BY <1>1 DEF IInv, TypeOK, Inductive, CycleInv, MemoryInv
  <1>3. (faults' = 0 /\ restarts' = 0 => OrderInv') /\ AckedWasHandled'
    BY <1>1 DEF IInv, Inductive, OrderInv, AckedWasHandled
  <1>4. ViewFollowsStreamUntilFault'
    BY <1>1 DEF IInv, Inductive, ViewFollowsStreamUntilFault, FirstGiven
  <1> QED
    BY <1>2, <1>3, <1>4 DEF IInv, Inductive

-----------------------------------------------------------------------------
(* The invariants *)

\* Every reachable state satisfies the inductive invariant.
THEOREM Correct == Spec => []IInv
  <1>1. Init => IInv
    BY InitType, ConsumerAssumption
  <1>2. IInv /\ [Next]_vars => IInv'
    <2> SUFFICES ASSUME IInv, [Next]_vars
                 PROVE  IInv'
      OBVIOUS
    <2>1. ASSUME NEW e \in Events \cup {0}, Arrive(e)
          PROVE  IInv'
      BY <2>1, ArriveInv, ConsumerAssumption
    <2>2. ASSUME NEW i \in 1..MaxEntries, Age(i)
          PROVE  IInv'
      BY <2>2, AgeInv, ConsumerAssumption
    <2>3. CASE EnsureGroup
      BY <2>3, EnsureGroupInv, ConsumerAssumption
    <2>4. CASE ListStale
      BY <2>4, ListStaleInv, ConsumerAssumption
    <2>5. CASE Claim
      BY <2>5, ClaimInv, ConsumerAssumption
    <2>6. CASE Poll
      BY <2>6, PollInv, ConsumerAssumption
    <2>7. CASE Handle
      BY <2>7, HandleInv, ConsumerAssumption
    <2>8. CASE Ack
      BY <2>8, AckInv, ConsumerAssumption
    <2>9. CASE CycleFails \/ Restart
      BY <2>9, StopInv, ConsumerAssumption
    <2>10. CASE UNCHANGED vars
      BY <2>10, StutterInv
    <2> QED
      BY <2>1, <2>2, <2>3, <2>4, <2>5, <2>6, <2>7, <2>8, <2>9, <2>10 DEF Next, WorkStep
  <1> QED
    BY <1>1, <1>2, PTL DEF Spec

\* The type invariant.
THEOREM TypeCorrect == Spec => []TypeOK
  <1>1. IInv => TypeOK
    BY DEF IInv
  <1> QED
    BY <1>1, Correct, PTL

\* Over any crashes of cycles and restarts of the process, an entry of the
\* group is acknowledged (XACK) only when its event was applied.
THEOREM NoneLost == Spec => []AckedWasHandled
  <1>1. IInv => AckedWasHandled
    BY DEF IInv, Inductive
  <1> QED
    BY <1>1, Correct, PTL

\* Until a cycle fails, the view is that of the newest event of the stream
\* among those applied.
THEOREM ViewInOrder == Spec => []ViewFollowsStreamUntilFault
  <1>1. IInv => ViewFollowsStreamUntilFault
    BY DEF IInv, Inductive
  <1> QED
    BY <1>1, Correct, PTL

-----------------------------------------------------------------------------
(* The contract of a consumer *)

\* A step of one process is a step of EffectivelyOnce, or none it sees.
LEMMA ProcessStep ==
    ASSUME ConsumerAssumption, IInv, Next, restarts' = restarts
    PROVE  Effects!Next \/ UNCHANGED Effects!vars
  <1> USE DEF group, memory, cycle
  <1>1. ASSUME NEW e \in Events \cup {0}, Arrive(e)
        PROVE  Effects!Next
    <2>1. Effects!Arrive(e)
      BY <1>1 DEF Arrive, Effects!Arrive, Given
    <2> QED
      BY <2>1 DEF Effects!Next
  <1>2. ASSUME NEW i \in 1..MaxEntries, Age(i)
        PROVE  UNCHANGED Effects!vars
    BY <1>2 DEF Age, Effects!vars, Given
  <1>3. CASE EnsureGroup
    <2>1. Given' = Given
      BY <1>3, GivenType DEF EnsureGroup, Given, NoGroup
    <2> QED
      BY <1>3, <2>1 DEF EnsureGroup, Effects!vars
  <1>4. CASE ListStale \/ Claim \/ CycleFails
    BY <1>4 DEF ListStale, Claim, CycleFails, StopCycle, Effects!vars, Given
  <1>5. CASE Poll
    <2>1. Given' \ pending' = Given \ pending
      <3>1. /\ Given' = Given \cup {batch'[i] : i \in 1..New}
            /\ pending' = pending \cup {batch'[i] : i \in 1..New}
            /\ \A i \in 1..New, j \in Given : j < batch'[i]
        BY <1>5, PollStep
      <3>2. \A i \in 1..New : batch'[i] \notin Given
        <4> SUFFICES ASSUME NEW i \in 1..New, batch'[i] \in Given
                     PROVE  FALSE
          OBVIOUS
        <4>1. batch'[i] < batch'[i] /\ batch'[i] \in Nat
          BY <3>1, GivenType
        <4> QED
          BY <4>1
      <3> QED
        BY <3>1, <3>2
    <2> QED
      BY <1>5, <2>1 DEF Poll, Effects!vars
  <1>6. CASE Handle
    <2> DEFINE e == ledger[Head(batch)]
    <2>1. /\ e \in Events \cup {0}
          /\ Head(batch) \in DOMAIN ledger
          /\ UNCHANGED <<ledger, cursor, origin, pending>>
      BY <1>6, HandleStep, HeadEntry
    <2>2. Given' = Given
      BY <2>1 DEF Given
    <2>3. CASE e # 0 /\ e \notin processed
      <3>1. handled' = Append(handled, e) /\ e \in Events
        BY <1>6, <2>1, <2>3, HandleStep
      <3>2. \E i \in DOMAIN ledger : ledger[i] = e
        BY <2>1
      <3>3. ~\E i \in DOMAIN handled : handled[i] = e
        BY <2>3 DEF IInv, TypeOK, ToSet
      <3>4. Effects!Apply(e)
        BY <2>1, <2>2, <3>1, <3>2, <3>3 DEF Effects!Apply, Effects!InSeq
      <3> QED
        BY <3>1, <3>4 DEF Effects!Next
    <2>4. CASE ~(e # 0 /\ e \notin processed)
      <3>1. handled' = handled
        BY <1>6, <2>4, HandleStep
      <3> QED
        BY <2>1, <2>2, <3>1 DEF Effects!vars
    <2> QED
      BY <2>3, <2>4
  <1>7. CASE Ack
    <2>1. /\ pc = "ack" /\ pending' = pending \ {Head(batch)}
          /\ UNCHANGED <<ledger, cursor, origin, handled>>
      BY <1>7 DEF Ack
    <2>2. Head(batch) \in DOMAIN ledger /\ Head(batch) \in Given /\ Head(batch) \in pending
      BY <2>1, HeadEntry
    <2>3. Given' = Given
      BY <2>1 DEF Given
    <2>4. ledger[Head(batch)] \in processed \cup {0}
      BY <2>1 DEF IInv, Inductive, MemoryInv
    <2>5. (\E i \in DOMAIN handled : handled[i] = ledger[Head(batch)]) \/ ledger[Head(batch)] \in {0}
      BY <2>4 DEF IInv, TypeOK, ToSet
    <2>6. Given' \ pending' = (Given \ pending) \cup {Head(batch)}
      BY <2>1, <2>2, <2>3
    <2>7. Effects!Forget(Head(batch))
      BY <2>1, <2>5, <2>6 DEF Effects!Forget, Effects!InSeq
    <2> QED
      BY <2>2, <2>7 DEF Effects!Next
  <1>8. CASE Restart
    <2>1. restarts \in Nat /\ restarts' = restarts + 1
      BY <1>8 DEF Restart, IInv, Inductive
    <2> QED
      BY <2>1
  <1> QED
    BY <1>1, <1>2, <1>3, <1>4, <1>5, <1>6, <1>7, <1>8 DEF Next, WorkStep

\* In one process, whatever cycles fail and whatever is delivered again, each
\* event is applied once, and only then does the group forget its entry.
THEOREM AppliedOnce == Spec => AppliesOnceInOneProcess
  <1>1. IInv /\ [Next]_vars
        => [restarts' = restarts => Effects!Next \/ UNCHANGED Effects!vars]_vars
    BY ProcessStep, ConsumerAssumption
  <1> QED
    BY <1>1, Correct, PTL DEF Spec, AppliesOnceInOneProcess

=============================================================================
