--------------------------- MODULE RiskWorkerProofs ---------------------------
(***************************************************************************)
(* Theorems about RiskWorker, for any trade events, quotes, batch and      *)
(* window size and any number of entries, ticks and crashes: each event    *)
(* counts once, what is published is what is served, and until a crash the *)
(* positions follow the stream.                                            *)
(***************************************************************************)
EXTENDS RiskWorker, FiniteLemmas, SequenceTheorems, TLAPS

-----------------------------------------------------------------------------
(* The inductive invariant *)

\* A tick is in hand.
OnTicks == pc \in {"price", "price_history", "ack_tick"}
\* A ledger entry is in hand.
OnEntries == pc \in {"apply", "ack"} \/ (pc \in {"save", "publish"} /\ task # "recompute")
\* A recompute goes through the accounts.
OnAccounts == pc = "sample" \/ (pc \in {"save", "publish"} /\ task = "recompute")
\* Nothing is in hand.
OnNothing == pc \in {"down", "reclaim", "ticks", "drain", "recompute", "end"}

\* A sequence lists members of S in ascending order, at least one.
Lists(q, S) ==
    /\ q \in Seq(Nat) /\ q # << >>
    /\ \A i \in DOMAIN q : q[i] \in S
    /\ \A i, j \in DOMAIN q : i < j => q[i] < q[j]

\* A batch holds entries delivered and not yet acknowledged, or accounts.
ProcessInv ==
    /\ OnTicks \/ OnEntries \/ OnAccounts \/ OnNothing
    /\ task \in {"reclaim", "drain", "recompute"}
    /\ OnNothing => batch = << >>
    /\ OnTicks => Lists(batch, tickPending)
    /\ OnEntries => Lists(batch, pending)
    /\ OnAccounts => batch \in Seq(Accounts) /\ batch # << >>
    /\ pc \in {"apply", "ack"} => task # "recompute"
    /\ pc = "sample" => task = "recompute"
    /\ pc # "down" => cursor.ledger # NoGroup /\ cursor.ticks # NoGroup

\* Each stream holds numbered data or entries the worker cannot use.
StreamInv == ledger \in Seq(Events \cup {0}) /\ ticks \in Seq(0..Len(Quotes))

\* The group knows where it is on each stream and what it gave away.
GroupInv ==
    /\ cursor \in [{"ledger", "ticks"} -> Nat \cup {NoGroup}]
    /\ cursor.ledger <= Len(ledger) /\ cursor.ticks <= Len(ticks)
    /\ pending \subseteq Delivered /\ idle \subseteq pending
    /\ tickPending \subseteq 1..cursor.ticks

\* The tables have a row for each symbol or account, a price comes from a tick
\* that has one, windows are bounded, and no event is in the log twice.
StoreInv ==
    /\ applied \in Seq(Events)
    /\ \A i, j \in DOMAIN applied : applied[i] = applied[j] => i = j
    /\ price_cache \in [Symbols -> 0..Len(ticks)]
    /\ \A s \in Symbols : price_cache[s] # 0 => ticks[price_cache[s]] # 0
    /\ DOMAIN price_history = Symbols /\ DOMAIN pv_history = Accounts
    /\ \A s \in Symbols : price_history[s] \in Seq(Int) /\ Len(price_history[s]) <= WindowSize + 1
    /\ \A a \in Accounts : pv_history[a] \in Seq(Int) /\ Len(pv_history[a]) <= WindowSize + 1
    /\ DOMAIN risk_snapshots = Accounts /\ DOMAIN wire = Accounts

\* An entry is not acknowledged before its event is applied, and what is about
\* to be published is the stored snapshot.
EntryInv ==
    /\ pc = "price_history" => Tick # 0
    /\ pc \in {"save", "publish"} /\ task # "recompute" => Entry # 0 /\ AlreadyApplied(Entry)
    /\ pc = "ack" => Entry = 0 \/ AlreadyApplied(Entry)
    /\ pc = "publish" => env.account \in Accounts /\ env.metrics = risk_snapshots[env.account]

\* The position up to which a process that never died has dealt with entries.
Done == cursor.ledger - IF OnEntries THEN Len(batch) - (IF pc = "apply" THEN 0 ELSE 1) ELSE 0

\* It takes the entries one after the other, has nothing to reclaim, and its
\* log is in stream order.
OrderInv ==
    /\ pending = IF OnEntries THEN {batch[i] : i \in DOMAIN batch} ELSE {}
    /\ OnEntries => \A i \in DOMAIN batch : batch[i] = cursor.ledger - Len(batch) + i
    /\ ToSet(applied) = {ledger[i] : i \in {j \in Delivered : j <= Done}} \ {0}
    /\ \A i, j \in DOMAIN applied : i < j => FirstCopy(applied[i]) < FirstCopy(applied[j])

\* What every reachable state satisfies.
IInv ==
    /\ StreamInv /\ GroupInv /\ StoreInv /\ ProcessInv /\ EntryInv
    /\ crashes \in Nat
    /\ crashes = 0 => OrderInv

-----------------------------------------------------------------------------
(* What an inductive state looks like *)

\* The streams, and the group on them.
LEMMA StreamType ==
    ASSUME WorkerAssumption, IInv
    PROVE  /\ Len(ledger) \in Nat /\ DOMAIN ledger = 1..Len(ledger)
           /\ \A i \in DOMAIN ledger : ledger[i] \in Events \cup {0}
           /\ Len(ticks) \in Nat /\ DOMAIN ticks = 1..Len(ticks)
           /\ \A i \in DOMAIN ticks : ticks[i] \in 0..Len(Quotes)
           /\ cursor.ledger \in Nat \cup {-1} /\ cursor.ledger <= Len(ledger)
           /\ cursor.ticks \in Nat \cup {-1} /\ cursor.ticks <= Len(ticks)
           /\ Delivered = 1..cursor.ledger /\ Delivered \subseteq DOMAIN ledger
           /\ Delivered \subseteq Nat
           /\ pending \subseteq Delivered /\ idle \subseteq pending
           /\ tickPending \subseteq DOMAIN ticks /\ tickPending \subseteq 1..cursor.ticks
  <1> DEFINE S == Events \cup {0}
             Q == 0..Len(Quotes)
  <1>1. ledger \in Seq(S) /\ ticks \in Seq(Q)
    BY DEF IInv, StreamInv
  <1>2. /\ Len(ledger) \in Nat /\ DOMAIN ledger = 1..Len(ledger)
        /\ \A i \in DOMAIN ledger : ledger[i] \in S
        /\ Len(ticks) \in Nat /\ DOMAIN ticks = 1..Len(ticks)
        /\ \A i \in DOMAIN ticks : ticks[i] \in Q
    <2> HIDE DEF S, Q
    <2> QED
      BY <1>1, SeqFacts
  <1>3. /\ cursor.ledger \in Nat \cup {-1} /\ cursor.ledger <= Len(ledger)
        /\ cursor.ticks \in Nat \cup {-1} /\ cursor.ticks <= Len(ticks)
        /\ Delivered = 1..cursor.ledger
        /\ pending \subseteq Delivered /\ idle \subseteq pending /\ tickPending \subseteq 1..cursor.ticks
    BY DEF IInv, GroupInv, NoGroup, Delivered
  <1>4. Delivered \subseteq DOMAIN ledger /\ Delivered \subseteq Nat
    BY <1>2, <1>3
  <1>5. tickPending \subseteq DOMAIN ticks
    BY <1>2, <1>3
  <1> QED
    BY <1>2, <1>3, <1>4, <1>5

\* The first of a batch.
LEMMA BatchHead ==
    ASSUME NEW S, Lists(batch, S)
    PROVE  /\ 1 \in DOMAIN batch /\ Head(batch) = batch[1] /\ Head(batch) \in S
           /\ Head(batch) \in Nat
  <1>1. batch \in Seq(Nat) /\ batch # << >>
    BY DEF Lists
  <1>2. 1 \in DOMAIN batch /\ Head(batch) = batch[1] /\ batch[1] \in Nat
    BY <1>1, SeqFacts
  <1> QED
    BY <1>2 DEF Lists

\* The entry at hand.
LEMMA EntryType ==
    ASSUME WorkerAssumption, IInv, OnEntries
    PROVE  /\ Lists(batch, pending) /\ Head(batch) = batch[1] /\ 1 \in DOMAIN batch
           /\ Head(batch) \in pending /\ Head(batch) \in Delivered /\ Head(batch) \in DOMAIN ledger
           /\ Entry = ledger[Head(batch)] /\ Entry \in Events \cup {0}
  <1>1. Lists(batch, pending)
    BY DEF IInv, ProcessInv
  <1>2. 1 \in DOMAIN batch /\ Head(batch) = batch[1] /\ Head(batch) \in pending
    BY <1>1, BatchHead
  <1> QED
    BY <1>1, <1>2, StreamType DEF Entry

\* The tick at hand.
LEMMA TickType ==
    ASSUME WorkerAssumption, IInv, OnTicks
    PROVE  /\ Lists(batch, tickPending) /\ Head(batch) = batch[1] /\ 1 \in DOMAIN batch
           /\ Head(batch) \in tickPending /\ Head(batch) \in DOMAIN ticks
           /\ Tick = ticks[Head(batch)] /\ Tick \in 0..Len(Quotes)
           /\ Tick # 0 => Quotes[Tick].symbol \in Symbols /\ Quotes[Tick].price \in Int
  <1>1. Lists(batch, tickPending)
    BY DEF IInv, ProcessInv
  <1>2. 1 \in DOMAIN batch /\ Head(batch) = batch[1] /\ Head(batch) \in tickPending
    BY <1>1, BatchHead
  <1>3. Tick = ticks[Head(batch)] /\ Tick \in 0..Len(Quotes) /\ Head(batch) \in DOMAIN ticks
    BY <1>2, StreamType DEF Tick
  <1>4. Tick # 0 => Tick \in 1..Len(Quotes)
    BY <1>3 DEF WorkerAssumption
  <1> QED
    BY <1>1, <1>2, <1>3, <1>4 DEF WorkerAssumption, Symbols

\* The account at hand.
LEMMA SubjectType ==
    ASSUME WorkerAssumption, IInv, pc \in {"save", "publish", "sample"}
    PROVE  Subject \in Accounts
  <1>1. CASE OnAccounts
    <2>1. batch \in Seq(Accounts) /\ batch # << >> /\ task = "recompute"
      BY <1>1 DEF OnAccounts, IInv, ProcessInv
    <2>2. Head(batch) \in Accounts
      BY <2>1, SeqFacts
    <2> QED
      BY <2>1, <2>2 DEF Subject
  <1>2. CASE pc \in {"save", "publish"} /\ task # "recompute"
    <2>1. Entry \in Events
      BY <1>2, EntryType DEF OnEntries, IInv, EntryInv
    <2> QED
      BY <1>2, <2>1 DEF Subject, Accounts
  <1> QED
    BY <1>1, <1>2 DEF OnAccounts, IInv, ProcessInv

\* The type invariant follows.
LEMMA TypeFollows == WorkerAssumption /\ IInv => TypeOK
  <1> SUFFICES ASSUME WorkerAssumption, IInv
               PROVE  TypeOK
    OBVIOUS
  <1>1. pc \in {"apply", "ack"} => Head(batch) \in pending
    BY EntryType DEF OnEntries
  <1>2. pc \in {"price", "price_history", "ack_tick"} => Head(batch) \in tickPending
    BY TickType DEF OnTicks
  <1>3. pc \in {"apply", "ack", "price", "price_history", "ack_tick", "save", "publish", "sample"}
        => batch # << >>
    BY DEF IInv, ProcessInv, Lists, OnTicks, OnEntries, OnAccounts
  <1> QED
    BY <1>1, <1>2, <1>3 DEF TypeOK, IInv, StreamInv, GroupInv, StoreInv, ProcessInv

\* The worker starts with empty tables and no group.
LEMMA InitInv == WorkerAssumption /\ Init => IInv
  <1> SUFFICES ASSUME WorkerAssumption, Init
               PROVE  IInv
    OBVIOUS
  <1> USE DEF Init, NoGroup
  <1>1. StreamInv
    BY DEF StreamInv
  <1>2. GroupInv
    BY DEF GroupInv, Delivered
  <1>3. StoreInv
    BY DEF StoreInv, WorkerAssumption
  <1>4. ProcessInv
    BY DEF ProcessInv, OnTicks, OnEntries, OnAccounts, OnNothing
  <1>5. EntryInv
    BY DEF EntryInv
  <1>6. OrderInv
    BY DEF OrderInv, OnEntries, Delivered, ToSet
  <1> QED
    BY <1>1, <1>2, <1>3, <1>4, <1>5, <1>6 DEF IInv

-----------------------------------------------------------------------------
(* Which steps change what *)

\* The streams only grow, by one entry at the end.
LEMMA StreamFrame ==
    [Next]_vars => \/ UNCHANGED streams
                   \/ \E e \in Events \cup {0} : LedgerPublishes(e)
                   \/ \E q \in 0..Len(Quotes) : MarketPublishes(q)
  BY DEF Next, WorkerStep, vars, Age, Elapse, Start, Crash, Reclaim, ReadTicks, UpsertPrice,
         AppendPrice, AckTick, Drain, ApplyEvent, SkipEntry, SaveSnapshot, Publish, AckEntry,
         Recompute, Sample, EndCycle

\* The steps of the group.
LEMMA GroupFrame ==
    [Next]_vars => \/ UNCHANGED group
                   \/ \E i \in 1..MaxEntries : Age(i)
                   \/ Start \/ Reclaim \/ ReadTicks \/ AckTick \/ Drain \/ AckEntry
  BY DEF Next, WorkerStep, vars, LedgerPublishes, MarketPublishes, Elapse, Crash, UpsertPrice,
         AppendPrice, ApplyEvent, SkipEntry, SaveSnapshot, Publish, Recompute, Sample, EndCycle

\* The steps of the store.
LEMMA StoreFrame ==
    [Next]_vars => \/ UNCHANGED <<applied, prices, valued, wire>>
                   \/ UpsertPrice \/ AppendPrice \/ ApplyEvent \/ SaveSnapshot \/ Publish \/ Sample
  BY DEF Next, WorkerStep, vars, LedgerPublishes, MarketPublishes, Age, Elapse, Start, Crash,
         Reclaim, ReadTicks, AckTick, Drain, SkipEntry, AckEntry, Recompute, EndCycle

-----------------------------------------------------------------------------
(* The streams *)

\* A stream with one more entry.
LEMMA StreamAdd ==
    ASSUME WorkerAssumption, IInv
    PROVE  /\ \A e \in Events \cup {0} : LedgerPublishes(e) =>
                /\ ledger' \in Seq(Events \cup {0}) /\ Len(ledger') = Len(ledger) + 1
                /\ \A i \in DOMAIN ledger : ledger'[i] = ledger[i]
                /\ ledger'[Len(ledger) + 1] = e
                /\ ticks' = ticks
           /\ \A q \in 0..Len(Quotes) : MarketPublishes(q) =>
                /\ ticks' \in Seq(0..Len(Quotes)) /\ Len(ticks') = Len(ticks) + 1
                /\ \A i \in DOMAIN ticks : ticks'[i] = ticks[i]
                /\ ledger' = ledger
  <1> DEFINE S == Events \cup {0}
             Q == 0..Len(Quotes)
  <1>1. ledger \in Seq(S) /\ ticks \in Seq(Q)
    BY DEF IInv, StreamInv
  <1>2. ASSUME NEW e \in S, LedgerPublishes(e)
        PROVE  /\ ledger' \in Seq(S) /\ Len(ledger') = Len(ledger) + 1
               /\ \A i \in DOMAIN ledger : ledger'[i] = ledger[i]
               /\ ledger'[Len(ledger) + 1] = e
               /\ ticks' = ticks
    <2>1. ledger' = Append(ledger, e) /\ ticks' = ticks
      BY <1>2 DEF LedgerPublishes
    <2> HIDE DEF S
    <2> QED
      BY <1>1, <2>1, SeqFacts
  <1>3. ASSUME NEW q \in Q, MarketPublishes(q)
        PROVE  /\ ticks' \in Seq(Q) /\ Len(ticks') = Len(ticks) + 1
               /\ \A i \in DOMAIN ticks : ticks'[i] = ticks[i]
               /\ ledger' = ledger
    <2>1. ticks' = Append(ticks, q) /\ ledger' = ledger
      BY <1>3 DEF MarketPublishes
    <2> HIDE DEF Q
    <2> QED
      BY <1>1, <2>1, SeqFacts
  <1> QED
    BY <1>2, <1>3

\* The streams never shrink, and what is on them stays.
LEMMA StreamGrows ==
    ASSUME WorkerAssumption, IInv, [Next]_vars
    PROVE  /\ Len(ledger') \in Nat /\ Len(ledger) <= Len(ledger')
           /\ \A i \in DOMAIN ledger : i \in DOMAIN ledger' /\ ledger'[i] = ledger[i]
           /\ Len(ticks') \in Nat /\ Len(ticks) <= Len(ticks')
           /\ \A i \in DOMAIN ticks : i \in DOMAIN ticks' /\ ticks'[i] = ticks[i]
           /\ StreamInv'
  <1>1. Len(ledger) \in Nat /\ Len(ticks) \in Nat /\ DOMAIN ledger = 1..Len(ledger)
        /\ DOMAIN ticks = 1..Len(ticks) /\ StreamInv
    BY StreamType DEF IInv
  <1>2. CASE UNCHANGED streams
    BY <1>1, <1>2 DEF streams, StreamInv
  <1>3. ASSUME NEW e \in Events \cup {0}, LedgerPublishes(e)
        PROVE  /\ Len(ledger') \in Nat /\ Len(ledger) <= Len(ledger')
               /\ \A i \in DOMAIN ledger : i \in DOMAIN ledger' /\ ledger'[i] = ledger[i]
               /\ ticks' = ticks /\ StreamInv'
    <2>1. /\ ledger' \in Seq(Events \cup {0}) /\ Len(ledger') = Len(ledger) + 1
          /\ \A i \in DOMAIN ledger : ledger'[i] = ledger[i]
          /\ ticks' = ticks
      BY <1>3, StreamAdd
    <2>2. DOMAIN ledger' = 1..Len(ledger')
      BY <2>1
    <2> QED
      BY <1>1, <2>1, <2>2 DEF StreamInv
  <1>4. ASSUME NEW q \in 0..Len(Quotes), MarketPublishes(q)
        PROVE  /\ Len(ticks') \in Nat /\ Len(ticks) <= Len(ticks')
               /\ \A i \in DOMAIN ticks : i \in DOMAIN ticks' /\ ticks'[i] = ticks[i]
               /\ ledger' = ledger /\ StreamInv'
    <2>1. /\ ticks' \in Seq(0..Len(Quotes)) /\ Len(ticks') = Len(ticks) + 1
          /\ \A i \in DOMAIN ticks : ticks'[i] = ticks[i]
          /\ ledger' = ledger
      BY <1>4, StreamAdd
    <2>2. DOMAIN ticks' = 1..Len(ticks')
      BY <2>1
    <2> QED
      BY <1>1, <2>1, <2>2 DEF StreamInv
  <1>5. CASE \E e \in Events \cup {0} : LedgerPublishes(e)
    BY <1>1, <1>3, <1>5
  <1>6. CASE \E q \in 0..Len(Quotes) : MarketPublishes(q)
    BY <1>1, <1>4, <1>6
  <1> QED
    BY <1>2, <1>5, <1>6, StreamFrame

-----------------------------------------------------------------------------
(* The group *)

\* What an XREADGROUP delivers from a stream of length n read up to c.
LEMMA NewFacts ==
    ASSUME WorkerAssumption, NEW S, NEW stream \in Seq(S), NEW c \in Nat, c <= Len(stream),
           NEW q, q = New(stream, c)
    PROVE  /\ q \in Seq(Nat) /\ Len(q) \in Nat /\ c + Len(q) <= Len(stream)
           /\ DOMAIN q = 1..Len(q)
           /\ \A i \in DOMAIN q : q[i] = c + i
           /\ ToSet(q) = (c + 1)..(c + Len(q))
           /\ q = << >> <=> Len(q) = 0
  <1> DEFINE n == Min({BatchSize, Len(stream) - c})
             room == Len(stream) - c
  <1>1. n \in Nat /\ n <= room
    <2>1. BatchSize \in Nat /\ room \in Nat /\ BatchSize \in Int /\ room \in Int
      BY DEF WorkerAssumption
    <2> HIDE DEF room
    <2>2. Min({BatchSize, room}) \in {BatchSize, room} /\ Min({BatchSize, room}) <= room
      BY <2>1, LeastOfTwo
    <2> QED
      BY <2>1, <2>2 DEF room
  <1>2. q = [i \in 1..n |-> c + i]
    BY DEF New
  <1>3. c + n <= Len(stream)
    <2>1. Len(stream) \in Nat
      BY SeqFacts
    <2> HIDE DEF n
    <2> QED
      BY <1>1, <2>1
  <1> HIDE DEF n, room
  <1>4. q \in Seq(Nat) /\ Len(q) = n /\ DOMAIN q = 1..n
    BY <1>1, <1>2
  <1>5. ToSet(q) = (c + 1)..(c + n)
    <2>1. ASSUME NEW x \in (c + 1)..(c + n)
          PROVE  x - c \in 1..n /\ q[x - c] = x
      BY <1>1, <1>2
    <2>2. ASSUME NEW i \in 1..n
          PROVE  q[i] \in (c + 1)..(c + n)
      BY <1>1, <1>2
    <2> QED
      BY <1>4, <2>1, <2>2 DEF ToSet
  <1>6. q = << >> <=> Len(q) = 0
    BY <1>4, SeqFacts
  <1> QED
    BY <1>1, <1>2, <1>3, <1>4, <1>5, <1>6

\* The cursor of one stream moves.
LEMMA CursorMoves ==
    ASSUME NEW c \in [{"ledger", "ticks"} -> Nat \cup {NoGroup}], NEW n \in Nat
    PROVE  /\ c.ledger \in Nat =>
                LET d == [c EXCEPT !.ledger = @ + n]
                IN  /\ d \in [{"ledger", "ticks"} -> Nat \cup {NoGroup}]
                    /\ d.ledger = c.ledger + n /\ d.ticks = c.ticks
           /\ c.ticks \in Nat =>
                LET d == [c EXCEPT !.ticks = @ + n]
                IN  /\ d \in [{"ledger", "ticks"} -> Nat \cup {NoGroup}]
                    /\ d.ticks = c.ticks + n /\ d.ledger = c.ledger
  BY DEF NoGroup

\* Each step of the worker or of time leaves the group consistent.
LEMMA GroupStep == WorkerAssumption /\ IInv /\ [Next]_vars => GroupInv'
  <1> SUFFICES ASSUME WorkerAssumption, IInv, [Next]_vars
               PROVE  GroupInv'
    OBVIOUS
  <1>1. /\ GroupInv
        /\ Len(ledger) \in Nat /\ Len(ledger') \in Nat /\ Len(ledger) <= Len(ledger')
        /\ Len(ticks) \in Nat /\ Len(ticks') \in Nat /\ Len(ticks) <= Len(ticks')
        /\ cursor.ledger \in Nat \cup {-1} /\ cursor.ticks \in Nat \cup {-1}
    BY StreamType, StreamGrows DEF IInv
  <1>2. CASE UNCHANGED group
    BY <1>1, <1>2 DEF group, GroupInv, Delivered
  <1>3. ASSUME NEW i \in 1..MaxEntries, Age(i)
        PROVE  GroupInv'
    <2>1. i \in pending /\ idle' = idle \cup {i}
          /\ UNCHANGED <<cursor, pending, tickPending, ledger, ticks>>
      BY <1>3 DEF Age, streams
    <2>2. idle' \subseteq pending'
      BY <1>1, <2>1 DEF GroupInv
    <2>3. pending' \subseteq Delivered'
      BY <1>1, <2>1 DEF GroupInv, Delivered
    <2> QED
      BY <1>1, <2>1, <2>2, <2>3 DEF GroupInv
  <1>4. CASE Start
    <2>1. /\ cursor' = [s \in DOMAIN cursor |-> IF cursor[s] = NoGroup THEN 0 ELSE cursor[s]]
          /\ UNCHANGED <<pending, idle, tickPending, ledger, ticks>>
      BY <1>4 DEF Start, EnsureGroups, streams
    <2>2. /\ cursor' \in [{"ledger", "ticks"} -> Nat \cup {NoGroup}]
          /\ cursor'.ledger = IF cursor.ledger = NoGroup THEN 0 ELSE cursor.ledger
          /\ cursor'.ticks = IF cursor.ticks = NoGroup THEN 0 ELSE cursor.ticks
      BY <1>1, <2>1 DEF GroupInv
    <2>3. cursor'.ledger <= Len(ledger') /\ cursor'.ticks <= Len(ticks')
      BY <1>1, <2>1, <2>2 DEF GroupInv
    <2>4. pending' \subseteq Delivered' /\ tickPending' \subseteq 1..cursor'.ticks
      BY <1>1, <2>1, <2>2 DEF GroupInv, Delivered, NoGroup
    <2> QED
      BY <1>1, <2>1, <2>2, <2>3, <2>4 DEF GroupInv
  <1>5. CASE Reclaim
    BY <1>1, <1>5 DEF Reclaim, GroupInv, Delivered, streams
  <1>6. CASE ReadTicks
    <2>1. cursor.ticks \in Nat /\ cursor.ticks <= Len(ticks) /\ ticks \in Seq(0..Len(Quotes))
      BY <1>1, <1>6 DEF ReadTicks, IInv, ProcessInv, NoGroup, GroupInv, StreamInv
    <2>2. /\ batch' = New(ticks, cursor.ticks)
          /\ cursor' = [cursor EXCEPT !.ticks = @ + Len(batch')]
          /\ tickPending' = tickPending \cup ToSet(batch')
          /\ UNCHANGED <<ledger, ticks, pending, idle>>
      BY <1>6 DEF ReadTicks, streams
    <2>3. /\ Len(batch') \in Nat /\ cursor.ticks + Len(batch') <= Len(ticks)
          /\ ToSet(batch') = (cursor.ticks + 1)..(cursor.ticks + Len(batch'))
      BY <2>1, <2>2, NewFacts
    <2>4. /\ cursor' \in [{"ledger", "ticks"} -> Nat \cup {NoGroup}]
          /\ cursor'.ledger = cursor.ledger /\ cursor'.ticks = cursor.ticks + Len(batch')
      <3>1. cursor \in [{"ledger", "ticks"} -> Nat \cup {NoGroup}]
        BY <1>1 DEF GroupInv
      <3> QED
        BY <2>1, <2>2, <2>3, <3>1, CursorMoves
    <2>5. tickPending' \subseteq 1..cursor'.ticks
      BY <1>1, <2>1, <2>2, <2>3, <2>4 DEF GroupInv
    <2> QED
      BY <1>1, <2>2, <2>3, <2>4, <2>5 DEF GroupInv, Delivered
  <1>7. CASE AckTick
    BY <1>1, <1>7 DEF AckTick, GroupInv, Delivered, streams
  <1>8. CASE Drain
    <2>1. cursor.ledger \in Nat /\ cursor.ledger <= Len(ledger) /\ ledger \in Seq(Events \cup {0})
      BY <1>1, <1>8 DEF Drain, IInv, ProcessInv, NoGroup, GroupInv, StreamInv
    <2>2. /\ batch' = New(ledger, cursor.ledger)
          /\ cursor' = [cursor EXCEPT !.ledger = @ + Len(batch')]
          /\ pending' = pending \cup ToSet(batch')
          /\ UNCHANGED <<ledger, ticks, idle, tickPending>>
      BY <1>8 DEF Drain, streams
    <2>3. /\ Len(batch') \in Nat /\ cursor.ledger + Len(batch') <= Len(ledger)
          /\ ToSet(batch') = (cursor.ledger + 1)..(cursor.ledger + Len(batch'))
      BY <2>1, <2>2, NewFacts
    <2>4. /\ cursor' \in [{"ledger", "ticks"} -> Nat \cup {NoGroup}]
          /\ cursor'.ticks = cursor.ticks /\ cursor'.ledger = cursor.ledger + Len(batch')
      <3>1. cursor \in [{"ledger", "ticks"} -> Nat \cup {NoGroup}]
        BY <1>1 DEF GroupInv
      <3> QED
        BY <2>1, <2>2, <2>3, <3>1, CursorMoves
    <2>5. pending' \subseteq Delivered'
      BY <1>1, <2>1, <2>2, <2>3, <2>4 DEF GroupInv, Delivered
    <2> QED
      BY <1>1, <2>2, <2>3, <2>4, <2>5 DEF GroupInv
  <1>9. CASE AckEntry
    BY <1>1, <1>9 DEF AckEntry, GroupInv, Delivered, streams
  <1>10. CASE \E i \in 1..MaxEntries : Age(i)
    BY <1>3, <1>10
  <1> QED
    BY <1>2, <1>4, <1>5, <1>6, <1>7, <1>8, <1>9, <1>10, GroupFrame

-----------------------------------------------------------------------------
(* The store *)

\* Sums of numbers taken over some rows of the log are numbers.
LEMMA AccountCashType ==
    ASSUME WorkerAssumption, IInv, NEW a
    PROVE  AccountCash(a) \in Int
  <1> DEFINE D == {d \in ToSet(applied) : Posts[d].account = a}
             w == [e \in D |-> Posts[e].cash_delta]
  <1>1. IsFiniteSet(Events)
    BY FS_Interval DEF Events, WorkerAssumption
  <1>2. applied \in Seq(Events)
    BY DEF IInv, StoreInv
  <1>3. D \subseteq Events
    BY <1>2 DEF ToSet
  <1>4. IsFiniteSet(D)
    BY <1>1, <1>3, FS_Subset, Zenon
  <1>5. \A e \in D : w[e] \in Int
    BY <1>3 DEF WorkerAssumption, Events
  <1>6. DOMAIN w = D
    OBVIOUS
  <1>7. SumFunction(w) \in Int
    <2> HIDE DEF D, w
    <2> QED
      BY <1>4, <1>5, <1>6, SumFunctionFacts
  <1>8. AccountCash(a) = SeedCash + SumFunction(w)
    BY DEF AccountCash
  <1> HIDE DEF D, w
  <1> QED
    BY <1>7, <1>8 DEF WorkerAssumption

\* The row inserted last is a row.
LEMMA LatestIsRow ==
    ASSUME WorkerAssumption, IInv, NEW a, NEW s \in Held(a)
    PROVE  /\ Max(Rows(a, s)) \in Rows(a, s) /\ \A i \in Rows(a, s) : i <= Max(Rows(a, s))
           /\ Rows(a, s) \subseteq DOMAIN applied /\ Rows(a, s) \subseteq Nat
           /\ LatestRow(a, s).position_after \in Int /\ LatestRow(a, s).price \in Int
  <1> DEFINE n == Len(applied)
             R == Rows(a, s)
  <1>1. applied \in Seq(Events)
    BY DEF IInv, StoreInv
  <1>2. n \in Nat /\ DOMAIN applied = 1..n /\ \A i \in DOMAIN applied : applied[i] \in Events
    BY <1>1, SeqFacts
  <1>3. R \subseteq DOMAIN applied /\ R # {}
    BY DEF Rows, Held
  <1>4. R \in SUBSET (0..n) /\ R \subseteq Nat
    BY <1>2, <1>3
  <1>5. Max(R) \in R /\ \A i \in R : i <= Max(R)
    <2> HIDE DEF R, n
    <2> QED
      BY <1>2, <1>3, <1>4, GreatestNumber
  <1>6. applied[Max(R)] \in Events
    BY <1>2, <1>3, <1>5
  <1> QED
    BY <1>3, <1>4, <1>5, <1>6 DEF LatestRow, WorkerAssumption, Events

\* A position is worth a number, at the live price or the trade's.
LEMMA MarkType ==
    ASSUME WorkerAssumption, IInv, NEW a, NEW s \in Held(a)
    PROVE  Mark(a, s) \in Int
  <1>1. s \in Symbols
    BY DEF Held
  <1>2. CASE price_cache[s] # 0
    <2>1. price_cache[s] \in DOMAIN ticks /\ ticks[price_cache[s]] # 0
      BY <1>1, <1>2, StreamType DEF IInv, StoreInv
    <2>2. ticks[price_cache[s]] \in 1..Len(Quotes)
      BY <2>1, StreamType DEF WorkerAssumption
    <2> QED
      BY <1>2, <2>2 DEF Mark, WorkerAssumption
  <1>3. CASE price_cache[s] = 0
    BY <1>3, LatestIsRow DEF Mark
  <1> QED
    BY <1>2, <1>3

\* An account's value is a number.
LEMMA PortfolioValueType ==
    ASSUME WorkerAssumption, IInv, NEW a
    PROVE  PortfolioValue(a) \in Int
  <1> DEFINE w == [s \in Held(a) |-> LatestRow(a, s).position_after * Mark(a, s)]
  <1>1. IsFiniteSet(Symbols)
    <2> DEFINE P == {Posts[e].symbol : e \in Events}
               Q == {Quotes[q].symbol : q \in 1..Len(Quotes)}
               I == 1..Len(Quotes)
               f == [e \in Events |-> Posts[e].symbol]
               g == [q \in I |-> Quotes[q].symbol]
    <2>1. IsFiniteSet(Events) /\ IsFiniteSet(I)
      BY FS_Interval DEF Events, WorkerAssumption
    <2>2. f \in Surjection(Events, P) /\ g \in Surjection(I, Q)
      BY DEF Surjection
    <2>3. Symbols = P \cup Q
      BY DEF Symbols
    <2> HIDE DEF P, Q, I, f, g
    <2>4. IsFiniteSet(P) /\ IsFiniteSet(Q)
      BY <2>1, <2>2, FS_Surjection
    <2> QED
      BY <2>3, <2>4, FS_Union
  <1>2. IsFiniteSet(Held(a))
    BY <1>1, FS_Subset DEF Held
  <1>3. \A s \in Held(a) : w[s] \in Int
    BY LatestIsRow, MarkType
  <1>4. DOMAIN w = Held(a)
    OBVIOUS
  <1>5. SumFunction(w) \in Int
    <2> HIDE DEF w
    <2> QED
      BY <1>2, <1>3, <1>4, SumFunctionFacts
  <1>6. PortfolioValue(a) = AccountCash(a) + SumFunction(w)
    BY DEF PortfolioValue
  <1> HIDE DEF w
  <1> QED
    BY <1>5, <1>6, AccountCashType

\* A rolling window keeps its bound.
LEMMA SlideType ==
    ASSUME WorkerAssumption, NEW window \in Seq(Int), NEW x \in Int
    PROVE  Slide(window, x) \in Seq(Int) /\ Len(Slide(window, x)) <= WindowSize + 1
  <1> DEFINE longer == Append(window, x)
             keep == WindowSize + 1
             n == Len(longer)
  <1>1. longer \in Seq(Int) /\ n \in Nat /\ keep \in Nat
    BY SeqFacts DEF WorkerAssumption
  <1>2. Slide(window, x) = IF n > keep THEN SubSeq(longer, n - keep + 1, n) ELSE longer
    BY DEF Slide
  <1> HIDE DEF longer, keep
  <1>3. CASE n > keep
    <2> DEFINE q == SubSeq(longer, n - keep + 1, n)
               from == n - keep + 1
    <2>1. n \in Nat /\ keep \in Nat /\ n > keep /\ keep >= 1
      BY <1>1, <1>3 DEF keep, WorkerAssumption
    <2>2. \A i \in 1..n : longer[i] \in Int
      BY <1>1, SeqFacts
    <2> HIDE DEF n
    <2>5. from \in Int /\ from <= n /\ n - from + 1 = keep /\ from..n \subseteq 1..n
      BY <2>1
    <2>3. q \in Seq(Int) /\ Len(q) = keep
      <3>1. q = SubSeq(longer, from, n)
        OBVIOUS
      <3> HIDE DEF q, from
      <3> QED
        BY <2>1, <2>2, <2>5, <3>1, SubSeqProperties
    <2>4. Slide(window, x) = q
      BY <1>2, <1>3
    <2> HIDE DEF q
    <2> QED
      BY <1>1, <2>3, <2>4 DEF keep
  <1>4. CASE ~(n > keep)
    BY <1>1, <1>2, <1>4 DEF keep
  <1> QED
    BY <1>3, <1>4

\* The parts of the store a step leaves alone stay as they should be.
LEMMA StoreKept ==
    ASSUME WorkerAssumption, IInv, [Next]_vars
    PROVE  /\ UNCHANGED applied =>
                /\ applied' \in Seq(Events)
                /\ \A i, j \in DOMAIN applied' : applied'[i] = applied'[j] => i = j
           /\ UNCHANGED price_cache =>
                /\ price_cache' \in [Symbols -> 0..Len(ticks')]
                /\ \A s \in Symbols : price_cache'[s] # 0 => ticks'[price_cache'[s]] # 0
           /\ UNCHANGED price_history =>
                /\ DOMAIN price_history' = Symbols
                /\ \A s \in Symbols : /\ price_history'[s] \in Seq(Int)
                                      /\ Len(price_history'[s]) <= WindowSize + 1
           /\ UNCHANGED pv_history =>
                /\ DOMAIN pv_history' = Accounts
                /\ \A a \in Accounts : /\ pv_history'[a] \in Seq(Int)
                                       /\ Len(pv_history'[a]) <= WindowSize + 1
           /\ UNCHANGED <<risk_snapshots, wire>> =>
                DOMAIN risk_snapshots' = Accounts /\ DOMAIN wire' = Accounts
  <1>1. UNCHANGED price_cache =>
          /\ price_cache' \in [Symbols -> 0..Len(ticks')]
          /\ \A s \in Symbols : price_cache'[s] # 0 => ticks'[price_cache'[s]] # 0
    <2> SUFFICES ASSUME UNCHANGED price_cache
                 PROVE  /\ price_cache \in [Symbols -> 0..Len(ticks')]
                        /\ \A s \in Symbols : price_cache[s] # 0 => ticks'[price_cache[s]] # 0
      OBVIOUS
    <2>1. /\ price_cache \in [Symbols -> 0..Len(ticks)]
          /\ \A s \in Symbols : price_cache[s] # 0 => ticks[price_cache[s]] # 0
      BY DEF IInv, StoreInv
    <2>2. /\ Len(ticks) \in Nat /\ Len(ticks') \in Nat /\ Len(ticks) <= Len(ticks')
          /\ DOMAIN ticks = 1..Len(ticks) /\ \A i \in DOMAIN ticks : ticks'[i] = ticks[i]
      BY StreamType, StreamGrows
    <2>3. \A s \in Symbols : price_cache[s] \in 0..Len(ticks) /\ price_cache[s] \in 0..Len(ticks')
      BY <2>1, <2>2
    <2>4. \A s \in Symbols : price_cache[s] # 0 => price_cache[s] \in DOMAIN ticks
      BY <2>2, <2>3
    <2> QED
      BY <2>1, <2>2, <2>3, <2>4
  <1> QED
    BY <1>1 DEF IInv, StoreInv

\* Each step leaves the store consistent.
LEMMA StoreStep == WorkerAssumption /\ IInv /\ [Next]_vars => StoreInv'
  <1> SUFFICES ASSUME WorkerAssumption, IInv, [Next]_vars
               PROVE  StoreInv'
    OBVIOUS
  <1> USE DEF prices, valued
  <1>1. CASE UNCHANGED <<applied, prices, valued, wire>>
    BY <1>1, StoreKept DEF StoreInv
  <1>2. CASE UpsertPrice
    <2>1. /\ pc = "price" /\ UNCHANGED <<ticks, applied, price_history, pv_history, risk_snapshots, wire>>
          /\ IF Tick = 0 THEN UNCHANGED price_cache
             ELSE price_cache' = [price_cache EXCEPT ![Quotes[Tick].symbol] = Head(batch)]
      BY <1>2 DEF UpsertPrice, streams
    <2>2. /\ price_cache' \in [Symbols -> 0..Len(ticks')]
          /\ \A s \in Symbols : price_cache'[s] # 0 => ticks'[price_cache'[s]] # 0
      <3>1. CASE Tick = 0
        BY <2>1, <3>1, StoreKept
      <3>2. CASE Tick # 0
        <4> DEFINE k == Quotes[Tick].symbol
                   h == Head(batch)
        <4>1. k \in Symbols /\ h \in 0..Len(ticks) /\ ticks[h] # 0
          BY <2>1, <3>2, TickType, StreamType DEF OnTicks
        <4>2. price_cache' = [price_cache EXCEPT ![k] = h] /\ ticks' = ticks
          BY <2>1, <3>2
        <4>3. /\ price_cache \in [Symbols -> 0..Len(ticks)]
              /\ \A s \in Symbols : price_cache[s] # 0 => ticks[price_cache[s]] # 0
          BY DEF IInv, StoreInv
        <4> HIDE DEF k, h
        <4> QED
          BY <4>1, <4>2, <4>3
      <3> QED
        BY <3>1, <3>2
    <2> QED
      BY <2>1, <2>2, StoreKept DEF StoreInv
  <1>3. CASE AppendPrice
    <2>1. /\ pc = "price_history" /\ UNCHANGED <<ticks, applied, price_cache, pv_history, risk_snapshots, wire>>
          /\ price_history' = [price_history EXCEPT ![Quotes[Tick].symbol] = Slide(@, Quotes[Tick].price)]
      BY <1>3 DEF AppendPrice, streams
    <2>2. Quotes[Tick].symbol \in Symbols /\ Quotes[Tick].price \in Int
      BY <2>1, TickType DEF OnTicks, IInv, EntryInv
    <2> DEFINE k == Quotes[Tick].symbol
               new == Slide(price_history[k], Quotes[Tick].price)
    <2>3. /\ DOMAIN price_history = Symbols
          /\ \A s \in Symbols : /\ price_history[s] \in Seq(Int)
                                /\ Len(price_history[s]) <= WindowSize + 1
      BY DEF IInv, StoreInv
    <2>4. new \in Seq(Int) /\ Len(new) <= WindowSize + 1
      BY <2>2, <2>3, SlideType
    <2>5. price_history' = [price_history EXCEPT ![k] = new] /\ k \in Symbols
      BY <2>1, <2>2
    <2> HIDE DEF k, new
    <2>6. /\ DOMAIN price_history' = Symbols
          /\ \A s \in Symbols : price_history'[s] = IF s = k THEN new ELSE price_history[s]
      BY <2>3, <2>5
    <2>7. \A s \in Symbols : /\ price_history'[s] \in Seq(Int)
                             /\ Len(price_history'[s]) <= WindowSize + 1
      BY <2>3, <2>4, <2>6
    <2> QED
      BY <2>1, <2>6, <2>7, StoreKept DEF StoreInv
  <1>4. CASE ApplyEvent
    <2>1. /\ pc = "apply" /\ Entry # 0 /\ ~AlreadyApplied(Entry)
          /\ applied' = Append(applied, Entry)
          /\ UNCHANGED <<price_cache, price_history, pv_history, risk_snapshots, wire>>
      BY <1>4 DEF ApplyEvent
    <2>2. Entry \in Events /\ applied \in Seq(Events)
      BY <2>1, EntryType DEF OnEntries, IInv, StoreInv
    <2>3. /\ applied' \in Seq(Events) /\ DOMAIN applied' = DOMAIN applied \cup {Len(applied) + 1}
          /\ \A i \in DOMAIN applied : applied'[i] = applied[i]
          /\ applied'[Len(applied) + 1] = Entry
          /\ DOMAIN applied = 1..Len(applied)
      BY <2>1, <2>2, SeqFacts
    <2>4. \A i \in DOMAIN applied : applied[i] # Entry
      BY <2>1, <2>3 DEF AlreadyApplied, Contains
    <2>5. \A i, j \in DOMAIN applied : applied[i] = applied[j] => i = j
      BY DEF IInv, StoreInv
    <2>6. \A i, j \in DOMAIN applied' : applied'[i] = applied'[j] => i = j
      BY <2>3, <2>4, <2>5
    <2> QED
      BY <2>1, <2>3, <2>6, StoreKept DEF StoreInv
  <1>5. CASE SaveSnapshot
    <2>1. /\ DOMAIN risk_snapshots' = DOMAIN risk_snapshots
          /\ UNCHANGED <<applied, price_cache, price_history, pv_history, wire>>
      BY <1>5 DEF SaveSnapshot
    <2>2. DOMAIN risk_snapshots' = Accounts /\ DOMAIN wire' = Accounts
      BY <2>1 DEF IInv, StoreInv
    <2> QED
      BY <2>1, <2>2, StoreKept DEF StoreInv
  <1>6. CASE Publish
    <2>1. /\ DOMAIN wire' = DOMAIN wire
          /\ UNCHANGED <<applied, price_cache, price_history, pv_history, risk_snapshots>>
      BY <1>6 DEF Publish
    <2>2. DOMAIN risk_snapshots' = Accounts /\ DOMAIN wire' = Accounts
      BY <2>1 DEF IInv, StoreInv
    <2> QED
      BY <2>1, <2>2, StoreKept DEF StoreInv
  <1>7. CASE Sample
    <2>1. /\ pc = "sample" /\ UNCHANGED <<applied, price_cache, price_history, risk_snapshots, wire>>
          /\ pv_history' = [pv_history EXCEPT ![Subject] = Slide(@, PortfolioValue(Subject))]
      BY <1>7 DEF Sample
    <2>2. Subject \in Accounts
      BY <2>1, SubjectType
    <2> DEFINE k == Subject
               new == Slide(pv_history[k], PortfolioValue(k))
    <2>3. /\ DOMAIN pv_history = Accounts
          /\ \A a \in Accounts : /\ pv_history[a] \in Seq(Int)
                                 /\ Len(pv_history[a]) <= WindowSize + 1
      BY DEF IInv, StoreInv
    <2>4. new \in Seq(Int) /\ Len(new) <= WindowSize + 1
      BY <2>2, <2>3, SlideType, PortfolioValueType
    <2>5. pv_history' = [pv_history EXCEPT ![k] = new] /\ k \in Accounts
      BY <2>1, <2>2
    <2> HIDE DEF k, new
    <2>6. /\ DOMAIN pv_history' = Accounts
          /\ \A a \in Accounts : pv_history'[a] = IF a = k THEN new ELSE pv_history[a]
      BY <2>3, <2>5
    <2>7. \A a \in Accounts : /\ pv_history'[a] \in Seq(Int)
                              /\ Len(pv_history'[a]) <= WindowSize + 1
      BY <2>3, <2>4, <2>6
    <2> QED
      BY <2>1, <2>6, <2>7, StoreKept DEF StoreInv
  <1> QED
    BY <1>1, <1>2, <1>3, <1>4, <1>5, <1>6, <1>7, StoreFrame

-----------------------------------------------------------------------------
(* The process *)

\* The rest of a batch, once its first is acknowledged.
LEMMA ListsRest ==
    ASSUME NEW S, NEW q, Lists(q, S)
    PROVE  /\ Len(q) \in Nat /\ Len(q) >= 1
           /\ Len(q) = 1 => Tail(q) = << >>
           /\ Len(q) > 1 => Lists(Tail(q), S \ {Head(q)})
  <1>1. q \in Seq(Nat) /\ q # << >>
    BY DEF Lists
  <1>2. /\ DOMAIN q = 1..Len(q) /\ Len(q) \in Nat /\ Len(q) # 0
        /\ 1 \in DOMAIN q /\ Head(q) = q[1]
        /\ Tail(q) \in Seq(Nat) /\ Len(Tail(q)) = Len(q) - 1
        /\ \A i \in DOMAIN Tail(q) : i + 1 \in DOMAIN q /\ Tail(q)[i] = q[i + 1]
    BY <1>1, SeqFacts
  <1> DEFINE r == Tail(q)
             n == Len(q)
  <1>3. /\ r \in Seq(Nat) /\ Len(r) = n - 1 /\ n \in Nat /\ n # 0
        /\ \A i \in DOMAIN r : i + 1 \in DOMAIN q /\ r[i] = q[i + 1]
    BY <1>2
  <1>4. (r = << >> <=> Len(r) = 0) /\ DOMAIN r = 1..Len(r)
    BY <1>2, SeqFacts
  <1> HIDE DEF r, n
  <1>5. n >= 1 /\ (n = 1 => r = << >>) /\ (n > 1 => r # << >>)
    BY <1>3, <1>4
  <1>6. ASSUME NEW i \in DOMAIN r
        PROVE  r[i] \in S \ {Head(q)}
    <2>1. i + 1 \in DOMAIN q /\ 1 < i + 1 /\ r[i] = q[i + 1]
      BY <1>3, <1>4
    <2>2. q[1] < q[i + 1] /\ q[i + 1] \in S /\ q[1] \in Nat /\ q[i + 1] \in Nat
      BY <1>1, <1>2, <2>1, SeqFacts DEF Lists
    <2>3. q[i + 1] # q[1]
      BY <2>2
    <2> QED
      BY <1>2, <2>1, <2>2, <2>3
  <1>7. ASSUME NEW i \in DOMAIN r, NEW j \in DOMAIN r, i < j
        PROVE  r[i] < r[j]
    <2>1. i + 1 \in DOMAIN q /\ j + 1 \in DOMAIN q /\ i + 1 < j + 1
      BY <1>3, <1>4, <1>7
    <2>2. q[i + 1] < q[j + 1]
      BY <2>1 DEF Lists
    <2> QED
      BY <1>3, <2>2
  <1>8. n > 1 => Lists(r, S \ {Head(q)})
    BY <1>3, <1>5, <1>6, <1>7 DEF Lists
  <1> QED
    BY <1>3, <1>5, <1>8 DEF r, n

\* Entries claimed by a reclaim are pending ones.
LEMMA ReclaimBatch ==
    ASSUME WorkerAssumption, IInv, Reclaim
    PROVE  batch' = << >> \/ Lists(batch', pending')
  <1>1. batch' \in Ascending(Lowest(idle, BatchSize)) /\ pending' = pending
    BY DEF Reclaim
  <1>2. Lowest(idle, BatchSize) \subseteq pending
    BY StreamType DEF Lowest
  <1>3. Lowest(idle, BatchSize) \in SUBSET (1..Len(ledger)) /\ Len(ledger) \in Nat
    BY <1>2, StreamType
  <1> DEFINE q == batch'
             S == Lowest(idle, BatchSize)
  <1>4. q \in Ascending(S) /\ S \in SUBSET (1..Len(ledger)) /\ Len(ledger) \in Nat
    BY <1>1, <1>3
  <1> HIDE DEF q, S
  <1>5. /\ q \in Seq(Nat)
        /\ \A i, j \in DOMAIN q : i < j => q[i] < q[j]
        /\ \A i \in DOMAIN q : q[i] \in S
    BY <1>4, AscendingFacts
  <1>6. q = << >> \/ Lists(q, pending)
    BY <1>2, <1>5 DEF Lists, S
  <1> QED
    BY <1>1, <1>6 DEF q

\* New entries are listed in order.
LEMMA NewLists ==
    ASSUME WorkerAssumption, NEW S, NEW stream \in Seq(S), NEW c \in Nat, c <= Len(stream),
           NEW q, q = New(stream, c), NEW T, ToSet(q) \subseteq T
    PROVE  q = << >> \/ Lists(q, T)
  <1>1. q \in Seq(Nat) /\ DOMAIN q \subseteq Nat /\ \A i \in DOMAIN q : q[i] = c + i
    BY NewFacts
  <1>2. \A i \in DOMAIN q : q[i] \in T
    BY DEF ToSet
  <1>3. \A i, j \in DOMAIN q : i < j => q[i] < q[j]
    BY <1>1
  <1> QED
    BY <1>1, <1>2, <1>3 DEF Lists

\* A recompute lists accounts of the log.
LEMMA RecomputeBatch ==
    ASSUME WorkerAssumption, IInv, Recompute
    PROVE  \/ pc' = "end" /\ batch' = << >>
           \/ pc' = "sample" /\ batch' \in Seq(Accounts) /\ batch' # << >>
  <1> DEFINE S == {Posts[e].account : e \in ToSet(applied)}
  <1>1. pc = "recompute" /\ batch = << >>
    BY DEF Recompute, IInv, ProcessInv, OnNothing
  <1>2. CASE pc' = "end" /\ UNCHANGED batch
    BY <1>1, <1>2
  <1>3. CASE S # {} /\ batch' \in SetToSeqs(S) /\ pc' = "sample"
    <2>1. ToSet(applied) \subseteq Events /\ S \subseteq Accounts
      BY DEF IInv, StoreInv, ToSet, Accounts
    <2>2. IsFiniteSet(ToSet(applied))
      <3>1. IsFiniteSet(Events)
        BY FS_Interval DEF Events, WorkerAssumption
      <3> QED
        BY <2>1, <3>1, FS_Subset, Zenon
    <2>3. IsFiniteSet(S)
      <3> DEFINE R == ToSet(applied)
                 f == [e \in R |-> Posts[e].account]
      <3>1. f \in Surjection(R, S)
        BY DEF Surjection
      <3> HIDE DEF R, f, S
      <3> QED
        BY <2>2, <3>1, FS_Surjection DEF R
    <2>4. batch' \in [1..Cardinality(S) -> S]
      BY <1>3 DEF SetToSeqs
    <2> DEFINE n == Cardinality(S)
               q == batch'
    <2>5. n \in Nat /\ n # 0
      <3> HIDE DEF S
      <3> QED
        BY <1>3, <2>3, FS_CardinalityType, FS_EmptySet
    <2>6. q \in [1..n -> Accounts]
      BY <2>1, <2>4
    <2> HIDE DEF n, q, S
    <2>7. q \in Seq(Accounts) /\ Len(q) = n
      BY <2>5, <2>6
    <2>8. q # << >>
      BY <2>5, <2>7, SeqFacts
    <2> QED
      BY <1>3, <2>7, <2>8 DEF q
  <1> QED
    BY <1>2, <1>3 DEF Recompute

\* The process and the group stay as they are when the environment moves.
LEMMA ProcessKept ==
    ASSUME IInv, UNCHANGED <<pc, task, batch, cursor, pending, tickPending>>
    PROVE  ProcessInv'
  BY DEF IInv, ProcessInv, OnTicks, OnEntries, OnAccounts, OnNothing

\* A batch of new entries of a stream, in a running process.
LEMMA ReadLists ==
    ASSUME WorkerAssumption, IInv, [Next]_vars
    PROVE  /\ ReadTicks => /\ batch' = << >> \/ Lists(batch', tickPending')
                           /\ cursor'.ledger # NoGroup /\ cursor'.ticks # NoGroup
           /\ Drain => /\ batch' = << >> \/ Lists(batch', pending')
                       /\ cursor'.ledger # NoGroup /\ cursor'.ticks # NoGroup
  <1>1. cursor \in [{"ledger", "ticks"} -> Nat \cup {NoGroup}]
    BY DEF IInv, GroupInv
  <1>2. ASSUME ReadTicks
        PROVE  /\ batch' = << >> \/ Lists(batch', tickPending')
               /\ cursor'.ledger # NoGroup /\ cursor'.ticks # NoGroup
    <2>1. /\ cursor.ticks \in Nat /\ cursor.ledger \in Nat
          /\ cursor.ticks <= Len(ticks) /\ ticks \in Seq(0..Len(Quotes))
      BY <1>1, <1>2 DEF ReadTicks, IInv, ProcessInv, NoGroup, GroupInv, StreamInv
    <2>2. /\ batch' = New(ticks, cursor.ticks)
          /\ cursor' = [cursor EXCEPT !.ticks = @ + Len(batch')]
          /\ ToSet(batch') \subseteq tickPending'
      BY <1>2 DEF ReadTicks
    <2>3. batch' = << >> \/ Lists(batch', tickPending')
      BY <2>1, <2>2, NewLists
    <2>4. Len(batch') \in Nat
      BY <2>1, <2>2, NewFacts
    <2>5. cursor'.ticks = cursor.ticks + Len(batch') /\ cursor'.ledger = cursor.ledger
      BY <1>1, <2>1, <2>2, <2>4, CursorMoves
    <2> QED
      BY <2>1, <2>3, <2>4, <2>5 DEF NoGroup
  <1>3. ASSUME Drain
        PROVE  /\ batch' = << >> \/ Lists(batch', pending')
               /\ cursor'.ledger # NoGroup /\ cursor'.ticks # NoGroup
    <2>1. /\ cursor.ticks \in Nat /\ cursor.ledger \in Nat
          /\ cursor.ledger <= Len(ledger) /\ ledger \in Seq(Events \cup {0})
      BY <1>1, <1>3 DEF Drain, IInv, ProcessInv, NoGroup, GroupInv, StreamInv
    <2>2. /\ batch' = New(ledger, cursor.ledger)
          /\ cursor' = [cursor EXCEPT !.ledger = @ + Len(batch')]
          /\ ToSet(batch') \subseteq pending'
      BY <1>3 DEF Drain
    <2>3. batch' = << >> \/ Lists(batch', pending')
      BY <2>1, <2>2, NewLists
    <2>4. Len(batch') \in Nat
      BY <2>1, <2>2, NewFacts
    <2>5. cursor'.ledger = cursor.ledger + Len(batch') /\ cursor'.ticks = cursor.ticks
      BY <1>1, <2>1, <2>2, <2>4, CursorMoves
    <2> QED
      BY <2>1, <2>3, <2>4, <2>5 DEF NoGroup
  <1> QED
    BY <1>2, <1>3

\* The rest of a recompute's accounts.
LEMMA AccountsRest ==
    ASSUME batch \in Seq(Accounts), batch # << >>
    PROVE  /\ Len(batch) = 1 => Tail(batch) = << >>
           /\ Len(batch) # 1 => Tail(batch) \in Seq(Accounts) /\ Tail(batch) # << >>
  <1> DEFINE A == Accounts
             r == Tail(batch)
             n == Len(batch)
  <1> HIDE DEF A
  <1>1. /\ n \in Nat /\ n # 0 /\ r \in Seq(A) /\ Len(r) = n - 1
    BY SeqFacts DEF A
  <1>2. r = << >> <=> Len(r) = 0
    BY <1>1, SeqFacts
  <1> HIDE DEF r, n
  <1> QED
    BY <1>1, <1>2 DEF r, n, A

\* Each step leaves the process with something to work on.
LEMMA ProcessStep == WorkerAssumption /\ IInv /\ [Next]_vars => ProcessInv'
  <1> SUFFICES ASSUME WorkerAssumption, IInv, [Next]_vars
               PROVE  ProcessInv'
    OBVIOUS
  <1> USE DEF OnTicks, OnEntries, OnAccounts, OnNothing
  <1>1. ProcessInv
    BY DEF IInv
  <1>2. ASSUME NEW e \in Events \cup {0}, LedgerPublishes(e)
        PROVE  ProcessInv'
    BY <1>2, ProcessKept DEF LedgerPublishes, process, group
  <1>3. ASSUME NEW q \in 0..Len(Quotes), MarketPublishes(q)
        PROVE  ProcessInv'
    BY <1>3, ProcessKept DEF MarketPublishes, process, group
  <1>4. ASSUME NEW i \in 1..MaxEntries, Age(i)
        PROVE  ProcessInv'
    BY <1>4, ProcessKept DEF Age, process
  <1>5. CASE Elapse \/ UNCHANGED vars
    BY <1>5, ProcessKept DEF Elapse, vars, process, group
  <1>6. CASE Crash
    BY <1>6 DEF Crash, ProcessInv
  <1>7. CASE Start
    <2>1. cursor \in [{"ledger", "ticks"} -> Nat \cup {NoGroup}]
      BY DEF IInv, GroupInv
    <2>2. cursor'.ledger # NoGroup /\ cursor'.ticks # NoGroup
      BY <1>7, <2>1 DEF Start, EnsureGroups, NoGroup
    <2> QED
      BY <1>1, <1>7, <2>2 DEF Start, ProcessInv
  <1>8. CASE Reclaim
    <2>1. batch' = << >> \/ Lists(batch', pending')
      BY <1>8, ReclaimBatch
    <2> QED
      BY <1>1, <1>8, <2>1 DEF Reclaim, ProcessInv, Lists
  <1>9. CASE ReadTicks
    <2>1. /\ batch' = << >> \/ Lists(batch', tickPending')
          /\ cursor'.ledger # NoGroup /\ cursor'.ticks # NoGroup
      BY <1>9, ReadLists
    <2> QED
      BY <1>1, <1>9, <2>1 DEF ReadTicks, ProcessInv, Lists
  <1>10. CASE UpsertPrice
    BY <1>1, <1>10 DEF UpsertPrice, ProcessInv, group
  <1>11. CASE AppendPrice
    BY <1>1, <1>11 DEF AppendPrice, ProcessInv, group
  <1>12. CASE AckTick
    <2>1. Lists(batch, tickPending)
      BY <1>1, <1>12 DEF AckTick, ProcessInv
    <2>2. /\ Len(batch) \in Nat /\ Len(batch) >= 1
          /\ Len(batch) = 1 => batch' = << >>
          /\ Len(batch) > 1 => Lists(batch', tickPending')
      BY <1>12, <2>1, ListsRest DEF AckTick
    <2>3. \/ Len(batch) = 1 /\ batch' = << >>
          \/ Len(batch) # 1 /\ Lists(batch', tickPending')
      <3> DEFINE n == Len(batch)
                 L == Lists(batch', tickPending')
      <3>1. n \in Nat /\ n >= 1 /\ (n = 1 => batch' = << >>) /\ (n > 1 => L)
        BY <2>2
      <3> HIDE DEF n, L
      <3>2. (n = 1 /\ batch' = << >>) \/ (n # 1 /\ L)
        BY <3>1
      <3> QED
        BY <3>2 DEF n, L
    <2>4. /\ pc = "ack_tick" /\ pc' = IF Len(batch) = 1 THEN "drain" ELSE "price"
          /\ UNCHANGED <<cursor, pending, task>>
      BY <1>12 DEF AckTick
    <2> QED
      BY <1>1, <1>12, <2>3, <2>4 DEF ProcessInv
  <1>13. CASE Drain
    <2>1. /\ batch' = << >> \/ Lists(batch', pending')
          /\ cursor'.ledger # NoGroup /\ cursor'.ticks # NoGroup
      BY <1>13, ReadLists
    <2> QED
      BY <1>1, <1>13, <2>1 DEF Drain, ProcessInv, Lists
  <1>14. CASE ApplyEvent
    BY <1>1, <1>14 DEF ApplyEvent, ProcessInv, group
  <1>15. CASE SkipEntry
    BY <1>1, <1>15 DEF SkipEntry, ProcessInv, group
  <1>16. CASE SaveSnapshot
    BY <1>1, <1>16 DEF SaveSnapshot, ProcessInv, group
  <1>17. CASE Publish
    <2>1. CASE task = "recompute"
      <3>1. /\ Len(batch) = 1 => batch' = << >>
            /\ Len(batch) # 1 => batch' \in Seq(Accounts) /\ batch' # << >>
        BY <1>1, <1>17, <2>1, AccountsRest DEF Publish, ProcessInv
      <3> QED
        BY <1>1, <1>17, <2>1, <3>1 DEF Publish, ProcessInv, group
    <2>2. CASE task # "recompute"
      BY <1>1, <1>17, <2>2 DEF Publish, ProcessInv, group
    <2> QED
      BY <2>1, <2>2
  <1>18. CASE AckEntry
    <2>1. Lists(batch, pending)
      BY <1>1, <1>18 DEF AckEntry, ProcessInv
    <2>2. /\ Len(batch) \in Nat /\ Len(batch) >= 1
          /\ Len(batch) = 1 => batch' = << >>
          /\ Len(batch) > 1 => Lists(batch', pending')
      BY <1>18, <2>1, ListsRest DEF AckEntry
    <2> QED
      BY <1>1, <1>18, <2>2 DEF AckEntry, ProcessInv
  <1>19. CASE Recompute
    <2>1. \/ pc' = "end" /\ batch' = << >>
          \/ pc' = "sample" /\ batch' \in Seq(Accounts) /\ batch' # << >>
      BY <1>19, RecomputeBatch
    <2> QED
      BY <1>1, <1>19, <2>1 DEF Recompute, ProcessInv, group
  <1>20. CASE Sample
    BY <1>1, <1>20 DEF Sample, ProcessInv, group
  <1>21. CASE EndCycle
    BY <1>1, <1>21 DEF EndCycle, ProcessInv, group
  <1> QED
    BY <1>2, <1>3, <1>4, <1>5, <1>6, <1>7, <1>8, <1>9, <1>10, <1>11, <1>12, <1>13, <1>14, <1>15,
       <1>16, <1>17, <1>18, <1>19, <1>20, <1>21 DEF Next, WorkerStep

-----------------------------------------------------------------------------
(* Entries, and what is published about them *)

\* While it is at hand, an entry or a tick stays what it is.
LEMMA EntryKept ==
    ASSUME WorkerAssumption, IInv, [Next]_vars, UNCHANGED batch
    PROVE  /\ OnEntries => Entry' = Entry
           /\ OnTicks => Tick' = Tick
  <1>1. ASSUME OnEntries
        PROVE  Entry' = Entry
    BY <1>1, EntryType, StreamGrows DEF Entry
  <1>2. ASSUME OnTicks
        PROVE  Tick' = Tick
    BY <1>2, TickType, StreamGrows DEF Tick
  <1> QED
    BY <1>1, <1>2

\* An event applied stays applied.
LEMMA AppliedKept ==
    ASSUME WorkerAssumption, IInv, [Next]_vars
    PROVE  \A e : AlreadyApplied(e) => Contains(applied', e)
  <1>1. CASE UNCHANGED applied
    BY <1>1 DEF AlreadyApplied
  <1>2. CASE ApplyEvent
    <2>1. applied' = Append(applied, Entry) /\ Entry \in Events /\ applied \in Seq(Events)
      BY <1>2, EntryType DEF ApplyEvent, OnEntries, IInv, StoreInv
    <2>2. /\ DOMAIN applied = 1..Len(applied)
          /\ \A i \in DOMAIN applied : applied'[i] = applied[i]
          /\ Len(applied') = Len(applied) + 1 /\ Len(applied) \in Nat
      BY <2>1, SeqFacts
    <2>3. \A i \in 1..Len(applied) : i \in 1..Len(applied')
      BY <2>2
    <2> QED
      BY <2>2, <2>3 DEF AlreadyApplied, Contains
  <1> QED
    BY <1>1, <1>2, StoreFrame DEF UpsertPrice, AppendPrice, SaveSnapshot, Publish, Sample

\* A step that does not move the process keeps what it knows.
LEMMA EntryInvKept ==
    ASSUME WorkerAssumption, IInv, [Next]_vars,
           UNCHANGED <<pc, task, batch, env, risk_snapshots>>
    PROVE  EntryInv'
  <1>1. EntryInv
    BY DEF IInv
  <1>2. pc = "price_history" => Tick' # 0
    BY <1>1, EntryKept DEF EntryInv, OnTicks
  <1>3. pc \in {"save", "publish"} /\ task # "recompute"
            => Entry' # 0 /\ Contains(applied', Entry')
    BY <1>1, EntryKept, AppliedKept DEF EntryInv, OnEntries
  <1>4. pc = "ack" => Entry' = 0 \/ Contains(applied', Entry')
    BY <1>1, EntryKept, AppliedKept DEF EntryInv, OnEntries
  <1> QED
    BY <1>1, <1>2, <1>3, <1>4 DEF EntryInv, AlreadyApplied

\* Each step knows of the entry at hand what it should.
LEMMA EntryStep == WorkerAssumption /\ IInv /\ [Next]_vars => EntryInv'
  <1> SUFFICES ASSUME WorkerAssumption, IInv, [Next]_vars
               PROVE  EntryInv'
    OBVIOUS
  <1>1. EntryInv
    BY DEF IInv
  <1>2. CASE pc' \notin {"price_history", "save", "publish", "ack"}
    BY <1>2 DEF EntryInv
  <1>3. ASSUME NEW e \in Events \cup {0}, LedgerPublishes(e)
        PROVE  EntryInv'
    BY <1>3, EntryInvKept DEF LedgerPublishes, process, valued
  <1>4. ASSUME NEW q \in 0..Len(Quotes), MarketPublishes(q)
        PROVE  EntryInv'
    BY <1>4, EntryInvKept DEF MarketPublishes, process, valued
  <1>5. ASSUME NEW i \in 1..MaxEntries, Age(i)
        PROVE  EntryInv'
    BY <1>5, EntryInvKept DEF Age, process, valued
  <1>6. CASE Elapse \/ UNCHANGED vars
    BY <1>6, EntryInvKept DEF Elapse, vars, process, valued
  <1>7. CASE UpsertPrice
    <2>1. UNCHANGED batch /\ OnTicks /\ (pc' = "price_history" => Tick # 0)
          /\ pc' \in {"ack_tick", "price_history"}
      BY <1>7 DEF UpsertPrice, OnTicks
    <2> QED
      BY <2>1, EntryKept DEF EntryInv
  <1>8. CASE ApplyEvent
    <2>1. /\ pc = "apply" /\ pc' = "save" /\ UNCHANGED batch /\ Entry # 0
          /\ applied' = Append(applied, Entry)
      BY <1>8 DEF ApplyEvent
    <2>2. Entry \in Events /\ applied \in Seq(Events) /\ Entry' = Entry
      BY <2>1, EntryType, EntryKept DEF OnEntries, IInv, StoreInv
    <2>3. Contains(applied', Entry)
      <3>1. /\ Len(applied') = Len(applied) + 1 /\ Len(applied) \in Nat
            /\ applied'[Len(applied) + 1] = Entry
        BY <2>1, <2>2, SeqFacts
      <3>2. Len(applied) + 1 \in 1..Len(applied')
        BY <3>1
      <3> QED
        BY <3>1, <3>2 DEF Contains
    <2> QED
      BY <2>1, <2>2, <2>3 DEF EntryInv, AlreadyApplied
  <1>9. CASE SkipEntry
    <2>1. /\ pc = "apply" /\ pc' = "ack" /\ UNCHANGED <<batch, applied>>
          /\ Entry = 0 \/ AlreadyApplied(Entry)
      BY <1>9 DEF SkipEntry
    <2>2. Entry' = Entry
      BY <2>1, EntryKept DEF OnEntries
    <2> QED
      BY <2>1, <2>2 DEF EntryInv, AlreadyApplied
  <1>10. CASE SaveSnapshot
    <2>1. /\ pc = "save" /\ pc' = "publish" /\ UNCHANGED <<batch, applied, task>>
          /\ risk_snapshots' = [risk_snapshots EXCEPT ![Subject] = Metrics(Subject)]
          /\ env' = [account |-> Subject, metrics |-> Metrics(Subject)]
      BY <1>10 DEF SaveSnapshot
    <2>2. task # "recompute" => Entry' = Entry
      BY <2>1, EntryKept DEF OnEntries
    <2>3. env'.account \in Accounts /\ env'.metrics = risk_snapshots'[env'.account]
      <3> DEFINE a == Subject
                 m == Metrics(Subject)
      <3>1. a \in Accounts /\ DOMAIN risk_snapshots = Accounts
        BY <2>1, SubjectType DEF IInv, StoreInv
      <3>2. risk_snapshots' = [risk_snapshots EXCEPT ![a] = m] /\ env' = [account |-> a, metrics |-> m]
        BY <2>1
      <3> HIDE DEF a, m
      <3> QED
        BY <3>1, <3>2
    <2> QED
      BY <1>1, <2>1, <2>2, <2>3 DEF EntryInv, AlreadyApplied
  <1>11. CASE Publish
    <2>1. CASE task = "recompute"
      <3>1. pc' \in {"end", "sample"}
        BY <1>11, <2>1 DEF Publish
      <3> QED
        BY <1>2, <3>1
    <2>2. CASE task # "recompute"
      <3>1. pc = "publish" /\ pc' = "ack" /\ UNCHANGED <<batch, applied>>
        BY <1>11, <2>2 DEF Publish
      <3>2. Entry' = Entry /\ AlreadyApplied(Entry)
        BY <1>1, <2>2, <3>1, EntryKept DEF OnEntries, EntryInv
      <3> QED
        BY <3>1, <3>2 DEF EntryInv, AlreadyApplied
    <2> QED
      BY <2>1, <2>2
  <1>12. CASE Sample
    <2>1. task = "recompute" /\ pc' = "save" /\ task' = task
      BY <1>12 DEF Sample, IInv, ProcessInv
    <2> QED
      BY <2>1 DEF EntryInv
  <1>13. CASE \/ Start \/ Crash \/ Reclaim \/ ReadTicks \/ AppendPrice \/ AckTick \/ Drain
              \/ AckEntry \/ Recompute \/ EndCycle
    <2>1. pc' \notin {"price_history", "save", "publish", "ack"}
      BY <1>13 DEF Start, Crash, Reclaim, ReadTicks, AppendPrice, AckTick, Drain, AckEntry,
                   Recompute, EndCycle
    <2> QED
      BY <1>2, <2>1
  <1> QED
    BY <1>3, <1>4, <1>5, <1>6, <1>7, <1>8, <1>9, <1>10, <1>11, <1>12, <1>13 DEF Next, WorkerStep

-----------------------------------------------------------------------------
(* The order of a process that never died *)

\* A position holds a value that no earlier position holds.
FirstAt(L, e, i) == L[i] = e /\ \A k \in 1..i - 1 : L[k] # e

\* A value in a sequence has a first position.
LEMMA FirstPosition ==
    ASSUME NEW n \in Nat, NEW D, D = 1..n, NEW L, NEW e, NEW j \in D, L[j] = e
    PROVE  \E i \in D : FirstAt(L, e, i)
  <1> DEFINE S == {i \in D : L[i] = e}
             x == Min(S)
  <1>1. S \in SUBSET Nat /\ S # {}
    OBVIOUS
  <1>2. x \in S /\ \A i \in S : x <= i
    <2> HIDE DEF S
    <2> QED
      BY <1>1, LeastNumber
  <1> HIDE DEF x
  <1>3. \A k \in 1..x - 1 : k \in D /\ k < x /\ ~(x <= k)
    BY <1>2
  <1> QED
    BY <1>2, <1>3 DEF FirstAt

\* No other position of it comes before.
LEMMA FirstIsLeast ==
    ASSUME NEW n \in Nat, NEW D, D = 1..n, NEW L, NEW e, NEW m \in D, FirstAt(L, e, m)
    PROVE  L[m] = e /\ \A k \in D : L[k] = e => m <= k
  <1> SUFFICES ASSUME NEW k \in D, L[k] = e, k < m
               PROVE  FALSE
    BY DEF FirstAt
  <1>1. k \in 1..m - 1
    OBVIOUS
  <1> QED
    BY <1>1 DEF FirstAt

\* The first copy of an event on the stream.
LEMMA FirstFacts ==
    ASSUME WorkerAssumption, IInv, NEW e, NEW j \in DOMAIN ledger, ledger[j] = e
    PROVE  /\ FirstCopy(e) \in DOMAIN ledger /\ FirstCopy(e) \in Nat
           /\ ledger[FirstCopy(e)] = e
           /\ \A k \in DOMAIN ledger : ledger[k] = e => FirstCopy(e) <= k
  <1> DEFINE n == Len(ledger)
             D == DOMAIN ledger
  <1>1. n \in Nat /\ D = 1..n /\ j \in D /\ ledger[j] = e
    BY StreamType
  <1>2. FirstCopy(e) = CHOOSE i \in D : FirstAt(ledger, e, i)
    BY DEF FirstCopy, FirstAt
  <1> HIDE DEF n, D
  <1>3. FirstCopy(e) \in D /\ FirstAt(ledger, e, FirstCopy(e))
    <2>1. \E i \in D : FirstAt(ledger, e, i)
      BY <1>1, FirstPosition
    <2> QED
      BY <1>2, <2>1
  <1>5. ledger[FirstCopy(e)] = e /\ \A k \in D : ledger[k] = e => FirstCopy(e) <= k
    BY <1>1, <1>3, FirstIsLeast
  <1>4. FirstCopy(e) \in Nat
    BY <1>1, <1>3
  <1> QED
    BY <1>3, <1>4, <1>5 DEF D

\* It stays the first copy as the stream grows.
LEMMA FirstKept ==
    ASSUME WorkerAssumption, IInv, [Next]_vars, NEW e, NEW j \in DOMAIN ledger, ledger[j] = e
    PROVE  FirstCopy(e)' = FirstCopy(e)
  <1>1. /\ FirstCopy(e) \in DOMAIN ledger /\ FirstCopy(e) \in Nat /\ ledger[FirstCopy(e)] = e
        /\ \A k \in DOMAIN ledger : ledger[k] = e => FirstCopy(e) <= k
    BY FirstFacts
  <1>2. /\ Len(ledger) \in Nat /\ DOMAIN ledger = 1..Len(ledger)
        /\ Len(ledger') \in Nat /\ Len(ledger) <= Len(ledger')
        /\ \A i \in DOMAIN ledger : i \in DOMAIN ledger' /\ ledger'[i] = ledger[i]
        /\ DOMAIN ledger' = 1..Len(ledger')
    <2>1. StreamInv'
      BY StreamGrows
    <2> DEFINE S == Events \cup {0}
               q == ledger'
    <2>2. q \in Seq(S)
      BY <2>1 DEF StreamInv, Events
    <2> HIDE DEF S, q
    <2>3. DOMAIN q = 1..Len(q)
      BY <2>2, SeqFacts
    <2> QED
      BY <2>3, StreamGrows, StreamType DEF q
  <1> DEFINE m == FirstCopy(e)
             n == FirstCopy(e)'
             L == ledger'
             D == DOMAIN ledger'
             size == Len(ledger')
  <1>3. n = CHOOSE i \in D : FirstAt(L, e, i)
    BY DEF FirstCopy, FirstAt
  <1>4. size \in Nat /\ D = 1..size /\ j \in D /\ L[j] = e /\ m \in D /\ L[m] = e
    BY <1>1, <1>2
  <1>5. n \in D /\ L[n] = e /\ \A k \in D : L[k] = e => n <= k
    <2> HIDE DEF L, D, size, n, m
    <2>1. \E i \in D : FirstAt(L, e, i)
      BY <1>4, FirstPosition
    <2>2. n \in D /\ FirstAt(L, e, n)
      BY <1>3, <2>1
    <2> QED
      BY <1>4, <2>2, FirstIsLeast
  <1>6. n \in Nat /\ m \in Nat /\ n <= m
    BY <1>1, <1>4, <1>5
  <1>7. n \in DOMAIN ledger
    <2>1. m <= Len(ledger) /\ n >= 1
      BY <1>1, <1>2, <1>4, <1>5
    <2> HIDE DEF m, n
    <2> QED
      BY <1>2, <1>6, <2>1
  <1>8. m <= n
    BY <1>1, <1>2, <1>5, <1>7
  <1> HIDE DEF m, n
  <1>9. m = n
    BY <1>6, <1>8
  <1> QED
    BY <1>9 DEF m, n

\* In a process that never died, an event in the log is on the stream, at a
\* position dealt with.
LEMMA AppliedOnStream ==
    ASSUME WorkerAssumption, IInv, OrderInv, NEW i \in DOMAIN applied
    PROVE  \E j \in DOMAIN ledger : j \in Delivered /\ j <= Done /\ ledger[j] = applied[i]
  <1>1. applied[i] \in ToSet(applied)
    <2>1. applied \in Seq(Events)
      BY DEF IInv, StoreInv
    <2> QED
      BY <2>1 DEF ToSet
  <1>2. PICK j \in Delivered : j <= Done /\ ledger[j] = applied[i]
    BY <1>1 DEF OrderInv
  <1> QED
    BY <1>2, StreamType

\* A row that stays keeps its place in the order.
LEMMA RowKept ==
    ASSUME WorkerAssumption, IInv, OrderInv, [Next]_vars,
           NEW i \in DOMAIN applied, applied'[i] = applied[i]
    PROVE  FirstCopy(applied[i])' = FirstCopy(applied[i])
  <1>1. PICK e : e = applied[i]
    OBVIOUS
  <1>2. PICK j \in DOMAIN ledger : ledger[j] = e
    BY <1>1, AppliedOnStream
  <1>3. FirstCopy(e)' = FirstCopy(e)
    BY <1>2, FirstKept
  <1>4. e = applied'[i]
    BY <1>1
  <1> QED
    BY <1>1, <1>3, <1>4 DEF FirstCopy

\* Entries given to the group and dealt with, up to a position.
DealtWith(n) == {ledger[i] : i \in {j \in Delivered : j <= n}} \ {0}

\* If the log stays and so do the entries dealt with, their order does.
LEMMA LogKept ==
    ASSUME WorkerAssumption, IInv, OrderInv, [Next]_vars, UNCHANGED applied,
           {j \in Delivered : j <= Done}' = {j \in Delivered : j <= Done}
    PROVE  /\ ToSet(applied)' = DealtWith(Done)'
           /\ \A i, j \in DOMAIN applied' :
                i < j => FirstCopy(applied[i])' < FirstCopy(applied[j])'
  <1>1. \A i, j \in DOMAIN applied : i < j => FirstCopy(applied[i]) < FirstCopy(applied[j])
    BY DEF OrderInv
  <1>2. \A i, j \in DOMAIN applied' : i < j => FirstCopy(applied[i])' < FirstCopy(applied[j])'
    BY <1>1, RowKept
  <1>3. \A j \in Delivered : ledger'[j] = ledger[j]
    BY StreamType, StreamGrows
  <1>4. ToSet(applied) = DealtWith(Done)
    BY DEF OrderInv, DealtWith
  <1>5. DealtWith(Done)' = DealtWith(Done)
    <2> DEFINE S == {j \in Delivered : j <= Done}
    <2>1. DealtWith(Done) = {ledger[i] : i \in S} \ {0}
      BY DEF DealtWith
    <2>2. DealtWith(Done)' = {ledger'[i] : i \in S} \ {0}
      BY DEF DealtWith
    <2>3. \A j \in S : ledger'[j] = ledger[j]
      BY <1>3
    <2> HIDE DEF S
    <2> QED
      BY <2>1, <2>2, <2>3
  <1>6. ToSet(applied)' = ToSet(applied)
    BY DEF ToSet
  <1> QED
    BY <1>2, <1>4, <1>5, <1>6

\* In order: what the group gave and did not get back is the batch.
BatchInv ==
    /\ pending = IF OnEntries THEN {batch[i] : i \in DOMAIN batch} ELSE {}
    /\ OnEntries => \A i \in DOMAIN batch : batch[i] = cursor.ledger - Len(batch) + i

\* The parts of the order.
LEMMA OrderParts ==
    OrderInv <=> /\ BatchInv
                 /\ ToSet(applied) = DealtWith(Done)
                 /\ \A i, j \in DOMAIN applied :
                        i < j => FirstCopy(applied[i]) < FirstCopy(applied[j])
  BY DEF OrderInv, BatchInv, DealtWith

\* A step on nothing of the ledger's keeps the order.
LEMMA OffEntries ==
    ASSUME WorkerAssumption, IInv, OrderInv, [Next]_vars, UNCHANGED <<applied, pending>>,
           UNCHANGED cursor \/ cursor'.ledger = cursor.ledger,
           ~OnEntries, ~OnEntries'
    PROVE  OrderInv'
  <1>1. BatchInv'
    BY OrderParts DEF BatchInv
  <1>2. cursor'.ledger = cursor.ledger
    OBVIOUS
  <1>3. Delivered' = Delivered /\ Done' = Done
    BY <1>2 DEF Delivered, Done
  <1>4. {j \in Delivered : j <= Done}' = {j \in Delivered : j <= Done}
    BY <1>3
  <1>5. /\ ToSet(applied)' = DealtWith(Done)'
        /\ \A i, j \in DOMAIN applied' :
                i < j => FirstCopy(applied[i])' < FirstCopy(applied[j])'
    BY <1>4, LogKept
  <1> QED
    BY <1>1, <1>5 DEF OrderInv, BatchInv, DealtWith

\* Nor does a step that keeps the batch and its progress.
LEMMA SameEntries ==
    ASSUME WorkerAssumption, IInv, OrderInv, [Next]_vars,
           UNCHANGED <<applied, pending, cursor, batch>>, OnEntries' = OnEntries, Done' = Done
    PROVE  OrderInv'
  <1>1. BatchInv'
    BY OrderParts DEF BatchInv
  <1>2. Delivered' = Delivered
    BY DEF Delivered
  <1>3. {j \in Delivered : j <= Done}' = {j \in Delivered : j <= Done}
    BY <1>2
  <1>5. /\ ToSet(applied)' = DealtWith(Done)'
        /\ \A i, j \in DOMAIN applied' :
                i < j => FirstCopy(applied[i])' < FirstCopy(applied[j])'
    BY <1>3, LogKept
  <1> QED
    BY <1>1, <1>5 DEF OrderInv, BatchInv, DealtWith

\* Where the entry at hand is on the stream.
LEMMA HeadPosition ==
    ASSUME WorkerAssumption, IInv, OrderInv, OnEntries
    PROVE  /\ Len(batch) \in Nat /\ Len(batch) >= 1 /\ DOMAIN batch = 1..Len(batch)
           /\ cursor.ledger \in Nat /\ Head(batch) \in Nat
           /\ Head(batch) = cursor.ledger - Len(batch) + 1
           /\ pc = "apply" => Done = Head(batch) - 1
           /\ pc # "apply" => Done = Head(batch)
  <1>1. Lists(batch, pending) /\ batch \in Seq(Nat) /\ batch # << >>
    BY EntryType DEF Lists
  <1>2. /\ Len(batch) \in Nat /\ Len(batch) # 0 /\ DOMAIN batch = 1..Len(batch)
        /\ 1 \in DOMAIN batch /\ Head(batch) = batch[1] /\ batch[1] \in Nat
    BY <1>1, SeqFacts
  <1>3. Head(batch) = cursor.ledger - Len(batch) + 1
    BY <1>2 DEF OrderInv
  <1>4. cursor.ledger \in Nat
    <2>1. pc # "down"
      BY DEF OnEntries
    <2> QED
      BY <2>1, StreamType DEF IInv, ProcessInv, NoGroup
  <1> DEFINE n == Len(batch)
             c == cursor.ledger
             h == Head(batch)
  <1>5. n \in Nat /\ n # 0 /\ c \in Nat /\ h = c - n + 1 /\ h \in Nat
        /\ Done = c - (n - (IF pc = "apply" THEN 0 ELSE 1))
    BY <1>2, <1>3, <1>4 DEF Done
  <1> HIDE DEF n, c, h
  <1>6. n >= 1 /\ (pc = "apply" => Done = h - 1) /\ (pc # "apply" => Done = h)
    BY <1>5
  <1> QED
    BY <1>2, <1>3, <1>4, <1>6 DEF n, c, h

\* New entries are the next ones.
LEMMA DrainOrder ==
    ASSUME WorkerAssumption, IInv, OrderInv, [Next]_vars, Drain
    PROVE  OrderInv'
  <1>1. /\ cursor.ledger \in Nat /\ cursor \in [{"ledger", "ticks"} -> Nat \cup {NoGroup}]
        /\ cursor.ledger <= Len(ledger) /\ ledger \in Seq(Events \cup {0})
    BY DEF Drain, IInv, ProcessInv, NoGroup, GroupInv, StreamInv
  <1>2. /\ batch' = New(ledger, cursor.ledger)
        /\ cursor' = [cursor EXCEPT !.ledger = @ + Len(batch')]
        /\ pending' = pending \cup ToSet(batch')
        /\ pc = "drain" /\ pc' = IF batch' = << >> THEN "recompute" ELSE "apply"
        /\ applied' = applied
    BY DEF Drain
  <1> DEFINE q == batch'
             n == Len(q)
             c == cursor.ledger
  <1>3. /\ q \in Seq(Nat) /\ n \in Nat /\ DOMAIN q = 1..n
        /\ \A i \in DOMAIN q : q[i] = c + i
        /\ q = << >> <=> n = 0
    BY <1>1, <1>2, NewFacts
  <1>4. cursor'.ledger = c + n
    BY <1>1, <1>2, <1>3, CursorMoves
  <1>5. ~OnEntries /\ pending = {} /\ Done = c
    BY <1>1, <1>2 DEF OrderInv, OnEntries, Done
  <1>6. pending' = {q[i] : i \in DOMAIN q}
    BY <1>2, <1>3, <1>5 DEF ToSet
  <1>7. OnEntries' <=> q # << >>
    BY <1>2 DEF OnEntries
  <1>8. Done' = c
    <2>1. q = << >> => Done' = (c + n) - 0
      BY <1>4, <1>7 DEF Done
    <2>2. q # << >> => Done' = (c + n) - (n - 0)
      BY <1>2, <1>4, <1>7 DEF Done
    <2> HIDE DEF q, n, c
    <2>3. c \in Nat
      BY <1>1 DEF c
    <2> QED
      BY <1>3, <2>1, <2>2, <2>3
  <1>9. BatchInv'
    <2>1. q = << >> => pending' = {}
      BY <1>3, <1>6
    <2>2. \A i \in DOMAIN q : q[i] = cursor'.ledger - n + i
      <3>1. c \in Nat /\ \A i \in DOMAIN q : i \in Nat
        BY <1>1, <1>3
      <3> HIDE DEF q, n, c
      <3> QED
        BY <1>3, <1>4, <3>1
    <2>3. pending' = IF OnEntries' THEN {batch'[i] : i \in DOMAIN batch'} ELSE {}
      BY <1>6, <1>7, <2>1
    <2> QED
      BY <2>2, <2>3 DEF BatchInv
  <1>10. {j \in Delivered : j <= Done}' = {j \in Delivered : j <= Done}
    <2>1. Delivered = 1..c /\ Delivered' = 1..(c + n) /\ c \in Nat
      BY <1>1, <1>4 DEF Delivered
    <2>2. Done' = Done
      BY <1>5, <1>8
    <2> HIDE DEF q, n, c
    <2>3. {j \in 1..(c + n) : j <= c} = {j \in 1..c : j <= c}
      BY <1>3, <2>1
    <2> QED
      BY <1>5, <2>1, <2>2, <2>3
  <1>11. /\ ToSet(applied)' = DealtWith(Done)'
         /\ \A i, j \in DOMAIN applied' :
                i < j => FirstCopy(applied[i])' < FirstCopy(applied[j])'
    BY <1>2, <1>10, LogKept
  <1> QED
    BY <1>9, <1>11 DEF OrderInv, BatchInv, DealtWith

\* An entry acknowledged leaves the rest of the batch.
LEMMA AckOrder ==
    ASSUME WorkerAssumption, IInv, OrderInv, [Next]_vars, AckEntry
    PROVE  OrderInv'
  <1>1. /\ pc = "ack" /\ pending' = pending \ {Head(batch)} /\ batch' = Tail(batch)
        /\ pc' = IF Len(batch) > 1 THEN "apply"
                 ELSE IF task = "reclaim" THEN "ticks" ELSE "recompute"
        /\ UNCHANGED <<applied, cursor>>
    BY DEF AckEntry
  <1>2. OnEntries /\ Lists(batch, pending) /\ batch \in Seq(Nat) /\ batch # << >>
    BY <1>1 DEF OnEntries, IInv, ProcessInv, Lists
  <1> DEFINE n == Len(batch)
             c == cursor.ledger
             r == Tail(batch)
  <1>3. /\ n \in Nat /\ n >= 1 /\ c \in Nat /\ Done = c - n + 1
        /\ DOMAIN batch = 1..n
    <2>1. pc # "apply"
      BY <1>1
    <2> QED
      BY <1>2, <2>1, HeadPosition
  <1>4. /\ r \in Seq(Nat) /\ Len(r) = n - 1 /\ DOMAIN r = 1..n - 1
        /\ \A i \in DOMAIN r : r[i] = batch[i + 1]
        /\ Head(batch) = batch[1]
    <2>1. r \in Seq(Nat) /\ Len(r) = n - 1 /\ Head(batch) = batch[1]
          /\ \A i \in DOMAIN r : r[i] = batch[i + 1]
      BY <1>2, SeqFacts
    <2>2. DOMAIN r = 1..Len(r)
      BY <2>1, SeqFacts
    <2> QED
      BY <2>1, <2>2
  <1>5. /\ pending = {batch[i] : i \in DOMAIN batch}
        /\ \A i \in DOMAIN batch : batch[i] = c - n + i
    BY <1>2 DEF OrderInv
  <1>6. OnEntries' <=> n > 1
    BY <1>1, <1>3 DEF OnEntries
  <1>7. Done' = Done
    <2>1. n > 1 => Done' = c - (Len(r) - 0)
      BY <1>1, <1>6 DEF Done
    <2>2. ~(n > 1) => Done' = c - 0
      BY <1>1, <1>6 DEF Done
    <2>3. Len(r) = n - 1
      BY <1>4
    <2> HIDE DEF n, c, r
    <2> QED
      BY <1>3, <2>1, <2>2, <2>3
  <1>8. pending' = {r[i] : i \in DOMAIN r}
    <2>1. pending' = {batch[i] : i \in 1..n} \ {batch[1]}
      BY <1>1, <1>3, <1>4, <1>5
    <2>2. \A i \in 1..n : batch[i] = c - n + i
      BY <1>3, <1>5
    <2>3. ASSUME NEW i \in 1..n, i # 1
          PROVE  i - 1 \in 1..n - 1 /\ r[i - 1] = batch[i]
      <3>1. i - 1 \in 1..n - 1 /\ (i - 1) + 1 = i
        BY <1>3, <2>3
      <3> QED
        BY <1>4, <3>1
    <2>4. ASSUME NEW i \in 1..n - 1
          PROVE  i + 1 \in 1..n /\ r[i] = batch[i + 1] /\ batch[i + 1] # batch[1]
      <3>1. i + 1 \in 1..n /\ i + 1 # 1 /\ 1 \in 1..n
        BY <1>3
      <3>2. batch[i + 1] = c - n + (i + 1) /\ batch[1] = c - n + 1
        BY <2>2, <3>1
      <3>3. batch[i + 1] # batch[1]
        <4> HIDE DEF n, c
        <4> QED
          BY <1>3, <3>1, <3>2
      <3> QED
        BY <1>4, <3>1, <3>3
    <2>5. DOMAIN r = 1..n - 1
      BY <1>4
    <2>6. ASSUME NEW x \in pending'
          PROVE  \E i \in 1..n - 1 : x = r[i]
      <3>1. PICK i \in 1..n : x = batch[i] /\ i # 1
        BY <2>1, <2>6
      <3> QED
        BY <2>3, <3>1
    <2>7. ASSUME NEW i \in 1..n - 1
          PROVE  r[i] \in pending'
      BY <2>1, <2>4, <2>7
    <2> HIDE DEF n, c, r
    <2> QED
      BY <2>5, <2>6, <2>7
  <1>9. BatchInv'
    <2>1. ~(n > 1) => pending' = {}
      <3>1. ~(n > 1) => DOMAIN r = {}
        BY <1>3, <1>4
      <3> QED
        BY <1>8, <3>1
    <2>2. \A i \in DOMAIN r : r[i] = c - Len(r) + i
      <3>1. \A i \in 1..n - 1 : i + 1 \in 1..n /\ r[i] = batch[i + 1]
        BY <1>3, <1>4
      <3>2. \A i \in 1..n - 1 : r[i] = c - n + (i + 1)
        BY <1>3, <1>5, <3>1
      <3>3. Len(r) = n - 1 /\ DOMAIN r = 1..n - 1
        BY <1>4
      <3> HIDE DEF n, c, r
      <3>4. \A i \in 1..n - 1 : c - n + (i + 1) = c - (n - 1) + i
        BY <1>3
      <3> QED
        BY <3>2, <3>3, <3>4
    <2>3. batch' = r /\ cursor'.ledger = c
      BY <1>1
    <2> QED
      BY <1>6, <1>8, <2>1, <2>2, <2>3 DEF BatchInv
  <1>10. {j \in Delivered : j <= Done}' = {j \in Delivered : j <= Done}
    BY <1>1, <1>7 DEF Delivered
  <1>11. /\ ToSet(applied)' = DealtWith(Done)'
         /\ \A i, j \in DOMAIN applied' :
                i < j => FirstCopy(applied[i])' < FirstCopy(applied[j])'
    BY <1>1, <1>10, LogKept
  <1> QED
    BY <1>9, <1>11 DEF OrderInv, BatchInv, DealtWith

\* One more entry is dealt with.
LEMMA NextDealtWith ==
    ASSUME WorkerAssumption, IInv, OrderInv, [Next]_vars, pc = "apply",
           UNCHANGED <<ledger, cursor, batch, pending, task>>, OnEntries', pc' # "apply"
    PROVE  /\ BatchInv'
           /\ Done = Head(batch) - 1 /\ Done' = Head(batch)
           /\ DealtWith(Done)' = (DealtWith(Done) \cup {Entry}) \ {0}
  <1>1. OnEntries
    BY DEF OnEntries
  <1>2. /\ Done = Head(batch) - 1 /\ Head(batch) \in Nat
        /\ Head(batch) = cursor.ledger - Len(batch) + 1
        /\ Len(batch) \in Nat /\ cursor.ledger \in Nat
    BY <1>1, HeadPosition
  <1> DEFINE h == Head(batch)
             n == Len(batch)
             c == cursor.ledger
  <1>11. h \in Nat /\ h = c - n + 1 /\ n \in Nat /\ c \in Nat
    BY <1>2
  <1>3. Done' = h
    <2>1. Done' = c - (n - 1)
      BY DEF Done
    <2> HIDE DEF h, n, c
    <2> QED
      BY <1>11, <2>1
  <1>4. BatchInv'
    BY <1>1, OrderParts DEF BatchInv
  <1>5. h \in Delivered /\ Delivered' = Delivered /\ Delivered \subseteq Nat
    BY <1>1, EntryType, StreamType DEF Delivered
  <1>6. {j \in Delivered : j <= h} = {j \in Delivered : j <= h - 1} \cup {h}
    <2> DEFINE D == Delivered
    <2>1. h \in D /\ D \subseteq Nat
      BY <1>5
    <2> HIDE DEF h, D
    <2>2. \A j \in D : j <= h <=> (j <= h - 1 \/ j = h)
      BY <1>11, <2>1
    <2>3. {j \in D : j <= h} = {j \in D : j <= h - 1} \cup {h}
      BY <2>1, <2>2
    <2> QED
      BY <2>3 DEF D
  <1>7. DealtWith(Done)' = {ledger[i] : i \in {j \in Delivered : j <= h}} \ {0}
    BY <1>3, <1>5 DEF DealtWith
  <1>8. DealtWith(Done) = {ledger[i] : i \in {j \in Delivered : j <= h - 1}} \ {0}
    BY <1>2 DEF DealtWith
  <1>9. Entry = ledger[h]
    BY DEF Entry
  <1>10. DealtWith(Done)' = (DealtWith(Done) \cup {Entry}) \ {0}
    <2> DEFINE A == {j \in Delivered : j <= h}
               B == {j \in Delivered : j <= h - 1}
    <2>1. A = B \cup {h}
      BY <1>6
    <2> HIDE DEF A, B, h
    <2> QED
      BY <1>7, <1>8, <1>9, <2>1 DEF A, B
  <1> QED
    BY <1>2, <1>3, <1>4, <1>10

\* An entry skipped adds nothing.
LEMMA SkipOrder ==
    ASSUME WorkerAssumption, IInv, OrderInv, [Next]_vars, SkipEntry
    PROVE  OrderInv'
  <1>2. /\ pc = "apply" /\ pc' = "ack"
        /\ Entry = 0 \/ AlreadyApplied(Entry)
    BY DEF SkipEntry
  <1>3. UNCHANGED <<ledger, cursor, batch, pending, task, applied>>
    BY DEF SkipEntry, streams, group
  <1>4. OnEntries' /\ pc' # "apply"
    BY <1>2 DEF OnEntries
  <1>5. BatchInv' /\ DealtWith(Done)' = (DealtWith(Done) \cup {Entry}) \ {0}
    BY <1>2, <1>3, <1>4, NextDealtWith
  <1>6. ToSet(applied) = DealtWith(Done) /\ 0 \notin DealtWith(Done)
    BY OrderParts DEF DealtWith
  <1>7. Entry = 0 \/ Entry \in ToSet(applied)
    <2>1. applied \in Seq(Events)
      BY DEF IInv, StoreInv
    <2>2. AlreadyApplied(Entry) => Entry \in ToSet(applied)
      BY <2>1 DEF AlreadyApplied, Contains, ToSet
    <2> QED
      BY <1>2, <2>2
  <1>8. ToSet(applied)' = DealtWith(Done)'
    <2>1. ToSet(applied)' = ToSet(applied)
      BY <1>3 DEF ToSet
    <2> QED
      BY <1>5, <1>6, <1>7, <2>1
  <1>9. \A i, j \in DOMAIN applied' : i < j => FirstCopy(applied[i])' < FirstCopy(applied[j])'
    <2>1. \A i, j \in DOMAIN applied : i < j => FirstCopy(applied[i]) < FirstCopy(applied[j])
      BY DEF OrderInv
    <2> QED
      BY <1>3, <2>1, RowKept
  <1> QED
    BY <1>5, <1>8, <1>9 DEF OrderInv, BatchInv, DealtWith

\* An event applied comes after those applied before.
LEMMA ApplyOrder ==
    ASSUME WorkerAssumption, IInv, OrderInv, [Next]_vars, ApplyEvent
    PROVE  OrderInv'
  <1>1. /\ pc = "apply" /\ pc' = "save" /\ Entry # 0 /\ ~AlreadyApplied(Entry)
        /\ applied' = Append(applied, Entry)
        /\ UNCHANGED <<ledger, cursor, batch, pending, task>>
    BY DEF ApplyEvent, streams, group
  <1>2. OnEntries /\ OnEntries' /\ pc' # "apply"
    BY <1>1 DEF OnEntries, IInv, ProcessInv
  <1>3. /\ BatchInv' /\ Done = Head(batch) - 1
        /\ DealtWith(Done)' = (DealtWith(Done) \cup {Entry}) \ {0}
    BY <1>1, <1>2, NextDealtWith
  <1>4. ToSet(applied) = DealtWith(Done) /\ 0 \notin DealtWith(Done)
    BY OrderParts DEF DealtWith
  <1>5. applied \in Seq(Events) /\ Entry \in Events
    BY <1>1, <1>2, EntryType DEF IInv, StoreInv
  <1> DEFINE n == Len(applied)
  <1>6. /\ n \in Nat /\ DOMAIN applied = 1..n
        /\ DOMAIN applied' = DOMAIN applied \cup {n + 1}
        /\ \A i \in DOMAIN applied : applied'[i] = applied[i]
        /\ applied'[n + 1] = Entry
    BY <1>1, <1>5, SeqFacts
  <1>7. ToSet(applied)' = ToSet(applied) \cup {Entry}
    <2>1. ToSet(applied) = {applied[i] : i \in DOMAIN applied}
      BY <1>5 DEF ToSet
    <2>2. ToSet(applied)' = {applied'[i] : i \in DOMAIN applied'}
      BY DEF ToSet
    <2> HIDE DEF n
    <2> QED
      BY <1>6, <2>1, <2>2
  <1>8. ToSet(applied)' = DealtWith(Done)'
    BY <1>1, <1>3, <1>4, <1>7
  <1>9. \A i, j \in DOMAIN applied' : i < j => FirstCopy(applied[i])' < FirstCopy(applied[j])'
    <2>1. \A i, j \in DOMAIN applied : i < j => FirstCopy(applied[i]) < FirstCopy(applied[j])
      BY DEF OrderInv
    <2>2. \A i \in DOMAIN applied : FirstCopy(applied[i])' = FirstCopy(applied[i])
      BY <1>6, RowKept
    <2>3. ASSUME NEW k, k = n + 1
          PROVE  FirstCopy(applied[k])' = FirstCopy(Entry)
      <3>1. PICK e : e = Entry
        OBVIOUS
      <3>2. FirstCopy(e)' = FirstCopy(e)
        BY <1>1 DEF FirstCopy
      <3>3. e = applied'[k]
        BY <1>6, <2>3, <3>1
      <3> QED
        BY <3>1, <3>2, <3>3 DEF FirstCopy
    <2>4. ASSUME NEW i \in DOMAIN applied
          PROVE  FirstCopy(applied[i]) < FirstCopy(Entry)
      <3>1. PICK j \in DOMAIN ledger : j \in Delivered /\ j <= Done /\ ledger[j] = applied[i]
        BY AppliedOnStream
      <3>2. FirstCopy(applied[i]) \in Nat /\ FirstCopy(applied[i]) <= j
        BY <3>1, FirstFacts
      <3> DEFINE f == FirstCopy(Entry)
                 h == Head(batch)
      <3>3. h \in DOMAIN ledger /\ ledger[h] = Entry /\ h \in Delivered
        BY <1>2, EntryType
      <3>4. f \in DOMAIN ledger /\ f \in Nat /\ ledger[f] = Entry /\ f <= h
        BY <3>3, FirstFacts
      <3>5. ~(f <= Done)
        <4> SUFFICES ASSUME f <= Done
                     PROVE  FALSE
          OBVIOUS
        <4>1. f \in Delivered
          <5>1. Delivered = 1..cursor.ledger /\ DOMAIN ledger = 1..Len(ledger)
            BY StreamType
          <5>2. h \in Nat /\ cursor.ledger \in Nat /\ h <= cursor.ledger
            BY <1>2, <3>3, <5>1, HeadPosition
          <5> HIDE DEF f, h
          <5> QED
            BY <3>4, <5>1, <5>2
        <4>2. Entry \in DealtWith(Done)
          BY <1>1, <3>4, <4>1 DEF DealtWith
        <4>3. AlreadyApplied(Entry)
          BY <1>4, <1>5, <4>2 DEF AlreadyApplied, Contains, ToSet
        <4> QED
          BY <1>1, <4>3
      <3>6. Done \in Int /\ j \in Nat
        <4>1. Head(batch) \in Nat
          BY <1>2, HeadPosition
        <4> QED
          BY <1>3, <3>1, <4>1, StreamType
      <3> DEFINE g == FirstCopy(applied[i])
      <3> HIDE DEF f, g
      <3>7. g < f
        BY <3>1, <3>2, <3>4, <3>5, <3>6 DEF g
      <3> QED
        BY <3>7 DEF f, g
    <2> HIDE DEF n
    <2> SUFFICES ASSUME NEW i \in DOMAIN applied', NEW j \in DOMAIN applied', i < j
                 PROVE  FirstCopy(applied[i])' < FirstCopy(applied[j])'
      OBVIOUS
    <2>5. i \in DOMAIN applied
      BY <1>6
    <2>6. CASE j \in DOMAIN applied
      BY <2>1, <2>2, <2>5, <2>6
    <2>7. CASE j = n + 1
      BY <2>2, <2>3, <2>4, <2>5, <2>7
    <2> QED
      BY <1>6, <2>6, <2>7
  <1> QED
    BY <1>3, <1>8, <1>9 DEF OrderInv, BatchInv, DealtWith

\* Each step of a process that never died keeps the order.
LEMMA OrderStep ==
    ASSUME WorkerAssumption, IInv, [Next]_vars, crashes' = 0
    PROVE  OrderInv'
  <1>1. crashes = 0
    <2>1. crashes \in Nat
      BY DEF IInv
    <2>2. UNCHANGED crashes \/ Crash
      BY DEF Next, WorkerStep, vars, LedgerPublishes, MarketPublishes, Age, Elapse, Start,
             Reclaim, ReadTicks, UpsertPrice, AppendPrice, AckTick, Drain, ApplyEvent, SkipEntry,
             SaveSnapshot, Publish, AckEntry, Recompute, Sample, EndCycle
    <2> QED
      BY <2>1, <2>2 DEF Crash
  <1>2. OrderInv /\ ProcessInv
    BY <1>1 DEF IInv
  <1>3. ~OnEntries => pending = {}
    BY <1>2 DEF OrderInv
  <1>4. CASE ~Crash /\ UNCHANGED <<pc, task, batch, applied, pending, cursor>>
    <2>1. OnEntries' = OnEntries
      BY <1>4 DEF OnEntries
    <2>2. Done' = Done
      BY <1>4 DEF Done, OnEntries
    <2> QED
      BY <1>2, <1>4, <2>1, <2>2, SameEntries
  <1>5. CASE \/ \E e \in Events \cup {0} : LedgerPublishes(e)
             \/ \E q \in 0..Len(Quotes) : MarketPublishes(q)
             \/ \E i \in 1..MaxEntries : Age(i)
             \/ Elapse \/ UNCHANGED vars
    <2>1. UNCHANGED <<pc, task, batch, applied, pending, cursor, crashes>>
      BY <1>5 DEF LedgerPublishes, MarketPublishes, Age, Elapse, vars, process, group
    <2>2. ~Crash
      BY <1>1, <2>1 DEF Crash
    <2> QED
      BY <1>4, <2>1, <2>2
  <1>6. CASE Crash
    <2>1. crashes' = 1
      BY <1>1, <1>6 DEF Crash
    <2> QED
      BY <2>1
  <1>7. CASE Start
    <2>1. /\ pc = "down" /\ pc' = "reclaim" /\ UNCHANGED <<applied, pending, batch>>
          /\ cursor' = [s \in DOMAIN cursor |-> IF cursor[s] = NoGroup THEN 0 ELSE cursor[s]]
      BY <1>7 DEF Start, EnsureGroups
    <2>2. ~OnEntries /\ ~OnEntries'
      BY <2>1 DEF OnEntries
    <2>3. cursor'.ledger = IF cursor.ledger = NoGroup THEN 0 ELSE cursor.ledger
      BY <2>1 DEF IInv, GroupInv
    <2>4. CASE cursor.ledger = NoGroup
      <3>1. Delivered = {} /\ Delivered' = {}
        BY <2>3, <2>4 DEF Delivered, NoGroup
      <3>2. {j \in Delivered : j <= Done}' = {j \in Delivered : j <= Done}
        BY <3>1
      <3>3. /\ ToSet(applied)' = DealtWith(Done)'
            /\ \A i, j \in DOMAIN applied' :
                    i < j => FirstCopy(applied[i])' < FirstCopy(applied[j])'
        BY <1>2, <2>1, <3>2, LogKept
      <3>4. BatchInv'
        BY <1>3, <2>1, <2>2 DEF BatchInv
      <3> QED
        BY <3>3, <3>4 DEF OrderInv, BatchInv, DealtWith
    <2>5. CASE cursor.ledger # NoGroup
      BY <1>2, <2>1, <2>2, <2>3, <2>5, OffEntries
    <2> QED
      BY <2>4, <2>5
  <1>8. CASE Reclaim
    <2>1. pc = "reclaim" /\ ~OnEntries
      BY <1>8 DEF Reclaim, OnEntries
    <2>2. pending = {} /\ batch = << >>
      BY <1>2, <1>3, <2>1 DEF ProcessInv, OnNothing
    <2>3. batch' = << >>
      <3>1. UNCHANGED pending
        BY <1>8 DEF Reclaim
      <3>2. ~Lists(batch', pending')
        <4> SUFFICES ASSUME Lists(batch', pending')
                     PROVE  FALSE
          OBVIOUS
        <4> DEFINE q == batch'
        <4>1. q \in Seq(Nat) /\ q # << >> /\ \A i \in DOMAIN q : q[i] \in pending'
          BY DEF Lists
        <4> HIDE DEF q
        <4>2. 1 \in DOMAIN q
          BY <4>1, SeqFacts
        <4> QED
          BY <2>2, <3>1, <4>1, <4>2
      <3> QED
        BY <1>8, <3>2, ReclaimBatch
    <2>4. ~OnEntries' /\ UNCHANGED <<applied, pending, cursor>>
      BY <1>8, <2>3 DEF Reclaim, OnEntries
    <2> QED
      BY <1>2, <2>1, <2>4, OffEntries
  <1>9. CASE ReadTicks
    <2>1. /\ pc = "ticks" /\ pc' \in {"drain", "price"} /\ UNCHANGED <<applied, pending>>
          /\ cursor' = [cursor EXCEPT !.ticks = @ + Len(batch')]
      BY <1>9 DEF ReadTicks
    <2>2. cursor'.ledger = cursor.ledger
      BY <2>1 DEF IInv, GroupInv
    <2>3. ~OnEntries /\ ~OnEntries'
      BY <2>1 DEF OnEntries
    <2> QED
      BY <1>2, <2>1, <2>2, <2>3, OffEntries
  <1>10. CASE UpsertPrice \/ AppendPrice \/ AckTick \/ Recompute \/ Sample \/ EndCycle
    <2>1. UNCHANGED <<applied, pending, cursor>>
      BY <1>10 DEF UpsertPrice, AppendPrice, AckTick, Recompute, Sample, EndCycle, group
    <2>2. ~OnEntries /\ ~OnEntries'
      BY <1>2, <1>10 DEF UpsertPrice, AppendPrice, AckTick, Recompute, Sample, EndCycle,
                         OnEntries, ProcessInv
    <2> QED
      BY <1>2, <2>1, <2>2, OffEntries
  <1>11. CASE SaveSnapshot \/ Publish
    <2>1. UNCHANGED <<applied, pending, cursor, task>> /\ pc \in {"save", "publish"}
      BY <1>11 DEF SaveSnapshot, Publish, group
    <2>2. CASE task = "recompute"
      <3>1. pc' \notin {"apply", "ack"}
        BY <1>11, <2>2 DEF SaveSnapshot, Publish
      <3>2. ~OnEntries /\ ~OnEntries'
        BY <2>1, <2>2, <3>1 DEF OnEntries
      <3> QED
        BY <1>2, <2>1, <3>2, OffEntries
    <2>3. CASE task # "recompute"
      <3>1. pc' \in {"publish", "ack"} /\ UNCHANGED batch
        BY <1>11, <2>3 DEF SaveSnapshot, Publish
      <3>2. OnEntries /\ OnEntries'
        BY <2>1, <2>3, <3>1 DEF OnEntries
      <3>3. Done' = Done
        BY <2>1, <3>1, <3>2 DEF Done
      <3> QED
        BY <1>2, <2>1, <3>1, <3>2, <3>3, SameEntries
    <2> QED
      BY <2>2, <2>3
  <1>12. CASE Drain
    BY <1>2, <1>12, DrainOrder
  <1>13. CASE ApplyEvent
    BY <1>2, <1>13, ApplyOrder
  <1>14. CASE SkipEntry
    BY <1>2, <1>14, SkipOrder
  <1>15. CASE AckEntry
    BY <1>2, <1>15, AckOrder
  <1> QED
    BY <1>5, <1>6, <1>7, <1>8, <1>9, <1>10, <1>11, <1>12, <1>13, <1>14, <1>15 DEF Next, WorkerStep

-----------------------------------------------------------------------------
(* The theorems *)

\* Each step keeps the inductive invariant.
LEMMA Inductive == WorkerAssumption /\ IInv /\ [Next]_vars => IInv'
  <1> SUFFICES ASSUME WorkerAssumption, IInv, [Next]_vars
               PROVE  IInv'
    OBVIOUS
  <1>1. StreamInv' /\ GroupInv' /\ StoreInv' /\ ProcessInv' /\ EntryInv'
    BY StreamGrows, GroupStep, StoreStep, ProcessStep, EntryStep
  <1>2. crashes' \in Nat
    <2>1. crashes \in Nat
      BY DEF IInv
    <2>2. UNCHANGED crashes \/ Crash
      BY DEF Next, WorkerStep, vars, LedgerPublishes, MarketPublishes, Age, Elapse, Start,
             Reclaim, ReadTicks, UpsertPrice, AppendPrice, AckTick, Drain, ApplyEvent, SkipEntry,
             SaveSnapshot, Publish, AckEntry, Recompute, Sample, EndCycle
    <2> QED
      BY <2>1, <2>2 DEF Crash
  <1>3. crashes' = 0 => OrderInv'
    BY OrderStep
  <1> QED
    BY <1>1, <1>2, <1>3 DEF IInv

\* Every reachable state satisfies the inductive invariant.
THEOREM Correct == Spec => []IInv
  <1>1. Init => IInv
    BY InitInv, WorkerAssumption
  <1>2. IInv /\ [Next]_vars => IInv'
    BY Inductive, WorkerAssumption
  <1> QED
    BY <1>1, <1>2, PTL DEF Spec

\* The store, the streams and the process keep their shapes: windows stay
\* within their size, and a process in a batch has a pending entry at hand.
THEOREM TypeCorrect == Spec => []TypeOK
  <1>1. IInv => TypeOK
    BY TypeFollows, WorkerAssumption
  <1> QED
    BY <1>1, Correct, PTL

\* In a state of a process that never died, the latest row of a position is
\* the one the stream says last.
LEMMA LatestFollows == WorkerAssumption /\ IInv => FollowsStreamUntilCrash
  <1> SUFFICES ASSUME WorkerAssumption, IInv, crashes = 0,
                      NEW a \in Accounts, NEW s \in Held(a)
               PROVE  LatestRow(a, s).position_after = StreamLatest(a, s)
    BY DEF FollowsStreamUntilCrash, FollowsStream
  <1>1. OrderInv
    BY DEF IInv
  <1> DEFINE R == Rows(a, s)
             m == Max(R)
             F(i) == FirstCopy(applied[i])
             P(i) == Posts[applied[i]].position_after
             Newest(p) == \E i \in R : p = P(i) /\ \A j \in R : F(j) <= F(i)
  <1>2. m \in R /\ (\A i \in R : i <= m) /\ R \subseteq DOMAIN applied /\ R \subseteq Nat
    BY LatestIsRow
  <1>3. \A i, j \in R : i < j => F(i) < F(j)
    BY <1>1, <1>2 DEF OrderInv
  <1>4. \A i \in R : F(i) \in Nat
    <2> SUFFICES ASSUME NEW i \in R
                 PROVE  FirstCopy(applied[i]) \in Nat
      OBVIOUS
    <2>1. i \in DOMAIN applied
      BY <1>2
    <2>2. PICK j \in DOMAIN ledger : ledger[j] = applied[i]
      BY <1>1, <2>1, AppliedOnStream
    <2> QED
      BY <2>2, FirstFacts
  <1>5. StreamLatest(a, s) = CHOOSE p \in {P(i) : i \in R} : Newest(p)
    BY DEF StreamLatest
  <1>6. LatestRow(a, s).position_after = P(m)
    BY DEF LatestRow
  <1> HIDE DEF R, m, F, P
  <1>7. \A j \in R : F(j) <= F(m)
    <2> SUFFICES ASSUME NEW j \in R
                 PROVE  F(j) <= F(m)
      OBVIOUS
    <2>1. CASE j = m
      BY <1>4, <2>1
    <2>2. CASE j # m
      <3>1. j < m
        BY <1>2, <2>2
      <3> QED
        BY <1>2, <1>3, <1>4, <3>1
    <2> QED
      BY <2>1, <2>2
  <1>8. P(m) \in {P(i) : i \in R} /\ Newest(P(m))
    BY <1>2, <1>7
  <1>9. ASSUME NEW p, Newest(p)
        PROVE  p = P(m)
    <2>1. PICK i \in R : p = P(i) /\ \A j \in R : F(j) <= F(i)
      BY <1>9
    <2>2. F(m) <= F(i) /\ F(i) \in Nat /\ F(m) \in Nat /\ i \in Nat /\ m \in Nat /\ i <= m
      BY <1>2, <1>4, <2>1
    <2>3. ~(i < m)
      BY <1>2, <1>3, <2>2
    <2> QED
      BY <2>1, <2>2, <2>3
  <1> HIDE DEF Newest
  <1> QED
    BY <1>5, <1>6, <1>8, <1>9

\* Until a worker has died in a batch, the position shown for a symbol is the
\* one the stream says last, whatever was delivered twice.
THEOREM FollowsStreamInOrder == Spec => []FollowsStreamUntilCrash
  <1>1. IInv => FollowsStreamUntilCrash
    BY LatestFollows, WorkerAssumption
  <1> QED
    BY <1>1, Correct, PTL

\* What is published for an account is the stored snapshot REST serves.
THEOREM ServedIsPublished == Spec => PublishesWhatItServes
  <1> DEFINE A == \A a \in Accounts : wire'[a] # wire[a] => wire'[a] = Summary(a)
  <1>1. IInv /\ [Next]_vars => [A]_vars
    <2> SUFFICES ASSUME IInv, [Next]_vars
                 PROVE  A
      OBVIOUS
    <2>1. CASE UNCHANGED wire
      BY <2>1
    <2>2. CASE Publish
      <3>1. /\ wire' = [wire EXCEPT ![env.account] = env.metrics]
            /\ env.account \in Accounts /\ env.metrics = risk_snapshots[env.account]
            /\ DOMAIN wire = Accounts
        BY <2>2 DEF Publish, IInv, EntryInv, StoreInv
      <3> DEFINE b == env.account
                 v == env.metrics
      <3>2. wire' = [wire EXCEPT ![b] = v] /\ b \in Accounts /\ v = risk_snapshots[b]
        BY <3>1
      <3> HIDE DEF b, v
      <3> QED
        BY <3>1, <3>2 DEF Summary
    <2> QED
      BY <2>1, <2>2, StoreFrame DEF UpsertPrice, AppendPrice, ApplyEvent, SaveSnapshot, Sample
  <1> QED
    BY <1>1, Correct, PTL DEF Spec, PublishesWhatItServes

\* What the group gave away and got back.
Settled == Delivered \ pending

\* The step of the contract each step is, for what the group settled.
LEMMA SettledStep ==
    ASSUME WorkerAssumption, IInv, [Next]_vars
    PROVE  \/ Settled' = Settled
           \/ AckEntry /\ Head(batch) \in DOMAIN ledger /\ Settled' = Settled \cup {Head(batch)}
  <1> USE DEF Settled
  <1>1. CASE \/ UNCHANGED group
             \/ \E i \in 1..MaxEntries : Age(i)
             \/ Reclaim \/ AckTick
    <2>1. UNCHANGED <<cursor, pending>>
      BY <1>1 DEF group, Age, Reclaim, AckTick
    <2> QED
      BY <2>1 DEF Delivered
  <1>2. CASE Start
    <2>1. cursor'.ledger = IF cursor.ledger = NoGroup THEN 0 ELSE cursor.ledger
      BY <1>2 DEF Start, EnsureGroups, IInv, GroupInv
    <2>2. Delivered' = Delivered
      BY <2>1 DEF Delivered, NoGroup
    <2> QED
      BY <1>2, <2>2 DEF Start
  <1>3. CASE ReadTicks
    <2>1. cursor'.ledger = cursor.ledger /\ pending' = pending
      BY <1>3 DEF ReadTicks, IInv, GroupInv
    <2> QED
      BY <2>1 DEF Delivered
  <1>4. CASE Drain
    <2>1. /\ cursor.ledger \in Nat /\ cursor \in [{"ledger", "ticks"} -> Nat \cup {NoGroup}]
          /\ cursor.ledger <= Len(ledger) /\ ledger \in Seq(Events \cup {0})
      BY <1>4 DEF Drain, IInv, ProcessInv, NoGroup, GroupInv, StreamInv
    <2>2. /\ batch' = New(ledger, cursor.ledger)
          /\ cursor' = [cursor EXCEPT !.ledger = @ + Len(batch')]
          /\ pending' = pending \cup ToSet(batch')
      BY <1>4 DEF Drain
    <2> DEFINE n == Len(batch')
               c == cursor.ledger
    <2>3. n \in Nat /\ ToSet(batch') = (c + 1)..(c + n)
      BY <2>1, <2>2, NewFacts
    <2>4. cursor'.ledger = c + n
      BY <2>1, <2>2, <2>3, CursorMoves
    <2>5. Delivered = 1..c /\ Delivered' = 1..(c + n) /\ c \in Nat
          /\ pending' = pending \cup (c + 1)..(c + n)
      BY <2>1, <2>2, <2>3, <2>4 DEF Delivered
    <2> HIDE DEF n, c
    <2>6. (1..(c + n)) \ (pending \cup (c + 1)..(c + n)) = (1..c) \ pending
      BY <2>3, <2>5
    <2> QED
      BY <2>5, <2>6
  <1>5. CASE AckEntry
    <2>1. /\ pc = "ack" /\ pending' = pending \ {Head(batch)} /\ UNCHANGED cursor
      BY <1>5 DEF AckEntry
    <2>2. Head(batch) \in Delivered /\ Head(batch) \in DOMAIN ledger /\ Delivered' = Delivered
      BY <2>1, EntryType DEF OnEntries, Delivered
    <2> QED
      BY <1>5, <2>1, <2>2
  <1> QED
    BY <1>1, <1>2, <1>3, <1>4, <1>5, GroupFrame

\* However often the worker dies and entries come again, an event counts once,
\* and no entry is acknowledged before its event is recorded.
THEOREM CountsOnce == Spec => CountsEachEventOnce
  <1> USE DEF Effects!vars
  <1>1. Init => Effects!Init
    BY DEF Init, Effects!Init, Delivered, NoGroup
  <1>2. IInv /\ [Next]_vars => [Effects!Next]_(Effects!vars)
    <2> SUFFICES ASSUME IInv, [Next]_vars
                 PROVE  Effects!Next \/ UNCHANGED <<ledger, applied, Delivered \ pending>>
      OBVIOUS
    <2>1. WorkerAssumption
      BY WorkerAssumption
    <2>2. ASSUME NEW e \in Events \cup {0}, LedgerPublishes(e)
          PROVE  Effects!Next
      <3>1. UNCHANGED <<cursor, pending, applied>> /\ ledger' = Append(ledger, e)
        BY <2>2 DEF LedgerPublishes, group
      <3>2. UNCHANGED (Delivered \ pending)
        BY <3>1 DEF Delivered
      <3>3. Effects!Arrive(e)
        BY <3>1, <3>2 DEF Effects!Arrive
      <3> QED
        BY <3>3 DEF Effects!Next
    <2>3. CASE ApplyEvent
      <3>1. /\ pc = "apply" /\ Entry # 0 /\ ~AlreadyApplied(Entry)
            /\ applied' = Append(applied, Entry) /\ UNCHANGED <<ledger, cursor, pending>>
        BY <2>3 DEF ApplyEvent, streams, group
      <3>2. Entry \in Events /\ applied \in Seq(Events)
            /\ Head(batch) \in DOMAIN ledger /\ Entry = ledger[Head(batch)]
        BY <2>1, <3>1, EntryType DEF OnEntries, IInv, StoreInv
      <3>3. Effects!InSeq(Entry, ledger)
        BY <3>2 DEF Effects!InSeq
      <3>4. ~Effects!InSeq(Entry, applied)
        BY <3>1, <3>2 DEF Effects!InSeq, AlreadyApplied, Contains
      <3>5. UNCHANGED (Delivered \ pending)
        BY <3>1 DEF Delivered
      <3>6. Effects!Apply(Entry)
        BY <3>1, <3>3, <3>4, <3>5 DEF Effects!Apply
      <3> QED
        BY <3>2, <3>6 DEF Effects!Next
    <2>4. CASE AckEntry /\ Head(batch) \in DOMAIN ledger
               /\ Settled' = Settled \cup {Head(batch)}
      <3>1. pc = "ack" /\ UNCHANGED <<ledger, applied>>
        BY <2>4 DEF AckEntry, streams
      <3>2. Entry = 0 \/ AlreadyApplied(Entry)
        BY <3>1 DEF IInv, EntryInv
      <3>3. Effects!InSeq(ledger[Head(batch)], applied) \/ ledger[Head(batch)] \in {0}
        <4>1. applied \in Seq(Events)
          BY DEF IInv, StoreInv
        <4> QED
          BY <3>2, <4>1 DEF Entry, Effects!InSeq, AlreadyApplied, Contains
      <3>4. Effects!Forget(Head(batch))
        BY <2>4, <3>1, <3>3 DEF Effects!Forget, Settled
      <3> QED
        BY <2>4, <3>4 DEF Effects!Next
    <2>5. CASE UNCHANGED <<ledger, applied>> /\ Settled' = Settled
      BY <2>5 DEF Settled
    <2>6. \/ UNCHANGED ledger
          \/ \E e \in Events \cup {0} : LedgerPublishes(e)
      BY StreamFrame DEF streams, MarketPublishes
    <2>7. UNCHANGED applied \/ ApplyEvent
      BY StoreFrame DEF UpsertPrice, AppendPrice, SaveSnapshot, Publish, Sample
    <2>8. CASE AckEntry
      <3>1. UNCHANGED <<ledger, applied>>
        BY <2>8 DEF AckEntry, streams
      <3> QED
        BY <2>1, <2>4, <2>5, <3>1, SettledStep
    <2> QED
      BY <2>1, <2>2, <2>3, <2>5, <2>6, <2>7, <2>8, SettledStep
  <1> QED
    BY <1>1, <1>2, Correct, PTL DEF Spec, Effects!Spec, CountsEachEventOnce

=============================================================================
