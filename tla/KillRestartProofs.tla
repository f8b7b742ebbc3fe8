--------------------------- MODULE KillRestartProofs ---------------------------
(***************************************************************************)
(* Theorems about KillRestart, for any trades, any number of consumers and *)
(* kills: a killed relay costs at most one repeated entry, each event      *)
(* counts once, and the projection is the single-delivery baseline; and    *)
(* run_proof.py does with the processes nothing else.                      *)
(***************************************************************************)
EXTENDS RunProof, FiniteLemmas, SequenceTheorems, TLAPS

-----------------------------------------------------------------------------
(* The inductive invariant *)

\* The last row the relay put on the stream.
Newest == IF stream = << >> THEN 0 ELSE stream[Len(stream)]

\* The stream has the rows up to the last one in order, some of them repeated.
StreamInv ==
    /\ stream \in Seq(Rows)
    /\ stream # << >> => stream[1] = 1
    /\ \A i \in 1..Len(stream) - 1 : stream[i + 1] \in {stream[i], stream[i] + 1}
    /\ \A i \in DOMAIN stream : stream[i] <= Newest
    /\ \A v \in 1..Newest : \E i \in DOMAIN stream : stream[i] = v

\* The rows after row k, in order.
After(k) == [i \in 1..(Len(Trades) - k) |-> k + i]

\* Rows up to k are marked; the relay works through the others in order, and
\* the last entry of the stream is that of row k or of the one after it, which
\* a kill has then left unmarked.
Marked(k) ==
    /\ sent = 1..k
    /\ Newest \in {k, k + 1}
    /\ relay.pc = "down" => relay.batch = << >>
    /\ relay.pc # "down" => relay.batch = After(k)
    /\ relay.pc = "mark" => Newest = k + 1 /\ k < Len(Trades)
    /\ Len(stream) + (IF Newest = k + 1 /\ relay.pc # "mark" THEN 1 ELSE 0) <= Newest + kills.relay
    /\ phase # "relay" => k = Len(Trades) /\ relay.pc = "down"

\* Some prefix of the rows is marked, whatever was killed.
RelayInv ==
    /\ relay \in [pc : {"down", "publish", "mark"}, batch : Seq(Rows)]
    /\ phase \in {"relay", "consumer", "done"}
    /\ kills \in [relay : Nat, consumer : Nat]
    /\ \E k \in 0..Len(Trades) : Marked(k)

\* What a consumer process can be at: down, or before one of its commands.
ConsumerStates == [pc : {"down", "reclaim", "read", "poll", "check", "apply", "ack"},
                   task : {"reclaim", "new"}, batch : Seq(Nat), idle : Nat]

\* What a consumer works on was delivered to the group, and it acknowledges no
\* entry before its event is in.
Fits(r) ==
    /\ r \in ConsumerStates
    /\ r.pc # "down" => cursor # NoGroup /\ phase # "relay"
    /\ \A i \in DOMAIN r.batch : r.batch[i] \in 1..cursor
    /\ r.pc \in {"check", "apply", "ack"} => r.batch # << >>
    /\ r.pc = "ack" => Contains(processed, stream[Head(r.batch)])
    /\ r.pc = "poll" => cursor = Len(stream)

\* Each consumer does so, and the group lets go of no entry whose event is not
\* in; a consumer exits with nothing left.
GroupInv ==
    /\ cursor \in {NoGroup} \cup 0..Len(stream)
    /\ pending \subseteq 1..cursor
    /\ consumer = [c \in Consumers |-> consumer[c]]
    /\ \A c \in Consumers : Fits(consumer[c])
    /\ \A i \in (1..cursor) \ pending : Contains(processed, stream[i])
    /\ phase = "done" => pending = {} /\ cursor = Len(stream)

\* Each event is in once, and the cash is theirs.
DatabaseInv ==
    /\ processed \in Seq(Rows)
    /\ \A i, j \in DOMAIN processed : processed[i] = processed[j] => i = j
    /\ proj_cash \in Int
    /\ proj_cash = BaselineCash(ToSet(processed))
    /\ proj_positions \in [Symbols -> Int]

\* The row of the entry last delivered.
At == IF cursor \in DOMAIN stream THEN stream[cursor] ELSE 0

\* A consumer on its own holds an entry only while it works on it, and that is
\* the one delivered last.
Alone(r) ==
    /\ r.pc \in {"reclaim", "read", "poll"} => r.batch = << >>
    /\ r.pc = "read" => pending = {}
    /\ r.pc \in {"check", "apply", "ack"} => r.batch = <<cursor>> /\ pending = {cursor}

\* Without overlap at most one consumer is up, and it is on its own.
AloneInv ==
    /\ \A c, d \in Consumers : Running(c) /\ Running(d) => c = d
    /\ pending \subseteq {cursor}
    /\ \A c \in Consumers : Alone(consumer[c])

\* Then the events before the entry last delivered are in, in order, and the
\* positions are theirs.
ProgressInv ==
    /\ \A i \in DOMAIN processed : processed[i] = i
    /\ At \in {Len(processed), Len(processed) + 1}
    /\ pending = {} => At = Len(processed)
    /\ proj_positions = BaselinePositions(1..Len(processed))

\* What every reachable state satisfies.
IInv ==
    /\ StreamInv /\ RelayInv /\ GroupInv /\ DatabaseInv
    /\ overlapped \in BOOLEAN
    /\ ~overlapped => AloneInv /\ ProgressInv

-----------------------------------------------------------------------------
(* The trades and the baseline *)

\* A row has integer amounts and a symbol.
LEMMA RowFacts ==
    /\ Len(Trades) \in Nat /\ Rows = 1..Len(Trades)
    /\ \A e \in Rows : /\ CashDelta(e) \in Int /\ SignedQuantity(e) \in Int
                       /\ Trades[e].symbol \in Symbols
  <1>1. ASSUME NEW e \in Rows
        PROVE  CashDelta(e) \in Int /\ SignedQuantity(e) \in Int
    <2>1. Trades[e].quantity \in Nat /\ Trades[e].price \in Nat
      BY ProofAssumption DEF Rows
    <2>2. Trades[e].quantity * Trades[e].price \in Int
      BY <2>1
    <2> QED
      BY <2>1, <2>2 DEF CashDelta, SignedQuantity
  <1> QED
    BY <1>1, ProofAssumption DEF Rows, Symbols

\* A set of rows is finite.
LEMMA RowsFinite == \A S \in SUBSET Rows : IsFiniteSet(S)
  <1>1. IsFiniteSet(Rows)
    <2> DEFINE n == Len(Trades)
    <2>1. n \in Nat /\ Rows = 1..n
      BY RowFacts
    <2> HIDE DEF n
    <2> QED
      BY <2>1, FS_Interval
  <1> QED
    BY <1>1, FS_Subset

\* A running position is an integer.
LEMMA PositionType == \A e \in Rows : PositionAfter(e) \in Int
  <1> TAKE e \in Rows
  <1> DEFINE D == {d \in 1..e : Trades[d].symbol = Trades[e].symbol}
             w == [d \in D |-> SignedQuantity(d)]
  <1>1. D \in SUBSET Rows
    BY RowFacts
  <1>2. IsFiniteSet(D)
    BY <1>1, RowsFinite
  <1>3. DOMAIN w = D /\ \A d \in D : w[d] \in Int
    BY <1>1, RowFacts
  <1>4. PositionAfter(e) = SumFunction(w)
    BY DEF PositionAfter
  <1> HIDE DEF D, w
  <1> QED
    BY <1>2, <1>3, <1>4, SumFunctionFacts

\* The baseline of no event, and of one event more.
LEMMA CashOfNone == BaselineCash({}) = SeedCash
  <1> DEFINE v == [e \in {} |-> CashDelta(e)]
  <1>1. DOMAIN v = {} /\ BaselineCash({}) = SeedCash + SumFunction(v)
    BY DEF BaselineCash
  <1> HIDE DEF v
  <1>2. SumFunction(v) = 0
    BY <1>1, SumFunctionFacts
  <1> QED
    BY <1>1, <1>2, ProofAssumption

\* An event adds its cash to the baseline.
LEMMA CashOfOneMore ==
    ASSUME NEW S \in SUBSET Rows, NEW y \in Rows \ S
    PROVE  BaselineCash(S \cup {y}) = BaselineCash(S) + CashDelta(y)
  <1> DEFINE v == [e \in S |-> CashDelta(e)]
             w == [e \in S \cup {y} |-> CashDelta(e)]
  <1>1. IsFiniteSet(S)
    BY RowsFinite
  <1>2. DOMAIN v = S /\ \A x \in S : v[x] \in Int
    BY RowFacts
  <1>3. DOMAIN w = S \cup {y} /\ w[y] = CashDelta(y) /\ CashDelta(y) \in Int
    BY RowFacts
  <1>4. OneMore(w, v, S, y)
    BY <1>1, RowFacts DEF OneMore
  <1>5. BaselineCash(S) = SeedCash + SumFunction(v)
        /\ BaselineCash(S \cup {y}) = SeedCash + SumFunction(w)
    BY DEF BaselineCash
  <1> HIDE DEF v, w
  <1>6. SumFunction(w) = w[y] + SumFunction(v)
    BY <1>2, <1>3, <1>4, SumFunctionAdd
  <1>7. SumFunction(v) \in Int
    BY <1>1, <1>2, SumFunctionFacts
  <1> DEFINE x == CashDelta(y)
             b == SumFunction(v)
  <1>8. SumFunction(w) = x + b /\ x \in Int /\ b \in Int /\ SeedCash \in Int
    BY <1>3, <1>6, <1>7, ProofAssumption
  <1>9. BaselineCash(S) = SeedCash + b /\ BaselineCash(S \cup {y}) = SeedCash + SumFunction(w)
    BY <1>5
  <1> HIDE DEF x, b
  <1>10. BaselineCash(S \cup {y}) = BaselineCash(S) + x
    BY <1>8, <1>9
  <1> QED
    BY <1>10 DEF x

\* The next row sets the position of its symbol.
LEMMA PositionsOfOneMore ==
    ASSUME NEW p \in Nat, p + 1 \in Rows
    PROVE  BaselinePositions(1..(p + 1)) =
               [BaselinePositions(1..p) EXCEPT ![Trades[p + 1].symbol] = PositionAfter(p + 1)]
  <1> DEFINE Of(n, s) == {e \in 1..n : Trades[e].symbol = s}
             y == Trades[p + 1].symbol
  <1>1. Max(Of(p + 1, y)) = p + 1 /\ Of(p + 1, y) # {}
    <2> DEFINE R == Of(p + 1, y)
           n == p + 1
    <2>1. n \in Nat /\ R \in SUBSET (0..n) /\ n \in R
      OBVIOUS
    <2> HIDE DEF R, n
    <2>2. Max(R) \in R /\ \A x \in R : x <= Max(R)
      BY <2>1, GreatestNumber
    <2>3. Max(R) \in 0..n /\ n <= Max(R)
      BY <2>1, <2>2
    <2>4. Max(R) = n /\ R # {}
      BY <2>1, <2>3
    <2> QED
      BY <2>4 DEF R, n
  <1>2. ASSUME NEW s, s # y
        PROVE  Of(p + 1, s) = Of(p, s)
    BY <1>2
  <1>3. \A n : BaselinePositions(1..n)
            = [s \in Symbols |-> IF Of(n, s) = {} THEN 0 ELSE PositionAfter(Max(Of(n, s)))]
    BY DEF BaselinePositions
  <1>4. y \in Symbols
    BY RowFacts
  <1> DEFINE old == BaselinePositions(1..p)
             new == BaselinePositions(1..(p + 1))
  <1> HIDE DEF Of, y
  <1>5. new = [old EXCEPT ![y] = PositionAfter(p + 1)]
    <2>1. /\ old = [s \in Symbols |-> IF Of(p, s) = {} THEN 0 ELSE PositionAfter(Max(Of(p, s)))]
          /\ new = [s \in Symbols |-> IF Of(p + 1, s) = {} THEN 0
                                      ELSE PositionAfter(Max(Of(p + 1, s)))]
      BY <1>3
    <2> HIDE DEF old, new
    <2>2. new[y] = PositionAfter(p + 1)
      BY <1>1, <1>4, <2>1
    <2>3. ASSUME NEW s \in Symbols, s # y
          PROVE  new[s] = old[s]
      BY <1>2, <2>1, <2>3
    <2>4. DOMAIN old = Symbols /\ new = [s \in Symbols |-> new[s]]
      BY <2>1
    <2> QED
      BY <2>1, <2>2, <2>3, <2>4
  <1> QED
    BY <1>5 DEF y

\* No row, no position.
LEMMA PositionsOfNone == BaselinePositions(1..0) = [s \in Symbols |-> 0]
  BY DEF BaselinePositions

-----------------------------------------------------------------------------
(* The relay *)

\* The newest entry is that of a row, and there is none on an empty stream only.
LEMMA NewestFacts ==
    ASSUME StreamInv
    PROVE  /\ Len(stream) \in Nat /\ DOMAIN stream = 1..Len(stream)
           /\ \A i \in DOMAIN stream : stream[i] \in Rows
           /\ Newest \in 0..Len(Trades)
           /\ stream = << >> <=> Len(stream) = 0
           /\ stream = << >> <=> Newest = 0
           /\ stream # << >> => Newest = stream[Len(stream)]
  <1>1. /\ Len(stream) \in Nat /\ DOMAIN stream = 1..Len(stream)
        /\ \A i \in DOMAIN stream : stream[i] \in Rows
        /\ stream = << >> <=> Len(stream) = 0
    BY SeqFacts DEF StreamInv
  <1>2. stream # << >> => Newest = stream[Len(stream)] /\ Newest \in Rows
    BY <1>1 DEF Newest
  <1>3. stream = << >> => Newest = 0
    BY DEF Newest
  <1> QED
    BY <1>1, <1>2, <1>3, RowFacts

\* The unmarked rows as unsent_outbox lists them.
LEMMA UnsentRows ==
    ASSUME NEW k \in 0..Len(Trades), sent = 1..k, NEW rows \in Unsent
    PROVE  rows = After(k)
  <1> DEFINE n == Len(Trades) - k
  <1>1. n \in Nat /\ k \in Nat /\ Rows \ sent = (k + 1)..(k + n)
    BY RowFacts
  <1>2. rows \in Ascending((k + 1)..(k + n))
    BY <1>1 DEF Unsent
  <1>3. After(k) = [i \in 1..n |-> k + i]
    BY DEF After
  <1> HIDE DEF n
  <1> QED
    BY <1>1, <1>2, <1>3, AscendingInterval

\* The list of unmarked rows, its first, and what is left after it.
LEMMA AfterFacts ==
    ASSUME NEW k \in 0..Len(Trades)
    PROVE  /\ After(k) \in Seq(Rows)
           /\ After(k) = << >> <=> k = Len(Trades)
           /\ k < Len(Trades) => /\ k + 1 \in Rows /\ Head(After(k)) = k + 1
                                 /\ Tail(After(k)) = After(k + 1)
  <1> DEFINE N == Len(Trades)
             n == N - k
  <1>1. N \in Nat /\ Rows = 1..N /\ k \in 0..N /\ n \in Nat
    BY RowFacts
  <1>2. After(k) = [i \in 1..n |-> k + i] /\ After(k + 1) = [i \in 1..(N - (k + 1)) |-> (k + 1) + i]
    BY DEF After
  <1>3. n = N - k
    OBVIOUS
  <1> HIDE DEF N, n
  <1>4. After(k) \in Seq(Rows) /\ Len(After(k)) = n
    BY <1>1, <1>2, <1>3
  <1>5. After(k) = << >> <=> k = N
    <2>1. After(k) = << >> <=> n = 0
      BY <1>4, SeqFacts
    <2> QED
      BY <1>1, <1>3, <2>1
  <1>6. ASSUME k < N
        PROVE  k + 1 \in Rows /\ Head(After(k)) = k + 1 /\ Tail(After(k)) = After(k + 1)
    <2>1. /\ 1 \in DOMAIN After(k) /\ Head(After(k)) = After(k)[1]
          /\ Tail(After(k)) \in Seq(Rows) /\ Len(Tail(After(k))) = n - 1
          /\ \A i \in DOMAIN Tail(After(k)) : Tail(After(k))[i] = After(k)[i + 1]
      BY <1>4, <1>5, <1>6, SeqFacts
    <2>2. Head(After(k)) = k + 1 /\ k + 1 \in Rows
      BY <1>1, <1>2, <1>6, <2>1
    <2>3. /\ DOMAIN Tail(After(k)) = 1..(n - 1)
          /\ Tail(After(k)) = [i \in 1..(n - 1) |-> Tail(After(k))[i]]
      <3> DEFINE T == Tail(After(k))
      <3>1. T \in Seq(Rows) /\ Len(T) = n - 1
        BY <2>1
      <3> HIDE DEF T
      <3>2. DOMAIN T = 1..(n - 1) /\ T = [i \in 1..(n - 1) |-> T[i]]
        BY <3>1
      <3> QED
        BY <3>2 DEF T
    <2>4. ASSUME NEW i \in 1..(n - 1)
          PROVE  Tail(After(k))[i] = (k + 1) + i
      BY <1>1, <1>2, <2>1, <2>3, <2>4
    <2>5. n - 1 = N - (k + 1)
      BY <1>1, <1>3
    <2> QED
      BY <1>2, <2>2, <2>3, <2>4, <2>5
  <1> QED
    BY <1>1, <1>4, <1>5, <1>6 DEF N

\* Only XADD grows the stream, by one entry.
LEMMA StreamFrame == [Next]_vars => UNCHANGED stream \/ XAdd
  BY DEF Next, RelayStep, ConsumerStep, vars, redis, StartRelay, MarkSent, RelayDrained, KillRelay,
         StartConsumer, Reclaim, ReadNew, ReadNothing, Poll, Exit, Check, Apply, ApplyConflict, XAck,
         KillConsumer

\* A step that is none of the relay's leaves its rows and its batch.
RelayRests ==
    /\ UNCHANGED <<sent, stream, relay>>
    /\ kills' \in [relay : Nat, consumer : Nat] /\ kills'.relay = kills.relay
    /\ phase' = phase \/ (phase # "relay" /\ phase' = "done")

\* The steps that concern the relay.
LEMMA RelayFrame ==
    ASSUME IInv, [Next]_vars
    PROVE  StartRelay \/ XAdd \/ MarkSent \/ RelayDrained \/ KillRelay \/ RelayRests
  <1> USE DEF RelayRests
  <1>1. kills \in [relay : Nat, consumer : Nat]
    BY DEF IInv, RelayInv
  <1>2. CASE UNCHANGED vars
    BY <1>1, <1>2 DEF vars, database, redis
  <1>3. ASSUME NEW c \in Consumers, StartConsumer(c) \/ ConsumerStep(c) \/ KillConsumer(c)
        PROVE  RelayRests
    <2>1. CASE StartConsumer(c) \/ Reclaim(c) \/ ReadNew(c) \/ ReadNothing(c) \/ Poll(c) \/ Check(c)
               \/ Apply(c) \/ ApplyConflict(c) \/ XAck(c)
      BY <1>1, <2>1 DEF StartConsumer, Reclaim, ReadNew, ReadNothing, Poll, Check, Apply, ApplyConflict, XAck,
                        database, redis
    <2>2. CASE Exit(c)
      <3>1. phase # "relay"
        BY <1>3, <2>2 DEF Exit, IInv, GroupInv, Fits
      <3> QED
        BY <1>1, <2>2, <3>1 DEF Exit, database, redis
    <2>3. CASE KillConsumer(c)
      <3>1. kills' = [kills EXCEPT !.consumer = @ + 1]
        BY <2>3 DEF KillConsumer
      <3>2. kills' \in [relay : Nat, consumer : Nat] /\ kills'.relay = kills.relay
        BY <1>1, <3>1
      <3> QED
        BY <2>3, <3>2 DEF KillConsumer, database, redis
    <2> QED
      BY <1>3, <2>1, <2>2, <2>3 DEF ConsumerStep
  <1> QED
    BY <1>2, <1>3 DEF Next, RelayStep

\* The stream with one more entry.
LEMMA XAddFacts ==
    ASSUME IInv, XAdd, NEW k \in 0..Len(Trades), Marked(k)
    PROVE  /\ k < Len(Trades) /\ stream' = Append(stream, k + 1) /\ k + 1 \in Rows
           /\ stream' \in Seq(Rows) /\ Len(stream') = Len(stream) + 1
           /\ DOMAIN stream' = DOMAIN stream \cup {Len(stream) + 1}
           /\ \A i \in DOMAIN stream : stream'[i] = stream[i]
           /\ stream'[Len(stream) + 1] = k + 1
           /\ Newest' = k + 1
  <1>1. relay.pc = "publish" /\ relay.batch # << >> /\ stream' = Append(stream, Head(relay.batch))
    BY DEF XAdd
  <1>2. relay.batch = After(k)
    BY <1>1 DEF Marked
  <1>3. k < Len(Trades)
    BY <1>1, <1>2, AfterFacts, RowFacts
  <1>4. stream' = Append(stream, k + 1) /\ k + 1 \in Rows
    BY <1>1, <1>2, <1>3, AfterFacts
  <1>5. stream \in Seq(Rows)
    BY DEF IInv, StreamInv
  <1>6. /\ stream' \in Seq(Rows) /\ Len(stream') = Len(stream) + 1
        /\ DOMAIN stream' = DOMAIN stream \cup {Len(stream) + 1}
        /\ \A i \in DOMAIN stream : stream'[i] = stream[i]
        /\ stream'[Len(stream) + 1] = k + 1
    BY <1>4, <1>5, SeqFacts
  <1>7. Newest' = k + 1
    <2>1. Len(stream) \in Nat
      BY <1>5, SeqFacts
    <2>2. stream' # << >>
      BY <1>6, <2>1, SeqFacts
    <2> QED
      BY <1>6, <2>2 DEF Newest
  <1> QED
    BY <1>3, <1>4, <1>6, <1>7

\* The order on the stream survives a step.
LEMMA StreamKeeps == IInv /\ [Next]_vars => StreamInv'
  <1> SUFFICES ASSUME IInv, [Next]_vars
               PROVE  StreamInv'
    OBVIOUS
  <1>1. CASE UNCHANGED stream
    BY <1>1 DEF IInv, StreamInv, Newest
  <1>2. CASE XAdd
    <2>1. PICK k \in 0..Len(Trades) : Marked(k)
      BY DEF IInv, RelayInv
    <2> DEFINE n == Len(stream)
    <2>2. /\ stream' \in Seq(Rows) /\ Len(stream') = n + 1
          /\ DOMAIN stream' = DOMAIN stream \cup {n + 1}
          /\ \A i \in DOMAIN stream : stream'[i] = stream[i]
          /\ stream'[n + 1] = k + 1 /\ Newest' = k + 1
      BY <1>2, <2>1, XAddFacts
    <2>3. /\ n \in Nat /\ DOMAIN stream = 1..n /\ Newest \in {k, k + 1} /\ k \in Nat
          /\ \A i \in DOMAIN stream : stream[i] \in Nat
          /\ stream = << >> <=> n = 0
          /\ stream = << >> <=> Newest = 0
          /\ stream # << >> => Newest = stream[n]
      BY <2>1, NewestFacts, RowFacts DEF IInv, Marked
    <2>4. /\ stream # << >> => stream[1] = 1
          /\ \A i \in 1..n - 1 : stream[i + 1] \in {stream[i], stream[i] + 1}
          /\ \A i \in DOMAIN stream : stream[i] <= Newest
          /\ \A v \in 1..Newest : \E i \in DOMAIN stream : stream[i] = v
      BY DEF IInv, StreamInv
    <2> HIDE DEF n
    <2>5. stream'[1] = 1
      <3>1. CASE n = 0
        BY <2>2, <2>3, <3>1
      <3>2. CASE n # 0
        BY <2>2, <2>3, <2>4, <3>2
      <3> QED
        BY <3>1, <3>2
    <2>6. ASSUME NEW i \in 1..(n + 1) - 1
          PROVE  stream'[i + 1] \in {stream'[i], stream'[i] + 1}
      <3>1. CASE i = n
        <4>1. stream'[i] = Newest /\ stream'[i + 1] = k + 1
          BY <2>2, <2>3, <2>6, <3>1
        <4> QED
          BY <2>3, <4>1
      <3>2. CASE i # n
        <4>1. i \in 1..n - 1 /\ i \in DOMAIN stream /\ i + 1 \in DOMAIN stream
          BY <2>3, <3>2
        <4> QED
          BY <2>2, <2>4, <4>1
      <3> QED
        BY <3>1, <3>2
    <2>7. ASSUME NEW i \in DOMAIN stream'
          PROVE  stream'[i] <= Newest'
      BY <2>2, <2>3, <2>4
    <2>8. ASSUME NEW v \in 1..Newest'
          PROVE  \E i \in DOMAIN stream' : stream'[i] = v
      <3>1. CASE v = k + 1
        BY <2>2, <3>1
      <3>2. CASE v # k + 1
        <4>1. v \in 1..Newest
          BY <2>2, <2>3, <3>2
        <4> QED
          BY <2>2, <2>4, <4>1
      <3> QED
        BY <3>1, <3>2
    <2> QED
      BY <2>2, <2>5, <2>6, <2>7, <2>8 DEF StreamInv
  <1> QED
    BY <1>1, <1>2, StreamFrame

\* The rows marked, the batch and the newest entry keep their relation.
LEMMA RelayKeeps == IInv /\ [Next]_vars => RelayInv'
  <1> SUFFICES ASSUME IInv, [Next]_vars
               PROVE  RelayInv'
    OBVIOUS
  <1> DEFINE N == Len(Trades)
  <1>1. PICK k \in 0..N : Marked(k)
    BY DEF IInv, RelayInv
  <1>2. /\ relay \in [pc : {"down", "publish", "mark"}, batch : Seq(Rows)]
        /\ phase \in {"relay", "consumer", "done"}
        /\ kills \in [relay : Nat, consumer : Nat]
    BY DEF IInv, RelayInv
  <1>3. /\ N \in Nat /\ Len(stream) \in Nat /\ kills.relay \in Nat /\ k \in Nat /\ Newest \in {k, k + 1}
    BY <1>1, <1>2, RowFacts, NewestFacts DEF IInv, Marked
  <1>4. /\ After(k) \in Seq(Rows)
        /\ After(k) = << >> <=> k = N
        /\ k < N => /\ k + 1 \in 0..N /\ Head(After(k)) = k + 1
                    /\ Tail(After(k)) = After(k + 1) /\ After(k + 1) \in Seq(Rows)
    BY <1>1, <1>3, AfterFacts
  <1>5. /\ sent = 1..k
        /\ relay.pc = "down" => relay.batch = << >>
        /\ relay.pc # "down" => relay.batch = After(k) /\ phase = "relay"
        /\ relay.pc = "mark" => Newest = k + 1 /\ k < N
        /\ Len(stream) + (IF Newest = k + 1 /\ relay.pc # "mark" THEN 1 ELSE 0) <= Newest + kills.relay
        /\ phase # "relay" => k = N /\ relay.pc = "down"
    BY <1>1, <1>2 DEF Marked
  <1> HIDE DEF N
  <1>6. CASE StartRelay
    <2>1. /\ phase = "relay" /\ relay.pc = "down" /\ UNCHANGED <<sent, stream, phase, kills>>
          /\ \E rows \in Unsent : relay' = [pc |-> "publish", batch |-> rows]
      BY <1>6 DEF StartRelay, database, redis
    <2>2. relay' = [pc |-> "publish", batch |-> After(k)]
      BY <1>1, <1>5, <2>1, UnsentRows DEF N
    <2>3. Newest' = Newest
      BY <2>1 DEF Newest
    <2>4. Marked(k)'
      BY <1>3, <1>5, <2>1, <2>2, <2>3 DEF Marked
    <2> QED
      BY <1>1, <1>2, <1>4, <2>1, <2>2, <2>4 DEF RelayInv, N
  <1>7. CASE XAdd
    <2>1. /\ relay.pc = "publish" /\ relay' = [relay EXCEPT !.pc = "mark"]
          /\ UNCHANGED <<sent, phase, kills>>
      BY <1>7 DEF XAdd, database
    <2>2. k < N /\ Len(stream') = Len(stream) + 1 /\ Newest' = k + 1
      BY <1>1, <1>7, XAddFacts DEF N
    <2>3. relay'.pc = "mark" /\ relay'.batch = relay.batch
          /\ relay' \in [pc : {"down", "publish", "mark"}, batch : Seq(Rows)]
      BY <1>2, <2>1
    <2>4. Len(stream) + 1 <= (k + 1) + kills.relay
      BY <1>3, <1>5, <2>1
    <2>5. Marked(k)'
      BY <1>3, <1>5, <2>1, <2>2, <2>3, <2>4 DEF Marked, N
    <2> QED
      BY <1>1, <1>2, <2>1, <2>3, <2>5 DEF RelayInv, N
  <1>8. CASE MarkSent
    <2>1. /\ relay.pc = "mark" /\ sent' = sent \cup {Head(relay.batch)}
          /\ relay' = [pc |-> "publish", batch |-> Tail(relay.batch)]
          /\ UNCHANGED <<stream, phase, kills>>
      BY <1>8 DEF MarkSent, redis
    <2>2. /\ k < N /\ Newest = k + 1 /\ Newest' = k + 1
          /\ relay' = [pc |-> "publish", batch |-> After(k + 1)]
          /\ sent' = (1..k) \cup {k + 1}
      BY <1>4, <1>5, <2>1 DEF Newest
    <2>3. sent' = 1..(k + 1)
      BY <1>3, <2>2
    <2> DEFINE m == k + 1
    <2>4. /\ m \in 0..N /\ After(m) \in Seq(Rows) /\ Newest' = m /\ m # m + 1
          /\ sent' = 1..m /\ relay'.pc = "publish" /\ relay'.batch = After(m)
          /\ relay' \in [pc : {"down", "publish", "mark"}, batch : Seq(Rows)]
          /\ Len(stream') <= Newest' + kills'.relay /\ phase' = "relay"
      <3>1. m \in 0..N /\ After(m) \in Seq(Rows) /\ m # m + 1
        BY <1>3, <1>4, <2>2
      <3>2. Newest' = m /\ sent' = 1..m /\ phase' = "relay"
        BY <1>5, <2>1, <2>2, <2>3
      <3>3. relay' = [pc |-> "publish", batch |-> After(m)]
        BY <2>2
      <3>4. Len(stream') <= Newest' + kills'.relay
        BY <1>3, <1>5, <2>1, <2>2
      <3> HIDE DEF m
      <3> QED
        BY <3>1, <3>2, <3>3, <3>4
    <2> HIDE DEF m
    <2>5. Marked(m)'
      <3>1. Len(stream') + (IF Newest' = m + 1 /\ relay'.pc # "mark" THEN 1 ELSE 0)
            <= Newest' + kills'.relay
        BY <1>3, <2>1, <2>4
      <3> QED
        BY <2>4, <3>1 DEF Marked
    <2> QED
      BY <1>2, <2>1, <2>4, <2>5 DEF RelayInv, N
  <1>9. CASE RelayDrained
    <2>1. /\ relay.pc = "publish" /\ relay.batch = << >> /\ relay' = RelayDown
          /\ phase' = "consumer" /\ UNCHANGED <<sent, stream, kills>>
      BY <1>9 DEF RelayDrained, database, redis
    <2>2. k = N /\ Newest' = Newest
      BY <1>4, <1>5, <2>1 DEF Newest
    <2>3. Marked(k)'
      BY <1>3, <1>5, <2>1, <2>2 DEF Marked, RelayDown, N
    <2>4. << >> \in Seq(Rows)
      OBVIOUS
    <2> QED
      BY <1>1, <1>2, <2>1, <2>3, <2>4 DEF RelayInv, RelayDown, N
  <1>10. CASE KillRelay
    <2>1. /\ relay.pc # "down" /\ kills' = [kills EXCEPT !.relay = @ + 1] /\ relay' = RelayDown
          /\ UNCHANGED <<sent, stream, phase>>
      BY <1>10 DEF KillRelay, database, redis
    <2>2. Newest' = Newest
      BY <2>1 DEF Newest
    <2>3. kills' \in [relay : Nat, consumer : Nat] /\ kills'.relay = kills.relay + 1
      BY <1>2, <2>1
    <2>4. Len(stream) + 1 <= Newest + (kills.relay + 1)
      BY <1>3, <1>5
    <2>5. Marked(k)'
      BY <1>3, <1>5, <2>1, <2>2, <2>3, <2>4 DEF Marked, RelayDown, N
    <2>6. << >> \in Seq(Rows)
      OBVIOUS
    <2> QED
      BY <1>1, <1>2, <2>1, <2>3, <2>5, <2>6 DEF RelayInv, RelayDown, N
  <1>11. CASE RelayRests
    <2>1. Newest' = Newest
      BY <1>11 DEF RelayRests, Newest
    <2>2. Marked(k)'
      BY <1>1, <1>5, <1>11, <2>1 DEF Marked, RelayRests, N
    <2> QED
      BY <1>1, <1>2, <1>11, <2>2 DEF RelayInv, RelayRests, N
  <1> QED
    BY <1>6, <1>7, <1>8, <1>9, <1>10, <1>11, RelayFrame

-----------------------------------------------------------------------------
(* The group and its consumers *)

\* Consumer c is now in a state with these fields, the others are where they were.
Becomes(c, pc, task, batch, idle) ==
    /\ consumer'[c] = [pc |-> pc, task |-> task, batch |-> batch, idle |-> idle]
    /\ \A d \in Consumers : d # c => consumer'[d] = consumer[d]
    /\ consumer' = [d \in Consumers |-> consumer'[d]]

\* What each step makes of its consumer.
LEMMA Moves ==
    ASSUME IInv, NEW c \in Consumers
    PROVE  LET was == consumer[c]
           IN  /\ StartConsumer(c) => Becomes(c, "reclaim", "reclaim", << >>, 0)
               /\ Reclaim(c) => \E entries \in Ascending(pending) :
                    Becomes(c, IF pending = {} THEN "read" ELSE "check", "reclaim", entries, was.idle)
               /\ ReadNew(c) => Becomes(c, "check", "new", <<cursor + 1>>, 0)
               /\ ReadNothing(c) => Becomes(c, "poll", was.task, was.batch, was.idle)
               /\ Poll(c) => \E n \in Nat : Becomes(c, "reclaim", was.task, was.batch, n)
               /\ Exit(c) => Becomes(c, "down", "reclaim", << >>, 0)
               /\ Check(c) => Becomes(c, IF Contains(processed, Event(c)) THEN "ack" ELSE "apply",
                                      was.task, was.batch, was.idle)
               /\ Apply(c) => Becomes(c, "ack", was.task, was.batch, was.idle)
               /\ ApplyConflict(c) => Becomes(c, "ack", was.task, was.batch, was.idle)
               /\ XAck(c) => Becomes(c, IF Tail(was.batch) # << >> THEN "check"
                                        ELSE IF was.task = "reclaim" THEN "read" ELSE "reclaim",
                                     was.task, Tail(was.batch), was.idle)
               /\ KillConsumer(c) => Becomes(c, "down", "reclaim", << >>, 0)
  <1> DEFINE was == consumer[c]
  <1>1. /\ consumer = [d \in Consumers |-> consumer[d]] /\ was \in ConsumerStates
        /\ was.idle \in Nat
    BY DEF IInv, GroupInv, Fits, ConsumerStates
  <1>2. was = [pc |-> was.pc, task |-> was.task, batch |-> was.batch, idle |-> was.idle]
    BY <1>1 DEF ConsumerStates
  <1>3. ASSUME NEW p, NEW t, NEW b, NEW n,
               \/ consumer' = [consumer EXCEPT ![c] = [pc |-> p, task |-> t, batch |-> b, idle |-> n]]
               \/ consumer' = [consumer EXCEPT ![c].pc = p] /\ t = was.task /\ b = was.batch /\ n = was.idle
               \/ consumer' = [consumer EXCEPT ![c].pc = p, ![c].idle = n] /\ t = was.task /\ b = was.batch
               \/ consumer' = [consumer EXCEPT ![c].batch = b, ![c].pc = p] /\ t = was.task /\ n = was.idle
               \/ consumer' = [consumer EXCEPT ![c].batch = b, ![c].task = t, ![c].pc = p] /\ n = was.idle
        PROVE  Becomes(c, p, t, b, n)
    BY <1>1, <1>2, <1>3 DEF Becomes
  <1>4. StartConsumer(c) => Becomes(c, "reclaim", "reclaim", << >>, 0)
    BY <1>3 DEF StartConsumer, ConsumerDown
  <1>5. Reclaim(c) => \E entries \in Ascending(pending) :
            Becomes(c, IF pending = {} THEN "read" ELSE "check", "reclaim", entries, was.idle)
    BY <1>3 DEF Reclaim
  <1>6. ReadNew(c) => Becomes(c, "check", "new", <<cursor + 1>>, 0)
    BY <1>3 DEF ReadNew
  <1>7. ReadNothing(c) => Becomes(c, "poll", was.task, was.batch, was.idle)
    BY <1>3 DEF ReadNothing
  <1>12. Poll(c) => \E n \in Nat : Becomes(c, "reclaim", was.task, was.batch, n)
    <2> SUFFICES ASSUME Poll(c)
                 PROVE  \E n \in Nat : Becomes(c, "reclaim", was.task, was.batch, n)
      OBVIOUS
    <2> DEFINE n == Idle(c)
    <2>1. consumer' = [consumer EXCEPT ![c].pc = "reclaim", ![c].idle = n]
      BY DEF Poll
    <2>2. n \in Nat
      BY <1>1 DEF Idle
    <2> HIDE DEF n
    <2> QED
      BY <1>3, <2>1, <2>2
  <1>13. Exit(c) => Becomes(c, "down", "reclaim", << >>, 0)
    BY <1>3 DEF Exit, ConsumerDown
  <1>8. Check(c) => Becomes(c, IF Contains(processed, Event(c)) THEN "ack" ELSE "apply",
                            was.task, was.batch, was.idle)
    BY <1>3 DEF Check
  <1>9. Apply(c) \/ ApplyConflict(c) => Becomes(c, "ack", was.task, was.batch, was.idle)
    BY <1>3 DEF Apply, ApplyConflict
  <1>10. XAck(c) => Becomes(c, IF Tail(was.batch) # << >> THEN "check"
                               ELSE IF was.task = "reclaim" THEN "read" ELSE "reclaim",
                            was.task, Tail(was.batch), was.idle)
    <2> DEFINE rest == Tail(was.batch)
               p == IF rest # << >> THEN "check"
                    ELSE IF was.task = "reclaim" THEN "read" ELSE "reclaim"
    <2>1. XAck(c) => consumer' = [consumer EXCEPT ![c].batch = rest, ![c].pc = p]
      BY DEF XAck
    <2> HIDE DEF rest, p
    <2>2. XAck(c) => Becomes(c, p, was.task, rest, was.idle)
      BY <1>3, <2>1
    <2> QED
      BY <2>2 DEF rest, p
  <1>11. KillConsumer(c) => Becomes(c, "down", "reclaim", << >>, 0)
    BY <1>3 DEF KillConsumer, ConsumerDown
  <1> QED
    BY <1>4, <1>5, <1>6, <1>7, <1>8, <1>9, <1>10, <1>11, <1>12, <1>13

\* The entry at hand and the rest of the batch.
LEMMA EntryFacts ==
    ASSUME IInv, NEW c \in Consumers, consumer[c].pc \in {"check", "apply", "ack"}
    PROVE  /\ cursor \in 0..Len(stream) /\ 1..cursor \subseteq DOMAIN stream
           /\ consumer[c].batch \in Seq(Nat) /\ consumer[c].batch # << >>
           /\ Head(consumer[c].batch) = consumer[c].batch[1]
           /\ Head(consumer[c].batch) \in 1..cursor /\ Head(consumer[c].batch) \in DOMAIN stream
           /\ Event(c) = stream[Head(consumer[c].batch)] /\ Event(c) \in Rows
           /\ Tail(consumer[c].batch) \in Seq(Nat)
           /\ \A i \in DOMAIN Tail(consumer[c].batch) : Tail(consumer[c].batch)[i] \in 1..cursor
  <1> DEFINE q == consumer[c].batch
  <1>1. /\ cursor \in {NoGroup} \cup 0..Len(stream) /\ cursor # NoGroup
        /\ q \in Seq(Nat) /\ q # << >> /\ \A i \in DOMAIN q : q[i] \in 1..cursor
    BY DEF IInv, GroupInv, Fits, ConsumerStates
  <1>2. /\ DOMAIN stream = 1..Len(stream) /\ Len(stream) \in Nat
        /\ \A i \in DOMAIN stream : stream[i] \in Rows
    BY NewestFacts DEF IInv
  <1> HIDE DEF q
  <1>3. /\ 1 \in DOMAIN q /\ Head(q) = q[1] /\ Tail(q) \in Seq(Nat)
        /\ \A i \in DOMAIN Tail(q) : i + 1 \in DOMAIN q /\ Tail(q)[i] = q[i + 1]
    BY <1>1, SeqFacts
  <1>4. cursor \in 0..Len(stream) /\ 1..cursor \subseteq DOMAIN stream
    BY <1>1, <1>2
  <1>5. Head(q) \in 1..cursor /\ Head(q) \in DOMAIN stream
    BY <1>1, <1>3, <1>4
  <1>6. \A i \in DOMAIN Tail(q) : Tail(q)[i] \in 1..cursor
    BY <1>1, <1>3
  <1>7. Event(c) = stream[Head(q)] /\ stream[Head(q)] \in Rows
    BY <1>2, <1>5 DEF Event, q
  <1> QED
    BY <1>1, <1>3, <1>4, <1>5, <1>6, <1>7 DEF q

\* The steps of the consumers.
LEMMA ConsumerFrame ==
    [Next]_vars =>
        \/ UNCHANGED <<cursor, pending, consumer, processed, proj_cash, proj_positions, overlapped>>
        \/ \E c \in Consumers : StartConsumer(c) \/ ConsumerStep(c) \/ KillConsumer(c)
  BY DEF Next, RelayStep, vars, database, redis, projection, StartRelay, XAdd, MarkSent,
         RelayDrained, KillRelay

\* Only store.apply adds to the processed events.
LEMMA ProcessedFrame ==
    [Next]_vars => \/ UNCHANGED projection
                   \/ \E c \in Consumers : Apply(c)
  BY DEF Next, RelayStep, vars, database, projection, StartRelay, XAdd, MarkSent,
         RelayDrained, KillRelay, ConsumerStep, StartConsumer, Reclaim, ReadNew, ReadNothing, Poll, Exit,
         Check, ApplyConflict, XAck, KillConsumer

\* An event more among the processed ones.
LEMMA ApplyFacts ==
    ASSUME IInv, NEW c \in Consumers, Apply(c)
    PROVE  /\ Event(c) \in Rows /\ ~Contains(processed, Event(c))
           /\ processed' = Append(processed, Event(c))
           /\ processed' \in Seq(Rows) /\ Len(processed') = Len(processed) + 1
           /\ DOMAIN processed = 1..Len(processed) /\ Len(processed) \in Nat
           /\ DOMAIN processed' = DOMAIN processed \cup {Len(processed) + 1}
           /\ \A i \in DOMAIN processed : processed'[i] = processed[i]
           /\ processed'[Len(processed) + 1] = Event(c)
           /\ ToSet(processed') = ToSet(processed) \cup {Event(c)}
           /\ ToSet(processed) \subseteq Rows /\ Event(c) \notin ToSet(processed)
  <1>1. /\ consumer[c].pc = "apply" /\ ~Contains(processed, Event(c))
        /\ processed' = Append(processed, Event(c))
    BY DEF Apply
  <1>2. Event(c) \in Rows
    BY <1>1, EntryFacts
  <1>3. processed \in Seq(Rows)
    BY DEF IInv, DatabaseInv
  <1>4. /\ processed' \in Seq(Rows) /\ Len(processed') = Len(processed) + 1
        /\ DOMAIN processed = 1..Len(processed) /\ Len(processed) \in Nat
        /\ DOMAIN processed' = DOMAIN processed \cup {Len(processed) + 1}
        /\ \A i \in DOMAIN processed : processed'[i] = processed[i]
        /\ processed'[Len(processed) + 1] = Event(c)
        /\ \A i \in DOMAIN processed : processed[i] \in Rows
    BY <1>1, <1>2, <1>3, SeqFacts
  <1>5. ToSet(processed') = ToSet(processed) \cup {Event(c)}
    BY <1>4 DEF ToSet
  <1>6. ToSet(processed) \subseteq Rows /\ Event(c) \notin ToSet(processed)
    BY <1>1, <1>4 DEF ToSet, Contains
  <1> QED
    BY <1>1, <1>2, <1>4, <1>5, <1>6

\* A member of the processed events.
LEMMA ContainsFacts ==
    ASSUME IInv
    PROVE  \A e : Contains(processed, e) <=> e \in ToSet(processed)
  <1>1. DOMAIN processed = 1..Len(processed)
    BY SeqFacts DEF IInv, DatabaseInv
  <1> QED
    BY <1>1 DEF Contains, ToSet

\* Processed events stay, entries stay where they are, the group and the proof
\* only go on.
LEMMA Grows ==
    ASSUME IInv, [Next]_vars
    PROVE  /\ \A e : Contains(processed, e) => Contains(processed', e)
           /\ \A i \in DOMAIN stream : i \in DOMAIN stream' /\ stream'[i] = stream[i]
           /\ Len(stream') \in Nat /\ Len(stream) <= Len(stream')
           /\ cursor # NoGroup => cursor \in Nat /\ cursor' \in Nat /\ cursor <= cursor'
           /\ phase # "relay" => phase' # "relay" /\ stream' = stream
           /\ phase # "relay" /\ cursor = Len(stream) => cursor' = cursor
  <1>1. ASSUME NEW e, Contains(processed, e)
        PROVE  Contains(processed', e)
    <2>1. CASE UNCHANGED projection
      BY <1>1, <2>1 DEF projection
    <2>2. ASSUME NEW c \in Consumers, Apply(c)
          PROVE  Contains(processed', e)
      <3>1. PICK i \in 1..Len(processed) : processed[i] = e
        BY <1>1 DEF Contains
      <3>2. i \in 1..Len(processed') /\ processed'[i] = e
        BY <2>2, <3>1, ApplyFacts
      <3> QED
        BY <3>2 DEF Contains
    <2> QED
      BY <2>1, <2>2, ProcessedFrame
  <1>2. PICK k \in 0..Len(Trades) : Marked(k)
    BY DEF IInv, RelayInv
  <1>3. Len(stream) \in Nat
    BY NewestFacts DEF IInv
  <1>4. CASE UNCHANGED stream
    <2>1. phase # "relay" => phase' # "relay"
      BY RelayFrame DEF RelayRests, StartRelay, XAdd, MarkSent, RelayDrained, KillRelay
    <2>2. cursor # NoGroup => cursor \in Nat /\ cursor' \in Nat /\ cursor <= cursor'
      <3>1. cursor \in {NoGroup} \cup 0..Len(stream)
        BY DEF IInv, GroupInv
      <3>2. CASE UNCHANGED cursor
        BY <1>3, <3>1, <3>2
      <3>3. ASSUME NEW c \in Consumers, StartConsumer(c) \/ ConsumerStep(c) \/ KillConsumer(c)
            PROVE  cursor # NoGroup => cursor' \in {cursor, cursor + 1}
        BY <3>3 DEF StartConsumer, ConsumerStep, KillConsumer, Reclaim, ReadNew, ReadNothing, Poll, Exit,
                    Check, Apply, ApplyConflict, XAck, redis
      <3> QED
        BY <1>3, <3>1, <3>2, <3>3, ConsumerFrame
    <2>3. cursor = Len(stream) => cursor' = cursor
      <3>1. ASSUME cursor = Len(stream), NEW c \in Consumers,
                   StartConsumer(c) \/ ConsumerStep(c) \/ KillConsumer(c)
            PROVE  cursor' = cursor
        <4>1. CASE StartConsumer(c)
          <5>1. cursor' = IF cursor = NoGroup THEN 0 ELSE cursor
            BY <4>1 DEF StartConsumer
          <5> QED
            BY <1>3, <3>1, <5>1 DEF NoGroup
        <4>2. CASE ReadNew(c)
          BY <1>3, <3>1, <4>2 DEF ReadNew
        <4>3. CASE UNCHANGED cursor
          BY <4>3
        <4> QED
          BY <3>1, <4>1, <4>2, <4>3 DEF ConsumerStep, KillConsumer, Reclaim, ReadNothing, Poll, Exit,
                                        Check, Apply, ApplyConflict, XAck, redis
      <3> QED
        BY <3>1, ConsumerFrame
    <2> QED
      BY <1>1, <1>3, <1>4, <2>1, <2>2, <2>3
  <1>5. CASE XAdd
    <2>1. /\ UNCHANGED <<cursor, phase>> /\ phase = "relay"
      BY <1>2, <1>5 DEF XAdd, Marked
    <2>2. /\ DOMAIN stream' = DOMAIN stream \cup {Len(stream) + 1}
          /\ Len(stream') = Len(stream) + 1
          /\ \A i \in DOMAIN stream : stream'[i] = stream[i]
      BY <1>2, <1>5, XAddFacts
    <2>3. cursor \in {NoGroup} \cup 0..Len(stream)
      BY DEF IInv, GroupInv
    <2> QED
      BY <1>1, <1>3, <2>1, <2>2, <2>3
  <1> QED
    BY <1>4, <1>5, StreamFrame

\* What fits goes on fitting while other processes move.
LEMMA FitsLater ==
    ASSUME IInv, [Next]_vars, NEW r, Fits(r)
    PROVE  /\ r \in ConsumerStates
           /\ r.pc # "down" => cursor' # NoGroup /\ phase' # "relay"
           /\ \A i \in DOMAIN r.batch : r.batch[i] \in 1..cursor'
           /\ r.pc \in {"check", "apply", "ack"} => r.batch # << >>
           /\ r.pc = "ack" => Contains(processed', stream'[Head(r.batch)])
           /\ r.pc = "poll" => cursor' = Len(stream')
  <1>1. /\ r \in ConsumerStates
        /\ r.pc # "down" => cursor # NoGroup /\ phase # "relay"
        /\ \A i \in DOMAIN r.batch : r.batch[i] \in 1..cursor
        /\ r.pc \in {"check", "apply", "ack"} => r.batch # << >>
        /\ r.pc = "ack" => Contains(processed, stream[Head(r.batch)])
        /\ r.pc = "poll" => cursor = Len(stream)
    BY DEF Fits
  <1>2. cursor \in {NoGroup} \cup 0..Len(stream)
    BY DEF IInv, GroupInv
  <1>3. r.pc # "down" => cursor' # NoGroup /\ phase' # "relay"
    BY <1>1, Grows DEF NoGroup
  <1>4. ASSUME NEW i \in DOMAIN r.batch
        PROVE  r.batch[i] \in 1..cursor'
    <2>1. r.batch[i] \in 1..cursor
      BY <1>1
    <2>2. cursor # NoGroup
      BY <1>2, <2>1 DEF NoGroup
    <2> QED
      BY <2>1, <2>2, Grows
  <1>5. ASSUME r.pc = "ack"
        PROVE  Contains(processed', stream'[Head(r.batch)])
    <2> DEFINE q == r.batch
    <2>1. q \in Seq(Nat) /\ q # << >> /\ cursor # NoGroup /\ phase # "relay"
      BY <1>1, <1>5 DEF ConsumerStates
    <2>2. stream' = stream
      BY <2>1, Grows
    <2> QED
      BY <1>1, <1>5, <2>2, Grows
  <1>6. r.pc = "poll" => cursor' = Len(stream')
    BY <1>1, Grows
  <1> QED
    BY <1>1, <1>3, <1>4, <1>5, <1>6

\* Only an exit with code 0 moves the phase.
LEMMA PhaseFrame ==
    [Next]_vars => phase' = phase \/ RelayDrained \/ \E c \in Consumers : Exit(c)
  BY DEF Next, RelayStep, vars, StartRelay, XAdd, MarkSent, KillRelay, ConsumerStep, StartConsumer,
         Reclaim, ReadNew, ReadNothing, Poll, Check, Apply, ApplyConflict, XAck, KillConsumer

\* What a consumer's step does to its own state.
LEMMA StepFits ==
    ASSUME IInv, [Next]_vars, NEW c \in Consumers,
           StartConsumer(c) \/ ConsumerStep(c) \/ KillConsumer(c)
    PROVE  /\ consumer' = [d \in Consumers |-> consumer'[d]]
           /\ \A d \in Consumers : d # c => consumer'[d] = consumer[d]
           /\ Fits(consumer[c])'
  <1> DEFINE was == consumer[c]
             now == consumer'[c]
  <1>1. /\ was \in ConsumerStates /\ was.batch \in Seq(Nat) /\ was.idle \in Nat
        /\ was.task \in {"reclaim", "new"} /\ << >> \in Seq(Nat)
        /\ cursor \in {NoGroup} \cup 0..Len(stream) /\ pending \subseteq 1..cursor
        /\ Len(stream) \in Nat
    BY NewestFacts DEF IInv, GroupInv, Fits, ConsumerStates
  <1>2. was.pc # "down" => cursor # NoGroup /\ phase # "relay" /\ cursor' # NoGroup /\ phase' # "relay"
    BY Grows DEF IInv, GroupInv, Fits, NoGroup
  <1>3. \A i \in DOMAIN was.batch : was.batch[i] \in 1..cursor'
    BY FitsLater DEF IInv, GroupInv
  <1>4. ASSUME NEW p \in {"down", "reclaim", "read"}, NEW t \in {"reclaim", "new"}, NEW n \in Nat,
               Becomes(c, p, t, << >>, n), p # "down" => cursor' # NoGroup /\ phase' # "relay"
        PROVE  Fits(consumer[c])'
    <2>1. now = [pc |-> p, task |-> t, batch |-> << >>, idle |-> n]
      BY <1>4 DEF Becomes
    <2>2. now \in ConsumerStates
      BY <1>1, <2>1 DEF ConsumerStates
    <2> QED
      BY <1>4, <2>1, <2>2 DEF Fits
  <1>5. ASSUME NEW p \in {"reclaim", "read", "poll", "check", "apply"}, NEW t \in {"reclaim", "new"},
               NEW n \in Nat, NEW q \in Seq(Nat), Becomes(c, p, t, q, n),
               cursor' # NoGroup, phase' # "relay",
               p \in {"check", "apply"} => q # << >>,
               p = "poll" => cursor' = Len(stream'),
               \A i \in DOMAIN q : q[i] \in 1..cursor'
        PROVE  Fits(consumer[c])'
    <2>1. now = [pc |-> p, task |-> t, batch |-> q, idle |-> n]
      BY <1>5 DEF Becomes
    <2>2. now \in ConsumerStates
      BY <2>1 DEF ConsumerStates
    <2> QED
      BY <1>5, <2>1, <2>2 DEF Fits
  <1>6. ASSUME Becomes(c, "ack", was.task, was.batch, was.idle), was.pc \in {"check", "apply"},
               Contains(processed', Event(c))
        PROVE  Fits(consumer[c])'
    <2>1. now = [pc |-> "ack", task |-> was.task, batch |-> was.batch, idle |-> was.idle]
      BY <1>6 DEF Becomes
    <2>2. now \in ConsumerStates
      BY <1>1, <2>1 DEF ConsumerStates
    <2>3. was.batch # << >> /\ Event(c) = stream[Head(was.batch)] /\ stream' = stream
      BY <1>2, <1>6, EntryFacts, Grows
    <2> QED
      BY <1>2, <1>3, <1>6, <2>1, <2>2, <2>3 DEF Fits
  <1>7. CASE StartConsumer(c)
    <2>1. Becomes(c, "reclaim", "reclaim", << >>, 0)
      BY <1>7, Moves
    <2>2. cursor' # NoGroup /\ phase' # "relay"
      BY <1>7 DEF StartConsumer, NoGroup
    <2> QED
      BY <1>4, <2>1, <2>2 DEF Becomes
  <1>8. CASE Reclaim(c)
    <2>1. PICK q \in Ascending(pending) :
              Becomes(c, IF pending = {} THEN "read" ELSE "check", "reclaim", q, was.idle)
      BY <1>8, Moves
    <2>2. q \in Seq(Nat) /\ (\A i \in DOMAIN q : q[i] \in pending) /\ (pending = {} <=> q = << >>)
      <3> DEFINE n == Len(stream)
      <3>1. n \in Nat /\ pending \in SUBSET (1..n)
        BY <1>1 DEF NoGroup
      <3> HIDE DEF n
      <3> QED
        BY <2>1, <3>1, AscendingFacts
    <2>3. /\ was.pc = "reclaim" /\ cursor' = cursor
      BY <1>8 DEF Reclaim, redis
    <2>4. \A i \in DOMAIN q : q[i] \in 1..cursor'
      BY <1>1, <2>2, <2>3
    <2>5. Fits(consumer[c])'
      <3>1. CASE pending = {}
        BY <1>1, <1>2, <1>5, <2>1, <2>2, <2>3, <2>4, <3>1
      <3>2. CASE pending # {}
        BY <1>1, <1>2, <1>5, <2>1, <2>2, <2>3, <2>4, <3>2
      <3> QED
        BY <3>1, <3>2
    <2> QED
      BY <2>1, <2>5 DEF Becomes
  <1>9. CASE ReadNew(c)
    <2>1. Becomes(c, "check", "new", <<cursor + 1>>, 0) /\ was.pc = "read" /\ cursor' = cursor + 1
      BY <1>9, Moves DEF ReadNew
    <2>2. cursor \in Nat /\ cursor' # NoGroup /\ phase' # "relay"
      BY <1>1, <1>2, <2>1 DEF NoGroup
    <2> DEFINE q == <<cursor + 1>>
    <2>3. q \in Seq(Nat) /\ q # << >> /\ \A i \in DOMAIN q : q[i] \in 1..cursor'
      BY <2>1, <2>2
    <2>4. Becomes(c, "check", "new", q, 0)
      BY <2>1
    <2> HIDE DEF q
    <2> QED
      BY <1>5, <2>2, <2>3, <2>4 DEF Becomes
  <1>10. CASE ReadNothing(c)
    <2>1. /\ was.pc = "read" /\ cursor' = Len(stream')
          /\ Becomes(c, "poll", was.task, was.batch, was.idle)
      BY <1>10, Moves DEF ReadNothing, redis
    <2>2. Fits(consumer[c])'
      BY <1>1, <1>2, <1>3, <1>5, <2>1
    <2> QED
      BY <2>1, <2>2 DEF Becomes
  <1>16. CASE Poll(c)
    <2>1. was.pc = "poll"
      BY <1>16 DEF Poll
    <2>2. PICK n \in Nat : Becomes(c, "reclaim", was.task, was.batch, n)
      BY <1>16, Moves
    <2>3. Fits(consumer[c])'
      BY <1>1, <1>2, <1>3, <1>5, <2>1, <2>2
    <2> QED
      BY <2>2, <2>3 DEF Becomes
  <1>17. CASE Exit(c)
    <2>1. Becomes(c, "down", "reclaim", << >>, 0)
      BY <1>17, Moves
    <2> QED
      BY <1>4, <2>1 DEF Becomes
  <1>11. CASE Check(c)
    <2>1. was.pc = "check" /\ processed' = processed
      BY <1>11 DEF Check, database
    <2>2. CASE Contains(processed, Event(c))
      <3>1. Becomes(c, "ack", was.task, was.batch, was.idle)
        BY <1>11, <2>2, Moves
      <3> QED
        BY <1>6, <2>1, <2>2, <3>1 DEF Becomes
    <2>3. CASE ~Contains(processed, Event(c))
      <3>1. Becomes(c, "apply", was.task, was.batch, was.idle)
        BY <1>11, <2>3, Moves
      <3>2. was.batch # << >>
        BY <2>1, EntryFacts
      <3>3. Fits(consumer[c])'
        BY <1>1, <1>2, <1>3, <1>5, <2>1, <3>1, <3>2
      <3> QED
        BY <3>1, <3>3 DEF Becomes
    <2> QED
      BY <2>2, <2>3
  <1>12. CASE Apply(c)
    <2>1. Becomes(c, "ack", was.task, was.batch, was.idle) /\ was.pc = "apply"
      BY <1>12, Moves DEF Apply
    <2>2. Contains(processed', Event(c))
      <3>1. /\ Len(processed') = Len(processed) + 1 /\ Len(processed) \in Nat
            /\ processed'[Len(processed) + 1] = Event(c)
        BY <1>12, ApplyFacts
      <3> QED
        BY <3>1 DEF Contains
    <2> QED
      BY <1>6, <2>1, <2>2 DEF Becomes
  <1>13. CASE ApplyConflict(c)
    <2>1. /\ Becomes(c, "ack", was.task, was.batch, was.idle) /\ was.pc = "apply"
          /\ Contains(processed, Event(c)) /\ processed' = processed
      BY <1>13, Moves DEF ApplyConflict, database
    <2> QED
      BY <1>6, <2>1 DEF Becomes
  <1>14. CASE XAck(c)
    <2> DEFINE q == Tail(was.batch)
    <2>1. was.pc = "ack" /\ cursor' = cursor
      BY <1>14 DEF XAck
    <2>2. q \in Seq(Nat) /\ \A i \in DOMAIN q : q[i] \in 1..cursor'
      BY <2>1, EntryFacts
    <2>3. Becomes(c, IF q # << >> THEN "check" ELSE IF was.task = "reclaim" THEN "read" ELSE "reclaim",
                  was.task, q, was.idle)
      BY <1>14, Moves
    <2> HIDE DEF q
    <2>4. Fits(consumer[c])'
      <3>1. CASE q # << >>
        BY <1>1, <1>2, <1>5, <2>1, <2>2, <2>3, <3>1
      <3>2. CASE q = << >> /\ was.task = "reclaim"
        BY <1>1, <1>2, <1>5, <2>1, <2>2, <2>3, <3>2
      <3>3. CASE q = << >> /\ was.task # "reclaim"
        BY <1>1, <1>2, <1>5, <2>1, <2>2, <2>3, <3>3
      <3> QED
        BY <3>1, <3>2, <3>3
    <2> QED
      BY <2>3, <2>4 DEF Becomes
  <1>15. CASE KillConsumer(c)
    <2>1. Becomes(c, "down", "reclaim", << >>, 0)
      BY <1>15, Moves
    <2> QED
      BY <1>4, <2>1 DEF Becomes
  <1> QED
    BY <1>7, <1>8, <1>9, <1>10, <1>11, <1>12, <1>13, <1>14, <1>15, <1>16, <1>17 DEF ConsumerStep

\* The steps of the group.
LEMMA GroupFrame ==
    [Next]_vars => \/ UNCHANGED <<cursor, pending>>
                   \/ \E c \in Consumers : StartConsumer(c) \/ ReadNew(c) \/ XAck(c)
  BY DEF Next, RelayStep, vars, database, redis, StartRelay, XAdd, MarkSent, RelayDrained, KillRelay,
         ConsumerStep, Reclaim, ReadNothing, Poll, Exit, Check, Apply, ApplyConflict, KillConsumer

\* What the group has let go of, and what it may.
LEMMA Settles ==
    ASSUME IInv, [Next]_vars
    PROVE  /\ cursor' \in {NoGroup} \cup 0..Len(stream') /\ pending' \subseteq 1..cursor'
           /\ \/ (1..cursor') \ pending' = (1..cursor) \ pending
              \/ \E c \in Consumers :
                    /\ XAck(c)
                    /\ (1..cursor') \ pending' = ((1..cursor) \ pending) \cup {Head(consumer[c].batch)}
  <1>1. /\ cursor \in {NoGroup} \cup 0..Len(stream) /\ pending \subseteq 1..cursor
        /\ Len(stream) \in Nat /\ Len(stream') \in Nat /\ Len(stream) <= Len(stream')
    BY NewestFacts, Grows DEF IInv, GroupInv
  <1>2. CASE UNCHANGED <<cursor, pending>>
    BY <1>1, <1>2
  <1>3. ASSUME NEW c \in Consumers, StartConsumer(c)
        PROVE  /\ cursor' \in {NoGroup} \cup 0..Len(stream') /\ pending' \subseteq 1..cursor'
               /\ (1..cursor') \ pending' = (1..cursor) \ pending
    <2>1. /\ cursor' = (IF cursor = NoGroup THEN 0 ELSE cursor) /\ pending' = pending
      BY <1>3 DEF StartConsumer
    <2>2. 1..cursor' = 1..cursor
      BY <1>1, <2>1 DEF NoGroup
    <2>3. cursor' \in {NoGroup} \cup 0..Len(stream')
      BY <1>1, <2>1
    <2> QED
      BY <1>1, <2>1, <2>2, <2>3
  <1>4. ASSUME NEW c \in Consumers, ReadNew(c)
        PROVE  /\ cursor' \in {NoGroup} \cup 0..Len(stream') /\ pending' \subseteq 1..cursor'
               /\ (1..cursor') \ pending' = (1..cursor) \ pending
    <2>1. /\ cursor < Len(stream) /\ cursor' = cursor + 1 /\ pending' = pending \cup {cursor + 1}
      BY <1>4 DEF ReadNew
    <2>2. cursor \in Nat
      BY <1>1, <1>4 DEF ReadNew, IInv, GroupInv, Fits, NoGroup
    <2>3. 1..cursor' = (1..cursor) \cup {cursor + 1} /\ cursor + 1 \notin 1..cursor
      BY <2>1, <2>2
    <2> QED
      BY <1>1, <2>1, <2>2, <2>3
  <1>5. ASSUME NEW c \in Consumers, XAck(c)
        PROVE  /\ cursor' \in {NoGroup} \cup 0..Len(stream') /\ pending' \subseteq 1..cursor'
               /\ (1..cursor') \ pending' = ((1..cursor) \ pending) \cup {Head(consumer[c].batch)}
    <2>1. /\ consumer[c].pc = "ack" /\ pending' = pending \ {Head(consumer[c].batch)} /\ cursor' = cursor
      BY <1>5 DEF XAck
    <2> DEFINE h == Head(consumer[c].batch)
    <2>2. h \in 1..cursor /\ pending' = pending \ {h} /\ pending \subseteq 1..cursor
      BY <1>1, <2>1, EntryFacts
    <2>3. cursor' \in {NoGroup} \cup 0..Len(stream')
      BY <1>1, <2>1
    <2> HIDE DEF h
    <2>4. pending' \subseteq 1..cursor' /\ (1..cursor') \ pending' = ((1..cursor) \ pending) \cup {h}
      <3> DEFINE D == 1..cursor
      <3>1. D' = D /\ h \in D /\ pending' = pending \ {h} /\ pending \subseteq D
        BY <2>1, <2>2
      <3> HIDE DEF D
      <3>2. pending' \subseteq D' /\ D' \ pending' = (D \ pending) \cup {h}
        BY <3>1
      <3> QED
        BY <3>2 DEF D
    <2> QED
      BY <2>3, <2>4 DEF h
  <1> QED
    BY <1>2, <1>3, <1>4, <1>5, GroupFrame

\* The group's part of the invariant is inductive.
LEMMA GroupKeeps == IInv /\ [Next]_vars => GroupInv'
  <1> SUFFICES ASSUME IInv, [Next]_vars
               PROVE  GroupInv'
    OBVIOUS
  <1>1. cursor' \in {NoGroup} \cup 0..Len(stream') /\ pending' \subseteq 1..cursor'
    BY Settles
  <1>2. /\ consumer = [c \in Consumers |-> consumer[c]] /\ \A c \in Consumers : Fits(consumer[c])
        /\ \A i \in (1..cursor) \ pending : Contains(processed, stream[i])
        /\ phase = "done" => pending = {} /\ cursor = Len(stream)
        /\ cursor \in {NoGroup} \cup 0..Len(stream) /\ pending \subseteq 1..cursor
    BY DEF IInv, GroupInv
  <1>3. consumer' = [c \in Consumers |-> consumer'[c]] /\ \A c \in Consumers : Fits(consumer[c])'
    <2>1. ASSUME NEW c \in Consumers, consumer'[c] = consumer[c]
          PROVE  Fits(consumer[c])'
      BY <1>2, <2>1, FitsLater DEF Fits
    <2>2. CASE UNCHANGED consumer
      BY <1>2, <2>1, <2>2
    <2>3. ASSUME NEW c \in Consumers, StartConsumer(c) \/ ConsumerStep(c) \/ KillConsumer(c)
          PROVE  consumer' = [d \in Consumers |-> consumer'[d]] /\ \A d \in Consumers : Fits(consumer[d])'
      BY <2>1, <2>3, StepFits
    <2> QED
      BY <2>2, <2>3, ConsumerFrame
  <1>4. ASSUME NEW i \in (1..cursor') \ pending'
        PROVE  Contains(processed', stream'[i])
    <2>1. DOMAIN stream = 1..Len(stream) /\ Len(stream) \in Nat
      BY NewestFacts DEF IInv
    <2>2. ASSUME i \in (1..cursor) \ pending
          PROVE  Contains(processed', stream'[i])
      <3>1. i \in DOMAIN stream
        BY <1>2, <2>1, <2>2 DEF NoGroup
      <3> QED
        BY <1>2, <2>2, <3>1, Grows
    <2>3. ASSUME NEW c \in Consumers, XAck(c), i = Head(consumer[c].batch)
          PROVE  Contains(processed', stream'[i])
      <3>1. consumer[c].pc = "ack"
        BY <2>3 DEF XAck
      <3>2. Contains(processed, stream[i]) /\ i \in DOMAIN stream
        BY <2>3, <3>1, EntryFacts DEF IInv, GroupInv, Fits
      <3> QED
        BY <3>2, Grows
    <2> QED
      BY <1>4, <2>2, <2>3, Settles
  <1>5. phase' = "done" => pending' = {} /\ cursor' = Len(stream')
    <2>1. CASE phase' = phase
      <3> SUFFICES ASSUME phase = "done"
                   PROVE  pending' = {} /\ cursor' = Len(stream')
        BY <2>1
      <3>1. stream' = stream /\ pending = {} /\ cursor = Len(stream) /\ Len(stream) \in Nat
        BY <1>2, Grows, NewestFacts DEF IInv
      <3>2. UNCHANGED <<cursor, pending>> \/ \E c \in Consumers : XAck(c)
        <4>1. ASSUME NEW c \in Consumers, StartConsumer(c)
              PROVE  UNCHANGED <<cursor, pending>>
          BY <3>1, <4>1 DEF StartConsumer, NoGroup
        <4>2. ASSUME NEW c \in Consumers, ReadNew(c)
              PROVE  FALSE
          BY <3>1, <4>2 DEF ReadNew
        <4> QED
          BY <4>1, <4>2, GroupFrame
      <3>3. ASSUME NEW c \in Consumers, XAck(c)
            PROVE  pending' = {} /\ cursor' = cursor
        BY <3>1, <3>3 DEF XAck
      <3> QED
        BY <3>1, <3>2, <3>3
    <2>2. CASE RelayDrained
      BY <2>2 DEF RelayDrained
    <2>3. ASSUME NEW c \in Consumers, Exit(c)
          PROVE  pending' = {} /\ cursor' = Len(stream')
      <3>1. consumer[c].pc = "poll" /\ pending = {} /\ UNCHANGED <<stream, cursor, pending>>
        BY <2>3 DEF Exit, redis
      <3>2. cursor = Len(stream)
        BY <1>2, <3>1 DEF Fits
      <3> QED
        BY <3>1, <3>2
    <2> QED
      BY <2>1, <2>2, <2>3, PhaseFrame
  <1> QED
    BY <1>1, <1>3, <1>4, <1>5 DEF GroupInv

-----------------------------------------------------------------------------
(* The database *)

\* Events are applied once, and the cash follows them.
LEMMA DatabaseKeeps == IInv /\ [Next]_vars => DatabaseInv'
  <1> SUFFICES ASSUME IInv, [Next]_vars
               PROVE  DatabaseInv'
    OBVIOUS
  <1>1. DatabaseInv
    BY DEF IInv
  <1>2. CASE UNCHANGED projection
    BY <1>1, <1>2 DEF DatabaseInv, projection
  <1>3. ASSUME NEW c \in Consumers, Apply(c)
        PROVE  DatabaseInv'
    <2> DEFINE e == Event(c)
    <2>1. /\ e \in Rows /\ processed' \in Seq(Rows)
          /\ DOMAIN processed' = DOMAIN processed \cup {Len(processed) + 1}
          /\ \A i \in DOMAIN processed : processed'[i] = processed[i]
          /\ processed'[Len(processed) + 1] = e
          /\ ToSet(processed') = ToSet(processed) \cup {e}
          /\ ToSet(processed) \in SUBSET Rows /\ e \in Rows \ ToSet(processed)
      BY <1>3, ApplyFacts
    <2>2. /\ proj_cash' = proj_cash + CashDelta(e)
          /\ proj_positions' = [proj_positions EXCEPT ![Trades[e].symbol] = PositionAfter(e)]
      BY <1>3 DEF Apply
    <2>3. /\ proj_cash \in Int /\ proj_cash = BaselineCash(ToSet(processed))
          /\ proj_positions \in [Symbols -> Int]
          /\ \A i, j \in DOMAIN processed : processed[i] = processed[j] => i = j
      BY <1>1 DEF DatabaseInv
    <2> HIDE DEF e
    <2>4. ASSUME NEW i \in DOMAIN processed', NEW j \in DOMAIN processed', processed'[i] = processed'[j]
          PROVE  i = j
      <3>1. \A n \in DOMAIN processed : processed'[n] # e
        BY <2>1 DEF ToSet
      <3> QED
        BY <2>1, <2>3, <2>4, <3>1
    <2>5. proj_cash' \in Int
      BY <2>1, <2>2, <2>3, RowFacts
    <2>6. BaselineCash(ToSet(processed) \cup {e}) = BaselineCash(ToSet(processed)) + CashDelta(e)
      BY <2>1, CashOfOneMore
    <2>7. proj_cash' = BaselineCash(ToSet(processed'))
      BY <2>1, <2>2, <2>3, <2>6
    <2>8. proj_positions' \in [Symbols -> Int]
      BY <2>1, <2>2, <2>3, PositionType, RowFacts
    <2> QED
      BY <2>1, <2>4, <2>5, <2>7, <2>8 DEF DatabaseInv
  <1> QED
    BY <1>2, <1>3, ProcessedFrame

-----------------------------------------------------------------------------
(* Without overlap *)

\* Only a start can make consumers overlap.
LEMMA OverlapFrame ==
    [Next]_vars => overlapped' = overlapped \/ \E c \in Consumers : StartConsumer(c)
  BY DEF Next, RelayStep, vars, StartRelay, XAdd, MarkSent, RelayDrained, KillRelay, ConsumerStep,
         Reclaim, ReadNew, ReadNothing, Poll, Exit, Check, Apply, ApplyConflict, XAck, KillConsumer

\* A consumer that runs without overlap runs alone, before and after its step.
LEMMA OthersDown ==
    ASSUME IInv, [Next]_vars, overlapped' = FALSE, NEW c \in Consumers,
           StartConsumer(c) \/ ConsumerStep(c) \/ KillConsumer(c)
    PROVE  /\ overlapped = FALSE
           /\ \A d \in Consumers : d # c => ~Running(d) /\ consumer[d].pc = "down"
  <1>1. overlapped \in BOOLEAN
    BY DEF IInv
  <1>2. CASE StartConsumer(c)
    BY <1>1, <1>2 DEF StartConsumer, Running
  <1>3. CASE ConsumerStep(c) \/ KillConsumer(c)
    <2>1. Running(c) /\ overlapped' = overlapped
      BY <1>3 DEF ConsumerStep, KillConsumer, Reclaim, ReadNew, ReadNothing, Poll, Exit, Check, Apply,
                  ApplyConflict, XAck, Running
    <2>2. AloneInv
      BY <2>1 DEF IInv
    <2> QED
      BY <2>1, <2>2 DEF AloneInv, Running
  <1> QED
    BY <1>2, <1>3

\* A consumer on its own stays so.
LEMMA AloneKeeps ==
    ASSUME IInv, [Next]_vars, overlapped' = FALSE
    PROVE  AloneInv'
  <1>1. CASE UNCHANGED <<cursor, pending, consumer, overlapped>>
    BY <1>1 DEF IInv, AloneInv, Alone, Running
  <1>2. ASSUME NEW c \in Consumers, StartConsumer(c) \/ ConsumerStep(c) \/ KillConsumer(c)
        PROVE  AloneInv'
    <2> DEFINE was == consumer[c]
    <2>1. AloneInv /\ \A d \in Consumers : d # c => consumer[d].pc = "down"
      BY <1>2, OthersDown DEF IInv
    <2>2. pending \subseteq {cursor} /\ Alone(was)
      BY <2>1 DEF AloneInv
    <2>3. ASSUME NEW p, NEW t, NEW b, NEW n, Becomes(c, p, t, b, n), pending' \subseteq {cursor'},
                 p \in {"reclaim", "read", "poll"} => b = << >>,
                 p = "read" => pending' = {},
                 p \in {"check", "apply", "ack"} => b = <<cursor'>> /\ pending' = {cursor'}
          PROVE  AloneInv'
      <3>1. /\ consumer'[c].pc = p /\ consumer'[c].batch = b
            /\ \A d \in Consumers : d # c => consumer'[d].pc = "down"
        BY <2>1, <2>3 DEF Becomes
      <3>2. \A d, f \in Consumers : Running(d)' /\ Running(f)' => d = f
        BY <3>1 DEF Running
      <3>3. ASSUME NEW d \in Consumers
            PROVE  Alone(consumer[d])'
        BY <2>3, <3>1 DEF Alone
      <3> QED
        BY <2>3, <3>2, <3>3 DEF AloneInv
    <2>4. CASE StartConsumer(c)
      <3>1. pending' = pending /\ cursor' = IF cursor = NoGroup THEN 0 ELSE cursor
        BY <2>4 DEF StartConsumer
      <3>2. cursor = NoGroup => pending = {}
        BY DEF IInv, GroupInv, NoGroup
      <3> QED
        BY <2>2, <2>3, <2>4, <3>1, <3>2, Moves
    <2>5. CASE Reclaim(c)
      <3>1. PICK q \in Ascending(pending) :
                Becomes(c, IF pending = {} THEN "read" ELSE "check", "reclaim", q, was.idle)
        BY <2>5, Moves
      <3>2. UNCHANGED <<cursor, pending>>
        BY <2>5 DEF Reclaim, redis
      <3>3. CASE pending = {}
        <4>1. q = << >>
          <5>1. q \in Ascending({}) /\ {} \in SUBSET (1..0)
            BY <3>1, <3>3
          <5> QED
            BY <5>1, AscendingFacts
        <4> QED
          BY <2>2, <2>3, <3>1, <3>2, <3>3, <4>1
      <3>4. CASE pending # {}
        <4>1. pending = {cursor}
          BY <2>2, <3>4
        <4>2. q = <<cursor>>
          <5>1. cursor \in 1..cursor /\ cursor \in Int
            BY <4>1 DEF IInv, GroupInv, NoGroup
          <5>2. cursor - 1 \in Nat /\ (cursor - 1) + 1 = cursor
            BY <5>1
          <5> DEFINE k == cursor - 1
          <5>3. k \in Nat /\ k + 1 = cursor /\ pending = (k + 1)..(k + 1)
            BY <4>1, <5>1, <5>2
          <5> HIDE DEF k
          <5>4. q = [i \in 1..1 |-> k + i]
            BY <3>1, <5>3, AscendingInterval
          <5>5. q = <<k + 1>>
            BY <5>4
          <5> QED
            BY <5>3, <5>5
        <4> QED
          BY <2>2, <2>3, <3>1, <3>2, <3>4, <4>1, <4>2
      <3> QED
        BY <3>3, <3>4
    <2>6. CASE ReadNew(c)
      <3>1. /\ was.pc = "read" /\ cursor' = cursor + 1 /\ pending' = pending \cup {cursor + 1}
            /\ Becomes(c, "check", "new", <<cursor + 1>>, 0)
        BY <2>6, Moves DEF ReadNew
      <3>2. pending' = {cursor'}
        BY <2>2, <3>1 DEF Alone
      <3> QED
        BY <2>3, <3>1, <3>2
    <2>7. CASE ReadNothing(c) \/ Poll(c)
      <3>1. was.pc \in {"read", "poll"} /\ UNCHANGED <<cursor, pending>>
        BY <2>7 DEF ReadNothing, Poll, redis
      <3>2. was.batch = << >>
        BY <2>2, <3>1 DEF Alone
      <3>3. \/ Becomes(c, "poll", was.task, << >>, was.idle)
            \/ \E n \in Nat : Becomes(c, "reclaim", was.task, << >>, n)
        BY <2>7, <3>2, Moves
      <3> QED
        BY <2>2, <2>3, <3>1, <3>3
    <2>12. CASE Exit(c)
      <3>1. UNCHANGED <<cursor, pending>>
        BY <2>12 DEF Exit, redis
      <3> QED
        BY <2>2, <2>3, <2>12, <3>1, Moves
    <2>8. CASE Check(c)
      <3>1. was.pc = "check" /\ UNCHANGED <<cursor, pending>>
        BY <2>8 DEF Check, redis
      <3>2. was.batch = <<cursor'>> /\ pending' = {cursor'}
        BY <2>2, <3>1 DEF Alone
      <3>3. Becomes(c, IF Contains(processed, Event(c)) THEN "ack" ELSE "apply",
                    was.task, was.batch, was.idle)
        BY <2>8, Moves
      <3> QED
        BY <2>3, <3>2, <3>3
    <2>9. CASE Apply(c) \/ ApplyConflict(c)
      <3>1. was.pc = "apply" /\ UNCHANGED <<cursor, pending>>
        BY <2>9 DEF Apply, ApplyConflict, redis
      <3>2. was.batch = <<cursor'>> /\ pending' = {cursor'}
        BY <2>2, <3>1 DEF Alone
      <3>3. Becomes(c, "ack", was.task, was.batch, was.idle)
        BY <2>9, Moves
      <3> QED
        BY <2>3, <3>2, <3>3
    <2>10. CASE XAck(c)
      <3>1. was.pc = "ack" /\ pending' = pending \ {Head(was.batch)} /\ cursor' = cursor
        BY <2>10 DEF XAck
      <3>2. was.batch = <<cursor>> /\ pending = {cursor}
        BY <2>2, <3>1 DEF Alone
      <3>3. pending' = {} /\ Tail(was.batch) = << >>
        BY <3>1, <3>2
      <3>4. Becomes(c, IF was.task = "reclaim" THEN "read" ELSE "reclaim", was.task, << >>, was.idle)
        BY <2>10, <3>3, Moves
      <3> QED
        BY <2>3, <3>3, <3>4
    <2>11. CASE KillConsumer(c)
      <3>1. UNCHANGED <<cursor, pending>>
        BY <2>11 DEF KillConsumer, redis
      <3> QED
        BY <2>2, <2>3, <2>11, <3>1, Moves
    <2> QED
      BY <1>2, <2>4, <2>5, <2>6, <2>7, <2>8, <2>9, <2>10, <2>11, <2>12 DEF ConsumerStep
  <1> QED
    BY <1>1, <1>2, ConsumerFrame

\* The row of an entry the group has given stays.
LEMMA AtStays ==
    ASSUME IInv, [Next]_vars, 1..cursor' = 1..cursor
    PROVE  At' = At
  <1>1. /\ cursor \in {NoGroup} \cup 0..Len(stream) /\ cursor' \in {NoGroup} \cup 0..Len(stream')
        /\ Len(stream) \in Nat /\ DOMAIN stream = 1..Len(stream)
    BY NewestFacts, Settles DEF IInv, GroupInv
  <1>2. /\ Len(stream') \in Nat /\ Len(stream) <= Len(stream')
        /\ \A i \in DOMAIN stream : i \in DOMAIN stream' /\ stream'[i] = stream[i]
    BY Grows
  <1>3. DOMAIN stream' = 1..Len(stream')
    BY StreamKeeps, SeqFacts DEF StreamInv
  <1>4. CASE cursor \in DOMAIN stream
    <2>1. cursor' = cursor
      BY <1>1, <1>4 DEF NoGroup
    <2> QED
      BY <1>2, <1>4, <2>1 DEF At
  <1>5. CASE cursor \notin DOMAIN stream
    <2>1. cursor \in {-1, 0} /\ cursor' \in {-1, 0}
      BY <1>1, <1>5 DEF NoGroup
    <2>2. cursor' \notin DOMAIN stream'
      BY <1>3, <2>1
    <2> QED
      BY <1>5, <2>2 DEF At
  <1> QED
    BY <1>4, <1>5

\* Without overlap, the next event applied is the next row, and the positions
\* are those of a single delivery.
LEMMA ProgressKeeps ==
    ASSUME IInv, [Next]_vars, overlapped' = FALSE
    PROVE  ProgressInv'
  <1>1. overlapped = FALSE
    BY OverlapFrame DEF IInv, StartConsumer
  <1> DEFINE P == Len(processed)
  <1>2. /\ AloneInv
        /\ \A i \in DOMAIN processed : processed[i] = i
        /\ At \in {P, P + 1}
        /\ pending = {} => At = P
        /\ proj_positions = BaselinePositions(1..P)
    BY <1>1 DEF IInv, ProgressInv
  <1>3. P \in Nat /\ DOMAIN processed = 1..P
    BY SeqFacts DEF IInv, DatabaseInv
  <1>4. /\ cursor \in {NoGroup} \cup 0..Len(stream) /\ Len(stream) \in Nat
        /\ DOMAIN stream = 1..Len(stream) /\ \A i \in DOMAIN stream : stream[i] \in Nat
    BY NewestFacts, RowFacts DEF IInv, GroupInv
  <1> HIDE DEF P
  <1>5. CASE UNCHANGED projection /\ UNCHANGED <<cursor, pending>>
    <2>1. At' = At
      BY <1>5, AtStays
    <2> QED
      BY <1>2, <1>5, <2>1 DEF ProgressInv, projection, P
  <1>6. ASSUME NEW c \in Consumers, Apply(c)
        PROVE  ProgressInv'
    <2> DEFINE e == Event(c)
    <2>1. /\ consumer[c].pc = "apply" /\ UNCHANGED <<cursor, pending>>
          /\ proj_positions' = [proj_positions EXCEPT ![Trades[e].symbol] = PositionAfter(e)]
      BY <1>6 DEF Apply, redis
    <2>2. /\ e \in Rows /\ Len(processed') = P + 1
          /\ DOMAIN processed' = DOMAIN processed \cup {P + 1}
          /\ \A i \in DOMAIN processed : processed'[i] = processed[i]
          /\ processed'[P + 1] = e /\ e \notin ToSet(processed)
      BY <1>6, ApplyFacts DEF P
    <2>3. consumer[c].batch = <<cursor>> /\ pending = {cursor}
      BY <1>2, <2>1 DEF AloneInv, Alone
    <2>4. e = stream[cursor] /\ cursor \in DOMAIN stream
      BY <2>1, <2>3, EntryFacts
    <2>5. e = At /\ At' = At
      BY <2>1, <2>4, AtStays DEF At
    <2> HIDE DEF e
    <2>6. e = P + 1
      <3>1. e # P
        <4> SUFFICES ASSUME e = P
                     PROVE  FALSE
          OBVIOUS
        <4>1. P \in DOMAIN processed /\ processed[P] = P
          BY <1>2, <1>3, <2>2, RowFacts
        <4> QED
          BY <2>2, <4>1 DEF ToSet
      <3> QED
        BY <1>2, <2>5, <3>1
    <2>7. proj_positions' = BaselinePositions(1..(P + 1))
      BY <1>2, <1>3, <2>1, <2>2, <2>6, PositionsOfOneMore
    <2>8. \A i \in DOMAIN processed' : processed'[i] = i
      BY <1>2, <2>2, <2>6
    <2>9. pending' # {} /\ At' = P + 1
      BY <2>1, <2>3, <2>5, <2>6
    <2> DEFINE Q == Len(processed')
    <2>10. Q = P + 1
      BY <2>2
    <2>11. proj_positions' = BaselinePositions(1..Q) /\ At' \in {Q, Q + 1}
      BY <2>7, <2>9, <2>10
    <2> QED
      BY <2>8, <2>9, <2>11 DEF ProgressInv
  <1>7. ASSUME NEW c \in Consumers, StartConsumer(c) \/ ReadNew(c) \/ XAck(c)
        PROVE  ProgressInv'
    <2>1. UNCHANGED projection
      BY <1>7 DEF StartConsumer, ReadNew, XAck, database, projection
    <2>2. At' \in {P, P + 1} /\ (pending' = {} => At' = P)
      <3>1. CASE StartConsumer(c)
        <4>1. pending' = pending /\ cursor' = IF cursor = NoGroup THEN 0 ELSE cursor
          BY <3>1 DEF StartConsumer
        <4>2. 1..cursor' = 1..cursor
          BY <1>4, <4>1 DEF NoGroup
        <4> QED
          BY <1>2, <4>1, <4>2, AtStays
      <3>2. CASE ReadNew(c)
        <4>1. /\ consumer[c].pc = "read" /\ cursor < Len(stream) /\ cursor' = cursor + 1
              /\ stream' = stream /\ pending' = pending \cup {cursor + 1}
          BY <3>2 DEF ReadNew
        <4>2. pending = {} /\ cursor \in 0..Len(stream)
          BY <1>2, <1>4, <4>1 DEF AloneInv, Alone, IInv, GroupInv, Fits
        <4>3. At' = stream[cursor + 1] /\ cursor + 1 \in DOMAIN stream
          BY <1>4, <4>1, <4>2 DEF At
        <4>4. stream[cursor + 1] \in {At, At + 1}
          <5>1. CASE cursor = 0
            <6>1. stream[1] = 1 /\ At = 0
              BY <1>4, <4>3, <5>1 DEF IInv, StreamInv, At
            <6> QED
              BY <5>1, <6>1
          <5>2. CASE cursor # 0
            <6>1. cursor \in 1..Len(stream) - 1 /\ cursor \in DOMAIN stream
              BY <1>4, <4>1, <4>2, <5>2
            <6> QED
              BY <6>1 DEF IInv, StreamInv, At
          <5> QED
            BY <5>1, <5>2
        <4> QED
          BY <1>2, <4>1, <4>2, <4>3, <4>4
      <3>3. CASE XAck(c)
        <4>1. consumer[c].pc = "ack" /\ cursor' = cursor
          BY <3>3 DEF XAck
        <4>2. consumer[c].batch = <<cursor>>
          BY <1>2, <4>1 DEF AloneInv, Alone
        <4>3. Event(c) = stream[cursor] /\ cursor \in DOMAIN stream /\ Contains(processed, Event(c))
          BY <4>1, <4>2, EntryFacts DEF IInv, GroupInv, Fits
        <4>4. Event(c) = At
          BY <4>3 DEF At
        <4>5. \E i \in 1..P : i = At
          BY <1>2, <1>3, <4>3, <4>4 DEF Contains, P
        <4>6. At = P
          BY <1>2, <1>3, <4>5
        <4> QED
          BY <1>3, <4>1, <4>6, AtStays
      <3> QED
        BY <1>7, <3>1, <3>2, <3>3
    <2> QED
      BY <1>2, <2>1, <2>2 DEF ProgressInv, projection, P
  <1>8. \A c \in Consumers : Apply(c) => UNCHANGED <<cursor, pending>>
    BY DEF Apply, redis
  <1> QED
    BY <1>5, <1>6, <1>7, GroupFrame, ProcessedFrame

-----------------------------------------------------------------------------
(* The theorems *)

\* The clean database, stream and processes the proof starts with.
LEMMA InitInv == Init => IInv
  <1> SUFFICES ASSUME Init
               PROVE  IInv
    OBVIOUS
  <1> USE DEF Init, NoGroup
  <1>1. << >> \in Seq(Rows) /\ << >> \in Seq(Nat) /\ Len(Trades) \in Nat
    BY RowFacts
  <1>2. Newest = 0 /\ Len(stream) = 0
    BY DEF Newest
  <1>3. StreamInv
    BY <1>1, <1>2 DEF StreamInv
  <1>4. RelayInv
    <2>1. Marked(0)
      BY <1>1, <1>2 DEF Marked, RelayDown
    <2>2. kills \in [relay : Nat, consumer : Nat]
      OBVIOUS
    <2> QED
      BY <1>1, <2>1, <2>2 DEF RelayInv, RelayDown
  <1>5. GroupInv
    <2>1. ConsumerDown \in ConsumerStates
      BY <1>1 DEF ConsumerDown, ConsumerStates
    <2>2. \A c \in Consumers : Fits(consumer[c])
      BY <2>1 DEF Fits, ConsumerDown
    <2> QED
      BY <1>2, <2>2 DEF GroupInv
  <1>6. ToSet(processed) = {}
    BY DEF ToSet
  <1>7. DatabaseInv
    <2>1. proj_cash \in Int /\ proj_cash = BaselineCash(ToSet(processed))
      BY <1>6, CashOfNone, ProofAssumption
    <2>2. processed = << >> /\ proj_positions \in [Symbols -> Int]
      OBVIOUS
    <2> QED
      BY <1>1, <2>1, <2>2 DEF DatabaseInv
  <1>8. AloneInv
    BY DEF AloneInv, Alone, Running, ConsumerDown
  <1>9. ProgressInv
    <2>1. At = 0 /\ Len(processed) = 0
      BY DEF At
    <2> QED
      BY <2>1, PositionsOfNone DEF ProgressInv
  <1> QED
    BY <1>3, <1>4, <1>5, <1>7, <1>8, <1>9 DEF IInv

\* Every reachable state satisfies the invariant.
THEOREM Correct == Spec => []IInv
  <1>1. Init => IInv
    BY InitInv
  <1>2. IInv /\ [Next]_vars => IInv'
    <2> SUFFICES ASSUME IInv, [Next]_vars
                 PROVE  IInv'
      OBVIOUS
    <2>1. overlapped' \in BOOLEAN
      BY OverlapFrame DEF IInv, StartConsumer
    <2> QED
      BY <2>1, StreamKeeps, RelayKeeps, GroupKeeps, DatabaseKeeps, AloneKeeps, ProgressKeeps DEF IInv
  <1> QED
    BY <1>1, <1>2, PTL DEF Spec

\* The database, the stream and the processes keep their shapes, for any trades,
\* consumers and kills.
THEOREM TypeCorrect == Spec => []TypeOK
  <1>1. IInv => TypeOK
    <2> SUFFICES ASSUME IInv
                 PROVE  TypeOK
      OBVIOUS
    <2>1. PICK k \in 0..Len(Trades) : Marked(k)
      BY DEF IInv, RelayInv
    <2>2. sent \subseteq Rows
      BY <2>1, RowFacts DEF Marked
    <2>3. /\ relay.pc \in {"down", "publish", "mark"} /\ relay.batch \in Seq(Rows)
          /\ phase \in {"relay", "consumer", "done"}
      BY DEF IInv, RelayInv
    <2>4. relay.pc = "mark" => relay.batch # << >>
      BY <2>1, AfterFacts, RowFacts DEF Marked
    <2>5. ASSUME NEW c \in Consumers
          PROVE  /\ consumer[c].pc \in {"down", "reclaim", "read", "poll", "check", "apply", "ack"}
                 /\ ToSet(consumer[c].batch) \subseteq 1..cursor
                 /\ consumer[c].pc \in {"check", "apply", "ack"} => consumer[c].batch # << >>
      BY DEF IInv, GroupInv, Fits, ConsumerStates, ToSet
    <2> QED
      BY <2>2, <2>3, <2>4, <2>5 DEF TypeOK, IInv, GroupInv, DatabaseInv, StreamInv
  <1> QED
    BY <1>1, Correct, PTL

\* What the relay has put on the stream covers the rows up to the newest.
LEMMA StreamCovers == IInv => ToSet(stream) = 1..Newest /\ Cardinality(ToSet(stream)) = Newest
  <1> SUFFICES ASSUME IInv
               PROVE  ToSet(stream) = 1..Newest /\ Cardinality(ToSet(stream)) = Newest
    OBVIOUS
  <1> DEFINE n == Newest
  <1>0. StreamInv
    BY DEF IInv
  <1>1. /\ n \in Nat /\ \A i \in DOMAIN stream : stream[i] \in Nat \ {0}
        /\ \A i \in DOMAIN stream : stream[i] <= n
        /\ \A v \in 1..n : \E i \in DOMAIN stream : stream[i] = v
    BY <1>0, NewestFacts, RowFacts DEF StreamInv
  <1> HIDE DEF n
  <1>2. ToSet(stream) = 1..n
    BY <1>1 DEF ToSet
  <1>3. Cardinality(1..n) = n
    <2>1. 1 \in Int /\ n \in Int /\ (IF 1 > n THEN 0 ELSE n - 1 + 1) = n
      BY <1>1
    <2> QED
      BY <2>1, FS_Interval
  <1> QED
    BY <1>2, <1>3 DEF n

\* However often the relay is killed, and at any row: the stream repeats rows but
\* never reorders or skips one, each kill costs at most one repeated entry, and
\* a relay that exits 0 has sent every row.
THEOREM OneDuplicate == Spec => []OneDuplicatePerKill
  <1>1. IInv => OneDuplicatePerKill
    <2> SUFFICES ASSUME IInv
                 PROVE  OneDuplicatePerKill
      OBVIOUS
    <2>1. PICK k \in 0..Len(Trades) : Marked(k)
      BY DEF IInv, RelayInv
    <2>2. /\ \A i \in 1..Len(stream) - 1 : stream[i + 1] \in {stream[i], stream[i] + 1}
          /\ stream # << >> => stream[1] = 1
      BY DEF IInv, StreamInv
    <2>3. ToSet(stream) = 1..Newest /\ Cardinality(ToSet(stream)) = Newest
      BY StreamCovers
    <2>4. /\ Newest \in {k, k + 1} /\ sent = 1..k /\ Len(stream) \in Nat /\ kills.relay \in Nat
          /\ k \in Nat
          /\ Len(stream) + (IF Newest = k + 1 /\ relay.pc # "mark" THEN 1 ELSE 0)
             <= Newest + kills.relay
          /\ phase # "relay" => k = Len(Trades)
      BY <2>1, NewestFacts, RowFacts DEF Marked, IInv, RelayInv
    <2>5. sent \subseteq ToSet(stream)
      BY <2>3, <2>4
    <2>6. Len(stream) <= Cardinality(ToSet(stream)) + kills.relay
      BY <2>3, <2>4
    <2>7. phase # "relay" => sent = Rows
      BY <2>4 DEF Rows
    <2> QED
      BY <2>2, <2>5, <2>6, <2>7 DEF OneDuplicatePerKill
  <1> QED
    BY <1>1, Correct, PTL

\* However consumers are killed, restarted and run beside each other, the cash is
\* that of the processed events; without overlap the positions are too; and a
\* consumer exits 0 with every event in and nothing pending.
THEOREM Projection == Spec => []ProjectionIsBaseline
  <1>1. IInv => ProjectionIsBaseline
    <2> SUFFICES ASSUME IInv
                 PROVE  ProjectionIsBaseline
      OBVIOUS
    <2>1. /\ processed \in Seq(Rows) /\ proj_cash = BaselineCash(ToSet(processed))
          /\ DOMAIN processed = 1..Len(processed) /\ Len(processed) \in Nat
          /\ \A i \in DOMAIN processed : processed[i] \in Rows
      BY SeqFacts DEF IInv, DatabaseInv
    <2>2. ASSUME ~overlapped
          PROVE  /\ proj_positions = BaselinePositions(ToSet(processed))
                 /\ \A i \in DOMAIN processed : processed[i] = i
      <3>1. /\ \A i \in DOMAIN processed : processed[i] = i
            /\ proj_positions = BaselinePositions(1..Len(processed))
        BY <2>2 DEF IInv, ProgressInv
      <3>2. ToSet(processed) = 1..Len(processed)
        BY <2>1, <3>1 DEF ToSet
      <3> QED
        BY <3>1, <3>2
    <2>3. ASSUME phase = "done"
          PROVE  pending = {} /\ ToSet(processed) = Rows
      <3>1. PICK k \in 0..Len(Trades) : Marked(k)
        BY DEF IInv, RelayInv
      <3>2. /\ pending = {} /\ cursor = Len(stream)
            /\ \A i \in (1..cursor) \ pending : Contains(processed, stream[i])
        BY <2>3 DEF IInv, GroupInv
      <3>3. ToSet(stream) = 1..Newest /\ Newest = Len(Trades) /\ DOMAIN stream = 1..Len(stream)
        BY <2>3, <3>1, StreamCovers, NewestFacts, RowFacts DEF Marked, IInv
      <3>4. ASSUME NEW e \in Rows
            PROVE  e \in ToSet(processed)
        <4>1. PICK i \in DOMAIN stream : stream[i] = e
          BY <3>3, RowFacts DEF ToSet
        <4>2. Contains(processed, e)
          BY <3>2, <3>3, <4>1
        <4> QED
          BY <4>2, ContainsFacts
      <3>5. ToSet(processed) \subseteq Rows
        BY <2>1 DEF ToSet
      <3> QED
        BY <3>2, <3>4, <3>5
    <2> QED
      BY <2>1, <2>2, <2>3 DEF ProjectionIsBaseline
  <1> QED
    BY <1>1, Correct, PTL

\* The consumers implement EffectivelyOnce: kills anywhere, repeated entries and
\* consumers that take entries from each other included, an event counts once,
\* and the group lets go of no entry whose event is not processed.
THEOREM CountsOnce == Spec => CountsEachEventOnce
  <1> USE DEF Effects!vars
  <1>1. Init => Effects!Init
    BY DEF Init, Effects!Init, NoGroup
  <1>2. IInv /\ [Next]_vars => [Effects!Next]_(Effects!vars)
    <2> DEFINE Settled == (1..cursor) \ pending
    <2> SUFFICES ASSUME IInv, [Next]_vars
                 PROVE  Effects!Next \/ UNCHANGED <<stream, processed, Settled>>
      OBVIOUS
    <2>1. CASE XAdd
      <3>1. PICK k \in 0..Len(Trades) : Marked(k)
        BY DEF IInv, RelayInv
      <3>2. stream' = Append(stream, k + 1) /\ k + 1 \in Rows
        BY <2>1, <3>1, XAddFacts
      <3>3. UNCHANGED <<processed, Settled>>
        BY <2>1 DEF XAdd, database
      <3>4. Effects!Arrive(k + 1)
        BY <3>2, <3>3 DEF Effects!Arrive
      <3> QED
        BY <3>2, <3>4 DEF Effects!Next
    <2>2. ASSUME NEW c \in Consumers, Apply(c)
          PROVE  Effects!Next
      <3>1. /\ consumer[c].pc = "apply" /\ UNCHANGED <<stream, Settled>>
        BY <2>2 DEF Apply, redis
      <3>2. /\ Event(c) \in Rows /\ ~Contains(processed, Event(c))
            /\ processed' = Append(processed, Event(c)) /\ DOMAIN processed = 1..Len(processed)
        BY <2>2, ApplyFacts
      <3>3. Effects!InSeq(Event(c), stream)
        BY <3>1, EntryFacts DEF Effects!InSeq
      <3>4. ~Effects!InSeq(Event(c), processed)
        BY <3>2 DEF Effects!InSeq, Contains
      <3>5. Effects!Apply(Event(c))
        BY <3>1, <3>2, <3>3, <3>4 DEF Effects!Apply
      <3> QED
        BY <3>2, <3>5 DEF Effects!Next
    <2>3. ASSUME NEW c \in Consumers, XAck(c), Settled' = Settled \cup {Head(consumer[c].batch)}
          PROVE  Effects!Next
      <3>1. consumer[c].pc = "ack" /\ UNCHANGED <<stream, processed>>
        BY <2>3 DEF XAck, database
      <3>2. /\ Head(consumer[c].batch) \in DOMAIN stream
            /\ Contains(processed, stream[Head(consumer[c].batch)])
        BY <3>1, EntryFacts DEF IInv, GroupInv, Fits
      <3>3. DOMAIN processed = 1..Len(processed)
        BY SeqFacts DEF IInv, DatabaseInv
      <3>4. Effects!InSeq(stream[Head(consumer[c].batch)], processed)
        BY <3>2, <3>3 DEF Effects!InSeq, Contains
      <3>5. Effects!Forget(Head(consumer[c].batch))
        BY <2>3, <3>1, <3>4 DEF Effects!Forget
      <3> QED
        BY <3>2, <3>5 DEF Effects!Next
    <2>4. Settled' = Settled \/ \E c \in Consumers :
                                    /\ XAck(c)
                                    /\ Settled' = Settled \cup {Head(consumer[c].batch)}
      BY Settles
    <2> HIDE DEF Settled
    <2> QED
      BY <2>1, <2>2, <2>3, <2>4, StreamFrame, ProcessedFrame DEF projection
  <1> QED
    BY <1>1, <1>2, Correct, PTL DEF Spec, Effects!Spec, CountsEachEventOnce

\* run_proof.py only runs and kills the processes: what is proved above of any
\* starts and kills is true of its run.
THEOREM ProofRunsProcesses == ProofSpec => Spec
  <1>1. ProofInit => Init
    BY DEF ProofInit
  <1>2. [ProofNext]_variables => [Next]_vars
    <2>1. RunRelay \/ RelayDies \/ RelayReturns => Next
      BY DEF RunRelay, RelayDies, RelayReturns, Next, RelayStep
    <2>2. RunConsumer \/ ConsumerDies \/ ConsumerReturns => Next
      <3>1. Consumer \in Consumers
        BY ScriptAssumption
      <3>2. StartConsumer(Consumer) \/ ConsumerStep(Consumer) \/ KillConsumer(Consumer) => Next
        BY <3>1 DEF Next
      <3> QED
        BY <3>2 DEF RunConsumer, ConsumerDies, ConsumerReturns, ConsumerStep
    <2>3. Killed \/ AnyProcess => Next
      BY DEF Killed, AnyProcess, Next
    <2> QED
      BY <2>1, <2>2, <2>3 DEF ProofNext, Main, variables
  <1> QED
    BY <1>1, <1>2, PTL DEF ProofSpec, Spec

=============================================================================
