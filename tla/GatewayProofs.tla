---------------------------- MODULE GatewayProofs ----------------------------
(***************************************************************************)
(* Theorems about Gateway, for any streams, browsers, channel capacity and *)
(* XREAD count, and any number of entries, reconnects and restarts: sends  *)
(* only go to open channels, the tailer skips nothing after its first      *)
(* entry, and every browser sees each stream in order.                     *)
(***************************************************************************)
EXTENDS Gateway, FiniteLemmas, TLAPS

-----------------------------------------------------------------------------
(* The inductive invariant *)

\* The entry a stream is read or forwarded up to; where nothing was forwarded
\* yet, the end that "$" stood or will stand for.
Reached(s) ==
    IF lastID[s] # Dollar THEN lastID[s]
    ELSE IF tailer = "call" THEN length[s] ELSE start[s]

\* The tailer reads on from what it forwarded; what it holds of a stream
\* follows that entry, or starts with it while it is being published.
TailerInv ==
    /\ lastID \in [Streams -> {Dollar} \cup Nat]
    /\ length \in [Streams -> Nat] /\ start \in [Streams -> Nat]
    /\ \A s \in Streams : start[s] <= length[s]
    /\ tailer = "blocked" => \A s \in Streams : start[s] = Reached(s)
    /\ tailer \in {"forward", "publish"} =>
        /\ batch \in Seq([stream: Streams, next: Nat, last: Nat])
        /\ \A i \in DOMAIN batch :
            /\ batch[i].next <= batch[i].last /\ batch[i].last <= length[batch[i].stream]
            /\ batch[i].next = Reached(batch[i].stream)
                                + (IF tailer = "publish" /\ i = 1 THEN 0 ELSE 1)
        /\ \A i, j \in DOMAIN batch : batch[i].stream = batch[j].stream => i = j
    /\ tailer = "publish" => lastID[Message.stream] # Dollar

\* What was fanned out of a stream is a run of entries up to the last one.
PublishedInv ==
    \A s \in Streams :
        /\ lastID[s] = Dollar => published[s] = {}
        /\ \A i \in published[s] : i \in Nat /\ i <= lastID[s] /\ i..lastID[s] \subseteq published[s]

\* An entry comes before another one of its stream.
Before(m, n) == m.stream = n.stream => m.at < n.at

\* What a browser has received and what waits in its channel ascend, the first
\* before the second, and stay behind the tailer; the message being published
\* is ahead of both until it is sent.
Behaved(b) ==
    /\ received[b] \in Seq([stream: Streams, at: Nat])
    /\ channel[b] \in Seq([stream: Streams, at: Nat])
    /\ \A i, j \in DOMAIN received[b] : i < j => Before(received[b][i], received[b][j])
    /\ \A i, j \in DOMAIN channel[b] : i < j => Before(channel[b][i], channel[b][j])
    /\ \A i \in DOMAIN received[b], j \in DOMAIN channel[b] :
        Before(received[b][i], channel[b][j])
    /\ \A i \in DOMAIN received[b] : received[b][i].at <= Reached(received[b][i].stream)
    /\ \A i \in DOMAIN channel[b] : channel[b][i].at <= Reached(channel[b][i].stream)
    /\ b \in fanout => /\ \A i \in DOMAIN received[b] : Before(received[b][i], Message)
                      /\ \A i \in DOMAIN channel[b] : Before(channel[b][i], Message)

\* So do all browsers.
BrowserInv == \A b \in Browsers : Behaved(b)

\* The broker's map holds the browsers with an open channel, and nobody is
\* to be served outside of publish.
BrokerInv ==
    /\ clients = {b \in Browsers : handler[b] \in {"serving", "leaving"}}
    /\ tailer # "publish" => fanout = {}
    /\ channel = [b \in Browsers |-> channel[b]] /\ received = [b \in Browsers |-> received[b]]
    /\ handler = [b \in Browsers |-> handler[b]]
    /\ published = [s \in Streams |-> published[s]]

\* The parts that a step of the feed preserves together.
Inductive == TailerInv /\ PublishedInv /\ BrowserInv /\ BrokerInv

\* What every reachable state satisfies.
IInv == TypeOK /\ Inductive

\* A message as it is sent.
Messages == [stream: Streams, at: Nat]

\* What is left of one stream in a reply.
Chunks == [stream: Streams, next: Nat, last: Nat]

-----------------------------------------------------------------------------
(* Messages *)

\* A message in a channel or on a page has its fields.
LEMMA MessageFields ==
    ASSUME NEW q \in Seq(Messages), NEW i \in DOMAIN q
    PROVE  q[i].stream \in Streams /\ q[i].at \in Nat
  <1>1. q[i] \in Messages
    BY InSeq
  <1> QED
    BY <1>1 DEF Messages

-----------------------------------------------------------------------------
(* The tailer *)

\* What the tailer holds of a stream.
LEMMA BatchFields ==
    ASSUME IInv, tailer \in {"forward", "publish"}, NEW i \in DOMAIN batch
    PROVE  /\ batch \in Seq([stream: Streams, next: Nat, last: Nat])
           /\ batch[i].stream \in Streams /\ batch[i].next \in Nat /\ batch[i].last \in Nat
           /\ batch[i].next <= batch[i].last /\ batch[i].last <= length[batch[i].stream]
           /\ batch[i].next = Reached(batch[i].stream)
                              + (IF tailer = "publish" /\ i = 1 THEN 0 ELSE 1)
           /\ \A j \in DOMAIN batch : batch[i].stream = batch[j].stream => i = j
  <1>1. batch \in Seq(Chunks)
    BY DEF IInv, Inductive, TailerInv, Chunks
  <1>2. batch[i] \in Chunks
    BY <1>1, InSeq
  <1>3. batch[i].stream \in Streams /\ batch[i].next \in Nat /\ batch[i].last \in Nat
    BY <1>2 DEF Chunks
  <1> QED
    BY <1>1, <1>3 DEF IInv, Inductive, TailerInv, Chunks

\* Where a stream is read up to is one of its positions.
LEMMA ReachedType ==
    ASSUME IInv, NEW s \in Streams
    PROVE  Reached(s) \in Nat /\ Reached(s) <= length[s] /\ length[s] \in Nat /\ start[s] \in Nat
  BY DEF IInv, TypeOK, Inductive, TailerInv, Reached, Dollar

\* The message the tailer is about.
LEMMA MessageType ==
    ASSUME IInv, tailer \in {"forward", "publish"}
    PROVE  /\ batch \in Seq([stream: Streams, next: Nat, last: Nat]) /\ batch # << >>
           /\ 1 \in DOMAIN batch /\ Head(batch) = batch[1]
           /\ Message.stream = batch[1].stream /\ Message.at = batch[1].next
           /\ Message \in Messages
           /\ Message.at <= length[Message.stream]
           /\ Message.at = Reached(Message.stream) + (IF tailer = "publish" THEN 0 ELSE 1)
  <1>1. batch \in Seq([stream: Streams, next: Nat, last: Nat]) /\ batch # << >>
    BY DEF IInv, TypeOK, Inductive, TailerInv
  <1>2. 1 \in DOMAIN batch /\ Head(batch) = batch[1]
        /\ batch[1] \in [stream: Streams, next: Nat, last: Nat]
    BY <1>1, SeqFacts
  <1>3. Message.stream = batch[1].stream /\ Message.at = batch[1].next /\ Message \in Messages
    BY <1>2 DEF Message, Messages
  <1>4. /\ batch[1].next <= batch[1].last /\ batch[1].last <= length[batch[1].stream]
        /\ batch[1].next = Reached(batch[1].stream) + (IF tailer = "publish" THEN 0 ELSE 1)
    BY <1>2 DEF IInv, Inductive, TailerInv
  <1>5. batch[1].next <= length[batch[1].stream]
    BY <1>2, <1>4, ReachedType
  <1> QED
    BY <1>1, <1>2, <1>3, <1>4, <1>5

\* What the tailer reads on from never falls back: what a browser has stays behind it.
LEMMA BehavedKept ==
    ASSUME IInv, NEW b \in Browsers, channel'[b] = channel[b], received'[b] = received[b],
           \A s \in Streams : Reached(s) <= Reached(s)' /\ Reached(s)' \in Int,
           b \in fanout' => b \in fanout /\ UNCHANGED Message
    PROVE  Behaved(b)'
  <1> DEFINE r == received[b]
             q == channel[b]
  <1>1. /\ r \in Seq(Messages) /\ q \in Seq(Messages)
        /\ \A i, j \in DOMAIN r : i < j => Before(r[i], r[j])
        /\ \A i, j \in DOMAIN q : i < j => Before(q[i], q[j])
        /\ \A i \in DOMAIN r, j \in DOMAIN q : Before(r[i], q[j])
        /\ \A i \in DOMAIN r : r[i].at <= Reached(r[i].stream)
        /\ \A i \in DOMAIN q : q[i].at <= Reached(q[i].stream)
        /\ b \in fanout => /\ \A i \in DOMAIN r : Before(r[i], Message)
                          /\ \A i \in DOMAIN q : Before(q[i], Message)
    BY DEF IInv, Inductive, BrowserInv, Behaved, Messages
  <1>2. \A s \in Streams : /\ Reached(s) <= Reached(s)'
                           /\ Reached(s) \in Nat /\ Reached(s)' \in Int
    BY ReachedType
  <1>3. \A i \in DOMAIN r : r[i].at <= Reached(r[i].stream)'
    <2> TAKE i \in DOMAIN r
    <2>1. r[i].stream \in Streams /\ r[i].at \in Nat
      BY <1>1, MessageFields
    <2>2. \A s \in Streams : r[i].at <= Reached(s) => r[i].at <= Reached(s)'
      BY <1>2, <2>1
    <2>3. r[i].stream = received'[b][i].stream
      OBVIOUS
    <2> QED
      BY <1>1, <2>1, <2>2, <2>3
  <1>4. \A i \in DOMAIN q : q[i].at <= Reached(q[i].stream)'
    <2> TAKE i \in DOMAIN q
    <2>1. q[i].stream \in Streams /\ q[i].at \in Nat
      BY <1>1, MessageFields
    <2>2. \A s \in Streams : q[i].at <= Reached(s) => q[i].at <= Reached(s)'
      BY <1>2, <2>1
    <2>3. q[i].stream = channel'[b][i].stream
      OBVIOUS
    <2> QED
      BY <1>1, <2>1, <2>2, <2>3
  <1>5. b \in fanout' => /\ \A i \in DOMAIN r : Before(r[i], Message')
                         /\ \A i \in DOMAIN q : Before(q[i], Message')
    BY <1>1
  <1> QED
    BY <1>1, <1>3, <1>4, <1>5 DEF Behaved, Messages, Before

\* The same for all browsers at once.
LEMMA BrowsersKept ==
    ASSUME IInv, UNCHANGED <<channel, received>>,
           \A s \in Streams : Reached(s) <= Reached(s)' /\ Reached(s)' \in Int,
           fanout' = {} \/ (fanout' \subseteq fanout /\ UNCHANGED Message)
    PROVE  BrowserInv'
  <1> SUFFICES ASSUME NEW b \in Browsers
               PROVE  Behaved(b)'
    BY DEF BrowserInv
  <1>1. channel'[b] = channel[b] /\ received'[b] = received[b]
    OBVIOUS
  <1>2. b \in fanout' => b \in fanout /\ UNCHANGED Message
    OBVIOUS
  <1> QED
    BY <1>1, <1>2, BehavedKept

\* The initial state.
LEMMA InitInv == Init => IInv
  <1> SUFFICES ASSUME Init
               PROVE  IInv
    OBVIOUS
  <1>1. TypeOK
    BY GatewayAssumption DEF Init, TypeOK, Dollar
  <1>2. TailerInv
    BY DEF Init, TailerInv, Reached, Dollar
  <1>3. PublishedInv
    BY DEF Init, PublishedInv
  <1>4. BrowserInv
    BY DEF Init, BrowserInv, Behaved
  <1>5. BrokerInv
    BY DEF Init, BrokerInv
  <1> QED
    BY <1>1, <1>2, <1>3, <1>4, <1>5 DEF IInv, Inductive

\* A stream grows: what was read of it stays behind its end.
LEMMA ProduceInv ==
    ASSUME IInv, NEW s \in Streams, Produce(s)
    PROVE  IInv'
  <1>1. /\ length' = [length EXCEPT ![s] = @ + 1]
        /\ UNCHANGED <<lastID, start, tailer, batch, fanout, clients, channel, handler, received, published>>
    BY DEF Produce, tail, broker, browser
  <1>2. \A t \in Streams : length'[t] \in Nat /\ length[t] <= length'[t] /\ length[t] \in Nat
    BY <1>1, ReachedType DEF IInv, Inductive, TailerInv
  <1>3. length' \in [Streams -> Nat]
    BY <1>1 DEF IInv, Inductive, TailerInv
  <1>4. \A t \in Streams : /\ Reached(t) <= Reached(t)' /\ Reached(t)' \in Int
                           /\ tailer # "call" => Reached(t)' = Reached(t)
    BY <1>1, <1>2, ReachedType DEF Reached
  <1>5. TypeOK'
    BY <1>1, <1>2 DEF IInv, TypeOK, Dollar
  <1>6. TailerInv'
    <2>1. /\ lastID' \in [Streams -> {Dollar} \cup Nat]
          /\ length' \in [Streams -> Nat] /\ start' \in [Streams -> Nat]
          /\ tailer = "publish" => lastID[Message.stream] # Dollar
      BY <1>1, <1>3 DEF IInv, Inductive, TailerInv
    <2>2. \A t \in Streams : start[t] <= length'[t]
      BY <1>2, ReachedType DEF IInv, Inductive, TailerInv
    <2>3. tailer = "blocked" => \A t \in Streams : start[t] = Reached(t)'
      BY <1>4 DEF IInv, Inductive, TailerInv
    <2>4. ASSUME tailer \in {"forward", "publish"}
          PROVE  /\ batch \in Seq([stream: Streams, next: Nat, last: Nat])
                 /\ \A i, j \in DOMAIN batch : batch[i].stream = batch[j].stream => i = j
                 /\ \A i \in DOMAIN batch :
                      /\ batch[i].next <= batch[i].last /\ batch[i].last <= length'[batch[i].stream]
                      /\ batch[i].next = Reached(batch[i].stream)'
                                         + (IF tailer = "publish" /\ i = 1 THEN 0 ELSE 1)
      <3>1. /\ batch \in Seq([stream: Streams, next: Nat, last: Nat])
            /\ \A i, j \in DOMAIN batch : batch[i].stream = batch[j].stream => i = j
        BY <2>4 DEF IInv, Inductive, TailerInv
      <3>2. ASSUME NEW i \in DOMAIN batch
            PROVE  /\ batch[i].next <= batch[i].last /\ batch[i].last <= length'[batch[i].stream]
                   /\ batch[i].next = Reached(batch[i].stream)'
                                      + (IF tailer = "publish" /\ i = 1 THEN 0 ELSE 1)
        <4>1. batch[i].stream \in Streams /\ batch[i].last \in Nat
          BY <2>4, BatchFields
        <4>2. /\ batch[i].next <= batch[i].last /\ batch[i].last <= length[batch[i].stream]
              /\ batch[i].next = Reached(batch[i].stream)
                                 + (IF tailer = "publish" /\ i = 1 THEN 0 ELSE 1)
          BY <2>4, BatchFields
        <4>3. batch[i].last <= length'[batch[i].stream]
          BY <1>2, <4>1, <4>2
        <4>4. Reached(batch[i].stream)' = Reached(batch[i].stream)
          <5>1. tailer # "call"
            BY <2>4
          <5> QED
            BY <1>1, <1>4, <4>1, <5>1
        <4> QED
          BY <4>2, <4>3, <4>4
      <3> QED
        BY <3>1, <3>2
    <2> QED
      BY <1>1, <2>1, <2>2, <2>3, <2>4 DEF TailerInv, Message
  <1>7. BrowserInv'
    BY <1>1, <1>4, BrowsersKept DEF Message
  <1>8. PublishedInv' /\ BrokerInv'
    BY <1>1 DEF IInv, Inductive, PublishedInv, BrokerInv
  <1> QED
    BY <1>5, <1>6, <1>7, <1>8 DEF IInv, Inductive

-----------------------------------------------------------------------------
(* The reads *)

\* Redis resolves "$": the tailer reads on from where it is.
LEMMA CallInv ==
    ASSUME IInv, Call
    PROVE  IInv'
  <1>1. /\ tailer = "call" /\ tailer' = "blocked"
        /\ start' = [s \in Streams |-> IF lastID[s] = Dollar THEN length[s] ELSE lastID[s]]
        /\ UNCHANGED <<length, lastID, batch, fanout, clients, channel, handler, received, published>>
    BY DEF Call, broker, browser
  <1>2. \A s \in Streams : start'[s] = Reached(s) /\ Reached(s)' = Reached(s)
    BY <1>1 DEF Reached
  <1>3. \A s \in Streams : Reached(s) \in Nat /\ Reached(s) <= length[s] /\ length[s] \in Nat
    BY ReachedType
  <1>4. start' \in [Streams -> Nat] /\ \A s \in Streams : start'[s] <= length[s]
    <2>1. start' = [s \in Streams |-> start'[s]]
      BY <1>1
    <2>2. \A s \in Streams : start'[s] \in Nat /\ start'[s] <= length[s]
      BY <1>2, <1>3
    <2> QED
      BY <2>1, <2>2
  <1>5. TypeOK'
    BY <1>1 DEF IInv, TypeOK
  <1>6. TailerInv'
    BY <1>1, <1>2, <1>4 DEF IInv, Inductive, TailerInv
  <1>7. BrowserInv'
    <2>1. fanout' = {}
      BY <1>1 DEF IInv, Inductive, BrokerInv
    <2>2. \A s \in Streams : Reached(s) <= Reached(s)' /\ Reached(s)' \in Int
      BY <1>2, <1>3
    <2> QED
      BY <1>1, <2>1, <2>2, BrowsersKept
  <1>8. PublishedInv' /\ BrokerInv'
    BY <1>1 DEF IInv, Inductive, PublishedInv, BrokerInv
  <1> QED
    BY <1>5, <1>6, <1>7, <1>8 DEF IInv, Inductive

\* A reply holds, of each of its streams, what follows the start of the read.
LEMMA EntriesOf ==
    ASSUME IInv, tailer = "blocked", NEW s \in Streams, length[s] > start[s]
    PROVE  /\ Entries(s) \in Chunks /\ Entries(s).stream = s
           /\ Entries(s).next = Reached(s) + 1
           /\ Entries(s).next <= Entries(s).last /\ Entries(s).last <= length[s]
  <1>1. start[s] \in Nat /\ length[s] \in Nat /\ Count \in Nat \ {0}
    BY ReachedType, GatewayAssumption
  <1>2. start[s] = Reached(s)
    BY DEF IInv, Inductive, TailerInv
  <1> QED
    BY <1>1, <1>2 DEF Entries, Chunks

\* A reply arrives.
LEMMA ReturnInv ==
    ASSUME IInv, Return
    PROVE  IInv'
  <1>1. /\ tailer = "blocked" /\ tailer' = "forward"
        /\ UNCHANGED <<length, lastID, start, fanout, clients, channel, handler, received, published>>
    BY DEF Return, broker, browser
  <1>2. PICK woken, order :
          /\ woken \in SUBSET {s \in Streams : length[s] > start[s]} /\ woken # {}
          /\ order \in Orders(woken) /\ batch' = [i \in DOMAIN order |-> Entries(order[i])]
    BY DEF Return
  <1>3. Cardinality(woken) \in Nat /\ Cardinality(woken) # 0
    <2>1. IsFiniteSet(woken)
      <3>1. woken \subseteq Streams
        BY <1>2
      <3> QED
        BY <3>1, GatewayAssumption, FS_Subset
    <2> QED
      BY <1>2, <2>1, FS_CardinalityType, FS_EmptySet
  <1>4. /\ DOMAIN order = 1..Cardinality(woken)
        /\ \A i \in DOMAIN order : order[i] \in woken
        /\ \A i, j \in DOMAIN order : order[i] = order[j] => i = j
    BY <1>2 DEF Orders
  <1>5. \A i \in DOMAIN order :
          /\ order[i] \in Streams
          /\ Entries(order[i]) \in Chunks /\ Entries(order[i]).stream = order[i]
          /\ Entries(order[i]).next = Reached(order[i]) + 1
          /\ Entries(order[i]).next <= Entries(order[i]).last
          /\ Entries(order[i]).last <= length[order[i]]
    <2> TAKE i \in DOMAIN order
    <2>1. order[i] \in Streams /\ length[order[i]] > start[order[i]]
      BY <1>2, <1>4
    <2> QED
      BY <1>1, <2>1, EntriesOf
  <1>6. DOMAIN batch' = 1..Cardinality(woken) /\ \A i \in DOMAIN batch' : batch'[i] = Entries(order[i])
    BY <1>2, <1>4
  <1>7. batch' \in Seq(Chunks) /\ batch' # << >>
    <2>1. batch' \in [1..Cardinality(woken) -> Chunks]
      BY <1>2, <1>4, <1>5
    <2>2. batch' \in Seq(Chunks)
      BY <1>3, <2>1
    <2>3. 1 \in DOMAIN batch'
      BY <1>3, <1>6
    <2> QED
      BY <2>2, <2>3
  <1>8. \A s \in Streams : Reached(s)' = Reached(s)
    BY <1>1 DEF Reached
  <1>9. TypeOK'
    BY <1>1, <1>7 DEF IInv, TypeOK
  <1>10. TailerInv'
    <2>1. ASSUME NEW i \in DOMAIN batch'
          PROVE  /\ batch'[i].next <= batch'[i].last /\ batch'[i].last <= length[batch'[i].stream]
                 /\ batch'[i].next = Reached(batch[i].stream)' + 1
      <3>1. batch'[i] = Entries(order[i]) /\ i \in DOMAIN order
        BY <1>4, <1>6, <2>1
      <3>2. /\ batch'[i].next <= batch'[i].last /\ batch'[i].last <= length[batch'[i].stream]
            /\ batch'[i].next = Reached(order[i]) + 1
            /\ batch'[i].stream = order[i] /\ order[i] \in Streams
        BY <1>5, <3>1
      <3>3. Reached(batch[i].stream)' = Reached(order[i])
        BY <1>1, <3>2 DEF Reached
      <3> QED
        BY <3>2, <3>3
    <2>2. \A i, j \in DOMAIN batch' : batch'[i].stream = batch'[j].stream => i = j
      BY <1>4, <1>5, <1>6
    <2>3. /\ lastID' \in [Streams -> {Dollar} \cup Nat]
          /\ length' \in [Streams -> Nat] /\ start' \in [Streams -> Nat]
          /\ \A s \in Streams : start'[s] <= length'[s]
      BY <1>1 DEF IInv, Inductive, TailerInv
    <2> QED
      BY <1>1, <1>7, <2>1, <2>2, <2>3 DEF TailerInv, Chunks
  <1>11. BrowserInv'
    <2>1. fanout' = {}
      BY <1>1 DEF IInv, Inductive, BrokerInv
    <2>2. \A s \in Streams : Reached(s) <= Reached(s)' /\ Reached(s)' \in Int
      BY <1>8, ReachedType
    <2> QED
      BY <1>1, <2>1, <2>2, BrowsersKept
  <1>12. PublishedInv' /\ BrokerInv'
    BY <1>1 DEF IInv, Inductive, PublishedInv, BrokerInv
  <1> QED
    BY <1>9, <1>10, <1>11, <1>12 DEF IInv, Inductive

\* No reply: the next call starts over.
LEMMA ReturnNothingInv ==
    ASSUME IInv, ReturnNothing
    PROVE  IInv'
  <1>1. /\ tailer = "blocked" /\ tailer' = "call"
        /\ UNCHANGED <<length, lastID, start, batch, fanout, clients, channel, handler, received, published>>
    BY DEF ReturnNothing, broker, browser
  <1>2. \A s \in Streams : Reached(s) <= Reached(s)' /\ Reached(s)' \in Int
    <2> TAKE s \in Streams
    <2>1. Reached(s)' = IF lastID[s] # Dollar THEN lastID[s] ELSE length[s]
      BY <1>1 DEF Reached
    <2>2. Reached(s) = IF lastID[s] # Dollar THEN lastID[s] ELSE start[s]
      BY <1>1 DEF Reached
    <2>3. start[s] <= length[s] /\ Reached(s) \in Nat /\ length[s] \in Nat
      BY ReachedType DEF IInv, Inductive, TailerInv
    <2> QED
      BY <2>1, <2>2, <2>3
  <1>3. TypeOK'
    BY <1>1 DEF IInv, TypeOK
  <1>4. TailerInv'
    BY <1>1 DEF IInv, Inductive, TailerInv
  <1>5. BrowserInv'
    <2>1. fanout' = {}
      BY <1>1 DEF IInv, Inductive, BrokerInv
    <2> QED
      BY <1>1, <1>2, <2>1, BrowsersKept
  <1>6. PublishedInv' /\ BrokerInv'
    BY <1>1 DEF IInv, Inductive, PublishedInv, BrokerInv
  <1> QED
    BY <1>3, <1>4, <1>5, <1>6 DEF IInv, Inductive

-----------------------------------------------------------------------------
(* The fan-out *)

\* lastID moves to the next entry, which is ahead of everything sent before.
LEMMA ForwardInv ==
    ASSUME IInv, Forward
    PROVE  IInv'
  <1> DEFINE m == Message
             s0 == Message.stream
             at == Message.at
  <1>1. /\ tailer = "forward" /\ tailer' = "publish" /\ fanout' = clients
        /\ lastID' = [lastID EXCEPT ![s0] = at]
        /\ published' = [published EXCEPT ![s0] = @ \cup {at}]
        /\ UNCHANGED <<length, start, batch, clients, channel, handler, received>>
    BY DEF Forward, browser
  <1>2. /\ batch \in Seq(Chunks) /\ batch # << >> /\ 1 \in DOMAIN batch
        /\ s0 = batch[1].stream /\ at = batch[1].next /\ m \in Messages
        /\ s0 \in Streams /\ at \in Nat /\ at <= length[s0] /\ at = Reached(s0) + 1
    BY <1>1, MessageType DEF Chunks, Messages
  <1>3. Message' = Message
    BY <1>1 DEF Message
  <1> HIDE DEF m, s0, at
  <1>4. lastID \in [Streams -> {Dollar} \cup Nat] /\ Dollar \notin Nat
    BY DEF IInv, Inductive, TailerInv, Dollar
  <1>5. /\ \A s \in Streams \ {s0} : lastID'[s] = lastID[s]
        /\ lastID'[s0] = at /\ lastID'[s0] # Dollar
        /\ lastID' \in [Streams -> {Dollar} \cup Nat]
    BY <1>1, <1>2, <1>4
  <1>6. /\ \A s \in Streams \ {s0} : Reached(s)' = Reached(s)
        /\ Reached(s0)' = at /\ Reached(s0) < at
    <2>1. \A s \in Streams \ {s0} : Reached(s)' = Reached(s)
      BY <1>1, <1>5 DEF Reached
    <2>2. Reached(s0)' = at
      BY <1>1, <1>5 DEF Reached, s0, Message
    <2>3. Reached(s0) < at
      BY <1>2, ReachedType
    <2> QED
      BY <2>1, <2>2, <2>3
  <1>7. \A s \in Streams : Reached(s) <= Reached(s)' /\ Reached(s)' \in Int /\ Reached(s) \in Nat
    <2> TAKE s \in Streams
    <2>1. Reached(s) \in Nat
      BY ReachedType
    <2>2. CASE s = s0
      <3>1. Reached(s)' = Reached(s0)'
        BY <1>3, <2>2 DEF s0
      <3> QED
        BY <1>2, <1>6, <2>1, <2>2, <3>1
    <2>3. CASE s # s0
      BY <1>6, <2>1, <2>3
    <2> QED
      BY <2>2, <2>3
  <1>8. TypeOK'
    <2>1. \A s \in Streams : lastID'[s] \in {Dollar} \cup 0..length'[s]
      <3> TAKE s \in Streams
      <3>1. length[s] \in Nat
        BY ReachedType
      <3>2. CASE s = s0
        BY <1>1, <1>2, <1>5, <3>1, <3>2
      <3>3. CASE s # s0
        BY <1>1, <1>5, <3>3 DEF IInv, TypeOK
      <3> QED
        BY <3>2, <3>3
    <2> QED
      BY <1>1, <1>2, <2>1 DEF IInv, TypeOK
  <1>9. TailerInv'
    <2>1. ASSUME NEW i \in DOMAIN batch
          PROVE  /\ batch[i].next <= batch[i].last /\ batch[i].last <= length[batch[i].stream]
                 /\ batch[i].next = Reached(batch[i].stream)' + (IF i = 1 THEN 0 ELSE 1)
      <3>1. /\ batch[i].stream \in Streams /\ batch[i].next \in Nat
            /\ batch[i].next <= batch[i].last /\ batch[i].last <= length[batch[i].stream]
            /\ batch[i].next = Reached(batch[i].stream) + 1
            /\ \A j \in DOMAIN batch : batch[i].stream = batch[j].stream => i = j
        BY <1>1, BatchFields
      <3>2. CASE i = 1
        <4>1. batch[i].stream = s0 /\ batch[i].next = at /\ batch'[i].stream = s0
          BY <1>1, <1>2, <3>2
        <4>2. Reached(batch[i].stream)' = Reached(s0)'
          BY <1>1, <1>3, <4>1 DEF Reached, s0
        <4> QED
          BY <1>2, <1>6, <3>1, <3>2, <4>1, <4>2
      <3>3. CASE i # 1
        <4>1. batch[i].stream # s0 /\ batch'[i].stream = batch[i].stream
          BY <1>1, <1>2, <3>1, <3>3
        <4>2. Reached(batch[i].stream)' = Reached(batch[i].stream)
          BY <1>6, <3>1, <4>1
        <4> QED
          BY <3>1, <3>3, <4>2
      <3> QED
        BY <3>2, <3>3
    <2>2. \A i, j \in DOMAIN batch : batch[i].stream = batch[j].stream => i = j
      BY <1>1, BatchFields
    <2>3. lastID'[Message.stream]  # Dollar
      BY <1>5 DEF s0
    <2>4. /\ length' \in [Streams -> Nat] /\ start' \in [Streams -> Nat]
          /\ \A s \in Streams : start'[s] <= length'[s]
      BY <1>1 DEF IInv, Inductive, TailerInv
    <2>5. batch' \in Seq([stream: Streams, next: Nat, last: Nat])
      BY <1>1, <1>2 DEF Chunks
    <2>6. \A i \in DOMAIN batch' :
            /\ batch'[i].next <= batch'[i].last /\ batch'[i].last <= length'[batch'[i].stream]
            /\ batch'[i].next = Reached(batch[i].stream)' + (IF tailer' = "publish" /\ i = 1 THEN 0 ELSE 1)
      BY <1>1, <2>1
    <2>7. \A i, j \in DOMAIN batch' : batch'[i].stream = batch'[j].stream => i = j
      BY <1>1, <2>2
    <2>8. (lastID[Message.stream] # Dollar)'
      BY <1>3, <2>3
    <2> QED
      BY <1>1, <1>5, <2>4, <2>5, <2>6, <2>7, <2>8 DEF TailerInv
  <1>10. PublishedInv'
    <2> SUFFICES ASSUME NEW s \in Streams
                 PROVE  /\ lastID'[s] = Dollar => published'[s] = {}
                        /\ \A i \in published'[s] :
                              i \in Nat /\ i <= lastID'[s] /\ i..lastID'[s] \subseteq published'[s]
      BY DEF PublishedInv
    <2>1. /\ lastID[s] = Dollar => published[s] = {}
          /\ \A i \in published[s] :
                i \in Nat /\ i <= lastID[s] /\ i..lastID[s] \subseteq published[s]
      BY DEF IInv, Inductive, PublishedInv
    <2>2. published = [t \in Streams |-> published[t]]
      BY DEF IInv, Inductive, BrokerInv
    <2>3. CASE s # s0
      <3>1. published'[s] = published[s] /\ lastID'[s] = lastID[s]
        BY <1>1, <1>5, <2>2, <2>3
      <3> QED
        BY <2>1, <3>1
    <2>4. CASE s = s0
      <3>1. published'[s] = published[s] \cup {at} /\ lastID'[s] = at /\ at \in Nat /\ at # Dollar
        BY <1>1, <1>2, <1>5, <2>2, <2>4
      <3>2. lastID[s] # Dollar => lastID[s] + 1 = at /\ lastID[s] \in Nat
        BY <1>2, <1>4, <2>4 DEF Reached
      <3>3. ASSUME NEW i \in published[s]
            PROVE  i \in Nat /\ i <= at /\ i..at \subseteq published[s] \cup {at}
        <4>1. lastID[s] # Dollar
          BY <2>1, <3>3
        <4> QED
          BY <2>1, <3>1, <3>2, <4>1
      <3>4. at..at \subseteq {at} /\ at <= at
        BY <3>1
      <3> QED
        BY <3>1, <3>3, <3>4
    <2> QED
      BY <2>3, <2>4
  <1>11. BrowserInv'
    <2> SUFFICES ASSUME NEW b \in Browsers
                 PROVE  Behaved(b)'
      BY DEF BrowserInv
    <2> DEFINE r == received[b]
               q == channel[b]
    <2>1. /\ r \in Seq(Messages) /\ q \in Seq(Messages)
          /\ \A i, j \in DOMAIN r : i < j => Before(r[i], r[j])
          /\ \A i, j \in DOMAIN q : i < j => Before(q[i], q[j])
          /\ \A i \in DOMAIN r, j \in DOMAIN q : Before(r[i], q[j])
          /\ \A i \in DOMAIN r : r[i].at <= Reached(r[i].stream)
          /\ \A i \in DOMAIN q : q[i].at <= Reached(q[i].stream)
      BY DEF IInv, Inductive, BrowserInv, Behaved, Messages
    <2>2. \A x \in Messages : x.at <= Reached(x.stream) =>
             Before(x, m) /\ \A y \in Streams : y = x.stream => x.at <= Reached(y)'
      <3> TAKE x \in Messages
      <3> HAVE x.at <= Reached(x.stream)
      <3>1. x.at \in Nat /\ x.stream \in Streams
        BY DEF Messages
      <3>2. \A y \in Streams : y = x.stream => x.at <= Reached(y)'
        BY <1>7, <3>1
      <3>3. Before(x, m)
        BY <1>2, <1>6, <1>7, <3>1 DEF Before, m, s0, at
      <3> QED
        BY <3>2, <3>3
    <2>3. ASSUME NEW i \in DOMAIN r
          PROVE  r[i].at <= Reached(r[i].stream)' /\ Before(r[i], m)
      <3>1. r[i] \in Messages /\ r[i].stream \in Streams
        BY <2>1, <2>3, InSeq, MessageFields
      <3>2. received'[b][i].stream = r[i].stream
        BY <1>1
      <3> QED
        BY <2>1, <2>2, <3>1, <3>2
    <2>4. ASSUME NEW i \in DOMAIN q
          PROVE  q[i].at <= Reached(q[i].stream)' /\ Before(q[i], m)
      <3>1. q[i] \in Messages /\ q[i].stream \in Streams
        BY <2>1, <2>4, InSeq, MessageFields
      <3>2. channel'[b][i].stream = q[i].stream
        BY <1>1
      <3> QED
        BY <2>1, <2>2, <3>1, <3>2
    <2> QED
      BY <1>1, <1>3, <2>1, <2>3, <2>4 DEF Behaved, Messages, Before, m
  <1>12. BrokerInv'
    BY <1>1 DEF IInv, Inductive, BrokerInv
  <1> QED
    BY <1>8, <1>9, <1>10, <1>11, <1>12 DEF IInv, Inductive

\* A step of the broker or of a browser leaves the tailer alone.
LEMMA TailerKept ==
    ASSUME IInv, UNCHANGED <<length, tail>>
    PROVE  /\ TailerInv'
           /\ UNCHANGED Message
           /\ \A s \in Streams : Reached(s)' = Reached(s)
           /\ \A s \in Streams : Reached(s) <= Reached(s)' /\ Reached(s)' \in Int
  <1>1. UNCHANGED <<length, lastID, start, tailer, batch>>
    BY DEF tail
  <1>2. UNCHANGED Message
    BY <1>1 DEF Message
  <1>3. \A s \in Streams : Reached(s)' = Reached(s)
    BY <1>1 DEF Reached
  <1>4. \A s \in Streams : Reached(s) <= Reached(s)' /\ Reached(s)' \in Int
    BY <1>3, ReachedType
  <1>5. TailerInv'
    BY <1>1, <1>2 DEF IInv, Inductive, TailerInv, Reached
  <1> QED
    BY <1>2, <1>3, <1>4, <1>5

\* Browser b gets the message behind what it has, or loses it.
LEMMA SendInv ==
    ASSUME IInv, NEW b \in Browsers, Send(b)
    PROVE  IInv'
  <1> DEFINE m == Message
             r == received[b]
             q == channel[b]
  <1>1. /\ tailer = "publish" /\ b \in fanout /\ fanout' = fanout \ {b}
        /\ channel' = IF Len(q) < Capacity THEN [channel EXCEPT ![b] = Append(@, m)] ELSE channel
        /\ UNCHANGED <<length, tail, clients, handler, received, published>>
    BY DEF Send
  <1>2. /\ TailerInv' /\ UNCHANGED <<tailer, lastID, Message>>
        /\ \A s \in Streams : Reached(s)' = Reached(s)
        /\ \A s \in Streams : Reached(s) <= Reached(s)' /\ Reached(s)' \in Int
    BY <1>1, TailerKept DEF tail
  <1>3. m \in Messages /\ m.stream \in Streams /\ m.at \in Nat /\ m.at = Reached(m.stream)
    BY <1>1, MessageType, ReachedType DEF Messages
  <1>4. channel = [c \in Browsers |-> channel[c]]
    BY DEF IInv, Inductive, BrokerInv
  <1>5. /\ r \in Seq(Messages) /\ q \in Seq(Messages)
        /\ \A i, j \in DOMAIN r : i < j => Before(r[i], r[j])
        /\ \A i, j \in DOMAIN q : i < j => Before(q[i], q[j])
        /\ \A i \in DOMAIN r, j \in DOMAIN q : Before(r[i], q[j])
        /\ \A i \in DOMAIN r : r[i].at <= Reached(r[i].stream)
        /\ \A i \in DOMAIN q : q[i].at <= Reached(q[i].stream)
        /\ \A i \in DOMAIN r : Before(r[i], m)
        /\ \A i \in DOMAIN q : Before(q[i], m)
    BY <1>1 DEF IInv, Inductive, BrowserInv, Behaved, Messages
  <1>6. \A c \in Browsers \ {b} : channel'[c] = channel[c] /\ received'[c] = received[c]
    BY <1>1, <1>4
  <1>7. BrowserInv'
    <2>1. ASSUME NEW c \in Browsers \ {b}
          PROVE  Behaved(c)'
      BY <1>1, <1>2, <1>6, BehavedKept
    <2>2. CASE Len(q) < Capacity
      <3> DEFINE p == Append(q, m)
      <3>1. channel'[b] = p
        BY <1>1, <1>4, <2>2
      <3>2. /\ p \in Seq(Messages) /\ DOMAIN p = DOMAIN q \cup {Len(q) + 1}
            /\ \A i \in DOMAIN q : p[i] = q[i]
            /\ p[Len(q) + 1] = m
            /\ DOMAIN q = 1..Len(q) /\ Len(q) \in Nat
        BY <1>3, <1>5, SeqFacts
      <3> HIDE DEF p, q, m
      <3>3. \A i, j \in DOMAIN p : i < j => Before(p[i], p[j])
        <4> SUFFICES ASSUME NEW i \in DOMAIN p, NEW j \in DOMAIN p, i < j
                     PROVE  Before(p[i], p[j])
          OBVIOUS
        <4>1. i \in DOMAIN q
          BY <3>2
        <4>2. CASE j \in DOMAIN q
          BY <1>5, <3>2, <4>1, <4>2
        <4>3. CASE j = Len(q) + 1
          BY <1>5, <3>2, <4>1, <4>3
        <4> QED
          BY <3>2, <4>2, <4>3
      <3>4. \A i \in DOMAIN r, j \in DOMAIN p : Before(r[i], p[j])
        BY <1>5, <3>2
      <3>5. \A i \in DOMAIN p : p[i].at <= Reached(p[i].stream)
        BY <1>3, <1>5, <3>2
      <3>6. \A i \in DOMAIN p : Reached(p[i].stream) = Reached(channel[b][i].stream)'
        <4> TAKE i \in DOMAIN p
        <4>1. p[i].stream \in Streams /\ channel'[b][i].stream = p[i].stream
          BY <3>1, <3>2, MessageFields
        <4> QED
          BY <1>2, <4>1
      <3>7. \A i \in DOMAIN r : Reached(r[i].stream) = Reached(received[b][i].stream)'
        <4> TAKE i \in DOMAIN r
        <4>1. r[i].stream \in Streams /\ received'[b][i].stream = r[i].stream
          BY <1>1, <1>5, MessageFields
        <4> QED
          BY <1>2, <4>1
      <3> HIDE DEF r
      <3>8. received'[b] = r /\ b \notin fanout'
        BY <1>1 DEF r
      <3>9. \A i \in DOMAIN p : p[i].at <= Reached(channel[b][i].stream)'
        BY <3>5, <3>6
      <3>10. \A i \in DOMAIN r : r[i].at <= Reached(received[b][i].stream)'
        BY <1>5, <3>7
      <3>11. Behaved(b)'
        BY <1>5, <3>1, <3>2, <3>3, <3>4, <3>8, <3>9, <3>10 DEF Behaved, Messages, Before
      <3> QED
        BY <2>1, <3>11 DEF BrowserInv
    <2>3. CASE ~(Len(q) < Capacity)
      <3>1. UNCHANGED <<channel, received>> /\ fanout' \subseteq fanout
        BY <1>1, <2>3
      <3> QED
        BY <1>2, <3>1, BrowsersKept
    <2> QED
      BY <2>2, <2>3
  <1>8. TypeOK'
    <2>1. \A c \in Browsers : Len(channel'[c]) <= Capacity
      <3> TAKE c \in Browsers
      <3>1. CASE channel'[c] = channel[c]
        BY <3>1 DEF IInv, TypeOK
      <3>2. CASE channel'[c] # channel[c]
        <4>1. c = b /\ Len(q) < Capacity
          BY <1>1, <1>6, <3>2
        <4>2. channel'[c] = Append(q, m)
          BY <1>1, <1>4, <4>1
        <4>3. Len(Append(q, m)) = Len(q) + 1 /\ Len(q) \in Nat
          BY <1>3, <1>5, SeqFacts
        <4> QED
          BY <4>1, <4>2, <4>3, GatewayAssumption
      <3> QED
        BY <3>1, <3>2
    <2> QED
      BY <1>1, <2>1 DEF IInv, TypeOK, tail
  <1>9. PublishedInv'
    BY <1>1, <1>2 DEF IInv, Inductive, PublishedInv
  <1>10. BrokerInv'
    <2>1. channel' = [c \in Browsers |-> channel'[c]]
      BY <1>1, <1>4
    <2> QED
      BY <1>1, <1>2, <2>1 DEF IInv, Inductive, BrokerInv
  <1> QED
    BY <1>2, <1>7, <1>8, <1>9, <1>10 DEF IInv, Inductive

\* The fan-out is over: what is left of the reply follows the message.
LEMMA PublishedStep ==
    ASSUME IInv, Published
    PROVE  IInv'
  <1>1. /\ tailer = "publish" /\ fanout = {} /\ batch' = Rest
        /\ tailer' = IF Rest = << >> THEN "call" ELSE "forward"
        /\ UNCHANGED <<length, lastID, start, fanout, clients, channel, handler, received, published>>
    BY DEF Published, broker, browser
  <1>2. /\ batch \in Seq(Chunks) /\ batch # << >> /\ Head(batch) = batch[1] /\ 1 \in DOMAIN batch
        /\ DOMAIN batch = 1..Len(batch) /\ Len(batch) \in Nat
    BY <1>1, MessageType, SeqFacts DEF Chunks
  <1>3. \A s \in Streams : /\ Reached(s) <= Reached(s)' /\ Reached(s)' \in Int
                           /\ tailer' = "forward" => Reached(s)' = Reached(s)
    <2> TAKE s \in Streams
    <2>1. CASE tailer' = "forward"
      <3>1. Reached(s)' = Reached(s)
        BY <1>1, <2>1 DEF Reached
      <3> QED
        BY <2>1, <3>1, ReachedType
    <2>2. CASE tailer' = "call"
      <3>1. Reached(s)' = IF lastID[s] # Dollar THEN lastID[s] ELSE length[s]
        BY <1>1, <2>2 DEF Reached
      <3>2. Reached(s) = IF lastID[s] # Dollar THEN lastID[s] ELSE start[s]
        BY <1>1 DEF Reached
      <3>3. start[s] <= length[s] /\ Reached(s) \in Nat /\ length[s] \in Nat
        BY ReachedType DEF IInv, Inductive, TailerInv
      <3> QED
        BY <2>2, <3>1, <3>2, <3>3
    <2> QED
      BY <1>1, <2>1, <2>2
  <1>4. \A i \in DOMAIN batch :
          /\ batch[i].stream \in Streams /\ batch[i].next \in Nat /\ batch[i].last \in Nat
          /\ batch[i].next <= batch[i].last /\ batch[i].last <= length[batch[i].stream]
          /\ batch[i].next = Reached(batch[i].stream) + (IF i = 1 THEN 0 ELSE 1)
          /\ \A j \in DOMAIN batch : batch[i].stream = batch[j].stream => i = j
    BY <1>1, BatchFields
  <1>5. Rest # << >> =>
          /\ Rest \in Seq(Chunks)
          /\ \A i \in DOMAIN Rest :
              /\ Rest[i].stream \in Streams
              /\ Rest[i].next <= Rest[i].last /\ Rest[i].last <= length[Rest[i].stream]
              /\ Rest[i].next = Reached(Rest[i].stream) + 1
          /\ \A i, j \in DOMAIN Rest : Rest[i].stream = Rest[j].stream => i = j
    <2>1. CASE Head(batch).next = Head(batch).last
      <3> DEFINE t == Tail(batch)
      <3>1. Rest = t
        BY <2>1 DEF Rest
      <3>2. t \in Seq(Chunks) /\ \A i \in DOMAIN t : i \in Nat \ {0} /\ i + 1 \in DOMAIN batch /\ t[i] = batch[i + 1]
        <4>1. /\ t \in Seq(Chunks)
              /\ \A i \in DOMAIN t : i + 1 \in DOMAIN batch /\ t[i] = batch[i + 1]
          BY <1>2, SeqFacts
        <4>2. DOMAIN t = 1..Len(t)
          BY <4>1, SeqFacts
        <4> QED
          BY <4>1, <4>2
      <3> HIDE DEF t
      <3>3. \A i \in DOMAIN t :
              /\ t[i].stream \in Streams
              /\ t[i].next <= t[i].last /\ t[i].last <= length[t[i].stream]
              /\ t[i].next = Reached(t[i].stream) + 1
        <4> TAKE i \in DOMAIN t
        <4>1. i + 1 \in DOMAIN batch /\ t[i] = batch[i + 1] /\ i + 1 # 1
          BY <3>2
        <4> QED
          BY <1>4, <4>1
      <3>4. \A i, j \in DOMAIN t : t[i].stream = t[j].stream => i = j
        <4> SUFFICES ASSUME NEW i \in DOMAIN t, NEW j \in DOMAIN t, t[i].stream = t[j].stream
                     PROVE  i = j
          OBVIOUS
        <4>1. i + 1 = j + 1
          BY <1>4, <3>2
        <4> QED
          BY <3>2, <4>1
      <3> QED
        BY <3>1, <3>2, <3>3, <3>4
    <2>2. CASE Head(batch).next # Head(batch).last
      <3> DEFINE t == [batch EXCEPT ![1].next = @ + 1]
      <3>1. Rest = t
        BY <1>2, <2>2 DEF Rest
      <3>2. DOMAIN t = DOMAIN batch /\ \A i \in DOMAIN batch : i # 1 => t[i] = batch[i]
        OBVIOUS
      <3>3. batch[1] \in Chunks
        BY <1>2, InSeq
      <3>4. /\ t[1] = [stream |-> batch[1].stream, next |-> batch[1].next + 1, last |-> batch[1].last]
            /\ t[1] \in Chunks
        BY <1>2, <3>3 DEF Chunks
      <3> HIDE DEF t
      <3>5. t \in Seq(Chunks)
        <4>1. t \in [1..Len(batch) -> Chunks]
          <5>1. \A i \in 1..Len(batch) : t[i] \in Chunks
            BY <1>2, <3>2, <3>4, InSeq
          <5>2. t = [i \in 1..Len(batch) |-> t[i]]
            BY <1>2 DEF t
          <5> QED
            BY <5>1, <5>2
        <4> QED
          BY <1>2, <4>1
      <3>6. \A i \in DOMAIN t :
              /\ t[i].stream \in Streams
              /\ t[i].next <= t[i].last /\ t[i].last <= length[t[i].stream]
              /\ t[i].next = Reached(t[i].stream) + 1
        <4> TAKE i \in DOMAIN t
        <4>1. CASE i = 1
          <5>1. /\ t[i].stream = batch[1].stream /\ t[i].next = batch[1].next + 1
                /\ t[i].last = batch[1].last
            BY <3>4, <4>1
          <5>2. /\ batch[1].stream \in Streams /\ batch[1].next \in Nat /\ batch[1].last \in Nat
                /\ batch[1].next <= batch[1].last /\ batch[1].last <= length[batch[1].stream]
                /\ batch[1].next = Reached(batch[1].stream) + 0
            BY <1>2, <1>4
          <5>3. batch[1].next # batch[1].last /\ Reached(batch[1].stream) \in Nat
            BY <1>2, <2>2, <5>2, ReachedType
          <5> QED
            BY <5>1, <5>2, <5>3
        <4>2. CASE i # 1
          BY <1>4, <3>2, <4>2
        <4> QED
          BY <4>1, <4>2
      <3>7. \A i \in DOMAIN t : t[i].stream = batch[i].stream
        BY <3>2, <3>4
      <3>8. \A i, j \in DOMAIN t : t[i].stream = t[j].stream => i = j
        BY <1>4, <3>2, <3>7
      <3> QED
        BY <3>1, <3>5, <3>6, <3>8
    <2> QED
      BY <2>1, <2>2
  <1>6. TypeOK'
    BY <1>1 DEF IInv, TypeOK
  <1>7. TailerInv'
    <2>1. /\ lastID' \in [Streams -> {Dollar} \cup Nat]
          /\ length' \in [Streams -> Nat] /\ start' \in [Streams -> Nat]
          /\ \A s \in Streams : start'[s] <= length'[s]
      BY <1>1 DEF IInv, Inductive, TailerInv
    <2>2. CASE tailer' = "call"
      BY <2>1, <2>2 DEF TailerInv
    <2>3. CASE tailer' = "forward"
      <3>1. Rest # << >>
        BY <1>1, <2>3
      <3>2. \A i \in DOMAIN batch' : Reached(batch[i].stream)' = Reached(Rest[i].stream)
        <4> TAKE i \in DOMAIN batch'
        <4>1. batch'[i].stream = Rest[i].stream /\ Rest[i].stream \in Streams
          BY <1>1, <1>5, <3>1
        <4> QED
          BY <1>3, <2>3, <4>1
      <3>3. \A i \in DOMAIN batch' :
              /\ batch'[i].next <= batch'[i].last /\ batch'[i].last <= length[batch'[i].stream]
              /\ batch'[i].next = Reached(batch[i].stream)' + 1
        BY <1>1, <1>5, <3>1, <3>2
      <3>4. /\ batch' \in Seq(Chunks)
            /\ \A i, j \in DOMAIN batch' : batch'[i].stream = batch'[j].stream => i = j
        BY <1>1, <1>5, <3>1
      <3> QED
        BY <1>1, <2>1, <2>3, <3>3, <3>4 DEF TailerInv, Chunks
    <2> QED
      BY <1>1, <2>2, <2>3
  <1>8. BrowserInv'
    BY <1>1, <1>3, BrowsersKept
  <1>9. PublishedInv' /\ BrokerInv'
    BY <1>1 DEF IInv, Inductive, PublishedInv, BrokerInv
  <1> QED
    BY <1>6, <1>7, <1>8, <1>9 DEF IInv, Inductive

-----------------------------------------------------------------------------
(* Browsers and restarts *)

\* A browser with nothing in its channel that is not being served.
LEMMA EmptyBehaved ==
    ASSUME IInv, NEW b \in Browsers, channel'[b] = << >>, received'[b] = received[b],
           \A s \in Streams : Reached(s) <= Reached(s)' /\ Reached(s)' \in Int,
           b \notin fanout'
    PROVE  Behaved(b)'
  <1> DEFINE r == received[b]
  <1>1. /\ r \in Seq(Messages)
        /\ \A i, j \in DOMAIN r : i < j => Before(r[i], r[j])
        /\ \A i \in DOMAIN r : r[i].at <= Reached(r[i].stream)
    BY DEF IInv, Inductive, BrowserInv, Behaved, Messages
  <1>2. \A s \in Streams : /\ Reached(s) <= Reached(s)'
                           /\ Reached(s) \in Nat /\ Reached(s)' \in Int
    BY ReachedType
  <1>3. \A i \in DOMAIN r : r[i].at <= Reached(received[b][i].stream)'
    <2> TAKE i \in DOMAIN r
    <2>1. r[i].stream \in Streams /\ r[i].at \in Nat
      BY <1>1, MessageFields
    <2>2. \A s \in Streams : r[i].at <= Reached(s) => r[i].at <= Reached(s)'
      BY <1>2, <2>1
    <2>3. r[i].stream = received'[b][i].stream
      OBVIOUS
    <2> QED
      BY <1>1, <2>1, <2>2, <2>3
  <1> QED
    BY <1>1, <1>3 DEF Behaved, Messages, Before

\* A browser connects, with a channel of its own.
LEMMA SubscribeInv ==
    ASSUME IInv, NEW b \in Browsers, Subscribe(b)
    PROVE  IInv'
  <1>1. /\ tailer # "publish" /\ clients' = clients \cup {b}
        /\ channel' = [channel EXCEPT ![b] = << >>] /\ handler' = [handler EXCEPT ![b] = "serving"]
        /\ UNCHANGED <<length, tail, fanout, received, published>>
    BY DEF Subscribe, Unlocked
  <1>2. /\ TailerInv' /\ UNCHANGED <<tailer, lastID, Message>>
        /\ \A s \in Streams : Reached(s) <= Reached(s)' /\ Reached(s)' \in Int
    BY <1>1, TailerKept DEF tail
  <1>3. /\ channel = [c \in Browsers |-> channel[c]] /\ handler = [c \in Browsers |-> handler[c]]
        /\ fanout = {}
    BY <1>1 DEF IInv, Inductive, BrokerInv
  <1>4. channel'[b] = << >> /\ \A c \in Browsers \ {b} : channel'[c] = channel[c]
    BY <1>1, <1>3
  <1>5. BrowserInv'
    <2>1. Behaved(b)'
      BY <1>1, <1>2, <1>3, <1>4, EmptyBehaved
    <2>2. ASSUME NEW c \in Browsers \ {b}
          PROVE  Behaved(c)'
      BY <1>1, <1>2, <1>3, <1>4, BehavedKept
    <2> QED
      BY <2>1, <2>2 DEF BrowserInv
  <1>6. TypeOK'
    <2>1. \A c \in Browsers : Len(channel'[c]) <= Capacity
      <3>1. Len(<< >>) <= Capacity
        BY GatewayAssumption
      <3> QED
        BY <1>4, <3>1 DEF IInv, TypeOK
    <2> QED
      BY <1>1, <2>1 DEF IInv, TypeOK, tail
  <1>7. PublishedInv'
    BY <1>1, <1>2 DEF IInv, Inductive, PublishedInv
  <1>8. BrokerInv'
    BY <1>1, <1>2, <1>3 DEF IInv, Inductive, BrokerInv
  <1> QED
    BY <1>2, <1>5, <1>6, <1>7, <1>8 DEF IInv, Inductive

\* The deferred unsubscribe: the channel is closed, out of the broker's map.
LEMMA UnsubscribeInv ==
    ASSUME IInv, NEW b \in Browsers, Unsubscribe(b)
    PROVE  IInv'
  <1>1. /\ tailer # "publish" /\ clients' = clients \ {b}
        /\ channel' = [channel EXCEPT ![b] = << >>] /\ handler' = [handler EXCEPT ![b] = "off"]
        /\ UNCHANGED <<length, tail, fanout, received, published>>
    BY DEF Unsubscribe, Unlocked
  <1>2. /\ TailerInv' /\ UNCHANGED <<tailer, lastID, Message>>
        /\ \A s \in Streams : Reached(s) <= Reached(s)' /\ Reached(s)' \in Int
    BY <1>1, TailerKept DEF tail
  <1>3. /\ channel = [c \in Browsers |-> channel[c]] /\ handler = [c \in Browsers |-> handler[c]]
        /\ fanout = {}
    BY <1>1 DEF IInv, Inductive, BrokerInv
  <1>4. channel'[b] = << >> /\ \A c \in Browsers \ {b} : channel'[c] = channel[c]
    BY <1>1, <1>3
  <1>5. BrowserInv'
    <2>1. Behaved(b)'
      BY <1>1, <1>2, <1>3, <1>4, EmptyBehaved
    <2>2. ASSUME NEW c \in Browsers \ {b}
          PROVE  Behaved(c)'
      BY <1>1, <1>2, <1>3, <1>4, BehavedKept
    <2> QED
      BY <2>1, <2>2 DEF BrowserInv
  <1>6. TypeOK'
    <2>1. \A c \in Browsers : Len(channel'[c]) <= Capacity
      <3>1. Len(<< >>) <= Capacity
        BY GatewayAssumption
      <3> QED
        BY <1>4, <3>1 DEF IInv, TypeOK
    <2> QED
      BY <1>1, <1>3, <2>1 DEF IInv, TypeOK, tail
  <1>7. PublishedInv'
    BY <1>1, <1>2 DEF IInv, Inductive, PublishedInv
  <1>8. BrokerInv'
    BY <1>1, <1>2, <1>3 DEF IInv, Inductive, BrokerInv
  <1> QED
    BY <1>2, <1>5, <1>6, <1>7, <1>8 DEF IInv, Inductive

\* The oldest message of the channel is the next one the browser sees.
LEMMA ReceiveInv ==
    ASSUME IInv, NEW b \in Browsers, Receive(b)
    PROVE  IInv'
  <1> DEFINE r == received[b]
             q == channel[b]
             x == Head(channel[b])
             r2 == Append(received[b], Head(channel[b]))
             q2 == Tail(channel[b])
  <1>1. /\ handler[b] = "serving" /\ q # << >>
        /\ received' = [received EXCEPT ![b] = r2] /\ channel' = [channel EXCEPT ![b] = q2]
        /\ UNCHANGED <<length, tail, broker, handler, published>>
    BY DEF Receive
  <1>2. /\ TailerInv' /\ UNCHANGED <<tailer, lastID, Message, fanout, clients>>
        /\ \A s \in Streams : Reached(s)' = Reached(s)
        /\ \A s \in Streams : Reached(s) <= Reached(s)' /\ Reached(s)' \in Int
    BY <1>1, TailerKept DEF tail, broker
  <1>3. channel = [c \in Browsers |-> channel[c]] /\ received = [c \in Browsers |-> received[c]]
    BY DEF IInv, Inductive, BrokerInv
  <1>4. /\ channel'[b] = q2 /\ received'[b] = r2
        /\ \A c \in Browsers \ {b} : channel'[c] = channel[c] /\ received'[c] = received[c]
    BY <1>1, <1>3
  <1>5. /\ r \in Seq(Messages) /\ q \in Seq(Messages)
        /\ \A i, j \in DOMAIN r : i < j => Before(r[i], r[j])
        /\ \A i, j \in DOMAIN q : i < j => Before(q[i], q[j])
        /\ \A i \in DOMAIN r, j \in DOMAIN q : Before(r[i], q[j])
        /\ \A i \in DOMAIN r : r[i].at <= Reached(r[i].stream)
        /\ \A i \in DOMAIN q : q[i].at <= Reached(q[i].stream)
        /\ b \in fanout => /\ \A i \in DOMAIN r : Before(r[i], Message)
                          /\ \A i \in DOMAIN q : Before(q[i], Message)
    BY DEF IInv, Inductive, BrowserInv, Behaved, Messages
  <1>6. /\ 1 \in DOMAIN q /\ x = q[1] /\ q2 \in Seq(Messages) /\ Len(q2) = Len(q) - 1
        /\ \A i \in DOMAIN q2 : i + 1 \in DOMAIN q /\ q2[i] = q[i + 1]
        /\ Len(q) \in Nat
    BY <1>1, <1>5, SeqFacts
  <1>7. x \in Messages
    BY <1>5, <1>6, InSeq
  <1>8. /\ r2 \in Seq(Messages) /\ DOMAIN r2 = DOMAIN r \cup {Len(r) + 1}
        /\ \A i \in DOMAIN r : r2[i] = r[i]
        /\ r2[Len(r) + 1] = x
        /\ DOMAIN r = 1..Len(r) /\ Len(r) \in Nat
    BY <1>5, <1>7, SeqFacts
  <1>9. DOMAIN q2 = 1..Len(q2) /\ Len(q2) \in Nat
    BY <1>6, SeqFacts
  <1> HIDE DEF r, q, x, r2, q2
  <1>10. \A i \in DOMAIN r2 : i \in DOMAIN r \/ (i = Len(r) + 1 /\ r2[i] = q[1])
    BY <1>6, <1>8
  <1>11. \A i, j \in DOMAIN r2 : i < j => Before(r2[i], r2[j])
    <2> SUFFICES ASSUME NEW i \in DOMAIN r2, NEW j \in DOMAIN r2, i < j
                 PROVE  Before(r2[i], r2[j])
      OBVIOUS
    <2>1. i \in DOMAIN r
      BY <1>8
    <2>2. CASE j \in DOMAIN r
      BY <1>5, <1>8, <2>1, <2>2
    <2>3. CASE j \notin DOMAIN r
      <3>1. r2[j] = q[1] /\ r2[i] = r[i]
        BY <1>8, <1>10, <2>1, <2>3
      <3>2. Before(r[i], q[1])
        BY <1>5, <1>6, <2>1
      <3> QED
        BY <3>1, <3>2
    <2> QED
      BY <2>2, <2>3
  <1>12. \A i, j \in DOMAIN q2 : i < j => Before(q2[i], q2[j])
    <2> SUFFICES ASSUME NEW i \in DOMAIN q2, NEW j \in DOMAIN q2, i < j
                 PROVE  Before(q2[i], q2[j])
      OBVIOUS
    <2>1. i + 1 < j + 1 /\ i + 1 \in DOMAIN q /\ j + 1 \in DOMAIN q
      BY <1>6, <1>9
    <2> QED
      BY <1>5, <1>6, <2>1
  <1>13. \A i \in DOMAIN r2, j \in DOMAIN q2 : Before(r2[i], q2[j])
    <2> SUFFICES ASSUME NEW i \in DOMAIN r2, NEW j \in DOMAIN q2
                 PROVE  Before(r2[i], q2[j])
      OBVIOUS
    <2>1. j + 1 \in DOMAIN q /\ q2[j] = q[j + 1] /\ 1 < j + 1
      BY <1>6, <1>9
    <2>2. CASE i \in DOMAIN r
      BY <1>5, <1>8, <2>1, <2>2
    <2>3. CASE i \notin DOMAIN r
      <3>1. r2[i] = q[1]
        BY <1>10, <2>3
      <3> QED
        BY <1>5, <1>6, <2>1, <3>1
    <2> QED
      BY <2>2, <2>3
  <1>14. \A i \in DOMAIN r2 : r2[i].at <= Reached(r2[i].stream)
    BY <1>5, <1>6, <1>8, <1>10
  <1>15. \A i \in DOMAIN q2 : q2[i].at <= Reached(q2[i].stream)
    BY <1>5, <1>6
  <1>16. \A i \in DOMAIN r2 : Reached(received[b][i].stream)' = Reached(r2[i].stream)
    <2> TAKE i \in DOMAIN r2
    <2>1. r2[i].stream \in Streams /\ received'[b][i].stream = r2[i].stream
      BY <1>4, <1>8, MessageFields
    <2> QED
      BY <1>2, <2>1
  <1>17. \A i \in DOMAIN q2 : Reached(channel[b][i].stream)' = Reached(q2[i].stream)
    <2> TAKE i \in DOMAIN q2
    <2>1. q2[i].stream \in Streams /\ channel'[b][i].stream = q2[i].stream
      BY <1>4, <1>6, MessageFields
    <2> QED
      BY <1>2, <2>1
  <1>18. b \in fanout => /\ \A i \in DOMAIN r2 : Before(r2[i], Message)
                         /\ \A i \in DOMAIN q2 : Before(q2[i], Message)
    BY <1>5, <1>6, <1>8, <1>10
  <1>19. Behaved(b)'
    <2>1. /\ \A i \in DOMAIN r2 : r2[i].at <= Reached(received[b][i].stream)'
          /\ \A i \in DOMAIN q2 : q2[i].at <= Reached(channel[b][i].stream)'
      BY <1>14, <1>15, <1>16, <1>17
    <2>2. Message' = Message /\ fanout' = fanout
      BY <1>2
    <2> QED
      BY <1>4, <1>6, <1>8, <1>11, <1>12, <1>13, <1>18, <2>1, <2>2 DEF Behaved, Messages, Before
  <1>20. BrowserInv'
    <2>1. ASSUME NEW c \in Browsers \ {b}
          PROVE  Behaved(c)'
      BY <1>2, <1>4, BehavedKept
    <2> QED
      BY <1>19, <2>1 DEF BrowserInv
  <1>21. TypeOK'
    <2>1. \A c \in Browsers : Len(channel'[c]) <= Capacity
      <3>1. Len(q2) <= Capacity
        <4>1. Len(q) <= Capacity
          BY DEF IInv, TypeOK, q
        <4> QED
          BY <1>6, <4>1, GatewayAssumption
      <3> QED
        BY <1>4, <3>1 DEF IInv, TypeOK
    <2> QED
      BY <1>1, <2>1 DEF IInv, TypeOK, tail, broker
  <1>22. PublishedInv'
    BY <1>1, <1>2 DEF IInv, Inductive, PublishedInv
  <1>23. BrokerInv'
    <2>1. channel' = [c \in Browsers |-> channel'[c]] /\ received' = [c \in Browsers |-> received'[c]]
      BY <1>1, <1>3
    <2> QED
      BY <1>1, <1>2, <2>1 DEF IInv, Inductive, BrokerInv
  <1> QED
    BY <1>2, <1>20, <1>21, <1>22, <1>23 DEF IInv, Inductive

\* The connection ends; the channel stays in the map until the unsubscribe.
LEMMA DisconnectInv ==
    ASSUME IInv, NEW b \in Browsers, Disconnect(b)
    PROVE  IInv'
  <1>1. /\ handler[b] = "serving" /\ handler' = [handler EXCEPT ![b] = "leaving"]
        /\ UNCHANGED <<length, tail, broker, channel, received, published>>
    BY DEF Disconnect
  <1>2. /\ TailerInv' /\ UNCHANGED <<tailer, lastID, Message, fanout, clients>>
        /\ \A s \in Streams : Reached(s) <= Reached(s)' /\ Reached(s)' \in Int
    BY <1>1, TailerKept DEF tail, broker
  <1>3. BrowserInv'
    BY <1>1, <1>2, BrowsersKept
  <1>4. TypeOK'
    BY <1>1 DEF IInv, TypeOK, tail, broker
  <1>5. PublishedInv'
    BY <1>1, <1>2 DEF IInv, Inductive, PublishedInv
  <1>6. BrokerInv'
    BY <1>1, <1>2 DEF IInv, Inductive, BrokerInv
  <1> QED
    BY <1>2, <1>3, <1>4, <1>5, <1>6 DEF IInv, Inductive

\* A restarted gateway starts behind everything it ever forwarded.
LEMMA RestartInv ==
    ASSUME IInv, Restart
    PROVE  IInv'
  <1>1. /\ lastID' = [s \in Streams |-> Dollar] /\ start' = [s \in Streams |-> 0]
        /\ tailer' = "call" /\ fanout' = {} /\ clients' = {}
        /\ channel' = [b \in Browsers |-> << >>] /\ handler' = [b \in Browsers |-> "off"]
        /\ published' = [s \in Streams |-> {}]
        /\ UNCHANGED <<length, received>>
    BY DEF Restart
  <1>2. \A s \in Streams : Reached(s) <= Reached(s)' /\ Reached(s)' \in Int
    <2> TAKE s \in Streams
    <2>1. Reached(s)' = length[s]
      BY <1>1 DEF Reached
    <2> QED
      BY <2>1, ReachedType
  <1>3. BrowserInv'
    <2> SUFFICES ASSUME NEW b \in Browsers
                 PROVE  Behaved(b)'
      BY DEF BrowserInv
    <2> QED
      BY <1>1, <1>2, EmptyBehaved
  <1>4. TypeOK'
    BY <1>1, GatewayAssumption DEF IInv, TypeOK
  <1>5. TailerInv'
    BY <1>1 DEF IInv, Inductive, TailerInv
  <1>6. PublishedInv'
    BY <1>1 DEF PublishedInv
  <1>7. BrokerInv'
    BY <1>1 DEF IInv, Inductive, BrokerInv
  <1> QED
    BY <1>3, <1>4, <1>5, <1>6, <1>7 DEF IInv, Inductive

\* Nothing happens.
LEMMA StutterInv == IInv /\ UNCHANGED vars => IInv'
  <1> SUFFICES ASSUME IInv, UNCHANGED vars
               PROVE  IInv'
    OBVIOUS
  <1>1. UNCHANGED <<length, tail, broker, channel, handler, received, published>>
    BY DEF vars, browser
  <1>2. /\ TailerInv' /\ UNCHANGED <<tailer, lastID, Message, fanout, clients>>
        /\ \A s \in Streams : Reached(s) <= Reached(s)' /\ Reached(s)' \in Int
    BY <1>1, TailerKept DEF tail, broker
  <1>3. BrowserInv'
    BY <1>1, <1>2, BrowsersKept
  <1>4. TypeOK'
    BY <1>1 DEF IInv, TypeOK, tail, broker
  <1>5. PublishedInv' /\ BrokerInv'
    BY <1>1, <1>2 DEF IInv, Inductive, PublishedInv, BrokerInv
  <1> QED
    BY <1>2, <1>3, <1>4, <1>5 DEF IInv, Inductive

-----------------------------------------------------------------------------
(* Theorems *)

\* In every reachable state the tailer reads on from what it forwarded, and
\* every browser is behind it, in order (stream.go, broker.go, sse.go).
THEOREM Correct == Spec => []IInv
  <1>1. Init => IInv
    BY InitInv
  <1>2. IInv /\ [Next]_vars => IInv'
    <2> SUFFICES ASSUME IInv, [Next]_vars
                 PROVE  IInv'
      OBVIOUS
    <2>1. CASE \E s \in Streams : Produce(s)
      BY <2>1, ProduceInv
    <2>2. CASE TailerStep \/ ReturnNothing
      BY <2>2, CallInv, ReturnInv, ForwardInv, PublishedStep, SendInv, ReturnNothingInv
         DEF TailerStep
    <2>3. CASE \E b \in Browsers : Subscribe(b) \/ Receive(b) \/ Disconnect(b) \/ Unsubscribe(b)
      BY <2>3, SubscribeInv, ReceiveInv, DisconnectInv, UnsubscribeInv
    <2>4. CASE Restart
      BY <2>4, RestartInv
    <2>5. CASE UNCHANGED vars
      BY <2>5, StutterInv
    <2> QED
      BY <2>1, <2>2, <2>3, <2>4, <2>5 DEF Next
  <1> QED
    BY <1>1, <1>2, PTL DEF Spec

\* Positions, maps and channels keep their shapes, channels their capacity
\* (clientBuffer of broker.go).
THEOREM TypeCorrect == Spec => []TypeOK
  <1>1. IInv => TypeOK
    BY DEF IInv
  <1> QED
    BY <1>1, Correct, PTL

\* publish never sends on a channel that unsubscribe has closed, for any number
\* of handlers that come and go: the broker's lock keeps both apart (broker.go).
THEOREM OpenChannels == Spec => []SendsOnOpenChannels
  <1>1. IInv => SendsOnOpenChannels
    BY DEF IInv, TypeOK, Inductive, BrokerInv, SendsOnOpenChannels
  <1> QED
    BY <1>1, Correct, PTL

\* From its first entry of a stream on, the tailer fans out every entry, over
\* failed and empty reads and replies of any size (streamTailer.run).
THEOREM NoGap == Spec => []NoGapOnceStarted
  <1>1. IInv => NoGapOnceStarted
    <2> SUFFICES ASSUME IInv, NEW s \in Streams, NEW i \in published[s], NEW j \in published[s]
                 PROVE  i..j \subseteq published[s]
      BY DEF NoGapOnceStarted
    <2>1. /\ i \in Nat /\ j \in Nat /\ i <= lastID[s] /\ j <= lastID[s]
          /\ i..lastID[s] \subseteq published[s]
      BY DEF IInv, Inductive, PublishedInv
    <2>2. lastID[s] \in Int
      BY DEF IInv, Inductive, TailerInv, Dollar
    <2>3. i..j \subseteq i..lastID[s]
      BY <2>1, <2>2
    <2> QED
      BY <2>1, <2>3
  <1> QED
    BY <1>1, Correct, PTL

\* Every browser sees the entries of a stream in their order and none twice,
\* however its channel overflows, it reconnects or the gateway restarts.
THEOREM StreamsInOrder == Spec => []InOrder
  <1>1. IInv => InOrder
    BY DEF IInv, Inductive, BrowserInv, Behaved, Before, InOrder
  <1> QED
    BY <1>1, Correct, PTL

=============================================================================
