------------------------------- MODULE Gateway -------------------------------
(***************************************************************************)
(* The gateway's realtime feed: streamTailer.run (stream.go), the Broker   *)
(* (broker.go) and one sseHandler goroutine per browser (sse.go).          *)
(*                                                                         *)
(* One tailer goroutine issues blocking XREADs over all streams and fans   *)
(* every entry out under the broker's read lock; subscribe and unsubscribe *)
(* take the write lock.  Handlers read their buffered channel.  An action  *)
(* is one Redis command, one channel operation or one critical section.    *)
(*                                                                         *)
(* A message is [stream, at], at its position on the stream; a reply is    *)
(* one record per stream, [stream, next, last], with the messages of it    *)
(* that the loop has yet to forward.  External: Redis resolves "$" to a    *)
(* stream's last entry when it receives the XREAD.                         *)
(* Bounded: entries by MaxEntries, connections of a browser and gateway    *)
(* restarts by MaxConnects and MaxRestarts.                                *)
(***************************************************************************)
EXTENDS Integers, Sequences, FiniteSets

LOCAL INSTANCE FiniteSetsExt

CONSTANTS Streams,      \* the tailed streams (market.ticks, risk.updates)
          Browsers,     \* EventSource clients
          Capacity,     \* of a client's channel (128)
          Count,        \* of one XREAD, per stream (128)
          MaxEntries, MaxConnects, MaxRestarts

ASSUME GatewayAssumption ==
    /\ {Capacity, Count} \subseteq Nat \ {0}
    /\ {MaxEntries, MaxConnects, MaxRestarts} \subseteq Nat
    /\ IsFiniteSet(Streams) /\ IsFiniteSet(Browsers)

VARIABLES length,                        \* of each stream
          lastID, start, tailer, batch,  \* the tailer
          fanout,                        \* clients Broker.publish has yet to serve
          clients, channel, handler,     \* the broker's map, the channels, the handlers
          received, connects, restarts,
          published                      \* history: entries fanned out since the gateway started

tail == <<lastID, start, tailer, batch>>
broker == <<fanout, clients>>
browser == <<channel, handler, received, connects>>
vars == <<length, tail, broker, browser, restarts, published>>

Dollar == -1

Init ==
    /\ length = [s \in Streams |-> 0]
    /\ lastID = [s \in Streams |-> Dollar]
    /\ start = [s \in Streams |-> 0]
    /\ tailer = "call" /\ batch = << >>
    /\ fanout = {} /\ clients = {}
    /\ channel = [b \in Browsers |-> << >>]
    /\ handler = [b \in Browsers |-> "off"]
    /\ received = [b \in Browsers |-> << >>]
    /\ connects = [b \in Browsers |-> 0]
    /\ restarts = 0
    /\ published = [s \in Streams |-> {}]

\* A producer appends to a stream.
Produce(s) ==
    /\ MapThenSumSet(LAMBDA t : length[t], Streams) < MaxEntries
    /\ length' = [length EXCEPT ![s] = @ + 1]
    /\ UNCHANGED <<tail, broker, browser, restarts, published>>

-----------------------------------------------------------------------------
(* streamTailer.run *)

\* Mutated form: every call starts from "$".
CallFromDollar ==
    /\ tailer = "call"
    /\ start' = length
    /\ tailer' = "blocked"
    /\ UNCHANGED <<length, lastID, batch, broker, browser, restarts, published>>

\* The XREAD reaches Redis, which turns each "$" into the stream's end.
Call ==
    /\ tailer = "call"
    /\ start' = [s \in Streams |-> IF lastID[s] = Dollar THEN length[s] ELSE lastID[s]]
    /\ tailer' = "blocked"
    /\ UNCHANGED <<length, lastID, batch, broker, browser, restarts, published>>

\* XREAD: the next entries of a stream, Count at most.
Entries(s) ==
    [stream |-> s, next |-> start[s] + 1,
     last |-> IF length[s] - start[s] < Count THEN length[s] ELSE start[s] + Count]

\* A set in any order.
Orders(S) == {q \in [1..Cardinality(S) -> S] : \A i, j \in DOMAIN q : q[i] = q[j] => i = j}

\* The reply: of all streams with new entries, or of the one that woke the
\* blocked call up.
Return ==
    /\ tailer = "blocked"
    /\ \E woken \in SUBSET {s \in Streams : length[s] > start[s]} :
        /\ woken # {}
        /\ \E order \in Orders(woken) :
            batch' = [i \in DOMAIN order |-> Entries(order[i])]
    /\ tailer' = "forward"
    /\ UNCHANGED <<length, lastID, start, broker, browser, restarts, published>>

\* Nothing for five seconds (redis.Nil), or an error and a second's sleep.
ReturnNothing ==
    /\ tailer = "blocked"
    /\ tailer' = "call"
    /\ UNCHANGED <<length, lastID, start, batch, broker, browser, restarts, published>>

\* The next entry of the reply: lastID moves, then publish takes the read lock.
\* An entry without the field "event", of which nothing is published, is left
\* out: both producers write it always.
Message == [stream |-> Head(batch).stream, at |-> Head(batch).next]

Forward ==
    /\ tailer = "forward"
    /\ lastID' = [lastID EXCEPT ![Message.stream] = Message.at]
    /\ published' = [published EXCEPT ![Message.stream] = @ \cup {Message.at}]
    /\ fanout' = clients
    /\ tailer' = "publish"
    /\ UNCHANGED <<length, start, batch, clients, browser, restarts>>

\* Mutated forms: the channel is not bounded; the send blocks.
SendUnbounded(b) ==
    /\ tailer = "publish"
    /\ b \in fanout
    /\ fanout' = fanout \ {b}
    /\ channel' = [channel EXCEPT ![b] = Append(@, Message)]
    /\ UNCHANGED <<length, tail, clients, handler, received, connects, restarts, published>>

SendBlocks(b) ==
    /\ tailer = "publish"
    /\ b \in fanout
    /\ Len(channel[b]) < Capacity
    /\ fanout' = fanout \ {b}
    /\ channel' = [channel EXCEPT ![b] = Append(@, Message)]
    /\ UNCHANGED <<length, tail, clients, handler, received, connects, restarts, published>>

\* One client of Broker.publish: a full channel loses the message.
Send(b) ==
    /\ tailer = "publish"
    /\ b \in fanout
    /\ fanout' = fanout \ {b}
    /\ channel' = IF Len(channel[b]) < Capacity
                  THEN [channel EXCEPT ![b] = Append(@, Message)] ELSE channel
    /\ UNCHANGED <<length, tail, clients, handler, received, connects, restarts, published>>

\* The reply without the message forwarded last.
Rest ==
    IF Head(batch).next = Head(batch).last THEN Tail(batch)
    ELSE [batch EXCEPT ![1].next = @ + 1]

\* RUnlock, and back to the loop.
Published ==
    /\ tailer = "publish"
    /\ fanout = {}
    /\ batch' = Rest
    /\ tailer' = IF Rest = << >> THEN "call" ELSE "forward"
    /\ UNCHANGED <<length, lastID, start, broker, browser, restarts, published>>

-----------------------------------------------------------------------------
(* sseHandler and the broker's map *)

\* Mutated form: unsubscribe takes no lock.
NoLock == TRUE

Unlocked == tailer # "publish"

\* subscribe: a fresh channel under the write lock.
Subscribe(b) ==
    /\ handler[b] = "off"
    /\ connects[b] < MaxConnects
    /\ Unlocked
    /\ connects' = [connects EXCEPT ![b] = @ + 1]
    /\ clients' = clients \cup {b}
    /\ channel' = [channel EXCEPT ![b] = << >>]
    /\ handler' = [handler EXCEPT ![b] = "serving"]
    /\ UNCHANGED <<length, tail, fanout, received, restarts, published>>

\* A message leaves the channel and is written and flushed.
Receive(b) ==
    /\ handler[b] = "serving"
    /\ channel[b] # << >>
    /\ received' = [received EXCEPT ![b] = Append(@, Head(channel[b]))]
    /\ channel' = [channel EXCEPT ![b] = Tail(@)]
    /\ UNCHANGED <<length, tail, broker, handler, connects, restarts, published>>

\* The request's context ends: what is left in the channel is not written.
Disconnect(b) ==
    /\ handler[b] = "serving"
    /\ handler' = [handler EXCEPT ![b] = "leaving"]
    /\ UNCHANGED <<length, tail, broker, channel, received, connects, restarts, published>>

\* The deferred unsubscribe: delete and close under the write lock.
Unsubscribe(b) ==
    /\ handler[b] = "leaving"
    /\ Unlocked
    /\ clients' = clients \ {b}
    /\ channel' = [channel EXCEPT ![b] = << >>]
    /\ handler' = [handler EXCEPT ![b] = "off"]
    /\ UNCHANGED <<length, tail, fanout, received, connects, restarts, published>>

\* Mutated form: a restarted gateway reads its streams from the beginning.
RestartFromZero ==
    /\ restarts < MaxRestarts
    /\ restarts' = restarts + 1
    /\ lastID' = [s \in Streams |-> 0]
    /\ start' = [s \in Streams |-> 0]
    /\ tailer' = "call" /\ batch' = << >>
    /\ fanout' = {} /\ clients' = {}
    /\ channel' = [b \in Browsers |-> << >>]
    /\ handler' = [b \in Browsers |-> "off"]
    /\ published' = [s \in Streams |-> {}]
    /\ UNCHANGED <<length, received, connects>>

\* The process ends with all connections and comes back with "$".
Restart ==
    /\ restarts < MaxRestarts
    /\ restarts' = restarts + 1
    /\ lastID' = [s \in Streams |-> Dollar]
    /\ start' = [s \in Streams |-> 0]
    /\ tailer' = "call" /\ batch' = << >>
    /\ fanout' = {} /\ clients' = {}
    /\ channel' = [b \in Browsers |-> << >>]
    /\ handler' = [b \in Browsers |-> "off"]
    /\ published' = [s \in Streams |-> {}]
    /\ UNCHANGED <<length, received, connects>>

TailerStep == Call \/ Return \/ Forward \/ Published \/ \E b \in Browsers : Send(b)

Next ==
    \/ \E s \in Streams : Produce(s)
    \/ TailerStep \/ ReturnNothing
    \/ \E b \in Browsers : Subscribe(b) \/ Receive(b) \/ Disconnect(b) \/ Unsubscribe(b)
    \/ Restart

Spec == Init /\ [][Next]_vars

\* The tailer goroutine keeps running, and Redis answers a read it can answer
\* again and again.  Browsers owe nothing: a stalled one never reads.
FairSpec == Spec /\ WF_vars(TailerStep) /\ SF_vars(Return)

-----------------------------------------------------------------------------
(* Properties *)

\* The maps and channels keep the shapes above, channels their capacity.
TypeOK ==
    /\ \A s \in Streams : lastID[s] \in {Dollar} \cup 0..length[s]
    /\ clients \subseteq Browsers /\ fanout \subseteq clients
    /\ \A b \in Browsers : Len(channel[b]) <= Capacity
    /\ tailer \in {"call", "blocked", "forward", "publish"}
    /\ tailer \in {"forward", "publish"} => batch # << >>

\* publish only ever sends on open channels: a handler closes its channel
\* while nobody is between the lock and the send (a send on a closed channel
\* would panic the gateway).
SendsOnOpenChannels == \A b \in fanout : handler[b] \in {"serving", "leaving"}

\* A browser sees each stream in order and no entry twice, over reconnects,
\* failed reads and gateway restarts, whatever it misses in between.
InOrder ==
    \A b \in Browsers : \A i, j \in DOMAIN received[b] :
        i < j /\ received[b][i].stream = received[b][j].stream
            => received[b][i].at < received[b][j].at

\* From the first entry it forwards of a stream, the tailer skips none.
NoGapOnceStarted ==
    \A s \in Streams : \A i, j \in published[s] : i..j \subseteq published[s]

\* A stalled browser stalls nobody: once the tailer has a position on a
\* stream, every later entry is fanned out, unless the gateway restarts.
FeedGoesOn ==
    \A s \in Streams : \A i \in 1..MaxEntries :
        (lastID[s] # Dollar /\ lastID[s] < i /\ i <= length[s])
            ~> (i \in published[s] \/ lastID[s] = Dollar)

=============================================================================
