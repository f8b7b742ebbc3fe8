--------------------------- MODULE OutboxRelayProofs ---------------------------
(***************************************************************************)
(* Theorems about OutboxRelay, for every set of events and relays, batch   *)
(* size and number of faults.                                              *)
(***************************************************************************)
EXTENDS OutboxRelay, FiniteSetTheorems, TLAPS

-----------------------------------------------------------------------------
(* What the shapes give *)

\* A list of findUnsent holds unsent rows, one at least if there is one.
LEMMA OldestUnsentType ==
    ASSUME RelayAssumption, NEW s \in OldestUnsent(BatchSize), Unsent # {}
    PROVE  /\ s \in Seq(Unsent)
           /\ s # << >>
           /\ DOMAIN s = 1..Len(s)
           /\ \A i \in DOMAIN s : s[i] \in Unsent
PROOF
<1> DEFINE size == IF Cardinality(Unsent) < BatchSize THEN Cardinality(Unsent) ELSE BatchSize
<1>1. Cardinality(Unsent) \in Nat /\ Cardinality(Unsent) # 0
    <2>1. IsFiniteSet(Unsent)
        BY FS_Subset DEF RelayAssumption, Unsent
    <2> QED BY <2>1, FS_CardinalityType, FS_EmptySet
<1>2. size \in Nat \ {0}
    BY <1>1 DEF RelayAssumption
<1>3. s \in [1..size -> Unsent]
    BY DEF OldestUnsent
<1> HIDE DEF size
<1>4. s \in Seq(Unsent) /\ Len(s) = size /\ DOMAIN s = 1..size
    BY <1>2, <1>3
<1> QED BY <1>2, <1>3, <1>4

\* A row that findUnsent lists comes after every older unsent row.
LEMMA OldestUnsentOrder ==
    ASSUME RelayAssumption, TypeOK, NEW s \in OldestUnsent(BatchSize), Unsent # {},
           NEW e \in Unsent, NEW j \in DOMAIN s, created[e] < created[s[j]]
    PROVE  \E i \in 1..(j - 1) : s[i] = e
PROOF
<1> DEFINE size == IF Cardinality(Unsent) < BatchSize THEN Cardinality(Unsent) ELSE BatchSize
<1>1. /\ s \in [1..size -> Unsent]
      /\ \A i, k \in 1..size : i < k => created[s[i]] <= created[s[k]]
      /\ \A f \in Unsent, k \in 1..size :
            created[f] < created[s[k]] => \E i \in 1..size : s[i] = f
    BY DEF OldestUnsent
<1>s. size \in Nat
    <2>1. IsFiniteSet(Unsent)
        BY FS_Subset DEF RelayAssumption, Unsent
    <2> QED BY <2>1, FS_CardinalityType DEF RelayAssumption
<1> HIDE DEF size
<1>2. j \in 1..size
    BY <1>1
<1>3. PICK i \in 1..size : s[i] = e
    BY <1>1, <1>2
<1>4. created[e] \in Nat /\ created[s[j]] \in Nat
    <2>1. Unsent \subseteq Events /\ s[j] \in Unsent
        BY <1>1, <1>2 DEF Unsent
    <2> QED BY <2>1 DEF TypeOK, RelayAssumption
<1>5. i < j
    <2>1. CASE j < i
        <3>1. created[s[j]] <= created[s[i]]
            BY <2>1, <1>1, <1>2, <1>3
        <3> QED BY <3>1, <1>3, <1>4
    <2>2. CASE i = j
        BY <2>2, <1>3, <1>4
    <2> QED BY <2>1, <2>2, <1>2, <1>3, <1>s
<1> QED BY <1>2, <1>3, <1>5, <1>s

\* A busy relay has a first row, and the rest of its batch is a shorter batch.
LEMMA HeadTail ==
    ASSUME TypeOK, NEW r \in Relays, pc[r] # "idle"
    PROVE  /\ batch[r] \in Seq(Events) /\ Len(batch[r]) \in Nat \ {0}
           /\ DOMAIN batch[r] = 1..Len(batch[r])
           /\ Head(batch[r]) \in Events /\ Head(batch[r]) = batch[r][1]
           /\ Tail(batch[r]) \in Seq(Events)
           /\ Len(batch[r]) # 1 => Tail(batch[r]) # << >>
           /\ DOMAIN Tail(batch[r]) = 1..(Len(batch[r]) - 1)
           /\ \A i \in 1..(Len(batch[r]) - 1) : Tail(batch[r])[i] = batch[r][i + 1]
PROOF
<1> DEFINE b == batch[r]
<1>1. b \in Seq(Events) /\ b # << >>
    BY DEF TypeOK
<1> HIDE DEF b
<1>2. Len(b) \in Nat \ {0} /\ DOMAIN b = 1..Len(b)
    BY <1>1
<1>3. Head(b) = b[1] /\ b[1] \in Events
    BY <1>1, <1>2
<1>4. Tail(b) \in Seq(Events) /\ Len(Tail(b)) = Len(b) - 1
    BY <1>1, <1>2
<1>5. DOMAIN Tail(b) = 1..(Len(b) - 1)
    BY <1>2, <1>4
<1>6. \A i \in 1..(Len(b) - 1) : Tail(b)[i] = b[i + 1]
    BY <1>1, <1>2
<1>7. Len(b) # 1 => Tail(b) # << >>
    <2>1. Len(<< >>) = 0
        OBVIOUS
    <2>2. Len(b) # 1 => Len(Tail(b)) # 0
        BY <1>2, <1>4
    <2> QED BY <2>1, <2>2
<1> QED BY <1>1, <1>2, <1>3, <1>4, <1>5, <1>6, <1>7 DEF b

\* Appending publishes the entry and keeps what was published.
LEMMA AppendPublishes ==
    ASSUME stream \in Seq(Events), NEW e \in Events, stream' = Append(stream, e)
    PROVE  /\ stream' \in Seq(Events)
           /\ stream'[Len(stream')] = e
           /\ Published(e)'
           /\ \A f : Published(f) => Published(f)'
           /\ \A i \in DOMAIN stream' : stream'[i] = e \/ \E k \in DOMAIN stream : stream'[i] = stream[k]
PROOF
<1>1. /\ Len(stream') = Len(stream) + 1 /\ Len(stream) \in Nat
      /\ DOMAIN stream' = 1..(Len(stream) + 1) /\ DOMAIN stream = 1..Len(stream)
      /\ stream'[Len(stream) + 1] = e
      /\ \A i \in 1..Len(stream) : stream'[i] = stream[i]
      /\ stream' \in Seq(Events)
    OBVIOUS
<1>2. Published(e)'
    BY <1>1 DEF Published
<1>3. ASSUME NEW f, Published(f) PROVE Published(f)'
    BY <1>1, <1>3 DEF Published
<1>4. ASSUME NEW i \in DOMAIN stream'
      PROVE  stream'[i] = e \/ \E k \in DOMAIN stream : stream'[i] = stream[k]
    <2>1. CASE i = Len(stream) + 1
        BY <2>1, <1>1
    <2>2. CASE i \in 1..Len(stream)
        BY <2>2, <1>1
    <2> QED BY <2>1, <2>2, <1>1
<1> QED BY <1>1, <1>2, <1>3, <1>4

-----------------------------------------------------------------------------
(* Type correctness *)

\* The initial state has the shapes.
LEMMA InitType == ASSUME RelayAssumption, Init PROVE TypeOK
PROOF
<1>1. /\ clock \in 0..MaxClock /\ created \in [Events -> 0..MaxClock]
      /\ faults \in 0..MaxFaults
    BY DEF Init, RelayAssumption
<1>2. /\ row \in [Events -> {"none", "open", "aborted", "unsent", "sent"}]
      /\ enabled \in [Relays -> BOOLEAN]
      /\ pc \in [Relays -> {"idle", "publish", "mark"}]
      /\ seen \in [Relays -> SUBSET Events]
      /\ \A r \in Relays : pc[r] = "idle"
    BY DEF Init
<1>3. stream \in Seq(Events) /\ batch \in [Relays -> Seq(Events)]
    BY DEF Init
<1> QED BY <1>1, <1>2, <1>3 DEF TypeOK

\* Posting transactions keep the shapes.
LEMMA RowType ==
    ASSUME RelayAssumption, TypeOK,
           Tick \/ \E e \in Events : Stamp(e) \/ CommitRow(e) \/ AbortRow(e)
    PROVE  TypeOK'
PROOF
<1>1. UNCHANGED <<stream, enabled, pc, batch, seen, faults>>
    BY DEF Tick, Stamp, CommitRow, AbortRow, relay
<1>2. clock' \in 0..MaxClock
    BY DEF Tick, Stamp, CommitRow, AbortRow, TypeOK, RelayAssumption
<1>3. created' \in [Events -> 0..MaxClock]
    BY DEF Tick, Stamp, CommitRow, AbortRow, TypeOK
<1>4. row' \in [Events -> {"none", "open", "aborted", "unsent", "sent"}]
    BY DEF Tick, Stamp, CommitRow, AbortRow, TypeOK
<1> QED BY <1>1, <1>2, <1>3, <1>4 DEF TypeOK

\* A faulty step counts once and stays within its bound.
LEMMA FaultType == ASSUME RelayAssumption, TypeOK, Fault PROVE faults' \in 0..MaxFaults
BY DEF Fault, TypeOK, RelayAssumption

\* A relay that goes back to idle with an empty batch has its shape.
LEMMA EndCycleType ==
    ASSUME TypeOK, NEW r \in Relays, EndCycle(r)
    PROVE  /\ pc' \in [Relays -> {"idle", "publish", "mark"}]
           /\ batch' \in [Relays -> Seq(Events)]
           /\ \A q \in Relays : pc'[q] # "idle" => batch'[q] # << >>
PROOF
<1>1. << >> \in Seq(Events)
    OBVIOUS
<1>2. batch' \in [Relays -> Seq(Events)]
    BY <1>1 DEF EndCycle, TypeOK
<1>3. pc' \in [Relays -> {"idle", "publish", "mark"}]
    BY DEF EndCycle, TypeOK
<1>4. \A q \in Relays : pc'[q] # "idle" => batch'[q] # << >>
    BY DEF EndCycle, TypeOK
<1> QED BY <1>2, <1>3, <1>4

\* Reading a batch keeps the shapes.
LEMMA PollType ==
    ASSUME RelayAssumption, TypeOK, NEW r \in Relays, Poll(r)
    PROVE  TypeOK'
PROOF
<1>1. PICK s \in OldestUnsent(BatchSize) : batch' = [batch EXCEPT ![r] = s]
    BY DEF Poll
<1>2. s \in Seq(Events) /\ s # << >>
    <2>1. s \in Seq(Unsent) /\ s # << >>
        BY OldestUnsentType DEF Poll
    <2>2. Seq(Unsent) \subseteq Seq(Events)
        BY DEF Unsent
    <2> QED BY <2>1, <2>2
<1>3. batch' \in [Relays -> Seq(Events)]
    BY <1>1, <1>2 DEF TypeOK
<1>4. pc' \in [Relays -> {"idle", "publish", "mark"}]
    BY DEF Poll, TypeOK
<1>5. seen' \in [Relays -> SUBSET Events]
    BY DEF Poll, TypeOK, Committed
<1>6. \A q \in Relays : pc'[q] # "idle" => batch'[q] # << >>
    BY <1>1, <1>2 DEF Poll, TypeOK
<1>7. UNCHANGED <<clock, created, row, stream, enabled, faults>>
    BY DEF Poll, outbox
<1> QED BY <1>3, <1>4, <1>5, <1>6, <1>7 DEF TypeOK

\* Publishing, with or without the exception, keeps the shapes.
LEMMA PublishType ==
    ASSUME RelayAssumption, TypeOK, NEW r \in Relays, Publish(r) \/ PublishFails(r)
    PROVE  TypeOK'
PROOF
<1>1. pc[r] = "publish"
    BY DEF Publish, PublishFails
<1>2. stream' \in Seq(Events)
    <2>1. Append(stream, Head(batch[r])) \in Seq(Events)
        BY <1>1, HeadTail DEF TypeOK
    <2> QED BY <2>1 DEF Publish, PublishFails, TypeOK
<1>3. CASE Publish(r)
    <2>1. pc' \in [Relays -> {"idle", "publish", "mark"}]
        BY <1>3 DEF Publish, TypeOK
    <2>2. \A q \in Relays : pc'[q] # "idle" => batch'[q] # << >>
        BY <1>3 DEF Publish, TypeOK
    <2> QED BY <1>2, <1>3, <2>1, <2>2 DEF Publish, TypeOK, outbox
<1>4. CASE PublishFails(r)
    <2>1. faults' \in 0..MaxFaults
        BY <1>4, FaultType DEF PublishFails
    <2>2. UNCHANGED <<clock, created, row, enabled, seen>>
        BY <1>4 DEF PublishFails, outbox
    <2> QED BY <1>2, <1>4, <2>1, <2>2, EndCycleType DEF PublishFails, TypeOK
<1> QED BY <1>3, <1>4

\* Marking keeps the shapes.
LEMMA MarkType ==
    ASSUME RelayAssumption, TypeOK, NEW r \in Relays, Mark(r)
    PROVE  TypeOK'
PROOF
<1>1. pc[r] = "mark"
    BY DEF Mark
<1>2. batch' \in [Relays -> Seq(Events)]
    BY <1>1, HeadTail DEF Mark, TypeOK
<1>3. pc' \in [Relays -> {"idle", "publish", "mark"}]
    BY DEF Mark, TypeOK
<1>4. row' \in [Events -> {"none", "open", "aborted", "unsent", "sent"}]
    BY DEF Mark, TypeOK
<1>5. \A q \in Relays : pc'[q] # "idle" => batch'[q] # << >>
    <2> SUFFICES ASSUME NEW q \in Relays, pc'[q] # "idle" PROVE batch'[q] # << >>
        OBVIOUS
    <2>1. CASE q = r
        BY <2>1, <1>1, HeadTail DEF Mark, TypeOK
    <2>2. CASE q # r
        BY <2>2 DEF Mark, TypeOK
    <2> QED BY <2>1, <2>2
<1> QED BY <1>2, <1>3, <1>4, <1>5 DEF Mark, TypeOK

\* A failed mark and a restart keep the shapes.
LEMMA StopType ==
    ASSUME RelayAssumption, TypeOK, NEW r \in Relays, MarkFails(r) \/ Restart(r)
    PROVE  TypeOK'
PROOF
<1>1. faults' \in 0..MaxFaults
    BY FaultType DEF MarkFails, Restart
<1>2. UNCHANGED <<clock, created, row, stream, seen>>
    BY DEF MarkFails, Restart, outbox
<1>3. enabled' \in [Relays -> BOOLEAN]
    BY DEF MarkFails, Restart, TypeOK
<1>4. EndCycle(r)
    BY DEF MarkFails, Restart
<1> QED BY <1>1, <1>2, <1>3, <1>4, EndCycleType DEF TypeOK

\* Every step keeps the shapes.
LEMMA NextType == ASSUME RelayAssumption, TypeOK, [Next]_vars PROVE TypeOK'
PROOF
<1>1. CASE Tick \/ \E e \in Events : Stamp(e) \/ CommitRow(e) \/ AbortRow(e)
    BY <1>1, RowType
<1>2. ASSUME NEW r \in Relays,
             RelayStep(r) \/ PublishFails(r) \/ MarkFails(r) \/ Restart(r)
      PROVE  TypeOK'
    BY <1>2, PollType, PublishType, MarkType, StopType DEF RelayStep
<1>3. CASE UNCHANGED vars
    BY <1>3 DEF TypeOK, vars, outbox, relay
<1> QED BY <1>1, <1>2, <1>3 DEF Next

\* The outbox, the stream and the relays keep their shapes.
THEOREM TypeCorrect == Spec => []TypeOK
PROOF
<1> USE RelayAssumption
<1>1. Init => TypeOK
    BY InitType
<1>2. TypeOK /\ [Next]_vars => TypeOK'
    BY NextType
<1> QED BY <1>1, <1>2, PTL DEF Spec

-----------------------------------------------------------------------------
(* The inductive invariant *)

\* The initial state: nothing committed, nothing held.
LEMMA InitInductive == ASSUME Init PROVE Inductive
PROOF
<1>1. /\ \A r \in Relays : batch[r] = << >> /\ seen[r] = {} /\ pc[r] = "idle"
      /\ \A e \in Events : row[e] = "none"
      /\ stream = << >>
    BY DEF Init
<1>2. DOMAIN << >> = {}
    OBVIOUS
<1> QED BY <1>1, <1>2 DEF Inductive, BatchInv, MarkInv, OrderInv, SentIsPublished,
                          PublishedIsCommitted

\* Posting transactions only add to what relays can see, and stamp nothing
\* that a relay has seen.
LEMMA RowInductive ==
    ASSUME RelayAssumption, TypeOK, Inductive,
           Tick \/ \E e \in Events : Stamp(e) \/ CommitRow(e) \/ AbortRow(e)
    PROVE  Inductive'
PROOF
<1>1. UNCHANGED <<stream, enabled, pc, batch, seen>>
    BY DEF Tick, Stamp, CommitRow, AbortRow, relay
<1>2. \A e : Published(e)' <=> Published(e)
    BY <1>1 DEF Published
<1>3. /\ Committed \subseteq Committed'
      /\ \A e \in Committed : created'[e] = created[e]
      /\ \A e \in Events : row'[e] = "sent" => row[e] = "sent"
    BY DEF Tick, Stamp, CommitRow, AbortRow, TypeOK, Committed
<1>4. BatchInv'
    BY <1>1, <1>3 DEF Inductive, BatchInv
<1>5. MarkInv'
    BY <1>1, <1>2 DEF Inductive, MarkInv
<1>6. OrderInv'
    BY <1>1, <1>2, <1>3 DEF Inductive, OrderInv, BatchInv
<1>7. SentIsPublished' /\ PublishedIsCommitted'
    BY <1>1, <1>2, <1>3 DEF Inductive, SentIsPublished, PublishedIsCommitted
<1> QED BY <1>4, <1>5, <1>6, <1>7 DEF Inductive

\* A batch holds committed rows in an order that lets nothing overtake.
LEMMA PollInductive ==
    ASSUME RelayAssumption, TypeOK, Inductive, NEW r \in Relays, Poll(r)
    PROVE  Inductive'
PROOF
<1>1. PICK s \in OldestUnsent(BatchSize) : batch' = [batch EXCEPT ![r] = s]
    BY DEF Poll
<1>2. /\ UNCHANGED <<created, row, stream, enabled>>
      /\ Unsent # {} /\ enabled[r]
      /\ pc' = [pc EXCEPT ![r] = "publish"]
      /\ seen' = [seen EXCEPT ![r] = Committed]
    BY DEF Poll, outbox
<1>3. /\ Committed' = Committed
      /\ \A e : Published(e)' <=> Published(e)
    BY <1>2 DEF Committed, Published
<1>4. /\ batch'[r] = s /\ pc'[r] = "publish" /\ seen'[r] = Committed
      /\ \A q \in Relays \ {r} : batch'[q] = batch[q] /\ pc'[q] = pc[q] /\ seen'[q] = seen[q]
    BY <1>1, <1>2 DEF TypeOK
<1>5. BatchInv'
    <2>1. \A i \in DOMAIN s : s[i] \in Committed
        BY <1>2, OldestUnsentType DEF Unsent, Committed
    <2> QED BY <2>1, <1>3, <1>4 DEF Inductive, BatchInv
<1>6. MarkInv'
    BY <1>2, <1>3, <1>4 DEF Inductive, MarkInv
<1>7. OrderInv'
    <2> SUFFICES ASSUME NEW q \in Relays, NEW e \in seen'[q], NEW j \in DOMAIN batch'[q],
                        created[e] < created[batch'[q][j]]
                 PROVE  Published(e) \/ \E i \in 1..(j - 1) : batch'[q][i] = e
        BY <1>2, <1>3 DEF OrderInv
    <2>1. CASE q # r
        BY <2>1, <1>4 DEF Inductive, OrderInv
    <2>2. CASE q = r
        <3>1. CASE row[e] = "sent"
            BY <3>1, <2>2, <1>4 DEF Inductive, SentIsPublished, Committed
        <3>2. CASE row[e] # "sent"
            <4>1. e \in Unsent
                BY <3>2, <2>2, <1>4 DEF Committed, Unsent
            <4> QED BY <4>1, <2>2, <1>2, <1>4, OldestUnsentOrder
        <3> QED BY <3>1, <3>2
    <2> QED BY <2>1, <2>2
<1>8. SentIsPublished' /\ PublishedIsCommitted'
    BY <1>2, <1>3 DEF Inductive, SentIsPublished, PublishedIsCommitted
<1> QED BY <1>5, <1>6, <1>7, <1>8 DEF Inductive

\* An append of a committed event publishes it and disturbs nothing.
LEMMA AppendInductive ==
    ASSUME TypeOK, Inductive, NEW h \in Events, h \in Committed,
           stream' = Append(stream, h), UNCHANGED <<created, row>>
    PROVE  /\ Published(h)'
           /\ \A e : Published(e) => Published(e)'
           /\ Committed' = Committed
           /\ SentIsPublished'
           /\ PublishedIsCommitted'
PROOF
<1>1. Committed' = Committed
    BY DEF Committed
<1>2. /\ Published(h)'
      /\ \A e : Published(e) => Published(e)'
      /\ \A i \in DOMAIN stream' : \/ stream'[i] = h
                                   \/ \E k \in DOMAIN stream : stream'[i] = stream[k]
    BY AppendPublishes DEF TypeOK
<1>3. SentIsPublished'
    BY <1>2 DEF Inductive, SentIsPublished
<1>4. PublishedIsCommitted'
    BY <1>1, <1>2 DEF Inductive, PublishedIsCommitted
<1> QED BY <1>1, <1>2, <1>3, <1>4

\* What a busy relay publishes next is a committed event.
LEMMA HeadCommitted ==
    ASSUME TypeOK, Inductive, NEW r \in Relays, pc[r] # "idle"
    PROVE  \E h \in Events : h = Head(batch[r]) /\ h \in Committed
BY HeadTail DEF Inductive, BatchInv

\* An enabled relay appends its head and keeps it for the mark.
LEMMA PublishInductive ==
    ASSUME TypeOK, Inductive, NEW r \in Relays, Publish(r)
    PROVE  Inductive'
PROOF
<1>1. /\ pc[r] = "publish" /\ pc' = [pc EXCEPT ![r] = "mark"]
      /\ UNCHANGED <<created, row, enabled, batch, seen>>
    BY DEF Publish, outbox
<1>h. PICK h \in Events : h = Head(batch[r]) /\ h \in Committed
    BY <1>1, HeadCommitted
<1>2. stream' = Append(stream, h)
    BY <1>1, <1>h DEF Publish, Inductive, MarkInv
<1>3. /\ Published(h)'
      /\ \A e : Published(e) => Published(e)'
      /\ Committed' = Committed
      /\ SentIsPublished' /\ PublishedIsCommitted'
    BY <1>1, <1>2, <1>h, AppendInductive
<1>4. BatchInv'
    BY <1>1, <1>3 DEF Inductive, BatchInv
<1>5. MarkInv'
    <2> SUFFICES ASSUME NEW q \in Relays
                 PROVE  /\ pc'[q] # "idle" => enabled'[q]
                        /\ pc'[q] = "mark" => Published(Head(batch[q]))'
        BY <1>1 DEF MarkInv
    <2>1. CASE q = r
        BY <2>1, <1>1, <1>3, <1>h DEF Inductive, MarkInv
    <2>2. CASE q # r
        BY <2>2, <1>1, <1>3 DEF Inductive, MarkInv, TypeOK
    <2> QED BY <2>1, <2>2
<1>6. OrderInv'
    BY <1>1, <1>3 DEF Inductive, OrderInv
<1> QED BY <1>3, <1>4, <1>5, <1>6 DEF Inductive

\* A relay that stops holds nothing, whatever reached the stream before.
LEMMA StopInductive ==
    ASSUME TypeOK, Inductive, NEW r \in Relays, EndCycle(r),
           UNCHANGED <<created, row, seen>>,
           \A q \in Relays \ {r} : enabled'[q] = enabled[q],
           \A e : Published(e) => Published(e)',
           SentIsPublished', PublishedIsCommitted'
    PROVE  Inductive'
PROOF
<1>1. /\ batch'[r] = << >> /\ pc'[r] = "idle"
      /\ \A q \in Relays \ {r} : batch'[q] = batch[q] /\ pc'[q] = pc[q]
      /\ DOMAIN << >> = {}
    BY DEF EndCycle, TypeOK
<1>2. Committed' = Committed
    BY DEF Committed
<1>3. BatchInv'
    BY <1>1, <1>2 DEF Inductive, BatchInv
<1>4. MarkInv'
    <2> SUFFICES ASSUME NEW q \in Relays
                 PROVE  /\ pc'[q] # "idle" => enabled'[q]
                        /\ pc'[q] = "mark" => Published(Head(batch[q]))'
        BY DEF MarkInv
    <2>1. CASE q = r
        BY <2>1, <1>1
    <2>2. CASE q # r
        BY <2>2, <1>1 DEF Inductive, MarkInv
    <2> QED BY <2>1, <2>2
<1>5. OrderInv'
    <2> SUFFICES ASSUME NEW q \in Relays, NEW e \in seen[q], NEW j \in DOMAIN batch'[q],
                        created[e] < created[batch'[q][j]]
                 PROVE  Published(e)' \/ \E i \in 1..(j - 1) : batch'[q][i] = e
        BY DEF OrderInv
    <2>1. q # r
        BY <1>1
    <2> QED BY <2>1, <1>1 DEF Inductive, OrderInv
<1> QED BY <1>3, <1>4, <1>5 DEF Inductive

\* A failed publication, a failed mark and a restart keep the invariant.
LEMMA FailInductive ==
    ASSUME TypeOK, Inductive, NEW r \in Relays,
           PublishFails(r) \/ MarkFails(r) \/ Restart(r)
    PROVE  Inductive'
PROOF
<1>1. /\ EndCycle(r)
      /\ UNCHANGED <<created, row, seen>>
      /\ \A q \in Relays \ {r} : enabled'[q] = enabled[q]
    BY DEF PublishFails, MarkFails, Restart, outbox, TypeOK
<1>2. CASE stream' = stream
    <2>1. \A e : Published(e)' <=> Published(e)
        BY <1>2 DEF Published
    <2>2. SentIsPublished' /\ PublishedIsCommitted'
        BY <2>1, <1>1, <1>2 DEF Inductive, SentIsPublished, PublishedIsCommitted, Committed
    <2> QED BY <2>1, <2>2, <1>1, StopInductive
<1>3. CASE pc[r] = "publish" /\ stream' = Append(stream, Head(batch[r]))
    <2>h. PICK h \in Events : h = Head(batch[r]) /\ h \in Committed
        BY <1>3, HeadCommitted
    <2>1. /\ \A e : Published(e) => Published(e)'
          /\ SentIsPublished' /\ PublishedIsCommitted'
        BY <1>1, <1>3, <2>h, AppendInductive
    <2> QED BY <2>1, <1>1, StopInductive
<1> QED BY <1>2, <1>3 DEF PublishFails, MarkFails, Restart

\* A mark is for a published row; the rest of the batch moves up behind it.
LEMMA MarkInductive ==
    ASSUME TypeOK, Inductive, NEW r \in Relays, Mark(r)
    PROVE  Inductive'
PROOF
<1> DEFINE h == Head(batch[r])
<1>1. /\ pc[r] = "mark"
      /\ row' = [row EXCEPT ![h] = "sent"]
      /\ batch' = [batch EXCEPT ![r] = Tail(batch[r])]
      /\ UNCHANGED <<created, stream, enabled, seen>>
    BY DEF Mark
<1>2. /\ h \in Events /\ h \in Committed /\ Published(h) /\ h = batch[r][1]
      /\ DOMAIN batch[r] = 1..Len(batch[r]) /\ Len(batch[r]) \in Nat \ {0}
      /\ DOMAIN Tail(batch[r]) = 1..(Len(batch[r]) - 1)
      /\ \A i \in 1..(Len(batch[r]) - 1) : Tail(batch[r])[i] = batch[r][i + 1]
    BY <1>1, HeadTail DEF Inductive, BatchInv, MarkInv
<1>3. \A e : Published(e)' <=> Published(e)
    BY <1>1 DEF Published
<1>4. Committed' = Committed
    BY <1>1, <1>2 DEF Committed, TypeOK
<1>5. /\ batch'[r] = Tail(batch[r])
      /\ \A q \in Relays \ {r} : batch'[q] = batch[q] /\ pc'[q] = pc[q]
      /\ pc'[r] \in {"idle", "publish"}
    BY DEF Mark, TypeOK
<1> HIDE DEF h
<1>6. BatchInv'
    <2> SUFFICES ASSUME NEW q \in Relays, NEW i \in DOMAIN batch'[q]
                 PROVE  batch'[q][i] \in Committed /\ seen[q] \subseteq Committed
        BY <1>1, <1>4 DEF Inductive, BatchInv
    <2>1. CASE q # r
        BY <2>1, <1>5 DEF Inductive, BatchInv
    <2>2. CASE q = r
        <3>1. i + 1 \in DOMAIN batch[r] /\ batch'[r][i] = batch[r][i + 1]
            BY <2>2, <1>2, <1>5
        <3> QED BY <3>1, <2>2 DEF Inductive, BatchInv
    <2> QED BY <2>1, <2>2
<1>7. MarkInv'
    <2> SUFFICES ASSUME NEW q \in Relays
                 PROVE  /\ pc'[q] # "idle" => enabled[q]
                        /\ pc'[q] = "mark" => Published(Head(batch'[q]))
        BY <1>1, <1>3 DEF MarkInv
    <2>1. CASE q = r
        BY <2>1, <1>1, <1>5 DEF Inductive, MarkInv
    <2>2. CASE q # r
        BY <2>2, <1>5 DEF Inductive, MarkInv
    <2> QED BY <2>1, <2>2
<1>8. OrderInv'
    <2> SUFFICES ASSUME NEW q \in Relays, NEW e \in seen[q], NEW j \in DOMAIN batch'[q],
                        created[e] < created[batch'[q][j]], ~Published(e)
                 PROVE  \E i \in 1..(j - 1) : batch'[q][i] = e
        BY <1>1, <1>3 DEF OrderInv
    <2>1. CASE q # r
        BY <2>1, <1>5 DEF Inductive, OrderInv
    <2>2. CASE q = r
        <3>1. j \in 1..(Len(batch[r]) - 1) /\ batch'[r][j] = batch[r][j + 1]
            BY <2>2, <1>2, <1>5
        <3>2. PICK i \in 1..j : batch[r][i] = e
            <4>1. /\ j + 1 \in DOMAIN batch[r] /\ (j + 1) - 1 = j
                  /\ created[e] < created[batch[r][j + 1]]
                BY <3>1, <2>2, <1>2
            <4>2. \A k \in DOMAIN batch[r] : created[e] < created[batch[r][k]]
                    => \E i \in 1..(k - 1) : batch[r][i] = e
                BY <2>2 DEF Inductive, OrderInv
            <4> QED BY <4>1, <4>2
        <3>3. i # 1
            BY <3>2, <1>2
        <3>4. i - 1 \in 1..(j - 1) /\ batch'[r][i - 1] = e
            BY <3>1, <3>2, <3>3, <1>2, <1>5
        <3> QED BY <3>4, <2>2
    <2> QED BY <2>1, <2>2
<1>9. SentIsPublished' /\ PublishedIsCommitted'
    BY <1>1, <1>2, <1>3, <1>4 DEF Inductive, SentIsPublished, PublishedIsCommitted, TypeOK
<1> QED BY <1>6, <1>7, <1>8, <1>9 DEF Inductive

\* Every step keeps the invariant.
LEMMA NextInductive ==
    ASSUME RelayAssumption, TypeOK, Inductive, [Next]_vars PROVE Inductive'
PROOF
<1>1. CASE Tick \/ \E e \in Events : Stamp(e) \/ CommitRow(e) \/ AbortRow(e)
    BY <1>1, RowInductive
<1>2. ASSUME NEW r \in Relays,
             RelayStep(r) \/ PublishFails(r) \/ MarkFails(r) \/ Restart(r)
      PROVE  Inductive'
    BY <1>2, PollInductive, PublishInductive, MarkInductive, FailInductive DEF RelayStep
<1>3. CASE UNCHANGED vars
    BY <1>3 DEF Inductive, BatchInv, MarkInv, OrderInv, SentIsPublished, PublishedIsCommitted,
                Published, Committed, vars, outbox, relay
<1> QED BY <1>1, <1>2, <1>3 DEF Next

\* relayBatch, publish and markSent keep the inductive invariant over all
\* interleavings, failures and restarts.
THEOREM Correct == Spec => [](TypeOK /\ Inductive)
PROOF
<1> USE RelayAssumption
<1>1. Init => TypeOK /\ Inductive
    BY InitType, InitInductive
<1>2. TypeOK /\ Inductive /\ [Next]_vars => (TypeOK /\ Inductive)'
    BY NextType, NextInductive
<1> QED BY <1>1, <1>2, PTL DEF Spec

\* publish-then-mark-sent: no event is marked sent that is not on the stream.
THEOREM NothingDropped == Spec => []SentIsPublished
PROOF
<1>1. Inductive => SentIsPublished
    BY DEF Inductive
<1> QED BY <1>1, Correct, PTL

\* The stream announces nothing that did not commit.
THEOREM NothingInvented == Spec => []PublishedIsCommitted
PROOF
<1>1. Inductive => PublishedIsCommitted
    BY DEF Inductive
<1> QED BY <1>1, Correct, PTL

-----------------------------------------------------------------------------
(* Order *)

\* What a relay appends is not ahead of an older row it saw.
LEMMA OldestFirst ==
    ASSUME TypeOK, Inductive, NEW r \in Relays, Publish(r) \/ PublishFails(r),
           NEW e \in seen[r], stream' # stream, created[e] < created[stream'[Len(stream')]]
    PROVE  Published(e)
PROOF
<1>1. pc[r] = "publish"
    BY DEF Publish, PublishFails
<1>2. PICK h \in Events : h = Head(batch[r]) /\ h \in Committed
    BY <1>1, HeadCommitted
<1>3. stream' = Append(stream, h)
    BY <1>2 DEF Publish, PublishFails
<1>4. stream'[Len(stream')] = h
    BY <1>3, AppendPublishes DEF TypeOK
<1>5. 1 \in DOMAIN batch[r] /\ batch[r][1] = h
    BY <1>1, <1>2, HeadTail
<1>6. Published(e) \/ \E i \in 1..(1 - 1) : batch[r][i] = e
    BY <1>4, <1>5 DEF Inductive, OrderInv
<1> QED BY <1>6

\* A relay never lets an event jump ahead of an older one it could see.
THEOREM OrderKept == Spec => PublishesOldestFirst
PROOF
<1> DEFINE Ordered ==
        \A r \in Relays :
            Publish(r) \/ PublishFails(r) =>
                \A e \in seen[r] :
                    stream' # stream /\ created[e] < created[stream'[Len(stream')]] => Published(e)
<1>1. TypeOK /\ Inductive => Ordered
    BY OldestFirst
<1>2. TypeOK /\ Inductive => [Ordered]_vars
    BY <1>1
<1>3. PublishesOldestFirst <=> [][Ordered]_vars
    BY DEF PublishesOldestFirst
<1> HIDE DEF Ordered
<1> QED BY <1>2, <1>3, Correct, PTL DEF Spec

-----------------------------------------------------------------------------
(* The contract *)

\* The initial state is one of the contract.
LEMMA InitContract == ASSUME Init PROVE Contract!Init
BY DEF Init, Contract!Init, Committed

\* What happens to rows commits an event or nothing.
LEMMA RowContract ==
    ASSUME TypeOK, Tick \/ \E e \in Events : Stamp(e) \/ CommitRow(e) \/ AbortRow(e)
    PROVE  [Contract!Next]_Contract!vars
PROOF
<1>1. CASE Tick
    BY <1>1 DEF Tick, Committed, Contract!vars
<1>2. ASSUME NEW e \in Events, Stamp(e) \/ AbortRow(e) PROVE UNCHANGED Contract!vars
    <2>1. Committed' = Committed
        BY <1>2 DEF Stamp, AbortRow, Committed, TypeOK
    <2>2. {f \in Events : row'[f] = "sent"} = {f \in Events : row[f] = "sent"}
        BY <1>2 DEF Stamp, AbortRow, TypeOK
    <2>3. stream' = stream
        BY <1>2 DEF Stamp, AbortRow
    <2> QED BY <2>1, <2>2, <2>3 DEF Contract!vars
<1>3. ASSUME NEW e \in Events, CommitRow(e) PROVE Contract!Commit(e)
    <2>1. e \notin Committed /\ Committed' = Committed \cup {e}
        BY <1>3 DEF CommitRow, Committed, TypeOK
    <2>2. {f \in Events : row'[f] = "sent"} = {f \in Events : row[f] = "sent"}
        BY <1>3 DEF CommitRow, TypeOK
    <2>3. stream' = stream
        BY <1>3 DEF CommitRow
    <2> QED BY <2>1, <2>2, <2>3 DEF Contract!Commit
<1> QED BY <1>1, <1>2, <1>3 DEF Contract!Next

\* An appended event is a delivery; a cycle that ends without is nothing.
LEMMA StreamContract ==
    ASSUME TypeOK, Inductive, NEW r \in Relays, pc[r] # "idle", UNCHANGED row,
           stream' \in {stream, Append(stream, Head(batch[r]))}
    PROVE  [Contract!Next]_Contract!vars
PROOF
<1>1. Committed' = Committed
    BY DEF Committed
<1>2. {f \in Events : row'[f] = "sent"} = {f \in Events : row[f] = "sent"}
    OBVIOUS
<1>3. CASE stream' = stream
    BY <1>1, <1>2, <1>3 DEF Contract!vars
<1>4. CASE stream' = Append(stream, Head(batch[r]))
    <2>1. PICK h \in Events : h = Head(batch[r]) /\ h \in Committed
        BY HeadCommitted
    <2>2. Contract!Deliver(h)
        BY <2>1, <1>1, <1>2, <1>4 DEF Contract!Deliver
    <2> QED BY <2>2 DEF Contract!Next
<1> QED BY <1>3, <1>4

\* A mark settles an event of the log.
LEMMA MarkContract ==
    ASSUME TypeOK, Inductive, NEW r \in Relays, Mark(r)
    PROVE  [Contract!Next]_Contract!vars
PROOF
<1>1. PICK h \in Events : h = Head(batch[r]) /\ h \in Committed
    BY HeadCommitted DEF Mark
<1>2. /\ row' = [row EXCEPT ![h] = "sent"] /\ stream' = stream
      /\ Published(h)
    BY <1>1 DEF Mark, Inductive, MarkInv
<1>3. Committed' = Committed
    BY <1>1, <1>2 DEF Committed, TypeOK
<1>4. {f \in Events : row'[f] = "sent"} = {f \in Events : row[f] = "sent"} \cup {h}
    BY <1>2 DEF TypeOK
<1>5. Contract!OnLog(h)
    BY <1>2 DEF Published, Contract!OnLog
<1>6. Contract!Settle(h)
    BY <1>2, <1>3, <1>4, <1>5 DEF Contract!Settle
<1> QED BY <1>6 DEF Contract!Next

\* Every step is a step of the contract or none.
LEMMA NextContract ==
    ASSUME TypeOK, Inductive, [Next]_vars PROVE [Contract!Next]_Contract!vars
PROOF
<1>1. CASE Tick \/ \E e \in Events : Stamp(e) \/ CommitRow(e) \/ AbortRow(e)
    BY <1>1, RowContract
<1>2. ASSUME NEW r \in Relays, Poll(r) \/ MarkFails(r) \/ Restart(r)
      PROVE  UNCHANGED Contract!vars
    BY <1>2 DEF Poll, MarkFails, Restart, outbox, Committed, Contract!vars
<1>3. ASSUME NEW r \in Relays, Publish(r) \/ PublishFails(r)
      PROVE  [Contract!Next]_Contract!vars
    <2>1. /\ pc[r] # "idle" /\ row' = row
          /\ stream' \in {stream, Append(stream, Head(batch[r]))}
        BY <1>3 DEF Publish, PublishFails, outbox
    <2> QED BY <2>1, StreamContract
<1>4. ASSUME NEW r \in Relays, Mark(r) PROVE [Contract!Next]_Contract!vars
    BY <1>4, MarkContract
<1>5. CASE UNCHANGED vars
    BY <1>5 DEF vars, outbox, Committed, Contract!vars
<1> QED BY <1>1, <1>2, <1>3, <1>4, <1>5 DEF Next, RelayStep

\* The relay implements the at-least-once contract of ledger.updates.
THEOREM ImplementsContract == Spec => KeepsContract
PROOF
<1>1. Init => Contract!Init
    BY InitContract
<1>2. TypeOK /\ Inductive /\ [Next]_vars => [Contract!Next]_Contract!vars
    BY NextContract
<1> QED BY <1>1, <1>2, Correct, PTL DEF Spec, KeepsContract, Contract!Spec

================================================================================
