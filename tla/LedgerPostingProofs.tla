------------------------- MODULE LedgerPostingProofs -------------------------
(***************************************************************************)
(* Theorems about LedgerPosting, for any number of calls, requests,        *)
(* accounts and orders and any rounding scale: its types, that cash never  *)
(* becomes negative, and that it keeps LedgerPromise.                      *)
(***************************************************************************)
EXTENDS LedgerPosting, FiniteLemmas, TLAPS

-----------------------------------------------------------------------------
(* Arithmetic and shapes *)

\* Rounding to the column keeps integers.
LEMMA StoredType == \A x \in Int : Stored(x) \in Int
  BY ScaleAssumption DEF Stored

\* The money of an order is an integer amount.
LEMMA AmountType ==
    \A o \in Orders : /\ Amount(o) \in Int
                      /\ CashDelta(o) \in Int
                      /\ SignedQuantity(o) \in Int
  BY PostingAssumption DEF OrderType, Amount, CashDelta, SignedQuantity

\* What a call submitted has the fields its kind promises.
LEMMA FormShape ==
    ASSUME NEW f \in TradeForms \cup CreditForms \cup {NoForm}
    PROVE  /\ f.kind = "trade" => f \in TradeForms /\ f.source \in Requests /\ f.order \in Orders
           /\ f.kind = "credit" => f \in CreditForms /\ f.source \in Calls /\ f.order \in Credits
           /\ f.kind \in {"trade", "credit"} => Delta(f) \in Int
  BY AmountType, PostingAssumption
     DEF TradeForms, CreditForms, NoForm, Delta, CreditType

-----------------------------------------------------------------------------
(* Type correctness *)

\* The initial state has the shapes.
LEMMA InitType == Init => TypeOK
  BY PostingAssumption DEF Init, TypeOK, NoReply

\* The calls' part of TypeOK: an action moves one call to a label, and gives
\* no answer unless that label is "done".
LEMMA GotoType ==
    ASSUME TypeOK, NEW c \in Calls,
           NEW label \in {"new", "find", "cash", "position", "trade", "journal",
                          "update", "audit", "outbox", "commit", "done"},
           pc[c] # "done",
           Goto(c, label),
           UNCHANGED reply \/ (label = "done" /\ \E a : reply' = [reply EXCEPT ![c] = a])
    PROVE  /\ pc' \in [Calls -> {"new", "find", "cash", "position", "trade", "journal",
                                 "update", "audit", "outbox", "commit", "done"}]
           /\ \A d \in Calls : pc'[d] # "done" => reply'[d] = NoReply
  <1>1. pc' \in [Calls -> {"new", "find", "cash", "position", "trade", "journal",
                           "update", "audit", "outbox", "commit", "done"}]
    BY DEF TypeOK, Goto
  <1>2. ASSUME NEW d \in Calls, pc'[d] # "done"
        PROVE  reply'[d] = NoReply
    <2>1. CASE UNCHANGED reply
      BY <1>2, <2>1 DEF TypeOK, Goto
    <2>2. CASE label = "done" /\ \E a : reply' = [reply EXCEPT ![c] = a]
      <3>1. d # c
        BY <1>2, <2>2 DEF TypeOK, Goto
      <3>2. pc'[d] = pc[d]
        BY <3>1 DEF TypeOK, Goto
      <3>3. reply'[d] = NoReply
        <4>1. PICK a : reply' = [reply EXCEPT ![c] = a]
          BY <2>2
        <4>2. reply'[d] = reply[d]
          BY <4>1, <3>1
        <4> QED
          BY <1>2, <3>2, <4>2 DEF TypeOK
      <3> QED
        BY <3>3
    <2> QED
      BY <2>1, <2>2
  <1> QED
    BY <1>1, <1>2

\* A rollback, with its 500 answer, keeps the shapes.
LEMMA AbortType ==
    ASSUME TypeOK, NEW c \in Calls, pc[c] # "done", Abort(c)
    PROVE  TypeOK'
  <1>1. /\ pc' \in [Calls -> {"new", "find", "cash", "position", "trade", "journal",
                              "update", "audit", "outbox", "commit", "done"}]
        /\ \A d \in Calls : pc'[d] # "done" => reply'[d] = NoReply
    BY GotoType DEF Abort, Answer
  <1>2. locked' \in [Accounts -> Calls \cup {NoCall}]
    BY DEF TypeOK, Abort
  <1> QED
    BY <1>1, <1>2 DEF TypeOK, Abort, tables

\* The rows a call has pending name that call, its source and its order.
LEMMA PendingType ==
    ASSUME TypeOK, OpenInv, NEW c \in Calls
    PROVE  /\ \A t \in pending[c].trades :
                t.trade \in Calls /\ t.request \in Requests /\ t.order \in Orders
           /\ \A j \in pending[c].journal :
                j.entry \in Calls /\ j.source \in Requests \cup Calls
           /\ \A e \in pending[c].outbox : e.event \in Calls /\ e.source \in Requests
  <1> DEFINE f == form[c]
  <1>1. /\ f.kind = "trade" => f.source \in Requests /\ f.order \in Orders
        /\ f.kind = "credit" => f.source \in Calls
    BY FormShape DEF TypeOK
  <1>2. pending[c] = PendingRows(c)
    BY DEF OpenInv
  <1>3. ASSUME NEW t \in pending[c].trades
        PROVE  t.trade \in Calls /\ t.request \in Requests /\ t.order \in Orders
    BY <1>1, <1>2, <1>3 DEF PendingRows, TradeRow, TradeWritten
  <1>4. ASSUME NEW j \in pending[c].journal
        PROVE  j.entry \in Calls /\ j.source \in Requests \cup Calls
    <2>1. f.kind \in {"trade", "credit"} /\ j = JournalRow(c)
      BY <1>2, <1>4 DEF PendingRows, OpenInv, FormInv, Holds, Effective
    <2>2. j.entry = c /\ j.source = f.source
      BY <2>1 DEF JournalRow
    <2> QED
      BY <1>1, <2>1, <2>2
  <1>5. ASSUME NEW e \in pending[c].outbox
        PROVE  e.event \in Calls /\ e.source \in Requests
    BY <1>1, <1>2, <1>5 DEF PendingRows, OutboxRow
  <1> QED
    BY <1>3, <1>4, <1>5

\* A commit, with its answer, keeps the shapes.
LEMMA CommitType ==
    ASSUME TypeOK, OpenInv, NEW c \in Calls, Commit(c)
    PROVE  TypeOK'
  <1>1. pc[c] = "commit"
    BY DEF Commit
  <1>2. PICK a : Answer(c, a)
    BY DEF Commit
  <1>3. /\ pc' \in [Calls -> {"new", "find", "cash", "position", "trade", "journal",
                              "update", "audit", "outbox", "commit", "done"}]
        /\ \A d \in Calls : pc'[d] # "done" => reply'[d] = NoReply
    BY <1>1, <1>2, GotoType DEF Answer
  <1>4. form[c].kind \in {"trade", "credit"}
    BY <1>1 DEF OpenInv, FormInv
  <1>5. \A b \in Accounts : locked[b] = c => UpdatedCash(c) \in Int
    <2> SUFFICES ASSUME NEW b \in Accounts, locked[b] = c
                 PROVE  UpdatedCash(c) \in Int
      OBVIOUS
    <2>1. form[c].order.account = b
      BY DEF OpenInv, LockInv
    <2>2. Delta(form[c]) \in Int
      BY <1>4, FormShape DEF TypeOK
    <2>3. cash[form[c].order.account] \in Int
      BY <2>1 DEF TypeOK
    <2> QED
      BY <2>2, <2>3, StoredType DEF UpdatedCash
  <1>6. cash' \in [Accounts -> Int]
    BY <1>5 DEF Commit, TypeOK
  <1>7. locked' \in [Accounts -> Calls \cup {NoCall}]
    BY DEF Commit, TypeOK
  <1>8. /\ \A t \in trades' : t.trade \in Calls /\ t.request \in Requests /\ t.order \in Orders
        /\ \A j \in journal' : j.entry \in Calls /\ j.source \in Requests \cup Calls
        /\ \A e \in outbox' : e.event \in Calls /\ e.source \in Requests
    BY PendingType DEF Commit, TypeOK
  <1>9. UNCHANGED <<form, read>>
    BY DEF Commit
  <1> QED
    BY <1>3, <1>6, <1>7, <1>8, <1>9 DEF TypeOK

\* A net position is an integer.
LEMMA PositionType ==
    ASSUME TypeOK, Settled
    PROVE  \A a, s : Position(a, s) \in Int
  <1> TAKE a, s
  <1> DEFINE rows == {u \in trades : /\ u.status = "posted"
                                     /\ u.order.account = a
                                     /\ u.order.symbol = s}
             w == [t \in rows |-> SignedQuantity(t.order)]
  <1>1. IsFiniteSet(rows)
    BY FS_Subset DEF Settled
  <1>2. \A t \in rows : w[t] \in Int
    BY AmountType DEF TypeOK
  <1>3. DOMAIN w = rows
    OBVIOUS
  <1>4. Position(a, s) = SumFunction(w)
    BY DEF Position
  <1> HIDE DEF w, rows
  <1>5. SumFunctionOnSet(w, rows) \in Int
    BY <1>1, <1>2, SumType
  <1> QED
    BY <1>3, <1>4, <1>5 DEF SumFunction

\* Every statement keeps the shapes.
LEMMA StepType == TypeOK /\ Inductive /\ [Next]_vars => TypeOK'
  <1> SUFFICES ASSUME TypeOK, OpenInv, Settled, [Next]_vars
               PROVE  TypeOK'
    BY DEF Inductive
  <1> USE DEF tables
  <1>1. ASSUME NEW c \in Calls, SubmitRefused(c)
        PROVE  TypeOK'
    <2>1. /\ pc' \in [Calls -> {"new", "find", "cash", "position", "trade", "journal",
                                "update", "audit", "outbox", "commit", "done"}]
          /\ \A d \in Calls : pc'[d] # "done" => reply'[d] = NoReply
      BY <1>1, GotoType DEF SubmitRefused, Answer
    <2>2. form' \in [Calls -> TradeForms \cup CreditForms \cup {NoForm}]
      BY <1>1 DEF SubmitRefused, TypeOK
    <2> QED
      BY <1>1, <2>1, <2>2 DEF SubmitRefused, TypeOK
  <1>2. ASSUME NEW c \in Calls, SubmitTrade(c)
        PROVE  TypeOK'
    BY <1>2, GotoType DEF SubmitTrade, TypeOK
  <1>3. ASSUME NEW c \in Calls, SubmitCredit(c)
        PROVE  TypeOK'
    BY <1>3, GotoType DEF SubmitCredit, TypeOK
  <1>4. ASSUME NEW c \in Calls, FindReplay(c)
        PROVE  TypeOK'
    <2>1. /\ pc' \in [Calls -> {"new", "find", "cash", "position", "trade", "journal",
                                "update", "audit", "outbox", "commit", "done"}]
          /\ \A d \in Calls : pc'[d] # "done" => reply'[d] = NoReply
      BY <1>4, GotoType DEF FindReplay, Answer
    <2> QED
      BY <1>4, <2>1 DEF FindReplay, TypeOK
  <1>5. ASSUME NEW c \in Calls, FindNothing(c)
        PROVE  TypeOK'
    BY <1>5, GotoType DEF FindNothing, TypeOK
  <1>6. ASSUME NEW c \in Calls, ReadCash(c)
        PROVE  TypeOK'
    <2>1. form[c].order.account \in Accounts
      BY <1>6 DEF ReadCash, OpenInv, FormInv, Refusal
    <2>2. read' \in [Calls -> [cash: Int, position: Int]]
      BY <1>6, <2>1 DEF ReadCash, TypeOK
    <2> QED
      BY <1>6, <2>2, GotoType DEF ReadCash, TypeOK
  <1>7. ASSUME NEW c \in Calls, ReadPosition(c)
        PROVE  TypeOK'
    <2>1. Position(form[c].order.account, form[c].order.symbol) \in Int
      BY PositionType
    <2>2. read' \in [Calls -> [cash: Int, position: Int]]
      BY <1>7, <2>1 DEF ReadPosition, TypeOK
    <2> QED
      BY <1>7, <2>2, GotoType DEF ReadPosition, TypeOK
  <1>8. ASSUME NEW c \in Calls, InsertTrade(c)
        PROVE  TypeOK'
    BY <1>8, GotoType DEF InsertTrade, TypeOK
  <1>9. ASSUME NEW c \in Calls, InsertJournal(c)
        PROVE  TypeOK'
    BY <1>9, GotoType DEF InsertJournal, TypeOK
  <1>10. ASSUME NEW c \in Calls, UpdateCash(c)
         PROVE  TypeOK'
    BY <1>10, GotoType DEF UpdateCash, TypeOK
  <1>11. ASSUME NEW c \in Calls, InsertAudit(c)
         PROVE  TypeOK'
    BY <1>11, GotoType DEF InsertAudit, TypeOK
  <1>12. ASSUME NEW c \in Calls, InsertOutbox(c)
         PROVE  TypeOK'
    BY <1>12, GotoType DEF InsertOutbox, TypeOK
  <1>13. ASSUME NEW c \in Calls,
                \/ InsertTradeDuplicate(c) \/ InsertJournalFails(c)
                \/ UpdateCashFails(c) \/ Rollback(c)
         PROVE  TypeOK'
    BY <1>13, AbortType
       DEF InsertTradeDuplicate, InsertJournalFails, UpdateCashFails, Rollback
  <1>14. CASE UNCHANGED vars
    BY <1>14 DEF vars, callVars, TypeOK
  <1> QED
    BY <1>1, <1>2, <1>3, <1>4, <1>5, <1>6, <1>7, <1>8, <1>9, <1>10, <1>11, <1>12,
       <1>13, <1>14, CommitType DEF Next, Step, Served

-----------------------------------------------------------------------------
(* The inductive invariant *)

\* At the start no call has written or locked anything.
LEMMA InitOpenInv == Init => OpenInv
  <1> SUFFICES ASSUME Init
               PROVE  OpenInv
    OBVIOUS
  <1>1. \A c \in Calls : /\ PendingRows(c) = NothingPending
                         /\ ~Holds(c)
                         /\ ~TradeWritten(c)
    BY DEF Init, PendingRows, NothingPending, Holds, TradeWritten
  <1>2. pending = [c \in Calls |-> PendingRows(c)]
    BY <1>1 DEF Init
  <1>3. FormInv
    BY DEF Init, FormInv
  <1>4. LockInv
    BY <1>1, PostingAssumption DEF Init, LockInv
  <1>5. KeyInv
    BY <1>1 DEF Init, KeyInv
  <1>6. CashNonNegative
    BY PostingAssumption DEF Init, CashNonNegative
  <1> QED
    BY <1>2, <1>3, <1>4, <1>5, <1>6 DEF OpenInv

\* A step of another call leaves d alone.
Same(d) == pc'[d] = pc[d] /\ form'[d] = form[d] /\ read'[d] = read[d]

\* A call that a step leaves alone has the same rows and the same locks.
LEMMA SameRows ==
    ASSUME NEW d \in Calls, Same(d)
    PROVE  /\ PendingRows(d)' = PendingRows(d)
           /\ TradeWritten(d)' <=> TradeWritten(d)
           /\ Holds(d)' <=> Holds(d)
           /\ Effective(d)' <=> Effective(d)
  BY DEF Same, PendingRows, TradeWritten, Holds, Effective, TradeRow, JournalRow,
         AuditRow, OutboxRow, Status, FirstViolation, PositionAfter

\* The rows depend on what the call submitted and read, not on where it is.
LEMMA SameRowsOf ==
    ASSUME NEW c \in Calls, form'[c] = form[c], read'[c] = read[c]
    PROVE  /\ TradeRow(c)' = TradeRow(c)
           /\ JournalRow(c)' = JournalRow(c)
           /\ AuditRow(c)' = AuditRow(c)
           /\ OutboxRow(c)' = OutboxRow(c)
           /\ Status(c)' = Status(c)
           /\ Effective(c)' <=> Effective(c)
  BY DEF TradeRow, JournalRow, AuditRow, OutboxRow, Effective, Status,
         FirstViolation, PositionAfter

\* A call that has written nothing yet.
Quiet(c) ==
    /\ pc[c] \notin {"update", "audit", "outbox", "commit"}
    /\ ~TradeWritten(c)

\* A call that has written nothing has no rows and no lock.
LEMMA QuietRows ==
    ASSUME NEW c \in Calls, Quiet(c)
    PROVE  PendingRows(c) = NothingPending /\ ~Holds(c)
  BY DEF Quiet, PendingRows, NothingPending, Holds

\* A step that keeps one call quiet and touches neither transactions nor tables.
LEMMA QuietStep ==
    ASSUME TypeOK, OpenInv, FormInv', NEW c \in Calls, Quiet(c), Quiet(c)',
           \A d \in Calls \ {c} : Same(d),
           UNCHANGED <<pending, locked, tables>>
    PROVE  OpenInv'
  <1>1. \A d \in Calls \ {c} : /\ PendingRows(d)' = PendingRows(d)
                               /\ TradeWritten(d)' <=> TradeWritten(d)
                               /\ Holds(d)' <=> Holds(d)
    BY SameRows
  <1>2. PendingRows(c)' = PendingRows(c) /\ ~Holds(c) /\ ~Holds(c)'
    <2>1. PendingRows(c) = NothingPending /\ ~Holds(c)
      BY QuietRows
    <2>2. PendingRows(c)' = NothingPending /\ ~Holds(c)'
      BY DEF Quiet, PendingRows, NothingPending, Holds
    <2> QED
      BY <2>1, <2>2
  <1>3. ~TradeWritten(c) /\ ~TradeWritten(c)'
    BY DEF Quiet
  <1>4. (pending = [d \in Calls |-> PendingRows(d)])'
    BY <1>1, <1>2 DEF OpenInv
  <1>5. LockInv'
    BY <1>1, <1>2 DEF OpenInv, LockInv, Same, UpdatedCash, tables
  <1>6. KeyInv'
    BY <1>1, <1>3 DEF OpenInv, KeyInv, Same, RequestTaken, tables
  <1>7. CashNonNegative'
    BY DEF OpenInv, CashNonNegative, tables
  <1> QED
    BY <1>4, <1>5, <1>6, <1>7 DEF OpenInv

\* A rollback takes back the rows and the lock of its call, and no more.
LEMMA AbortOpenInv ==
    ASSUME TypeOK, OpenInv, NEW c \in Calls, Abort(c)
    PROVE  OpenInv'
  <1>1. pc' = [pc EXCEPT ![c] = "done"] /\ UNCHANGED <<form, read>>
    BY DEF Abort, Answer, Goto
  <1>2. pc'[c] = "done" /\ \A d \in Calls \ {c} : Same(d)
    BY <1>1 DEF TypeOK, Same
  <1>3. \A d \in Calls \ {c} : /\ PendingRows(d)' = PendingRows(d)
                               /\ TradeWritten(d)' <=> TradeWritten(d)
                               /\ Holds(d)' <=> Holds(d)
                               /\ Effective(d)' <=> Effective(d)
    BY <1>2, SameRows
  <1>4. PendingRows(c)' = NothingPending /\ ~Holds(c)' /\ ~TradeWritten(c)'
    BY <1>2 DEF PendingRows, NothingPending, Holds, TradeWritten
  <1>5. (pending = [d \in Calls |-> PendingRows(d)])'
    BY <1>3, <1>4 DEF OpenInv, Abort
  <1>6. FormInv'
    BY <1>1, <1>2, <1>3 DEF OpenInv, FormInv, Same
  <1>7. LockInv'
    <2>1. \A a \in Accounts : locked'[a] = IF locked[a] = c THEN NoCall ELSE locked[a]
      BY DEF Abort
    <2>2. \A a \in Accounts, d \in Calls :
            locked'[a] = d <=> Holds(d)' /\ form'[d].order.account = a
      BY <1>1, <1>3, <1>4, <2>1, PostingAssumption DEF OpenInv, LockInv
    <2>3. \A d \in Calls : Holds(d)' => UpdatedCash(d)' >= 0
      BY <1>1, <1>3, <1>4 DEF OpenInv, LockInv, UpdatedCash, Abort, tables
    <2> QED
      BY <2>2, <2>3 DEF LockInv
  <1>8. KeyInv'
    BY <1>1, <1>3, <1>4 DEF OpenInv, KeyInv, RequestTaken, Abort, tables
  <1>9. CashNonNegative'
    BY DEF OpenInv, CashNonNegative, Abort, tables
  <1> QED
    BY <1>5, <1>6, <1>7, <1>8, <1>9 DEF OpenInv

\* The actions of a call before its first write.
LEMMA EarlyOpenInv ==
    ASSUME TypeOK, OpenInv, NEW c \in Calls,
           \/ SubmitRefused(c) \/ SubmitTrade(c) \/ SubmitCredit(c)
           \/ FindReplay(c) \/ FindNothing(c) \/ ReadCash(c) \/ ReadPosition(c)
    PROVE  OpenInv'
  <1>1. UNCHANGED <<pending, locked, tables>>
    BY DEF SubmitRefused, SubmitTrade, SubmitCredit, FindReplay, FindNothing, ReadCash,
           ReadPosition
  <1>2. Quiet(c)
    BY DEF SubmitRefused, SubmitTrade, SubmitCredit, FindReplay, FindNothing, ReadCash,
           ReadPosition, Quiet, TradeWritten
  <1>3. \A d \in Calls \ {c} : Same(d)
    BY DEF SubmitRefused, SubmitTrade, SubmitCredit, FindReplay, FindNothing, ReadCash,
           ReadPosition, Answer, Goto, Same, TypeOK
  <1>4. \A d \in Calls \ {c} : Effective(d)' <=> Effective(d)
    BY <1>3, SameRows
  <1>5. FormInv' /\ Quiet(c)'
    <2> SUFFICES (/\ pc[c] \notin {"new", "done"} =>
                        form[c].kind \in {"trade", "credit"} /\ Refusal(form[c]) = "none"
                  /\ pc[c] \in {"find", "position", "trade", "outbox"} => form[c].kind = "trade"
                  /\ pc[c] \in {"journal", "update", "outbox"} => Effective(c)
                  /\ Quiet(c))'
      BY <1>3, <1>4 DEF OpenInv, FormInv, Same
    <2>1. CASE SubmitRefused(c) \/ FindReplay(c)
      <3>1. pc'[c] = "done"
        BY <2>1 DEF SubmitRefused, FindReplay, Answer, Goto, TypeOK
      <3> QED
        BY <3>1 DEF Quiet, TradeWritten
    <2>2. CASE SubmitTrade(c)
      <3>1. pc'[c] = "find" /\ form'[c] \in TradeForms /\ Refusal(form'[c]) = "none"
        BY <2>2 DEF SubmitTrade, Goto, TypeOK
      <3> QED
        BY <3>1 DEF Quiet, TradeWritten, TradeForms, Refusal
    <2>3. CASE SubmitCredit(c)
      <3>1. pc'[c] = "cash" /\ form'[c] \in CreditForms /\ Refusal(form'[c]) = "none"
        BY <2>3 DEF SubmitCredit, Goto, TypeOK
      <3> QED
        BY <3>1 DEF Quiet, TradeWritten, CreditForms, Refusal
    <2>4. CASE FindNothing(c)
      <3>1. pc[c] = "find" /\ pc'[c] = "cash" /\ form' = form
        BY <2>4 DEF FindNothing, Goto, TypeOK
      <3> QED
        BY <3>1 DEF Quiet, TradeWritten, OpenInv, FormInv, Refusal
    <2>5. CASE ReadCash(c)
      <3>1. /\ pc[c] = "cash" /\ form' = form
            /\ pc'[c] = IF form[c].kind = "trade" THEN "position" ELSE "journal"
        BY <2>5 DEF ReadCash, Goto, TypeOK
      <3>2. form[c].kind \in {"trade", "credit"} /\ Refusal(form[c]) = "none"
        BY <3>1 DEF OpenInv, FormInv
      <3> QED
        BY <3>1, <3>2 DEF Quiet, TradeWritten, Effective, Refusal
    <2>6. CASE ReadPosition(c)
      <3>1. pc[c] = "position" /\ pc'[c] = "trade" /\ form' = form
        BY <2>6 DEF ReadPosition, Goto, TypeOK
      <3> QED
        BY <3>1 DEF Quiet, TradeWritten, OpenInv, FormInv, Refusal
    <2> QED
      BY <2>1, <2>2, <2>3, <2>4, <2>5, <2>6
  <1> QED
    BY <1>1, <1>2, <1>3, <1>5, QuietStep

\* A statement that moves a call on by one label without touching what it
\* submitted or read, and without the row lock or the tables.
LEMMA WriteStep ==
    ASSUME TypeOK, OpenInv, NEW c \in Calls,
           pc[c] \notin {"new", "done"},
           Goto(c, pc'[c]),
           UNCHANGED <<form, read, locked, tables>>,
           pending' = [pending EXCEPT ![c] = PendingRows(c)'],
           Holds(c)' <=> Holds(c),
           pc'[c] \notin {"new", "done", "find", "position", "trade"},
           pc'[c] \in {"journal", "update", "outbox"} => Effective(c),
           pc'[c] = "outbox" => form[c].kind = "trade",
           TradeWritten(c)' /\ ~TradeWritten(c) => ~RequestTaken(c),
           TradeWritten(c)' /\ ~TradeWritten(c) =>
              \A d \in Calls \ {c} : TradeWritten(d) => form[d].source # form[c].source
    PROVE  OpenInv'
  <1>1. \A d \in Calls \ {c} : Same(d)
    BY DEF Goto, TypeOK, Same
  <1>2. \A d \in Calls \ {c} : /\ PendingRows(d)' = PendingRows(d)
                               /\ TradeWritten(d)' <=> TradeWritten(d)
                               /\ Holds(d)' <=> Holds(d)
    BY <1>1, SameRows
  <1>3. (pending = [d \in Calls |-> PendingRows(d)])'
    BY <1>2 DEF OpenInv
  <1>4. \A d \in Calls : Effective(d)' <=> Effective(d)
    BY SameRowsOf
  <1>5. FormInv'
    <2> SUFFICES ASSUME NEW d \in Calls
                 PROVE  (/\ pc[d] \notin {"new", "done"} =>
                                form[d].kind \in {"trade", "credit"} /\ Refusal(form[d]) = "none"
                         /\ pc[d] \in {"find", "position", "trade", "outbox"} =>
                                form[d].kind = "trade"
                         /\ pc[d] \in {"journal", "update", "outbox"} => Effective(d))'
      BY DEF FormInv
    <2>1. Refusal(form[d])' = Refusal(form[d])
      BY DEF Refusal
    <2>2. CASE d = c
      BY <1>1, <1>4, <2>1, <2>2 DEF OpenInv, FormInv
    <2>3. CASE d # c
      BY <1>1, <1>4, <2>1, <2>3 DEF OpenInv, FormInv, Same
    <2> QED
      BY <2>2, <2>3
  <1>6. LockInv'
    BY <1>2 DEF OpenInv, LockInv, UpdatedCash, tables
  <1>7. KeyInv'
    <2>1. \A d \in Calls : RequestTaken(d)' <=> RequestTaken(d)
      BY DEF RequestTaken, tables
    <2>2. \A d \in Calls : TradeWritten(d)' => ~RequestTaken(d)'
      BY <1>2, <2>1 DEF OpenInv, KeyInv
    <2>3. \A d, e \in Calls :
            TradeWritten(d)' /\ TradeWritten(e)' /\ form'[d].source = form'[e].source => d = e
      BY <1>2 DEF OpenInv, KeyInv
    <2> QED
      BY <2>2, <2>3 DEF OpenInv, KeyInv, tables
  <1>8. CashNonNegative'
    BY DEF OpenInv, CashNonNegative, tables
  <1> QED
    BY <1>3, <1>5, <1>6, <1>7, <1>8 DEF OpenInv

\* The trade row goes in under a request id nobody else holds.
LEMMA InsertTradeOpenInv ==
    ASSUME TypeOK, OpenInv, NEW c \in Calls, InsertTrade(c)
    PROVE  OpenInv'
  <1> DEFINE label == IF Status(c) = "posted" THEN "journal" ELSE "audit"
  <1>1. /\ pc[c] = "trade" /\ pc'[c] = label /\ Goto(c, pc'[c])
        /\ UNCHANGED <<form, read, locked, tables>>
    BY DEF InsertTrade, Goto, TypeOK
  <1>2. form[c].kind = "trade"
    BY <1>1 DEF OpenInv, FormInv
  <1>3. TradeRow(c)' = TradeRow(c) /\ (Effective(c)' <=> Effective(c))
    BY <1>1, SameRowsOf
  <1>4. Effective(c) <=> Status(c) = "posted"
    BY <1>2 DEF Effective
  <1>5. ~Holds(c) /\ ~Holds(c)' /\ ~TradeWritten(c)
    BY <1>1, <1>3, <1>4 DEF Holds, TradeWritten
  <1>6. pending[c] = NothingPending
    <2>1. PendingRows(c) = NothingPending
      BY <1>1 DEF PendingRows, NothingPending, Holds, TradeWritten
    <2> QED
      BY <2>1 DEF OpenInv
  <1>7. PendingRows(c)' = [NothingPending EXCEPT !.trades = {TradeRow(c)}]
    BY <1>1, <1>2, <1>3, <1>5 DEF PendingRows, NothingPending, TradeWritten
  <1>8. pending' = [pending EXCEPT ![c] = PendingRows(c)']
    BY <1>6, <1>7 DEF InsertTrade, OpenInv
  <1>9. ~RequestTaken(c)
    BY DEF InsertTrade
  <1>10. \A d \in Calls \ {c} : TradeWritten(d) => form[d].source # form[c].source
    <2> SUFFICES ASSUME NEW d \in Calls \ {c}, TradeWritten(d)
                 PROVE  form[d].source # form[c].source
      OBVIOUS
    <2>1. pending[d].trades = {TradeRow(d)}
      BY DEF OpenInv, PendingRows
    <2>2. TradeRow(d).request = form[d].source
      BY DEF TradeRow
    <2> QED
      BY <2>1, <2>2 DEF InsertTrade, RequestHeld
  <1> QED
    BY <1>1, <1>2, <1>4, <1>5, <1>8, <1>9, <1>10, WriteStep

\* The journal row joins the pending rows of its call.
LEMMA InsertJournalOpenInv ==
    ASSUME TypeOK, OpenInv, NEW c \in Calls, InsertJournal(c)
    PROVE  OpenInv'
  <1>1. /\ pc[c] = "journal" /\ pc'[c] = "update" /\ Goto(c, pc'[c])
        /\ UNCHANGED <<form, read, locked, tables>>
    BY DEF InsertJournal, Goto, TypeOK
  <1>2. /\ TradeRow(c)' = TradeRow(c) /\ JournalRow(c)' = JournalRow(c)
        /\ (Effective(c)' <=> Effective(c))
    BY <1>1, SameRowsOf
  <1>3. Effective(c)
    BY <1>1 DEF OpenInv, FormInv
  <1>4. ~Holds(c) /\ ~Holds(c)' /\ (TradeWritten(c)' <=> TradeWritten(c))
    BY <1>1 DEF Holds, TradeWritten
  <1> DEFINE T == IF TradeWritten(c) THEN {TradeRow(c)} ELSE {}
  <1>5. pending[c] = [trades |-> T, journal |-> {}, audit |-> {}, outbox |-> {}]
    BY <1>1, <1>4 DEF OpenInv, PendingRows
  <1>6. PendingRows(c)' =
            [trades |-> T, journal |-> {JournalRow(c)}, audit |-> {}, outbox |-> {}]
    BY <1>1, <1>2, <1>4 DEF PendingRows
  <1>7. pending' = [pending EXCEPT ![c] = PendingRows(c)']
    <2>1. pending' = [pending EXCEPT ![c] = [pending[c] EXCEPT !.journal = {JournalRow(c)}]]
      BY Zenon DEF InsertJournal
    <2>2. [pending[c] EXCEPT !.journal = {JournalRow(c)}] =
            [[trades |-> T, journal |-> {},
              audit |-> {}, outbox |-> {}] EXCEPT !.journal = {JournalRow(c)}]
      BY <1>5, Zenon
    <2>3. [[trades |-> T, journal |-> {},
              audit |-> {}, outbox |-> {}] EXCEPT !.journal = {JournalRow(c)}] =
            [trades |-> T, journal |-> {JournalRow(c)},
              audit |-> {}, outbox |-> {}]
      OBVIOUS
    <2> QED
      BY <2>1, <2>2, <2>3, <1>6
  <1> QED
    BY <1>1, <1>3, <1>4, <1>7, WriteStep

\* The audit row joins the pending rows of its call.
LEMMA InsertAuditOpenInv ==
    ASSUME TypeOK, OpenInv, NEW c \in Calls, InsertAudit(c)
    PROVE  OpenInv'
  <1> DEFINE label == IF form[c].kind = "trade" /\ Status(c) = "posted"
                      THEN "outbox" ELSE "commit"
  <1>1. /\ pc[c] = "audit" /\ pc'[c] = label /\ Goto(c, pc'[c])
        /\ UNCHANGED <<form, read, locked, tables>>
    BY DEF InsertAudit, Goto, TypeOK
  <1>2. /\ TradeRow(c)' = TradeRow(c) /\ JournalRow(c)' = JournalRow(c)
        /\ AuditRow(c)' = AuditRow(c) /\ (Effective(c)' <=> Effective(c))
    BY <1>1, SameRowsOf
  <1>3. /\ Holds(c)' <=> Holds(c)
        /\ TradeWritten(c)' <=> TradeWritten(c)
    BY <1>1, <1>2 DEF Holds, TradeWritten
  <1>4. label = "outbox" => Effective(c) /\ form[c].kind = "trade"
    BY DEF Effective
  <1>5. ~(label = "commit" /\ form[c].kind = "trade" /\ Effective(c))
    BY DEF Effective
  <1> DEFINE T == IF TradeWritten(c) THEN {TradeRow(c)} ELSE {}
             J == IF Holds(c) THEN {JournalRow(c)} ELSE {}
  <1>6. pending[c] = [trades |-> T, journal |-> J, audit |-> {}, outbox |-> {}]
    BY <1>1 DEF OpenInv, PendingRows
  <1>7. PendingRows(c)' =
            [trades |-> T, journal |-> J, audit |-> {AuditRow(c)}, outbox |-> {}]
    BY <1>1, <1>2, <1>3, <1>5 DEF PendingRows
  <1>8. pending' = [pending EXCEPT ![c] = PendingRows(c)']
    <2>1. pending' = [pending EXCEPT ![c] = [pending[c] EXCEPT !.audit = {AuditRow(c)}]]
      BY Zenon DEF InsertAudit
    <2>2. [pending[c] EXCEPT !.audit = {AuditRow(c)}] =
            [[trades |-> T, journal |-> J,
              audit |-> {}, outbox |-> {}] EXCEPT !.audit = {AuditRow(c)}]
      BY <1>6, Zenon
    <2>3. [[trades |-> T, journal |-> J,
              audit |-> {}, outbox |-> {}] EXCEPT !.audit = {AuditRow(c)}] =
            [trades |-> T, journal |-> J,
              audit |-> {AuditRow(c)}, outbox |-> {}]
      OBVIOUS
    <2> QED
      BY <2>1, <2>2, <2>3, <1>7
  <1> QED
    BY <1>1, <1>3, <1>4, <1>8, WriteStep

\* The event joins the pending rows of its call.
LEMMA InsertOutboxOpenInv ==
    ASSUME TypeOK, OpenInv, NEW c \in Calls, InsertOutbox(c)
    PROVE  OpenInv'
  <1>1. /\ pc[c] = "outbox" /\ pc'[c] = "commit" /\ Goto(c, pc'[c])
        /\ UNCHANGED <<form, read, locked, tables>>
    BY DEF InsertOutbox, Goto, TypeOK
  <1>2. /\ TradeRow(c)' = TradeRow(c) /\ JournalRow(c)' = JournalRow(c)
        /\ AuditRow(c)' = AuditRow(c) /\ OutboxRow(c)' = OutboxRow(c)
        /\ (Effective(c)' <=> Effective(c))
    BY <1>1, SameRowsOf
  <1>3. Effective(c) /\ form[c].kind = "trade"
    BY <1>1 DEF OpenInv, FormInv
  <1>4. TradeWritten(c) /\ TradeWritten(c)' /\ Holds(c) /\ Holds(c)'
    BY <1>1, <1>2, <1>3 DEF Holds, TradeWritten
  <1>5. pending[c] = [trades |-> {TradeRow(c)}, journal |-> {JournalRow(c)},
                      audit |-> {AuditRow(c)}, outbox |-> {}]
    BY <1>1, <1>4 DEF OpenInv, PendingRows
  <1>6. PendingRows(c)' = [trades |-> {TradeRow(c)}, journal |-> {JournalRow(c)},
                           audit |-> {AuditRow(c)}, outbox |-> {OutboxRow(c)}]
    BY <1>1, <1>2, <1>3, <1>4 DEF PendingRows
  <1>7. pending' = [pending EXCEPT ![c] = PendingRows(c)']
    <2>1. pending' = [pending EXCEPT ![c] = [pending[c] EXCEPT !.outbox = {OutboxRow(c)}]]
      BY Zenon DEF InsertOutbox
    <2>2. [pending[c] EXCEPT !.outbox = {OutboxRow(c)}] =
            [[trades |-> {TradeRow(c)}, journal |-> {JournalRow(c)},
              audit |-> {AuditRow(c)}, outbox |-> {}] EXCEPT !.outbox = {OutboxRow(c)}]
      BY <1>5, Zenon
    <2>3. [[trades |-> {TradeRow(c)}, journal |-> {JournalRow(c)},
              audit |-> {AuditRow(c)}, outbox |-> {}] EXCEPT !.outbox = {OutboxRow(c)}] =
            [trades |-> {TradeRow(c)}, journal |-> {JournalRow(c)},
              audit |-> {AuditRow(c)}, outbox |-> {OutboxRow(c)}]
      OBVIOUS
    <2> QED
      BY <2>1, <2>2, <2>3, <1>6
  <1> QED
    BY <1>1, <1>4, <1>7, WriteStep

\* The cash update takes a free row lock, for a balance that is not negative.
LEMMA UpdateCashOpenInv ==
    ASSUME TypeOK, OpenInv, NEW c \in Calls, UpdateCash(c)
    PROVE  OpenInv'
  <1> DEFINE a == form[c].order.account
  <1>1. /\ pc[c] = "update" /\ pc' = [pc EXCEPT ![c] = "audit"]
        /\ UNCHANGED <<form, read, pending, tables>>
        /\ locked[a] = NoCall /\ locked' = [locked EXCEPT ![a] = c]
    BY DEF UpdateCash, Goto
  <1>2. pc'[c] = "audit" /\ \A d \in Calls \ {c} : Same(d)
    BY <1>1 DEF TypeOK, Same
  <1>3. \A d \in Calls \ {c} : /\ PendingRows(d)' = PendingRows(d)
                               /\ TradeWritten(d)' <=> TradeWritten(d)
                               /\ Holds(d)' <=> Holds(d)
    BY <1>2, SameRows
  <1>4. \A d \in Calls : Effective(d)' <=> Effective(d)
    BY <1>1, SameRowsOf
  <1>5. /\ TradeRow(c)' = TradeRow(c) /\ JournalRow(c)' = JournalRow(c)
    BY <1>1, SameRowsOf
  <1>6. Effective(c) /\ Refusal(form[c]) = "none"
    BY <1>1 DEF OpenInv, FormInv
  <1>7. Holds(c)' /\ ~Holds(c) /\ (TradeWritten(c)' <=> TradeWritten(c))
    BY <1>1, <1>2, <1>4, <1>6 DEF Holds, TradeWritten
  <1>8. PendingRows(c)' = PendingRows(c)
    BY <1>1, <1>2, <1>5, <1>7 DEF PendingRows
  <1>9. (pending = [d \in Calls |-> PendingRows(d)])'
    BY <1>1, <1>3, <1>8 DEF OpenInv
  <1>10. FormInv'
    BY <1>1, <1>2, <1>4 DEF OpenInv, FormInv, Same, Refusal
  <1>11. LockInv'
    <2>1. \A b \in Accounts : locked'[b] = IF b = a THEN c ELSE locked[b]
      BY <1>1 DEF TypeOK
    <2>2. \A b \in Accounts : locked[b] # c
      BY <1>7 DEF OpenInv, LockInv
    <2>3. \A b \in Accounts, d \in Calls :
            locked'[b] = d <=> Holds(d)' /\ form'[d].order.account = b
      <3> SUFFICES ASSUME NEW b \in Accounts, NEW d \in Calls
                   PROVE  locked'[b] = d <=> Holds(d)' /\ form'[d].order.account = b
        OBVIOUS
      <3>1. CASE d = c
        BY <1>1, <1>7, <2>1, <2>2, <3>1
      <3>2. CASE d # c
        BY <1>1, <1>3, <2>1, <3>2, PostingAssumption DEF OpenInv, LockInv
      <3> QED
        BY <3>1, <3>2
    <2>4. \A d \in Calls : Holds(d)' => UpdatedCash(d)' >= 0
      <3>1. UpdatedCash(c) >= 0
        BY DEF UpdateCash
      <3> QED
        BY <1>1, <1>3, <3>1 DEF OpenInv, LockInv, UpdatedCash, tables
    <2> QED
      BY <2>3, <2>4 DEF LockInv
  <1>12. KeyInv'
    BY <1>1, <1>3, <1>7 DEF OpenInv, KeyInv, RequestTaken, tables
  <1>13. CashNonNegative'
    BY <1>1 DEF OpenInv, CashNonNegative, tables
  <1> QED
    BY <1>9, <1>10, <1>11, <1>12, <1>13 DEF OpenInv

\* What a committing call adds to the trades table.
LEMMA CommittedTrade ==
    ASSUME TypeOK, OpenInv, NEW c \in Calls, Commit(c)
    PROVE  trades' = trades \cup (IF form[c].kind = "trade" THEN {TradeRow(c)} ELSE {})
  <1>1. TradeWritten(c) <=> form[c].kind = "trade"
    BY DEF Commit, TradeWritten
  <1>2. pending[c].trades = IF form[c].kind = "trade" THEN {TradeRow(c)} ELSE {}
    BY <1>1 DEF OpenInv, PendingRows
  <1> QED
    BY <1>2 DEF Commit

\* A commit makes the rows of its call visible and releases its lock.
LEMMA CommitOpenInv ==
    ASSUME TypeOK, OpenInv, NEW c \in Calls, Commit(c)
    PROVE  OpenInv'
  <1>1. pc[c] = "commit" /\ pc' = [pc EXCEPT ![c] = "done"] /\ UNCHANGED <<form, read>>
    BY DEF Commit, Answer, Goto
  <1>2. pc'[c] = "done" /\ \A d \in Calls \ {c} : Same(d)
    BY <1>1 DEF TypeOK, Same
  <1>3. \A d \in Calls \ {c} : /\ PendingRows(d)' = PendingRows(d)
                               /\ TradeWritten(d)' <=> TradeWritten(d)
                               /\ Holds(d)' <=> Holds(d)
                               /\ Effective(d)' <=> Effective(d)
    BY <1>2, SameRows
  <1>4. PendingRows(c)' = NothingPending /\ ~Holds(c)' /\ ~TradeWritten(c)'
    BY <1>2 DEF PendingRows, NothingPending, Holds, TradeWritten
  <1>5. (pending = [d \in Calls |-> PendingRows(d)])'
    BY <1>3, <1>4 DEF OpenInv, Commit
  <1>6. FormInv'
    BY <1>1, <1>2, <1>3 DEF OpenInv, FormInv, Same
  <1>7. LockInv'
    <2>1. \A a \in Accounts :
            /\ locked'[a] = IF locked[a] = c THEN NoCall ELSE locked[a]
            /\ cash'[a] = IF locked[a] = c THEN UpdatedCash(c) ELSE cash[a]
      BY DEF Commit
    <2>2. \A a \in Accounts, d \in Calls :
            locked'[a] = d <=> Holds(d)' /\ form'[d].order.account = a
      BY <1>1, <1>3, <1>4, <2>1, PostingAssumption DEF OpenInv, LockInv
    <2>3. ASSUME NEW d \in Calls, Holds(d)'
          PROVE  UpdatedCash(d)' >= 0
      <3>1. d # c /\ Holds(d)
        BY <1>3, <1>4, <2>3
      <3>2. form[d].order.account \in Accounts
        BY <3>1 DEF OpenInv, FormInv, Holds, Refusal
      <3>3. locked[form[d].order.account] = d
        BY <3>1, <3>2 DEF OpenInv, LockInv
      <3>4. UpdatedCash(d)' = UpdatedCash(d)
        BY <1>1, <2>1, <3>1, <3>2, <3>3 DEF UpdatedCash
      <3> QED
        BY <3>1, <3>4 DEF OpenInv, LockInv
    <2> QED
      BY <2>2, <2>3 DEF LockInv
  <1>8. KeyInv'
    <2>1. trades' = trades \cup (IF form[c].kind = "trade" THEN {TradeRow(c)} ELSE {})
      BY CommittedTrade
    <2>2. TradeRow(c).request = form[c].source
      BY DEF TradeRow
    <2>3. form[c].kind = "trade" => TradeWritten(c)
      BY <1>1 DEF TradeWritten
    <2>4. ASSUME NEW d \in Calls, TradeWritten(d)'
          PROVE  ~RequestTaken(d)'
      <3>1. d # c /\ TradeWritten(d) /\ ~RequestTaken(d)
        BY <1>3, <1>4, <2>4 DEF OpenInv, KeyInv
      <3>2. form[c].kind = "trade" => form[c].source # form[d].source
        BY <2>3, <3>1 DEF OpenInv, KeyInv
      <3> QED
        BY <1>1, <2>1, <2>2, <3>1, <3>2 DEF RequestTaken
    <2>5. \A d, e \in Calls :
            TradeWritten(d)' /\ TradeWritten(e)' /\ form'[d].source = form'[e].source => d = e
      BY <1>1, <1>3, <1>4 DEF OpenInv, KeyInv
    <2>6. \A t, u \in trades' : t.request = u.request => t = u
      BY <2>1, <2>2, <2>3 DEF OpenInv, KeyInv, RequestTaken
    <2> QED
      BY <2>4, <2>5, <2>6 DEF KeyInv
  <1>9. CashNonNegative'
    <2>1. Holds(c) => UpdatedCash(c) >= 0
      BY DEF OpenInv, LockInv
    <2>2. \A a \in Accounts : locked[a] = c => Holds(c)
      BY DEF OpenInv, LockInv
    <2>3. \A a \in Accounts : cash'[a] = IF locked[a] = c THEN UpdatedCash(c) ELSE cash[a]
      BY DEF Commit
    <2> QED
      BY <2>1, <2>2, <2>3 DEF OpenInv, CashNonNegative
  <1> QED
    BY <1>5, <1>6, <1>7, <1>8, <1>9 DEF OpenInv

\* Every statement keeps the inductive invariant.
LEMMA StepOpenInv == TypeOK /\ OpenInv /\ [Next]_vars => OpenInv'
  <1> SUFFICES ASSUME TypeOK, OpenInv, [Next]_vars
               PROVE  OpenInv'
    OBVIOUS
  <1>1. ASSUME NEW c \in Calls,
               \/ InsertTradeDuplicate(c) \/ InsertJournalFails(c)
               \/ UpdateCashFails(c) \/ Rollback(c)
        PROVE  OpenInv'
    BY <1>1, AbortOpenInv
       DEF InsertTradeDuplicate, InsertJournalFails, UpdateCashFails, Rollback
  <1>2. CASE UNCHANGED vars
    BY <1>2 DEF vars, callVars, tables, OpenInv, PendingRows, FormInv, LockInv, KeyInv,
                CashNonNegative, TradeWritten, Holds, Effective, RequestTaken, UpdatedCash,
                TradeRow, JournalRow, AuditRow, OutboxRow, Status, FirstViolation, PositionAfter
  <1>3. ASSUME NEW c \in Calls, Step(c)
        PROVE  OpenInv'
    BY <1>1, <1>3, EarlyOpenInv, InsertTradeOpenInv, InsertJournalOpenInv,
       UpdateCashOpenInv, InsertAuditOpenInv, InsertOutboxOpenInv, CommitOpenInv
       DEF Step
  <1> QED
    BY <1>1, <1>2, <1>3 DEF Next, Served

-----------------------------------------------------------------------------
(* The committed rows *)

\* At the start nothing is committed and nobody was told anything.
LEMMA InitSettled == Init => Settled
  <1> SUFFICES ASSUME Init
               PROVE  Settled
    OBVIOUS
  <1>1. Committed = {} /\ Posted = {}
    BY DEF Init, Committed, Posted
  <1>2. ToldInv
    <2>1. Told = {}
      BY DEF Init, Told
    <2> QED
      BY <2>1 DEF Init, ToldInv
  <1>3. IsFiniteSet(trades) /\ IsFiniteSet(journal)
    BY FS_EmptySet DEF Init
  <1>4. /\ trades = {TradeRow(c) : c \in Committed}
        /\ {j \in journal : j.source \in Requests} = {JournalRow(c) : c \in Posted}
        /\ {x \in audit : x.source \in Requests} = {AuditRow(c) : c \in Committed}
        /\ outbox = {OutboxRow(c) : c \in Posted}
    BY <1>1 DEF Init
  <1> QED
    BY <1>1, <1>2, <1>3, <1>4 DEF Settled

\* A committed call is over.
LEMMA CommittedCalls ==
    ASSUME TypeOK, Settled
    PROVE  /\ Committed \subseteq Calls
           /\ Posted \subseteq Committed
           /\ \A c \in Committed : pc[c] = "done" /\ form[c].kind = "trade"
  BY DEF TypeOK, Settled, Committed, Posted

\* A step that writes no table keeps the committed rows as they were.
LEMMA SettledKept ==
    ASSUME TypeOK, Settled, NEW c \in Calls, pc[c] # "done",
           \A d \in Calls \ {c} : Same(d), UNCHANGED tables, ToldInv'
    PROVE  Settled'
  <1>1. Committed' = Committed
    BY DEF Committed, tables
  <1>2. /\ Committed \subseteq Calls \ {c}
        /\ \A d \in Committed : pc[d] = "done" /\ form[d].kind = "trade"
    BY CommittedCalls
  <1>3. \A d \in Committed : Same(d)
    BY <1>2
  <1>4. \A d \in Committed : /\ TradeRow(d)' = TradeRow(d)
                             /\ JournalRow(d)' = JournalRow(d)
                             /\ AuditRow(d)' = AuditRow(d)
                             /\ OutboxRow(d)' = OutboxRow(d)
                             /\ Status(d)' = Status(d)
    BY <1>2, <1>3, SameRowsOf DEF Same
  <1>5. Posted' = Posted /\ Posted \subseteq Committed
    BY <1>1, <1>4 DEF Posted
  <1>6. \A d \in Committed' : pc'[d] = "done" /\ form'[d].kind = "trade"
    BY <1>1, <1>2, <1>3 DEF Same
  <1>7. trades' = {TradeRow(d)' : d \in Committed'}
    <2>1. {TradeRow(d)' : d \in Committed'} = {TradeRow(d) : d \in Committed}
      BY <1>1, <1>4
    <2> QED
      BY <2>1 DEF Settled, tables
  <1>8. {j \in journal' : j.source \in Requests} = {JournalRow(d)' : d \in Posted'}
    <2>1. {JournalRow(d)' : d \in Posted'} = {JournalRow(d) : d \in Posted}
      BY <1>4, <1>5
    <2> QED
      BY <2>1 DEF Settled, tables
  <1>9. {x \in audit' : x.source \in Requests} = {AuditRow(d)' : d \in Committed'}
    <2>1. {AuditRow(d)' : d \in Committed'} = {AuditRow(d) : d \in Committed}
      BY <1>1, <1>4
    <2> QED
      BY <2>1 DEF Settled, tables
  <1>10. outbox' = {OutboxRow(d)' : d \in Posted'}
    <2>1. {OutboxRow(d)' : d \in Posted'} = {OutboxRow(d) : d \in Posted}
      BY <1>4, <1>5
    <2> QED
      BY <2>1 DEF Settled, tables
  <1>11. IsFiniteSet(trades') /\ IsFiniteSet(journal')
    BY DEF Settled, tables
  <1> QED
    BY <1>6, <1>7, <1>8, <1>9, <1>10, <1>11 DEF Settled

\* A step that answers nobody leaves what was told as it was.
LEMMA ToldKept ==
    ASSUME TypeOK, Settled, NEW c \in Calls, pc[c] # "done", pc'[c] # "done",
           \A d \in Calls \ {c} : Same(d), UNCHANGED <<reply, trades>>
    PROVE  ToldInv'
  <1>1. Told' = Told /\ c \notin Told
    BY DEF Told, Same
  <1>2. \A d \in Told : d \in Calls /\ Same(d)
    BY <1>1 DEF Told
  <1>3. \A d \in Told : TradeRow(d)' = TradeRow(d) /\ form'[d] = form[d]
    BY <1>2, SameRowsOf DEF Same
  <1> QED
    BY <1>1, <1>3 DEF Settled, ToldInv

\* A step that answers one call adds what it tells it, if that is about a trade.
LEMMA ToldAnswer ==
    ASSUME TypeOK, Settled, NEW c \in Calls, pc[c] # "done", NEW answer,
           Answer(c, answer), \A d \in Calls \ {c} : Same(d), trades \subseteq trades',
           "trade" \in DOMAIN answer => /\ answer.trade \in trades'
                                        /\ answer.trade.request = form'[c].source
                                        /\ answer.created => answer.trade = TradeRow(c)'
    PROVE  ToldInv'
  <1>1. reply' = [reply EXCEPT ![c] = answer] /\ reply = [d \in Calls |-> reply[d]]
    BY DEF Answer, Settled, ToldInv
  <1>2. reply'[c] = answer /\ \A d \in Calls \ {c} : reply'[d] = reply[d]
    BY <1>1
  <1>3. reply' = [d \in Calls |-> reply'[d]]
    BY <1>1
  <1>4. ASSUME NEW d \in Told'
        PROVE  /\ reply'[d].trade \in trades'
               /\ reply'[d].trade.request = form'[d].source
               /\ reply'[d].created => reply'[d].trade = TradeRow(d)'
    <2>1. d \in Calls /\ pc'[d] = "done" /\ "trade" \in DOMAIN reply'[d]
      BY <1>4 DEF Told
    <2>2. CASE d = c
      <3>1. "trade" \in DOMAIN answer
        BY <1>2, <2>1, <2>2
      <3>2. /\ answer.trade \in trades'
            /\ answer.trade.request = form'[c].source
            /\ answer.created => answer.trade = TradeRow(c)'
        BY <3>1, Zenon
      <3>3. reply'[d] = answer
        BY <1>2, <2>2
      <3>4. reply'[d].trade \in trades' /\ reply'[d].trade.request = form'[d].source
        BY <2>2, <3>2, <3>3
      <3>5. TradeRow(d)' = TradeRow(c)'
        BY <2>2 DEF TradeRow, Status, FirstViolation, PositionAfter
      <3>6. reply'[d].created => reply'[d].trade = TradeRow(d)'
        BY <3>2, <3>3, <3>5, Zenon
      <3> QED
        BY <3>4, <3>6
    <2>3. CASE d # c
      <3>1. Same(d) /\ reply'[d] = reply[d]
        BY <1>2, <2>1, <2>3
      <3>2. d \in Told
        BY <2>1, <3>1 DEF Told, Same
      <3>3. TradeRow(d)' = TradeRow(d) /\ form'[d] = form[d]
        BY <2>1, <3>1, SameRowsOf DEF Same
      <3>4. /\ reply[d].trade \in trades
            /\ reply[d].trade.request = form[d].source
            /\ reply[d].created => reply[d].trade = TradeRow(d)
        BY <3>2 DEF Settled, ToldInv
      <3>5. reply'[d].trade \in trades' /\ reply'[d].trade.request = form'[d].source
        BY <3>1, <3>3, <3>4
      <3>6. reply'[d].created => reply'[d].trade = TradeRow(d)'
        BY <3>1, <3>3, <3>4
      <3> QED
        BY <3>5, <3>6
    <2> QED
      BY <2>2, <2>3
  <1> QED
    BY <1>3, <1>4 DEF ToldInv

\* A rollback leaves the committed rows, and tells of no trade.
LEMMA AbortSettled ==
    ASSUME TypeOK, Settled, NEW c \in Calls, pc[c] # "done", Abort(c)
    PROVE  Settled'
  <1>1. \A d \in Calls \ {c} : Same(d)
    BY DEF Abort, Answer, Goto, TypeOK, Same
  <1>2. UNCHANGED tables
    BY DEF Abort
  <1>3. Answer(c, [code |-> "500"]) /\ "trade" \notin DOMAIN [code |-> "500"]
    BY DEF Abort
  <1>4. ToldInv'
    <2>1. trades \subseteq trades'
      BY <1>2 DEF tables
    <2> DEFINE answer == [code |-> "500"]
    <2> HIDE DEF answer
    <2>2. Answer(c, answer) /\ "trade" \notin DOMAIN answer
      BY <1>3 DEF answer
    <2> QED
      BY <1>1, <2>1, <2>2, ToldAnswer
  <1> QED
    BY <1>1, <1>2, <1>4, SettledKept

\* What a committing call adds to each table.
LEMMA CommittedRows ==
    ASSUME TypeOK, OpenInv, NEW c \in Calls, Commit(c)
    PROVE  /\ trades' = trades \cup (IF form[c].kind = "trade" THEN {TradeRow(c)} ELSE {})
           /\ journal' = journal \cup (IF Effective(c) THEN {JournalRow(c)} ELSE {})
           /\ audit' = audit \cup {AuditRow(c)}
           /\ outbox' = outbox \cup (IF form[c].kind = "trade" /\ Effective(c)
                                     THEN {OutboxRow(c)} ELSE {})
  <1>1. pc[c] = "commit" /\ pending[c] = PendingRows(c)
    BY DEF Commit, OpenInv
  <1>2. Holds(c) <=> Effective(c)
    BY <1>1 DEF Holds
  <1>3. pending[c].journal = IF Effective(c) THEN {JournalRow(c)} ELSE {}
    BY <1>1, <1>2 DEF PendingRows
  <1>4. pending[c].audit = {AuditRow(c)}
    BY <1>1 DEF PendingRows
  <1>5. pending[c].outbox = IF form[c].kind = "trade" /\ Effective(c)
                            THEN {OutboxRow(c)} ELSE {}
    BY <1>1 DEF PendingRows
  <1>6. /\ journal' = journal \cup pending[c].journal
        /\ audit' = audit \cup pending[c].audit
        /\ outbox' = outbox \cup pending[c].outbox
    BY DEF Commit
  <1> QED
    BY <1>3, <1>4, <1>5, <1>6, CommittedTrade

\* The rows of a call name its source event and the call.
LEMMA RowsOfCall ==
    ASSUME NEW c \in Calls, form[c].kind \in {"trade", "credit"}
    PROVE  /\ TradeRow(c).trade = c /\ TradeRow(c).request = form[c].source
           /\ TradeRow(c).status = Status(c)
           /\ JournalRow(c).source = form[c].source /\ JournalRow(c).entry = c
           /\ AuditRow(c).source = form[c].source
           /\ AuditRow(c).outcome = (IF form[c].kind = "trade" /\ Status(c) = "rejected"
                                     THEN "rejected" ELSE "accepted")
           /\ OutboxRow(c).source = form[c].source
           /\ Status(c) \in {"posted", "rejected"}
  BY DEF TradeRow, JournalRow, AuditRow, OutboxRow, Status

\* A commit adds the rows of its call to the committed ones, all together.
LEMMA CommitSettled ==
    ASSUME TypeOK, OpenInv, Settled, NEW c \in Calls, Commit(c)
    PROVE  Settled'
  <1>1. pc[c] = "commit" /\ pc' = [pc EXCEPT ![c] = "done"] /\ UNCHANGED <<form, read>>
    BY DEF Commit, Answer, Goto
  <1>2. pc'[c] = "done" /\ \A d \in Calls \ {c} : Same(d)
    BY <1>1 DEF TypeOK, Same
  <1>3. form[c].kind \in {"trade", "credit"}
    BY <1>1 DEF OpenInv, FormInv
  <1>4. /\ form[c].kind = "trade" => form[c].source \in Requests
        /\ form[c].kind = "credit" => form[c].source \notin Requests
    BY FormShape, PostingAssumption DEF TypeOK
  <1>5. Effective(c) <=> form[c].kind = "credit" \/ Status(c) = "posted"
    BY <1>3 DEF Effective
  <1> DEFINE isTrade == form[c].kind = "trade"
             isPosted == form[c].kind = "trade" /\ Status(c) = "posted"
  <1>6. /\ trades' = trades \cup (IF isTrade THEN {TradeRow(c)} ELSE {})
        /\ journal' = journal \cup (IF Effective(c) THEN {JournalRow(c)} ELSE {})
        /\ audit' = audit \cup {AuditRow(c)}
        /\ outbox' = outbox \cup (IF isPosted THEN {OutboxRow(c)} ELSE {})
    BY <1>5, CommittedRows
  <1>7. /\ TradeRow(c).trade = c /\ TradeRow(c).request = form[c].source
        /\ JournalRow(c).source = form[c].source /\ AuditRow(c).source = form[c].source
    BY <1>3, RowsOfCall
  <1>8. /\ Committed \subseteq Calls
        /\ \A d \in Committed : pc[d] = "done" /\ form[d].kind = "trade"
    BY CommittedCalls
  <1>9. \A d \in Calls : /\ TradeRow(d)' = TradeRow(d)
                         /\ JournalRow(d)' = JournalRow(d)
                         /\ AuditRow(d)' = AuditRow(d)
                         /\ OutboxRow(d)' = OutboxRow(d)
                         /\ Status(d)' = Status(d)
    BY <1>1, SameRowsOf
  <1>10. Committed' = Committed \cup (IF isTrade THEN {c} ELSE {})
    BY <1>6, <1>7 DEF Committed
  <1>11. Posted' = Posted \cup (IF isPosted THEN {c} ELSE {})
    BY <1>8, <1>9, <1>10 DEF Posted
  <1>12. Committed' \subseteq Calls /\ Posted' \subseteq Calls
    BY <1>8, <1>10, <1>11 DEF Posted
  <1>13. \A d \in Committed' : pc'[d] = "done" /\ form'[d].kind = "trade"
    BY <1>1, <1>2, <1>8, <1>10 DEF Same
  <1>14. trades' = {TradeRow(d)' : d \in Committed'}
    <2>1. {TradeRow(d)' : d \in Committed'} = {TradeRow(d) : d \in Committed'}
      BY <1>9, <1>12
    <2>2. trades = {TradeRow(d) : d \in Committed}
      BY DEF Settled
    <2> QED
      BY <1>6, <1>10, <2>1, <2>2
  <1>15. {j \in journal' : j.source \in Requests} = {JournalRow(d)' : d \in Posted'}
    <2>1. {JournalRow(d)' : d \in Posted'} = {JournalRow(d) : d \in Posted'}
      BY <1>9, <1>12
    <2>2. {j \in journal : j.source \in Requests} = {JournalRow(d) : d \in Posted}
      BY DEF Settled
    <2>3. {j \in journal' : j.source \in Requests} =
            {j \in journal : j.source \in Requests}
                \cup (IF isPosted THEN {JournalRow(c)} ELSE {})
      BY <1>3, <1>4, <1>5, <1>6, <1>7
    <2> QED
      BY <1>11, <2>1, <2>2, <2>3
  <1>16. {x \in audit' : x.source \in Requests} = {AuditRow(d)' : d \in Committed'}
    <2>1. {AuditRow(d)' : d \in Committed'} = {AuditRow(d) : d \in Committed'}
      BY <1>9, <1>12
    <2>2. {x \in audit : x.source \in Requests} = {AuditRow(d) : d \in Committed}
      BY DEF Settled
    <2>3. {x \in audit' : x.source \in Requests} =
            {x \in audit : x.source \in Requests} \cup (IF isTrade THEN {AuditRow(c)} ELSE {})
      BY <1>3, <1>4, <1>6, <1>7
    <2> QED
      BY <1>10, <2>1, <2>2, <2>3
  <1>17. outbox' = {OutboxRow(d)' : d \in Posted'}
    <2>1. {OutboxRow(d)' : d \in Posted'} = {OutboxRow(d) : d \in Posted'}
      BY <1>9, <1>12
    <2>2. outbox = {OutboxRow(d) : d \in Posted}
      BY DEF Settled
    <2> QED
      BY <1>6, <1>11, <2>1, <2>2
  <1>18. IsFiniteSet(trades') /\ IsFiniteSet(journal')
    <2>1. IsFiniteSet(trades) /\ IsFiniteSet(journal)
      BY DEF Settled
    <2>2. IsFiniteSet(trades \cup {TradeRow(c)}) /\ IsFiniteSet(journal \cup {JournalRow(c)})
      BY <2>1, FS_AddElement
    <2> QED
      BY <1>6, <2>1, <2>2
  <1>19. ToldInv'
    <2>1. PICK answer \in {CommitAnswer(c), [code |-> "lost"]} : Answer(c, answer)
      BY DEF Commit
    <2>2. "trade" \in DOMAIN answer => /\ form[c].kind = "trade"
                                       /\ answer.trade = TradeRow(c)
      BY <1>3, <2>1 DEF CommitAnswer
    <2>3. "trade" \in DOMAIN answer => /\ answer.trade \in trades'
                                       /\ answer.trade.request = form'[c].source
                                       /\ answer.created => answer.trade = TradeRow(c)'
      BY <1>1, <1>6, <1>7, <1>9, <2>2
    <2>4. trades \subseteq trades'
      BY <1>6
    <2> QED
      BY <1>1, <1>2, <2>1, <2>3, <2>4, ToldAnswer
  <1> QED
    BY <1>13, <1>14, <1>15, <1>16, <1>17, <1>18, <1>19 DEF Settled

\* Every statement keeps the committed rows in order.
LEMMA StepSettled == TypeOK /\ Inductive /\ [Next]_vars => Settled'
  <1> SUFFICES ASSUME TypeOK, OpenInv, Settled, [Next]_vars
               PROVE  Settled'
    BY DEF Inductive
  <1>1. ASSUME NEW c \in Calls,
               \/ InsertTradeDuplicate(c) \/ InsertJournalFails(c)
               \/ UpdateCashFails(c) \/ Rollback(c)
        PROVE  Settled'
    <2>1. pc[c] # "done" /\ Abort(c)
      BY <1>1 DEF InsertTradeDuplicate, InsertJournalFails, UpdateCashFails, Rollback
    <2> QED
      BY <2>1, AbortSettled
  <1>2. ASSUME NEW c \in Calls,
               \/ SubmitTrade(c) \/ SubmitCredit(c) \/ FindNothing(c) \/ ReadCash(c)
               \/ ReadPosition(c) \/ InsertTrade(c) \/ InsertJournal(c) \/ UpdateCash(c)
               \/ InsertAudit(c) \/ InsertOutbox(c)
        PROVE  Settled'
    <2>1. pc[c] # "done" /\ UNCHANGED <<reply, tables>>
      BY <1>2 DEF SubmitTrade, SubmitCredit, FindNothing, ReadCash, ReadPosition,
                  InsertTrade, InsertJournal, UpdateCash, InsertAudit, InsertOutbox
    <2>2. pc'[c] # "done" /\ \A d \in Calls \ {c} : pc'[d] = pc[d]
      BY <1>2 DEF TypeOK, Goto, SubmitTrade, SubmitCredit, FindNothing, ReadCash,
                  ReadPosition, InsertTrade, InsertJournal, UpdateCash, InsertAudit, InsertOutbox
    <2>3. \A d \in Calls \ {c} : form'[d] = form[d] /\ read'[d] = read[d]
      BY <1>2 DEF TypeOK, SubmitTrade, SubmitCredit, FindNothing, ReadCash, ReadPosition,
                  InsertTrade, InsertJournal, UpdateCash, InsertAudit, InsertOutbox
    <2>4. \A d \in Calls \ {c} : Same(d)
      BY <2>2, <2>3 DEF Same
    <2>5. UNCHANGED <<reply, trades>>
      BY <2>1 DEF tables
    <2>6. ToldInv'
      BY <2>1, <2>2, <2>4, <2>5, ToldKept
    <2> QED
      BY <2>1, <2>4, <2>6, SettledKept
  <1>3. ASSUME NEW c \in Calls, SubmitRefused(c)
        PROVE  Settled'
    <2>1. pc[c] # "done" /\ UNCHANGED tables
      BY <1>3 DEF SubmitRefused
    <2>2. PICK code : Answer(c, [code |-> code])
      BY <1>3 DEF SubmitRefused
    <2>3. \A d \in Calls \ {c} : Same(d)
      BY <1>3 DEF SubmitRefused, Answer, Goto, TypeOK, Same
    <2> DEFINE answer == [code |-> code]
    <2>4. Answer(c, answer) /\ "trade" \notin DOMAIN answer /\ trades \subseteq trades'
      BY <2>1, <2>2 DEF tables
    <2> HIDE DEF answer
    <2>5. ToldInv'
      BY <2>1, <2>3, <2>4, ToldAnswer
    <2> QED
      BY <2>1, <2>3, <2>5, SettledKept
  <1>4. ASSUME NEW c \in Calls, FindReplay(c)
        PROVE  Settled'
    <2>1. pc[c] # "done" /\ UNCHANGED <<form, tables>>
      BY <1>4 DEF FindReplay
    <2>2. PICK t \in trades :
            /\ t.request = form[c].source
            /\ Answer(c, [code |-> IF t.status = "rejected" THEN "409" ELSE "200",
                          created |-> FALSE, trade |-> t])
      BY <1>4 DEF FindReplay
    <2>3. \A d \in Calls \ {c} : Same(d)
      BY <1>4 DEF FindReplay, Answer, Goto, TypeOK, Same
    <2> DEFINE answer == [code |-> IF t.status = "rejected" THEN "409" ELSE "200",
                          created |-> FALSE, trade |-> t]
    <2>4. /\ Answer(c, answer) /\ trades \subseteq trades' /\ answer.trade \in trades'
          /\ answer.trade.request = form'[c].source /\ ~answer.created
      BY <2>1, <2>2 DEF tables
    <2> HIDE DEF answer
    <2>5. ToldInv'
      BY <2>1, <2>3, <2>4, ToldAnswer
    <2> QED
      BY <2>1, <2>3, <2>5, SettledKept
  <1>5. CASE UNCHANGED vars
    BY <1>5 DEF vars, callVars, tables, Settled, ToldInv, Told, Committed, Posted,
                TradeRow, JournalRow, AuditRow, OutboxRow, Status, FirstViolation, PositionAfter
  <1> QED
    BY <1>1, <1>2, <1>3, <1>4, <1>5, CommitSettled DEF Next, Step, Served

-----------------------------------------------------------------------------
(* What a NUMERIC(20, 4) column does to money *)

\* A floor quotient is the integer whose multiple is the last one up to x.
LEMMA DivBounds ==
    ASSUME NEW x \in Int, NEW d \in Nat \ {0}
    PROVE  x \div d \in Int /\ d * (x \div d) <= x /\ x < d * (x \div d) + d
  OBVIOUS

\* Only one integer is such a quotient.
LEMMA DivUnique ==
    ASSUME NEW x \in Int, NEW d \in Nat \ {0}, NEW q \in Int, d * q <= x, x < d * q + d
    PROVE  x \div d = q
  <1> DEFINE p == x \div d
  <1>1. p \in Int /\ d * p <= x /\ x < d * p + d
    BY DivBounds
  <1> HIDE DEF p
  <1>2. CASE p < q
    <2>1. d * (p + 1) <= d * q
      BY <1>1, <1>2
    <2> QED BY <1>1, <2>1
  <1>3. CASE q < p
    <2>1. d * (q + 1) <= d * p
      BY <1>1, <1>3
    <2> QED BY <1>1, <2>1
  <1>4. p = q BY <1>1, <1>2, <1>3
  <1> QED BY <1>4 DEF p

\* A stored value: a multiple of the unit of the column.
IsStored(x) == \E k \in Int : x = Scale * k

\* Writing to the column yields a value it can hold, half a unit off at most.
LEMMA StoredNear ==
    ASSUME NEW x \in Int
    PROVE  /\ IsStored(Stored(x))
           /\ Stored(x) \in Int
           /\ Stored(x) - x <= Scale \div 2 /\ x - Stored(x) <= Scale \div 2
  <1> DEFINE half == Scale \div 2
             d == 2 * Scale
             up == (2 * x + Scale) \div d
             down == (Scale - 2 * x) \div d
  <1>1. half \in Int /\ 2 * half <= Scale /\ Scale < 2 * half + 2
    BY ScaleAssumption, DivBounds
  <1>2. d \in Nat \ {0} /\ 2 * x + Scale \in Int /\ Scale - 2 * x \in Int
    BY ScaleAssumption
  <1>3. up \in Int /\ d * up <= 2 * x + Scale /\ 2 * x + Scale < d * up + d
    <2> HIDE DEF d
    <2> QED
      BY <1>2, DivBounds
  <1>4. down \in Int /\ d * down <= Scale - 2 * x /\ Scale - 2 * x < d * down + d
    <2> HIDE DEF d
    <2> QED
      BY <1>2, DivBounds
  <1> HIDE DEF half, up, down
  <1>5. CASE x >= 0
    <2>1. Stored(x) = Scale * up
      BY <1>3, <1>5, ScaleAssumption DEF Stored, up
    <2>2. d * up = 2 * (Scale * up) /\ Scale * up \in Int
      BY <1>3, ScaleAssumption
    <2> DEFINE s == Scale * up
    <2>3. 2 * s <= 2 * x + Scale /\ 2 * x + Scale < 2 * s + 2 * Scale /\ s \in Int
      BY <1>3, <2>2
    <2> HIDE DEF s
    <2>4. s - x <= half /\ x - s <= half
      BY <1>1, <2>3, ScaleAssumption
    <2> QED
      BY <1>3, <2>1, <2>3, <2>4 DEF s, half, IsStored
  <1>6. CASE x < 0
    <2>1. Stored(x) = -(Scale * down)
      BY <1>4, <1>6, ScaleAssumption DEF Stored, down
    <2>2. d * down = 2 * (Scale * down) /\ Scale * down \in Int
      BY <1>4, ScaleAssumption
    <2> DEFINE s == Scale * down
    <2>3. 2 * s <= Scale - 2 * x /\ Scale - 2 * x < 2 * s + 2 * Scale /\ s \in Int
      BY <1>4, <2>2
    <2> HIDE DEF s
    <2>4. (-s) - x <= half /\ x - (-s) <= half
      BY <1>1, <2>3, ScaleAssumption
    <2>5. -(Scale * down) = Scale * (-down) /\ -down \in Int
      BY <1>4, ScaleAssumption
    <2>6. Stored(x) = -s
      BY <2>1 DEF s
    <2>7. IsStored(Stored(x))
      BY <2>1, <2>5 DEF IsStored
    <2> QED
      BY <2>3, <2>4, <2>6, <2>7 DEF half
  <1> QED
    BY <1>5, <1>6

\* A value the column can hold is written as it is.
LEMMA StoredFixed ==
    ASSUME NEW x \in Int, IsStored(x)
    PROVE  Stored(x) = x
  <1>1. PICK k \in Int : x = Scale * k
    BY DEF IsStored
  <1> DEFINE d == 2 * Scale
  <1>2. d \in Nat \ {0}
    BY ScaleAssumption
  <1>3. CASE x >= 0
    <2>1. d * k <= 2 * x + Scale /\ 2 * x + Scale < d * k + d /\ 2 * x + Scale \in Int
      BY <1>1, ScaleAssumption
    <2>2. (2 * x + Scale) \div d = k
      <3> HIDE DEF d
      <3> QED
        BY <1>2, <2>1, DivUnique
    <2>3. k * Scale = x
      BY <1>1, ScaleAssumption
    <2> QED
      BY <1>3, <2>2, <2>3 DEF Stored
  <1>4. CASE x < 0
    <2>1. /\ d * (-k) <= Scale - 2 * x /\ Scale - 2 * x < d * (-k) + d
          /\ Scale - 2 * x \in Int /\ -k \in Int
      BY <1>1, ScaleAssumption
    <2>2. (Scale - 2 * x) \div d = -k
      <3> HIDE DEF d
      <3> QED
        BY <1>2, <2>1, DivUnique
    <2>3. -((-k) * Scale) = x
      BY <1>1, ScaleAssumption
    <2> QED
      BY <1>4, <2>2, <2>3 DEF Stored
  <1> QED
    BY <1>3, <1>4

\* Added to a balance that the column holds, a credit is rounded by itself.
LEMMA StoredShift ==
    ASSUME NEW x \in Int, IsStored(x), x >= 0, NEW y \in Int, y >= 0
    PROVE  Stored(x + y) = x + Stored(y)
  <1>1. PICK k \in Int : x = Scale * k
    BY DEF IsStored
  <1> DEFINE d == 2 * Scale
             q == (2 * y + Scale) \div d
  <1>2. d \in Nat \ {0} /\ 2 * y + Scale \in Int
    BY ScaleAssumption
  <1>3. q \in Int /\ d * q <= 2 * y + Scale /\ 2 * y + Scale < d * q + d
    <2> HIDE DEF d
    <2> QED
      BY <1>2, DivBounds
  <1> HIDE DEF q
  <1>4. d * (k + q) = 2 * x + d * q
    BY <1>1, <1>3, ScaleAssumption
  <1>5. /\ d * (k + q) <= 2 * (x + y) + Scale /\ 2 * (x + y) + Scale < d * (k + q) + d
        /\ 2 * (x + y) + Scale \in Int /\ k + q \in Int
    <2>1. d * q \in Int
      BY <1>3, ScaleAssumption
    <2> DEFINE dq == d * q
               dkq == d * (k + q)
    <2>2. /\ dq \in Int /\ dq <= 2 * y + Scale /\ 2 * y + Scale < dq + d /\ dkq = 2 * x + dq
      BY <1>3, <1>4, <2>1
    <2> HIDE DEF dq, dkq
    <2>3. dkq <= 2 * (x + y) + Scale /\ 2 * (x + y) + Scale < dkq + d
      BY <2>2, ScaleAssumption
    <2> QED
      BY <1>3, <2>3, ScaleAssumption DEF dkq
  <1>6. (2 * (x + y) + Scale) \div d = k + q
    <2> HIDE DEF d
    <2> QED
      BY <1>2, <1>5, DivUnique
  <1>7. Stored(x + y) = (k + q) * Scale
    BY <1>6 DEF Stored
  <1>8. Stored(y) = q * Scale
    BY DEF Stored, q
  <1> QED
    BY <1>1, <1>3, <1>7, <1>8, ScaleAssumption

\* Sums and opposites of values the column can hold are such values.
LEMMA StoredGroup ==
    ASSUME NEW x \in Int, IsStored(x), NEW y \in Int, IsStored(y)
    PROVE  IsStored(x + y) /\ IsStored(-x)
  <1>1. PICK k \in Int : x = Scale * k
    BY DEF IsStored
  <1>2. PICK m \in Int : y = Scale * m
    BY DEF IsStored
  <1>3. k + m \in Int /\ -k \in Int /\ x + y = Scale * (k + m) /\ -x = Scale * (-k)
    BY <1>1, <1>2, ScaleAssumption
  <1> QED
    BY <1>3 DEF IsStored

\* The fixed points of Stored are the values the column can hold.
LEMMA StoredIff ==
    ASSUME NEW x \in Int
    PROVE  Stored(x) = x <=> IsStored(x)
  BY StoredNear, StoredFixed

-----------------------------------------------------------------------------
(* The committed money *)

\* At the start the tables are empty and the balances are stored ones.
LEMMA InitPriced == Init => Priced
  BY PostingAssumption, FS_EmptySet DEF Init, Priced

\* What a call that commits does to the ledger, in money.
Moves(c, a) == Effective(c) /\ form[c].order.account = a

\* A commit changes the balance of its account, to the stored sum, and adds an
\* entry of its own, with the stored amount; a trade also adds an event of its own.
LEMMA CommitMoney ==
    ASSUME TypeOK, OpenInv, Settled, Priced, NEW c \in Calls, Commit(c)
    PROVE  /\ Delta(form[c]) \in Int
           /\ form[c].order.account \in Accounts
           /\ cash' = [a \in Accounts |->
                        IF Moves(c, a) THEN Stored(cash[a] + Delta(form[c])) ELSE cash[a]]
           /\ journal' = journal \cup (IF Effective(c) THEN {JournalRow(c)} ELSE {})
           /\ outbox' = outbox \cup (IF form[c].kind = "trade" /\ Effective(c)
                                     THEN {OutboxRow(c)} ELSE {})
           /\ JournalRow(c) \notin journal
           /\ OutboxRow(c) \notin outbox
           /\ JournalRow(c).entry = c /\ JournalRow(c).amount \in Int
           /\ JournalRow(c).account = form[c].order.account
           /\ OutboxRow(c).account = form[c].order.account
           /\ OutboxRow(c).cash_delta = CashDelta(form[c].order)
           /\ form[c].kind = "trade" => CashDelta(form[c].order) \in Int
  <1>1. pc[c] = "commit"
    BY DEF Commit
  <1>2. /\ form[c].kind \in {"trade", "credit"} /\ Refusal(form[c]) = "none"
        /\ form[c].order.account \in Accounts
    BY <1>1 DEF OpenInv, FormInv, Refusal
  <1>3. Delta(form[c]) \in Int
    BY <1>2, FormShape DEF TypeOK
  <1>4. \A a \in Accounts : locked[a] = c <=> Moves(c, a)
    BY <1>1 DEF OpenInv, LockInv, Holds, Moves
  <1>5. cash' = [a \in Accounts |-> IF locked[a] = c THEN UpdatedCash(c) ELSE cash[a]]
    BY DEF Commit
  <1>6. \A a \in Accounts : Moves(c, a) => UpdatedCash(c) = Stored(cash[a] + Delta(form[c]))
    BY DEF Moves, UpdatedCash
  <1>7. /\ JournalRow(c).entry = c /\ JournalRow(c).account = form[c].order.account
        /\ form[c].kind = "credit" => JournalRow(c).amount = Stored(form[c].order.amount)
        /\ form[c].kind # "credit" => JournalRow(c).amount = Stored(Amount(form[c].order))
    BY DEF JournalRow
  <1>8. JournalRow(c).amount \in Int
    <2>1. form[c].kind = "trade" => Amount(form[c].order) \in Int
      BY FormShape, AmountType DEF TypeOK
    <2>2. form[c].kind = "credit" => form[c].order.amount \in Int
      BY <1>3 DEF Delta
    <2> QED
      BY <1>2, <1>7, <2>1, <2>2, StoredType
  <1>9. JournalRow(c) \notin journal
    BY <1>1, <1>7 DEF Priced
  <1>10. OutboxRow(c) \notin outbox
    <2>1. \A d : OutboxRow(d).event = d
      BY DEF OutboxRow
    <2>2. \A d \in Posted : d # c
      BY <1>1, CommittedCalls
    <2> QED
      BY <2>1, <2>2 DEF Settled
  <1>11. /\ OutboxRow(c).account = form[c].order.account
         /\ OutboxRow(c).cash_delta = CashDelta(form[c].order)
    BY DEF OutboxRow
  <1>12. form[c].kind = "trade" => CashDelta(form[c].order) \in Int
    BY <1>3 DEF Delta
  <1>13. cash' = [a \in Accounts |->
                    IF Moves(c, a) THEN Stored(cash[a] + Delta(form[c])) ELSE cash[a]]
    BY <1>4, <1>5, <1>6
  <1> QED
    BY <1>2, <1>3, <1>7, <1>8, <1>9, <1>10, <1>11, <1>12, <1>13, CommittedRows

\* A commit keeps the committed money.
LEMMA CommitPriced ==
    ASSUME TypeOK, OpenInv, Settled, Priced, NEW c \in Calls, Commit(c)
    PROVE  Priced'
  <1>1. pc' = [pc EXCEPT ![c] = "done"]
    BY DEF Commit, Answer, Goto
  <1>2. pc'[c] = "done" /\ \A d \in Calls \ {c} : pc'[d] = pc[d]
    BY <1>1 DEF TypeOK
  <1>3. \A j \in journal' : j.entry \in Calls /\ pc'[j.entry] = "done" /\ j.amount \in Int
    <2>1. \A j \in journal : j.entry \in Calls /\ pc'[j.entry] = "done" /\ j.amount \in Int
      BY <1>2 DEF Priced
    <2>2. JournalRow(c).entry = c /\ JournalRow(c).amount \in Int
      BY CommitMoney
    <2>3. \A j \in journal' : j \in journal \/ j = JournalRow(c)
      BY CommittedRows
    <2> QED
      BY <1>2, <2>1, <2>2, <2>3
  <1>4. \A e \in outbox' : e.cash_delta \in Int
    BY CommitMoney DEF Priced
  <1>5. IsFiniteSet(outbox')
    <2>1. IsFiniteSet(outbox) /\ IsFiniteSet(outbox \cup {OutboxRow(c)})
      BY FS_AddElement DEF Priced
    <2>2. outbox' = outbox \/ outbox' = outbox \cup {OutboxRow(c)}
      BY CommittedRows
    <2> QED
      BY <2>1, <2>2
  <1>6. ASSUME NEW a \in Accounts
        PROVE  Stored(cash'[a]) = cash'[a]
    <2>1. cash[a] \in Int /\ Stored(cash[a]) = cash[a]
      BY DEF TypeOK, Priced
    <2>2. cash'[a] = IF Moves(c, a) THEN Stored(cash[a] + Delta(form[c])) ELSE cash[a]
      BY CommitMoney
    <2>3. cash[a] + Delta(form[c]) \in Int
      BY <2>1, CommitMoney
    <2>4. Stored(Stored(cash[a] + Delta(form[c]))) = Stored(cash[a] + Delta(form[c]))
      BY <2>3, StoredNear, StoredFixed
    <2> QED
      BY <2>1, <2>2, <2>4
  <1> QED
    BY <1>3, <1>4, <1>5, <1>6 DEF Priced

\* Only a commit writes the tables; other steps move a call that is not over.
LEMMA OtherSteps ==
    ASSUME TypeOK, [Next]_vars, ~ \E c \in Calls : Commit(c)
    PROVE  /\ UNCHANGED tables
           /\ \A d \in Calls : pc[d] = "done" => pc'[d] = "done"
  <1>1. UNCHANGED tables
    BY DEF Next, Step, Served, vars, SubmitRefused, SubmitTrade, SubmitCredit,
       FindReplay, FindNothing, ReadCash, ReadPosition, InsertTrade, InsertTradeDuplicate,
       InsertJournal, InsertJournalFails, UpdateCash, UpdateCashFails, InsertAudit,
       InsertOutbox, Rollback, Abort
  <1>2. ASSUME NEW d \in Calls, pc[d] = "done"
        PROVE  pc'[d] = "done"
    <2>1. CASE UNCHANGED vars
      BY <1>2, <2>1 DEF vars, callVars
    <2>2. ASSUME NEW c \in Calls, pc[c] # "done", NEW label, Goto(c, label)
          PROVE  pc'[d] = "done"
      BY <1>2, <2>2 DEF Goto, TypeOK
    <2>3. ASSUME NEW c \in Calls, Step(c) \/ Rollback(c)
          PROVE  pc[c] # "done" /\ \E label : Goto(c, label)
      <3>1. CASE \/ SubmitRefused(c) \/ FindReplay(c)
        BY <3>1 DEF SubmitRefused, FindReplay, Answer
      <3>2. CASE \/ SubmitTrade(c) \/ SubmitCredit(c) \/ FindNothing(c) \/ ReadCash(c)
                 \/ ReadPosition(c)
        BY <3>2 DEF SubmitTrade, SubmitCredit, FindNothing, ReadCash, ReadPosition
      <3>3. CASE \/ InsertTrade(c) \/ InsertJournal(c) \/ UpdateCash(c)
                 \/ InsertAudit(c) \/ InsertOutbox(c)
        BY <3>3 DEF InsertTrade, InsertJournal, UpdateCash, InsertAudit, InsertOutbox
      <3>4. CASE \/ InsertTradeDuplicate(c) \/ InsertJournalFails(c)
                 \/ UpdateCashFails(c) \/ Rollback(c)
        BY <3>4 DEF InsertTradeDuplicate, InsertJournalFails, UpdateCashFails, Rollback,
                    Abort, Answer
      <3> QED
        BY <2>3, <3>1, <3>2, <3>3, <3>4 DEF Step
    <2> QED
      BY <2>1, <2>2, <2>3 DEF Next, Served
  <1> QED
    BY <1>1, <1>2

\* Every statement keeps the committed money.
LEMMA StepPriced == TypeOK /\ Inductive /\ [Next]_vars => Priced'
  <1> SUFFICES ASSUME TypeOK, OpenInv, Settled, Priced, [Next]_vars
               PROVE  Priced'
    BY DEF Inductive
  <1>1. CASE \E c \in Calls : Commit(c)
    BY <1>1, CommitPriced
  <1>2. CASE ~ \E c \in Calls : Commit(c)
    <2>1. /\ UNCHANGED <<cash, journal, outbox>>
          /\ \A d \in Calls : pc[d] = "done" => pc'[d] = "done"
      BY <1>2, OtherSteps DEF tables
    <2> QED
      BY <2>1 DEF Priced
  <1> QED
    BY <1>1, <1>2

-----------------------------------------------------------------------------
(* Theorems *)

\* In every reachable state the variables have their types, every open
\* transaction has done exactly what its position says and the committed rows
\* are those of the committed calls (LedgerService.postTrade and creditAccount,
\* statement by statement).
THEOREM Correct == Spec => [](TypeOK /\ Inductive)
  <1>1. Init => TypeOK /\ Inductive
    BY InitType, InitOpenInv, InitSettled, InitPriced DEF Inductive
  <1>2. TypeOK /\ Inductive /\ [Next]_vars => (TypeOK /\ Inductive)'
    BY StepType, StepOpenInv, StepSettled, StepPriced DEF Inductive
  <1> QED
    BY <1>1, <1>2, PTL DEF Spec

\* Every variable of the posting path keeps its type.
THEOREM TypeCorrect == Spec => []TypeOK
  BY Correct, PTL

\* No interleaving of trades and credits, of any number of calls, drives an
\* account's committed cash below zero (chk_accounts_cash_non_negative holds at
\* every commit, whatever the compliance check had read).
THEOREM CashNeverNegative == Spec => []CashNonNegative
  <1>1. Inductive => CashNonNegative
    BY DEF Inductive, OpenInv
  <1> QED
    BY <1>1, Correct, PTL

\* The answers follow from what was told and from the uniqueness of request ids.
LEMMA AnswersFollow == TypeOK /\ Inductive => AnswersAgree
  <1> SUFFICES ASSUME TypeOK, OpenInv, Settled
               PROVE  AnswersAgree
    BY DEF Inductive
  <1>1. \A c \in Told : /\ c \in Calls /\ reply[c].trade \in trades
                        /\ reply[c].trade.request = form[c].source
                        /\ reply[c].created => reply[c].trade = TradeRow(c)
    BY DEF Settled, ToldInv, Told
  <1>2. \A c, d \in Told : form[c].source = form[d].source => reply[c].trade = reply[d].trade
    <2>1. \A t, u \in trades : t.request = u.request => t = u
      BY DEF OpenInv, KeyInv
    <2>2. \A c \in Told : reply[c].trade \in trades /\ reply[c].trade.request = form[c].source
      BY <1>1
    <2> QED
      BY <2>1, <2>2
  <1>3. \A c, d \in Told : (/\ form[c].source = form[d].source
                           /\ reply[c].created
                           /\ reply[d].created) => c = d
    <2> SUFFICES ASSUME NEW c \in Told, NEW d \in Told, form[c].source = form[d].source,
                        reply[c].created, reply[d].created
                 PROVE  c = d
      OBVIOUS
    <2>1. reply[c].trade = TradeRow(c) /\ reply[d].trade = TradeRow(d)
      BY <1>1
    <2>2. TradeRow(c) = TradeRow(d)
      BY <1>2, <2>1, Zenon
    <2> QED
      BY <2>2 DEF TradeRow
  <1> QED
    BY <1>1, <1>2, <1>3 DEF AnswersAgree

\* However often a request id is sent, also at the same time, its clients are
\* told of one trade, the committed one, and at most one is told it created it
\* (TradeController.submitTrade, findTradeByRequestId, trades.request_id UNIQUE).
THEOREM AnswersTrue == Spec => []AnswersAgree
  BY AnswersFollow, Correct, PTL

\* The rows of a request id are those of the one call that committed it.
LEMMA EffectsFollow == TypeOK /\ Inductive => EffectsAtomic
  <1> SUFFICES ASSUME TypeOK, OpenInv, Settled, NEW r \in Requests
               PROVE  <<Cardinality(Outcomes(r, "posted")), Cardinality(Entries(r)),
                        Cardinality(Audits(r, "accepted")), Cardinality(Events(r)),
                        Cardinality(Outcomes(r, "rejected")), Cardinality(Audits(r, "rejected"))>>
                      \in {<<0, 0, 0, 0, 0, 0>>, <<1, 1, 1, 1, 0, 0>>, <<0, 0, 0, 0, 1, 1>>}
    BY DEF Inductive, EffectsAtomic
  <1> DEFINE Mine == {c \in Committed : form[c].source = r}
  <1>1. \A c \in Committed : c \in Calls /\ form[c].kind = "trade"
    BY CommittedCalls
  <1>2. \A c \in Committed :
          /\ TradeRow(c).trade = c /\ TradeRow(c).request = form[c].source
          /\ TradeRow(c).status = Status(c)
          /\ JournalRow(c).source = form[c].source
          /\ AuditRow(c).source = form[c].source
          /\ AuditRow(c).outcome = (IF Status(c) = "rejected" THEN "rejected" ELSE "accepted")
          /\ OutboxRow(c).source = form[c].source
          /\ Status(c) \in {"posted", "rejected"}
    BY <1>1, RowsOfCall
  <1>3. /\ \A s : Outcomes(r, s) = {TradeRow(c) : c \in {d \in Mine : Status(d) = s}}
        /\ \A x : Audits(r, x) = {AuditRow(c) : c \in {d \in Mine : AuditRow(d).outcome = x}}
        /\ Entries(r) = {JournalRow(c) : c \in {d \in Mine : Status(d) = "posted"}}
        /\ Events(r) = {OutboxRow(c) : c \in {d \in Mine : Status(d) = "posted"}}
    <2>1. /\ trades = {TradeRow(c) : c \in Committed}
          /\ {j \in journal : j.source \in Requests} = {JournalRow(c) : c \in Posted}
          /\ {x \in audit : x.source \in Requests} = {AuditRow(c) : c \in Committed}
          /\ outbox = {OutboxRow(c) : c \in Posted}
      BY DEF Settled
    <2>2. \A s : Outcomes(r, s) = {TradeRow(c) : c \in {d \in Mine : Status(d) = s}}
      BY <1>2, <2>1 DEF Outcomes
    <2>3. \A x : Audits(r, x) = {AuditRow(c) : c \in {d \in Mine : AuditRow(d).outcome = x}}
      <3> TAKE x
      <3>1. Audits(r, x) = {y \in {z \in audit : z.source \in Requests} :
                              y.source = r /\ y.outcome = x}
        BY DEF Audits
      <3> QED
        BY <1>2, <2>1, <3>1
    <2>4. Entries(r) = {JournalRow(c) : c \in {d \in Mine : Status(d) = "posted"}}
      <3>1. Entries(r) = {j \in {k \in journal : k.source \in Requests} : j.source = r}
        BY DEF Entries
      <3> QED
        BY <1>2, <2>1, <3>1 DEF Posted
    <2>5. Events(r) = {OutboxRow(c) : c \in {d \in Mine : Status(d) = "posted"}}
      BY <1>2, <2>1 DEF Events, Posted
    <2> QED
      BY <2>2, <2>3, <2>4, <2>5
  <1>4. \A S : S = {} => Cardinality(S) = 0
    BY FS_EmptySet
  <1>5. \A x : Cardinality({x}) = 1
    BY FS_Singleton
  <1>6. CASE Mine = {}
    <2>1. /\ Outcomes(r, "posted") = {} /\ Outcomes(r, "rejected") = {}
          /\ Audits(r, "accepted") = {} /\ Audits(r, "rejected") = {}
          /\ Entries(r) = {} /\ Events(r) = {}
      BY <1>3, <1>6
    <2> QED
      BY <1>4, <2>1
  <1>7. CASE Mine # {}
    <2>1. PICK c \in Committed : form[c].source = r
      BY <1>7
    <2>2. Mine = {c}
      <3>1. \A d \in Mine : TradeRow(d) = TradeRow(c)
        <4>1. \A d \in Committed : TradeRow(d) \in trades
          BY DEF Settled
        <4> QED
          BY <1>2, <2>1, <4>1 DEF OpenInv, KeyInv
      <3> QED
        BY <1>2, <2>1, <3>1
    <2>3. CASE Status(c) = "posted"
      <3>1. {d \in Mine : Status(d) = "posted"} = {c} /\ {d \in Mine : Status(d) = "rejected"} = {}
        BY <2>2, <2>3
      <3>2. /\ {d \in Mine : AuditRow(d).outcome = "accepted"} = {c}
            /\ {d \in Mine : AuditRow(d).outcome = "rejected"} = {}
        BY <1>2, <2>2, <2>3
      <3> HIDE DEF Mine
      <3>3. /\ Outcomes(r, "posted") = {TradeRow(c)} /\ Outcomes(r, "rejected") = {}
            /\ Audits(r, "accepted") = {AuditRow(c)} /\ Audits(r, "rejected") = {}
            /\ Entries(r) = {JournalRow(c)} /\ Events(r) = {OutboxRow(c)}
        BY <1>3, <3>1, <3>2
      <3> QED
        BY <1>4, <1>5, <3>3
    <2>4. CASE Status(c) = "rejected"
      <3>1. {d \in Mine : Status(d) = "rejected"} = {c} /\ {d \in Mine : Status(d) = "posted"} = {}
        BY <2>2, <2>4
      <3>2. /\ {d \in Mine : AuditRow(d).outcome = "rejected"} = {c}
            /\ {d \in Mine : AuditRow(d).outcome = "accepted"} = {}
        BY <1>2, <2>2, <2>4
      <3> HIDE DEF Mine
      <3>3. /\ Outcomes(r, "rejected") = {TradeRow(c)} /\ Outcomes(r, "posted") = {}
            /\ Audits(r, "rejected") = {AuditRow(c)} /\ Audits(r, "accepted") = {}
            /\ Entries(r) = {} /\ Events(r) = {}
        BY <1>3, <3>1, <3>2
      <3> QED
        BY <1>4, <1>5, <3>3
    <2> QED
      BY <1>2, <2>1, <2>3, <2>4
  <1> QED
    BY <1>6, <1>7

\* However many calls carry a request id, with whatever orders and aborts, it
\* has no effect, or one posted trade with one entry, one audit row and one
\* event, or one rejected trade with its audit row (LedgerService.postTrade:
\* "every accepted trade writes, in ONE transaction").
THEOREM EffectsAllOrNothing == Spec => []EffectsAtomic
  BY EffectsFollow, Correct, PTL

-----------------------------------------------------------------------------
(* Cash, its journal and its events *)

\* The amount of a call, in full: every amount fits the column.
ExactMoney ==
    /\ \A o \in Orders : Stored(Amount(o)) = Amount(o)
    /\ \A k \in Credits : Stored(k.amount) = k.amount

\* The line a committing call writes for an account of the table: what the
\* call moves, each amount as the column stores it.
LEMMA LineOfCall ==
    ASSUME TypeOK, OpenInv, Settled, Priced, NEW c \in Calls, Commit(c), NEW a \in Accounts
    PROVE  Line(JournalRow(c), a) =
             IF form[c].order.account # a THEN 0
             ELSE IF form[c].kind = "credit" THEN Stored(form[c].order.amount)
             ELSE IF form[c].order.side = "BUY" THEN -Stored(Amount(form[c].order))
             ELSE Stored(Amount(form[c].order))
  <1>1. a # "securities" /\ a # "funding"
    BY PostingAssumption
  <1>2. CASE form[c].kind = "credit"
    <2>1. /\ JournalRow(c).debit = form[c].order.account
          /\ JournalRow(c).credit = "funding"
          /\ JournalRow(c).amount = Stored(form[c].order.amount)
      BY <1>2 DEF JournalRow
    <2> QED
      BY <1>1, <1>2, <2>1 DEF Line
  <1>3. CASE form[c].kind # "credit" /\ form[c].order.side = "BUY"
    <2>1. /\ JournalRow(c).debit = "securities"
          /\ JournalRow(c).credit = form[c].order.account
          /\ JournalRow(c).amount = Stored(Amount(form[c].order))
      BY <1>3 DEF JournalRow
    <2> QED
      BY <1>1, <1>3, <2>1 DEF Line
  <1>4. CASE form[c].kind # "credit" /\ form[c].order.side # "BUY"
    <2>1. /\ JournalRow(c).debit = form[c].order.account
          /\ JournalRow(c).credit = "securities"
          /\ JournalRow(c).amount = Stored(Amount(form[c].order))
      BY <1>4 DEF JournalRow
    <2> QED
      BY <1>1, <1>4, <2>1 DEF Line
  <1> QED
    BY <1>2, <1>3, <1>4

\* Exact amounts are moved exactly: the line is the change of the balance.
LEMMA ExactCommit ==
    ASSUME TypeOK, OpenInv, Settled, Priced, ExactMoney, NEW c \in Calls, Commit(c),
           Effective(c), NEW a \in Accounts
    PROVE  cash'[a] = cash[a] + Line(JournalRow(c), a)
  <1>1. /\ cash'[a] = IF form[c].order.account = a
                      THEN Stored(cash[a] + Delta(form[c])) ELSE cash[a]
        /\ Delta(form[c]) \in Int
    BY CommitMoney DEF Moves
  <1>2. cash[a] \in Int /\ IsStored(cash[a])
    BY StoredIff DEF TypeOK, Priced
  <1>3. form[c].kind \in {"trade", "credit"}
    BY DEF Effective
  <1>4. IsStored(Delta(form[c])) /\ form[c].order.account = a
            => Line(JournalRow(c), a) = Delta(form[c])
    <2>1. CASE form[c].kind = "credit"
      <3>1. Delta(form[c]) = form[c].order.amount
        BY <2>1 DEF Delta
      <3>2. form[c].order \in Credits
        BY <2>1, FormShape DEF TypeOK
      <3> QED
        BY <2>1, <3>1, <3>2, LineOfCall DEF ExactMoney
    <2>2. CASE form[c].kind = "trade"
      <3>1. Delta(form[c]) = CashDelta(form[c].order)
        BY <2>2 DEF Delta
      <3>2. form[c].order \in Orders
        BY <2>2, FormShape DEF TypeOK
      <3>3. Stored(Amount(form[c].order)) = Amount(form[c].order)
        BY <3>2 DEF ExactMoney
      <3> QED
        BY <2>2, <3>1, <3>3, LineOfCall DEF CashDelta
    <2> QED
      BY <1>3, <2>1, <2>2
  <1>5. IsStored(Delta(form[c]))
    <2>1. CASE form[c].kind = "credit"
      <3>1. Delta(form[c]) = form[c].order.amount /\ form[c].order \in Credits
        BY <2>1, FormShape DEF TypeOK, Delta
      <3> QED
        BY <1>1, <3>1, StoredIff DEF ExactMoney
    <2>2. CASE form[c].kind = "trade"
      <3>1. Delta(form[c]) = CashDelta(form[c].order) /\ form[c].order \in Orders
        BY <2>2, FormShape DEF TypeOK, Delta
      <3>2. Amount(form[c].order) \in Int /\ Stored(Amount(form[c].order)) = Amount(form[c].order)
        BY <3>1, AmountType DEF ExactMoney
      <3>3. IsStored(Amount(form[c].order)) /\ IsStored(-Amount(form[c].order))
        BY <3>2, StoredIff, StoredGroup
      <3> QED
        BY <3>1, <3>3 DEF CashDelta
    <2> QED
      BY <1>3, <2>1, <2>2
  <1>6. CASE form[c].order.account = a
    <2>1. cash[a] + Delta(form[c]) \in Int /\ IsStored(cash[a] + Delta(form[c]))
      BY <1>1, <1>2, <1>5, StoredGroup
    <2>2. Stored(cash[a] + Delta(form[c])) = cash[a] + Delta(form[c])
      BY <2>1, StoredFixed
    <2> QED
      BY <1>1, <1>4, <1>5, <1>6, <2>2
  <1>7. CASE form[c].order.account # a
    <2>1. Line(JournalRow(c), a) = 0
      BY <1>7, LineOfCall
    <2> QED
      BY <1>1, <1>2, <1>7, <2>1
  <1> QED
    BY <1>6, <1>7

\* The lines of an account add up to an integer.
LEMMA LineType ==
    ASSUME Priced, NEW j \in journal, NEW a
    PROVE  Line(j, a) \in Int
  BY DEF Priced, Line

\* An entry more is a line more.
LEMMA LineSumAdd ==
    ASSUME Priced, IsFiniteSet(journal), NEW j, j \notin journal, j.amount \in Int,
           journal' = journal \cup {j}, NEW a
    PROVE  LineSum(a)' = Line(j, a) + LineSum(a)
  <1> DEFINE v == [k \in journal |-> Line(k, a)]
             w == [k \in journal \cup {j} |-> Line(k, a)]
  <1>1. \A k \in journal \cup {j} : w[k] \in Int
    BY DEF Priced, Line
  <1>2. \A k \in journal : v[k] = w[k]
    OBVIOUS
  <1>3. w[j] = Line(j, a) /\ DOMAIN v = journal /\ DOMAIN w = journal \cup {j}
    OBVIOUS
  <1>4. LineSum(a) = SumFunction(v)
    BY DEF LineSum
  <1>5. LineSum(a)' = SumFunction(w)
    BY DEF LineSum, Line
  <1> HIDE DEF v, w
  <1>6. SumFunction(w) = w[j] + SumFunction(v)
    <2>1. OneMore(w, v, journal, j)
      BY <1>1, <1>2, <1>3 DEF OneMore
    <2> QED
      BY <1>3, <2>1, SumFunctionAdd
  <1> QED
    BY <1>3, <1>4, <1>5, <1>6

\* The lines of an account add up to an integer.
LEMMA LineSumType ==
    ASSUME Priced, IsFiniteSet(journal), NEW a
    PROVE  LineSum(a) \in Int
  <1> DEFINE v == [k \in journal |-> Line(k, a)]
  <1>1. \A k \in journal : v[k] \in Int
    BY DEF Priced, Line
  <1>2. DOMAIN v = journal /\ LineSum(a) = SumFunction(v)
    BY DEF LineSum
  <1> HIDE DEF v
  <1>3. SumFunctionOnSet(v, journal) \in Int
    BY <1>1, SumType
  <1> QED
    BY <1>2, <1>3 DEF SumFunction

\* The empty ledger explains the opening balances.
LEMMA InitMatches == Init => CashMatchesJournal
  <1> SUFFICES ASSUME Init, NEW a \in Accounts
               PROVE  cash[a] = Opening[a] + LineSum(a)
    BY DEF CashMatchesJournal
  <1> DEFINE v == [k \in journal |-> Line(k, a)]
  <1>1. cash = Opening /\ journal = {} /\ Opening[a] \in Int
    BY PostingAssumption DEF Init
  <1>2. DOMAIN v = {} /\ LineSum(a) = SumFunction(v)
    BY <1>1 DEF LineSum
  <1> HIDE DEF v
  <1>3. LineSum(a) = 0
    BY <1>2, SumEmpty DEF SumFunction
  <1> QED
    BY <1>1, <1>3

\* A commit moves the balance and its lines together.
LEMMA CommitMatches ==
    ASSUME TypeOK, OpenInv, Settled, Priced, ExactMoney, CashMatchesJournal,
           NEW c \in Calls, Commit(c)
    PROVE  CashMatchesJournal'
  <1> SUFFICES ASSUME NEW a \in Accounts
               PROVE  cash'[a] = Opening[a] + LineSum(a)'
    BY DEF CashMatchesJournal
  <1>1. cash[a] = Opening[a] + LineSum(a) /\ Opening[a] \in Int /\ LineSum(a) \in Int
    <2>1. IsFiniteSet(journal)
      BY DEF Settled
    <2>2. LineSum(a) \in Int
      BY <2>1, LineSumType
    <2>3. Opening[a] \in Int
      BY PostingAssumption
    <2> QED
      BY <2>2, <2>3 DEF CashMatchesJournal
  <1>2. CASE Effective(c)
    <2>1. /\ journal' = journal \cup {JournalRow(c)} /\ JournalRow(c) \notin journal
          /\ JournalRow(c).amount \in Int /\ IsFiniteSet(journal)
      BY <1>2, CommitMoney DEF Settled
    <2>2. LineSum(a)' = Line(JournalRow(c), a) + LineSum(a)
      BY <2>1, LineSumAdd
    <2>3. Line(JournalRow(c), a) \in Int
      BY <2>1 DEF Line
    <2> QED
      BY <1>1, <1>2, <2>2, <2>3, ExactCommit
  <1>3. CASE ~Effective(c)
    <2>1. journal' = journal
      BY <1>3, CommittedRows
    <2>2. ~Moves(c, a)
      BY <1>3 DEF Moves
    <2>3. cash'[a] = cash[a]
      BY <2>2, CommitMoney
    <2>4. LineSum(a)' = LineSum(a)
      BY <2>1 DEF LineSum, Line
    <2> QED
      BY <1>1, <2>3, <2>4
  <1> QED
    BY <1>2, <1>3

\* Where the tables are not written, cash and journal still agree.
LEMMA StepMatches ==
    TypeOK /\ Inductive /\ ExactMoney /\ CashMatchesJournal /\ [Next]_vars => CashMatchesJournal'
  <1> SUFFICES ASSUME TypeOK, OpenInv, Settled, Priced, ExactMoney, CashMatchesJournal, [Next]_vars
               PROVE  CashMatchesJournal'
    BY DEF Inductive
  <1>1. CASE \E c \in Calls : Commit(c)
    BY <1>1, CommitMatches
  <1>2. CASE ~ \E c \in Calls : Commit(c)
    <2>1. UNCHANGED <<cash, journal>>
      BY <1>2, OtherSteps DEF tables
    <2>2. \A a \in Accounts : LineSum(a)' = LineSum(a)
      BY <2>1 DEF LineSum, Line
    <2> QED
      BY <2>1, <2>2 DEF CashMatchesJournal
  <1> QED
    BY <1>1, <1>2

\* When every amount fits the column, the cash of every account is, after any
\* interleaving of postings and credits, its opening balance plus its journal
\* lines: updateCash and insertJournalLine never disagree (LedgerService).
\* Without the premise it is false: the column rounds the sum and the line
\* the amount, and halves of opposite signs are rounded apart.
THEOREM CashMatches ==
    ASSUME ExactMoney
    PROVE  Spec => []CashMatchesJournal
  <1>1. Init => CashMatchesJournal
    BY InitMatches
  <1>2. TypeOK /\ Inductive /\ CashMatchesJournal /\ [Next]_vars => CashMatchesJournal'
    BY StepMatches, ExactMoney
  <1> QED
    BY <1>1, <1>2, Correct, PTL DEF Spec

\* The three sums a consumer compares, over sets that a commit may extend.
AnnouncedOf(a) == {f \in outbox : f.account = a}
\* The credits of the account.
CreditedOf(a) == {k \in journal : k.debit = a /\ k.credit = "funding"}
\* The entries posted to it.
PostedOf(a) == {j \in journal : j.account = a}

\* How far the balance is from what the events and the credits explain.
Drift(a) == cash[a] - (Opening[a] + Announced(a) + Credited(a))

\* The sums are integers over finite sets.
LEMMA SumsOfEvents ==
    ASSUME Settled, Priced, NEW a
    PROVE  /\ Announced(a) \in Int /\ Credited(a) \in Int
           /\ IsFiniteSet(AnnouncedOf(a)) /\ IsFiniteSet(CreditedOf(a))
           /\ IsFiniteSet(PostedOf(a)) /\ Cardinality(PostedOf(a)) \in Nat
  <1>1. IsFiniteSet(AnnouncedOf(a))
    BY FS_Subset DEF Priced, AnnouncedOf
  <1>2. IsFiniteSet(CreditedOf(a))
    BY FS_Subset DEF Settled, CreditedOf
  <1>3. IsFiniteSet(PostedOf(a))
    BY FS_Subset DEF Settled, PostedOf
  <1>4. Announced(a) \in Int
    <2> DEFINE v == [e \in AnnouncedOf(a) |-> e.cash_delta]
    <2>1. \A e \in AnnouncedOf(a) : v[e] \in Int
      BY DEF Priced, AnnouncedOf
    <2>2. DOMAIN v = AnnouncedOf(a) /\ Announced(a) = SumFunction(v)
      BY DEF Announced, AnnouncedOf
    <2> HIDE DEF v
    <2> QED
      BY <1>1, <2>1, <2>2, SumFunctionFacts
  <1>5. Credited(a) \in Int
    <2> DEFINE v == [j \in CreditedOf(a) |-> j.amount]
    <2>1. \A j \in CreditedOf(a) : v[j] \in Int
      BY DEF Priced, CreditedOf
    <2>2. DOMAIN v = CreditedOf(a) /\ Credited(a) = SumFunction(v)
      BY DEF Credited, CreditedOf
    <2> HIDE DEF v
    <2> QED
      BY <1>2, <2>1, <2>2, SumFunctionFacts
  <1> QED
    BY <1>1, <1>2, <1>3, <1>4, <1>5, FS_CardinalityType

\* An event more is announced by its cash_delta.
LEMMA AnnouncedAdd ==
    ASSUME Settled, Priced, NEW a, NEW e, e \notin outbox, e.cash_delta \in Int,
           AnnouncedOf(a)' = AnnouncedOf(a) \cup {e}
    PROVE  Announced(a)' = e.cash_delta + Announced(a)
  <1> DEFINE S == AnnouncedOf(a)
             v == [f \in S |-> f.cash_delta]
             w == [f \in S \cup {e} |-> f.cash_delta]
  <1>1. Announced(a) = SumFunction(v)
    BY DEF Announced, AnnouncedOf
  <1>2. Announced(a)' = SumFunction(w)
    BY DEF Announced, AnnouncedOf
  <1>3. DOMAIN v = S /\ DOMAIN w = S \cup {e} /\ w[e] = e.cash_delta
    OBVIOUS
  <1>4. e \notin S
    BY DEF AnnouncedOf
  <1>5. \A f \in S \cup {e} : w[f] \in Int
    BY DEF Priced, AnnouncedOf
  <1>6. \A f \in S : v[f] = w[f]
    OBVIOUS
  <1>7. IsFiniteSet(S)
    BY SumsOfEvents
  <1> HIDE DEF S, v, w
  <1>8. OneMore(w, v, S, e)
    BY <1>4, <1>5, <1>6, <1>7 DEF OneMore
  <1> QED
    BY <1>1, <1>2, <1>3, <1>8, SumFunctionAdd

\* A credit entry more is credited by its amount.
LEMMA CreditedAdd ==
    ASSUME Settled, Priced, NEW a, NEW j, j \notin journal, j.amount \in Int,
           CreditedOf(a)' = CreditedOf(a) \cup {j}
    PROVE  Credited(a)' = j.amount + Credited(a)
  <1> DEFINE S == CreditedOf(a)
             v == [k \in S |-> k.amount]
             w == [k \in S \cup {j} |-> k.amount]
  <1>1. Credited(a) = SumFunction(v)
    BY DEF Credited, CreditedOf
  <1>2. Credited(a)' = SumFunction(w)
    BY DEF Credited, CreditedOf
  <1>3. DOMAIN v = S /\ DOMAIN w = S \cup {j} /\ w[j] = j.amount
    OBVIOUS
  <1>4. j \notin S
    BY DEF CreditedOf
  <1>5. \A k \in S \cup {j} : w[k] \in Int
    BY DEF Priced, CreditedOf
  <1>6. \A k \in S : v[k] = w[k]
    OBVIOUS
  <1>7. IsFiniteSet(S)
    BY SumsOfEvents
  <1> HIDE DEF S, v, w
  <1>8. OneMore(w, v, S, j)
    BY <1>4, <1>5, <1>6, <1>7 DEF OneMore
  <1> QED
    BY <1>1, <1>2, <1>3, <1>8, SumFunctionAdd

\* Sums over unchanged sets are unchanged.
LEMMA SumsKept ==
    ASSUME NEW a
    PROVE  /\ AnnouncedOf(a)' = AnnouncedOf(a) => Announced(a)' = Announced(a)
           /\ CreditedOf(a)' = CreditedOf(a) => Credited(a)' = Credited(a)
  BY DEF Announced, AnnouncedOf, Credited, CreditedOf

\* The bound grows with the postings of the account.
DriftBounded(a) ==
    /\ Drift(a) <= (Scale \div 2) * Cardinality(PostedOf(a))
    /\ -Drift(a) <= (Scale \div 2) * Cardinality(PostedOf(a))

\* The property is that bound for every account.
LEMMA ExplainsIff == EventsExplainCash <=> \A a \in Accounts : DriftBounded(a)
  BY DEF EventsExplainCash, DriftBounded, Drift, PostedOf

\* A posted trade of the account: the event is exact, the balance rounded.
LEMMA TradeDrift ==
    ASSUME TypeOK, OpenInv, Settled, Priced, NEW c \in Calls, Commit(c),
           form[c].kind = "trade", Effective(c), NEW a \in Accounts,
           form[c].order.account = a
    PROVE  /\ Drift(a)' - Drift(a) <= Scale \div 2
           /\ Drift(a) - Drift(a)' <= Scale \div 2
           /\ Drift(a) \in Int /\ Drift(a)' \in Int
  <1> DEFINE delta == CashDelta(form[c].order)
  <1>1. delta \in Int /\ Delta(form[c]) = delta
    BY CommitMoney DEF Delta
  <1>2. cash[a] \in Int /\ Opening[a] \in Int
    BY PostingAssumption DEF TypeOK
  <1>3. cash'[a] = Stored(cash[a] + delta)
    BY <1>1, CommitMoney DEF Moves
  <1>4. AnnouncedOf(a)' = AnnouncedOf(a) \cup {OutboxRow(c)}
    BY CommitMoney DEF AnnouncedOf
  <1>5. Announced(a)' = delta + Announced(a)
    BY <1>1, <1>4, AnnouncedAdd, CommitMoney
  <1>6. CreditedOf(a)' = CreditedOf(a)
    <2>1. journal' = journal \cup {JournalRow(c)}
      BY CommitMoney
    <2>2. ~(JournalRow(c).debit = a /\ JournalRow(c).credit = "funding")
      <3>1. a # "securities" /\ a # "funding"
        BY PostingAssumption
      <3>2. /\ form[c].order.side = "BUY" => JournalRow(c).debit = "securities"
            /\ form[c].order.side # "BUY" => JournalRow(c).credit = "securities"
        BY DEF JournalRow
      <3> QED
        BY <3>1, <3>2
    <2> QED
      BY <2>1, <2>2 DEF CreditedOf
  <1>7. Credited(a)' = Credited(a)
    BY <1>6, SumsKept
  <1>8. Announced(a) \in Int /\ Credited(a) \in Int
    BY SumsOfEvents
  <1>9. /\ Stored(cash[a] + delta) \in Int
        /\ Stored(cash[a] + delta) - (cash[a] + delta) <= Scale \div 2
        /\ (cash[a] + delta) - Stored(cash[a] + delta) <= Scale \div 2
    <2>1. cash[a] + delta \in Int
      BY <1>1, <1>2
    <2> QED
      BY <2>1, StoredNear
  <1>10. Drift(a)' = Stored(cash[a] + delta) - (Opening[a] + (delta + Announced(a)) + Credited(a))
    BY <1>3, <1>5, <1>7 DEF Drift
  <1>11. Drift(a) = cash[a] - (Opening[a] + Announced(a) + Credited(a))
    BY DEF Drift
  <1>12. Scale \div 2 \in Int
    BY ScaleAssumption
  <1> HIDE DEF delta
  <1> QED
    BY <1>1, <1>2, <1>8, <1>9, <1>10, <1>11, <1>12

\* A credit of the account: entry and balance are rounded alike.
LEMMA CreditDrift ==
    ASSUME TypeOK, OpenInv, Settled, Priced, NEW c \in Calls, Commit(c),
           form[c].kind = "credit", NEW a \in Accounts, form[c].order.account = a
    PROVE  Drift(a)' = Drift(a) /\ Drift(a) \in Int
  <1> DEFINE amount == form[c].order.amount
  <1>1. Effective(c) /\ Delta(form[c]) = amount /\ amount \in Int
    BY CommitMoney DEF Delta, Effective
  <1>2. amount > 0
    <2>1. Refusal(form[c]) = "none"
      BY DEF Commit, OpenInv, FormInv
    <2> QED
      BY <1>1, <2>1 DEF Refusal
  <1>3. cash[a] \in Int /\ Opening[a] \in Int /\ cash[a] >= 0 /\ IsStored(cash[a])
    BY PostingAssumption, StoredIff DEF TypeOK, Priced, OpenInv, CashNonNegative
  <1>4. cash'[a] = cash[a] + Stored(amount)
    <2>1. cash'[a] = Stored(cash[a] + amount)
      BY <1>1, CommitMoney DEF Moves
    <2> QED
      BY <1>1, <1>2, <1>3, <2>1, StoredShift
  <1>5. /\ JournalRow(c).debit = a /\ JournalRow(c).credit = "funding"
        /\ JournalRow(c).amount = Stored(amount)
    BY DEF JournalRow
  <1>6. CreditedOf(a)' = CreditedOf(a) \cup {JournalRow(c)}
    BY <1>1, <1>5, CommitMoney DEF CreditedOf
  <1>7. Credited(a)' = Stored(amount) + Credited(a)
    BY <1>5, <1>6, CreditedAdd, CommitMoney
  <1>8. Announced(a)' = Announced(a)
    <2>1. AnnouncedOf(a)' = AnnouncedOf(a)
      BY CommitMoney DEF AnnouncedOf
    <2> QED
      BY <2>1, SumsKept
  <1>9. Announced(a) \in Int /\ Credited(a) \in Int /\ Stored(amount) \in Int
    BY <1>1, SumsOfEvents, StoredType
  <1>10. Drift(a)' = (cash[a] + Stored(amount)) - (Opening[a] + Announced(a) + (Stored(amount) + Credited(a)))
    BY <1>4, <1>7, <1>8 DEF Drift
  <1>11. Drift(a) = cash[a] - (Opening[a] + Announced(a) + Credited(a))
    BY DEF Drift
  <1> HIDE DEF amount
  <1> QED
    BY <1>3, <1>9, <1>10, <1>11

\* What the commit of a refused trade or for another account leaves alone.
LEMMA NoDrift ==
    ASSUME TypeOK, OpenInv, Settled, Priced, NEW c \in Calls, Commit(c), NEW a \in Accounts,
           ~Moves(c, a)
    PROVE  Drift(a)' = Drift(a) /\ PostedOf(a)' = PostedOf(a)
  <1>1. cash'[a] = cash[a]
    BY CommitMoney
  <1>2. AnnouncedOf(a)' = AnnouncedOf(a)
    BY CommitMoney DEF AnnouncedOf, Moves
  <1>3. CreditedOf(a)' = CreditedOf(a)
    <2>1. CASE ~Effective(c)
      BY <2>1, CommitMoney DEF CreditedOf
    <2>2. CASE Effective(c)
      <3>1. form[c].order.account # a
        BY <2>2 DEF Moves
      <3>2. journal' = journal \cup {JournalRow(c)}
        BY <2>2, CommitMoney
      <3>3. JournalRow(c).credit = "funding" => JournalRow(c).debit = form[c].order.account
        <4>1. form[c].order.account # "funding"
          BY CommitMoney, PostingAssumption
        <4> QED
          BY <4>1 DEF JournalRow
      <3> QED
        BY <3>1, <3>2, <3>3 DEF CreditedOf
    <2> QED
      BY <2>1, <2>2
  <1>4. PostedOf(a)' = PostedOf(a)
    BY CommitMoney DEF PostedOf, Moves
  <1> QED
    BY <1>1, <1>2, <1>3, <1>4, SumsKept DEF Drift

\* The empty ledger explains the opening balances.
LEMMA InitExplains == Init => EventsExplainCash
  <1> SUFFICES ASSUME Init, NEW a \in Accounts
               PROVE  DriftBounded(a)
    BY ExplainsIff
  <1>1. cash = Opening /\ journal = {} /\ outbox = {} /\ Opening[a] \in Int
    BY PostingAssumption DEF Init
  <1>2. AnnouncedOf(a) = {} /\ CreditedOf(a) = {} /\ PostedOf(a) = {}
    BY <1>1 DEF AnnouncedOf, CreditedOf, PostedOf
  <1>3. Announced(a) = 0
    <2> DEFINE v == [e \in AnnouncedOf(a) |-> e.cash_delta]
    <2>1. DOMAIN v = {} /\ Announced(a) = SumFunction(v)
      BY <1>2 DEF Announced, AnnouncedOf
    <2> HIDE DEF v
    <2> QED
      BY <2>1, SumFunctionFacts
  <1>4. Credited(a) = 0
    <2> DEFINE v == [j \in CreditedOf(a) |-> j.amount]
    <2>1. DOMAIN v = {} /\ Credited(a) = SumFunction(v)
      BY <1>2 DEF Credited, CreditedOf
    <2> HIDE DEF v
    <2> QED
      BY <2>1, SumFunctionFacts
  <1>5. Drift(a) = 0
    BY <1>1, <1>3, <1>4 DEF Drift
  <1>6. Cardinality(PostedOf(a)) = 0
    BY <1>2, FS_EmptySet
  <1>7. (Scale \div 2) * 0 = 0 /\ Scale \div 2 \in Int
    BY ScaleAssumption
  <1> QED
    BY <1>5, <1>6, <1>7 DEF DriftBounded

\* A commit lets an account drift by half a unit more, and counts one posting more.
LEMMA CommitExplains ==
    ASSUME TypeOK, OpenInv, Settled, Priced, EventsExplainCash, NEW c \in Calls, Commit(c)
    PROVE  EventsExplainCash'
  <1> SUFFICES ASSUME NEW a \in Accounts
               PROVE  DriftBounded(a)'
    BY DEF EventsExplainCash, DriftBounded, Drift, PostedOf
  <1>1. DriftBounded(a)
    BY ExplainsIff
  <1>2. CASE ~Moves(c, a)
    BY <1>1, <1>2, NoDrift DEF DriftBounded
  <1>3. CASE Moves(c, a)
    <2> DEFINE half == Scale \div 2
               n == Cardinality(PostedOf(a))
    <2>1. form[c].order.account = a /\ Effective(c)
      BY <1>3 DEF Moves
    <2>2. n \in Nat /\ IsFiniteSet(PostedOf(a))
      BY SumsOfEvents
    <2>3. Cardinality(PostedOf(a))' = n + 1
      <3>1. PostedOf(a)' = PostedOf(a) \cup {JournalRow(c)} /\ JournalRow(c) \notin PostedOf(a)
        BY <2>1, CommitMoney DEF PostedOf
      <3> QED
        BY <2>2, <3>1, FS_AddElement
    <2>4. half \in Int /\ half >= 0
      BY ScaleAssumption
    <2>5. /\ Drift(a)' - Drift(a) <= half /\ Drift(a) - Drift(a)' <= half
          /\ Drift(a) \in Int /\ Drift(a)' \in Int
      <3>1. CASE form[c].kind = "trade"
        BY <2>1, <3>1, TradeDrift
      <3>2. CASE form[c].kind = "credit"
        BY <2>1, <2>4, <3>2, CreditDrift
      <3> QED
        BY <2>1, <3>1, <3>2 DEF Effective
    <2>6. Drift(a) <= half * n /\ -Drift(a) <= half * n
      BY <1>1 DEF DriftBounded
    <2> HIDE DEF half, n
    <2>7. half * (n + 1) = half * n + half /\ half * n \in Int
      BY <2>2, <2>4
    <2>8. Drift(a)' <= half * (n + 1) /\ -(Drift(a)') <= half * (n + 1)
      BY <2>4, <2>5, <2>6, <2>7
    <2> QED
      BY <2>3, <2>8 DEF DriftBounded, half
  <1> QED
    BY <1>2, <1>3

\* Every statement keeps the balances within reach of the events.
LEMMA StepExplains ==
    TypeOK /\ Inductive /\ EventsExplainCash /\ [Next]_vars => EventsExplainCash'
  <1> SUFFICES ASSUME TypeOK, OpenInv, Settled, Priced, EventsExplainCash, [Next]_vars
               PROVE  EventsExplainCash'
    BY DEF Inductive
  <1>1. CASE \E c \in Calls : Commit(c)
    BY <1>1, CommitExplains
  <1>2. CASE ~ \E c \in Calls : Commit(c)
    <2>1. UNCHANGED <<cash, journal, outbox>>
      BY <1>2, OtherSteps DEF tables
    <2>2. \A a \in Accounts : DriftBounded(a)' <=> DriftBounded(a)
      BY <2>1 DEF DriftBounded, Drift, PostedOf, Announced, Credited
    <2>3. \A a \in Accounts : DriftBounded(a)'
      BY <2>2, ExplainsIff
    <2> QED
      BY <2>3 DEF EventsExplainCash, DriftBounded, Drift, PostedOf
  <1> QED
    BY <1>1, <1>2

\* A consumer that adds the cash_delta of every LedgerUpdated event to the
\* opening balance is off by the administrator's credits and by at most half a
\* NUMERIC unit for each posting of the account, whatever the amounts and the
\* interleaving (LedgerService.postTrade announces the exact product,
\* updateCash stores a rounded sum, creditAccount announces nothing).
THEOREM EventsExplain == Spec => []EventsExplainCash
  <1>1. Init => EventsExplainCash
    BY InitExplains
  <1>2. TypeOK /\ Inductive /\ EventsExplainCash /\ [Next]_vars => EventsExplainCash'
    BY StepExplains
  <1> QED
    BY <1>1, <1>2, Correct, PTL DEF Spec

-----------------------------------------------------------------------------
(* ledger-core keeps LedgerPromise *)

\* Service and promise compute with the same money.
LEMMA SameMoney ==
    /\ \A x : Promise!Stored(x) = Stored(x)
    /\ \A o : Promise!CashDelta(o) = CashDelta(o)
  BY DEF Promise!Stored, Stored, Promise!CashDelta, CashDelta, Promise!Amount, Amount

\* The initial state is one of the promise.
LEMMA PromiseInit == Init => Promise!Init
  BY DEF Init, Promise!Init, Decisions

\* Only a commit is visible through the mapping.
LEMMA TablesOnly == UNCHANGED tables => UNCHANGED Promise!vars
  BY DEF tables, Promise!vars, Decisions

\* A commit is one step of the promise: the decision it makes, or the credit.
LEMMA PromiseCommit ==
    ASSUME TypeOK, OpenInv, NEW c \in Calls, Commit(c)
    PROVE  Promise!Next
  <1> DEFINE r == form[c].source
             o == form[c].order
             a == form[c].order.account
             decision == [request |-> form[c].source, order |-> form[c].order]
  <1>1. pc[c] = "commit"
    BY DEF Commit
  <1>2. form[c].kind \in {"trade", "credit"} /\ Refusal(form[c]) = "none" /\ a \in Accounts
    BY <1>1 DEF OpenInv, FormInv, Refusal
  <1>3. /\ form[c].kind = "trade" => r \in Requests /\ o \in Orders
        /\ form[c].kind = "credit" => o \in Credits
    BY FormShape DEF TypeOK
  <1>4. Holds(c) <=> Effective(c)
    BY <1>1 DEF Holds
  <1>5. \A b \in Accounts : locked[b] = c <=> Effective(c) /\ b = a
    BY <1>4 DEF OpenInv, LockInv
  <1>6. cash' = IF Effective(c) THEN [cash EXCEPT ![a] = UpdatedCash(c)] ELSE cash
    BY <1>2, <1>5 DEF Commit, TypeOK
  <1>7. trades' = trades \cup (IF form[c].kind = "trade" THEN {TradeRow(c)} ELSE {})
    BY CommittedTrade
  <1>8. outbox' = outbox \cup (IF form[c].kind = "trade" /\ Effective(c)
                               THEN {OutboxRow(c)} ELSE {})
    BY <1>1 DEF Commit, OpenInv, PendingRows
  <1>9. /\ TradeRow(c).request = r /\ TradeRow(c).order = o /\ TradeRow(c).status = Status(c)
        /\ OutboxRow(c).source = r
    BY DEF TradeRow, OutboxRow
  <1>10. UpdatedCash(c) = Stored(cash[a] + Delta(form[c]))
    BY DEF UpdatedCash
  <1>11. form[c].kind = "trade" => r \notin Promise!Decided
    <2>1. form[c].kind = "trade" => ~RequestTaken(c)
      BY <1>1 DEF OpenInv, KeyInv, TradeWritten
    <2> QED
      BY <2>1 DEF RequestTaken, Promise!Decided, Decisions
  <1>12. \A status : Decisions(status)' =
            Decisions(status) \cup (IF form[c].kind = "trade" /\ Status(c) = status
                                    THEN {decision} ELSE {})
    BY <1>7, <1>9 DEF Decisions
  <1>13. {e.source : e \in outbox}' =
            {e.source : e \in outbox} \cup (IF form[c].kind = "trade" /\ Effective(c)
                                            THEN {r} ELSE {})
    BY <1>8, <1>9
  <1>14. CASE form[c].kind = "trade" /\ Status(c) = "posted"
    <2>1. Effective(c) /\ Delta(form[c]) = CashDelta(o)
      BY <1>14 DEF Effective, Delta
    <2>2. UpdatedCash(c) >= 0
      BY <1>4, <2>1 DEF OpenInv, LockInv
    <2>3. PICK q \in Requests, p \in Orders : q = r /\ p = o
      BY <1>3, <1>14
    <2>4. Promise!Post(q, p)
      BY <1>2, <1>6, <1>10, <1>11, <1>12, <1>13, <1>14, <2>1, <2>2, <2>3, SameMoney
         DEF Promise!Post
    <2> QED
      BY <2>4 DEF Promise!Next
  <1>15. CASE form[c].kind = "trade" /\ Status(c) # "posted"
    <2>1. ~Effective(c) /\ Status(c) = "rejected"
      BY <1>15 DEF Effective, Status
    <2>2. Promise!Refuse(r, o)
      BY <1>6, <1>11, <1>12, <1>13, <1>15, <2>1 DEF Promise!Refuse
    <2> QED
      BY <1>3, <1>15, <2>2 DEF Promise!Next
  <1>16. CASE form[c].kind = "credit"
    <2>1. Effective(c) /\ Delta(form[c]) = o.amount
      BY <1>16 DEF Effective, Delta
    <2>2. o.amount > 0
      <3>1. o.amount \in Int
        BY <1>3, <1>16, PostingAssumption DEF CreditType
      <3> QED
        BY <1>2, <1>16, <3>1 DEF Refusal
    <2>3. Promise!Credit(o)
      BY <1>2, <1>6, <1>10, <1>12, <1>13, <1>16, <2>1, <2>2, SameMoney DEF Promise!Credit
    <2> QED
      BY <1>3, <1>16, <2>3 DEF Promise!Next
  <1> QED
    BY <1>2, <1>14, <1>15, <1>16

\* Every statement is a step of the promise or none.
LEMMA PromiseStep ==
    TypeOK /\ Inductive /\ [Next]_vars => [Promise!Next]_(Promise!vars)
  <1> SUFFICES ASSUME TypeOK, OpenInv, [Next]_vars
               PROVE  Promise!Next \/ UNCHANGED Promise!vars
    BY DEF Inductive
  <1>1. CASE \E c \in Calls : Commit(c)
    BY <1>1, PromiseCommit
  <1>2. CASE ~ \E c \in Calls : Commit(c)
    <2>1. UNCHANGED tables
      BY <1>2 DEF Next, Step, Served, vars, SubmitRefused, SubmitTrade, SubmitCredit,
         FindReplay, FindNothing, ReadCash, ReadPosition, InsertTrade, InsertTradeDuplicate,
         InsertJournal, InsertJournalFails, UpdateCash, UpdateCashFails, InsertAudit,
         InsertOutbox, Rollback, Abort
    <2> QED
      BY <2>1, TablesOnly
  <1> QED
    BY <1>1, <1>2

\* The statements of all calls together never do more than LedgerPromise allows:
\* a request is decided once, posting moves the funds and announces in one
\* step, a refusal moves nothing, funds stay non-negative.
THEOREM ImplementsPromise == Spec => KeepsPromise
  <1>1. Init => Promise!Init
    BY PromiseInit
  <1>2. TypeOK /\ Inductive /\ [Next]_vars => [Promise!Next]_(Promise!vars)
    BY PromiseStep
  <1> QED
    BY <1>1, <1>2, Correct, PTL DEF Spec, Promise!Spec, KeepsPromise

=============================================================================
