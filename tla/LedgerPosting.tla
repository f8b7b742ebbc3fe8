---------------------------- MODULE LedgerPosting ----------------------------
(***************************************************************************)
(* ledger-core's write path: TradeController.submitTrade and               *)
(* AdminController.credit over LedgerService and LedgerRepository.         *)
(*                                                                         *)
(* A call is one HTTP request being served: it runs once, in one thread,   *)
(* in one database transaction (@Transactional, PostgreSQL's default READ  *)
(* COMMITTED).  Clients retry, so several calls may carry one request id,  *)
(* also at the same time and also with a different order.  An action is    *)
(* one SQL statement; statements of different calls interleave.            *)
(*                                                                         *)
(*   pending[c]  what call c has inserted and not yet committed            *)
(*   locked[a]   the call holding the row lock on account a, which its     *)
(*               UPDATE took and its commit or rollback releases           *)
(*                                                                         *)
(* The UUIDs a call draws (trade, journal entry, event) are the call       *)
(* itself.  A foreign-key check only takes FOR KEY SHARE on the account    *)
(* row, which the FOR NO KEY UPDATE of the cash update does not conflict   *)
(* with, so it is not modelled.                                            *)
(***************************************************************************)
EXTENDS LedgerMoney, FiniteSets, Functions

CONSTANTS Calls,        \* HTTP requests served, each once
          Requests,     \* client-chosen request ids (TradeRequestDto.request_id)
          Accounts,     \* rows of the accounts table
          Orders,       \* order bodies clients send: [account, symbol, side, quantity, price]
          Credits,      \* credit bodies the administrator sends: [account, amount]
          Opening,      \* cash_balance of each account before the first call
          MaxPosition,  \* ledger.max-position
          NoCall        \* "no lock holder"

OrderType == [account: STRING, symbol: STRING, side: STRING, quantity: Int, price: Int]
CreditType == [account: STRING, amount: Int]

ASSUME PostingAssumption ==
    /\ Accounts \subseteq STRING \ {"securities", "funding"}   \* the other account_refs
    /\ Orders \subseteq OrderType
    /\ Credits \subseteq CreditType
    /\ Opening \in [Accounts -> Nat]
    /\ \A a \in Accounts : Stored(Opening[a]) = Opening[a]
    /\ MaxPosition \in Nat
    /\ NoCall \notin Calls
    /\ Calls \cap Requests = {}

VARIABLES pc, form, read, reply,                 \* the calls
          pending, locked,                       \* their transactions
          cash, trades, journal, audit, outbox   \* the committed tables

callVars == <<pc, form, read, reply>>
tables == <<cash, trades, journal, audit, outbox>>
vars == <<callVars, pending, locked, tables>>

-----------------------------------------------------------------------------
(* Submissions and rows *)

\* A credit's source_event_id is a fresh UUID: the call itself.
TradeForms == [kind: {"trade"}, source: Requests, order: Orders]
CreditForms == [kind: {"credit"}, source: Calls, order: Credits]
NoForm == [kind |-> "none", source |-> NoCall]

Delta(f) == IF f.kind = "trade" THEN CashDelta(f.order) ELSE f.order.amount

PositionAfter(c) == read[c].position + SignedQuantity(form[c].order)

\* ComplianceRules.firstViolation on the projected cash and position.
FirstViolation(c) ==
    IF read[c].cash + CashDelta(form[c].order) < 0 THEN "NEGATIVE_CASH"
    ELSE IF PositionAfter(c) > MaxPosition \/ -PositionAfter(c) > MaxPosition
         THEN "MAX_POSITION_EXCEEDED"
    ELSE "none"

Status(c) == IF FirstViolation(c) = "none" THEN "posted" ELSE "rejected"

TradeRow(c) ==
    [trade |-> c, request |-> form[c].source, order |-> form[c].order,
     status |-> Status(c), reason |-> FirstViolation(c)]

\* A journal entry and its two mirrored lines: one ref debited, one credited.
JournalRow(c) ==
    LET f == form[c]
        a == f.order.account
        row(debit, credit, amount) ==
            [entry |-> c, source |-> f.source, account |-> a, debit |-> debit,
             credit |-> credit, amount |-> Stored(amount)]
    IN  IF f.kind = "credit" THEN row(a, "funding", f.order.amount)
        ELSE IF f.order.side = "BUY" THEN row("securities", a, Amount(f.order))
        ELSE row(a, "securities", Amount(f.order))

AuditRow(c) ==
    [audit |-> c, account |-> form[c].order.account, source |-> form[c].source,
     action |-> IF form[c].kind = "trade" THEN "POST_TRADE" ELSE "ADMIN_CREDIT",
     outcome |-> IF form[c].kind = "trade" /\ Status(c) = "rejected"
                 THEN "rejected" ELSE "accepted"]

\* Mutated form: a cash_delta without its sign.
OutboxRowUnsigned(c) ==
    [event |-> c, source |-> form[c].source, account |-> form[c].order.account,
     symbol |-> form[c].order.symbol, cash_delta |-> Amount(form[c].order),
     position_after |-> PositionAfter(c)]

\* The LedgerUpdated envelope, with the unrounded cash_delta and the
\* position_after computed from what the call read.
OutboxRow(c) ==
    [event |-> c, source |-> form[c].source, account |-> form[c].order.account,
     symbol |-> form[c].order.symbol, cash_delta |-> CashDelta(form[c].order),
     position_after |-> PositionAfter(c)]

NothingPending == [trades |-> {}, journal |-> {}, audit |-> {}, outbox |-> {}]

\* LedgerRepository.positionAfter: SUM over the committed posted trades.
Position(a, s) ==
    SumFunction([t \in {u \in trades : /\ u.status = "posted"
                                       /\ u.order.account = a
                                       /\ u.order.symbol = s} |-> SignedQuantity(t.order)])

NoReply == [code |-> "none"]

-----------------------------------------------------------------------------
(* Steps of a call *)

Init ==
    /\ pc = [c \in Calls |-> "new"]
    /\ form = [c \in Calls |-> NoForm]
    /\ read = [c \in Calls |-> [cash |-> 0, position |-> 0]]
    /\ reply = [c \in Calls |-> NoReply]
    /\ pending = [c \in Calls |-> NothingPending]
    /\ locked = [a \in Accounts |-> NoCall]
    /\ cash = Opening
    /\ trades = {}
    /\ journal = {}
    /\ audit = {}
    /\ outbox = {}

Goto(c, label) == pc' = [pc EXCEPT ![c] = label]

\* Mutated form: the handler answers and goes on.
AnswerGoesOn(c, answer) == Goto(c, pc[c]) /\ reply' = [reply EXCEPT ![c] = answer]

Answer(c, answer) == Goto(c, "done") /\ reply' = [reply EXCEPT ![c] = answer]

\* Validation fails (400), or accountExists is false (404): accounts are
\* never created or deleted by the service, so its early read is exact.
Refusal(f) ==
    IF f.kind = "trade" /\ ~ValidOrder(f.order) THEN "400"
    ELSE IF f.kind = "credit" /\ f.order.amount <= 0 THEN "400"
    ELSE IF f.order.account \notin Accounts THEN "404"
    ELSE "none"

SubmitRefused(c) ==
    /\ pc[c] = "new"
    /\ \E f \in TradeForms \cup CreditForms :
        /\ f.kind = "credit" => f.source = c
        /\ Refusal(f) # "none"
        /\ form' = [form EXCEPT ![c] = f]
        /\ Answer(c, [code |-> Refusal(f)])
    /\ UNCHANGED <<read, pending, locked, tables>>

SubmitTrade(c) ==
    /\ pc[c] = "new"
    /\ \E f \in TradeForms :
        /\ Refusal(f) = "none"
        /\ form' = [form EXCEPT ![c] = f]
    /\ Goto(c, "find")
    /\ UNCHANGED <<read, reply, pending, locked, tables>>

SubmitCredit(c) ==
    /\ pc[c] = "new"
    /\ \E f \in CreditForms :
        /\ f.source = c
        /\ Refusal(f) = "none"
        /\ form' = [form EXCEPT ![c] = f]
    /\ Goto(c, "cash")
    /\ UNCHANGED <<read, reply, pending, locked, tables>>

\* Mutated form: a replay echoes the order it was sent.
FindReplayEcho(c) ==
    /\ pc[c] = "find"
    /\ \E t \in trades :
        /\ t.request = form[c].source
        /\ Answer(c, [code |-> IF t.status = "rejected" THEN "409" ELSE "200",
                      created |-> FALSE, trade |-> [t EXCEPT !.order = form[c].order]])
    /\ UNCHANGED <<form, read, pending, locked, tables>>

\* findTradeByRequestId finds a row: the stored outcome is the answer, 409
\* for a rejection also on replay, and nothing is written.
FindReplay(c) ==
    /\ pc[c] = "find"
    /\ \E t \in trades :
        /\ t.request = form[c].source
        /\ Answer(c, [code |-> IF t.status = "rejected" THEN "409" ELSE "200",
                      created |-> FALSE, trade |-> t])
    /\ UNCHANGED <<form, read, pending, locked, tables>>

FindNothing(c) ==
    /\ pc[c] = "find"
    /\ ~ \E t \in trades : t.request = form[c].source
    /\ Goto(c, "cash")
    /\ UNCHANGED <<form, read, reply, pending, locked, tables>>

ReadCash(c) ==
    /\ pc[c] = "cash"
    /\ read' = [read EXCEPT ![c].cash = cash[form[c].order.account]]
    /\ Goto(c, IF form[c].kind = "trade" THEN "position" ELSE "journal")
    /\ UNCHANGED <<form, reply, pending, locked, tables>>

ReadPosition(c) ==
    /\ pc[c] = "position"
    /\ read' = [read EXCEPT ![c].position =
                    Position(form[c].order.account, form[c].order.symbol)]
    /\ Goto(c, "trade")
    /\ UNCHANGED <<form, reply, pending, locked, tables>>

\* The transaction of c ends without effect and the client sees a 500.
Abort(c) ==
    /\ pending' = [pending EXCEPT ![c] = NothingPending]
    /\ locked' = [a \in Accounts |-> IF locked[a] = c THEN NoCall ELSE locked[a]]
    /\ Answer(c, [code |-> "500"])
    /\ UNCHANGED <<form, read, tables>>

\* A UNIQUE key written by a transaction still open makes an insert of the
\* same key wait until that transaction ends.
RequestHeld(c) ==
    \E d \in Calls \ {c} : \E t \in pending[d].trades : t.request = form[c].source

\* Mutated form: trades.request_id is not UNIQUE.
RequestNeverTaken(c) == FALSE

RequestTaken(c) == \E t \in trades : t.request = form[c].source

InsertTrade(c) ==
    /\ pc[c] = "trade"
    /\ ~RequestHeld(c)
    /\ ~RequestTaken(c)
    /\ pending' = [pending EXCEPT ![c].trades = {TradeRow(c)}]
    /\ Goto(c, IF Status(c) = "posted" THEN "journal" ELSE "audit")
    /\ UNCHANGED <<form, read, reply, locked, tables>>

\* Mutated form: the insert is retried within its transaction.
InsertTradeDuplicateRetried(c) ==
    /\ pc[c] = "trade"
    /\ ~RequestHeld(c)
    /\ RequestTaken(c)
    /\ UNCHANGED vars

\* trades.request_id UNIQUE: the row of another call committed first.
InsertTradeDuplicate(c) ==
    /\ pc[c] = "trade"
    /\ ~RequestHeld(c)
    /\ RequestTaken(c)
    /\ Abort(c)

\* journal_entries.source_event_id UNIQUE, chk_lines_debit_xor_credit.
SourceHeld(c) ==
    \E d \in Calls \ {c} : \E j \in pending[d].journal : j.source = form[c].source

JournalViolation(c) ==
    \/ \E j \in journal : j.source = form[c].source
    \/ JournalRow(c).amount = 0

InsertJournal(c) ==
    /\ pc[c] = "journal"
    /\ ~SourceHeld(c)
    /\ ~JournalViolation(c)
    /\ pending' = [pending EXCEPT ![c].journal = {JournalRow(c)}]
    /\ Goto(c, "update")
    /\ UNCHANGED <<form, read, reply, locked, tables>>

InsertJournalFails(c) ==
    /\ pc[c] = "journal"
    /\ ~SourceHeld(c)
    /\ JournalViolation(c)
    /\ Abort(c)

\* Mutated form: the update writes the balance computed from the early read.
UpdatedCashFromRead(c) == Stored(read[c].cash + Delta(form[c]))

\* UPDATE ... SET cash_balance = cash_balance + ?: waits for the row lock,
\* then works on the value committed by then, not on the one read before.
UpdatedCash(c) == Stored(cash[form[c].order.account] + Delta(form[c]))

\* Mutated form: no chk_accounts_cash_non_negative.
UpdateCashUnchecked(c) ==
    /\ pc[c] = "update"
    /\ locked[form[c].order.account] = NoCall
    /\ locked' = [locked EXCEPT ![form[c].order.account] = c]
    /\ Goto(c, "audit")
    /\ UNCHANGED <<form, read, reply, pending, tables>>

UpdateCash(c) ==
    /\ pc[c] = "update"
    /\ locked[form[c].order.account] = NoCall
    /\ UpdatedCash(c) >= 0
    /\ locked' = [locked EXCEPT ![form[c].order.account] = c]
    /\ Goto(c, "audit")
    /\ UNCHANGED <<form, read, reply, pending, tables>>

\* chk_accounts_cash_non_negative.
UpdateCashFails(c) ==
    /\ pc[c] = "update"
    /\ locked[form[c].order.account] = NoCall
    /\ UpdatedCash(c) < 0
    /\ Abort(c)

\* Mutated form: the outbox insert is forgotten.
InsertAuditOnly(c) ==
    /\ pc[c] = "audit"
    /\ pending' = [pending EXCEPT ![c].audit = {AuditRow(c)}]
    /\ Goto(c, "commit")
    /\ UNCHANGED <<form, read, reply, locked, tables>>

InsertAudit(c) ==
    /\ pc[c] = "audit"
    /\ pending' = [pending EXCEPT ![c].audit = {AuditRow(c)}]
    /\ Goto(c, IF form[c].kind = "trade" /\ Status(c) = "posted"
               THEN "outbox" ELSE "commit")
    /\ UNCHANGED <<form, read, reply, locked, tables>>

InsertOutbox(c) ==
    /\ pc[c] = "outbox"
    /\ pending' = [pending EXCEPT ![c].outbox = {OutboxRow(c)}]
    /\ Goto(c, "commit")
    /\ UNCHANGED <<form, read, reply, locked, tables>>

\* The answer after a commit: creditAccount reports the balance it read
\* before its update plus the amount.
CommitAnswer(c) ==
    IF form[c].kind = "credit"
    THEN [code |-> "200", balance |-> read[c].cash + form[c].order.amount]
    ELSE [code |-> IF Status(c) = "posted" THEN "201" ELSE "409",
          created |-> TRUE, trade |-> TradeRow(c)]

\* The commit, and the answer, which may be lost on its way to the client.
Commit(c) ==
    /\ pc[c] = "commit"
    /\ trades' = trades \cup pending[c].trades
    /\ journal' = journal \cup pending[c].journal
    /\ audit' = audit \cup pending[c].audit
    /\ outbox' = outbox \cup pending[c].outbox
    /\ cash' = [a \in Accounts |-> IF locked[a] = c THEN UpdatedCash(c) ELSE cash[a]]
    /\ locked' = [a \in Accounts |-> IF locked[a] = c THEN NoCall ELSE locked[a]]
    /\ pending' = [pending EXCEPT ![c] = NothingPending]
    /\ \E answer \in {CommitAnswer(c), [code |-> "lost"]} : Answer(c, answer)
    /\ UNCHANGED <<form, read>>

\* A crash of the service, a lost connection or a statement timeout.
Rollback(c) ==
    /\ pc[c] \notin {"new", "done"}
    /\ Abort(c)

\* Every call has been served.
Served == (\A c \in Calls : pc[c] = "done") /\ UNCHANGED vars

Step(c) ==
    \/ SubmitRefused(c) \/ SubmitTrade(c) \/ SubmitCredit(c)
    \/ FindReplay(c) \/ FindNothing(c) \/ ReadCash(c) \/ ReadPosition(c)
    \/ InsertTrade(c) \/ InsertTradeDuplicate(c)
    \/ InsertJournal(c) \/ InsertJournalFails(c)
    \/ UpdateCash(c) \/ UpdateCashFails(c)
    \/ InsertAudit(c) \/ InsertOutbox(c)
    \/ Commit(c)

Next ==
    \/ \E c \in Calls : Step(c) \/ Rollback(c)
    \/ Served

Spec == Init /\ [][Next]_vars

\* A thread that can run its next statement eventually does.  No fairness
\* on Rollback: failures are not owed.
FairSpec == Spec /\ \A c \in Calls : WF_vars(Step(c) /\ pc[c] # "new")

-----------------------------------------------------------------------------
(* Properties *)

\* A call's variables, transactions and tables have the shapes above.
TypeOK ==
    /\ pc \in [Calls -> {"new", "find", "cash", "position", "trade", "journal",
                         "update", "audit", "outbox", "commit", "done"}]
    /\ form \in [Calls -> TradeForms \cup CreditForms \cup {NoForm}]
    /\ read \in [Calls -> [cash: Int, position: Int]]
    /\ \A c \in Calls : pc[c] # "done" => reply[c] = NoReply
    /\ locked \in [Accounts -> Calls \cup {NoCall}]
    /\ cash \in [Accounts -> Int]
    /\ \A t \in trades : t.trade \in Calls /\ t.request \in Requests /\ t.order \in Orders
    /\ \A j \in journal : j.entry \in Calls /\ j.source \in Requests \cup Calls
    /\ \A e \in outbox : e.event \in Calls /\ e.source \in Requests

\* "An account can never hold negative cash" (V1__users_accounts.sql), although
\* trades pass the compliance check on cash read before they lock the row.
CashNonNegative == \A a \in Accounts : cash[a] >= 0

\* Rows of each table that belong to one source event.
Outcomes(r, status) == {t \in trades : t.request = r /\ t.status = status}
Entries(r) == {j \in journal : j.source = r}
Audits(r, outcome) == {x \in audit : x.source = r /\ x.outcome = outcome}
Events(r) == {e \in outbox : e.source = r}

\* "Every accepted trade writes, in ONE transaction ..." (LedgerService): however
\* many calls carry a request id, it has no effect at all, or exactly one
\* posted trade with one entry, one accepted audit row and one event, or
\* exactly one rejected trade with its rejected audit row and nothing else.
EffectsAtomic ==
    \A r \in Requests :
        LET n(S) == Cardinality(S)
            effects == <<n(Outcomes(r, "posted")), n(Entries(r)), n(Audits(r, "accepted")),
                         n(Events(r)), n(Outcomes(r, "rejected")), n(Audits(r, "rejected"))>>
        IN  effects \in {<<0, 0, 0, 0, 0, 0>>, <<1, 1, 1, 1, 0, 0>>, <<0, 0, 0, 0, 1, 1>>}

\* The cash column is what its journal lines add up to: debits of the
\* account less its credits, from the opening balance.
Line(j, a) == IF j.debit = a THEN j.amount ELSE IF j.credit = a THEN -j.amount ELSE 0

LineSum(a) == SumFunction([j \in journal |-> Line(j, a)])

CashMatchesJournal == \A a \in Accounts : cash[a] = Opening[a] + LineSum(a)

\* A consumer that starts from the opening balance and adds the cash_delta of
\* every LedgerUpdated event is off by the administrator's credits, which
\* creditAccount does not announce, and by at most half a NUMERIC unit for each
\* posting: the event carries the exact product, the column the rounded sum.
Announced(a) == SumFunction([e \in {f \in outbox : f.account = a} |-> e.cash_delta])
Credited(a) ==
    SumFunction([j \in {k \in journal : k.debit = a /\ k.credit = "funding"} |-> j.amount])

EventsExplainCash ==
    \A a \in Accounts :
        LET drift == cash[a] - (Opening[a] + Announced(a) + Credited(a))
            bound == (Scale \div 2) * Cardinality({j \in journal : j.account = a})
        IN  drift <= bound /\ -drift <= bound

\* Whatever the clients of one request id were told about its trade agrees
\* with the trades table, and at most one of them was told it created it.
Told == {c \in Calls : pc[c] = "done" /\ "trade" \in DOMAIN reply[c]}

AnswersAgree ==
    /\ \A c \in Told : reply[c].trade \in trades
    /\ \A c, d \in Told : (/\ form[c].source = form[d].source
                           /\ reply[c].created
                           /\ reply[d].created) => c = d
    /\ \A c, d \in Told : form[c].source = form[d].source => reply[c].trade = reply[d].trade

\* Every submitted call is answered: waits for a unique key or for the row
\* lock never form a cycle.
EveryCallAnswered == \A c \in Calls : pc[c] # "new" ~> pc[c] = "done"

\* ledger-core keeps LedgerPromise: its decisions are the committed trades.
Decisions(status) ==
    {[request |-> t.request, order |-> t.order] : t \in {u \in trades : u.status = status}}

Promise == INSTANCE LedgerPromise WITH
    posted <- Decisions("posted"),
    refused <- Decisions("rejected"),
    announced <- {e.source : e \in outbox},
    funds <- cash

KeepsPromise == Promise!Spec

-----------------------------------------------------------------------------
(* The inductive invariant behind these properties *)

\* The call moves cash: a credit, or a trade that passed the compliance rules.
Effective(c) ==
    \/ form[c].kind = "credit"
    \/ form[c].kind = "trade" /\ Status(c) = "posted"

TradeWritten(c) ==
    /\ pc[c] \in {"journal", "update", "audit", "outbox", "commit"}
    /\ form[c].kind = "trade"

Holds(c) == pc[c] \in {"audit", "outbox", "commit"} /\ Effective(c)

PendingRows(c) ==
    [trades |-> IF TradeWritten(c) THEN {TradeRow(c)} ELSE {},
     journal |-> IF pc[c] = "update" \/ Holds(c) THEN {JournalRow(c)} ELSE {},
     audit |-> IF pc[c] \in {"outbox", "commit"} THEN {AuditRow(c)} ELSE {},
     outbox |-> IF pc[c] = "commit" /\ form[c].kind = "trade" /\ Effective(c)
                THEN {OutboxRow(c)} ELSE {}]

FormInv ==
    \A c \in Calls :
        /\ pc[c] \notin {"new", "done"} =>
            form[c].kind \in {"trade", "credit"} /\ Refusal(form[c]) = "none"
        /\ pc[c] \in {"find", "position", "trade", "outbox"} => form[c].kind = "trade"
        /\ pc[c] \in {"journal", "update", "outbox"} => Effective(c)

LockInv ==
    /\ \A a \in Accounts, c \in Calls :
        locked[a] = c <=> Holds(c) /\ form[c].order.account = a
    /\ \A c \in Calls : Holds(c) => UpdatedCash(c) >= 0

KeyInv ==
    /\ \A c \in Calls : TradeWritten(c) => ~RequestTaken(c)
    /\ \A c, d \in Calls :
        TradeWritten(c) /\ TradeWritten(d) /\ form[c].source = form[d].source => c = d
    /\ \A t, u \in trades : t.request = u.request => t = u

\* What makes the tables right at every statement: an open transaction has
\* written exactly the rows its position says, holds the row lock exactly
\* while it has updated cash, to a value that is not negative, and owns its
\* request id alone, among the open transactions and the committed rows.
OpenInv ==
    /\ pending = [c \in Calls |-> PendingRows(c)]
    /\ FormInv
    /\ LockInv
    /\ KeyInv
    /\ CashNonNegative

\* The calls whose trade is committed, and those of them that were posted.
Committed == {t.trade : t \in trades}
Posted == {c \in Committed : Status(c) = "posted"}

\* What a client was told is the committed trade of its request id.
ToldInv ==
    /\ reply = [c \in Calls |-> reply[c]]
    /\ \A c \in Told : /\ reply[c].trade \in trades
                       /\ reply[c].trade.request = form[c].source
                       /\ reply[c].created => reply[c].trade = TradeRow(c)

\* The committed rows are those of the committed calls, table by table; the
\* rows of a credit have no request id.
Settled ==
    /\ \A c \in Committed : pc[c] = "done" /\ form[c].kind = "trade"
    /\ trades = {TradeRow(c) : c \in Committed}
    /\ {j \in journal : j.source \in Requests} = {JournalRow(c) : c \in Posted}
    /\ {x \in audit : x.source \in Requests} = {AuditRow(c) : c \in Committed}
    /\ outbox = {OutboxRow(c) : c \in Posted}
    /\ IsFiniteSet(trades) /\ IsFiniteSet(journal)
    /\ ToldInv

\* What the committed rows say of cash is in integers, about calls that are
\* over, and every balance is one the column can hold.
Priced ==
    /\ \A j \in journal : j.entry \in Calls /\ pc[j.entry] = "done" /\ j.amount \in Int
    /\ \A e \in outbox : e.cash_delta \in Int
    /\ IsFiniteSet(outbox)
    /\ \A a \in Accounts : Stored(cash[a]) = cash[a]

Inductive == OpenInv /\ Settled /\ Priced

-----------------------------------------------------------------------------
(* What the documentation says and concurrent calls do not keep *)

\* services/ledger-core/README.md:62, "Max absolute net position per symbol".
PositionWithinLimit ==
    \A o \in Orders : LET p == Position(o.account, o.symbol)
                      IN  p <= MaxPosition /\ -p <= MaxPosition

\* services/ledger-core/README.md:33-34: a duplicate request id is answered with
\* the original outcome, also when the original committed a moment ago.
DuplicateGetsOutcome ==
    [][\A c \in Calls : InsertTradeDuplicate(c) => reply'[c].code \in {"200", "409"}]_vars

=============================================================================
