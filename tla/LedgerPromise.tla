---------------------------- MODULE LedgerPromise ----------------------------
(***************************************************************************)
(* What ledger-core promises its callers and its event consumers, with no  *)
(* transactions, locks or tables: every request is decided at most once;   *)
(* a posted trade moves the account's funds and is announced in the same   *)
(* step; a refused trade moves nothing; funds never become negative.       *)
(***************************************************************************)
EXTENDS LedgerMoney

CONSTANTS Requests,     \* client-chosen request ids
          Accounts,     \* account ids that exist
          Orders,       \* the trades a client may ask for
          Credits,      \* the credits an administrator may ask for
          Opening       \* funds of each account before the first request

VARIABLES posted,       \* decisions to post:   [request, order]
          refused,      \* decisions to refuse: [request, order]
          announced,    \* requests whose posting an event announces
          funds         \* account -> money

vars == <<posted, refused, announced, funds>>

Decided == {p.request : p \in posted \cup refused}

Init ==
    /\ posted = {}
    /\ refused = {}
    /\ announced = {}
    /\ funds = Opening

Post(r, order) ==
    /\ r \notin Decided
    /\ order.account \in Accounts
    /\ Stored(funds[order.account] + CashDelta(order)) >= 0
    /\ posted' = posted \cup {[request |-> r, order |-> order]}
    /\ announced' = announced \cup {r}
    /\ funds' = [funds EXCEPT ![order.account] = Stored(@ + CashDelta(order))]
    /\ UNCHANGED refused

Refuse(r, order) ==
    /\ r \notin Decided
    /\ refused' = refused \cup {[request |-> r, order |-> order]}
    /\ UNCHANGED <<posted, announced, funds>>

Credit(credit) ==
    /\ credit.account \in Accounts
    /\ credit.amount > 0
    /\ funds' = [funds EXCEPT ![credit.account] = Stored(@ + credit.amount)]
    /\ UNCHANGED <<posted, refused, announced>>

Next ==
    \/ \E r \in Requests, order \in Orders : Post(r, order) \/ Refuse(r, order)
    \/ \E credit \in Credits : Credit(credit)

Spec == Init /\ [][Next]_vars

=============================================================================
