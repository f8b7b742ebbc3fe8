-------------------------- MODULE MCLedgerPosting --------------------------
(* Instances of LedgerPosting for TLC. *)
EXTENDS LedgerPosting, TLC

Order(side, quantity, price) ==
    [account |-> "acct_123", symbol |-> "AAPL", side |-> side,
     quantity |-> quantity, price |-> price]

MCAccounts == {"acct_123"}

\* Buys that fit the opening cash one at a time but not together, and a sale.
MCOrders == {Order("BUY", 2, 1), Order("BUY", 1, 2), Order("SELL", 1, 1)}
\* Buys that fit the opening cash together.
MCBuys == {Order("BUY", 1, 1)}
MCOpening == [a \in MCAccounts |-> 3]
NoCredits == {}

\* With Scale 4: a product that rounds to nothing, half a NUMERIC unit bought
\* and sold, a buy that fits the cash only once or after a credit, and bodies
\* the controllers refuse.
MCOrdersRounded == {Order("BUY", 1, 1), Order("BUY", 1, 2), Order("SELL", 1, 2),
                    Order("BUY", 1, 7), Order("SELL", 0, 1), [Order("BUY", 1, 1) EXCEPT !.account = "acct_999"]}
MCCreditsRounded == {[account |-> "acct_123", amount |-> 6], [account |-> "acct_123", amount |-> 0]}
MCOpeningRounded == [a \in MCAccounts |-> 8]

Symmetry == Permutations(Calls) \cup Permutations(Requests)

=============================================================================
