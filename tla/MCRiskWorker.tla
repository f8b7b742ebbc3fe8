--------------------------- MODULE MCRiskWorker ---------------------------
(* Instances of RiskWorker for TLC. *)
EXTENDS RiskWorker

Post(account, cash_delta, position_after) ==
    [account |-> account, symbol |-> "AAPL", cash_delta |-> cash_delta,
     position_after |-> position_after, price |-> 1]

\* Two buys of one share each: the position is 1, then 2.
MCPosts == <<Post("acct_123", -1, 1), Post("acct_123", -1, 2)>>
MCTwoAccounts == <<Post("acct_123", -1, 1), Post("acct_456", -1, 1)>>

MCQuotes == <<[symbol |-> "AAPL", price |-> 3]>>
NoQuotes == << >>

=============================================================================
