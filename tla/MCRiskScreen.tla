---------------------------- MODULE MCRiskScreen -----------------------------
(* RiskScreen for TLC. *)
EXTENDS RiskScreen

CONSTANTS a1, a2

Flat(a) == [account_id |-> a, portfolio_value |-> 1000, pnl |-> 0,
            volatility |-> 2000, var |-> 3, sharpe |-> 20]
Grown(a) == [Flat(a) EXCEPT !.portfolio_value = 1400, !.pnl = 400, !.var = 5]
\* Volatility is up and VaR is not, the portfolio having shrunk.
Fallen(a) == [Flat(a) EXCEPT !.portfolio_value = 300, !.pnl = -700,
                             !.volatility = 6000, !.sharpe = -50]

\* The second snapshot is of either account, between two of the first.
MCSnapshots == <<{Flat(a1)}, {Grown(a1), Fallen(a1), Grown(a2)}, {Flat(a1)}>>

\* A reply that keeps to the shape and makes up a figure, a metric and a change.
MCReplies ==
    { [headline |-> "fine", summary |-> "", notes |-> <<"note", "">>,
       metrics |-> <<Fact("var", 9999, "first"), Fact("var", 9999, "rewritten"), Fact("alpha", 1, "made up")>>,
       changes |-> <<[key |-> "var", direction |-> "down", plain |-> "made up"]>>] }

=============================================================================
