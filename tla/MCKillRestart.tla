--------------------------- MODULE MCKillRestart ---------------------------
(* Instance of RunProof and KillRestart for TLC. *)
EXTENDS RunProof

Trade(symbol, side, quantity, price) ==
    [symbol |-> symbol, side |-> side, quantity |-> quantity, price |-> price]

\* Two trades of one symbol around one of another.
MCTrades == <<Trade("AAPL", "BUY", 2, 3), Trade("MSFT", "BUY", 1, 2), Trade("AAPL", "SELL", 1, 4)>>

=============================================================================
