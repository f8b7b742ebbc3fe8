----------------------------- MODULE LedgerMoney -----------------------------
(***************************************************************************)
(* The money arithmetic of ledger-core.  The service computes with exact   *)
(* BigDecimals, the database keeps NUMERIC(20, 4).  All amounts here are   *)
(* integers in a unit fine enough to hold every exact product of a price   *)
(* and a quantity; one representable NUMERIC unit is Scale of them.        *)
(*                                                                         *)
(* Abstracted: the 20-digit upper bound of NUMERIC(20, 4), and quantities  *)
(* and prices with more than four decimals of their own.                   *)
(***************************************************************************)
EXTENDS Integers

CONSTANT Scale      \* exact units per unit a NUMERIC(20, 4) column can hold

ASSUME ScaleAssumption == Scale \in Nat \ {0}

\* What a NUMERIC column holds once x is written to it: the nearest
\* representable value, halves away from zero.
Stored(x) ==
    IF x >= 0 THEN ((2 * x + Scale) \div (2 * Scale)) * Scale
              ELSE -(((Scale - 2 * x) \div (2 * Scale)) * Scale)

\* An order is a record [account, symbol, side, quantity, price].
Amount(order) == order.price * order.quantity

CashDelta(order) == IF order.side = "BUY" THEN -Amount(order) ELSE Amount(order)

SignedQuantity(order) ==
    IF order.side = "BUY" THEN order.quantity ELSE -order.quantity

\* TradeController.validate, and the same test of AdminController.credit.
ValidOrder(order) ==
    /\ order.side \in {"BUY", "SELL"}
    /\ order.quantity > 0
    /\ order.price > 0

=============================================================================
