--------------------------- MODULE TradingOrderMC ---------------------------
(* Instances of TradingOrder for TLC. *)
EXTENDS TradingOrder, TLC

CONSTANTS first, retry, again, keyA

OneKey == [r \in Request |-> keyA]

\* Requests with one key are interchangeable.
Requests == Permutations(Request)

=============================================================================
