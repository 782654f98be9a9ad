---------------------------- MODULE MCOrderBook -----------------------------
(* OrderBook on small instances: two requests in flight, and the bills that *)
(* tell the rules apart: one number, in both series and on two days.        *)
EXTENDS OrderBook, TLC

Bill(series, day, number) == [series |-> series, day |-> day, number |-> number]

SomeBills == {Bill("challan", 1, 1), Bill("invoice", 1, 1), Bill("invoice", 2, 1)}

Symmetry == Permutations(Workers) \cup Permutations(OrderKeys)
=============================================================================
