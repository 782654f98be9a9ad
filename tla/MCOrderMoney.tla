---------------------------- MODULE MCOrderMoney ----------------------------
(* OrderMoney on small instances: two requests in flight and one payment    *)
(* status the cashier confirms, whose money is split between cash and bank  *)
(* (Both), or is all cash (Cash).  "No status yet" is the other case.       *)
EXTENDS OrderMoney, TLC

Both == {"CashBank"}
SplitBoth == [m \in Both |-> "both"]

Cash == {"Cash"}
SplitCash == [m \in Cash |-> "cash"]

Symmetry == Permutations(Workers) \cup Permutations(EntryIds)
=============================================================================
