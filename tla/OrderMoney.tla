----------------------------- MODULE OrderMoney -----------------------------
(***************************************************************************)
(* The money of one order, from the shop counter to Payments: the order    *)
(* row and everyone who changes it (app/main.py, app/o2d_cashier.py), the  *)
(* database trigger that takes a confirmation back when the money changes  *)
(* (migration 033), and the Payments side it feeds (PaymentsMerge).        *)
(* Orders do not meet: every statement here names one order.               *)
(***************************************************************************)
EXTENDS PaymentsMerge

CONSTANTS
    Modes,          \* payment statuses
    CashierModes,   \* those ticked "Cashier dashboard" (cashier_review = 'yes')
    Split,          \* payments_split of each: "cash", "bank" or "both"
    Deliveries      \* where the goods are, see Order

ASSUME ModesAssumption ==
    /\ CashierModes \subseteq Modes
    /\ Null \notin Modes
    /\ Split \in [Modes -> {"cash", "bank", "both"}]

ASSUME DeliveriesAssumption ==
    "open" \in Deliveries /\ Deliveries \subseteq {"open", "delivered", "cancelled"}

VARIABLE order

vars == <<order, push, entry, job, locks>>

(***************************************************************************)
(* The order row, reduced to what decides its money.  delivery stands for  *)
(* the delivery status, the submission type, is_cancelled and the dates:   *)
(* "cancelled" is any value that makes the money negative, "delivered" an  *)
(* order with every stage but the payment done, "open" any other.          *)
(***************************************************************************)
Order == [exists : BOOLEAN,
          amount : Amounts \cup {Null}, mode : Modes \cup {Null},
          delivery : Deliveries,
          locked : BOOLEAN,         \* amount_locked_at IS NOT NULL
          confirmed : BOOLEAN]      \* cashier_confirmed_at IS NOT NULL

Kind(o) == IF o.delivery = "cancelled" THEN "return" ELSE "sales"
IsClosed(o) == o.delivery = "delivered" /\ o.mode # Null
CurrentSplit == IF order.mode = Null THEN "unset" ELSE Split[order.mode]

(* A plausible bug: the comparison of migration 032, of the typed values only. *)
SameMoneyTyped(o, n) == o.amount = n.amount /\ o.mode = n.mode

SameMoney(o, n) == o.amount = n.amount /\ o.mode = n.mode /\ Kind(o) = Kind(n)

NoOrder == [exists |-> FALSE, amount |-> Null, mode |-> Null, delivery |-> "open",
            locked |-> FALSE, confirmed |-> FALSE]

(* insert_order: with an advance taken at the shop, or without any money. *)
NewOrders == {o \in Order :
    /\ o.exists /\ ~o.confirmed /\ o.delivery = "open"
    /\ IF o.locked THEN o.amount \in Amounts \ {0} /\ o.mode \in CashierModes
                   ELSE o.amount = Null /\ o.mode = Null}

Init == order \in NewOrders /\ PayInit

(***************************************************************************)
(* Requests that write the order row.  They lock it, decide what the row   *)
(* becomes (job.row) and issue one UPDATE.  On it fires the trigger        *)
(* cashier_confirmation_reset: when a confirmed order's money changes, or  *)
(* any status the sign of the money is read from (status = TRUE; a change  *)
(* of dates alone is not one), the confirmation is cleared, a push row     *)
(* never merged is deleted, a merged one is marked as edited and its       *)
(* entries are warned about.  The trigger locks the push row and then the  *)
(* entries; without it the request needs no other lock.                    *)
(***************************************************************************)
Resets(row, status) == order.confirmed /\ (status \/ ~SameMoney(order, row))

Writes == {"write", "correct"}

BeginWrite(w, op, row, status) ==
    /\ order.exists
    /\ row # order \/ status
    /\ IF Resets(row, status)
       THEN /\ Start(w, [op |-> op, row |-> row], {"source"})
            /\ UNCHANGED order
       ELSE /\ AtOnce(w, {"source"})
            /\ order' = row
    /\ UNCHANGED <<push, entry>>

(* The rows a request still has to lock before it can finish. *)
Needs(w) ==
    CASE job[w].op \in Writes /\ "push" \notin locks[w] -> {"push"}
      [] job[w].op \in Writes /\ "push" \in locks[w] /\ push.merged -> Linked
      [] job[w].op \in {"confirm", "takeback", "drop"} /\ Staged -> {"push"}
      [] OTHER -> PayNeeds(w)

LockPush(w) ==
    /\ job[w].op \in Writes
    /\ "push" \notin locks[w]
    /\ Free(w, Needs(w))
    /\ locks' = [locks EXCEPT ![w] = @ \cup {"push"}]
    /\ UNCHANGED <<order, push, entry, job>>

FinishReset(w) ==
    /\ job[w].op \in Writes
    /\ "push" \in locks[w]
    /\ Free(w, Needs(w))
    /\ order' = [job[w].row EXCEPT !.confirmed = FALSE]
    /\ IF push.merged
       THEN /\ push' = [push EXCEPT !.status = "merged", !.edited = TRUE]
            /\ entry' = [e \in EntryIds |->
                  IF e \in Linked THEN [entry[e] EXCEPT !.warned = TRUE] ELSE entry[e]]
       ELSE push' = NoPush /\ UNCHANGED entry
    /\ Commit(w)

(* o2d_cashier.correct_advance: the cashier corrects a shop advance, if the *)
(* push row its SELECT joined (and did not lock) was not merged yet.       *)
CorrectAdvance(w, amount, mode) ==
    /\ order.locked
    /\ ~push.merged
    /\ amount > 0
    /\ BeginWrite(w, "correct", [order EXCEPT !.amount = amount, !.mode = mode], FALSE)

(* main.apply_order_update for a screen: a closed order is refused, and so *)
(* is a new amount or mode when those were locked at the shop.             *)
ScreenEdit(w, amount, mode, delivery, status) ==
    /\ ~IsClosed(order)
    /\ order.locked => amount = order.amount /\ mode = order.mode
    /\ BeginWrite(w, "write", [order EXCEPT !.amount = amount, !.mode = mode,
                                            !.delivery = delivery], status)

(* What only an admin may do, from All orders: edit those. *)
AdminEdit(w, amount, mode, delivery, status) ==
    /\ IsClosed(order) \/ order.locked
    /\ BeginWrite(w, "write", [order EXCEPT !.amount = amount, !.mode = mode,
                                            !.delivery = delivery], status)

(* The shop's own form, main._shop_advance_change: add an advance, change  *)
(* it or remove it - until the cashier has confirmed it, unless an admin.  *)
AdvanceOpen(admin) == order.locked /\ (order.confirmed => admin)

ShopAdvance(w, admin, amount, mode) ==
    /\ ~IsClosed(order)
    /\ amount > 0
    /\ \/ AdvanceOpen(admin)
       \/ ~order.locked /\ order.amount = Null /\ order.mode = Null
    /\ BeginWrite(w, "write", [order EXCEPT !.amount = amount, !.mode = mode, !.locked = TRUE],
                  FALSE)

ShopRemovesAdvance(w, admin) ==
    /\ ~IsClosed(order)
    /\ AdvanceOpen(admin)
    /\ BeginWrite(w, "write", [order EXCEPT !.amount = Null, !.mode = Null, !.locked = FALSE],
                  FALSE)

(***************************************************************************)
(* o2d_cashier.confirm_receipt, both ways.                                 *)
(***************************************************************************)
BeginConfirm(w) ==
    /\ order.exists
    /\ ~order.confirmed
    /\ order.mode \in CashierModes
    /\ Start(w, [op |-> "confirm"], {"source"})
    /\ UNCHANGED <<order, push, entry>>

(* payment_merge.push_order: stage the order, or stage it again. *)
PushOrder == push' = [push EXCEPT !.status = "awaiting", !.kind = Kind(order),
                                  !.amount = order.amount]

FinishConfirm(w) ==
    /\ job[w].op = "confirm"
    /\ Free(w, Needs(w))
    /\ order' = [order EXCEPT !.confirmed = TRUE]
    /\ PushOrder
    /\ Commit(w)
    /\ UNCHANGED entry

BeginTakeBack(w) ==
    /\ order.exists
    /\ order.confirmed
    /\ Start(w, [op |-> "takeback"], {"source"})
    /\ UNCHANGED <<order, push, entry>>

(* A plausible bug: taking back drops the row, though entries were made from it. *)
FinishTakeBackDropping(w) ==
    /\ job[w].op = "takeback"
    /\ Free(w, Needs(w))
    /\ order' = [order EXCEPT !.confirmed = FALSE]
    /\ push' = NoPush
    /\ Commit(w)
    /\ UNCHANGED entry

(* payment_merge.withdraw_order: refused once merged and unchanged. *)
FinishTakeBack(w) ==
    /\ job[w].op = "takeback"
    /\ Free(w, Needs(w))
    /\ IF push.status = "merged"
       THEN UNCHANGED <<order, push>>
       ELSE /\ order' = [order EXCEPT !.confirmed = FALSE]
            /\ push' = IF push.merged
                       THEN [push EXCEPT !.status = "merged", !.edited = TRUE]
                       ELSE NoPush
    /\ Commit(w)
    /\ UNCHANGED entry

(* main.delete_order: the push row goes with the order (ON DELETE CASCADE). *)
BeginDeleteOrder(w) ==
    /\ order.exists
    /\ Start(w, [op |-> "drop"], {"source"})
    /\ UNCHANGED <<order, push, entry>>

FinishDeleteOrder(w) ==
    /\ job[w].op = "drop"
    /\ Free(w, Needs(w))
    /\ order' = NoOrder
    /\ push' = NoPush
    /\ Commit(w)
    /\ UNCHANGED entry

Edits(w) ==
    /\ job[w] = Idle /\ order.exists /\ Free(w, {"source"})
    /\ \/ \E a \in Amounts, m \in CashierModes :
             CorrectAdvance(w, a, m) \/ \E admin \in BOOLEAN : ShopAdvance(w, admin, a, m)
       \/ \E a \in Amounts \cup {Null}, m \in Modes \cup {Null},
             d \in Deliveries, status \in BOOLEAN :
             ScreenEdit(w, a, m, d, status) \/ AdminEdit(w, a, m, d, status)
       \/ \E admin \in BOOLEAN : ShopRemovesAdvance(w, admin)

Finishes(w) ==
    \/ LockPush(w) \/ FinishReset(w)
    \/ FinishConfirm(w) \/ FinishTakeBack(w) \/ FinishDeleteOrder(w)

Payments(w) == PayNext(w, CurrentSplit) /\ UNCHANGED order

Next == \E w \in Workers :
    \/ Edits(w)
    \/ BeginConfirm(w) \/ BeginTakeBack(w) \/ BeginDeleteOrder(w)
    \/ Finishes(w)
    \/ Payments(w)

Spec == Init /\ [][Next]_vars

(***************************************************************************)
(* PostgreSQL rolls back one of the transactions that wait for each other, *)
(* and grants a row lock in the order it was asked for, so a request that  *)
(* is again and again able to go on does.                                  *)
(***************************************************************************)
Deadlocked(w) ==
    \E S \in SUBSET Workers :
        w \in S /\ \A v \in S : \E u \in S \ {v} : Needs(v) \cap locks[u] # {}

BreakDeadlock(w) == Deadlocked(w) /\ Rollback(w) /\ UNCHANGED order

PayFinishes(w) == (FinishMerge(w) \/ FinishClearWarning(w) \/ FinishDelete(w)) /\ UNCHANGED order

Fairness == \A w \in Workers :
    /\ SF_vars(Finishes(w))
    /\ SF_vars(PayFinishes(w))
    /\ WF_vars(BreakDeadlock(w))

LiveSpec == Spec /\ Fairness

-----------------------------------------------------------------------------
(***************************************************************************)
(* Properties.                                                             *)
(***************************************************************************)
Job == {Idle}
    \cup [op : {"merge"}, legs : LegMoney]
    \cup [op : {"clear", "delete"}, id : EntryIds]
    \cup [op : Writes, row : Order]
    \cup [op : {"confirm", "takeback", "drop"}]

\* The rows and the requests in flight have the shapes declared above.
TypeOK ==
    /\ order \in Order
    /\ push \in Push
    /\ entry \in [EntryIds -> Entry]
    /\ job \in [Workers -> Job]
    /\ locks \in [Workers -> SUBSET Rows]

\* What the cashier confirmed is what Payments has: a confirmed order is staged
\* with its present money, only confirmed orders wait to be merged, and once
\* merged the entries add up to that money - whatever the trigger, the cashier
\* and the merge did in between (o2d_cashier, payment_merge, migration 033).
ConfirmedMoneyIsStaged ==
    /\ order.confirmed => Staged /\ push.amount = order.amount /\ push.kind = Kind(order)
    /\ push.status = "awaiting" => order.confirmed
    /\ order.confirmed /\ push.status = "merged" =>
          /\ ~push.edited
          /\ order.amount # Null => LegSum(push.mergedLegs) = order.amount

\* What a merge checked when it locked the push row is still so when it writes the
\* entries: the row is there and staged for the amount that was typed, though the
\* order may be edited, confirmed, taken back or deleted meanwhile (merge_row).
MergeStaysValid ==
    \A w \in Workers : job[w].op = "merge" =>
        Staged /\ (push.amount # Null => LegSum(job[w].legs) = push.amount)

\* "Merging again UPDATES the entries it created, never adds new ones": while the
\* order lives its push row points at every entry made from it, one for each part.
OneEntryPerLeg ==
    order.exists =>
        /\ \A e \in EntryIds : Exists(e) => e \in Linked
        /\ \A l, k \in Legs : push.txn[l] = push.txn[k] /\ push.txn[l] # Null => l = k

\* Every request that has taken a lock ends, though merge_row locks the push row
\* before the entries and clear_warning / delete_transaction the other way round.
RequestsEnd == \A w \in Workers : job[w] # Idle ~> job[w] = Idle

\* AMOUNT_LOCKED_MESSAGE (app/main.py:320): "The cashier can correct them until
\* they are merged into Payments".  Read as: no correction is written after it.
CashierCorrectsOnlyUnmerged ==
    [][\A w \in Workers :
          job[w].op = "correct" /\ job'[w] = Idle /\ order' # order => ~push.merged]_vars

\* A merge makes entries "Pending for the accountant's approval" and "merging
\* again UPDATES the entries it created" (app/payment_merge.py:6,9): a part that is
\* merged when nothing of it was before is in an entry that can be approved.
MergedMoneyCanBeApproved ==
    [][\A l \in Legs :
          push.mergedLegs[l] = 0 /\ push'.mergedLegs[l] > 0 =>
              entry'[push'.txn[l]].status # "Rejected"]_vars
=============================================================================
