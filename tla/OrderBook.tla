----------------------------- MODULE OrderBook ------------------------------
(***************************************************************************)
(* The order book: how an order gets its serial number and its bill number *)
(* and how it leaves again.  The order forms (main.insert_order), the      *)
(* edits (main.apply_order_update), the bulk upload and its undo           *)
(* (app/admin_tools.py, app/bulk_entities.py) and the delete of All orders.*)
(*                                                                         *)
(* A request is one database transaction (READ COMMITTED): a Begin step    *)
(* takes its lock and makes its checks on what is committed, a Finish step *)
(* writes and commits.  An upload makes its checks in a transaction of its *)
(* own, before it takes the lock.                                          *)
(***************************************************************************)
EXTENDS Naturals

CONSTANTS
    Workers,        \* requests in flight
    OrderKeys,      \* order_key values: the bound on orders
    MaxSerial,      \* the bound on sl_no
    Bills,          \* the bills on paper: [series, day, number]
    DailySeries     \* series whose numbers restart every day

ASSUME MaxSerialAssumption == MaxSerial \in Nat
ASSUME BillsAssumption == \A b \in Bills : b.number \in Nat

VARIABLES
    orders,         \* fact_orders, by order_key
    job             \* what each request is in the middle of

vars == <<orders, job>>

NoBill == [series |-> "none"]   \* a type that is not numbered, or no number yet

(***************************************************************************)
(* numbered: who gave the order the number it carries.  imported: it has   *)
(* an import_batch_id; edited: last_updated_at is later than that batch.   *)
(* sl = 0 stands for an order that is not there.                           *)
(***************************************************************************)
Order == [sl : 0..MaxSerial, bill : Bills \cup {NoBill},
          numbered : {"form", "import", "edit"}, imported : BOOLEAN, edited : BOOLEAN]

NoOrder == [sl |-> 0, bill |-> NoBill, numbered |-> "form", imported |-> FALSE, edited |-> FALSE]

Idle == [op |-> "idle"]

Exists(k) == orders[k].sl # 0

Init ==
    /\ orders = [k \in OrderKeys |-> NoOrder]
    /\ job = [w \in Workers |-> Idle]

(* Two bills share a window: the day of a daily series, else the financial year. *)
SameWindow(a, b) == a.series = b.series /\ (a.series \in DailySeries => a.day = b.day)

Repeats(a, b) ==
    a # NoBill /\ b # NoBill /\ SameWindow(a, b) /\ a.number = b.number

(* A plausible bug: numbers are compared within the day, whatever the series. *)
UnusedThatDay(bill, own) ==
    \A k \in OrderKeys \ own :
        ~(Repeats(bill, orders[k].bill) /\ bill.day = orders[k].bill.day)

(* doc_numbers._check_unused, leaving out the order's own row. *)
Unused(bill, own) == \A k \in OrderKeys \ own : ~Repeats(bill, orders[k].bill)

(* COALESCE(MAX(sl_no), 0) + 1 *)
IsNext(sl) ==
    /\ \A k \in OrderKeys : orders[k].sl < sl
    /\ sl = 1 \/ \E k \in OrderKeys : orders[k].sl + 1 = sl

(* A plausible bug: orders are added without the lock. *)
LockNotAsked == TRUE

(* Advisory lock 7001 is held by whoever is adding orders. *)
LockFree == \A v \in Workers : job[v].op # "insert"
RowFree(k) == \A v \in Workers : job[v].op = "edit" => job[v].key # k

(* An order_key is never given twice: not one a request still names. *)
Unnamed(k) == ~Exists(k) /\ \A v \in Workers : job[v].op \in {"edit", "undo"} => job[v].key # k

-----------------------------------------------------------------------------
(* main.insert_order: lock, check the number, read the last serial, insert. *)
BeginInsert(w, bill) ==
    /\ job[w] = Idle
    /\ LockFree
    /\ Unused(bill, {})
    /\ \E sl \in 1..MaxSerial :
          /\ IsNext(sl)
          /\ job' = [job EXCEPT ![w] = [op |-> "insert", bill |-> bill, sl |-> sl, from |-> "form"]]
    /\ UNCHANGED orders

FinishInsert(w) ==
    /\ job[w].op = "insert"
    /\ \A k \in OrderKeys : orders[k].sl # job[w].sl       \* uq_fact_orders_sl_no
    /\ \E k \in OrderKeys :
          /\ Unnamed(k)
          /\ orders' = [orders EXCEPT ![k] =
                [sl |-> job[w].sl, bill |-> job[w].bill, numbered |-> job[w].from,
                 imported |-> job[w].from = "import", edited |-> FALSE]]
    /\ job' = [job EXCEPT ![w] = Idle]

(* bulk_entities.validate_orders: the same number on the same day is       *)
(* refused, whatever its series; a file of one order.                      *)
NotOnThatDay(bill) ==
    \A k \in OrderKeys :
        bill # NoBill /\ orders[k].bill # NoBill /\ orders[k].bill.day = bill.day
            => orders[k].bill.number # bill.number

ValidateUpload(w, bill) ==
    /\ job[w] = Idle
    /\ NotOnThatDay(bill)
    /\ job' = [job EXCEPT ![w] = [op |-> "upload", bill |-> bill]]
    /\ UNCHANGED orders

(* bulk_entities.insert_orders takes the lock, but checks nothing again. *)
LockUpload(w) ==
    /\ job[w].op = "upload"
    /\ LockFree
    /\ \E sl \in 1..MaxSerial :
          /\ IsNext(sl)
          /\ job' = [job EXCEPT ![w] =
                [op |-> "insert", bill |-> job[w].bill, sl |-> sl, from |-> "import"]]
    /\ UNCHANGED orders

(* main.apply_order_update: the row is locked, the lock of the numbers is  *)
(* not.  The number is checked only when the form changes it.              *)
BeginEdit(w, k, bill) ==
    /\ job[w] = Idle
    /\ Exists(k)
    /\ RowFree(k)
    /\ bill # orders[k].bill => Unused(bill, {k})
    /\ job' = [job EXCEPT ![w] = [op |-> "edit", key |-> k, bill |-> bill]]
    /\ UNCHANGED orders

FinishEdit(w) ==
    LET k == job[w].key IN
    /\ job[w].op = "edit"
    /\ orders' = [orders EXCEPT ![k].bill = job[w].bill,
                                ![k].edited = TRUE,
                                ![k].numbered = IF job[w].bill = orders[k].bill THEN @ ELSE "edit"]
    /\ job' = [job EXCEPT ![w] = Idle]

(* main.delete_order *)
DeleteOrder(w, k) ==
    /\ job[w] = Idle
    /\ Exists(k)
    /\ RowFree(k)
    /\ orders' = [orders EXCEPT ![k] = NoOrder]
    /\ UNCHANGED job

(* admin_tools.undo_batch: the batch row is locked and its orders counted; *)
(* if none has been edited, they are deleted.                              *)
BeginUndo(w, k) ==
    /\ job[w] = Idle
    /\ orders[k].imported /\ ~orders[k].edited
    /\ \A v \in Workers : job[v].op = "undo" => job[v].key # k
    /\ job' = [job EXCEPT ![w] = [op |-> "undo", key |-> k]]
    /\ UNCHANGED orders

FinishUndo(w) ==
    LET k == job[w].key IN
    /\ job[w].op = "undo"
    /\ RowFree(k)
    /\ orders' = IF orders[k].imported THEN [orders EXCEPT ![k] = NoOrder] ELSE orders
    /\ job' = [job EXCEPT ![w] = Idle]

(* Any failure, a lost connection or a restart: nothing of it is seen. *)
Rollback(w) ==
    /\ job[w] # Idle
    /\ job' = [job EXCEPT ![w] = Idle]
    /\ UNCHANGED orders

Next == \E w \in Workers :
    \/ \E bill \in Bills \cup {NoBill} : BeginInsert(w, bill)
    \/ \E bill \in Bills : ValidateUpload(w, bill)
    \/ LockUpload(w)
    \/ FinishInsert(w)
    \/ \E k \in OrderKeys :
        \/ \E bill \in Bills \cup {NoBill} : BeginEdit(w, k, bill)
        \/ DeleteOrder(w, k)
        \/ BeginUndo(w, k)
    \/ FinishEdit(w)
    \/ FinishUndo(w)
    \/ Rollback(w)

Spec == Init /\ [][Next]_vars

-----------------------------------------------------------------------------
(***************************************************************************)
(* Properties.                                                             *)
(***************************************************************************)
Job == {Idle}
    \cup [op : {"insert"}, bill : Bills \cup {NoBill}, sl : 1..MaxSerial, from : {"form", "import"}]
    \cup [op : {"upload"}, bill : Bills]
    \cup [op : {"edit"}, key : OrderKeys, bill : Bills \cup {NoBill}]
    \cup [op : {"undo"}, key : OrderKeys]

\* Orders and requests in flight have the shapes declared above.
TypeOK ==
    /\ orders \in [OrderKeys -> Order]
    /\ job \in [Workers -> Job]

\* "Serialise serial-number assignment so concurrent creates can't collide" (insert_order,
\* insert_orders): the serial in the hands of whoever adds an order is still past every
\* order's when it is written, and no two orders share one - whatever is deleted, edited
\* or undone meanwhile.
SerialsNeverClash ==
    /\ \A w \in Workers, k \in OrderKeys : job[w].op = "insert" => orders[k].sl < job[w].sl
    /\ \A k, l \in OrderKeys : orders[k].sl = orders[l].sl /\ Exists(k) => k = l

\* Of two orders that still carry the number they were entered with, no two repeat a
\* number in a window: entering holds the lock from the check to the commit.
FormNumbersAreUnique ==
    \A k, l \in OrderKeys :
        orders[k].numbered = "form" /\ orders[l].numbered = "form"
            /\ Repeats(orders[k].bill, orders[l].bill) => k = l

\* "Challan / Invoice numbers must be digits and must not repeat inside their series"
\* (app/doc_numbers.py:108), of numbers entered or changed on the forms.
NumbersDoNotRepeat ==
    \A k, l \in OrderKeys :
        orders[k].numbered # "import" /\ orders[l].numbered # "import"
            /\ Repeats(orders[k].bill, orders[l].bill) => k = l
=============================================================================
