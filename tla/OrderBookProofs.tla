-------------------------- MODULE OrderBookProofs ---------------------------
(***************************************************************************)
(* Proofs about OrderBook, for any number of requests, orders and bills.   *)
(***************************************************************************)
EXTENDS OrderBook, TLAPS

\* Only one request adds orders at a time: the one that holds advisory lock 7001.
OneInserter ==
    \A v, w \in Workers : job[v].op = "insert" /\ job[w].op = "insert" => v = w

\* What a form's insert checked still holds of every number entered on a form.
InsertIsUnused ==
    \A w \in Workers, k \in OrderKeys :
        job[w].op = "insert" /\ job[w].from = "form" /\ orders[k].numbered = "form"
            => ~Repeats(job[w].bill, orders[k].bill)

IInv ==
    /\ TypeOK
    /\ OneInserter
    /\ SerialsNeverClash
    /\ InsertIsUnused
    /\ FormNumbersAreUnique

(***************************************************************************)
(* Facts about single rows.                                                *)
(***************************************************************************)

\* Repeating a number is symmetric, and an order without one repeats none.
LEMMA RepeatsIsSymmetric == \A a, b : Repeats(a, b) <=> Repeats(b, a)
BY DEF Repeats, SameWindow

LEMMA NoBillRepeatsNone == \A a : ~Repeats(a, NoBill) /\ ~Repeats(NoBill, a)
BY DEF Repeats

\* What a request carries, by what it is doing.
LEMMA InsertCarries ==
    ASSUME TypeOK, NEW w \in Workers, job[w].op = "insert"
    PROVE  /\ job[w].bill \in Bills \cup {NoBill} /\ job[w].sl \in 1..MaxSerial
           /\ job[w].from \in {"form", "import"}
BY DEF TypeOK, Job, Idle

LEMMA UploadCarries ==
    ASSUME TypeOK, NEW w \in Workers, job[w].op = "upload"
    PROVE  job[w].bill \in Bills
BY DEF TypeOK, Job, Idle

LEMMA EditCarries ==
    ASSUME TypeOK, NEW w \in Workers, job[w].op = "edit"
    PROVE  job[w].key \in OrderKeys /\ job[w].bill \in Bills \cup {NoBill}
BY DEF TypeOK, Job, Idle

LEMMA UndoCarries ==
    ASSUME TypeOK, NEW w \in Workers, job[w].op = "undo"
    PROVE  job[w].key \in OrderKeys
BY DEF TypeOK, Job, Idle

LEMMA ConstantRows == NoOrder \in Order /\ Idle \in Job /\ Idle.op = "idle"
BY MaxSerialAssumption DEF NoOrder, Order, Idle, Job

(***************************************************************************)
(* Steps that only begin, go on with or give up a request.                 *)
(***************************************************************************)

\* A request that comes to hold something other than an insert disturbs nothing.
LEMMA OtherJobKeepsIInv ==
    ASSUME IInv, NEW w \in Workers, NEW j \in Job, j.op # "insert",
           job' = [job EXCEPT ![w] = j], UNCHANGED orders
    PROVE  IInv'
<1>1. TypeOK'
  BY DEF IInv, TypeOK
<1>2. \A v \in Workers : job'[v].op = "insert" => v # w /\ job'[v] = job[v]
  BY DEF IInv, TypeOK
<1>3. OneInserter'
  BY <1>2 DEF IInv, OneInserter
<1>4. SerialsNeverClash'
  BY <1>2 DEF IInv, SerialsNeverClash, Exists
<1>5. InsertIsUnused'
  BY <1>2 DEF IInv, InsertIsUnused
<1>6. FormNumbersAreUnique'
  BY DEF IInv, FormNumbersAreUnique
<1> QED
  BY <1>1, <1>3, <1>4, <1>5, <1>6 DEF IInv

\* Whoever takes the lock, finds the next serial, and (on a form) has checked the number.
LEMMA LockedKeepsIInv ==
    ASSUME IInv, NEW w \in Workers, NEW bill \in Bills \cup {NoBill}, NEW sl \in 1..MaxSerial,
           NEW from \in {"form", "import"},
           LockFree, IsNext(sl), from = "form" => Unused(bill, {}),
           job' = [job EXCEPT ![w] = [op |-> "insert", bill |-> bill, sl |-> sl, from |-> from]],
           UNCHANGED orders
    PROVE  IInv'
<1> DEFINE j == [op |-> "insert", bill |-> bill, sl |-> sl, from |-> from]
<1>0. j \in Job /\ j.op = "insert" /\ j.bill = bill /\ j.sl = sl /\ j.from = from
  BY DEF Job
<1>00. job' = [job EXCEPT ![w] = j]
  OBVIOUS
<1> HIDE DEF j
<1>1. TypeOK'
  BY <1>0, <1>00 DEF IInv, TypeOK
<1>2. \A v \in Workers : job'[v].op = "insert" => v = w /\ job'[v] = j
  BY <1>00 DEF IInv, TypeOK, LockFree
<1>3. OneInserter'
  BY <1>2 DEF OneInserter
<1>4. SerialsNeverClash'
  BY <1>0, <1>2 DEF IInv, SerialsNeverClash, Exists, IsNext
<1>5. InsertIsUnused'
  BY <1>0, <1>2 DEF InsertIsUnused, Unused
<1>6. FormNumbersAreUnique'
  BY DEF IInv, FormNumbersAreUnique
<1> QED
  BY <1>1, <1>3, <1>4, <1>5, <1>6 DEF IInv

(***************************************************************************)
(* Steps that write an order.                                              *)
(***************************************************************************)

\* An order that goes takes its numbers with it.
LEMMA RemovalKeepsIInv ==
    ASSUME IInv, NEW k \in OrderKeys, orders' = [orders EXCEPT ![k] = NoOrder], UNCHANGED job
    PROVE  IInv'
<1>1. TypeOK'
  BY ConstantRows DEF IInv, TypeOK
<1>2. \A l \in OrderKeys : orders'[l] = IF l = k THEN NoOrder ELSE orders[l]
  BY DEF IInv, TypeOK
<1>3. NoOrder.sl = 0 /\ NoOrder.bill = NoBill
  BY DEF NoOrder
<1>4. OneInserter'
  BY DEF IInv, OneInserter
<1>5. SerialsNeverClash'
  <2>1. \A w \in Workers : job[w].op = "insert" => 0 < job[w].sl
    BY InsertCarries, MaxSerialAssumption DEF IInv
  <2> QED
    BY <1>2, <1>3, <2>1 DEF IInv, SerialsNeverClash, Exists
<1>6. InsertIsUnused'
  BY <1>2, <1>3, NoBillRepeatsNone DEF IInv, InsertIsUnused
<1>7. FormNumbersAreUnique'
  BY <1>2, <1>3, NoBillRepeatsNone DEF IInv, FormNumbersAreUnique
<1> QED
  BY <1>1, <1>4, <1>5, <1>6, <1>7 DEF IInv

\* Ending a request that is not an insert, or giving any up, disturbs nothing.
LEMMA EndKeepsIInv ==
    ASSUME IInv, NEW w \in Workers, job' = [job EXCEPT ![w] = Idle], UNCHANGED orders
    PROVE  IInv'
BY OtherJobKeepsIInv, ConstantRows

\* The new order is past every serial, and repeats no number entered on a form.
LEMMA FinishInsertKeepsIInv ==
    ASSUME IInv, NEW w \in Workers, FinishInsert(w)
    PROVE  IInv'
<1>1. PICK k \in OrderKeys :
         orders' = [orders EXCEPT ![k] =
                [sl |-> job[w].sl, bill |-> job[w].bill, numbered |-> job[w].from,
                 imported |-> job[w].from = "import", edited |-> FALSE]]
  BY DEF FinishInsert
<1> DEFINE new == [sl |-> job[w].sl, bill |-> job[w].bill, numbered |-> job[w].from,
                   imported |-> job[w].from = "import", edited |-> FALSE]
<1>2. new \in Order /\ new.sl = job[w].sl /\ new.bill = job[w].bill /\ new.numbered = job[w].from
  BY InsertCarries DEF FinishInsert, IInv, Order
<1>3. orders' = [orders EXCEPT ![k] = new]
  BY <1>1
<1> HIDE DEF new
<1>4. \A l \in OrderKeys : orders'[l] = IF l = k THEN new ELSE orders[l]
  BY <1>3 DEF IInv, TypeOK
<1>5. job[w].op = "insert" /\ job' = [job EXCEPT ![w] = Idle]
  BY DEF FinishInsert
<1>6. \A v \in Workers : job'[v].op # "insert"
  BY <1>5, ConstantRows DEF IInv, TypeOK, OneInserter
<1>7. TypeOK'
  BY <1>2, <1>3, <1>5, ConstantRows DEF IInv, TypeOK
<1>8. OneInserter' /\ InsertIsUnused'
  BY <1>6 DEF OneInserter, InsertIsUnused
<1>9. SerialsNeverClash'
  <2>1. \A l \in OrderKeys : orders[l].sl < new.sl /\ orders[l].sl \in Nat /\ new.sl \in Nat
    BY <1>2, <1>5, InsertCarries, MaxSerialAssumption DEF IInv, SerialsNeverClash, TypeOK, Order
  <2>2. \A l \in OrderKeys : orders[l].sl # new.sl
    BY <2>1
  <2> QED
    BY <1>4, <1>6, <2>2 DEF IInv, SerialsNeverClash, Exists
<1>10. FormNumbersAreUnique'
  <2>1. \A l \in OrderKeys : new.numbered = "form" /\ orders[l].numbered = "form"
                               => ~Repeats(new.bill, orders[l].bill)
    BY <1>2, <1>5 DEF IInv, InsertIsUnused
  <2>2. \A l \in OrderKeys : new.numbered = "form" /\ orders[l].numbered = "form"
                               => ~Repeats(orders[l].bill, new.bill)
    BY <2>1, RepeatsIsSymmetric
  <2> QED
    BY <1>4, <2>1, <2>2 DEF IInv, FormNumbersAreUnique
<1> QED
  BY <1>7, <1>8, <1>9, <1>10 DEF IInv

\* An edit leaves the serial alone, and a number it changes is no longer the form's.
LEMMA FinishEditKeepsIInv ==
    ASSUME IInv, NEW w \in Workers, FinishEdit(w)
    PROVE  IInv'
<1> DEFINE k == job[w].key
<1>1. k \in OrderKeys /\ job[w].bill \in Bills \cup {NoBill} /\ job[w].op = "edit"
  BY EditCarries DEF FinishEdit, IInv
<1>2. /\ orders' = [orders EXCEPT ![k].bill = job[w].bill, ![k].edited = TRUE,
                      ![k].numbered = IF job[w].bill = orders[k].bill THEN @ ELSE "edit"]
      /\ job' = [job EXCEPT ![w] = Idle]
  BY DEF FinishEdit
<1> HIDE DEF k
<1>3. orders \in [OrderKeys -> Order]
  BY DEF IInv, TypeOK
<1>4. orders' \in [OrderKeys -> Order]
  <2> DEFINE by == IF job[w].bill = orders[k].bill THEN orders[k].numbered ELSE "edit"
             row == [orders[k] EXCEPT !.bill = job[w].bill, !.edited = TRUE, !.numbered = by]
  <2>1. orders[k] \in Order /\ by \in {"form", "import", "edit"}
    BY <1>1, <1>3 DEF Order
  <2>2. orders' = [orders EXCEPT ![k] = row]
    BY <1>1, <1>2, <1>3
  <2> HIDE DEF by
  <2>3. row \in Order
    BY <1>1, <2>1 DEF Order
  <2> HIDE DEF row
  <2> QED
    BY <1>1, <1>3, <2>2, <2>3
<1>5. \A l \in OrderKeys : /\ orders'[l].sl = orders[l].sl
                           /\ orders'[l].numbered = "form" =>
                                 orders[l].numbered = "form" /\ orders'[l].bill = orders[l].bill
  BY <1>1, <1>2, <1>3 DEF Order
<1>6. \A v \in Workers : job'[v].op = "insert" => job'[v] = job[v]
  BY <1>2, ConstantRows DEF IInv, TypeOK
<1>7. TypeOK'
  BY <1>2, <1>4, ConstantRows DEF IInv, TypeOK
<1>8. OneInserter'
  BY <1>6 DEF IInv, OneInserter
<1>9. SerialsNeverClash'
  BY <1>5, <1>6 DEF IInv, SerialsNeverClash, Exists
<1>10. InsertIsUnused'
  BY <1>5, <1>6 DEF IInv, InsertIsUnused
<1>11. FormNumbersAreUnique'
  BY <1>5 DEF IInv, FormNumbersAreUnique
<1> QED
  BY <1>7, <1>8, <1>9, <1>10, <1>11 DEF IInv

\* An undo removes the order of its batch, if it is there, and ends.
LEMMA FinishUndoKeepsIInv ==
    ASSUME IInv, NEW w \in Workers, FinishUndo(w)
    PROVE  IInv'
<1> DEFINE k == job[w].key
<1>1. k \in OrderKeys /\ job[w].op = "undo"
  BY UndoCarries DEF FinishUndo, IInv
<1>2. orders' = orders \/ orders' = [orders EXCEPT ![k] = NoOrder]
  BY DEF FinishUndo
<1>3. job' = [job EXCEPT ![w] = Idle]
  BY DEF FinishUndo
<1> HIDE DEF k
<1>4. \A v \in Workers : job'[v].op = "insert" => job'[v] = job[v]
  BY <1>3, ConstantRows DEF IInv, TypeOK
<1>5. \A l \in OrderKeys : orders'[l] = orders[l] \/ orders'[l] = NoOrder
  BY <1>1, <1>2 DEF IInv, TypeOK
<1>6. NoOrder.sl = 0 /\ NoOrder.bill = NoBill
  BY DEF NoOrder
<1>7. TypeOK'
  BY <1>1, <1>2, <1>3, ConstantRows DEF IInv, TypeOK
<1>8. OneInserter'
  BY <1>4 DEF IInv, OneInserter
<1>9. SerialsNeverClash'
  <2>1. \A v \in Workers : job'[v].op = "insert" => 0 < job'[v].sl
    BY <1>4, InsertCarries, MaxSerialAssumption DEF IInv
  <2> QED
    BY <1>4, <1>5, <1>6, <2>1 DEF IInv, SerialsNeverClash, Exists
<1>10. InsertIsUnused'
  BY <1>4, <1>5, <1>6, NoBillRepeatsNone DEF IInv, InsertIsUnused
<1>11. FormNumbersAreUnique'
  BY <1>5, <1>6, NoBillRepeatsNone DEF IInv, FormNumbersAreUnique
<1> QED
  BY <1>7, <1>8, <1>9, <1>10, <1>11 DEF IInv

(***************************************************************************)
(* The invariant holds at first and is kept.                               *)
(***************************************************************************)

\* An empty book with nobody at work on it.
LEMMA IInvInit == Init => IInv
<1> SUFFICES ASSUME Init PROVE IInv
  OBVIOUS
<1>1. TypeOK
  BY ConstantRows DEF Init, TypeOK
<1>2. \A w \in Workers : job[w].op = "idle"
  BY ConstantRows DEF Init
<1>3. \A k \in OrderKeys : orders[k].sl = 0 /\ orders[k].bill = NoBill
  BY DEF Init, NoOrder
<1> QED
  BY <1>1, <1>2, <1>3, NoBillRepeatsNone
     DEF IInv, OneInserter, SerialsNeverClash, InsertIsUnused, FormNumbersAreUnique, Exists

\* Every step of every request keeps it.
LEMMA IInvStep ==
    ASSUME IInv, [Next]_vars
    PROVE  IInv'
<1>1. CASE UNCHANGED vars
  BY <1>1 DEF vars, IInv, TypeOK, OneInserter, SerialsNeverClash, InsertIsUnused,
              FormNumbersAreUnique, Exists
<1>2. ASSUME NEW w \in Workers, NEW bill \in Bills \cup {NoBill}, BeginInsert(w, bill) PROVE IInv'
  <2>1. PICK sl \in 1..MaxSerial :
           /\ IsNext(sl)
           /\ job' = [job EXCEPT ![w] = [op |-> "insert", bill |-> bill, sl |-> sl, from |-> "form"]]
    BY <1>2 DEF BeginInsert
  <2>2. LockFree /\ Unused(bill, {}) /\ UNCHANGED orders
    BY <1>2 DEF BeginInsert
  <2> QED
    BY <2>1, <2>2, LockedKeepsIInv
<1>3. ASSUME NEW w \in Workers, NEW bill \in Bills, ValidateUpload(w, bill) PROVE IInv'
  <2> DEFINE j == [op |-> "upload", bill |-> bill]
  <2>1. j \in Job /\ j.op # "insert"
    BY DEF Job
  <2>2. job' = [job EXCEPT ![w] = j] /\ UNCHANGED orders
    BY <1>3 DEF ValidateUpload
  <2> HIDE DEF j
  <2> QED
    BY <2>1, <2>2, OtherJobKeepsIInv
<1>4. ASSUME NEW w \in Workers, LockUpload(w) PROVE IInv'
  <2>1. PICK sl \in 1..MaxSerial :
           /\ IsNext(sl)
           /\ job' = [job EXCEPT ![w] =
                [op |-> "insert", bill |-> job[w].bill, sl |-> sl, from |-> "import"]]
    BY <1>4 DEF LockUpload
  <2>2. LockFree /\ job[w].bill \in Bills \cup {NoBill} /\ UNCHANGED orders
    BY <1>4, UploadCarries DEF LockUpload, IInv
  <2> QED
    BY <2>1, <2>2, LockedKeepsIInv
<1>5. ASSUME NEW w \in Workers, FinishInsert(w) PROVE IInv'
  BY <1>5, FinishInsertKeepsIInv
<1>6. ASSUME NEW w \in Workers, NEW k \in OrderKeys, NEW bill \in Bills \cup {NoBill},
             BeginEdit(w, k, bill)
      PROVE  IInv'
  <2> DEFINE j == [op |-> "edit", key |-> k, bill |-> bill]
  <2>1. j \in Job /\ j.op # "insert"
    BY DEF Job
  <2>2. job' = [job EXCEPT ![w] = j] /\ UNCHANGED orders
    BY <1>6 DEF BeginEdit
  <2> HIDE DEF j
  <2> QED
    BY <2>1, <2>2, OtherJobKeepsIInv
<1>7. ASSUME NEW w \in Workers, NEW k \in OrderKeys, DeleteOrder(w, k) PROVE IInv'
  BY <1>7, RemovalKeepsIInv DEF DeleteOrder
<1>8. ASSUME NEW w \in Workers, NEW k \in OrderKeys, BeginUndo(w, k) PROVE IInv'
  <2> DEFINE j == [op |-> "undo", key |-> k]
  <2>1. j \in Job /\ j.op # "insert"
    BY DEF Job
  <2>2. job' = [job EXCEPT ![w] = j] /\ UNCHANGED orders
    BY <1>8 DEF BeginUndo
  <2> HIDE DEF j
  <2> QED
    BY <2>1, <2>2, OtherJobKeepsIInv
<1>9. ASSUME NEW w \in Workers, FinishEdit(w) PROVE IInv'
  BY <1>9, FinishEditKeepsIInv
<1>10. ASSUME NEW w \in Workers, FinishUndo(w) PROVE IInv'
  BY <1>10, FinishUndoKeepsIInv
<1>11. ASSUME NEW w \in Workers, Rollback(w) PROVE IInv'
  BY <1>11, EndKeepsIInv DEF Rollback
<1> QED
  BY <1>1, <1>2, <1>3, <1>4, <1>5, <1>6, <1>7, <1>8, <1>9, <1>10, <1>11 DEF Next

\* Serials never clash, for any number of people adding, editing, deleting and undoing at once.
THEOREM SerialsCorrect == Spec => []SerialsNeverClash
<1>1. IInv /\ [Next]_vars => IInv'
  BY IInvStep
<1>2. IInv => SerialsNeverClash
  BY DEF IInv
<1> QED
  BY IInvInit, <1>1, <1>2, PTL DEF Spec

\* No two orders that carry the number they were entered with repeat it in a window.
THEOREM FormNumbersCorrect == Spec => []FormNumbersAreUnique
<1>1. IInv /\ [Next]_vars => IInv'
  BY IInvStep
<1>2. IInv => FormNumbersAreUnique
  BY DEF IInv
<1> QED
  BY IInvInit, <1>1, <1>2, PTL DEF Spec
=============================================================================
