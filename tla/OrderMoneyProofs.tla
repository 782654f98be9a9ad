-------------------------- MODULE OrderMoneyProofs --------------------------
(***************************************************************************)
(* Proofs about OrderMoney, for any number of requests in flight, entries, *)
(* amounts and payment statuses.                                           *)
(***************************************************************************)
EXTENDS OrderMoney, TLAPS

(***************************************************************************)
(* Shapes of the rows the requests write.                                  *)
(***************************************************************************)

\* The constant rows are rows.
LEMMA ConstantRows ==
    /\ NoPush \in Push /\ NoEntry \in Entry /\ NoOrder \in Order
    /\ NewOrders \subseteq Order /\ Idle \in Job
<1>1. NoPush \in Push
  BY DEF NoPush, Push, Money, LegMoney, NoMoney
<1>2. NoEntry \in Entry
  BY DEF NoEntry, Entry, Money, Legs
<1>3. NoOrder \in Order
  BY DeliveriesAssumption DEF NoOrder, Order
<1>4. NewOrders \subseteq Order
  BY DEF NewOrders
<1>5. Idle \in Job
  BY DEF Job
<1> QED
  BY <1>1, <1>2, <1>3, <1>4, <1>5

\* What a merge is carrying are amounts for the two legs.
LEMMA MergeCarriesLegs ==
    ASSUME TypeOK, NEW w \in Workers, job[w].op = "merge"
    PROVE  job[w].legs \in LegMoney
BY DEF TypeOK, Job, Idle, Writes

\* What clear-warning and delete are carrying is an entry.
LEMMA EntryJobCarriesId ==
    ASSUME TypeOK, NEW w \in Workers, job[w].op \in {"clear", "delete"}
    PROVE  job[w].id \in EntryIds
BY DEF TypeOK, Job, Idle, Writes

\* What an edit is carrying is an order row.
LEMMA WriteCarriesRow ==
    ASSUME TypeOK, NEW w \in Workers, job[w].op \in Writes
    PROVE  job[w].row \in Order
BY DEF TypeOK, Job, Idle, Writes

\* Starting a request, ending one and doing one at once keep the shapes of job and locks.
LEMMA StartTypes ==
    ASSUME TypeOK, NEW w \in Workers, NEW j \in Job, NEW rows \in SUBSET Rows, Start(w, j, rows)
    PROVE  job' \in [Workers -> Job] /\ locks' \in [Workers -> SUBSET Rows]
BY DEF TypeOK, Start

LEMMA CommitTypes ==
    ASSUME TypeOK, NEW w \in Workers, Commit(w)
    PROVE  job' \in [Workers -> Job] /\ locks' \in [Workers -> SUBSET Rows]
BY ConstantRows DEF TypeOK, Commit

LEMMA AtOnceTypes ==
    ASSUME TypeOK, NEW w \in Workers, NEW rows, AtOnce(w, rows)
    PROVE  job' \in [Workers -> Job] /\ locks' \in [Workers -> SUBSET Rows]
BY DEF TypeOK, AtOnce

\* An edit writes the row it was given, or hands it to a request in flight.
LEMMA BeginWriteTypes ==
    ASSUME TypeOK, NEW w \in Workers, NEW op \in Writes, NEW row \in Order,
           NEW status \in BOOLEAN, BeginWrite(w, op, row, status)
    PROVE  TypeOK'
<1> DEFINE j == [op |-> op, row |-> row]
<1>1. j \in Job /\ {"source"} \in SUBSET Rows
  BY DEF Job, Rows
<1>2. CASE Resets(row, status)
  <2>1. Start(w, j, {"source"}) /\ UNCHANGED <<order, push, entry>>
    BY <1>2 DEF BeginWrite
  <2>2. job' \in [Workers -> Job] /\ locks' \in [Workers -> SUBSET Rows]
    <3> HIDE DEF j
    <3> QED BY <1>1, <2>1, StartTypes
  <2> QED
    BY <2>1, <2>2 DEF TypeOK
<1>3. CASE ~Resets(row, status)
  <2>1. AtOnce(w, {"source"}) /\ order' = row /\ UNCHANGED <<push, entry>>
    BY <1>3 DEF BeginWrite
  <2>2. job' \in [Workers -> Job] /\ locks' \in [Workers -> SUBSET Rows]
    BY <2>1, AtOnceTypes
  <2> QED
    BY <2>1, <2>2 DEF TypeOK
<1> QED
  BY <1>2, <1>3

\* The initial states have the declared shapes.
LEMMA TypeInit == Init => TypeOK
<1> SUFFICES ASSUME Init PROVE TypeOK
  OBVIOUS
<1>1. order \in Order
  BY ConstantRows DEF Init
<1>2. push \in Push /\ entry \in [EntryIds -> Entry]
  BY ConstantRows DEF Init, PayInit
<1>3. job \in [Workers -> Job] /\ locks \in [Workers -> SUBSET Rows]
  BY ConstantRows DEF Init, PayInit
<1> QED
  BY <1>1, <1>2, <1>3 DEF TypeOK

\* What a merge writes are entries, and the push row it writes is one.
LEMMA FinishMergeTypes ==
    ASSUME TypeOK, NEW w \in Workers, FinishMerge(w), UNCHANGED order
    PROVE  TypeOK'
<1> DEFINE legs == job[w].legs
           created == Created(legs)
<1>1. legs \in LegMoney /\ created \subseteq Legs
  BY MergeCarriesLegs DEF FinishMerge, Created
<1>2. PICK new \in [created -> {e \in EntryIds : ~Exists(e)}] :
        /\ entry' = [e \in EntryIds |->
              IF \E l \in created : new[l] = e
              THEN LET l == CHOOSE l \in created : new[l] = e IN NewEntry(legs[l])
              ELSE IF e \in Linked /\ Exists(e)
              THEN LET l == CHOOSE l \in Legs : push.txn[l] = e IN WriteLeg(entry[e], legs[l])
              ELSE entry[e]]
        /\ push' = [push EXCEPT
              !.status = "merged", !.merged = TRUE, !.edited = FALSE,
              !.mergedLegs = legs,
              !.txn = [l \in Legs |->
                  IF l \in created THEN new[l]
                  ELSE IF push.txn[l] # Null /\ Exists(push.txn[l]) THEN push.txn[l]
                  ELSE Null]]
  BY DEF FinishMerge
<1>3. Commit(w)
  BY DEF FinishMerge
<1>4. ASSUME NEW l \in Legs PROVE NewEntry(legs[l]) \in Entry
  BY <1>1 DEF NewEntry, Entry, LegMoney
<1>5. ASSUME NEW l \in Legs, NEW e \in EntryIds PROVE WriteLeg(entry[e], legs[l]) \in Entry
  <2>1. entry[e] \in Entry /\ legs[l] \in Money
    BY <1>1 DEF TypeOK, LegMoney
  <2> QED
    BY <2>1 DEF WriteLeg, RetiredLeg, UpdatedLeg, Entry
<1> HIDE DEF created, legs
<1>6. entry' \in [EntryIds -> Entry]
  <2> SUFFICES ASSUME NEW e \in EntryIds PROVE entry'[e] \in Entry
    BY <1>2
  <2>1. CASE \E l \in created : new[l] = e
    <3>1. (CHOOSE l \in created : new[l] = e) \in Legs
      BY <2>1, <1>1
    <3> QED
      BY <2>1, <3>1, <1>2, <1>4
  <2>2. CASE ~(\E l \in created : new[l] = e) /\ e \in Linked /\ Exists(e)
    <3>1. (CHOOSE l \in Legs : push.txn[l] = e) \in Legs
      BY <2>2 DEF Linked
    <3> QED
      BY <2>2, <3>1, <1>2, <1>5
  <2>3. CASE ~(\E l \in created : new[l] = e) /\ ~(e \in Linked /\ Exists(e))
    BY <2>3, <1>2 DEF TypeOK
  <2> QED
    BY <2>1, <2>2, <2>3
<1>7. push' \in Push
  <2> DEFINE txn == [l \in Legs |->
                  IF l \in created THEN new[l]
                  ELSE IF push.txn[l] # Null /\ Exists(push.txn[l]) THEN push.txn[l]
                  ELSE Null]
  <2>1. push \in Push /\ push.txn \in [Legs -> EntryIds \cup {Null}]
    BY DEF TypeOK, Push
  <2>2. txn \in [Legs -> EntryIds \cup {Null}]
    BY <2>1, <1>1, <1>2
  <2> HIDE DEF txn
  <2>3. push' = [push EXCEPT !.status = "merged", !.merged = TRUE, !.edited = FALSE,
                             !.mergedLegs = legs, !.txn = txn]
    BY <1>2 DEF txn
  <2> QED
    BY <2>1, <2>2, <2>3, <1>1 DEF Push
<1> QED
  BY <1>3, <1>6, <1>7, CommitTypes DEF TypeOK

\* Every form writes an order row, and none touches the confirmation: only the trigger does.
LEMMA EditsAreWrites ==
    ASSUME TypeOK, NEW w \in Workers, Edits(w)
    PROVE  \E op \in Writes, row \in Order, reset \in BOOLEAN :
              /\ BeginWrite(w, op, row, reset)
              /\ row.confirmed = order.confirmed /\ row.exists = order.exists
<1>0. order \in Order
  BY DEF TypeOK
<1>1. ASSUME NEW a \in Amounts, NEW m \in CashierModes, CorrectAdvance(w, a, m)
      PROVE  \E op \in Writes, row \in Order, reset \in BOOLEAN :
                /\ BeginWrite(w, op, row, reset)
                /\ row.confirmed = order.confirmed /\ row.exists = order.exists
  <2> DEFINE row == [order EXCEPT !.amount = a, !.mode = m]
  <2>1. row \in Order /\ row.confirmed = order.confirmed /\ row.exists = order.exists
    BY <1>0, ModesAssumption DEF Order
  <2>2. "correct" \in Writes /\ BeginWrite(w, "correct", row, FALSE)
    BY <1>1 DEF CorrectAdvance, Writes
  <2> QED
    BY <2>1, <2>2
<1>2. ASSUME NEW a \in Amounts, NEW m \in CashierModes, NEW admin \in BOOLEAN,
             ShopAdvance(w, admin, a, m)
      PROVE  \E op \in Writes, row \in Order, reset \in BOOLEAN :
                /\ BeginWrite(w, op, row, reset)
                /\ row.confirmed = order.confirmed /\ row.exists = order.exists
  <2> DEFINE row == [order EXCEPT !.amount = a, !.mode = m, !.locked = TRUE]
  <2>1. row \in Order /\ row.confirmed = order.confirmed /\ row.exists = order.exists
    BY <1>0, ModesAssumption DEF Order
  <2>2. "write" \in Writes /\ BeginWrite(w, "write", row, FALSE)
    BY <1>2 DEF ShopAdvance, Writes
  <2> QED
    BY <2>1, <2>2
<1>3. ASSUME NEW a \in Amounts \cup {Null}, NEW m \in Modes \cup {Null}, NEW d \in Deliveries,
             NEW status \in BOOLEAN, ScreenEdit(w, a, m, d, status)
      PROVE  \E op \in Writes, row \in Order, reset \in BOOLEAN :
                /\ BeginWrite(w, op, row, reset)
                /\ row.confirmed = order.confirmed /\ row.exists = order.exists
  <2> DEFINE row == [order EXCEPT !.amount = a, !.mode = m, !.delivery = d]
  <2>1. row \in Order /\ row.confirmed = order.confirmed /\ row.exists = order.exists
    BY <1>0 DEF Order
  <2>2. "write" \in Writes /\ BeginWrite(w, "write", row, status)
    BY <1>3 DEF ScreenEdit, Writes
  <2> QED
    BY <2>1, <2>2
<1>4. ASSUME NEW a \in Amounts \cup {Null}, NEW m \in Modes \cup {Null}, NEW d \in Deliveries,
             NEW status \in BOOLEAN, AdminEdit(w, a, m, d, status)
      PROVE  \E op \in Writes, row \in Order, reset \in BOOLEAN :
                /\ BeginWrite(w, op, row, reset)
                /\ row.confirmed = order.confirmed /\ row.exists = order.exists
  <2> DEFINE row == [order EXCEPT !.amount = a, !.mode = m, !.delivery = d]
  <2>1. row \in Order /\ row.confirmed = order.confirmed /\ row.exists = order.exists
    BY <1>0 DEF Order
  <2>2. "write" \in Writes /\ BeginWrite(w, "write", row, status)
    BY <1>4 DEF AdminEdit, Writes
  <2> QED
    BY <2>1, <2>2
<1>5. ASSUME NEW admin \in BOOLEAN, ShopRemovesAdvance(w, admin)
      PROVE  \E op \in Writes, row \in Order, reset \in BOOLEAN :
                /\ BeginWrite(w, op, row, reset)
                /\ row.confirmed = order.confirmed /\ row.exists = order.exists
  <2> DEFINE row == [order EXCEPT !.amount = Null, !.mode = Null, !.locked = FALSE]
  <2>1. row \in Order /\ row.confirmed = order.confirmed /\ row.exists = order.exists
    BY <1>0 DEF Order
  <2>2. "write" \in Writes /\ BeginWrite(w, "write", row, FALSE)
    BY <1>5 DEF ShopRemovesAdvance, Writes
  <2> QED
    BY <2>1, <2>2
<1> QED
  BY <1>1, <1>2, <1>3, <1>4, <1>5 DEF Edits

\* Every step keeps the declared shapes.
LEMMA TypeStep ==
    ASSUME TypeOK, [Next]_vars
    PROVE  TypeOK'
<1>1. CASE UNCHANGED vars
  BY <1>1 DEF TypeOK, vars
<1>2. ASSUME NEW w \in Workers, Edits(w) PROVE TypeOK'
  BY <1>2, EditsAreWrites, BeginWriteTypes
<1>3. ASSUME NEW w \in Workers, BeginConfirm(w) \/ BeginTakeBack(w) \/ BeginDeleteOrder(w)
      PROVE  TypeOK'
  <2>1. PICK op \in {"confirm", "takeback", "drop"} :
           Start(w, [op |-> op], {"source"}) /\ UNCHANGED <<order, push, entry>>
    BY <1>3 DEF BeginConfirm, BeginTakeBack, BeginDeleteOrder
  <2>2. [op |-> op] \in Job /\ {"source"} \in SUBSET Rows
    BY DEF Job, Rows
  <2> QED
    BY <2>1, <2>2, StartTypes DEF TypeOK
<1>4. ASSUME NEW w \in Workers, LockPush(w) PROVE TypeOK'
  BY <1>4 DEF LockPush, TypeOK, Rows
<1>5. ASSUME NEW w \in Workers, FinishReset(w) PROVE TypeOK'
  <2>1. order' \in Order
    <3>1. job[w].row \in Order
      BY <1>5, WriteCarriesRow DEF FinishReset
    <3> QED
      BY <1>5, <3>1 DEF FinishReset, Order
  <2>2. push' \in Push
    BY <1>5, ConstantRows DEF FinishReset, TypeOK, Push
  <2>3. entry' \in [EntryIds -> Entry]
    <3>1. CASE push.merged
      <4>1. \A e \in EntryIds : [entry[e] EXCEPT !.warned = TRUE] \in Entry /\ entry[e] \in Entry
        BY DEF TypeOK, Entry
      <4> QED
        BY <1>5, <3>1, <4>1 DEF FinishReset
    <3>2. CASE ~push.merged
      BY <1>5, <3>2 DEF FinishReset, TypeOK
    <3> QED
      BY <3>1, <3>2
  <2>4. job' \in [Workers -> Job] /\ locks' \in [Workers -> SUBSET Rows]
    BY <1>5, CommitTypes DEF FinishReset
  <2> QED
    BY <2>1, <2>2, <2>3, <2>4 DEF TypeOK
<1>6. ASSUME NEW w \in Workers, FinishConfirm(w) PROVE TypeOK'
  <2>1. order' \in Order /\ UNCHANGED entry
    BY <1>6 DEF FinishConfirm, TypeOK, Order
  <2>2. push' \in Push
    <3>1. push \in Push /\ order.amount \in Money \cup {Null} /\ Kind(order) \in {"sales", "return"}
      BY DEF TypeOK, Order, Kind, Money
    <3> QED
      BY <1>6, <3>1 DEF FinishConfirm, PushOrder, Push
  <2>3. job' \in [Workers -> Job] /\ locks' \in [Workers -> SUBSET Rows]
    BY <1>6, CommitTypes DEF FinishConfirm
  <2> QED
    BY <2>1, <2>2, <2>3 DEF TypeOK
<1>7. ASSUME NEW w \in Workers, FinishTakeBack(w) PROVE TypeOK'
  <2>1. order' \in Order /\ UNCHANGED entry
    BY <1>7 DEF FinishTakeBack, TypeOK, Order
  <2>2. push' \in Push
    BY <1>7, ConstantRows DEF FinishTakeBack, TypeOK, Push
  <2>3. job' \in [Workers -> Job] /\ locks' \in [Workers -> SUBSET Rows]
    BY <1>7, CommitTypes DEF FinishTakeBack
  <2> QED
    BY <2>1, <2>2, <2>3 DEF TypeOK
<1>8. ASSUME NEW w \in Workers, FinishDeleteOrder(w) PROVE TypeOK'
  BY <1>8, ConstantRows, CommitTypes DEF FinishDeleteOrder, TypeOK
<1>9. ASSUME NEW w \in Workers, Payments(w) PROVE TypeOK'
  <2>1. ASSUME NEW legs \in LegMoney, BeginMerge(w, legs, CurrentSplit) PROVE TypeOK'
    <3> DEFINE j == [op |-> "merge", legs |-> legs]
    <3>1. j \in Job /\ {"push"} \in SUBSET Rows
      BY DEF Job, Rows
    <3>2. Start(w, j, {"push"}) /\ UNCHANGED <<order, push, entry>>
      BY <1>9, <2>1 DEF BeginMerge, Payments
    <3> HIDE DEF j
    <3> QED
      BY <3>1, <3>2, StartTypes DEF TypeOK
  <2>2. CASE FinishMerge(w)
    BY <1>9, <2>2, FinishMergeTypes DEF Payments
  <2>3. ASSUME NEW e \in EntryIds, NEW d \in {"Approved", "Rejected"}, Decide(w, e, d)
        PROVE  TypeOK'
    BY <1>9, <2>3, AtOnceTypes DEF Decide, Payments, TypeOK, Entry
  <2>4. ASSUME NEW e \in EntryIds, NEW a \in TypedAmounts, UpdateTransaction(w, e, a)
        PROVE  TypeOK'
    <3>1. entry' \in [EntryIds -> Entry]
      BY <2>4, AmountsAssumption DEF UpdateTransaction, TypeOK, Entry, Money
    <3> QED
      BY <1>9, <2>4, <3>1, AtOnceTypes DEF UpdateTransaction, Payments, TypeOK
  <2>5. ASSUME NEW e \in EntryIds, NEW op \in {"clear", "delete"}, BeginOnEntry(w, e, op)
        PROVE  TypeOK'
    <3> DEFINE j == [op |-> op, id |-> e]
    <3>1. j \in Job /\ {e} \in SUBSET Rows
      BY DEF Job, Rows
    <3>2. Start(w, j, {e}) /\ UNCHANGED <<order, push, entry>>
      BY <1>9, <2>5 DEF BeginOnEntry, Payments
    <3> HIDE DEF j
    <3> QED
      BY <3>1, <3>2, StartTypes DEF TypeOK
  <2>6. CASE FinishClearWarning(w)
    <3>1. entry' \in [EntryIds -> Entry] /\ push' \in Push
      BY <2>6, EntryJobCarriesId DEF FinishClearWarning, TypeOK, Entry, Push
    <3> QED
      BY <1>9, <2>6, <3>1, CommitTypes DEF FinishClearWarning, Payments, TypeOK
  <2>7. CASE FinishDelete(w)
    <3>1. entry' \in [EntryIds -> Entry]
      BY <2>7, ConstantRows DEF FinishDelete, TypeOK
    <3>2. push' \in Push
      BY <2>7 DEF FinishDelete, TypeOK, Push
    <3> QED
      BY <1>9, <2>7, <3>1, <3>2, CommitTypes DEF FinishDelete, Payments, TypeOK
  <2>8. CASE Rollback(w)
    BY <1>9, <2>8, CommitTypes DEF Rollback, Payments, TypeOK
  <2> QED
    BY <1>9, <2>1, <2>2, <2>3, <2>4, <2>5, <2>6, <2>7, <2>8 DEF Payments, PayNext
<1> QED
  BY <1>1, <1>2, <1>3, <1>4, <1>5, <1>6, <1>7, <1>8, <1>9 DEF Next, Finishes

\* Type correctness: whatever the requests do, the rows keep the shapes the schema gives them.
THEOREM TypeCorrect == Spec => []TypeOK
<1>1. TypeOK /\ [Next]_vars => TypeOK'
  BY TypeStep
<1> QED
  BY TypeInit, <1>1, PTL DEF Spec

-----------------------------------------------------------------------------
(***************************************************************************)
(* The confirmed money.  ConfirmedMoneyIsStaged is not inductive: a merge  *)
(* commits legs it checked when it locked the push row, so one must know   *)
(* that they still fit it (MergeStaysValid) - which holds because whoever  *)
(* changes or deletes a staged push row locks it first, and a row has one  *)
(* holder (OneHolder, MergeHoldsPush).                                     *)
(***************************************************************************)
OneHolder == \A v, w \in Workers : v # w => locks[v] \cap locks[w] = {}

MergeHoldsPush == \A w \in Workers : job[w].op = "merge" => "push" \in locks[w]

IInv ==
    /\ TypeOK
    /\ OneHolder
    /\ MergeHoldsPush
    /\ MergeStaysValid
    /\ ConfirmedMoneyIsStaged

\* No request is in flight at first, and no order starts confirmed.
LEMMA IInvInit == Init => IInv
<1> SUFFICES ASSUME Init PROVE IInv
  OBVIOUS
<1>1. TypeOK
  BY TypeInit
<1>2. OneHolder
  BY DEF Init, PayInit, OneHolder
<1>3. MergeHoldsPush /\ MergeStaysValid
  BY DEF Init, PayInit, MergeHoldsPush, MergeStaysValid, Idle
<1>4. ConfirmedMoneyIsStaged
  BY DEF Init, PayInit, NewOrders, NoPush, ConfirmedMoneyIsStaged
<1> QED
  BY <1>1, <1>2, <1>3, <1>4 DEF IInv

\* Locks are only taken when no other request has them.
LEMMA StartKeepsHolders ==
    ASSUME IInv, NEW w \in Workers, NEW j, NEW rows, Start(w, j, rows)
    PROVE  OneHolder'
BY DEF IInv, TypeOK, OneHolder, Start, Free

LEMMA CommitKeepsHolders ==
    ASSUME IInv, NEW w \in Workers, Commit(w)
    PROVE  OneHolder'
BY DEF IInv, TypeOK, OneHolder, Commit

\* A request other than a merge leaves the locks of the merges in flight alone.
LEMMA OtherStartKeepsMergeLocks ==
    ASSUME IInv, NEW w \in Workers, NEW j, NEW rows, Start(w, j, rows), j.op # "merge"
    PROVE  MergeHoldsPush'
BY DEF IInv, TypeOK, MergeHoldsPush, Start

LEMMA CommitKeepsMergeLocks ==
    ASSUME IInv, NEW w \in Workers, Commit(w)
    PROVE  MergeHoldsPush'
BY DEF IInv, TypeOK, MergeHoldsPush, Commit, Idle

\* While a merge is in flight nobody else can take the push row.
LEMMA MergeExcludes ==
    ASSUME IInv, NEW v \in Workers, NEW w \in Workers, v # w, job[v].op = "merge"
    PROVE  "push" \notin locks[w] /\ ~Free(w, {"push"})
BY DEF IInv, OneHolder, MergeHoldsPush, Free

\* Confirm, take back and delete wait for the push row whenever there is one, so they
\* finish only when no merge is in flight.
LEMMA FinishExcludesMerge ==
    ASSUME IInv, NEW w \in Workers, job[w].op \in {"confirm", "takeback", "drop"},
           Free(w, Needs(w))
    PROVE  ~ \E v \in Workers \ {w} : job[v].op = "merge"
<1> SUFFICES ASSUME NEW v \in Workers \ {w}, job[v].op = "merge" PROVE FALSE
  OBVIOUS
<1>1. Staged
  BY DEF IInv, MergeStaysValid
<1>2. Needs(w) = {"push"}
  BY <1>1 DEF Needs, Writes
<1> QED
  BY <1>2, MergeExcludes

\* A step that ends or starts a request other than a merge, and leaves what is staged
\* alone while another request merges it, keeps MergeStaysValid.
LEMMA OthersStayValid ==
    ASSUME IInv, TypeOK', NEW w \in Workers, NEW j, j.op # "merge", job' = [job EXCEPT ![w] = j],
           (\E v \in Workers \ {w} : job[v].op = "merge") => Staged' /\ push'.amount = push.amount
    PROVE  MergeStaysValid'
<1> SUFFICES ASSUME NEW v \in Workers, job'[v].op = "merge"
             PROVE  Staged' /\ (push'.amount # Null => LegSum(job'[v].legs) = push'.amount)
  BY DEF MergeStaysValid, LegSum
<1>1. v # w /\ job'[v] = job[v]
  BY DEF IInv, TypeOK
<1>2. Staged' /\ push'.amount = push.amount
  BY <1>1
<1> QED
  BY <1>1, <1>2 DEF IInv, MergeStaysValid

\* An edit of the order: unless the trigger fires, what was confirmed stays what is staged.
LEMMA EditKeepsIInv ==
    ASSUME IInv, NEW w \in Workers, Edits(w), TypeOK'
    PROVE  IInv'
<1>1. PICK op \in Writes, row \in Order, reset \in BOOLEAN :
         /\ BeginWrite(w, op, row, reset)
         /\ row.confirmed = order.confirmed /\ row.exists = order.exists
  BY EditsAreWrites DEF IInv
<1>2. CASE Resets(row, reset)
  <2> DEFINE j == [op |-> op, row |-> row]
  <2>1. Start(w, j, {"source"}) /\ UNCHANGED <<order, push, entry>>
    BY <1>1, <1>2 DEF BeginWrite
  <2>2. j.op # "merge"
    BY DEF Writes
  <2> HIDE DEF j
  <2>3. OneHolder' /\ MergeHoldsPush'
    BY <2>1, <2>2, StartKeepsHolders, OtherStartKeepsMergeLocks
  <2>4. MergeStaysValid'
    <3>1. job' = [job EXCEPT ![w] = j] /\ push' = push
      BY <2>1 DEF Start
    <3>2. (\E v \in Workers \ {w} : job[v].op = "merge") => Staged' /\ push'.amount = push.amount
      BY <3>1 DEF IInv, MergeStaysValid, Staged
    <3> QED
      BY <2>2, <3>1, <3>2, OthersStayValid
  <2>5. ConfirmedMoneyIsStaged'
    BY <2>1 DEF IInv, ConfirmedMoneyIsStaged, Staged, Kind, LegSum
  <2> QED
    BY <2>3, <2>4, <2>5 DEF IInv
<1>3. CASE ~Resets(row, reset)
  <2>1. UNCHANGED <<job, locks, push, entry>> /\ order' = row
    BY <1>1, <1>3 DEF BeginWrite, AtOnce
  <2>2. OneHolder' /\ MergeHoldsPush' /\ MergeStaysValid'
    BY <2>1 DEF IInv, OneHolder, MergeHoldsPush, MergeStaysValid, Staged, LegSum
  <2>3. order.confirmed => row.amount = order.amount /\ Kind(row) = Kind(order)
    BY <1>3 DEF Resets, SameMoney, Kind
  <2>4. ConfirmedMoneyIsStaged'
    BY <1>1, <2>1, <2>3 DEF IInv, ConfirmedMoneyIsStaged, Staged, Kind, LegSum
  <2> QED
    BY <2>2, <2>4 DEF IInv
<1> QED
  BY <1>2, <1>3

\* Confirm, take back and delete begin by locking the order row.
LEMMA BeginKeepsIInv ==
    ASSUME IInv, NEW w \in Workers, BeginConfirm(w) \/ BeginTakeBack(w) \/ BeginDeleteOrder(w),
           TypeOK'
    PROVE  IInv'
<1>1. PICK j \in [op : {"confirm", "takeback", "drop"}] :
         Start(w, j, {"source"}) /\ UNCHANGED <<order, push, entry>>
  BY DEF BeginConfirm, BeginTakeBack, BeginDeleteOrder
<1>2. j.op # "merge"
  OBVIOUS
<1>3. OneHolder' /\ MergeHoldsPush'
  BY <1>1, <1>2, StartKeepsHolders, OtherStartKeepsMergeLocks
<1>4. MergeStaysValid'
  <2>1. job' = [job EXCEPT ![w] = j] /\ push' = push
    BY <1>1 DEF Start
  <2>2. (\E v \in Workers \ {w} : job[v].op = "merge") => Staged' /\ push'.amount = push.amount
    BY <2>1 DEF IInv, MergeStaysValid, Staged
  <2> QED
    BY <1>2, <2>1, <2>2, OthersStayValid
<1>5. ConfirmedMoneyIsStaged'
  BY <1>1 DEF IInv, ConfirmedMoneyIsStaged, Staged, Kind, LegSum
<1> QED
  BY <1>3, <1>4, <1>5 DEF IInv

\* The trigger takes its second lock.
LEMMA LockPushKeepsIInv ==
    ASSUME IInv, NEW w \in Workers, LockPush(w), TypeOK'
    PROVE  IInv'
<1>1. Needs(w) = {"push"}
  BY DEF LockPush, Needs
<1>2. locks' = [locks EXCEPT ![w] = @ \cup {"push"}] /\ UNCHANGED <<order, push, entry, job>>
  BY DEF LockPush
<1>3. OneHolder'
  <2>1. \A v \in Workers \ {w} : "push" \notin locks[v]
    BY <1>1 DEF LockPush, Free
  <2> QED
    BY <1>2, <2>1 DEF IInv, TypeOK, OneHolder
<1>4. MergeHoldsPush' /\ MergeStaysValid' /\ ConfirmedMoneyIsStaged'
  BY <1>2 DEF IInv, TypeOK, MergeHoldsPush, MergeStaysValid, ConfirmedMoneyIsStaged, Staged,
              Kind, LegSum
<1> QED
  BY <1>3, <1>4 DEF IInv

\* A push row that was withdrawn is not waiting to be merged.
LEMMA WithdrawnIsNotAwaiting ==
    ASSUME push \in Push
    PROVE  /\ [push EXCEPT !.status = "merged", !.edited = TRUE].status # "awaiting"
           /\ NoPush.status # "awaiting"
<1>1. NoPush.status # "awaiting"
  BY DEF NoPush
<1>2. [push EXCEPT !.status = "merged", !.edited = TRUE].status # "awaiting"
  BY DEF Push
<1> QED
  BY <1>1, <1>2

\* The trigger has taken the confirmation back: nothing waits to be merged any more.
LEMMA FinishResetKeepsIInv ==
    ASSUME IInv, NEW w \in Workers, FinishReset(w), TypeOK'
    PROVE  IInv'
<1>1. Commit(w)
  BY DEF FinishReset
<1>2. OneHolder' /\ MergeHoldsPush'
  BY <1>1, CommitKeepsHolders, CommitKeepsMergeLocks
<1>3. ~ \E v \in Workers \ {w} : job[v].op = "merge"
  BY MergeExcludes DEF FinishReset
<1>4. MergeStaysValid'
  BY <1>1, <1>3, OthersStayValid DEF Commit, Idle
<1>5. ConfirmedMoneyIsStaged'
  <2>1. order'.confirmed = FALSE
    BY WriteCarriesRow DEF FinishReset, IInv, Order
  <2>2. push'.status # "awaiting"
    <3>1. push' = [push EXCEPT !.status = "merged", !.edited = TRUE] \/ push' = NoPush
      BY DEF FinishReset
    <3>2. push \in Push
      BY DEF IInv, TypeOK
    <3> QED
      BY <3>1, <3>2, WithdrawnIsNotAwaiting
  <2> QED
    BY <2>1, <2>2 DEF ConfirmedMoneyIsStaged
<1> QED
  BY <1>2, <1>4, <1>5 DEF IInv

\* Confirming stages the order as it is now; no merge can be in flight on a staged row.
LEMMA FinishConfirmKeepsIInv ==
    ASSUME IInv, NEW w \in Workers, FinishConfirm(w), TypeOK'
    PROVE  IInv'
<1>1. Commit(w)
  BY DEF FinishConfirm
<1>2. OneHolder' /\ MergeHoldsPush'
  BY <1>1, CommitKeepsHolders, CommitKeepsMergeLocks
<1>3. ~ \E v \in Workers \ {w} : job[v].op = "merge"
  BY FinishExcludesMerge DEF FinishConfirm
<1>4. MergeStaysValid'
  BY <1>1, <1>3, OthersStayValid DEF Commit, Idle
<1>5. ConfirmedMoneyIsStaged'
  <2>1. order \in Order /\ push \in Push
    BY DEF IInv, TypeOK
  <2>2. /\ order'.amount = order.amount /\ order'.delivery = order.delivery
        /\ order'.confirmed
        /\ push'.status = "awaiting" /\ push'.amount = order.amount /\ push'.kind = Kind(order)
    BY <2>1 DEF FinishConfirm, PushOrder, Order, Push
  <2> QED
    BY <2>2 DEF ConfirmedMoneyIsStaged, Staged, Kind
<1> QED
  BY <1>2, <1>4, <1>5 DEF IInv

\* Taking a confirmation back withdraws the push row, or refuses and changes nothing.
LEMMA FinishTakeBackKeepsIInv ==
    ASSUME IInv, NEW w \in Workers, FinishTakeBack(w), TypeOK'
    PROVE  IInv'
<1>1. Commit(w)
  BY DEF FinishTakeBack
<1>2. OneHolder' /\ MergeHoldsPush'
  BY <1>1, CommitKeepsHolders, CommitKeepsMergeLocks
<1>3. ~ \E v \in Workers \ {w} : job[v].op = "merge"
  BY FinishExcludesMerge DEF FinishTakeBack
<1>4. MergeStaysValid'
  BY <1>1, <1>3, OthersStayValid DEF Commit, Idle
<1>5. ConfirmedMoneyIsStaged'
  <2>1. CASE push.status = "merged"
    BY <2>1 DEF FinishTakeBack, IInv, ConfirmedMoneyIsStaged, Staged, Kind, LegSum
  <2>2. CASE push.status # "merged"
    <3>1. order \in Order /\ push \in Push
      BY DEF IInv, TypeOK
    <3>2. order'.confirmed = FALSE
      BY <2>2, <3>1 DEF FinishTakeBack, Order
    <3>3. push' = [push EXCEPT !.status = "merged", !.edited = TRUE] \/ push' = NoPush
      BY <2>2 DEF FinishTakeBack
    <3>4. push'.status # "awaiting"
      BY <3>1, <3>3, WithdrawnIsNotAwaiting
    <3> QED
      BY <3>2, <3>4 DEF ConfirmedMoneyIsStaged
  <2> QED
    BY <2>1, <2>2
<1> QED
  BY <1>2, <1>4, <1>5 DEF IInv

\* Deleting the order deletes what it staged.
LEMMA FinishDeleteOrderKeepsIInv ==
    ASSUME IInv, NEW w \in Workers, FinishDeleteOrder(w), TypeOK'
    PROVE  IInv'
<1>1. Commit(w)
  BY DEF FinishDeleteOrder
<1>2. OneHolder' /\ MergeHoldsPush'
  BY <1>1, CommitKeepsHolders, CommitKeepsMergeLocks
<1>3. ~ \E v \in Workers \ {w} : job[v].op = "merge"
  BY FinishExcludesMerge DEF FinishDeleteOrder
<1>4. MergeStaysValid'
  BY <1>1, <1>3, OthersStayValid DEF Commit, Idle
<1>5. ConfirmedMoneyIsStaged'
  BY DEF FinishDeleteOrder, NoOrder, NoPush, ConfirmedMoneyIsStaged
<1> QED
  BY <1>2, <1>4, <1>5 DEF IInv

\* A merge starts with amounts that fit what is staged.
LEMMA BeginMergeKeepsIInv ==
    ASSUME IInv, NEW w \in Workers, NEW legs \in LegMoney, NEW split,
           BeginMerge(w, legs, split), UNCHANGED order, TypeOK'
    PROVE  IInv'
<1> DEFINE j == [op |-> "merge", legs |-> legs]
<1>1. /\ job' = [job EXCEPT ![w] = j] /\ locks' = [locks EXCEPT ![w] = {"push"}]
      /\ UNCHANGED <<order, push, entry>>
  BY DEF BeginMerge, Start
<1>2. OneHolder'
  <2>1. Start(w, j, {"push"})
    BY DEF BeginMerge
  <2> HIDE DEF j
  <2> QED
    BY <2>1, StartKeepsHolders
<1>3. MergeHoldsPush'
  <2> HIDE DEF j
  <2> QED
    BY <1>1 DEF IInv, TypeOK, MergeHoldsPush
<1>4. MergeStaysValid'
  <2> SUFFICES ASSUME NEW v \in Workers, job'[v].op = "merge"
               PROVE  Staged' /\ (push'.amount # Null => LegSum(job'[v].legs) = push'.amount)
    BY DEF MergeStaysValid, LegSum
  <2>1. CASE v = w
    <3>1. job'[v].legs = legs
      BY <1>1, <2>1 DEF IInv, TypeOK
    <3> QED
      BY <1>1, <3>1 DEF BeginMerge, Check, Staged
  <2>2. CASE v # w
    <3>1. job'[v] = job[v]
      BY <1>1, <2>2 DEF IInv, TypeOK
    <3> QED
      BY <1>1, <3>1 DEF IInv, MergeStaysValid, Staged
  <2> QED
    BY <2>1, <2>2
<1>5. ConfirmedMoneyIsStaged'
  BY <1>1 DEF IInv, ConfirmedMoneyIsStaged, Staged, Kind, LegSum
<1> QED
  BY <1>2, <1>3, <1>4, <1>5 DEF IInv

\* A merge commits exactly the money it checked, which is the confirmed order's.
LEMMA FinishMergeKeepsIInv ==
    ASSUME IInv, NEW w \in Workers, FinishMerge(w), UNCHANGED order, TypeOK'
    PROVE  IInv'
<1>1. Commit(w)
  BY DEF FinishMerge
<1>2. OneHolder' /\ MergeHoldsPush'
  BY <1>1, CommitKeepsHolders, CommitKeepsMergeLocks
<1>3. push \in Push
  BY DEF IInv, TypeOK
<1>4. /\ push'.status = "merged" /\ push'.amount = push.amount /\ push'.kind = push.kind
      /\ push'.edited = FALSE /\ push'.mergedLegs = job[w].legs
  BY <1>3 DEF FinishMerge, Push
<1>5. MergeStaysValid'
  BY <1>1, <1>4, OthersStayValid DEF Commit, Idle, Staged
<1>6. Staged /\ (push.amount # Null => LegSum(job[w].legs) = push.amount)
  BY DEF FinishMerge, IInv, MergeStaysValid
<1>7. ConfirmedMoneyIsStaged'
  BY <1>4, <1>6 DEF IInv, ConfirmedMoneyIsStaged, Staged, Kind, LegSum
<1> QED
  BY <1>2, <1>5, <1>7 DEF IInv

\* What the accountant and the admin do to an entry leaves the staged money alone.
LEMMA OnEntriesKeepsIInv ==
    ASSUME IInv, NEW w \in Workers, UNCHANGED order, TypeOK',
           \/ \E e \in EntryIds : \/ \E d \in {"Approved", "Rejected"} : Decide(w, e, d)
                                  \/ \E a \in TypedAmounts : UpdateTransaction(w, e, a)
                                  \/ \E op \in {"clear", "delete"} : BeginOnEntry(w, e, op)
           \/ FinishClearWarning(w) \/ FinishDelete(w) \/ Rollback(w)
    PROVE  IInv'
<1>0. push \in Push
  BY DEF IInv, TypeOK
<1>1. /\ UNCHANGED <<push.status, push.amount, push.kind, push.mergedLegs>>
      /\ push'.edited => push.edited
  <2>1. CASE \E e \in EntryIds : \/ \E d \in {"Approved", "Rejected"} : Decide(w, e, d)
                                 \/ \E a \in TypedAmounts : UpdateTransaction(w, e, a)
                                 \/ \E op \in {"clear", "delete"} : BeginOnEntry(w, e, op)
    BY <2>1 DEF Decide, UpdateTransaction, BeginOnEntry
  <2>2. CASE FinishClearWarning(w)
    BY <1>0, <2>2 DEF FinishClearWarning, Push
  <2>3. CASE FinishDelete(w)
    BY <1>0, <2>3 DEF FinishDelete, Push
  <2>4. CASE Rollback(w)
    BY <2>4 DEF Rollback
  <2> QED
    BY <2>1, <2>2, <2>3, <2>4
<1>2. ConfirmedMoneyIsStaged'
  BY <1>1 DEF IInv, ConfirmedMoneyIsStaged, Staged, Kind, LegSum
<1>3. OneHolder' /\ MergeHoldsPush' /\ MergeStaysValid'
  <2>1. CASE \E e \in EntryIds : \/ \E d \in {"Approved", "Rejected"} : Decide(w, e, d)
                                 \/ \E a \in TypedAmounts : UpdateTransaction(w, e, a)
    <3>1. UNCHANGED <<job, locks, push>>
      BY <2>1 DEF Decide, UpdateTransaction, AtOnce
    <3> QED
      BY <3>1 DEF IInv, OneHolder, MergeHoldsPush, MergeStaysValid, Staged, LegSum
  <2>2. CASE \E e \in EntryIds : \E op \in {"clear", "delete"} : BeginOnEntry(w, e, op)
    <3>1. PICK e \in EntryIds, j \in [op : {"clear", "delete"}, id : EntryIds] : Start(w, j, {e})
      BY <2>2 DEF BeginOnEntry
    <3>2. j.op # "merge"
      OBVIOUS
    <3>3. OneHolder' /\ MergeHoldsPush'
      BY <3>1, <3>2, StartKeepsHolders, OtherStartKeepsMergeLocks
    <3>4. MergeStaysValid'
      <4>1. job' = [job EXCEPT ![w] = j]
        BY <3>1 DEF Start
      <4>2. (\E v \in Workers \ {w} : job[v].op = "merge") => Staged' /\ push'.amount = push.amount
        BY <1>1 DEF IInv, MergeStaysValid, Staged
      <4> QED
        BY <3>2, <4>1, <4>2, OthersStayValid
    <3> QED
      BY <3>3, <3>4
  <2>3. CASE FinishClearWarning(w) \/ FinishDelete(w) \/ Rollback(w)
    <3>1. Commit(w)
      BY <2>3 DEF FinishClearWarning, FinishDelete, Rollback
    <3>2. OneHolder' /\ MergeHoldsPush'
      BY <3>1, CommitKeepsHolders, CommitKeepsMergeLocks
    <3>3. (\E v \in Workers \ {w} : job[v].op = "merge") => Staged' /\ push'.amount = push.amount
      BY <1>1 DEF IInv, MergeStaysValid, Staged
    <3>4. MergeStaysValid'
      BY <3>1, <3>3, OthersStayValid DEF Commit, Idle
    <3> QED
      BY <3>2, <3>4
  <2> QED
    BY <2>1, <2>2, <2>3
<1> QED
  BY <1>2, <1>3 DEF IInv

\* Every step of every request keeps the inductive invariant.
LEMMA IInvStep ==
    ASSUME IInv, [Next]_vars
    PROVE  IInv'
<1>0. TypeOK'
  BY TypeStep DEF IInv
<1>1. CASE UNCHANGED vars
  BY <1>0, <1>1 DEF vars, IInv, OneHolder, MergeHoldsPush, MergeStaysValid,
                    ConfirmedMoneyIsStaged, Staged, Kind, LegSum
<1>2. ASSUME NEW w \in Workers, Edits(w) PROVE IInv'
  BY <1>0, <1>2, EditKeepsIInv
<1>3. ASSUME NEW w \in Workers, BeginConfirm(w) \/ BeginTakeBack(w) \/ BeginDeleteOrder(w)
      PROVE  IInv'
  BY <1>0, <1>3, BeginKeepsIInv
<1>4. ASSUME NEW w \in Workers, Finishes(w) PROVE IInv'
  BY <1>0, <1>4, LockPushKeepsIInv, FinishResetKeepsIInv, FinishConfirmKeepsIInv,
     FinishTakeBackKeepsIInv, FinishDeleteOrderKeepsIInv DEF Finishes
<1>5. ASSUME NEW w \in Workers, Payments(w) PROVE IInv'
  <2>1. CASE \E legs \in LegMoney : BeginMerge(w, legs, CurrentSplit)
    BY <1>0, <1>5, <2>1, BeginMergeKeepsIInv DEF Payments
  <2>2. CASE FinishMerge(w)
    BY <1>0, <1>5, <2>2, FinishMergeKeepsIInv DEF Payments
  <2>3. CASE \/ \E e \in EntryIds : \/ \E d \in {"Approved", "Rejected"} : Decide(w, e, d)
                                    \/ \E a \in TypedAmounts : UpdateTransaction(w, e, a)
                                    \/ \E op \in {"clear", "delete"} : BeginOnEntry(w, e, op)
             \/ FinishClearWarning(w) \/ FinishDelete(w) \/ Rollback(w)
    BY <1>0, <1>5, <2>3, OnEntriesKeepsIInv DEF Payments
  <2> QED
    BY <1>5, <2>1, <2>2, <2>3 DEF Payments, PayNext
<1> QED
  BY <1>1, <1>2, <1>3, <1>4, <1>5 DEF Next

\* What the cashier confirmed is what Payments has, and a merge commits what it checked,
\* for any number of people at work on the order at once.
THEOREM ConfirmedMoneyCorrect == Spec => [](ConfirmedMoneyIsStaged /\ MergeStaysValid)
<1>1. IInv /\ [Next]_vars => IInv'
  BY IInvStep
<1>2. IInv => ConfirmedMoneyIsStaged /\ MergeStaysValid
  BY DEF IInv
<1> QED
  BY IInvInit, <1>1, <1>2, PTL DEF Spec

-----------------------------------------------------------------------------
(***************************************************************************)
(* The entries.  That each part of the money has its one entry is not      *)
(* inductive either: a push row is deleted when it was not merged, so one  *)
(* must know that no entry came of it (OnlyMergesLink); and a request      *)
(* writes back the order it locked, so one must know that nobody deleted   *)
(* it meanwhile, which the lock on the order row sees to (SourceHeld).     *)
(***************************************************************************)
OnOrder == Writes \cup {"confirm", "takeback", "drop"}

SourceHeld == \A w \in Workers : job[w].op \in OnOrder => "source" \in locks[w]

WritersHaveOrder == \A w \in Workers : job[w].op \in Writes => order.exists /\ job[w].row.exists

LegsDiffer == \A l, k \in Legs : push.txn[l] = push.txn[k] /\ push.txn[l] # Null => l = k

OnlyMergesLink == ~push.merged => \A l \in Legs : push.txn[l] = Null

NoStrays == order.exists => \A e \in EntryIds : Exists(e) => e \in Linked

Entries == LegsDiffer /\ OnlyMergesLink /\ NoStrays /\ EntriesCarryTheMerge

Locking == SourceHeld /\ WritersHaveOrder

EInv == IInv /\ Locking /\ Entries

\* No request is in flight at first, and no entry is made.
LEMMA EInvInit == Init => EInv
<1> SUFFICES ASSUME Init PROVE EInv
  OBVIOUS
<1>1. IInv
  BY IInvInit
<1>2. Locking
  BY DEF Init, PayInit, Locking, SourceHeld, WritersHaveOrder, OnOrder, Writes, Idle
<1>3. Entries
  BY DEF Init, PayInit, Entries, LegsDiffer, OnlyMergesLink, NoStrays, EntriesCarryTheMerge,
         NoPush, NoEntry, Exists
<1> QED
  BY <1>1, <1>2, <1>3 DEF EInv

\* Whoever works on the order row holds it, so two requests never do.
LEMMA OneOnOrder ==
    ASSUME EInv, NEW v \in Workers, NEW w \in Workers, job[v].op \in OnOrder, job[w].op \in OnOrder
    PROVE  v = w
BY DEF EInv, Locking, SourceHeld, IInv, OneHolder

\* A free order row is one that no request in flight works on.
LEMMA FreeOrder ==
    ASSUME EInv, NEW w \in Workers, job[w] = Idle, Free(w, {"source"})
    PROVE  \A v \in Workers : job[v].op \notin OnOrder
BY DEF EInv, Locking, SourceHeld, Free, OnOrder, Writes, Idle

\* A step of a request that does not work on the order row leaves those that do alone.
LEMMA OthersKeepLocking ==
    ASSUME EInv, NEW w \in Workers, job[w].op \notin OnOrder, UNCHANGED order,
           NEW j, j.op \notin OnOrder, NEW rows,
           job' = [job EXCEPT ![w] = j], locks' = [locks EXCEPT ![w] = rows]
    PROVE  Locking'
<1>1. job \in [Workers -> Job] /\ locks \in [Workers -> SUBSET Rows]
  BY DEF EInv, IInv, TypeOK
<1>2. \A v \in Workers : job'[v].op \in OnOrder => v # w /\ job'[v] = job[v] /\ locks'[v] = locks[v]
  BY <1>1
<1>3. Writes \subseteq OnOrder
  BY DEF OnOrder
<1> QED
  BY <1>2, <1>3 DEF EInv, Locking, SourceHeld, WritersHaveOrder

\* The request that worked on the order row ends: no other did.
LEMMA EndKeepsLocking ==
    ASSUME EInv, NEW w \in Workers, job[w].op \in OnOrder, Commit(w)
    PROVE  Locking'
<1>1. job \in [Workers -> Job] /\ locks \in [Workers -> SUBSET Rows]
  BY DEF EInv, IInv, TypeOK
<1>2. \A v \in Workers : job'[v].op \notin OnOrder
  BY <1>1, OneOnOrder DEF Commit, Idle, OnOrder, Writes
<1>3. Writes \subseteq OnOrder
  BY DEF OnOrder
<1> QED
  BY <1>2, <1>3 DEF Locking, SourceHeld, WritersHaveOrder

\* A request starts on the order row: no other works on it.
LEMMA StartKeepsLocking ==
    ASSUME EInv, NEW w \in Workers, NEW j, Start(w, j, {"source"}),
           order.exists, UNCHANGED order, j.op \in Writes => j.row.exists
    PROVE  Locking'
<1>1. job \in [Workers -> Job] /\ locks \in [Workers -> SUBSET Rows]
  BY DEF EInv, IInv, TypeOK
<1>2. \A v \in Workers : job[v].op \notin OnOrder
  BY FreeOrder DEF Start
<1>3. \A v \in Workers : job'[v].op \in OnOrder => v = w
  BY <1>1, <1>2 DEF Start
<1>4. job'[w] = j /\ locks'[w] = {"source"}
  BY <1>1 DEF Start
<1>5. Writes \subseteq OnOrder
  BY DEF OnOrder
<1> QED
  BY <1>3, <1>4, <1>5 DEF Locking, SourceHeld, WritersHaveOrder

\* Nothing the entries depend on has changed.
LEMMA SameEntries ==
    ASSUME Entries, UNCHANGED <<push, entry>>, order'.exists => order.exists
    PROVE  Entries'
BY DEF Entries, LegsDiffer, OnlyMergesLink, NoStrays, EntriesCarryTheMerge, Linked, Exists

\* An edit keeps the order, or hands it to a request in flight.
LEMMA EditKeepsEInv ==
    ASSUME EInv, NEW w \in Workers, Edits(w)
    PROVE  Locking' /\ Entries'
<1>1. PICK op \in Writes, row \in Order, reset \in BOOLEAN :
         /\ BeginWrite(w, op, row, reset)
         /\ row.confirmed = order.confirmed /\ row.exists = order.exists
  BY EditsAreWrites DEF EInv, IInv
<1>2. order.exists
  BY <1>1 DEF BeginWrite
<1>3. CASE Resets(row, reset)
  <2> DEFINE j == [op |-> op, row |-> row]
  <2>1. Start(w, j, {"source"}) /\ UNCHANGED <<order, push, entry>>
    BY <1>1, <1>3 DEF BeginWrite
  <2>2. j.row.exists
    BY <1>1, <1>2
  <2> HIDE DEF j
  <2>3. Locking'
    BY <1>2, <2>1, <2>2, StartKeepsLocking
  <2> QED
    BY <2>1, <2>3, SameEntries DEF EInv
<1>4. CASE ~Resets(row, reset)
  <2>1. AtOnce(w, {"source"}) /\ order' = row /\ UNCHANGED <<push, entry>>
    BY <1>1, <1>4 DEF BeginWrite
  <2>2. Entries'
    BY <1>2, <2>1, SameEntries DEF EInv
  <2>3. Locking'
    BY <1>1, <1>2, <2>1 DEF AtOnce, EInv, Locking, SourceHeld, WritersHaveOrder
  <2> QED
    BY <2>2, <2>3
<1> QED
  BY <1>3, <1>4

\* A push row that goes, or changes in other fields than its links, or is staged.
LEMMA PushKeepsEntries ==
    ASSUME Entries, push \in Push, push' \in Push, order'.exists => order.exists,
           \A e \in EntryIds : /\ entry'[e].status = entry[e].status
                               /\ entry'[e].amount = entry[e].amount
                               /\ entry'[e].typed = entry[e].typed,
           \/ UNCHANGED <<push.txn, push.mergedLegs, push.merged>>
           \/ ~push.merged /\ push' = NoPush
    PROVE  Entries'
<1>1. CASE UNCHANGED <<push.txn, push.mergedLegs, push.merged>>
  <2>1. Linked' = Linked
    BY <1>1 DEF Linked
  <2>2. \A l \in Legs : push.txn[l] # Null => push.txn[l] \in EntryIds
    BY DEF Push
  <2> QED
    BY <1>1, <2>1, <2>2 DEF Entries, LegsDiffer, OnlyMergesLink, NoStrays, EntriesCarryTheMerge, Exists
<1>2. CASE ~push.merged /\ push' = NoPush
  <2>1. \A l \in Legs : push.txn[l] = Null /\ push'.txn[l] = Null
    BY <1>2 DEF Entries, OnlyMergesLink, NoPush
  <2>2. Linked = {}
    BY <2>1 DEF Linked
  <2>3. NoStrays'
    BY <2>2 DEF Entries, NoStrays, Exists
  <2> QED
    BY <2>1, <2>3 DEF Entries, LegsDiffer, OnlyMergesLink, EntriesCarryTheMerge
<1> QED
  BY <1>1, <1>2

\* The trigger fires: an unmerged push row goes, a merged one keeps its entries.
LEMMA FinishResetKeepsEInv ==
    ASSUME EInv, NEW w \in Workers, FinishReset(w), TypeOK'
    PROVE  Locking' /\ Entries'
<1>1. TypeOK
  BY DEF EInv, IInv
<1>2. Locking'
  BY EndKeepsLocking DEF FinishReset, OnOrder
<1>3. order.exists
  BY DEF FinishReset, EInv, Locking, WritersHaveOrder
<1>4. \A e \in EntryIds : /\ entry'[e].status = entry[e].status
                          /\ entry'[e].amount = entry[e].amount
                          /\ entry'[e].typed = entry[e].typed
  BY <1>1 DEF FinishReset, TypeOK, Entry
<1>5. \/ UNCHANGED <<push.txn, push.mergedLegs, push.merged>>
      \/ ~push.merged /\ push' = NoPush
  BY <1>1 DEF FinishReset, TypeOK, Push
<1>6. Entries'
  BY <1>1, <1>3, <1>4, <1>5, PushKeepsEntries DEF EInv, TypeOK
<1> QED
  BY <1>2, <1>6

\* The cashier confirms or takes back, or the order is deleted.
LEMMA CashierKeepsEInv ==
    ASSUME EInv, NEW w \in Workers, TypeOK',
           FinishConfirm(w) \/ FinishTakeBack(w) \/ FinishDeleteOrder(w)
    PROVE  Locking' /\ Entries'
<1>1. TypeOK
  BY DEF EInv, IInv
<1>2. Locking'
  BY EndKeepsLocking DEF FinishConfirm, FinishTakeBack, FinishDeleteOrder, OnOrder
<1>3. CASE FinishConfirm(w) \/ FinishTakeBack(w)
  <2>1. \/ UNCHANGED <<push.txn, push.mergedLegs, push.merged>>
        \/ ~push.merged /\ push' = NoPush
    BY <1>1, <1>3 DEF FinishConfirm, PushOrder, FinishTakeBack, TypeOK, Push
  <2>2. order'.exists => order.exists
    BY <1>1, <1>3 DEF FinishConfirm, FinishTakeBack, TypeOK, Order
  <2>3. UNCHANGED entry
    BY <1>3 DEF FinishConfirm, FinishTakeBack
  <2>4. Entries'
    BY <1>1, <2>1, <2>2, <2>3, PushKeepsEntries DEF EInv, TypeOK
  <2> QED
    BY <1>2, <2>4
<1>4. CASE FinishDeleteOrder(w)
  <2>1. order'.exists = FALSE /\ \A l \in Legs : push'.txn[l] = Null
    BY <1>4 DEF FinishDeleteOrder, NoOrder, NoPush
  <2>2. Entries'
    BY <2>1 DEF Entries, LegsDiffer, OnlyMergesLink, NoStrays, EntriesCarryTheMerge
  <2> QED
    BY <1>2, <2>2
<1> QED
  BY <1>3, <1>4

\* What a merge writes: an entry of its own for each part that had none, the
\* others in place, and no entry else.
LEMMA MergeWrites ==
    ASSUME EInv, NEW w \in Workers, FinishMerge(w)
    PROVE  \E new \in [Created(job[w].legs) -> {e \in EntryIds : ~Exists(e)}] :
              /\ \A k, l \in Created(job[w].legs) : new[k] = new[l] => k = l
              /\ \A l \in Created(job[w].legs) :
                    push'.txn[l] = new[l] /\ entry'[new[l]] = NewEntry(job[w].legs[l])
              /\ \A l \in Legs \ Created(job[w].legs) :
                    /\ push'.txn[l] = push.txn[l]
                    /\ push.txn[l] # Null =>
                          entry'[push.txn[l]] = WriteLeg(entry[push.txn[l]], job[w].legs[l])
              /\ \A e \in EntryIds \ Linked :
                    (\A l \in Created(job[w].legs) : new[l] # e) => entry'[e] = entry[e]
<1> DEFINE legs == job[w].legs
           created == Created(legs)
<1>1. PICK new \in [created -> {e \in EntryIds : ~Exists(e)}] :
        /\ \A k, l \in created : new[k] = new[l] => k = l
        /\ entry' = [e \in EntryIds |->
              IF \E l \in created : new[l] = e
              THEN LET l == CHOOSE l \in created : new[l] = e IN NewEntry(legs[l])
              ELSE IF e \in Linked /\ Exists(e)
              THEN LET l == CHOOSE l \in Legs : push.txn[l] = e IN WriteLeg(entry[e], legs[l])
              ELSE entry[e]]
        /\ push' = [push EXCEPT
              !.status = "merged", !.merged = TRUE, !.edited = FALSE,
              !.mergedLegs = legs,
              !.txn = [l \in Legs |->
                  IF l \in created THEN new[l]
                  ELSE IF push.txn[l] # Null /\ Exists(push.txn[l]) THEN push.txn[l]
                  ELSE Null]]
  BY Zenon DEF FinishMerge
<1>2. /\ push \in Push /\ created \subseteq Legs
      /\ \A l \in Legs : push.txn[l] # Null => push.txn[l] \in EntryIds /\ Exists(push.txn[l])
      /\ \A l \in created : push.txn[l] = Null
  BY DEF EInv, IInv, TypeOK, Push, Entries, EntriesCarryTheMerge, Created
<1> DEFINE txn == [l \in Legs |->
                  IF l \in created THEN new[l]
                  ELSE IF push.txn[l] # Null /\ Exists(push.txn[l]) THEN push.txn[l]
                  ELSE Null]
<1> HIDE DEF created, legs
<1>3. push'.txn = txn
  <2> HIDE DEF txn
  <2>1. push' = [push EXCEPT !.status = "merged", !.merged = TRUE, !.edited = FALSE,
                             !.mergedLegs = legs, !.txn = txn]
    BY <1>1 DEF txn
  <2> QED
    BY <1>2, <2>1 DEF Push
<1>4. ASSUME NEW l \in created
      PROVE  push'.txn[l] = new[l] /\ entry'[new[l]] = NewEntry(legs[l])
  <2>1. push'.txn[l] = new[l]
    BY <1>2, <1>3
  <2>2. new[l] \in EntryIds /\ (CHOOSE k \in created : new[k] = new[l]) = l
    BY <1>1
  <2>3. entry'[new[l]] = LET k == CHOOSE k \in created : new[k] = new[l] IN NewEntry(legs[k])
    BY <1>1, <2>2
  <2> QED
    BY <2>1, <2>2, <2>3
<1>5. ASSUME NEW l \in Legs \ created
      PROVE  /\ push'.txn[l] = push.txn[l]
             /\ push.txn[l] # Null =>
                   entry'[push.txn[l]] = WriteLeg(entry[push.txn[l]], legs[l])
  <2>1. push'.txn[l] = push.txn[l]
    BY <1>2, <1>3
  <2>2. ASSUME push.txn[l] # Null
        PROVE  entry'[push.txn[l]] = WriteLeg(entry[push.txn[l]], legs[l])
    <3> DEFINE e == push.txn[l]
    <3>1. e \in EntryIds /\ Exists(e) /\ e \in Linked /\ ~ \E k \in created : new[k] = e
      BY <1>1, <1>2, <2>2 DEF Linked
    <3>2. (CHOOSE k \in Legs : push.txn[k] = e) = l
      BY <2>2 DEF EInv, Entries, LegsDiffer
    <3>3. entry'[e] = LET k == CHOOSE k \in Legs : push.txn[k] = e IN WriteLeg(entry[e], legs[k])
      BY <1>1, <3>1
    <3> QED
      BY <3>2, <3>3
  <2> QED
    BY <2>1, <2>2
<1>6. ASSUME NEW e \in EntryIds \ Linked, \A l \in created : new[l] # e
      PROVE  entry'[e] = entry[e]
  BY <1>1, <1>6
<1> QED
  BY <1>1, <1>4, <1>5, <1>6, Zenon DEF created, legs

\* What is typed for a part is a number.
LEMMA LegsAreNumbers == \A legs \in LegMoney, l \in Legs : legs[l] \in Nat
<1>1. Money \subseteq Nat
  BY AmountsAssumption DEF Money
<1> QED
  BY <1>1 DEF LegMoney

\* A merge leaves one entry for each part, with what was typed for it.
LEMMA FinishMergeKeepsEInv ==
    ASSUME EInv, NEW w \in Workers, FinishMerge(w), UNCHANGED order
    PROVE  Locking' /\ Entries'
<1> DEFINE legs == job[w].legs
           created == Created(legs)
<1>1. Locking'
  BY OthersKeepLocking DEF FinishMerge, Commit, OnOrder, Writes, Idle
<1>2. PICK new \in [created -> {e \in EntryIds : ~Exists(e)}] :
              /\ \A k, l \in created : new[k] = new[l] => k = l
              /\ \A l \in created : push'.txn[l] = new[l] /\ entry'[new[l]] = NewEntry(legs[l])
              /\ \A l \in Legs \ created :
                    /\ push'.txn[l] = push.txn[l]
                    /\ push.txn[l] # Null => entry'[push.txn[l]] = WriteLeg(entry[push.txn[l]], legs[l])
              /\ \A e \in EntryIds \ Linked :
                    (\A l \in created : new[l] # e) => entry'[e] = entry[e]
  BY MergeWrites
<1>3. /\ push \in Push /\ legs \in LegMoney /\ entry \in [EntryIds -> Entry]
      /\ \A l \in Legs : push.txn[l] # Null => push.txn[l] \in EntryIds /\ Exists(push.txn[l])
  BY MergeCarriesLegs DEF EInv, IInv, TypeOK, Push, Entries, EntriesCarryTheMerge, FinishMerge
<1>4. created \subseteq Legs /\ \A l \in Legs \ created : push.txn[l] # Null \/ legs[l] = 0
  BY <1>3, LegsAreNumbers DEF Created
<1>5. push'.merged /\ push'.mergedLegs = legs
  BY <1>3 DEF FinishMerge, Push
<1> HIDE DEF created, legs
<1>6. LegsDiffer'
  <2> SUFFICES ASSUME NEW l \in Legs, NEW k \in Legs, push'.txn[l] = push'.txn[k], push'.txn[l] # Null
               PROVE  l = k
    BY DEF LegsDiffer
  <2>1. \A c \in created, o \in Legs \ created : push'.txn[c] # push'.txn[o] \/ push.txn[o] = Null
    BY <1>2, <1>3
  <2> QED
    BY <1>2, <2>1 DEF EInv, Entries, LegsDiffer
<1>7. NoStrays'
  <2> SUFFICES ASSUME order.exists, NEW e \in EntryIds, Exists(e)' PROVE e \in Linked'
    BY DEF NoStrays
  <2>0. \A e1 \in EntryIds : e1 # Null
    BY NullAssumption
  <2>1. CASE \E l \in created : new[l] = e
    BY <1>2, <1>4, <2>0, <2>1 DEF Linked
  <2>2. CASE e \in Linked
    <3>1. PICK l \in Legs : push.txn[l] = e
      BY <2>2 DEF Linked
    <3>2. l \notin created
      BY <2>0, <3>1 DEF created, Created
    <3> QED
      BY <1>2, <2>0, <3>1, <3>2 DEF Linked
  <2>3. CASE e \notin Linked /\ ~ \E l \in created : new[l] = e
    <3>1. entry'[e] = entry[e]
      BY <1>2, <2>3
    <3> QED
      BY <2>3, <3>1 DEF EInv, Entries, NoStrays, Exists
  <2> QED
    BY <2>1, <2>2, <2>3
<1>8. EntriesCarryTheMerge'
  <2> SUFFICES ASSUME NEW l \in Legs, push'.txn[l] # Null
               PROVE  LET e == push'.txn[l] IN
                      /\ entry'[e].status # "none"
                      /\ legs[l] > 0 => entry'[e].amount = legs[l] \/ entry'[e].typed
                      /\ legs[l] = 0 => entry'[e].status # "Pending"
    BY <1>5 DEF EntriesCarryTheMerge, Exists
  <2>1. CASE l \in created
    <3>1. entry'[push'.txn[l]] = NewEntry(legs[l]) /\ legs[l] > 0
      BY <1>2, <2>1 DEF created, legs, Created
    <3>2. legs[l] \in Nat
      BY <1>3, LegsAreNumbers
    <3> QED
      BY <3>1, <3>2 DEF NewEntry
  <2>2. CASE l \notin created
    <3> DEFINE old == entry[push.txn[l]]
    <3>1. push'.txn[l] = push.txn[l] /\ entry'[push'.txn[l]] = WriteLeg(old, legs[l])
      BY <1>2, <2>2
    <3>2. old \in Entry /\ old.status # "none"
      BY <1>3, <3>1 DEF Exists
    <3>3. legs[l] \in Nat
      BY <1>3, LegsAreNumbers
    <3> HIDE DEF old
    <3> QED
      BY <3>1, <3>2, <3>3 DEF WriteLeg, RetiredLeg, UpdatedLeg, Entry
  <2> QED
    BY <2>1, <2>2
<1> QED
  BY <1>1, <1>5, <1>6, <1>7, <1>8 DEF Entries, OnlyMergesLink

\* The accountant decides on an entry or types over it, or an entry loses its warning.
LEMMA OnEntriesKeepsEInv ==
    ASSUME EInv, NEW w \in Workers, UNCHANGED order, TypeOK',
           \/ \E e \in EntryIds : \/ \E d \in {"Approved", "Rejected"} : Decide(w, e, d)
                                  \/ \E a \in TypedAmounts : UpdateTransaction(w, e, a)
           \/ FinishClearWarning(w)
    PROVE  Locking' /\ Entries'
<1>0. TypeOK /\ push \in Push
  BY DEF EInv, IInv, TypeOK
<1>1. Locking'
  <2>1. CASE FinishClearWarning(w)
    BY <2>1, OthersKeepLocking DEF FinishClearWarning, Commit, OnOrder, Writes, Idle
  <2>2. CASE ~FinishClearWarning(w)
    <3>1. UNCHANGED <<job, locks, order>>
      BY <2>2 DEF Decide, UpdateTransaction, AtOnce
    <3> QED
      BY <3>1 DEF EInv, Locking, SourceHeld, WritersHaveOrder
  <2> QED
    BY <2>1, <2>2
<1>2. UNCHANGED <<push.txn, push.mergedLegs, push.merged>>
  BY <1>0 DEF Decide, UpdateTransaction, FinishClearWarning, Push
<1>3. \A e \in EntryIds :
         /\ Exists(e)' <=> Exists(e)
         /\ entry'[e].status = "Pending" => entry[e].status = "Pending"
         /\ (entry'[e].amount = entry[e].amount /\ entry'[e].typed = entry[e].typed) \/ entry'[e].typed
  <2> SUFFICES ASSUME NEW e \in EntryIds
               PROVE  /\ Exists(e)' <=> Exists(e)
                      /\ entry'[e].status = "Pending" => entry[e].status = "Pending"
                      /\ \/ entry'[e].amount = entry[e].amount /\ entry'[e].typed = entry[e].typed
                         \/ entry'[e].typed
    OBVIOUS
  <2>1. CASE \E x \in EntryIds, d \in {"Approved", "Rejected"} : Decide(w, x, d)
    BY <1>0, <2>1 DEF Decide, Exists, TypeOK, Entry
  <2>2. CASE \E x \in EntryIds, a \in TypedAmounts : UpdateTransaction(w, x, a)
    <3>1. PICK x \in EntryIds, a \in TypedAmounts : UpdateTransaction(w, x, a)
      BY <2>2
    <3>2. CASE e = x
      BY <1>0, <3>1, <3>2 DEF UpdateTransaction, Exists, TypeOK, Entry
    <3>3. CASE e # x
      BY <1>0, <3>1, <3>3 DEF UpdateTransaction, Exists, TypeOK, Entry
    <3> QED
      BY <3>2, <3>3
  <2>3. CASE FinishClearWarning(w)
    BY <1>0, <2>3 DEF FinishClearWarning, Exists, TypeOK, Entry
  <2> QED
    BY <2>1, <2>2, <2>3
<1>4. Linked' = Linked /\ \A l \in Legs : push.txn[l] # Null => push.txn[l] \in EntryIds
  BY <1>0, <1>2 DEF Linked, Push
<1>5. LegsDiffer' /\ OnlyMergesLink' /\ NoStrays'
  BY <1>2, <1>3, <1>4 DEF EInv, Entries, LegsDiffer, OnlyMergesLink, NoStrays
<1>6. EntriesCarryTheMerge'
  BY <1>2, <1>3, <1>4 DEF EInv, Entries, EntriesCarryTheMerge
<1> QED
  BY <1>1, <1>5, <1>6 DEF Entries

\* A deleted entry is no longer the entry of any part.
LEMMA FinishDeleteKeepsEInv ==
    ASSUME EInv, NEW w \in Workers, FinishDelete(w), UNCHANGED order
    PROVE  Locking' /\ Entries'
<1> DEFINE e == job[w].id
<1>0. TypeOK /\ push \in Push /\ e \in EntryIds /\ e # Null
  BY EntryJobCarriesId, NullAssumption DEF EInv, IInv, TypeOK, FinishDelete
<1>1. Locking'
  BY OthersKeepLocking DEF FinishDelete, Commit, OnOrder, Writes, Idle
<1>2. /\ entry' = [entry EXCEPT ![e] = NoEntry]
      /\ \A l \in Legs : push'.txn[l] = IF push.txn[l] = e THEN Null ELSE push.txn[l]
      /\ push'.merged = push.merged /\ push'.mergedLegs = push.mergedLegs
  BY <1>0 DEF FinishDelete, Push
<1> HIDE DEF e
<1>3. \A x \in EntryIds : /\ x # e => entry'[x] = entry[x]
                          /\ entry'[e].status = "none"
  BY <1>0, <1>2 DEF TypeOK, NoEntry
<1>4. LegsDiffer' /\ OnlyMergesLink'
  BY <1>2 DEF EInv, Entries, LegsDiffer, OnlyMergesLink
<1>5. NoStrays'
  <2> SUFFICES ASSUME order.exists, NEW x \in EntryIds, Exists(x)' PROVE x \in Linked'
    BY DEF NoStrays
  <2>1. x # e /\ Exists(x)
    BY <1>3 DEF Exists
  <2>2. PICK l \in Legs : push.txn[l] = x
    BY <2>1 DEF EInv, Entries, NoStrays, Linked
  <2>3. push'.txn[l] = x /\ x # Null
    BY <1>2, <2>1, <2>2, NullAssumption
  <2> QED
    BY <2>3 DEF Linked
<1>6. EntriesCarryTheMerge'
  <2>1. \A l \in Legs : push'.txn[l] # Null =>
           push'.txn[l] = push.txn[l] /\ push.txn[l] \in EntryIds /\ push.txn[l] # e
    BY <1>0, <1>2 DEF Push
  <2>2. \A l \in Legs : push'.txn[l] # Null => entry'[push'.txn[l]] = entry[push.txn[l]]
    BY <1>3, <2>1
  <2> QED
    BY <1>2, <2>1, <2>2 DEF EInv, Entries, EntriesCarryTheMerge, Exists
<1> QED
  BY <1>1, <1>4, <1>5, <1>6 DEF Entries

\* Every step of every request keeps one entry for each part of the money.
LEMMA EInvStep ==
    ASSUME EInv, [Next]_vars
    PROVE  EInv'
<1>0. IInv' /\ TypeOK' /\ TypeOK
  BY IInvStep DEF EInv, IInv
<1>1. CASE UNCHANGED vars
  BY <1>0, <1>1, SameEntries DEF vars, EInv, Locking, SourceHeld, WritersHaveOrder
<1>2. ASSUME NEW w \in Workers, Edits(w) PROVE EInv'
  BY <1>0, <1>2, EditKeepsEInv DEF EInv
<1>3. ASSUME NEW w \in Workers, BeginConfirm(w) \/ BeginTakeBack(w) \/ BeginDeleteOrder(w)
      PROVE  EInv'
  <2>1. PICK j \in [op : {"confirm", "takeback", "drop"}] :
           Start(w, j, {"source"}) /\ order.exists /\ UNCHANGED <<order, push, entry>>
    BY <1>3 DEF BeginConfirm, BeginTakeBack, BeginDeleteOrder
  <2>2. j.op \notin Writes
    BY DEF Writes
  <2>3. Locking' /\ Entries'
    BY <2>1, <2>2, StartKeepsLocking, SameEntries DEF EInv
  <2> QED
    BY <1>0, <2>3 DEF EInv
<1>4. ASSUME NEW w \in Workers, LockPush(w) PROVE EInv'
  <2>1. Entries'
    BY <1>4, SameEntries DEF LockPush, EInv
  <2>2. Locking'
    BY <1>0, <1>4 DEF LockPush, EInv, Locking, SourceHeld, WritersHaveOrder, TypeOK
  <2> QED
    BY <1>0, <2>1, <2>2 DEF EInv
<1>5. ASSUME NEW w \in Workers, Finishes(w) PROVE EInv'
  BY <1>0, <1>4, <1>5, FinishResetKeepsEInv, CashierKeepsEInv DEF Finishes, EInv
<1>6. ASSUME NEW w \in Workers, Payments(w) PROVE EInv'
  <2>0. UNCHANGED order
    BY <1>6 DEF Payments
  <2>1. CASE FinishMerge(w)
    BY <1>0, <2>0, <2>1, FinishMergeKeepsEInv DEF EInv
  <2>2. CASE \/ \E e \in EntryIds : \/ \E d \in {"Approved", "Rejected"} : Decide(w, e, d)
                                    \/ \E a \in TypedAmounts : UpdateTransaction(w, e, a)
             \/ FinishClearWarning(w)
    BY <1>0, <2>0, <2>2, OnEntriesKeepsEInv DEF EInv
  <2>3. CASE FinishDelete(w)
    BY <1>0, <2>0, <2>3, FinishDeleteKeepsEInv DEF EInv
  <2>4. CASE Rollback(w)
    <3>1. Entries'
      BY <2>0, <2>4, SameEntries DEF Rollback, EInv
    <3>2. Locking'
      <4>1. CASE job[w].op \in OnOrder
        BY <2>4, <4>1, EndKeepsLocking DEF Rollback
      <4>2. CASE job[w].op \notin OnOrder
        BY <2>0, <2>4, <4>2, OthersKeepLocking DEF Rollback, Commit, OnOrder, Writes, Idle
      <4> QED
        BY <4>1, <4>2
    <3> QED
      BY <1>0, <3>1, <3>2 DEF EInv
  <2>5. ASSUME NEW j, NEW rows, j.op \notin OnOrder, Start(w, j, rows), UNCHANGED <<push, entry>>
        PROVE  EInv'
    <3>1. Entries'
      BY <2>0, <2>5, SameEntries DEF EInv
    <3>2. job[w].op \notin OnOrder
      BY <2>5 DEF Start, Idle, OnOrder, Writes
    <3>3. Locking'
      BY <2>0, <2>5, <3>2, OthersKeepLocking DEF Start
    <3> QED
      BY <1>0, <3>1, <3>3 DEF EInv
  <2>6. ASSUME NEW legs \in LegMoney, BeginMerge(w, legs, CurrentSplit) PROVE EInv'
    <3> DEFINE j == [op |-> "merge", legs |-> legs]
    <3>1. j.op \notin OnOrder /\ Start(w, j, {"push"}) /\ UNCHANGED <<push, entry>>
      BY <2>6 DEF BeginMerge, OnOrder, Writes
    <3> HIDE DEF j
    <3> QED
      BY <2>5, <3>1
  <2>7. ASSUME NEW e \in EntryIds, NEW op \in {"clear", "delete"}, BeginOnEntry(w, e, op) PROVE EInv'
    <3> DEFINE j == [op |-> op, id |-> e]
    <3>1. j.op \notin OnOrder /\ Start(w, j, {e}) /\ UNCHANGED <<push, entry>>
      BY <2>7 DEF BeginOnEntry, OnOrder, Writes
    <3> HIDE DEF j
    <3> QED
      BY <2>5, <3>1
  <2> QED
    BY <1>6, <2>1, <2>2, <2>3, <2>4, <2>6, <2>7 DEF Payments, PayNext
<1> QED
  BY <1>1, <1>2, <1>3, <1>5, <1>6 DEF Next

\* "Merging again UPDATES the entries it created, never adds new ones" (payment_merge.py):
\* however many requests work on one order, each part of its money has one entry.
THEOREM PartsHaveOneEntry == Spec => []OneEntryPerLeg
<1>1. EInv => OneEntryPerLeg
  BY DEF EInv, Entries, LegsDiffer, NoStrays, OneEntryPerLeg
<1> QED
  BY EInvInit, EInvStep, <1>1, PTL DEF Spec

\* Each entry carries what was merged for its part, and none is left waiting for
\* approval when its part became nothing.
THEOREM EntriesCarryMoney == Spec => []EntriesCarryTheMerge
<1>1. EInv => EntriesCarryTheMerge
  BY DEF EInv, Entries
<1> QED
  BY EInvInit, EInvStep, <1>1, PTL DEF Spec

-----------------------------------------------------------------------------
(***************************************************************************)
(* What the accountant approved.                                           *)
(***************************************************************************)
Flagged(e) ==
    entry[e].status = "Approved" =>
        /\ entry'[e].status \in {"Approved", "none"}
        /\ \/ entry'[e].amount = entry[e].amount \/ entry'[e].warned
           \/ entry'[e].typed \/ entry'[e].status = "none"

\* A merge that writes an approved entry warns about it, and leaves it approved.
LEMMA MergeFlags ==
    ASSUME EInv, NEW w \in Workers, FinishMerge(w), NEW e \in EntryIds, entry[e].status = "Approved"
    PROVE  Flagged(e)
<1> DEFINE legs == job[w].legs
           created == Created(legs)
<1>1. PICK new \in [created -> {x \in EntryIds : ~Exists(x)}] :
              /\ \A l \in Legs \ created : push.txn[l] # Null =>
                    entry'[push.txn[l]] = WriteLeg(entry[push.txn[l]], legs[l])
              /\ \A x \in EntryIds \ Linked :
                    (\A l \in created : new[l] # x) => entry'[x] = entry[x]
  BY MergeWrites
<1>2. \A l \in created : new[l] # e /\ push.txn[l] = Null
  BY <1>1 DEF Exists, Created
<1>3. entry[e] \in Entry
  BY DEF EInv, IInv, TypeOK
<1> HIDE DEF created, legs
<1>4. CASE e \notin Linked
  BY <1>1, <1>2, <1>4 DEF Flagged
<1>5. CASE e \in Linked
  <2>1. PICK l \in Legs : push.txn[l] = e /\ e # Null
    BY <1>5 DEF Linked
  <2>2. entry'[e] = WriteLeg(entry[e], legs[l])
    BY <1>1, <1>2, <2>1
  <2> QED
    BY <1>3, <2>2 DEF Flagged, WriteLeg, RetiredLeg, UpdatedLeg, Entry
<1> QED
  BY <1>4, <1>5

\* No other step touches the money or the approval of an approved entry.
LEMMA StepFlags ==
    ASSUME EInv, [Next]_vars, NEW e \in EntryIds, entry[e].status = "Approved"
    PROVE  Flagged(e)
<1>0. TypeOK /\ entry \in [EntryIds -> Entry]
  BY DEF EInv, IInv, TypeOK
<1>1. CASE UNCHANGED entry
  BY <1>1 DEF Flagged
<1>2. ASSUME NEW w \in Workers, Edits(w) PROVE UNCHANGED entry
  BY <1>0, <1>2, EditsAreWrites DEF BeginWrite
<1>3. ASSUME NEW w \in Workers, FinishReset(w) PROVE Flagged(e)
  BY <1>0, <1>3 DEF FinishReset, Flagged, Entry
<1>4. ASSUME NEW w \in Workers, Finishes(w) PROVE FinishReset(w) \/ UNCHANGED entry
  BY <1>4 DEF Finishes, LockPush, FinishConfirm, FinishTakeBack, FinishDeleteOrder
<1>5. ASSUME NEW w \in Workers, Payments(w) PROVE Flagged(e)
  <2>1. ASSUME NEW x \in EntryIds, NEW d \in {"Approved", "Rejected"}, Decide(w, x, d)
        PROVE  Flagged(e)
    BY <1>0, <2>1 DEF Decide, Flagged, Entry
  <2>2. ASSUME NEW x \in EntryIds, NEW a \in TypedAmounts, UpdateTransaction(w, x, a)
        PROVE  Flagged(e)
    BY <1>0, <2>2 DEF UpdateTransaction, Flagged, Entry
  <2>3. CASE FinishClearWarning(w)
    BY <1>0, <2>3, EntryJobCarriesId DEF FinishClearWarning, Flagged, Entry
  <2>4. CASE FinishDelete(w)
    <3>1. entry'[e] = entry[e] \/ entry'[e] = NoEntry
      BY <1>0, <2>4 DEF FinishDelete
    <3> QED
      BY <3>1 DEF Flagged, NoEntry
  <2>5. CASE \/ \E legs \in LegMoney : BeginMerge(w, legs, CurrentSplit)
             \/ \E x \in EntryIds, op \in {"clear", "delete"} : BeginOnEntry(w, x, op)
             \/ Rollback(w)
    BY <1>1, <2>5 DEF BeginMerge, BeginOnEntry, Rollback
  <2> QED
    BY <1>5, <2>1, <2>2, <2>3, <2>4, <2>5, MergeFlags DEF Payments, PayNext
<1>6. CASE UNCHANGED vars
  BY <1>1, <1>6 DEF vars
<1>7. ASSUME NEW w \in Workers, BeginConfirm(w) \/ BeginTakeBack(w) \/ BeginDeleteOrder(w)
      PROVE  UNCHANGED entry
  BY <1>7 DEF BeginConfirm, BeginTakeBack, BeginDeleteOrder
<1> QED
  BY <1>1, <1>2, <1>3, <1>4, <1>5, <1>6, <1>7 DEF Next

\* "An approved entry is never silently pulled back to Pending" (payment_merge.py): it
\* stays approved, and no merge changes its money without leaving a warning on it.
THEOREM ApprovalStands == Spec => ApprovedIsOnlyFlagged
<1>1. EInv /\ [Next]_vars => EInv'
  BY EInvStep
<1>2. EInv /\ [Next]_vars =>
         [\A e \in EntryIds : entry[e].status = "Approved" =>
            /\ entry'[e].status \in {"Approved", "none"}
            /\ \/ entry'[e].amount = entry[e].amount \/ entry'[e].warned
               \/ entry'[e].typed \/ entry'[e].status = "none"]_payVars
  BY StepFlags DEF Flagged
<1> QED
  BY EInvInit, <1>1, <1>2, PTL DEF Spec, ApprovedIsOnlyFlagged
=============================================================================
