--------------------------- MODULE PaymentsMerge ---------------------------
(***************************************************************************)
(* The Payments side of the money of ONE source row (an order, or a VT     *)
(* Decor entry): its payment_push row, the fact_payment_txn entries merges *)
(* made from it, and every request of app/payment_merge.py and             *)
(* app/payments.py that changes them.  What stages the push row is in the  *)
(* modules that extend this one: OrderMoney and DecorMoney.                *)
(*                                                                         *)
(* A request runs in one database transaction (db.cursor(), READ           *)
(* COMMITTED): it takes the row locks of its statements in the order the   *)
(* code writes them and publishes all its writes when it commits, so a     *)
(* request that needs several locks is a Begin step that takes the first   *)
(* one and a Finish step that takes the last one and commits.  Another     *)
(* request may run between the two, and two requests may deadlock.         *)
(***************************************************************************)
EXTENDS Naturals, FiniteSets

CONSTANTS
    Workers,    \* requests in flight: threads of the web server's pool
    EntryIds,   \* txn_key values
    Amounts,    \* the amounts people type, in the unit the dashboards show
    TypedAmounts, \* those an accountant types over an entry that exists
    Null        \* SQL's NULL

Legs == {"cash", "bank"}

ASSUME AmountsAssumption == Amounts \subseteq Nat /\ TypedAmounts \subseteq Amounts
ASSUME NullAssumption == Null \notin Nat /\ Null \notin EntryIds
ASSUME EntryIdsAssumption == EntryIds \cap {"push", "source"} = {}

VARIABLES
    push,       \* the payment_push row of the source row
    entry,      \* fact_payment_txn, by txn_key
    job,        \* what each worker is in the middle of
    locks       \* the row locks its transaction holds

payVars == <<push, entry, job, locks>>

Rows == {"push", "source"} \cup EntryIds

(***************************************************************************)
(* Rows.  "absent" and "none" stand for a row that does not exist.  The    *)
(* cash_amount / bank_amount a row keeps only prefill the form (a merge    *)
(* takes what is typed), so save_row, which writes nothing else of         *)
(* consequence, is left out.                                               *)
(***************************************************************************)
Money == Amounts \cup {0}
LegMoney == [Legs -> Money]
NoMoney == [l \in Legs |-> 0]
LegSum(m) == m["cash"] + m["bank"]

Push == [status : {"absent", "awaiting", "merged"},
         kind : {"sales", "return"},        \* decor_in counts as sales, decor_out as return
         amount : Money \cup {Null},        \* order_amount
         merged : BOOLEAN,                  \* merged_at IS NOT NULL
         edited : BOOLEAN,                  \* edited_after_merge
         txn : [Legs -> EntryIds \cup {Null}],
         mergedLegs : LegMoney]             \* merged_cash, merged_bank

NoPush == [status |-> "absent", kind |-> "sales", amount |-> Null,
           merged |-> FALSE, edited |-> FALSE, txn |-> [l \in Legs |-> Null],
           mergedLegs |-> NoMoney]

\* typed is history: somebody typed over the amount a merge wrote.
Entry == [status : {"none", "Pending", "Approved", "Rejected"},
          amount : Money,
          warned : BOOLEAN,                 \* order_warning IS NOT NULL
          typed : BOOLEAN]

NoEntry == [status |-> "none", amount |-> 0, warned |-> FALSE, typed |-> FALSE]

Exists(e) == entry[e].status # "none"
Staged == push.status # "absent"
Linked == {push.txn[l] : l \in Legs} \ {Null}

(***************************************************************************)
(* Row locks.                                                              *)
(***************************************************************************)
Idle == [op |-> "idle"]

Free(w, rows) == \A v \in Workers \ {w} : locks[v] \cap rows = {}

Start(w, j, rows) ==
    /\ job[w] = Idle
    /\ Free(w, rows)
    /\ job' = [job EXCEPT ![w] = j]
    /\ locks' = [locks EXCEPT ![w] = rows]

(* A plausible bug, for the runs to tell apart: the locks outlive the commit. *)
CommitKeepingLocks(w) ==
    /\ job' = [job EXCEPT ![w] = Idle]
    /\ UNCHANGED locks

Commit(w) ==
    /\ job' = [job EXCEPT ![w] = Idle]
    /\ locks' = [locks EXCEPT ![w] = {}]

(* A request that needs one lock only: lock, write and commit are one step. *)
AtOnce(w, rows) ==
    /\ job[w] = Idle
    /\ Free(w, rows)
    /\ UNCHANGED <<job, locks>>

(* The rows a Payments request still has to lock: a merge, the entries the *)
(* push row points at; clear-warning and delete, the push row, if it       *)
(* points at theirs.                                                       *)
PayNeeds(w) ==
    CASE job[w].op = "merge" -> Linked
      [] job[w].op \in {"clear", "delete"} /\ job[w].id \in Linked -> {"push"}
      [] OTHER -> {}

(***************************************************************************)
(* payment_merge.merge_row.  _load locks the push row; _check refuses      *)
(* amounts that do not fit what was staged.  It looks neither at the       *)
(* row's status nor at the order: a row already merged can be merged       *)
(* again ("Merge again" on the page).                                      *)
(***************************************************************************)
Check(legs, split) ==
    /\ LegSum(legs) > 0
    /\ split = "cash" => legs["bank"] = 0
    /\ split = "bank" => legs["cash"] = 0
    /\ push.amount # Null => LegSum(legs) = push.amount

Created(legs) == {l \in Legs : push.txn[l] = Null /\ legs[l] > 0}

(* The bound on entries: a merge starts when EntryIds has ids left for it. *)
HasRoom(legs) ==
    Cardinality(Created(legs)) <= Cardinality({e \in EntryIds : ~Exists(e)})

BeginMerge(w, legs, split) ==
    /\ Staged
    /\ Check(legs, split)
    /\ HasRoom(legs)
    /\ Start(w, [op |-> "merge", legs |-> legs], {"push"})
    /\ UNCHANGED <<push, entry>>

NewEntry(amount) ==
    [status |-> "Pending", amount |-> amount, warned |-> FALSE, typed |-> FALSE]

(* A plausible bug: a part that became nothing is only warned about. *)
RetiredLegStillWaiting(old) == [old EXCEPT !.warned = TRUE]

(* This part became nothing: a waiting entry is withdrawn, another flagged. *)
RetiredLeg(old) ==
    [old EXCEPT !.status = IF @ = "Pending" THEN "Rejected" ELSE @,
                !.warned = TRUE]

(* A plausible bug: the overwritten entry is sent for approval again. *)
UpdatedLegWaitsAgain(old, amount) ==
    [old EXCEPT !.amount = amount, !.typed = FALSE, !.status = "Pending"]

(* The entry is overwritten in place, whatever its status. *)
UpdatedLeg(old, amount) ==
    [old EXCEPT !.amount = amount, !.typed = FALSE, !.warned = old.status # "Pending"]

WriteLeg(old, amount) ==
    IF amount = 0 THEN RetiredLeg(old) ELSE UpdatedLeg(old, amount)

FinishMerge(w) ==
    LET legs == job[w].legs
        created == Created(legs)
    IN
    /\ job[w].op = "merge"
    /\ Free(w, PayNeeds(w))
    /\ \E new \in [created -> {e \in EntryIds : ~Exists(e)}] :
        /\ \A k, l \in created : new[k] = new[l] => k = l
        /\ entry' = [e \in EntryIds |->
              IF \E l \in created : new[l] = e
              THEN LET l == CHOOSE l \in created : new[l] = e IN NewEntry(legs[l])
              ELSE IF e \in Linked /\ Exists(e)
              THEN LET l == CHOOSE l \in Legs : push.txn[l] = e IN WriteLeg(entry[e], legs[l])
              ELSE entry[e]]
        /\ push' = [push EXCEPT
              !.status = "merged", !.merged = TRUE, !.edited = FALSE,
              !.mergedLegs = legs,
              !.txn = [l \in Legs |->
                  IF l \in created THEN new[l]
                  ELSE IF push.txn[l] # Null /\ Exists(push.txn[l]) THEN push.txn[l]
                  ELSE Null]]
    /\ Commit(w)

(***************************************************************************)
(* payments.py: what the accountant and the admin do to an entry.          *)
(***************************************************************************)
Decide(w, e, decision) ==
    /\ entry[e].status = "Pending"
    /\ AtOnce(w, {e})
    /\ entry' = [entry EXCEPT ![e].status = decision]
    /\ UNCHANGED push

UpdateTransaction(w, e, amount) ==
    /\ Exists(e)
    /\ AtOnce(w, {e})
    /\ entry' = [entry EXCEPT ![e].amount = amount, ![e].typed = TRUE]
    /\ UNCHANGED push

(* clear_warning and delete_transaction lock the entry first and then the  *)
(* push row that points at it: the opposite order to merge_row.            *)
BeginOnEntry(w, e, op) ==
    /\ Exists(e)
    /\ Start(w, [op |-> op, id |-> e], {e})
    /\ UNCHANGED <<push, entry>>

FinishClearWarning(w) ==
    LET e == job[w].id IN
    /\ job[w].op = "clear"
    /\ Free(w, PayNeeds(w))
    /\ entry' = [entry EXCEPT ![e].warned = FALSE]
    /\ push' = [push EXCEPT !.edited = @ /\ e \notin Linked]
    /\ Commit(w)

(* ON DELETE SET NULL unlinks the entry; the push row stays as it is. *)
FinishDelete(w) ==
    LET e == job[w].id IN
    /\ job[w].op = "delete"
    /\ Free(w, PayNeeds(w))
    /\ entry' = [entry EXCEPT ![e] = NoEntry]
    /\ push' = [push EXCEPT !.txn = [l \in Legs |-> IF @[l] = e THEN Null ELSE @[l]]]
    /\ Commit(w)

(* The transaction is rolled back: connection lost, server restarted, or   *)
(* chosen as the victim of a deadlock.  Nothing it did is seen.            *)
Rollback(w) ==
    /\ job[w] # Idle
    /\ Commit(w)
    /\ UNCHANGED <<push, entry>>

PayInit ==
    /\ push = NoPush
    /\ entry = [e \in EntryIds |-> NoEntry]
    /\ job = [w \in Workers |-> Idle]
    /\ locks = [w \in Workers |-> {}]

PayNext(w, split) ==
    \/ \E legs \in LegMoney : BeginMerge(w, legs, split)
    \/ FinishMerge(w)
    \/ \E e \in EntryIds :
        \/ \E d \in {"Approved", "Rejected"} : Decide(w, e, d)
        \/ \E a \in TypedAmounts : UpdateTransaction(w, e, a)
        \/ \E op \in {"clear", "delete"} : BeginOnEntry(w, e, op)
    \/ FinishClearWarning(w)
    \/ FinishDelete(w)
    \/ Rollback(w)

-----------------------------------------------------------------------------
(***************************************************************************)
(* What merging promises the accountant, whatever staged the money.        *)
(***************************************************************************)

\* Each entry carries what was merged for its leg, unless somebody has typed
\* over it since; an entry whose part became 0 is never left for approval.
EntriesCarryTheMerge ==
    \A l \in Legs :
        LET e == push.txn[l] IN
        e # Null =>
            /\ Exists(e)
            /\ push.mergedLegs[l] > 0 => entry[e].amount = push.mergedLegs[l] \/ entry[e].typed
            /\ push.mergedLegs[l] = 0 => entry[e].status # "Pending"

\* An approved entry is never pulled back to Pending, and no merge changes its
\* money without leaving a warning on it (payment_merge, module docstring).
ApprovedIsOnlyFlagged ==
    [][\A e \in EntryIds : entry[e].status = "Approved" =>
          /\ entry'[e].status \in {"Approved", "none"}
          /\ \/ entry'[e].amount = entry[e].amount \/ entry'[e].warned
             \/ entry'[e].typed \/ entry'[e].status = "none"]_payVars
=============================================================================
