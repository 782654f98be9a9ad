----------------------------- MODULE DecorMoney -----------------------------
(***************************************************************************)
(* The money of one VT Decor entry - a client's payment or an expense      *)
(* (app/decor.py) - which database triggers stage in payment_push          *)
(* (migration 050), and the Payments side it feeds (PaymentsMerge).        *)
(***************************************************************************)
EXTENDS PaymentsMerge

Splits == {"cash", "bank", "both"}

VARIABLES
    decor,          \* the fact_decor_payment or fact_decor_expense row
    split           \* decor_split of the push row

vars == <<decor, split, push, entry, job, locks>>

(***************************************************************************)
(* amount 0 stands for a refund or reversal, which is not staged: "new" is *)
(* before the entry is made, "gone" after it was deleted.                  *)
(***************************************************************************)
Decor == [status : {"new", "saved", "gone"}, amount : Money]

(* An expense is "both", a payment "cash" or "bank" by the mode it is saved with. *)
SplitsOfKind == IF split = "both" THEN {"both"} ELSE {"cash", "bank"}

Init ==
    /\ decor = [status |-> "new", amount |-> 0]
    /\ split \in Splits
    /\ PayInit

(* decor_push_upsert, on a push row that does not exist or is not merged. *)
Stage(amount) == push' = [push EXCEPT !.status = "awaiting", !.amount = amount]

(* A plausible bug: an edited row is marked, but does not come back to be merged. *)
StageAgainMarked(amount) == push' = [push EXCEPT !.edited = TRUE, !.amount = amount]

(* The same, on a row that was merged: it comes back, marked. *)
StageAgain(amount) ==
    push' = [push EXCEPT !.status = "awaiting", !.edited = TRUE, !.amount = amount]

(* add_payment, add_expense: nobody else knows the row yet. *)
AddEntry(w, amount, s) ==
    /\ decor.status = "new"
    /\ AtOnce(w, {"source"})
    /\ decor' = [status |-> "saved", amount |-> amount]
    /\ IF amount = 0
       THEN UNCHANGED <<push, split>>
       ELSE Stage(amount) /\ split' = s
    /\ UNCHANGED entry

(***************************************************************************)
(* edit_payment, edit_expense: one UPDATE of the row, whatever was typed   *)
(* (the same values too), then the trigger, which locks the push row and,  *)
(* if it was merged, the entries it has to warn about.                     *)
(***************************************************************************)
BeginEdit(w, amount, s) ==
    /\ decor.status = "saved"
    /\ amount > 0
    /\ Start(w, [op |-> "edit", amount |-> amount, split |-> s], {"source"})
    /\ UNCHANGED <<decor, split, push, entry>>

(***************************************************************************)
(* delete_payment, delete_expense, delete_client: the trigger decor_unstage*)
(* reads the push row without locking it, and acts on what it saw.         *)
(***************************************************************************)
BeginUnstage(w) ==
    /\ decor.status = "saved"
    /\ Start(w, [op |-> "unstage", staged |-> Staged, merged |-> push.merged, txn |-> Linked],
             {"source"})
    /\ UNCHANGED <<decor, split, push, entry>>

(* The rows a request locks next, and the rows it must hold to finish. *)
Needs(w) ==
    CASE job[w].op = "edit" /\ "push" \in locks[w] /\ push.merged -> Linked
      [] job[w].op = "edit" /\ "push" \notin locks[w] /\ Staged -> {"push"}
      [] job[w].op = "unstage" /\ job[w].merged /\ ~(job[w].txn \subseteq locks[w]) -> job[w].txn
      [] job[w].op = "unstage" /\ (job[w].txn \subseteq locks[w] \/ ~job[w].merged) /\ Staged ->
            {"push"}
      [] OTHER -> PayNeeds(w)

TakesFirst(w) ==
    \/ job[w].op = "edit" /\ "push" \notin locks[w] /\ Staged
    \/ job[w].op = "unstage" /\ job[w].merged /\ ~(job[w].txn \subseteq locks[w])

LockNext(w) ==
    /\ TakesFirst(w)
    /\ Free(w, Needs(w))
    /\ locks' = [locks EXCEPT ![w] = @ \cup Needs(w)]
    /\ UNCHANGED <<decor, split, push, entry, job>>

(* UPDATE fact_payment_txn SET order_warning = ... WHERE txn_key IN (ids). *)
Warn(ids) ==
    entry' = [e \in EntryIds |->
        IF e \in ids /\ Exists(e) THEN [entry[e] EXCEPT !.warned = TRUE] ELSE entry[e]]

FinishEdit(w) ==
    /\ job[w].op = "edit"
    /\ ~TakesFirst(w)
    /\ Free(w, Needs(w))
    /\ decor' = [decor EXCEPT !.amount = job[w].amount]
    /\ split' = job[w].split
    /\ IF push.merged
       THEN StageAgain(job[w].amount) /\ Warn(Linked)
       ELSE Stage(job[w].amount) /\ UNCHANGED entry
    /\ Commit(w)

FinishUnstage(w) ==
    /\ job[w].op = "unstage"
    /\ ~TakesFirst(w)
    /\ Free(w, Needs(w))
    /\ decor' = [decor EXCEPT !.status = "gone"]
    /\ IF job[w].staged /\ job[w].merged
       THEN /\ push' = [push EXCEPT !.status = "merged", !.edited = FALSE]
            /\ Warn(job[w].txn)
       ELSE push' = NoPush /\ UNCHANGED entry
    /\ Commit(w)
    /\ UNCHANGED split

Edits(w) ==
    \/ \E a \in Money, s \in SplitsOfKind : AddEntry(w, a, s)
    \/ \E a \in Amounts, s \in SplitsOfKind : BeginEdit(w, a, s)
    \/ BeginUnstage(w)

Finishes(w) == LockNext(w) \/ FinishEdit(w) \/ FinishUnstage(w)

Payments(w) == PayNext(w, split) /\ UNCHANGED <<decor, split>>

Next == \E w \in Workers : Edits(w) \/ Finishes(w) \/ Payments(w)

Spec == Init /\ [][Next]_vars

-----------------------------------------------------------------------------
Job == {Idle}
    \cup [op : {"merge"}, legs : LegMoney]
    \cup [op : {"clear", "delete"}, id : EntryIds]
    \cup [op : {"edit"}, amount : Amounts, split : Splits]
    \cup [op : {"unstage"}, staged : BOOLEAN, merged : BOOLEAN, txn : SUBSET EntryIds]

\* The rows and the requests in flight have the shapes declared above.
TypeOK ==
    /\ decor \in Decor
    /\ split \in Splits
    /\ push \in Push
    /\ entry \in [EntryIds -> Entry]
    /\ job \in [Workers -> Job]
    /\ locks \in [Workers -> SUBSET Rows]

\* Payments has the money of a VT Decor entry as it is now: a row is staged with it,
\* and once merged the parts add up to it and go where the payment's mode says.
\* (decor_push_upsert, merge_row: an edit brings a merged row back.)
DecorMoneyIsStaged ==
    decor.status = "saved" /\ decor.amount > 0 =>
        /\ Staged
        /\ push.amount = decor.amount
        /\ push.status = "merged" =>
              /\ LegSum(push.mergedLegs) = decor.amount
              /\ split = "cash" => push.mergedLegs["bank"] = 0
              /\ split = "bank" => push.mergedLegs["cash"] = 0
=============================================================================
