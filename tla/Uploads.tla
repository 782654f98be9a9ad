------------------------------ MODULE Uploads -------------------------------
(***************************************************************************)
(* Bulk uploads that bring their old numbers along: entries of Payments    *)
(* and clients of VT Decor (app/bulk_modules.py, confirm and undo_batch in *)
(* app/admin_tools.py).  Rows with an old number are inserted with it; the *)
(* sequence the others are numbered from is moved to the highest number    *)
(* before each row without one and at the end.  The page's own form takes  *)
(* the next number of the same sequence.                                   *)
(*                                                                         *)
(* A sequence is outside the transactions: it moves at once and for good.  *)
(***************************************************************************)
EXTENDS Naturals, FiniteSets, FiniteSetsExt

CONSTANTS
    MaxRowNumber,   \* the bound on numbers
    Forms,          \* requests that save one row
    UploadFiles     \* the uploads: each a set of old numbers and a count of rows without

RowNumbers == 1..MaxRowNumber

ASSUME MaxRowNumberAssumption == MaxRowNumber \in Nat
ASSUME UploadFilesAssumption == UploadFiles \subseteq [old : SUBSET RowNumbers, new : Nat]

VARIABLES
    rows,           \* committed numbers, with the upload they are of
    sequence,       \* the last number given
    form,           \* each form's insert, not yet committed
    upload,         \* where each upload is
    raced           \* history: the sequence was moved below a number not yet committed

uploadVars == <<rows, sequence, form, upload, raced>>

NoInsert == [at |-> "none"]
OfForm == [old |-> {}, new |-> 0]   \* no upload

UploadsInit ==
    /\ rows = [n \in {} |-> OfForm]
    /\ sequence = 0
    /\ form = [f \in Forms |-> NoInsert]
    /\ upload = [u \in UploadFiles |-> [at |-> "waiting"]]
    /\ raced = FALSE

Used == DOMAIN rows
OpenForms == {form[f].no : f \in {g \in Forms : form[g].at = "inserted"}}

-----------------------------------------------------------------------------
(* save_transaction, add_client: the default takes the next number, which  *)
(* is used up whatever becomes of the row.                                 *)
BeginForm(f) ==
    /\ form[f] = NoInsert
    /\ sequence + 1 \in RowNumbers
    /\ sequence' = sequence + 1
    /\ form' = [form EXCEPT ![f] = [at |-> "inserting", no |-> sequence + 1]]
    /\ UNCHANGED <<rows, upload, raced>>

IsOpen(u) == upload[u].at \in {"inserting", "moved", "numbered", "ending"}
UploadHolds(n) == \E u \in UploadFiles : IsOpen(u) /\ n \in upload[u].done

(* The number is the primary key: one that is committed refuses the row,   *)
(* one that is another's open insert makes it wait.                        *)
InsertForm(f) ==
    /\ form[f].at = "inserting"
    /\ ~UploadHolds(form[f].no) /\ form[f].no \notin OpenForms
    /\ form' = [form EXCEPT ![f] = IF form[f].no \in Used THEN NoInsert
                                   ELSE [at |-> "inserted", no |-> form[f].no]]
    /\ UNCHANGED <<rows, sequence, upload, raced>>

CommitForm(f) ==
    /\ form[f].at = "inserted"
    /\ rows' = [n \in Used \cup {form[f].no} |-> IF n \in Used THEN rows[n] ELSE OfForm]
    /\ form' = [form EXCEPT ![f] = NoInsert]
    /\ UNCHANGED <<sequence, upload, raced>>

RollBackForm(f) ==
    /\ form[f].at = "inserted"
    /\ form' = [form EXCEPT ![f] = NoInsert]
    /\ UNCHANGED <<rows, sequence, upload, raced>>

-----------------------------------------------------------------------------
(* validate_payments, validate_decor_clients: an old number that is in use *)
(* is an error, and with any error nothing is imported.                    *)
Validate(u) ==
    /\ upload[u].at = "waiting"
    /\ u.old \cap Used = {}
    /\ upload' = [upload EXCEPT ![u] = [at |-> "inserting", done |-> {}, left |-> u.old, fresh |-> u.new]]
    /\ UNCHANGED <<rows, sequence, form, raced>>

Own(u) == upload[u].done
Visible(u) == Used \cup Own(u)

(* setval(..., GREATEST(max, 1)), as the upload's transaction sees the     *)
(* table.  It overtakes whoever has a number that is not committed yet.    *)
Last(u) == IF Visible(u) = {} THEN 1 ELSE Max(Visible(u))

Races(u) ==
    \/ \E f \in Forms : form[f] # NoInsert /\ form[f].no > Last(u)
    \/ \E v \in UploadFiles \ {u} : IsOpen(v) /\ \E n \in Own(v) : n > Last(u)

MoveSequence(u) ==
    /\ sequence' = Last(u)
    /\ raced' = (raced \/ Races(u))

UploadFails(u) ==
    /\ upload' = [upload EXCEPT ![u] = [at |-> "waiting"]]
    /\ UNCHANGED <<rows, sequence, form, raced>>

HeldByOther(u, n) == \E v \in UploadFiles \ {u} : IsOpen(v) /\ n \in Own(v)

(* Rows with an old number go first. *)
InsertOld(u, n) ==
    /\ upload[u].at = "inserting" /\ n \in upload[u].left
    /\ n \notin OpenForms
    /\ ~HeldByOther(u, n)
    /\ IF n \in Used THEN UploadFails(u)
       ELSE /\ upload' = [upload EXCEPT ![u].done = @ \cup {n}, ![u].left = @ \ {n}]
            /\ UNCHANGED <<rows, sequence, form, raced>>

(* Then each of the others: _MOVE_TXN_SEQUENCE, or _MOVE_SEQUENCE; the     *)
(* number its insert takes; the insert itself, which may have to wait.     *)
MoveForNew(u) ==
    /\ upload[u].at = "inserting" /\ upload[u].left = {} /\ upload[u].fresh > 0
    /\ MoveSequence(u)
    /\ upload' = [upload EXCEPT ![u].at = "moved"]
    /\ UNCHANGED <<rows, form>>

NumberNew(u) ==
    /\ upload[u].at = "moved"
    /\ sequence + 1 \in RowNumbers
    /\ sequence' = sequence + 1
    /\ upload' = [upload EXCEPT ![u] = [at |-> "numbered", done |-> @.done, left |-> {},
                                        fresh |-> @.fresh, no |-> sequence + 1]]
    /\ UNCHANGED <<rows, form, raced>>

InsertNew(u) ==
    /\ upload[u].at = "numbered"
    /\ upload[u].no \notin OpenForms
    /\ ~HeldByOther(u, upload[u].no)
    /\ IF upload[u].no \in Visible(u) THEN UploadFails(u)
       ELSE /\ upload' = [upload EXCEPT ![u] = [at |-> "inserting", done |-> @.done \cup {@.no},
                                                left |-> {}, fresh |-> @.fresh - 1]]
            /\ UNCHANGED <<rows, sequence, form, raced>>

(* The sequence is moved once more, and the import is committed. *)
(* A plausible bug: it is moved before rows without a number only. *)
MoveAtEndForgotten(u) ==
    /\ upload[u].at = "inserting" /\ upload[u].left = {} /\ upload[u].fresh = 0
    /\ upload' = [upload EXCEPT ![u].at = "ending"]
    /\ UNCHANGED <<rows, sequence, form, raced>>

MoveAtEnd(u) ==
    /\ upload[u].at = "inserting" /\ upload[u].left = {} /\ upload[u].fresh = 0
    /\ MoveSequence(u)
    /\ upload' = [upload EXCEPT ![u].at = "ending"]
    /\ UNCHANGED <<rows, form>>

CommitUpload(u) ==
    /\ upload[u].at = "ending"
    /\ rows' = [n \in Visible(u) |-> IF n \in Used THEN rows[n] ELSE u]
    /\ upload' = [upload EXCEPT ![u] = [at |-> "imported"]]
    /\ UNCHANGED <<sequence, form, raced>>

(* Another row of the file fails: the import is rolled back. *)
FailUpload(u) == IsOpen(u) /\ UploadFails(u)

(* undo_batch: all of its rows, or none when one was edited; the sequence stays. *)
UndoUpload(u) ==
    /\ upload[u].at = "imported"
    /\ rows' = [n \in {m \in Used : rows[m] # u} |-> rows[n]]
    /\ upload' = [upload EXCEPT ![u] = [at |-> "undone"]]
    /\ UNCHANGED <<sequence, form, raced>>

UploadsNext ==
    \/ \E f \in Forms : BeginForm(f) \/ InsertForm(f) \/ CommitForm(f) \/ RollBackForm(f)
    \/ \E u \in UploadFiles :
          \/ Validate(u) \/ MoveForNew(u) \/ NumberNew(u) \/ InsertNew(u) \/ MoveAtEnd(u) \/ CommitUpload(u)
          \/ FailUpload(u) \/ UndoUpload(u)
          \/ \E n \in RowNumbers : InsertOld(u, n)

UploadsSpec == UploadsInit /\ [][UploadsNext]_uploadVars

-----------------------------------------------------------------------------
(***************************************************************************)
(* Properties.                                                             *)
(***************************************************************************)
\* The rows, the sequence and the open inserts have the shapes declared above.
UploadsTypeOK ==
    /\ Used \subseteq RowNumbers /\ sequence \in RowNumbers \cup {0}
    /\ \A n \in Used : rows[n] \in UploadFiles \cup {OfForm}
    /\ \A f \in Forms : form[f] = NoInsert \/ form[f].no \in RowNumbers
    /\ \A u \in UploadFiles : IsOpen(u) \/ upload[u].at \in {"waiting", "imported", "undone"}
    /\ raced \in BOOLEAN

\* "the sequence is then moved past them so the others get free numbers": while no upload is
\* under way, the number the next form will get is free and everything in use is below it -
\* unless a row was still uncommitted when an upload moved the sequence, which cannot see that
\* row and moves the sequence back under it.
NextNumberIsFree ==
    (\A u \in UploadFiles : ~IsOpen(u)) /\ ~raced
        => \A n \in Used \cup OpenForms : n <= sequence
=============================================================================
