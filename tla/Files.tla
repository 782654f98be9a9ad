-------------------------------- MODULE Files --------------------------------
(***************************************************************************)
(* Photos and documents (app/attachments.py, app/challans.py, the photos   *)
(* of app/purchase.py).  The bytes are an object in a store of their own,  *)
(* the database holds a row with its key; no transaction spans the two, so *)
(* every handler is a sequence of steps between which others run and the   *)
(* service may restart.  A row goes with its order by the foreign key; a   *)
(* row of a purchase names its entry in a plain column.                    *)
(***************************************************************************)
EXTENDS FiniteSets, Naturals

CONSTANTS
    FileIds,        \* object keys, made unique by uuid4
    Challans,       \* rows of fact_challan_upload
    Orders,         \* orders that photos are taken for, of one kind
    Purchases,      \* keys of fact_purchase_entry, each given once
    Workers,        \* requests in progress at once
    MaxPerKind,     \* MAX_PER_KIND, of one order's photos of that kind
    NoFile

ASSUME FilesAssumption ==
    /\ NoFile \notin FileIds
    /\ MaxPerKind \in Nat
    /\ Orders \cap Purchases = {}
    /\ {"none", "loose", "challan"} \cap (Orders \cup Purchases) = {}

VARIABLES
    object,         \* what the store holds
    row,            \* order_attachments and file_attachment: what a file is for
    record,         \* fact_orders and fact_purchase_entry: which of their keys exist
    challan,        \* the file of each challan, NoFile if there is no such challan
    op,             \* the request each worker is in the middle of
    strays,         \* history: files whose clean-up failed, was cut off or does not exist
    left,           \* history: files of orders and purchases that have been deleted
    lost            \* history: files erased by a save that was then not committed

fileVars == <<object, row, record, challan, op, strays, left, lost>>

NotBusy == [at |-> "idle"]
Uses == Orders \cup {"loose", "challan"}

FilesInit ==
    /\ object = {}
    /\ row = [f \in FileIds |-> "none"]
    /\ record = [k \in Orders \cup Purchases |-> IF k \in Orders THEN "there" ELSE "unborn"]
    /\ challan = [c \in Challans |-> NoFile]
    /\ op = [w \in Workers |-> NotBusy]
    /\ strays = {} /\ left = {} /\ lost = {}

-----------------------------------------------------------------------------
RowsFor(use) == {f \in FileIds : row[f] = use}
Held(w) == IF op[w].at \in {"idle", "commit", "delete"} THEN {} ELSE {op[w].file}
Fresh(f) == /\ f \notin object \cup strays \cup left \cup lost
            /\ row[f] = "none"
            /\ \A w \in Workers : f \notin Held(w) /\ (op[w].at = "delete" => f \notin op[w].seen)

Becomes(w, step) == op' = [op EXCEPT ![w] = step]
Finishes(w) == Becomes(w, NotBusy)
TurnsTo(w, at) == op' = [op EXCEPT ![w].at = at]

(* save_photo counts in one transaction what it will insert in another. *)
BeginUpload(w, f, use, c) ==
    /\ op[w] = NotBusy
    /\ Fresh(f)
    /\ use \in Orders => record[use] = "there" /\ Cardinality(RowsFor(use)) < MaxPerKind
    /\ Becomes(w, [at |-> "put", file |-> f, use |-> use, challan |-> c])
    /\ UNCHANGED <<object, row, record, challan, strays, left, lost>>

PutObject(w) ==
    /\ op[w].at = "put"
    /\ object' = object \cup {op[w].file}
    /\ TurnsTo(w, "insert")
    /\ UNCHANGED <<row, record, challan, strays, left, lost>>

(* A purchase photo waits for its entry ("loose"); a challan's row is then linked; the *)
(* foreign key refuses a photo of an order that has gone.                               *)
InsertRow(w) ==
    /\ op[w].at = "insert"
    /\ op[w].use \in Orders => record[op[w].use] = "there"
    /\ row' = [row EXCEPT ![op[w].file] = op[w].use]
    /\ IF op[w].use = "challan" THEN TurnsTo(w, "link") ELSE Finishes(w)
    /\ UNCHANGED <<object, record, challan, strays, left, lost>>

InsertFails(w) ==
    /\ op[w].at = "insert"
    /\ TurnsTo(w, "erase")
    /\ UNCHANGED <<object, row, record, challan, strays, left, lost>>

(* The store may refuse: that is logged, and the object stays. *)
EraseObject(w) ==
    /\ op[w].at = "erase"
    /\ \/ object' = object \ {op[w].file} /\ UNCHANGED strays
       \/ strays' = strays \cup {op[w].file} /\ UNCHANGED object
    /\ Finishes(w)
    /\ UNCHANGED <<row, record, challan, left, lost>>

(* A plausible bug: the object goes first, the row after it. *)
DeletePhotoObjectFirst(w, f) ==
    /\ op[w] = NotBusy
    /\ row[f] \in Orders
    /\ object' = object \ {f}
    /\ Becomes(w, [at |-> "drop", file |-> f])
    /\ UNCHANGED <<row, record, challan, strays, left, lost>>

DeletePhoto(w, f) ==
    /\ op[w] = NotBusy
    /\ row[f] \in Orders
    /\ row' = [row EXCEPT ![f] = "none"]
    /\ Becomes(w, [at |-> "erase", file |-> f])
    /\ UNCHANGED <<object, record, challan, strays, left, lost>>

RowsGone(files) == row' = [f \in FileIds |-> IF f \in files THEN "none" ELSE row[f]]

(* delete_order and the undo of an import: the rows go by the cascade; nothing removes the objects. *)
DeleteOrder(o) ==
    /\ record[o] = "there"
    /\ record' = [record EXCEPT ![o] = "gone"]
    /\ RowsGone(RowsFor(o))
    /\ left' = left \cup RowsFor(o)
    /\ UNCHANGED <<object, challan, op, strays, lost>>

-----------------------------------------------------------------------------
(* upload and edit of a challan: the file is stored first and linked under the challan's row lock; *)
(* what an edit replaces is dropped after its commit. *)
LinkChallan(w) ==
    /\ op[w].at = "link"
    /\ LET c == op[w].challan IN
        /\ challan' = [challan EXCEPT ![c] = op[w].file]
        /\ IF challan[c] = NoFile THEN Finishes(w)
           ELSE Becomes(w, [at |-> "drop", file |-> challan[c]])
    /\ UNCHANGED <<object, row, record, strays, left, lost>>

(* Not found or not theirs: only the row of the new file goes; any other failure leaves both. *)
LinkRefused(w) ==
    /\ op[w].at = "link"
    /\ \/ row' = [row EXCEPT ![op[w].file] = "none"]
       \/ UNCHANGED row
    /\ strays' = strays \cup {op[w].file}
    /\ Finishes(w)
    /\ UNCHANGED <<object, record, challan, left, lost>>

DeleteChallan(w, c) ==
    /\ op[w] = NotBusy
    /\ challan[c] # NoFile
    /\ challan' = [challan EXCEPT ![c] = NoFile]
    /\ Becomes(w, [at |-> "drop", file |-> challan[c]])
    /\ UNCHANGED <<object, row, record, strays, left, lost>>

(* _drop_file, first half. *)
DropRow(w) ==
    /\ op[w].at = "drop"
    /\ row' = [row EXCEPT ![op[w].file] = "none"]
    /\ TurnsTo(w, "erase")
    /\ UNCHANGED <<object, record, challan, strays, left, lost>>

-----------------------------------------------------------------------------
(* save_entry and update_entry hold the entry's row from their first statement.  _link_photos gives *)
(* it loose photos and drops those the form no longer lists: it erases their objects inside the     *)
(* transaction that drops their rows.                                                               *)
Saves(v, p) == op[v].at = "commit" /\ op[v].entry = p

BeginSave(w, p, linked, kept) ==
    /\ op[w] = NotBusy
    /\ record[p] # "gone"
    /\ \A v \in Workers : ~Saves(v, p) /\ (op[v].at = "commit" => linked \cap op[v].linked = {})
    /\ LET dropped == RowsFor(p) \ kept IN
        /\ Becomes(w, [at |-> "commit", entry |-> p, linked |-> linked, dropped |-> dropped])
        /\ \E refused \in SUBSET dropped :
            /\ object' = object \ (dropped \ refused)
            /\ strays' = strays \cup refused
    /\ UNCHANGED <<row, record, challan, left, lost>>

CommitSave(w) ==
    /\ op[w].at = "commit"
    /\ row' = [f \in FileIds |-> IF f \in op[w].linked THEN op[w].entry
                                 ELSE IF f \in op[w].dropped THEN "none" ELSE row[f]]
    /\ record' = [record EXCEPT ![op[w].entry] = "there"]
    /\ Finishes(w)
    /\ UNCHANGED <<object, challan, strays, left, lost>>

(* delete_entry removes the rows it finds, and locks the entry only when it deletes that.  Where it *)
(* and a save wait for each other's rows the database ends one of the two (CutOff).                 *)
BeginDeletePurchase(w, p) ==
    /\ op[w] = NotBusy
    /\ record[p] = "there"
    /\ Becomes(w, [at |-> "delete", entry |-> p, seen |-> RowsFor(p)])
    /\ UNCHANGED <<object, row, record, challan, strays, left, lost>>

(* A photo that a save has given to the entry meanwhile keeps a row that names no entry.  Nothing *)
(* removes the objects.                                                                          *)
FinishDeletePurchase(w) ==
    /\ op[w].at = "delete"
    /\ \A v \in Workers : ~Saves(v, op[w].entry)
    /\ RowsGone(op[w].seen \cap RowsFor(op[w].entry))
    /\ record' = [record EXCEPT ![op[w].entry] = "gone"]
    /\ left' = left \cup RowsFor(op[w].entry)
    /\ Finishes(w)
    /\ UNCHANGED <<object, challan, strays, lost>>

(* The process ends in the middle of a request, or the request's commit fails. *)
CutOff(w) ==
    /\ op[w] # NotBusy
    /\ strays' = strays \cup Held(w)
    /\ lost' = IF op[w].at = "commit" THEN lost \cup (op[w].dropped \ object) ELSE lost
    /\ Finishes(w)
    /\ UNCHANGED <<object, row, record, challan, left>>

FilesNext ==
    \/ \E o \in Orders : DeleteOrder(o)
    \/ \E w \in Workers :
        \/ PutObject(w) \/ InsertRow(w) \/ InsertFails(w) \/ EraseObject(w)
        \/ LinkChallan(w) \/ LinkRefused(w) \/ DropRow(w)
        \/ CommitSave(w) \/ FinishDeletePurchase(w) \/ CutOff(w)
        \/ \E f \in FileIds :
            \/ DeletePhoto(w, f)
            \/ \E use \in Uses, c \in Challans : BeginUpload(w, f, use, c)
        \/ \E c \in Challans : DeleteChallan(w, c)
        \/ \E p \in Purchases :
            \/ BeginDeletePurchase(w, p)
            \/ \E linked \in SUBSET RowsFor("loose"), kept \in SUBSET RowsFor(p) : BeginSave(w, p, linked, kept)

FilesSpec == FilesInit /\ [][FilesNext]_fileVars

-----------------------------------------------------------------------------
PointedAt == {challan[c] : c \in Challans} \ {NoFile}
InHand == UNION {Held(w) \cup (IF op[w].at = "commit" THEN op[w].dropped ELSE {}) : w \in Workers}

\* The state has the shapes declared above.
FilesTypeOK ==
    /\ object \cup strays \cup left \cup lost \subseteq FileIds
    /\ row \in [FileIds -> {"none"} \cup Uses \cup Purchases]
    /\ record \in [Orders \cup Purchases -> {"unborn", "there", "gone"}]
    /\ challan \in [Challans -> FileIds \cup {NoFile}]
    /\ \A w \in Workers :
            op[w].at \in {"idle", "put", "insert", "link", "drop", "erase", "commit", "delete"}

\* "the row is gone either way; an orphaned object is harmless" (app/challans.py, app/purchase.py):
\* what a screen lists can be opened - every row has its object and the order or entry it is for,
\* every challan its row and a file of its own - and nothing else is kept but what a request still
\* holds, what a failure left behind, and what deleting an order or a purchase always leaves: the
\* objects of its files, and the row of a photo that a save gave to the entry as it was deleted.
\* The one row without an object is of a purchase photo erased by a save that was not committed.
FilesAndRowsAgree ==
    /\ \A f \in FileIds : row[f] # "none" /\ f \notin lost \cup InHand => f \in object
    /\ \A f \in FileIds : row[f] \in Orders \cup (IF f \in left THEN {} ELSE Purchases) => record[row[f]] = "there"
    /\ \A c \in Challans : challan[c] # NoFile => row[challan[c]] = "challan" /\ challan[c] \in object
    /\ \A c, d \in Challans : c # d /\ challan[c] # NoFile => challan[c] # challan[d]
    /\ \A f \in object \ (strays \cup left \cup InHand) :
            row[f] \in {"loose"} \cup Orders \cup Purchases \/ f \in PointedAt
=============================================================================
