------------------------------ MODULE Imports -------------------------------
(***************************************************************************)
(* Bulk imports of every kind and their undo: confirm and undo_batch of    *)
(* app/admin_tools.py with the validators of app/bulk_modules.py and       *)
(* app/bulk_entities.py.                                                   *)
(*                                                                         *)
(* The rows are checked in one transaction and inserted in another, and    *)
(* the undo counts what was done to the rows in one statement and deletes  *)
(* them in the next, so people work on the rows in between.  What differs  *)
(* between the kinds is what their validator asks the table, what the      *)
(* table itself refuses, and what the undo counts as work.                 *)
(***************************************************************************)
EXTENDS FiniteSets, Naturals

CONSTANTS
    Clerks,         \* admins at Setup > Import
    ImportIds,      \* rows of import_batch, the bound on imports
    RowNames        \* what the rows of a kind are told apart by

VARIABLES
    kind,           \* the kind of these imports: import_batch.entity
    batch,          \* each import's rows
    typed,          \* rows of the kind's own screens
    owner,          \* what the rows point to: the client, employee, member or list entry
    clerk,          \* where each admin's request is
    lost            \* history: work the undo asks about, done before it asked, and deleted

importVars == <<kind, batch, typed, owner, clerk, lost>>

-----------------------------------------------------------------------------
(* names: a name in use is let pass ("free"), an error of the validator    *)
(* ("checked"), or refused by a unique index too ("indexed").              *)
(* points: what becomes of the rows when what they point to is deleted     *)
(* (Parties are the vendors too, one list with two kinds).                 *)
(* asks: what undo refuses to lose; kids: what becomes of rows pointing    *)
(* to these when these are deleted.                                        *)
Kind(names, points, asks, kids) == [names |-> names, points |-> points, asks |-> asks, kids |-> kids]

Members         == Kind("indexed", "nothing", {"edit", "kids"}, "restrict")
Payments        == Kind("indexed", "restrict", {"edit"}, "none")
Parties         == Kind("indexed", "nothing", {"kids"}, "restrict")
Tasks           == Kind("free", "restrict", {"edit"}, "none")
Purchases       == Kind("checked", "restrict", {"edit"}, "none")
PurchasesPf     == Purchases
DecorClients    == Kind("checked", "restrict", {"kids"}, "cascade")
DecorPayments   == Kind("free", "cascade", {}, "none")
DecorExpenses   == Kind("free", "cascade", {}, "none")
DecorItems      == Kind("free", "cascade", {}, "none")
DecorPhotos     == Kind("free", "cascade", {}, "none")
DecorQuotations == Kind("indexed", "nothing", {}, "none")
AttEmployees    == Kind("indexed", "nothing", {"edit", "kids"}, "restrict")
AttRecords      == Kind("indexed", "restrict", {"edit"}, "none")
AttAdvances     == Kind("free", "restrict", {}, "none")
Checklists      == Kind("checked", "restrict", {"edit", "kids"}, "cascade")

Kinds == {Members, Payments, Parties, Tasks, Purchases, PurchasesPf, DecorClients, DecorPayments, DecorExpenses,
          DecorItems, DecorPhotos, DecorQuotations, AttEmployees, AttRecords, AttAdvances, Checklists}

(* Rows that a screen gives another name or, a checklist, stops (members   *)
(* keep theirs, but are an equal record with the employees).               *)
Renamed == {Parties, AttEmployees, Purchases, Checklists}

(* The names a file is asked about: not a purchase without an invoice      *)
(* number, and not a client who brings an old number.                      *)
Asked(names) == IF kind \in {Purchases, DecorClients} THEN SUBSET names ELSE {names}

-----------------------------------------------------------------------------
(* names: the rows a validator finds under the name they came with; aside: *)
(* those it does not, renamed, stopped or without a number.                *)
NoRows == [names |-> {}, aside |-> {}]
NoBatch == [names |-> {}, aside |-> {}, work |-> {}, seen |-> {}, status |-> "none"]
IdleClerk == [at |-> "idle"]

ImportsInit ==
    /\ kind \in Kinds
    /\ batch = [b \in ImportIds |-> NoBatch]
    /\ typed = NoRows
    /\ owner = "there"
    /\ clerk = [c \in Clerks |-> IdleClerk]
    /\ lost = {}

Rows(r) == r.names \cup r.aside
Changed(r, names, aside, work) ==
    [names |-> names, aside |-> aside, work |-> work, seen |-> r.seen, status |-> r.status]
Live(b) == Rows(batch[b]) # {}
Found == typed.names \cup UNION {batch[b].names : b \in ImportIds}
RowsThere == Rows(typed) # {} \/ \E b \in ImportIds : Live(b)

(* confirm: ent["validate"] reads the table in a transaction of its own.   *)
(* With any error nothing is imported.  seen is history: which of the      *)
(* names asked about could have been found in which import.                *)
ValidateImport(c, names, asked) ==
    /\ clerk[c] = IdleClerk
    /\ kind.names # "free" => asked \cap Found = {}
    /\ kind.points # "nothing" => owner # "gone"
    /\ clerk' = [clerk EXCEPT ![c] =
                   [at |-> "checked",
                    names |-> IF kind = Purchases THEN asked ELSE names,
                    aside |-> IF kind = Purchases THEN names \ asked ELSE {},
                    seen |-> {p \in ImportIds \X asked : Live(p[1]) /\ p[2] \notin batch[p[1]].aside}]]
    /\ UNCHANGED <<kind, batch, typed, owner, lost>>

(* The batch and its rows in a second transaction; an error of the table   *)
(* rolls all of it back.                                                   *)
Imported(r) == [names |-> r.names, aside |-> r.aside, work |-> {}, seen |-> r.seen, status |-> "made"]

ConfirmImport(c, b) ==
    /\ clerk[c].at = "checked" /\ batch[b].status = "none"
    /\ clerk' = [clerk EXCEPT ![c] = IdleClerk]
    /\ IF \/ kind.names = "indexed" /\ clerk[c].names \cap Found # {}
          \/ kind.points # "nothing" /\ owner = "gone"
       THEN UNCHANGED batch
       ELSE batch' = [batch EXCEPT ![b] = Imported(clerk[c])]
    /\ UNCHANGED <<kind, typed, owner, lost>>

(* The kind's own screens, where rows are saved, renamed, stopped and      *)
(* deleted, and may get a name an import has.                              *)
SaveRows(names, aside) ==
    /\ kind.names = "indexed" => (names \ typed.names) \cap Found = {}
    /\ kind.points # "nothing" /\ owner = "gone" => names = {} /\ aside = {}
    /\ kind \notin Renamed => aside = {}
    /\ typed' = [names |-> names, aside |-> aside]
    /\ UNCHANGED <<kind, batch, owner, clerk, lost>>

(* Someone edits or decides an imported row, or saves a row that points to *)
(* it.  Only import_batch is locked by an undo under way.                  *)
LateWork(b, what) ==
    [c \in Clerks |-> IF clerk[c].at = "undoing" /\ clerk[c].of = b
                      THEN [clerk[c] EXCEPT !.late = @ \cup {what}]
                      ELSE clerk[c]]

WorkOn(b, what) ==
    /\ Live(b) /\ what \notin batch[b].work
    /\ what = "kids" => kind.kids # "none"
    /\ batch' = [batch EXCEPT ![b].work = @ \cup {what}]
    /\ clerk' = LateWork(b, what)
    /\ UNCHANGED <<kind, typed, owner, lost>>

(* The edit takes an imported row out of its name, or back into it. *)
PutAside(b, n) ==
    /\ n \in batch[b].names /\ kind \in Renamed
    /\ batch' = [batch EXCEPT ![b] = Changed(@, @.names \ {n}, @.aside \cup {n}, @.work \cup {"edit"})]
    /\ clerk' = LateWork(b, "edit")
    /\ UNCHANGED <<kind, typed, owner, lost>>

TakeBack(b, n) ==
    /\ n \in batch[b].aside
    /\ kind.names = "indexed" => n \notin Found
    /\ batch' = [batch EXCEPT ![b] = Changed(@, @.names \cup {n}, @.aside \ {n}, @.work \cup {"edit"})]
    /\ clerk' = LateWork(b, "edit")
    /\ UNCHANGED <<kind, typed, owner, lost>>

(* An imported row is deleted on its screen. *)
DeleteRow(b, n) ==
    /\ n \in Rows(batch[b])
    /\ kind.kids = "restrict" => "kids" \notin batch[b].work
    /\ batch' = [batch EXCEPT ![b] = Changed(@, @.names \ {n}, @.aside \ {n},
                                              IF Rows(@) = {n} THEN {} ELSE @.work)]
    /\ UNCHANGED <<kind, typed, owner, clerk, lost>>

-----------------------------------------------------------------------------
(* undo_batch: the batch row is locked, and the count of rows worked on    *)
(* must be zero ...                                                        *)
\* A plausible bug: of the kinds with an "edited" rule of two halves, only the first is asked.
UntouchedByEdits(b) == batch[b].work \cap kind.asks \cap {"edit"} = {}
Untouched(b) == batch[b].work \cap kind.asks = {}

BeginUndo(c, b) ==
    /\ clerk[c] = IdleClerk
    /\ batch[b].status = "made"
    /\ \A d \in Clerks : ~(clerk[d].at = "undoing" /\ clerk[d].of = b)
    /\ Untouched(b)
    /\ clerk' = [clerk EXCEPT ![c] = [at |-> "undoing", of |-> b, late |-> {}]]
    /\ UNCHANGED <<kind, batch, typed, owner, lost>>

(* ... then they are deleted with what goes with them, unless the table    *)
(* refuses: then the request fails and the batch stays.                    *)
FinishUndo(c) ==
    /\ clerk[c].at = "undoing"
    /\ clerk' = [clerk EXCEPT ![c] = IdleClerk]
    /\ LET b == clerk[c].of IN
       IF kind.kids = "restrict" /\ "kids" \in batch[b].work
       THEN UNCHANGED <<batch, lost>>
       ELSE /\ batch' = [batch EXCEPT ![b] = [NoBatch EXCEPT !.status = "undone"]]
            /\ lost' = lost \cup ((batch[b].work \cap kind.asks) \ clerk[c].late)
    /\ UNCHANGED <<kind, typed, owner>>

(* What the rows point to is itself an import that is undone.  Of clients  *)
(* it is asked first whether a row points to them, as the rows would go    *)
(* with them, and a row saved since then does; everywhere else a row that  *)
(* points to it refuses the deletion.                                      *)
AskOwner ==
    /\ kind.points # "nothing" /\ owner = "there"
    /\ kind.points = "cascade" => ~RowsThere
    /\ owner' = "asked"
    /\ UNCHANGED <<kind, batch, typed, clerk, lost>>

DeleteOwner ==
    /\ owner = "asked"
    /\ IF kind.points = "restrict" /\ RowsThere
       THEN owner' = "there" /\ UNCHANGED <<batch, typed>>
       ELSE /\ owner' = "gone" /\ typed' = NoRows
            /\ batch' = [b \in ImportIds |-> Changed(batch[b], {}, {}, {})]
    /\ UNCHANGED <<kind, clerk, lost>>

ImportsNext ==
    \/ \E c \in Clerks :
          \/ \E names \in (SUBSET RowNames) \ {{}} : \E asked \in Asked(names) : ValidateImport(c, names, asked)
          \/ \E b \in ImportIds : ConfirmImport(c, b) \/ BeginUndo(c, b)
          \/ FinishUndo(c)
    \/ \E names, aside \in SUBSET RowNames : SaveRows(names, aside)
    \/ \E b \in ImportIds, what \in {"edit", "kids"} : WorkOn(b, what)
    \/ \E b \in ImportIds, n \in RowNames : PutAside(b, n) \/ TakeBack(b, n) \/ DeleteRow(b, n)
    \/ AskOwner \/ DeleteOwner

ImportsSpec == ImportsInit /\ [][ImportsNext]_importVars

-----------------------------------------------------------------------------
(***************************************************************************)
(* Properties.                                                             *)
(***************************************************************************)
\* Imports, requests and the history have the shapes declared above.
ImportsTypeOK ==
    /\ kind \in Kinds
    /\ batch \in [ImportIds -> [names : SUBSET RowNames, aside : SUBSET RowNames, work : SUBSET {"edit", "kids"},
                              seen : SUBSET (ImportIds \X RowNames), status : {"none", "made", "undone"}]]
    /\ typed \in [names : SUBSET RowNames, aside : SUBSET RowNames] /\ owner \in {"there", "asked", "gone"}
    /\ \A c \in Clerks : clerk[c].at \in {"idle", "checked", "undoing"}
    /\ lost \subseteq {"edit", "kids"}

\* Two imports hold one name they came with only when neither could be found while the other
\* was asked about it, and never in a table that refuses it.
ToldApart(b, d) ==
    \A n \in batch[b].names \cap batch[d].names :
        /\ kind.names # "indexed"
        /\ kind.names = "checked" => <<b, n>> \notin batch[d].seen /\ <<d, n>> \notin batch[b].seen

\* "undoing would lose that work. Nothing was changed.": whatever order imports, saves and undos
\* come in, an undo takes no work of the sort it asks about that was there when it asked; no row
\* points to a client, employee, member or list entry that is gone; and imports of the same row
\* stand beside each other only where the check of one could not find the other - it was not
\* there, renamed or stopped, or not asked about - and no index is there.
ImportsKeepWork ==
    /\ lost = {}
    /\ owner = "gone" => ~RowsThere
    /\ \A b, d \in ImportIds : b # d => ToldApart(b, d)
=============================================================================
