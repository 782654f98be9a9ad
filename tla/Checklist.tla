----------------------------- MODULE Checklist ------------------------------
(***************************************************************************)
(* One checklist (app/checklist.py): work that comes back on a schedule,   *)
(* and one item for each date it is due.                                   *)
(*                                                                         *)
(* Items are created when somebody looks: the view reads the checklist     *)
(* without a lock and inserts what is missing afterwards.  Between the two *)
(* the checklist may be handed over, moved, stopped or deleted, and those  *)
(* have cleaned up by then.  A daily checklist leaves out the weekly off   *)
(* day, a setting an administrator changes at any time, so each view has   *)
(* its own; items that are there stay where they are.                      *)
(***************************************************************************)
EXTENDS Calendar, FiniteSets

CONSTANTS
    Assignees,      \* people who hold "chk_mine"
    Lookers,        \* requests in flight
    Schedules,      \* the dates a frequency can stand for, and whether it is Daily
    OffDays,        \* the dates the weekly off day can stand for
    LookBack        \* how far back an unseen checklist is caught up

ASSUME ScheduleAssumption ==
    /\ Schedules \subseteq [daily : BOOLEAN, dates : SUBSET Days]
    /\ OffDays \subseteq SUBSET Days
    /\ LookBack \in Nat

VARIABLES
    list,           \* the dim_checklist row
    item,           \* fact_checklist_occurrence, by due date
    view,           \* what each request is in the middle of
    deleted         \* the row was deleted; its key is not used again

checklistVars == <<list, item, view, deleted>>

NoList == [active |-> FALSE]
NoItem == [status |-> "none"]
NoView == [op |-> "idle"]

List == [assignee : Assignees, start : Days, schedule : Schedules, active : BOOLEAN]

(* excuse is history: why an open item may be at odds with its checklist - a view brought it *)
(* that had read the row before it changed, or it was marked when the row changed.  Handing  *)
(* it over settles either.                                                                   *)
Item == [owner : Assignees, status : {"Pending", "Done", "NotDone"}, excuse : {"none", "raced", "marked"}]

ChecklistInit ==
    /\ DayOne
    /\ list = NoList
    /\ item = [d \in Days |-> NoItem]
    /\ view = [v \in Lookers |-> NoView]
    /\ deleted = FALSE

Marked(d) == item[d].status \in {"Done", "NotDone"}
Open(d) == item[d].status = "Pending"

Dates(s, skipped) == IF s.daily THEN s.dates \ skipped ELSE s.dates

(* due_dates, between the window's ends. *)
Due(c, off) == {d \in Dates(c.schedule, off) : d >= c.start /\ d >= today - LookBack}

-----------------------------------------------------------------------------
(* create, with the guards of _values; an import of checklists has the same ones. *)
CreateList(p, start, schedule) ==
    /\ list = NoList /\ ~deleted
    /\ start >= today
    /\ list' = [assignee |-> p, start |-> start, schedule |-> schedule, active |-> TRUE]
    /\ UNCHANGED <<today, item, view, deleted>>

(* mine and calendar_month: _materialize reads the active checklists of one person, or all, and *)
(* then att_weekly_off_day, ...                                                                 *)
BeginView(v, off) ==
    /\ view[v] = NoView
    /\ list.active
    /\ view' = [view EXCEPT ![v] = [op |-> "view", due |-> Due(list, off), read |-> list]]
    /\ UNCHANGED <<today, list, item, deleted>>

(* ... and inserts what is missing; the foreign key refuses a checklist that is gone. *)
FinishView(v) ==
    /\ view[v].op = "view"
    /\ item' = IF deleted THEN item
               ELSE [d \in Days |->
                       IF d \in view[v].due /\ item[d] = NoItem
                       THEN [owner |-> view[v].read.assignee, status |-> "Pending",
                             excuse |-> IF view[v].read = list THEN "none" ELSE "raced"]
                       ELSE item[d]]
    /\ view' = [view EXCEPT ![v] = NoView]
    /\ UNCHANGED <<today, list, deleted>>

(* mark: the owner marks an open item once; an editor of others' items may do anything. *)
MarkOwn(d, status) ==
    /\ Open(d)
    /\ status = "NotDone" => d <= today
    /\ item' = [item EXCEPT ![d].status = status]
    /\ UNCHANGED <<today, list, view, deleted>>

MarkAsEditor(d, status) ==
    /\ item[d] # NoItem
    /\ status = "NotDone" => d <= today
    /\ item' = [item EXCEPT ![d].status = status]
    /\ UNCHANGED <<today, list, view, deleted>>

(* _drop_future_untouched *)
Dropped(d) == Open(d) /\ d >= today

\* A plausible bug: only what is not due yet is handed over.
HandedOverLater(d, p) == Open(d) /\ p # list.assignee /\ d >= today

HandedOver(d, p) == Open(d) /\ p # list.assignee

TakenOver(d, p) == [item[d] EXCEPT !.owner = p, !.excuse = "none"]
Excused(d) == [item[d] EXCEPT !.excuse = IF Marked(d) THEN "marked" ELSE @]

(* update: open items go to the new person, those not due yet are rebuilt by the next view. *)
UpdateList(p, start, schedule) ==
    /\ list # NoList
    /\ start >= today \/ start = list.start
    /\ list' = [list EXCEPT !.assignee = p, !.start = start, !.schedule = schedule]
    /\ item' = [d \in Days |-> IF Dropped(d) THEN NoItem
                               ELSE IF item[d] = NoItem THEN NoItem
                               ELSE IF HandedOver(d, p) THEN TakenOver(d, p)
                               ELSE Excused(d)]
    /\ UNCHANGED <<today, view, deleted>>

(* set_active *)
StopList ==
    /\ list # NoList
    /\ list' = [list EXCEPT !.active = FALSE]
    /\ item' = [d \in Days |-> IF Dropped(d) THEN NoItem ELSE IF item[d] = NoItem THEN NoItem ELSE Excused(d)]
    /\ UNCHANGED <<today, view, deleted>>

RestartList ==
    /\ list # NoList
    /\ list' = [list EXCEPT !.active = TRUE]
    /\ UNCHANGED <<today, item, view, deleted>>

\* A plausible bug: only items that are due by now are counted.
CountedWhenDue == {d \in Days : Marked(d) /\ d <= today}

Counted == {d \in Days : Marked(d)}

(* delete: marked items are counted in one statement, and there must be none; unmarked is *)
(* history, the items that were not marked then, ...                                      *)
BeginDeleteList(v) ==
    /\ view[v] = NoView
    /\ list # NoList
    /\ Counted = {}
    /\ view' = [view EXCEPT ![v] = [op |-> "delete", unmarked |-> {d \in Days : ~Marked(d)}]]
    /\ UNCHANGED <<today, list, item, deleted>>

(* ... and everything is deleted in another, by cascade. *)
FinishDeleteList(v) ==
    /\ view[v].op = "delete"
    /\ list' = NoList
    /\ deleted' = TRUE
    /\ item' = [d \in Days |-> NoItem]
    /\ view' = [view EXCEPT ![v] = NoView]
    /\ UNCHANGED today

ChecklistNext ==
    \/ Tomorrow /\ UNCHANGED checklistVars
    \/ \E p \in Assignees, start \in Days, schedule \in Schedules :
          CreateList(p, start, schedule) \/ UpdateList(p, start, schedule)
    \/ \E v \in Lookers : (\E off \in OffDays : BeginView(v, off)) \/ FinishView(v) \/ BeginDeleteList(v) \/ FinishDeleteList(v)
    \/ \E d \in Days :
        \/ \E status \in {"Done", "NotDone"} : MarkOwn(d, status)
        \/ \E status \in {"Done", "NotDone", "Pending"} : MarkAsEditor(d, status)
    \/ StopList \/ RestartList

ChecklistSpec == ChecklistInit /\ [][ChecklistNext]_<<today, checklistVars>>

-----------------------------------------------------------------------------
Views == {NoView} \cup [op : {"delete"}, unmarked : SUBSET Days]
    \cup [op : {"view"}, due : SUBSET Days, read : List]

\* The rows and the requests have the shapes declared above.
ChecklistTypeOK ==
    /\ today \in Days
    /\ list \in List \cup {NoList}
    /\ item \in [Days -> Item \cup {NoItem}]
    /\ view \in [Lookers -> Views]
    /\ deleted \in BOOLEAN

\* "what is still open (overdue included) is theirs now" (update): an open item is the present
\* assignee's, and one not due yet stands on the present schedule of a running checklist - on any
\* date of it, for a daily one, as the weekly off day may have moved since.  The exceptions are
\* what a view brought that had read the row before it changed, and what was marked when the row
\* changed and opened again; both end with the next hand-over.
OpenItemsFollow ==
    \A d \in Days : (Open(d) /\ item[d].excuse = "none") =>
        /\ item[d].owner = list.assignee
        /\ d >= today => list.active /\ d \in list.schedule.dates /\ d >= list.start

\* "What was already done stays in the history" (set_active) and "Remove a checklist that nobody
\* has acted on yet" (delete): a marked item goes only with a delete under way that had found it
\* not marked when it counted.
MarkedItemsSurvive ==
    [][\A d \in Days : (Marked(d) /\ item'[d] = NoItem)
          => \E v \in Lookers : view[v].op = "delete" /\ view'[v] = NoView /\ d \in view[v].unmarked]_<<today, checklistVars>>
=============================================================================
