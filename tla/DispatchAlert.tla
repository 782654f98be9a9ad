--------------------------- MODULE DispatchAlert ---------------------------
(***************************************************************************)
(* The WhatsApp messages of one order (app/o2d_screens.py): the dispatch   *)
(* message when Godown Dispatch fills in the delivery and who delivers it, *)
(* the receiving message when the receiving entry is complete.             *)
(*                                                                         *)
(* A single save reads the order in a transaction of its own, saves it in  *)
(* another and compares the two; the bulk save compares what it read under *)
(* the row lock.  Messages go to a pool of workers in memory, which post   *)
(* them and then note them on the order's timeline.                        *)
(***************************************************************************)
EXTENDS Naturals, Sequences, FiniteSets

CONSTANTS
    Savers,         \* requests under way at once
    Workers,        \* threads of the alert pool
    Forms,          \* the sets of fields a save may fill in
    MaxQueue,       \* bound: messages waiting
    Rest            \* a request or a worker that does nothing

ASSUME AlertAssumption == MaxQueue \in Nat

(* The screens whose saves fill in these fields; "other" is the dispatch form of a user whose role *)
(* is neither dispatch screen and who names none.  The godown's and both dispatch forms take the   *)
(* receiving fields too.                                                                           *)
Screens == {"godown", "godown_dispatch", "shop_dispatch", "receiving", "other"}
DispatchFields == {"date", "by"}            \* material_delivery_datetime, delivered_by
ReceivingFields == {"received", "paid"}     \* date_of_receiving, payment_status
Fields == DispatchFields \cup ReceivingFields
FieldsOf(screen) == IF screen \in {"godown", "receiving"} THEN ReceivingFields ELSE Fields

(* Which messages the saves of a screen send: no receiving message from the godown's. *)
TellsDispatch(screen) == screen = "godown_dispatch"
TellsReceiving(screen) == screen \in {"shop_dispatch", "receiving"}

VARIABLES
    filled,     \* the fields of the order that are filled in
    req,        \* the save each request is making
    queue,      \* messages waiting for a worker
    worker,     \* the message each worker has posted and not yet noted
    noted,      \* the timeline has a WhatsApp message other than "Sent again"
    told,       \* history: messages handed to the pool since the fields were last complete (up to 2)
    excused     \* history: what may have repeated a message or kept one from being sent

alertVars == <<filled, req, queue, worker, noted, told, excused>>

AlertInit ==
    /\ filled = {} /\ queue = <<>> /\ noted = FALSE
    /\ req = [s \in Savers |-> Rest]
    /\ worker = [w \in Workers |-> Rest]
    /\ told = [dispatch |-> 0, receiving |-> 0]
    /\ excused = {}

FirstDispatch(before, after) == DispatchFields \cap before = {} /\ DispatchFields \subseteq after
FirstReceivingAtOnce(before, after) == ReceivingFields \cap before = {} /\ ReceivingFields \subseteq after
FirstReceiving(before, after) == ~(ReceivingFields \subseteq before) /\ ReceivingFields \subseteq after

(* The messages a save that read `before` and left `after` hands to the pool. *)
Messages(screen, before, after) ==
    (IF TellsDispatch(screen) /\ FirstDispatch(before, after) THEN <<"dispatch">> ELSE <<>>)
    \o (IF TellsReceiving(screen) /\ FirstReceiving(before, after) THEN <<"receiving">> ELSE <<>>)

Has(ms, kind) == kind \in {ms[i] : i \in DOMAIN ms}
More(n) == IF n < 2 THEN n + 1 ELSE 2
Counted(ms) == [k \in DOMAIN told |-> IF Has(ms, k) THEN More(told[k]) ELSE told[k]]

(* The kinds of message a save hands over on a reading of their fields that no longer holds. *)
Stale(ms, before) ==
    {k \in DOMAIN told : /\ Has(ms, k)
                         /\ LET its == IF k = "dispatch" THEN DispatchFields ELSE ReceivingFields IN
                            its \cap before # its \cap filled}
Completes(after) == ~(ReceivingFields \subseteq filled) /\ ReceivingFields \subseteq after

-----------------------------------------------------------------------------
(* update_dispatch, update_receiving: where a message may follow the order is read first ... *)
ReadBefore(s, screen) ==
    /\ req[s] = Rest
    /\ TellsDispatch(screen) \/ TellsReceiving(screen)
    /\ req' = [req EXCEPT ![s] = [screen |-> screen, before |-> filled]]
    /\ UNCHANGED <<filled, queue, worker, noted, told, excused>>

(* ... and saved later. *)
Commit(screen, fields, before) ==
    LET after == filled \cup fields
        ms == Messages(screen, before, after) IN
    /\ Len(queue) + Len(ms) <= MaxQueue
    /\ filled' = after
    /\ queue' = queue \o ms
    /\ told' = Counted(ms)
    /\ excused' = excused \cup Stale(ms, before)
                      \cup (IF Completes(after) /\ ~TellsReceiving(screen) THEN {"around"} ELSE {})
    /\ UNCHANGED <<worker, noted>>

Save(s, fields) ==
    /\ req[s] # Rest
    /\ fields \subseteq FieldsOf(req[s].screen)
    /\ Commit(req[s].screen, fields, req[s].before)
    /\ req' = [req EXCEPT ![s] = Rest]

(* Refused: the order is closed and the user no admin, a value is no longer on its list, ... *)
Refused(s) ==
    /\ req[s] # Rest
    /\ req' = [req EXCEPT ![s] = Rest]
    /\ UNCHANGED <<filled, queue, worker, noted, told, excused>>

(* The other screens save at once. *)
SaveQuietly(screen, fields) ==
    /\ ~TellsDispatch(screen) /\ ~TellsReceiving(screen)
    /\ fields \subseteq FieldsOf(screen)
    /\ Commit(screen, fields, filled)
    /\ UNCHANGED req

(* The bulk save judges by what it read under the lock, and asks for both fields of its screen. *)
BulkSave(screen, more) ==
    /\ screen # "godown" /\ more \subseteq ReceivingFields
    /\ IF screen = "receiving" THEN Commit(screen, ReceivingFields, filled)
       ELSE Commit(screen, DispatchFields \cup more, filled)
    /\ UNCHANGED req

(* PATCH /orders and the admin's form write without a message; a field may be emptied. *)
WriteAround(fields) ==
    /\ filled' \in {filled \cup fields, filled \ fields}
    /\ filled' # filled
    /\ told' = [dispatch |-> IF DispatchFields \subseteq filled' THEN told.dispatch ELSE 0,
                receiving |-> IF ReceivingFields \subseteq filled' THEN told.receiving ELSE 0]
    /\ excused' = excused \cup (IF fields \subseteq ReceivingFields THEN {"around"} ELSE {})
    /\ UNCHANGED <<req, queue, worker, noted>>

-----------------------------------------------------------------------------
(* send_pending_dispatch_alert: nothing noted yet, of whichever message, means nothing was sent. *)
SendPending ==
    /\ DispatchFields \subseteq filled /\ ~noted
    /\ Len(queue) < MaxQueue
    /\ queue' = Append(queue, "dispatch")
    /\ told' = Counted(<<"dispatch">>)
    /\ excused' = excused \cup (IF told.dispatch = 0 THEN {} ELSE {"unnoted"})
    /\ UNCHANGED <<filled, req, worker, noted>>

(* A worker posts a message; whatever came of it, it is noted, unless the insert fails. *)
Post(w) ==
    /\ worker[w] = Rest /\ queue # <<>>
    /\ worker' = [worker EXCEPT ![w] = Head(queue)]
    /\ queue' = Tail(queue)
    /\ UNCHANGED <<filled, req, noted, told, excused>>
RecordAlert(w) ==
    /\ worker[w] # Rest
    /\ noted' = TRUE
    /\ worker' = [worker EXCEPT ![w] = Rest]
    /\ UNCHANGED <<filled, req, queue, told, excused>>
RecordFails(w) ==
    /\ worker[w] # Rest
    /\ worker' = [worker EXCEPT ![w] = Rest]
    /\ UNCHANGED <<filled, req, queue, noted, told, excused>>

(* The server restarts: requests and waiting messages are gone, the database is not. *)
Restart ==
    /\ \E s \in Savers : req[s] # Rest
       \/ queue # <<>>
       \/ \E w \in Workers : worker[w] # Rest
    /\ req' = [s \in Savers |-> Rest]
    /\ queue' = <<>>
    /\ worker' = [w \in Workers |-> Rest]
    /\ UNCHANGED <<filled, noted, told, excused>>

AlertNext ==
    \/ \E s \in Savers, screen \in Screens : ReadBefore(s, screen)
    \/ \E s \in Savers, fields \in Forms : Save(s, fields)
    \/ \E s \in Savers : Refused(s)
    \/ \E screen \in Screens, fields \in Forms : SaveQuietly(screen, fields)
    \/ \E screen \in Screens, more \in SUBSET ReceivingFields : BulkSave(screen, more)
    \/ \E f \in Fields : WriteAround({f})
    \/ SendPending
    \/ \E w \in Workers : Post(w) \/ RecordAlert(w) \/ RecordFails(w)
    \/ Restart

AlertSpec == AlertInit /\ [][AlertNext]_alertVars

-----------------------------------------------------------------------------
\* The order, the requests and the messages have the shapes declared above.
AlertTypeOK ==
    /\ filled \subseteq Fields
    /\ req \in [Savers -> {Rest} \cup [screen : Screens, before : SUBSET Fields]]
    /\ Len(queue) <= MaxQueue /\ \A i \in DOMAIN queue : queue[i] \in {"dispatch", "receiving"}
    /\ worker \in [Workers -> {Rest, "dispatch", "receiving"}]
    /\ noted \in BOOLEAN
    /\ told \in [{"dispatch", "receiving"} -> 0..2]
    /\ excused \subseteq {"dispatch", "receiving", "unnoted", "around"}

(* "The WhatsApp groups are told (once)": a second message of a kind needs a save that took its   *)
(* own reading of the order for the state it saved to, while another save had come in between, or *)
(* (of the dispatch message) a check of the timeline before the first one was noted.  And once    *)
(* the receiving entry is complete its message was handed to the pool, however many saves and     *)
(* screens it took, unless it was completed around the screens or from one that tells nobody.     *)
GroupsAreTold ==
    /\ told.dispatch = 2 => excused \cap {"dispatch", "unnoted"} # {}
    /\ told.receiving = 2 => "receiving" \in excused
    /\ ReceivingFields \subseteq filled => told.receiving > 0 \/ "around" \in excused
=============================================================================
