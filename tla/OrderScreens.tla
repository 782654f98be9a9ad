---------------------------- MODULE OrderScreens ----------------------------
(***************************************************************************)
(* Where an order shows on its way from the shop to the receiving desk     *)
(* (app/o2d_screens.py, app/roles.py).  A screen lists what a filter in    *)
(* the database lets through and a predicate in Python keeps; both read    *)
(* the order and the "Goes to" setting of its delivery status, which an    *)
(* admin may change at any time.                                           *)
(*                                                                         *)
(* A save is one transaction on a locked row, so it is one step here.  The *)
(* caps on the length of a list (500 open rows) are taken as not reached.  *)
(***************************************************************************)
EXTENDS FiniteSets

CONSTANTS
    OrderKeys,
    Statuses,       \* the delivery statuses
    Returned,       \* those that subtract the amount in reports
    Cancelled,      \* the one called Cancelled
    NoStatus,
    Absent          \* no such order

Types == {"sale", "return", "cancelled"}      \* the submission types the rules tell apart
Routes == {"shop", "godown", "none"}          \* a status "goes to"

ASSUME ScreenAssumption ==
    /\ Returned \subseteq Statuses /\ Cancelled \in Statuses
    /\ NoStatus \notin Statuses \cup Routes \cup {"stay"}

VARIABLES
    job,        \* each order, or Absent
    route,      \* the "Goes to" setting of each status
    cleanup,    \* whether the 11 PM clean-up is on
    reminder    \* the stage of the reminder that nobody acknowledged, per order

screenVars == <<job, route, cleanup, reminder>>

Job == [type : Types, status : Statuses \cup {NoStatus}, delivered : BOOLEAN, received : BOOLEAN,
        paid : BOOLEAN,         \* whether these fields are filled in
        old : BOOLEAN,          \* last updated before the most recent 11 PM
        archived : BOOLEAN]

Live == {k \in OrderKeys : job[k] # Absent}
Listed == {k \in Live : ~job[k].archived}     \* roles.visibility of an operating screen

ScreensInit ==
    /\ job = [k \in OrderKeys |-> Absent]
    /\ route \in [Statuses -> Routes] /\ route[Cancelled] = "shop"
    /\ cleanup = FALSE
    /\ reminder = [k \in OrderKeys |-> Absent]

-----------------------------------------------------------------------------
(* The rules of the screens. *)

Side(o) == IF o.status = NoStatus THEN NoStatus
           ELSE IF route[o.status] = "none" THEN "stay" ELSE route[o.status]
Subtracts(o) == o.type = "return" \/ o.status \in Returned
Settled(o) == o.received /\ o.paid
IsCancelled(o) == o.type = "cancelled" \/ o.status = Cancelled
ClosedOnScreens(o) == (o.delivered /\ Settled(o)) \/ o.type = "cancelled"

Stage(o) == CASE IsCancelled(o) -> "Cancelled"
              [] ~IsCancelled(o) /\ o.status = NoStatus -> "AwaitingGodown"
              [] ~IsCancelled(o) /\ o.status # NoStatus /\ ~o.delivered -> "AwaitingDispatch"
              [] ~IsCancelled(o) /\ o.status # NoStatus /\ o.delivered /\ ~Settled(o) -> "AwaitingReceiving"
              [] OTHER -> "Closed"
ClosedForGood(o) == Stage(o) = "Closed"       \* main.is_closed: only an admin changes it

Recent(o) == cleanup => ~o.old                \* since_cleanup_sql, closed_since_cleanup
OpenRow(o) == ~(o.delivered /\ Settled(o))

ScreenFilter(screen, o) ==
    CASE screen = "godown" -> \/ o.status = NoStatus /\ o.type # "cancelled"
                              \/ o.status # NoStatus /\ ~o.delivered
      [] screen = "shop_dispatch" -> o.status # NoStatus /\ route[o.status] = "shop"
                                     /\ (OpenRow(o) \/ Recent(o))
      [] screen = "godown_dispatch" -> o.status # NoStatus /\ route[o.status] = "godown" /\ OpenRow(o)
      [] screen = "receiving" -> o.delivered /\ Side(o) # "shop" /\ (~Settled(o) \/ Recent(o))

AwaitingGodown(o) == Side(o) = NoStatus /\ o.type # "cancelled"
UnderProcessing(o) == Side(o) = "stay" /\ ~Subtracts(o) /\ ~o.delivered
ReadyTillDelivered(o, side) == Side(o) = side /\ ~o.delivered     \* a mutation of the next rule
ReadyForDispatch(o, side) ==
    /\ Side(o) = side
    /\ IF side = "godown" THEN ~o.delivered ELSE ~ClosedOnScreens(o)
AwaitingReceiving(o) == o.delivered /\ ~Settled(o) /\ Side(o) # "shop"

(* The boxes of open work.  The dispatch screens' second boxes and the godown's "sent" list *)
(* repeat orders that another screen has to work on. *)
WorkLists(o) ==
    {b \in {"godown", "processing", "shop_dispatch", "godown_dispatch", "receiving"} :
        CASE b = "godown" -> ScreenFilter("godown", o) /\ AwaitingGodown(o)
          [] b = "processing" -> ScreenFilter("godown", o) /\ UnderProcessing(o)
          [] b = "shop_dispatch" -> ScreenFilter("shop_dispatch", o) /\ ReadyForDispatch(o, "shop")
          [] b = "godown_dispatch" -> ScreenFilter("godown_dispatch", o) /\ ReadyForDispatch(o, "godown")
          [] b = "receiving" -> ScreenFilter("receiving", o) /\ AwaitingReceiving(o)}

(* The shop's "New Orders": everything not closed, and what was closed since the clean-up. *)
ShopBox == {k \in Listed : \/ OpenRow(job[k]) /\ job[k].type # "cancelled"
                           \/ Recent(job[k])}

-----------------------------------------------------------------------------
(* Saves: `saved` is what the form's filled-in fields make of the orders in S. *)

SaveFields(S, saved, admin) ==
    /\ S # {} /\ S \subseteq Live
    /\ \A k \in S : admin \/ ~(job[k].archived \/ ClosedForGood(job[k]))
    /\ job' = [k \in OrderKeys |-> IF k \in S THEN [saved[k] EXCEPT !.old = FALSE] ELSE job[k]]
    /\ UNCHANGED <<route, cleanup, reminder>>

AddOrder(k, t) ==
    /\ job[k] = Absent
    /\ job' = [job EXCEPT ![k] = [type |-> t, status |-> NoStatus, delivered |-> FALSE, received |-> FALSE,
                                  paid |-> FALSE, old |-> FALSE, archived |-> FALSE]]
    /\ UNCHANGED <<route, cleanup, reminder>>

UpdateShop(k, t) == SaveFields({k}, [job EXCEPT ![k].type = t], FALSE)
UpdateGodown(k, s) == SaveFields({k}, [job EXCEPT ![k].status = s], FALSE)
UpdateDispatch(k, s) == \/ SaveFields({k}, [job EXCEPT ![k] = [@ EXCEPT !.status = s, !.delivered = TRUE]], FALSE)
                        \/ SaveFields({k}, [job EXCEPT ![k].delivered = TRUE], FALSE)
UpdateReceiving(k) == \/ SaveFields({k}, [job EXCEPT ![k].received = TRUE], FALSE)
                      \/ SaveFields({k}, [job EXCEPT ![k].paid = TRUE], FALSE)
(* The bulk "Mark done": one transaction, and one refused order refuses them all. *)
BulkDispatch(S) == SaveFields(S, [k \in S |-> [job[k] EXCEPT !.delivered = TRUE]], FALSE)
BulkReceiving(S) == SaveFields(S, [k \in S |-> [job[k] EXCEPT !.received = TRUE, !.paid = TRUE]], FALSE)
(* PATCH /orders may also empty a field; an admin may change a closed or archived order. *)
PatchOrder(k, admin) ==
    \/ SaveFields({k}, [job EXCEPT ![k].status = NoStatus], admin)
    \/ SaveFields({k}, [job EXCEPT ![k].delivered = FALSE], admin)
    \/ SaveFields({k}, [job EXCEPT ![k].received = FALSE], admin)
    \/ SaveFields({k}, [job EXCEPT ![k].paid = FALSE], admin)
UpdateAdmin(k, t, s) == SaveFields({k}, [job EXCEPT ![k] = [@ EXCEPT !.type = t, !.status = s]], TRUE)

DeleteOrder(k) ==
    /\ k \in Live
    /\ job' = [job EXCEPT ![k] = Absent]
    /\ reminder' = [reminder EXCEPT ![k] = Absent]
    /\ UNCHANGED <<route, cleanup>>

(* archive_orders.py, for orders a week old. *)
ArchiveOrders ==
    /\ \E k \in Listed : Stage(job[k]) \in {"Closed", "Cancelled"} /\ job[k].old
    /\ job' = [k \in OrderKeys |-> IF k \in Listed /\ Stage(job[k]) \in {"Closed", "Cancelled"} /\ job[k].old
                                   THEN [job[k] EXCEPT !.archived = TRUE] ELSE job[k]]
    /\ UNCHANGED <<route, cleanup, reminder>>

ElevenPM ==
    /\ \E k \in Live : ~job[k].old
    /\ job' = [k \in OrderKeys |-> IF k \in Live THEN [job[k] EXCEPT !.old = TRUE] ELSE job[k]]
    /\ UNCHANGED <<route, cleanup, reminder>>

SetRoute(s, r) ==
    /\ route' = [route EXCEPT ![s] = r]
    /\ UNCHANGED <<job, cleanup, reminder>>
SetCleanup == cleanup' = ~cleanup /\ UNCHANGED <<job, route, reminder>>

-----------------------------------------------------------------------------
(* Reminders of an order's stage; at most one that is not acknowledged is kept here. *)
(* A plausible bug: whoever comes after the last stage is taken for the receiving. *)
StageRolesOrReceiving(stage) == IF stage = "AwaitingGodown" THEN {"godown"} ELSE {"receiving"}

StageRoles(stage) == CASE stage = "AwaitingGodown" -> {"godown"}
                       [] stage = "AwaitingDispatch" -> {"shop_dispatch", "godown_dispatch"}
                       [] stage = "AwaitingReceiving" -> {"receiving"}
                       [] OTHER -> {}

SendReminder(k) ==
    /\ k \in Listed /\ StageRoles(Stage(job[k])) # {}
    /\ reminder' = [reminder EXCEPT ![k] = Stage(job[k])]
    /\ UNCHANGED <<job, route, cleanup>>

(* It stops showing when the order has left the stage it was sent for, and shows again if it returns. *)
AckReminder(k) ==
    /\ reminder[k] # Absent
    /\ reminder' = [reminder EXCEPT ![k] = Absent]
    /\ UNCHANGED <<job, route, cleanup>>

ScreensNext ==
    \/ \E k \in OrderKeys, t \in Types : AddOrder(k, t) \/ UpdateShop(k, t)
    \/ \E k \in OrderKeys, s \in Statuses : UpdateGodown(k, s) \/ UpdateDispatch(k, s)
    \/ \E k \in OrderKeys : UpdateReceiving(k) \/ DeleteOrder(k) \/ SendReminder(k) \/ AckReminder(k)
    \/ \E k \in OrderKeys, admin \in BOOLEAN : PatchOrder(k, admin)
    \/ \E k \in OrderKeys, t \in Types, s \in Statuses : UpdateAdmin(k, t, s)
    \/ \E S \in SUBSET OrderKeys : BulkDispatch(S) \/ BulkReceiving(S)
    \/ ArchiveOrders \/ ElevenPM \/ SetCleanup
    \/ \E s \in Statuses, r \in Routes : SetRoute(s, r)

ScreensSpec == ScreensInit /\ [][ScreensNext]_screenVars

-----------------------------------------------------------------------------
\* The orders, the settings and the reminders have the shapes declared above.
ScreensTypeOK ==
    /\ job \in [OrderKeys -> Job \cup {Absent}]
    /\ route \in [Statuses -> Routes] /\ cleanup \in BOOLEAN
    /\ reminder \in [OrderKeys -> {Absent, "AwaitingGodown", "AwaitingDispatch", "AwaitingReceiving"}]

StillOpen == {k \in Listed : ~ClosedOnScreens(job[k])}
(* The rule of "Under Processing" says of the orders it removes that each "shows on the screen it *)
(* was sent to" (o2d_screens.py:319); a return that stays with the godown was sent nowhere, and it *)
(* is the one open order that no work list has. *)
KeptReturn(o) == Side(o) = "stay" /\ Subtracts(o) /\ ~o.delivered

(* Whatever the saves, the night and the settings did, an open order that has a delivery status *)
(* is on the work list of one screen and of no other, an open order without one is on the godown's, *)
(* the shop follows each of them (o2d_screens.py:276), and a closed order is nobody's work. *)
OneScreenAtATime ==
    \A k \in Listed :
        LET o == job[k] IN
        /\ k \in StillOpen => k \in ShopBox
        /\ k \in StillOpen /\ o.status = NoStatus => "godown" \in WorkLists(o)
        /\ k \in StillOpen /\ o.status # NoStatus /\ ~KeptReturn(o) => Cardinality(WorkLists(o)) = 1
        /\ ClosedForGood(o) => WorkLists(o) = {}
=============================================================================
