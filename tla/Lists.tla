-------------------------------- MODULE Lists --------------------------------
(***************************************************************************)
(* The values of a dropdown list, here the delivery statuses, while orders *)
(* refer to them: added, renamed and deleted in Setup (app/admin.py),      *)
(* renamed with care and merged in Reconcile (app/reconcile.py).  Some     *)
(* names have a meaning of their own in the order screens.                 *)
(*                                                                         *)
(* A merge moves the orders, which locks their rows, and deletes the       *)
(* merged values at its end; other requests commit in between.             *)
(***************************************************************************)
EXTENDS FiniteSets

CONSTANTS
    Keys,           \* rows of dim_delivery_status
    PlainNames,     \* names without a meaning; names are compared without case and spaces
    Orders,
    Gone            \* no such row; also: no status, and no merge under way

ASSUME GoneAssumption == Gone \notin Keys \cup PlainNames \cup {"shop", "cancelled"}

Names == PlainNames \cup {"shop", "cancelled"}
Protected == {"shop", "cancelled"}

VARIABLES
    value,      \* the name of each row, Gone if there is none
    order,      \* the status of each order and its is_cancelled
    merging,    \* the merge under way
    chosen,     \* history: the value last chosen for an order
    into        \* history: the value each value now stands for

listVars == <<value, order, merging, chosen, into>>

Rows == {k \in Keys : value[k] # Gone}
UsedBy(k) == {o \in Orders : order[o].status = k}
MergeFree == merging = Gone
Locked(o) == merging # Gone /\ o \in merging.moved

ListsInit ==
    /\ value \in [Keys -> {Gone} \cup Names]
    /\ \A j, k \in Rows : value[j] = value[k] => j = k
    /\ Protected \subseteq {value[k] : k \in Rows}
    /\ Cardinality(Rows) = 3
    /\ order = [o \in Orders |-> [status |-> Gone, cancelled |-> FALSE]]
    /\ merging = Gone
    /\ chosen = [o \in Orders |-> Gone]
    /\ into = [k \in Keys |-> k]

NameFree(k, name) == \A j \in Rows \ {k} : value[j] # name

-----------------------------------------------------------------------------
(* is_cancelled is worked out from the name in the statement that sets the status. *)
SetStatus(o, k) ==
    /\ ~Locked(o)
    /\ k \in Rows /\ order[o].status # k
    /\ order' = [order EXCEPT ![o] = [status |-> k, cancelled |-> value[k] = "cancelled"]]
    /\ chosen' = [chosen EXCEPT ![o] = k]
    /\ UNCHANGED <<value, merging, into>>

(* admin_add_lookup; a key that was merged away is not used again. *)
AddLookup(k, name) ==
    /\ k \notin Rows /\ into[k] = k
    /\ \A o \in Orders : chosen[o] # k
    /\ NameFree(k, name)
    /\ value' = [value EXCEPT ![k] = name]
    /\ UNCHANGED <<order, merging, chosen, into>>

(* admin_rename_lookup: the unique index is all that is asked. *)
RenameLookup(k, name) ==
    /\ k \in Rows /\ value[k] # name
    /\ NameFree(k, name)
    /\ value' = [value EXCEPT ![k] = name]
    /\ UNCHANGED <<order, merging, chosen, into>>

(* rename of Reconcile: under lock 7002, and neither from nor to a name with a meaning. *)
Rename(k, name) ==
    /\ MergeFree
    /\ {value[k], name} \cap Protected = {}
    /\ RenameLookup(k, name)

(* admin_delete_lookup counts the orders first; the foreign key has the last word, and orders *)
(* being moved to the value hold it. *)
DeleteLookup(k) ==
    /\ k \in Rows /\ UsedBy(k) = {}
    /\ merging # Gone => merging.moved = {} \/ merging.target # k
    /\ value' = [value EXCEPT ![k] = Gone]
    /\ UNCHANGED <<order, merging, chosen, into>>

-----------------------------------------------------------------------------
(* merge: the checks, and the UPDATE of every reference. *)
BeginMerge(target, sources) ==
    /\ MergeFree
    /\ {target} \cup sources \subseteq Rows
    /\ target \notin sources /\ sources # {}
    /\ \A k \in sources : value[k] \notin Protected
    /\ merging' = [target |-> target, sources |-> sources, cancels |-> value[target] = "cancelled",
                   moved |-> UNION {UsedBy(k) : k \in sources}]
    /\ UNCHANGED <<value, order, chosen, into>>

Stragglers == (UNION {UsedBy(k) : k \in merging.sources}) \ merging.moved

(* A plausible bug: orders that are cancelled are not moved. *)
MovedUnlessCancelled(o) == o \in merging.moved /\ ~order[o].cancelled

MovedByMerge(o) == o \in merging.moved

(* The DELETE of the merged values; an order that took one meanwhile makes it fail. *)
FinishMerge ==
    /\ merging # Gone
    /\ Stragglers = {}
    /\ LET t == merging.target IN
        /\ order' = [o \in Orders |->
                        LET status == IF MovedByMerge(o) THEN t ELSE order[o].status
                        IN [status |-> status, cancelled |-> order[o].cancelled \/ (merging.cancels /\ status = t)]]
        /\ into' = [k \in Keys |-> IF into[k] \in merging.sources THEN t ELSE into[k]]
        /\ value' = [k \in Keys |-> IF k \in merging.sources THEN Gone ELSE value[k]]
    /\ merging' = Gone
    /\ UNCHANGED chosen

(* The foreign key refuses, or the request ends: nothing of it stays. *)
MergeFails ==
    /\ merging # Gone
    /\ merging' = Gone
    /\ UNCHANGED <<value, order, chosen, into>>

ListsNext ==
    \/ \E o \in Orders, k \in Keys : SetStatus(o, k)
    \/ \E k \in Keys, name \in Names : AddLookup(k, name) \/ RenameLookup(k, name) \/ Rename(k, name)
    \/ \E k \in Keys : DeleteLookup(k)
    \/ \E k \in Keys, sources \in SUBSET Keys : BeginMerge(k, sources)
    \/ FinishMerge \/ MergeFails

ListsSpec == ListsInit /\ [][ListsNext]_listVars

-----------------------------------------------------------------------------
\* The rows have the shapes declared above.
ListsTypeOK ==
    /\ value \in [Keys -> Names \cup {Gone}]
    /\ order \in [Orders -> [status : Keys \cup {Gone}, cancelled : BOOLEAN]]
    /\ merging # Gone => merging.target \in Keys /\ merging.sources \subseteq Keys /\ merging.moved \subseteq Orders
    /\ chosen \in [Orders -> Keys \cup {Gone}]
    /\ into \in [Keys -> Keys]

\* "orders move to the target, the others are deleted" (merge): every order has the value that was
\* chosen for it, or the one that value was merged into, however merges, renames and edits of
\* orders overlap - no order is left with a deleted value, and no edit made meanwhile is lost.
OrdersFollowTheMerges ==
    \A o \in Orders :
        /\ order[o].status = IF chosen[o] = Gone THEN Gone ELSE into[chosen[o]]
        /\ order[o].status # Gone => order[o].status \in Rows
=============================================================================
