----------------------------- MODULE Employees -----------------------------
(***************************************************************************)
(* The attendance employees: kept in step with the portal members          *)
(* (attendance.sync_members), edited by the owner, and tagged to the work  *)
(* places they may mark attendance from.                                   *)
(*                                                                         *)
(* Places are deleted and merged in Setup while employees are tagged to    *)
(* them; nothing locks an employee's tags as a whole.  A save deletes the  *)
(* rows it sees and inserts its own, a merge moves the rows it sees and    *)
(* then deletes the place, and a tag of a deleted place goes with it.      *)
(***************************************************************************)
EXTENDS Naturals, FiniteSets

CONSTANTS
    People,         \* user keys of members
    EmployeeKeys,
    NamesOfPeople,  \* display names; not unique among members
    Places,
    Owners,         \* requests that save an employee's places
    Nobody,         \* no member, no row
    Elsewhere       \* a position inside no work place's radius

VARIABLES
    person,         \* the members: name and whether the sync takes them, or Nobody
    employee,       \* dim_att_employee, Nobody if there is no row
    place,          \* the work places
    tag,            \* att_employee_location
    deleting,       \* the place a delete in Setup has found unused
    saving,         \* what each save of an employee's places is in the middle of
    merging,        \* the merge of a place that has the lock, with the employees whose tag it moves
    chosen,         \* history: the tags the last save left, under the names later merges gave the places
    lost,           \* history: employees a tag of whom went with a place that was merged meanwhile
    synced          \* history: the last step was a sync that went through

PersonRow == [name : NamesOfPeople, eligible : BOOLEAN]
EmployeeRow == [name : NamesOfPeople, active : BOOLEAN, user : People \cup {Nobody}]

NoSave == [op |-> "idle"]
NoMerge == [op |-> "idle"]

ASSUME NobodyAssumption == Nobody \notin People \cup Places \cup PersonRow \cup EmployeeRow

listVars == <<person, employee>>
placeVars == <<place, tag, deleting, saving, merging, chosen, lost>>
employeeVars == <<listVars, placeVars, synced>>

OnList == {e \in EmployeeKeys : employee[e] # Nobody}
Portal == {u \in People : person[u] # Nobody}
Eligible == {u \in Portal : person[u].eligible}
LinkedTo(u) == {e \in OnList : employee[e].user = u}
Called(n) == {e \in OnList : employee[e].name = n}

EmployeesInit ==
    /\ person = [u \in People |-> Nobody]
    /\ employee = [e \in EmployeeKeys |-> Nobody]
    /\ place = Places
    /\ tag = [e \in EmployeeKeys |-> {}]
    /\ deleting = Nobody
    /\ saving = [w \in Owners |-> NoSave]
    /\ merging = NoMerge
    /\ chosen = [e \in EmployeeKeys |-> {}]
    /\ lost = {}
    /\ synced = FALSE

-----------------------------------------------------------------------------
(* The members, from Setup > Users (see Members for the rules there).  The row of a member made *)
(* admin, which the sync leaves alone, is not told apart. *)
WriteMember(u, n, eligible) ==
    /\ person' = [person EXCEPT ![u] = [name |-> n, eligible |-> eligible]]
    /\ person' # person
    /\ synced' = FALSE
    /\ UNCHANGED <<employee, placeVars>>
RemoveMember(u) ==
    /\ u \in Portal
    /\ person' = [person EXCEPT ![u] = Nobody]
    /\ employee' = [e \in EmployeeKeys |-> IF e \in LinkedTo(u) THEN [employee[e] EXCEPT !.user = Nobody] ELSE employee[e]]
    /\ synced' = FALSE
    /\ UNCHANGED placeVars

(* The statements of sync_members, each on what the one before left. *)
Linkable(emp, e, u) ==
    /\ emp[e] # Nobody /\ emp[e].user = Nobody
    /\ u \in Eligible /\ person[u].name = emp[e].name
    /\ \A x \in EmployeeKeys : emp[x] # Nobody => emp[x].user # u
LinkStep(emp) ==      \* whichever member of that name the database meets
    {new \in [EmployeeKeys -> {Nobody} \cup People] :
        \A e \in EmployeeKeys :
            IF \E u \in People : Linkable(emp, e, u) THEN Linkable(emp, e, new[e]) ELSE new[e] = Nobody}
WithUsers(emp, new) == [e \in EmployeeKeys |-> IF new[e] = Nobody THEN emp[e] ELSE [emp[e] EXCEPT !.user = new[e]]]

Unlisted(emp) == {u \in Eligible : \A x \in EmployeeKeys : emp[x] # Nobody =>
                                        emp[x].user # u /\ emp[x].name # person[u].name}
(* One new row per name, for one of the members of that name. *)
Added(emp, after) ==
    LET new == {e \in EmployeeKeys : emp[e] = Nobody /\ after[e] # Nobody} IN
    /\ \A e \in EmployeeKeys \ new : after[e] = emp[e]
    /\ \A e \in new : \E u \in Unlisted(emp) : after[e] = [name |-> person[u].name, active |-> TRUE, user |-> u]
    /\ \A u \in Unlisted(emp) : \E e \in new : {x \in new : after[x].name = person[u].name} = {e}

Renamable(emp) == {e \in EmployeeKeys :
    /\ emp[e] # Nobody /\ emp[e].user # Nobody
    /\ emp[e].name # person[emp[e].user].name
    /\ \A x \in EmployeeKeys \ {e} : emp[x] # Nobody => emp[x].name # person[emp[e].user].name}
Renamed(emp) == [e \in EmployeeKeys |-> IF e \in Renamable(emp) THEN [emp[e] EXCEPT !.name = person[emp[e].user].name]
                                        ELSE emp[e]]
NamesClash(emp) == \E e, x \in EmployeeKeys : e # x /\ emp[e] # Nobody /\ emp[x] # Nobody /\ emp[e].name = emp[x].name
Retired(emp) == [e \in EmployeeKeys |->
    IF emp[e] # Nobody /\ emp[e].user # Nobody /\ ~person[emp[e].user].eligible THEN [emp[e] EXCEPT !.active = FALSE]
    ELSE emp[e]]

NewRows == [name : NamesOfPeople, active : {TRUE}, user : People]
SyncMembers ==
    \E new \in LinkStep(employee) :
        LET linked == WithUsers(employee, new)
            free == {e \in EmployeeKeys : linked[e] = Nobody} IN
        \E rows \in [free -> {Nobody} \cup NewRows] :
            LET after == [e \in EmployeeKeys |-> IF e \in free THEN rows[e] ELSE linked[e]] IN
            /\ Added(linked, after)
            /\ IF NamesClash(Renamed(after))      \* two members now share a name: the unique index refuses it all
               THEN UNCHANGED employee /\ synced' = FALSE
               ELSE employee' = Retired(Renamed(after)) /\ synced' = (employee' = employee)
            /\ UNCHANGED <<person, placeVars>>

-----------------------------------------------------------------------------
(* The owner's page. *)
AddEmployee(e, n) ==
    /\ IF Called(n) # {}
       THEN e \in Called(n) /\ ~employee[e].active /\ employee' = [employee EXCEPT ![e].active = TRUE]
       ELSE employee[e] = Nobody /\ employee' = [employee EXCEPT ![e] = [name |-> n, active |-> TRUE, user |-> Nobody]]
    /\ synced' = FALSE
    /\ UNCHANGED <<person, placeVars>>
DeleteEmployee(e) ==
    /\ e \in OnList /\ employee[e].active
    /\ employee' = [employee EXCEPT ![e].active = FALSE]
    /\ synced' = FALSE
    /\ UNCHANGED <<person, placeVars>>
(* set_employee_places: the rows the save sees are deleted, ... *)
BeginSetPlaces(w, e, S) ==
    /\ saving[w] = NoSave
    /\ e \in OnList /\ S \subseteq place
    /\ saving' = [saving EXCEPT ![w] = [op |-> "save", of |-> e, to |-> S, taken |-> tag[e]]]
    /\ synced' = FALSE
    /\ UNCHANGED <<listVars, place, tag, deleting, merging, chosen, lost>>

(* ... and the new ones inserted, each of a place that is there, with no such row there yet; *)
(* other requests find the rows that were taken gone.                                        *)
FinishSetPlaces(w) ==
    /\ saving[w].op = "save"
    /\ LET e == saving[w].of
           left == tag[e] \ saving[w].taken
           S == saving[w].to
       IN IF S \subseteq place /\ S \cap left = {}
          THEN /\ tag' = [tag EXCEPT ![e] = left \cup S]
               /\ chosen' = [chosen EXCEPT ![e] = left \cup S]
               /\ lost' = lost \ {e}
               /\ saving' = [v \in Owners |-> IF v = w THEN NoSave
                                             ELSE IF saving[v].op = "save" /\ saving[v].of = e
                                             THEN [saving[v] EXCEPT !.taken = @ \ saving[w].taken]
                                             ELSE saving[v]]
               /\ merging' = IF merging.op = "merge" /\ merging.from \in saving[w].taken
                             THEN [merging EXCEPT !.moved = @ \ {e}] ELSE merging
          ELSE saving' = [saving EXCEPT ![w] = NoSave] /\ UNCHANGED <<tag, merging, chosen, lost>>
    /\ synced' = FALSE
    /\ UNCHANGED <<listVars, place, deleting>>

(* Setup: an employee deleted with all records; a save of the employee's places then fails, *)
DeleteWithRecords(e) ==
    /\ e \in OnList
    /\ employee' = [employee EXCEPT ![e] = Nobody]
    /\ tag' = [tag EXCEPT ![e] = {}]
    /\ chosen' = [chosen EXCEPT ![e] = {}]
    /\ lost' = lost \ {e}
    /\ saving' = [w \in Owners |-> IF saving[w].op = "save" /\ saving[w].of = e THEN NoSave ELSE saving[w]]
    /\ merging' = IF merging.op = "merge" THEN [merging EXCEPT !.moved = @ \ {e}] ELSE merging
    /\ synced' = FALSE
    /\ UNCHANGED <<person, place, deleting>>

(* a place counted as unused and then deleted, with the tags made in between, *)
BeginDeletePlace(p) ==
    /\ deleting = Nobody /\ p \in place
    /\ \A e \in EmployeeKeys : p \notin tag[e]
    /\ deleting' = p /\ synced' = FALSE
    /\ UNCHANGED <<listVars, place, tag, saving, merging, chosen, lost>>
FinishDeletePlace ==
    /\ deleting # Nobody
    /\ place' = place \ {deleting}
    /\ tag' = [e \in EmployeeKeys |-> tag[e] \ {deleting}]
    /\ merging' = IF merging.op = "merge" /\ merging.from = deleting THEN [merging EXCEPT !.moved = {}] ELSE merging
    /\ deleting' = Nobody /\ synced' = FALSE
    /\ UNCHANGED <<listVars, saving, chosen, lost>>

(* and a place merged into another, one merge at a time: the tags there are when it begins are *)
(* moved, unless they are deleted first, ...                                                   *)
BeginMergePlaces(p, q) ==
    /\ merging = NoMerge
    /\ p \in place /\ q \in place /\ p # q
    /\ merging' = [op |-> "merge", from |-> p, to |-> q, moved |-> {e \in EmployeeKeys : p \in tag[e]}]
    /\ synced' = FALSE
    /\ UNCHANGED <<listVars, place, tag, deleting, saving, chosen, lost>>

TagsDropped(S, p, q) == S \ {p}
Into(S, p, q) == IF p \in S THEN (S \ {p}) \cup {q} ELSE S

(* ... which fails for an employee tagged to both, or a place that is gone, *)
PlacesStay ==
    /\ \E e \in merging.moved : merging.to \in tag[e] \cup (Places \ place)
    /\ UNCHANGED <<place, tag, saving, chosen, lost>>

(* ... and then the place is deleted, with the tags that have been made since. *)
PlacesMerged ==
    LET p == merging.from
        q == merging.to
        after(e, S) == IF e \in merging.moved THEN Into(S, p, q) ELSE S \ {p}
    IN /\ \A e \in merging.moved : q \in place \ tag[e]
       /\ place' = place \ {p}
       /\ tag' = [e \in EmployeeKeys |-> after(e, tag[e])]
       /\ saving' = [w \in Owners |-> IF saving[w].op = "save"
                                      THEN [saving[w] EXCEPT !.taken = after(saving[w].of, @)]
                                      ELSE saving[w]]
       /\ chosen' = [e \in EmployeeKeys |-> IF p \in place /\ p \in chosen[e]
                                            THEN (chosen[e] \ {p}) \cup {q} ELSE chosen[e]]
       /\ lost' = lost \cup {e \in EmployeeKeys \ merging.moved : p \in tag[e]}

FinishMergePlaces ==
    /\ merging # NoMerge
    /\ PlacesStay \/ PlacesMerged
    /\ merging' = NoMerge
    /\ synced' = FALSE
    /\ UNCHANGED <<listVars, deleting>>

(* check_location: whether an employee standing at `at` may mark attendance. *)
MayMark(e, at) ==
    /\ employee[e] # Nobody /\ employee[e].active
    /\ IF place = {} THEN tag[e] = {}
       ELSE \/ at \in place /\ (tag[e] = {} \/ at \in tag[e])
            \/ at \notin place /\ tag[e] = {}

(* The list and its sync, the rows, and the places with their tags. *)
ListNext ==
    \/ \E u \in People, n \in NamesOfPeople, eligible \in BOOLEAN : WriteMember(u, n, eligible)
    \/ \E u \in People : RemoveMember(u)
    \/ SyncMembers
    \/ \E e \in EmployeeKeys : DeleteEmployee(e)

RowNext ==
    \/ \E e \in EmployeeKeys, n \in NamesOfPeople : AddEmployee(e, n)
    \/ \E e \in EmployeeKeys : DeleteWithRecords(e)

PlacesNext ==
    \/ \E w \in Owners, e \in EmployeeKeys, S \in SUBSET Places : BeginSetPlaces(w, e, S)
    \/ \E w \in Owners : FinishSetPlaces(w)
    \/ \E p \in Places : BeginDeletePlace(p)
    \/ FinishDeletePlace
    \/ \E p, q \in Places : BeginMergePlaces(p, q)
    \/ FinishMergePlaces

EmployeesNext == ListNext \/ RowNext \/ PlacesNext

EmployeesSpec == EmployeesInit /\ [][EmployeesNext]_employeeVars

-----------------------------------------------------------------------------
\* The rows have the shapes declared above.
EmployeesTypeOK ==
    /\ person \in [People -> {Nobody} \cup PersonRow]
    /\ employee \in [EmployeeKeys -> {Nobody} \cup EmployeeRow]
    /\ place \subseteq Places /\ tag \in [EmployeeKeys -> SUBSET Places]
    /\ deleting \in Places \cup {Nobody}
    /\ saving \in [Owners -> {NoSave} \cup [op : {"save"}, of : EmployeeKeys, to : SUBSET Places, taken : SUBSET Places]]
    /\ merging \in {NoMerge} \cup [op : {"merge"}, from : Places, to : Places, moved : SUBSET EmployeeKeys]
    /\ lost \subseteq EmployeeKeys
    /\ chosen \in [EmployeeKeys -> SUBSET Places]
    /\ synced \in BOOLEAN

\* While one of the places an employee was tagged to exists, under the name a merge gave it, nothing
\* done to the places lets the employee mark from another one: an empty list of tags would mean
\* "anywhere" (check_location).  The exception is a tag saved while the merge of its place was under
\* way, which goes with the place.  And when the sync finds nothing to change, each member is on the
\* list, under a row of the member's or of the member's name, no member has two rows, and a disabled
\* member's row is inactive.
EmployeesInOrder ==
    /\ \A e \in OnList \ lost : chosen[e] \cap place # {} =>
          \A at \in Places \cup {Elsewhere} : MayMark(e, at) => at \in chosen[e]
    /\ synced =>
          /\ \A u \in Eligible : LinkedTo(u) # {} \/ Called(person[u].name) # {}
          /\ \A u \in People : Cardinality(LinkedTo(u)) <= 1
          /\ \A e \in OnList : employee[e].user # Nobody /\ ~person[employee[e].user].eligible => ~employee[e].active
=============================================================================
