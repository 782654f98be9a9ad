---------------------------- MODULE OfficeProofs ----------------------------
(***************************************************************************)
(* The office's books - employees, the jobs and the money of VT Decor,     *)
(* delegation and regular expenses: what each keeps true for every value   *)
(* of its constants, and the shapes of the run that has them side by side. *)
(***************************************************************************)
EXTENDS MCOffice, FiniteSetTheorems, WellFoundedInduction, TLAPS

-----------------------------------------------------------------------------
(***************************************************************************)
(* The employees and their places (Employees): the list stays in step with *)
(* the members, and a tag stays where the owner put it.                    *)
(***************************************************************************)

List == [EmployeeKeys -> {Nobody} \cup EmployeeRow]

(* The name of an employee and the member behind a row are on one row only. *)
NamesDiffer(emp) ==
    \A e, x \in EmployeeKeys : emp[e] # Nobody /\ emp[x] # Nobody /\ emp[e].name = emp[x].name => e = x
UsersDiffer(emp) ==
    \A e, x \in EmployeeKeys :
        emp[e] # Nobody /\ emp[x] # Nobody /\ emp[e].user # Nobody /\ emp[e].user = emp[x].user => e = x

(* A row's member is one. *)
LinksLive(emp, members) ==
    \A e \in EmployeeKeys : emp[e] # Nobody /\ emp[e].user # Nobody => members[emp[e].user] # Nobody

(* Tags are of places there are; of the places the owner chose, an employee is tagged to those *)
(* that are left, unless one was lost.                                                         *)
TagsStand ==
    /\ \A e \in EmployeeKeys : tag[e] \subseteq place
    /\ \A e \in EmployeeKeys \ lost : tag[e] = chosen[e] \cap place

(* What a merge moves is there to be moved. *)
MovedAreTagged ==
    merging.op = "merge" => merging.from # merging.to /\ \A e \in merging.moved : merging.from \in tag[e]

(* What a sync that changed nothing has found. *)
Found ==
    /\ \A u \in Eligible : LinkedTo(u) # {} \/ Called(person[u].name) # {}
    /\ \A e \in OnList : employee[e].user # Nobody /\ ~person[employee[e].user].eligible => ~employee[e].active

EmployeesInv ==
    /\ EmployeesTypeOK /\ TagsStand /\ MovedAreTagged
    /\ NamesDiffer(employee) /\ UsersDiffer(employee) /\ LinksLive(employee, person)
    /\ synced => Found

LEMMA RowsAreRows ==
    /\ Nobody \notin People /\ Nobody \notin Places
    /\ \A r \in PersonRow : r # Nobody /\ r.name \in NamesOfPeople
    /\ \A r \in EmployeeRow : /\ r # Nobody /\ r.name \in NamesOfPeople /\ r.active \in BOOLEAN
                              /\ r.user \in People \cup {Nobody}
  BY NobodyAssumption DEF PersonRow, EmployeeRow

LEMMA EmployeesStart == EmployeesInit => EmployeesInv
  <1> SUFFICES ASSUME EmployeesInit PROVE EmployeesInv
    OBVIOUS
  <1>1. EmployeesTypeOK
    BY DEF EmployeesInit, EmployeesTypeOK
  <1>2. TagsStand /\ MovedAreTagged /\ NamesDiffer(employee) /\ UsersDiffer(employee) /\ LinksLive(employee, person)
    BY DEF EmployeesInit, NoMerge, TagsStand, MovedAreTagged, NamesDiffer, UsersDiffer, LinksLive
  <1> QED
    BY <1>1, <1>2 DEF EmployeesInv, EmployeesInit

-----------------------------------------------------------------------------
(* The sync, statement by statement. *)

(* What a row may become of: the same row of a list, but for the member behind it. *)
LEMMA LinkedRows ==
    ASSUME EmployeesInv, NEW new \in LinkStep(employee), NEW linked, linked = WithUsers(employee, new)
    PROVE  /\ linked \in List
           /\ \A e \in EmployeeKeys : linked[e] = Nobody <=> employee[e] = Nobody
           /\ UsersDiffer(linked) /\ LinksLive(linked, person)
  <1> USE DEF EmployeesInv
  <1>0. employee \in List /\ person \in [People -> {Nobody} \cup PersonRow]
    BY DEF EmployeesTypeOK, List
  <1>1. ASSUME NEW e \in EmployeeKeys, new[e] # Nobody
        PROVE  /\ new[e] \in People /\ Linkable(employee, e, new[e])
               /\ employee[e] \in EmployeeRow
    BY <1>0, <1>1 DEF LinkStep, Linkable, List
  <1>2. ASSUME NEW e \in EmployeeKeys
        PROVE  /\ new[e] = Nobody => linked[e] = employee[e]
               /\ new[e] # Nobody => linked[e] \in EmployeeRow /\ linked[e].user = new[e]
    <2>1. linked[e] = IF new[e] = Nobody THEN employee[e] ELSE [employee[e] EXCEPT !.user = new[e]]
      BY DEF WithUsers
    <2> QED
      BY <1>1, <2>1, RowsAreRows DEF EmployeeRow
  <1>3. linked = [e \in EmployeeKeys |-> linked[e]]
    BY DEF WithUsers
  <1>4. linked \in List
    BY <1>0, <1>2, <1>3 DEF List
  <1>5. \A e \in EmployeeKeys : linked[e] = Nobody <=> employee[e] = Nobody
    BY <1>0, <1>1, <1>2, RowsAreRows DEF List
  <1>6. UsersDiffer(linked)
    <2> SUFFICES ASSUME NEW e \in EmployeeKeys, NEW x \in EmployeeKeys, linked[e] # Nobody, linked[x] # Nobody,
                        linked[e].user # Nobody, linked[e].user = linked[x].user
                 PROVE  e = x
      BY DEF UsersDiffer
    <2>1. CASE new[e] = Nobody /\ new[x] = Nobody
      BY <2>1, <1>2 DEF UsersDiffer
    <2>2. CASE new[e] # Nobody /\ new[x] = Nobody
      BY <2>2, <1>1, <1>2 DEF Linkable
    <2>3. CASE new[e] = Nobody /\ new[x] # Nobody
      BY <2>3, <1>1, <1>2 DEF Linkable
    <2>4. CASE new[e] # Nobody /\ new[x] # Nobody
      <3>1. person[new[e]].name = employee[e].name /\ person[new[x]].name = employee[x].name
        BY <2>4, <1>1 DEF Linkable
      <3> QED
        BY <2>4, <3>1, <1>1, <1>2 DEF NamesDiffer, Linkable
    <2> QED
      BY <2>1, <2>2, <2>3, <2>4
  <1>7. LinksLive(linked, person)
    <2> SUFFICES ASSUME NEW e \in EmployeeKeys, linked[e] # Nobody, linked[e].user # Nobody
                 PROVE  person[linked[e].user] # Nobody
      BY DEF LinksLive
    <2>1. CASE new[e] = Nobody
      BY <2>1, <1>2 DEF LinksLive
    <2>2. CASE new[e] # Nobody
      BY <2>2, <1>1, <1>2 DEF Linkable, Eligible, Portal
    <2> QED
      BY <2>1, <2>2
  <1> QED
    BY <1>4, <1>5, <1>6, <1>7

LEMMA AddedRows ==
    ASSUME EmployeesTypeOK, NEW linked \in List, UsersDiffer(linked), LinksLive(linked, person),
           NEW after, after = [e \in EmployeeKeys |-> after[e]],
           \A e \in EmployeeKeys : linked[e] = Nobody => after[e] \in {Nobody} \cup NewRows,
           Added(linked, after)
    PROVE  /\ after \in List
           /\ \A e \in EmployeeKeys : linked[e] # Nobody => after[e] = linked[e]
           /\ \A u \in Unlisted(linked) : \E e \in EmployeeKeys : linked[e] = Nobody /\ after[e] # Nobody
           /\ UsersDiffer(after) /\ LinksLive(after, person)
  <1> DEFINE new == {e \in EmployeeKeys : linked[e] = Nobody /\ after[e] # Nobody}
  <1>1. /\ \A e \in EmployeeKeys \ new : after[e] = linked[e]
        /\ \A e \in new : \E u \in Unlisted(linked) : after[e] = [name |-> person[u].name, active |-> TRUE, user |-> u]
        /\ \A u \in Unlisted(linked) : \E e \in new : {x \in new : after[x].name = person[u].name} = {e}
    BY DEF Added
  <1>2. \A e \in EmployeeKeys : linked[e] # Nobody => after[e] = linked[e]
    BY <1>1
  <1>3. NewRows \subseteq EmployeeRow
    BY DEF NewRows, EmployeeRow
  <1>4. after \in List
    BY <1>2, <1>3 DEF List
  <1>5. \A e \in new : /\ after[e].user \in Unlisted(linked)
                       /\ after[e].name = person[after[e].user].name
    BY <1>1
  <1>6. \A u \in Unlisted(linked) : /\ person[u] # Nobody
                                    /\ \A x \in EmployeeKeys : linked[x] # Nobody => linked[x].user # u
    BY DEF Unlisted, Eligible, Portal
  <1>7. UsersDiffer(after)
    <2> SUFFICES ASSUME NEW e \in EmployeeKeys, NEW x \in EmployeeKeys, after[e] # Nobody, after[x] # Nobody,
                        after[e].user # Nobody, after[e].user = after[x].user
                 PROVE  e = x
      BY DEF UsersDiffer
    <2>1. CASE e \notin new /\ x \notin new
      BY <2>1, <1>2 DEF UsersDiffer
    <2>2. CASE e \in new /\ x \notin new
      BY <2>2, <1>2, <1>5, <1>6
    <2>3. CASE e \notin new /\ x \in new
      BY <2>3, <1>2, <1>5, <1>6
    <2>4. CASE e \in new /\ x \in new
      <3> DEFINE u == after[e].user
      <3>1. u \in Unlisted(linked) /\ after[e].name = person[u].name /\ after[x].name = person[u].name
        BY <2>4, <1>5
      <3>2. PICK y \in new : {z \in new : after[z].name = person[u].name} = {y}
        BY <3>1, <1>1
      <3> QED
        BY <2>4, <3>1, <3>2
    <2> QED
      BY <2>1, <2>2, <2>3, <2>4
  <1>8. LinksLive(after, person)
    <2> SUFFICES ASSUME NEW e \in EmployeeKeys, after[e] # Nobody, after[e].user # Nobody
                 PROVE  person[after[e].user] # Nobody
      BY DEF LinksLive
    <2>1. CASE e \in new
      BY <2>1, <1>5, <1>6
    <2>2. CASE e \notin new
      BY <2>2, <1>2 DEF LinksLive
    <2> QED
      BY <2>1, <2>2
  <1>9. \A u \in Unlisted(linked) : \E e \in EmployeeKeys : linked[e] = Nobody /\ after[e] # Nobody
    BY <1>1
  <1> QED
    BY <1>2, <1>4, <1>7, <1>8, <1>9

(* Renaming and retiring leave the member behind a row; retiring leaves the name. *)
LEMMA RenamedRows ==
    ASSUME EmployeesTypeOK, NEW emp \in List, LinksLive(emp, person), NEW renamed, renamed = Renamed(emp)
    PROVE  /\ renamed \in List
           /\ \A e \in EmployeeKeys : /\ renamed[e] = Nobody <=> emp[e] = Nobody
                                      /\ emp[e] # Nobody => renamed[e].user = emp[e].user
  <1>1. renamed = [e \in EmployeeKeys |-> renamed[e]]
    BY DEF Renamed
  <1>2. ASSUME NEW e \in EmployeeKeys
        PROVE  /\ renamed[e] \in {Nobody} \cup EmployeeRow
               /\ renamed[e] = Nobody <=> emp[e] = Nobody
               /\ emp[e] # Nobody => renamed[e].user = emp[e].user
    <2>1. renamed[e] = IF e \in Renamable(emp) THEN [emp[e] EXCEPT !.name = person[emp[e].user].name] ELSE emp[e]
      BY DEF Renamed
    <2>2. CASE e \in Renamable(emp)
      <3>1. emp[e] \in EmployeeRow /\ emp[e].user \in People /\ person[emp[e].user] \in PersonRow
        BY <2>2, RowsAreRows DEF Renamable, List, LinksLive, EmployeesTypeOK
      <3>2. person[emp[e].user].name \in NamesOfPeople
        BY <3>1, RowsAreRows
      <3>3. renamed[e] \in EmployeeRow /\ renamed[e].user = emp[e].user
        BY <2>1, <2>2, <3>1, <3>2 DEF EmployeeRow
      <3> QED
        BY <3>1, <3>3, RowsAreRows
    <2>3. CASE e \notin Renamable(emp)
      BY <2>1, <2>3 DEF List
    <2> QED
      BY <2>2, <2>3
  <1> QED
    BY <1>1, <1>2 DEF List

LEMMA RetiredRows ==
    ASSUME NEW emp \in List, NEW retired, retired = Retired(emp)
    PROVE  /\ retired \in List
           /\ \A e \in EmployeeKeys :
                 /\ retired[e] = Nobody <=> emp[e] = Nobody
                 /\ emp[e] # Nobody => /\ retired[e].user = emp[e].user /\ retired[e].name = emp[e].name
                                       /\ emp[e].user # Nobody /\ ~person[emp[e].user].eligible => ~retired[e].active
  <1>1. retired = [e \in EmployeeKeys |-> retired[e]]
    BY DEF Retired
  <1>2. ASSUME NEW e \in EmployeeKeys
        PROVE  /\ retired[e] \in {Nobody} \cup EmployeeRow
               /\ retired[e] = Nobody <=> emp[e] = Nobody
               /\ emp[e] # Nobody => /\ retired[e].user = emp[e].user /\ retired[e].name = emp[e].name
                                     /\ emp[e].user # Nobody /\ ~person[emp[e].user].eligible => ~retired[e].active
    <2>1. retired[e] = IF emp[e] # Nobody /\ emp[e].user # Nobody /\ ~person[emp[e].user].eligible
                       THEN [emp[e] EXCEPT !.active = FALSE] ELSE emp[e]
      BY DEF Retired
    <2>2. emp[e] # Nobody => emp[e] \in EmployeeRow
      BY DEF List
    <2>3. CASE emp[e] # Nobody /\ emp[e].user # Nobody /\ ~person[emp[e].user].eligible
      <3>1. /\ retired[e] \in EmployeeRow /\ retired[e].active = FALSE
            /\ retired[e].user = emp[e].user /\ retired[e].name = emp[e].name
        BY <2>1, <2>2, <2>3 DEF EmployeeRow
      <3> QED
        BY <2>3, <3>1, RowsAreRows
    <2>4. CASE ~(emp[e] # Nobody /\ emp[e].user # Nobody /\ ~person[emp[e].user].eligible)
      BY <2>1, <2>2, <2>4
    <2> QED
      BY <2>3, <2>4
  <1> QED
    BY <1>1, <1>2 DEF List

LEMMA SyncKeeps ==
    ASSUME EmployeesInv, SyncMembers
    PROVE  EmployeesInv'
  <1>1. PICK new \in LinkStep(employee) :
        LET linked == WithUsers(employee, new)
            free == {e \in EmployeeKeys : linked[e] = Nobody} IN
        \E rows \in [free -> {Nobody} \cup NewRows] :
            LET after == [e \in EmployeeKeys |-> IF e \in free THEN rows[e] ELSE linked[e]] IN
            /\ Added(linked, after)
            /\ IF NamesClash(Renamed(after))
               THEN UNCHANGED employee /\ synced' = FALSE
               ELSE employee' = Retired(Renamed(after)) /\ synced' = (employee' = employee)
            /\ UNCHANGED <<person, placeVars>>
    BY DEF SyncMembers
  <1> DEFINE linked == WithUsers(employee, new)
             free == {e \in EmployeeKeys : linked[e] = Nobody}
  <1>2. PICK rows \in [free -> {Nobody} \cup NewRows] :
            LET after == [e \in EmployeeKeys |-> IF e \in free THEN rows[e] ELSE linked[e]] IN
            /\ Added(linked, after)
            /\ IF NamesClash(Renamed(after))
               THEN UNCHANGED employee /\ synced' = FALSE
               ELSE employee' = Retired(Renamed(after)) /\ synced' = (employee' = employee)
            /\ UNCHANGED <<person, placeVars>>
    BY <1>1
  <1> DEFINE after == [e \in EmployeeKeys |-> IF e \in free THEN rows[e] ELSE linked[e]]
             renamed == Renamed(after)
  <1>3. /\ Added(linked, after)
        /\ NamesClash(renamed) => UNCHANGED employee /\ synced' = FALSE
        /\ ~NamesClash(renamed) => employee' = Retired(renamed) /\ synced' = (employee' = employee)
        /\ UNCHANGED <<person, place, tag, deleting, saving, merging, chosen, lost>>
    BY <1>2 DEF placeVars
  <1>4. /\ linked \in List /\ UsersDiffer(linked) /\ LinksLive(linked, person)
        /\ \A e \in EmployeeKeys : linked[e] = Nobody <=> employee[e] = Nobody
    <2> DEFINE l == linked
    <2>1. l = WithUsers(employee, new)
      OBVIOUS
    <2> HIDE DEF l, linked
    <2>2. l = linked
      BY <2>1 DEF linked
    <2> QED
      BY <2>1, <2>2, LinkedRows
  <1>5. /\ after = [e \in EmployeeKeys |-> after[e]]
        /\ \A e \in EmployeeKeys : linked[e] = Nobody => after[e] \in {Nobody} \cup NewRows
    OBVIOUS
  <1>6. EmployeesTypeOK
    BY DEF EmployeesInv
  <1> HIDE DEF after, linked, free
  <1>7. /\ after \in List
        /\ \A e \in EmployeeKeys : linked[e] # Nobody => after[e] = linked[e]
        /\ \A u \in Unlisted(linked) : \E e \in EmployeeKeys : linked[e] = Nobody /\ after[e] # Nobody
        /\ UsersDiffer(after) /\ LinksLive(after, person)
    BY <1>3, <1>4, <1>5, <1>6, AddedRows
  <1>8. /\ renamed \in List
        /\ \A e \in EmployeeKeys : /\ renamed[e] = Nobody <=> after[e] = Nobody
                                   /\ after[e] # Nobody => renamed[e].user = after[e].user
    <2>1. renamed = Renamed(after)
      OBVIOUS
    <2> HIDE DEF renamed
    <2> QED
      BY <2>1, <1>6, <1>7, RenamedRows
  <1> HIDE DEF renamed
  <1>9. CASE NamesClash(renamed)
    <2>1. UNCHANGED <<person, employee, place, tag, deleting, saving, merging, chosen, lost>> /\ synced' = FALSE
      BY <1>3, <1>9
    <2> QED
      BY <2>1 DEF EmployeesInv, EmployeesTypeOK, TagsStand, MovedAreTagged, NamesDiffer, UsersDiffer, LinksLive
  <1>10. CASE ~NamesClash(renamed)
    <2>1. employee' = Retired(renamed) /\ synced' = (employee' = employee)
          /\ UNCHANGED <<person, place, tag, deleting, saving, merging, chosen, lost>>
      BY <1>3, <1>10
    <2>2. /\ employee' \in List
          /\ \A e \in EmployeeKeys :
                /\ employee'[e] = Nobody <=> renamed[e] = Nobody
                /\ renamed[e] # Nobody =>
                      /\ employee'[e].user = renamed[e].user /\ employee'[e].name = renamed[e].name
                      /\ renamed[e].user # Nobody /\ ~person[renamed[e].user].eligible => ~employee'[e].active
      BY <1>8, <2>1, RetiredRows
    <2>3. EmployeesTypeOK'
      BY <1>6, <2>1, <2>2 DEF EmployeesTypeOK, List
    <2>4. NamesDiffer(employee')
      BY <1>10, <2>2 DEF NamesDiffer, NamesClash
    <2>5. UsersDiffer(employee')
      BY <1>7, <1>8, <2>2 DEF UsersDiffer
    <2>6. LinksLive(employee', person')
      BY <1>7, <1>8, <2>1, <2>2 DEF LinksLive
    <2>7. TagsStand' /\ MovedAreTagged'
      BY <2>1 DEF TagsStand, MovedAreTagged, EmployeesInv
    <2>8. ASSUME employee' = employee PROVE Found'
      <3>1. ASSUME NEW u \in Eligible PROVE LinkedTo(u) # {} \/ Called(person[u].name) # {}
        <4>1. u \notin Unlisted(linked)
          BY <1>4, <1>7, <1>8, <2>2, <2>8
        <4>2. PICK x \in EmployeeKeys : linked[x] # Nobody /\ (linked[x].user = u \/ linked[x].name = person[u].name)
          BY <3>1, <4>1 DEF Unlisted
        <4>3. CASE linked[x].user = u
          <5>1. employee[x] # Nobody /\ employee[x].user = u
            BY <1>4, <1>7, <1>8, <2>2, <2>8, <4>2, <4>3
          <5> QED
            BY <5>1 DEF LinkedTo, OnList
        <4>4. CASE linked[x].name = person[u].name
          <5>1. employee[x] # Nobody /\ employee[x].name = linked[x].name
            <6>1. linked[x].name = employee[x].name
              BY <1>1, <4>2, <1>4 DEF linked, WithUsers, List
            <6> QED
              BY <6>1, <1>4, <4>2
          <5> QED
            BY <4>4, <5>1 DEF Called, OnList
        <4> QED
          BY <4>2, <4>3, <4>4
      <3>2. \A e \in OnList : employee[e].user # Nobody /\ ~person[employee[e].user].eligible => ~employee[e].active
        BY <2>2, <2>8 DEF OnList
      <3>3. Found
        BY <3>1, <3>2 DEF Found
      <3> QED
        BY <3>3, <2>1, <2>8 DEF Found, Eligible, Portal, OnList, LinkedTo, Called
    <2> QED
      BY <2>1, <2>3, <2>4, <2>5, <2>6, <2>7, <2>8 DEF EmployeesInv
  <1> QED
    BY <1>9, <1>10

-----------------------------------------------------------------------------
(* The other steps. *)

LEMMA WriteMemberKeeps ==
    ASSUME EmployeesInv, NEW u \in People, NEW n \in NamesOfPeople, NEW eligible \in BOOLEAN,
           WriteMember(u, n, eligible)
    PROVE  EmployeesInv'
  <1>1. /\ person' = [person EXCEPT ![u] = [name |-> n, eligible |-> eligible]]
        /\ UNCHANGED <<employee, place, tag, deleting, saving, merging, chosen, lost>> /\ synced' = FALSE
    BY DEF WriteMember, placeVars
  <1>2. [name |-> n, eligible |-> eligible] \in PersonRow
    BY DEF PersonRow
  <1>3. EmployeesTypeOK'
    BY <1>1, <1>2 DEF EmployeesInv, EmployeesTypeOK
  <1>4. LinksLive(employee', person')
    BY <1>1, <1>2, RowsAreRows DEF EmployeesInv, EmployeesTypeOK, LinksLive
  <1> QED
    BY <1>1, <1>3, <1>4 DEF EmployeesInv, TagsStand, MovedAreTagged, NamesDiffer, UsersDiffer

LEMMA RemoveMemberKeeps ==
    ASSUME EmployeesInv, NEW u \in People, RemoveMember(u)
    PROVE  EmployeesInv'
  <1>1. /\ person' = [person EXCEPT ![u] = Nobody]
        /\ employee' = [e \in EmployeeKeys |-> IF e \in LinkedTo(u) THEN [employee[e] EXCEPT !.user = Nobody] ELSE employee[e]]
        /\ UNCHANGED <<place, tag, deleting, saving, merging, chosen, lost>> /\ synced' = FALSE
    BY DEF RemoveMember, placeVars
  <1>2. employee \in List
    BY DEF EmployeesInv, EmployeesTypeOK, List
  <1>3. ASSUME NEW e \in EmployeeKeys
        PROVE  /\ employee'[e] \in {Nobody} \cup EmployeeRow
               /\ employee'[e] = Nobody <=> employee[e] = Nobody
               /\ employee[e] # Nobody =>
                     /\ employee'[e].name = employee[e].name
                     /\ \/ employee'[e].user = employee[e].user /\ employee[e].user # u
                        \/ employee'[e].user = Nobody
    <2>1. CASE e \in LinkedTo(u)
      <3>1. employee[e] \in EmployeeRow
        BY <1>2, <2>1 DEF List, LinkedTo, OnList
      <3>2. employee'[e] \in EmployeeRow /\ employee'[e].name = employee[e].name /\ employee'[e].user = Nobody
        BY <1>1, <2>1, <3>1 DEF EmployeeRow
      <3> QED
        BY <3>1, <3>2, RowsAreRows
    <2>2. CASE e \notin LinkedTo(u)
      BY <1>1, <1>2, <2>2 DEF List, LinkedTo, OnList
    <2> QED
      BY <2>1, <2>2
  <1>4. EmployeesTypeOK'
    BY <1>1, <1>3 DEF EmployeesInv, EmployeesTypeOK
  <1>5. NamesDiffer(employee') /\ UsersDiffer(employee')
    BY <1>3 DEF EmployeesInv, NamesDiffer, UsersDiffer
  <1>6. LinksLive(employee', person')
    <2> SUFFICES ASSUME NEW e \in EmployeeKeys, employee'[e] # Nobody, employee'[e].user # Nobody
                 PROVE  person'[employee'[e].user] # Nobody
      BY DEF LinksLive
    <2>1. employee[e] # Nobody /\ employee'[e].user = employee[e].user /\ employee[e].user # u
      BY <1>3
    <2>2. employee[e].user \in People /\ person[employee[e].user] # Nobody
      BY <1>2, <2>1, RowsAreRows DEF List, EmployeesInv, LinksLive
    <2> QED
      BY <1>1, <2>1, <2>2 DEF EmployeesInv, EmployeesTypeOK
  <1> QED
    BY <1>1, <1>4, <1>5, <1>6 DEF EmployeesInv, TagsStand, MovedAreTagged

(* A row of the list is written: it keeps its name and member if it was there, and has nobody's *)
(* member and a name of its own if it was not. *)
LEMMA RowKeeps ==
    ASSUME EmployeesInv, NEW e \in EmployeeKeys, NEW r \in EmployeeRow,
           employee' = [employee EXCEPT ![e] = r], synced' = FALSE,
           UNCHANGED <<person, place, tag, deleting, saving, merging, chosen, lost>>,
           IF employee[e] # Nobody THEN r.name = employee[e].name /\ r.user = employee[e].user
           ELSE Called(r.name) = {} /\ r.user = Nobody
    PROVE  EmployeesInv'
  <1>1. EmployeesTypeOK'
    BY DEF EmployeesInv, EmployeesTypeOK
  <1>2. employee'[e] = r /\ \A x \in EmployeeKeys \ {e} : employee'[x] = employee[x]
    BY DEF EmployeesInv, EmployeesTypeOK
  <1>3. NamesDiffer(employee')
    BY <1>2 DEF EmployeesInv, NamesDiffer, Called, OnList
  <1>4. UsersDiffer(employee') /\ LinksLive(employee', person')
    BY <1>2 DEF EmployeesInv, UsersDiffer, LinksLive
  <1> QED
    BY <1>1, <1>3, <1>4 DEF EmployeesInv, TagsStand, MovedAreTagged

LEMMA AddEmployeeKeeps ==
    ASSUME EmployeesInv, NEW e \in EmployeeKeys, NEW n \in NamesOfPeople, AddEmployee(e, n)
    PROVE  EmployeesInv'
  <1>1. synced' = FALSE /\ UNCHANGED <<person, place, tag, deleting, saving, merging, chosen, lost>>
    BY DEF AddEmployee, placeVars
  <1>2. CASE Called(n) # {}
    <2> DEFINE r == [employee[e] EXCEPT !.active = TRUE]
    <2>1. employee' = [employee EXCEPT ![e] = r] /\ employee[e] # Nobody
      BY <1>2 DEF AddEmployee, Called, OnList
    <2>2. employee[e] \in EmployeeRow
      BY <2>1 DEF EmployeesInv, EmployeesTypeOK
    <2>3. r \in EmployeeRow /\ r.name = employee[e].name /\ r.user = employee[e].user
      BY <2>2 DEF EmployeeRow
    <2> HIDE DEF r
    <2> QED
      BY <1>1, <2>1, <2>3, RowKeeps
  <1>3. CASE Called(n) = {}
    <2> DEFINE r == [name |-> n, active |-> TRUE, user |-> Nobody]
    <2>1. employee' = [employee EXCEPT ![e] = r] /\ employee[e] = Nobody
      BY <1>3 DEF AddEmployee
    <2>2. r \in EmployeeRow /\ r.name = n /\ r.user = Nobody
      BY DEF EmployeeRow
    <2> HIDE DEF r
    <2> QED
      BY <1>1, <1>3, <2>1, <2>2, RowKeeps
  <1> QED
    BY <1>2, <1>3

LEMMA DeleteEmployeeKeeps ==
    ASSUME EmployeesInv, NEW e \in EmployeeKeys, DeleteEmployee(e)
    PROVE  EmployeesInv'
  <1> DEFINE r == [employee[e] EXCEPT !.active = FALSE]
  <1>1. /\ employee' = [employee EXCEPT ![e] = r] /\ employee[e] # Nobody
        /\ synced' = FALSE /\ UNCHANGED <<person, place, tag, deleting, saving, merging, chosen, lost>>
    BY DEF DeleteEmployee, OnList, placeVars
  <1>2. employee[e] \in EmployeeRow
    BY <1>1 DEF EmployeesInv, EmployeesTypeOK
  <1>3. r \in EmployeeRow /\ r.name = employee[e].name /\ r.user = employee[e].user
    BY <1>2 DEF EmployeeRow
  <1> HIDE DEF r
  <1> QED
    BY <1>1, <1>3, RowKeeps

-----------------------------------------------------------------------------
(* The places and the tags. *)

Save == [op : {"save"}, of : EmployeeKeys, to : SUBSET Places, taken : SUBSET Places]
Merge == [op : {"merge"}, from : Places, to : Places, moved : SUBSET EmployeeKeys]

LEMMA SaveFields ==
    /\ NoSave.op = "idle" /\ NoMerge.op = "idle"
    /\ \A x \in Save : x.op = "save" /\ x.of \in EmployeeKeys /\ (x.to \subseteq Places) /\ (x.taken \subseteq Places)
    /\ \A x \in Save, S \in SUBSET Places : [x EXCEPT !.taken = S] \in Save
    /\ \A x \in Merge : x.op = "merge" /\ x.from \in Places /\ x.to \in Places /\ (x.moved \subseteq EmployeeKeys)
  BY DEF NoSave, NoMerge, Save, Merge

LEMMA MovedFields ==
    ASSUME NEW x \in Merge, NEW S \in SUBSET EmployeeKeys, NEW y, y = [x EXCEPT !.moved = S]
    PROVE  y \in Merge /\ y.from = x.from /\ y.to = x.to /\ y.moved = S
  BY DEF Merge

LEMMA PlaceTypes ==
    ASSUME EmployeesInv
    PROVE  /\ (place \subseteq Places) /\ tag \in [EmployeeKeys -> SUBSET Places]
           /\ deleting \in Places \cup {Nobody} /\ chosen \in [EmployeeKeys -> SUBSET Places]
           /\ saving \in [Owners -> {NoSave} \cup Save] /\ merging \in {NoMerge} \cup Merge
           /\ (lost \subseteq EmployeeKeys)
           /\ \A w \in Owners : saving[w].op = "save" => saving[w] \in Save
           /\ merging.op = "merge" <=> merging \in Merge
           /\ merging # NoMerge => merging \in Merge
  <1>1. /\ (place \subseteq Places) /\ tag \in [EmployeeKeys -> SUBSET Places]
        /\ deleting \in Places \cup {Nobody} /\ chosen \in [EmployeeKeys -> SUBSET Places]
        /\ saving \in [Owners -> {NoSave} \cup Save] /\ merging \in {NoMerge} \cup Merge
        /\ (lost \subseteq EmployeeKeys)
    BY DEF EmployeesInv, EmployeesTypeOK, Save, Merge
  <1> QED
    BY <1>1, SaveFields

(* A step on the places and the tags. *)
LEMMA PlacesKeep ==
    ASSUME EmployeesInv, UNCHANGED <<person, employee>>, synced' = FALSE,
           (place' \subseteq Places), (deleting' \in Places \cup {Nobody}),
           (tag' \in [EmployeeKeys -> SUBSET Places]), (chosen' \in [EmployeeKeys -> SUBSET Places]),
           (saving' \in [Owners -> {NoSave} \cup Save]), (merging' \in {NoMerge} \cup Merge),
           (lost' \subseteq EmployeeKeys), TagsStand', MovedAreTagged'
    PROVE  EmployeesInv'
  BY DEF EmployeesInv, EmployeesTypeOK, NamesDiffer, UsersDiffer, LinksLive, Save, Merge

(* Employees leave what a merge moves. *)
LEMMA MovedShrink ==
    ASSUME EmployeesInv, NEW gone, merging.op = "merge", merging' = [merging EXCEPT !.moved = @ \ gone],
           \A e \in EmployeeKeys \ gone : merging.from \in tag[e] => merging.from \in tag'[e]
    PROVE  merging' \in Merge /\ MovedAreTagged'
  <1>1. merging \in Merge /\ (merging.moved \ gone) \in SUBSET EmployeeKeys
    BY PlaceTypes, SaveFields
  <1>2. merging' = [merging EXCEPT !.moved = merging.moved \ gone]
    OBVIOUS
  <1>3. /\ merging' \in Merge /\ merging'.from = merging.from /\ merging'.to = merging.to
        /\ merging'.moved = merging.moved \ gone
    <2>1. PICK S \in SUBSET EmployeeKeys : S = merging.moved \ gone
      BY <1>1
    <2>2. merging' = [merging EXCEPT !.moved = S]
      BY <1>2, <2>1
    <2> QED
      BY <1>1, <2>1, <2>2, MovedFields
  <1> QED
    BY <1>1, <1>3 DEF MovedAreTagged, EmployeesInv

LEMMA DeleteWithRecordsKeeps ==
    ASSUME EmployeesInv, NEW e \in EmployeeKeys, DeleteWithRecords(e)
    PROVE  EmployeesInv'
  <1>0. /\ tag \in [EmployeeKeys -> SUBSET Places] /\ chosen \in [EmployeeKeys -> SUBSET Places]
        /\ saving \in [Owners -> {NoSave} \cup Save] /\ merging \in {NoMerge} \cup Merge
        /\ (lost \subseteq EmployeeKeys) /\ (merging.op = "merge" <=> merging \in Merge)
    BY PlaceTypes
  <1>1. /\ employee' = [employee EXCEPT ![e] = Nobody] /\ tag' = [tag EXCEPT ![e] = {}]
        /\ chosen' = [chosen EXCEPT ![e] = {}] /\ lost' = lost \ {e}
        /\ synced' = FALSE /\ UNCHANGED <<person, place, deleting>>
        /\ saving' = [w \in Owners |-> IF saving[w].op = "save" /\ saving[w].of = e THEN NoSave ELSE saving[w]]
        /\ merging' = IF merging.op = "merge" THEN [merging EXCEPT !.moved = @ \ {e}] ELSE merging
    BY DEF DeleteWithRecords
  <1>3. /\ employee'[e] = Nobody /\ tag'[e] = {} /\ chosen'[e] = {}
        /\ \A x \in EmployeeKeys \ {e} : employee'[x] = employee[x] /\ tag'[x] = tag[x] /\ chosen'[x] = chosen[x]
    BY <1>1 DEF EmployeesInv, EmployeesTypeOK
  <1>4. NamesDiffer(employee') /\ UsersDiffer(employee') /\ LinksLive(employee', person')
    BY <1>1, <1>3 DEF EmployeesInv, NamesDiffer, UsersDiffer, LinksLive
  <1>5. TagsStand'
    BY <1>1, <1>3 DEF EmployeesInv, TagsStand
  <1>6. merging' \in {NoMerge} \cup Merge /\ MovedAreTagged'
    <2>1. CASE merging.op = "merge"
      BY <1>1, <1>3, <2>1, MovedShrink
    <2>2. CASE merging.op # "merge"
      BY <1>0, <1>1, <2>2 DEF MovedAreTagged
    <2> QED
      BY <2>1, <2>2
  <1>7. saving' \in [Owners -> {NoSave} \cup Save]
    BY <1>0, <1>1
  <1>8. EmployeesTypeOK'
    BY <1>0, <1>1, <1>6, <1>7 DEF EmployeesInv, EmployeesTypeOK, Save, Merge
  <1> QED
    BY <1>1, <1>4, <1>5, <1>6, <1>8 DEF EmployeesInv

LEMMA BeginSetPlacesKeeps ==
    ASSUME EmployeesInv, NEW w \in Owners, NEW e \in EmployeeKeys, NEW S \in SUBSET Places, BeginSetPlaces(w, e, S)
    PROVE  EmployeesInv'
  <1> DEFINE x == [op |-> "save", of |-> e, to |-> S, taken |-> tag[e]]
  <1>1. saving' = [saving EXCEPT ![w] = x] /\ synced' = FALSE
        /\ UNCHANGED <<person, employee, place, tag, deleting, merging, chosen, lost>>
    BY DEF BeginSetPlaces, listVars
  <1>2. x \in Save
    BY PlaceTypes DEF Save
  <1> HIDE DEF x
  <1>3. saving' \in [Owners -> {NoSave} \cup Save]
    BY <1>1, <1>2, PlaceTypes
  <1>4. TagsStand' /\ MovedAreTagged'
    BY <1>1 DEF EmployeesInv, TagsStand, MovedAreTagged
  <1> QED
    BY <1>1, <1>3, <1>4, PlaceTypes, PlacesKeep

LEMMA FinishSetPlacesKeeps ==
    ASSUME EmployeesInv, NEW w \in Owners, FinishSetPlaces(w)
    PROVE  EmployeesInv'
  <1> DEFINE e == saving[w].of
             left == tag[e] \ saving[w].taken
             S == saving[w].to
  <1>0. /\ saving[w] \in Save /\ synced' = FALSE /\ UNCHANGED <<person, employee, place, deleting>>
        /\ saving \in [Owners -> {NoSave} \cup Save] /\ tag \in [EmployeeKeys -> SUBSET Places]
        /\ chosen \in [EmployeeKeys -> SUBSET Places] /\ merging \in {NoMerge} \cup Merge
        /\ (lost \subseteq EmployeeKeys) /\ (place \subseteq Places) /\ deleting \in Places \cup {Nobody}
    BY PlaceTypes DEF FinishSetPlaces, listVars
  <1>1. e \in EmployeeKeys /\ (S \subseteq Places) /\ (left \subseteq Places)
    BY <1>0, SaveFields
  <1>2. CASE ~(S \subseteq place /\ S \cap left = {})
    <2>1. saving' = [saving EXCEPT ![w] = NoSave] /\ UNCHANGED <<tag, merging, chosen, lost>>
      BY <1>2 DEF FinishSetPlaces
    <2>2. saving' \in [Owners -> {NoSave} \cup Save]
      BY <1>0, <2>1
    <2>3. TagsStand' /\ MovedAreTagged'
      BY <1>0, <2>1 DEF EmployeesInv, TagsStand, MovedAreTagged
    <2> QED
      BY <1>0, <2>1, <2>2, <2>3, PlacesKeep
  <1>3. CASE S \subseteq place /\ S \cap left = {}
    <2>1. /\ tag' = [tag EXCEPT ![e] = left \cup S] /\ chosen' = [chosen EXCEPT ![e] = left \cup S]
          /\ lost' = lost \ {e}
          /\ saving' = [v \in Owners |-> IF v = w THEN NoSave
                                        ELSE IF saving[v].op = "save" /\ saving[v].of = e
                                        THEN [saving[v] EXCEPT !.taken = @ \ saving[w].taken]
                                        ELSE saving[v]]
          /\ merging' = IF merging.op = "merge" /\ merging.from \in saving[w].taken
                        THEN [merging EXCEPT !.moved = @ \ {e}] ELSE merging
      BY <1>3 DEF FinishSetPlaces
    <2>2. saving' \in [Owners -> {NoSave} \cup Save]
      <3>1. ASSUME NEW v \in Owners PROVE saving'[v] \in {NoSave} \cup Save
        <4>1. CASE saving[v].op = "save" /\ saving[v].of = e /\ v # w
          <5> DEFINE T == saving[v].taken \ saving[w].taken
          <5>1. saving[v] \in Save /\ T \in SUBSET Places
            BY <4>1, PlaceTypes, SaveFields
          <5>2. saving'[v] = [saving[v] EXCEPT !.taken = T]
            BY <2>1, <4>1
          <5> HIDE DEF T
          <5> QED
            BY <5>1, <5>2, SaveFields
        <4>2. CASE ~(saving[v].op = "save" /\ saving[v].of = e /\ v # w)
          BY <1>0, <2>1, <4>2
        <4> QED
          BY <4>1, <4>2
      <3>2. saving' = [v \in Owners |-> saving'[v]]
        BY <2>1
      <3> QED
        BY <3>1, <3>2
    <2> DEFINE kept == left \cup S
    <2>3. (kept \subseteq Places) /\ (left \subseteq kept)
      BY <1>1
    <2>5. /\ tag' \in [EmployeeKeys -> SUBSET Places] /\ chosen' \in [EmployeeKeys -> SUBSET Places]
          /\ tag'[e] = kept /\ chosen'[e] = kept
          /\ \A x \in EmployeeKeys \ {e} : tag'[x] = tag[x] /\ chosen'[x] = chosen[x]
      <3>1. tag' = [tag EXCEPT ![e] = kept] /\ chosen' = [chosen EXCEPT ![e] = kept]
        BY <2>1
      <3> HIDE DEF kept, e
      <3> QED
        BY <1>0, <1>1, <2>3, <3>1
    <2>6. merging' \in {NoMerge} \cup Merge /\ MovedAreTagged'
      <3>1. CASE merging.op = "merge" /\ merging.from \in saving[w].taken
        <4>1. merging' = [merging EXCEPT !.moved = @ \ {e}]
          BY <2>1, <3>1
        <4> HIDE DEF e
        <4> QED
          BY <2>5, <3>1, <4>1, MovedShrink
      <3>2. CASE ~(merging.op = "merge" /\ merging.from \in saving[w].taken)
        <4>1. merging' = merging
          BY <2>1, <3>2
        <4>2. ASSUME merging.op = "merge", NEW x \in EmployeeKeys, merging.from \in tag[x]
              PROVE  merging.from \in tag'[x]
          BY <2>3, <2>5, <3>2, <4>2
        <4>3. merging.op = "merge" => (merging.moved \subseteq EmployeeKeys)
          BY PlaceTypes, SaveFields
        <4> QED
          BY <1>0, <4>1, <4>2, <4>3 DEF EmployeesInv, MovedAreTagged
      <3> QED
        BY <3>1, <3>2
    <2>7. TagsStand'
      <3>1. left \subseteq place
        BY <1>0, <1>1 DEF EmployeesInv, TagsStand
      <3>2. ASSUME NEW x \in EmployeeKeys PROVE tag'[x] \subseteq place'
        BY <1>0, <1>3, <2>5, <3>1 DEF EmployeesInv, TagsStand
      <3>3. ASSUME NEW x \in EmployeeKeys \ lost' PROVE tag'[x] = chosen'[x] \cap place'
        <4>1. CASE x # e
          BY <1>0, <2>1, <2>5, <3>3, <4>1 DEF EmployeesInv, TagsStand
        <4>2. CASE x = e
          BY <1>0, <1>3, <2>5, <3>1, <4>2
        <4> QED
          BY <4>1, <4>2
      <3> QED
        BY <3>2, <3>3 DEF TagsStand
    <2>8. lost' \subseteq EmployeeKeys
      BY <1>0, <2>1
    <2> QED
      BY <1>0, <2>2, <2>5, <2>6, <2>7, <2>8, PlacesKeep
  <1> QED
    BY <1>2, <1>3

LEMMA BeginDeletePlaceKeeps ==
    ASSUME EmployeesInv, NEW p \in Places, BeginDeletePlace(p)
    PROVE  EmployeesInv'
  <1>1. deleting' = p /\ synced' = FALSE
        /\ UNCHANGED <<person, employee, place, tag, saving, merging, chosen, lost>>
    BY DEF BeginDeletePlace, listVars
  <1>2. TagsStand' /\ MovedAreTagged'
    BY <1>1 DEF EmployeesInv, TagsStand, MovedAreTagged
  <1> QED
    BY <1>1, <1>2, PlaceTypes, PlacesKeep

LEMMA FinishDeletePlaceKeeps ==
    ASSUME EmployeesInv, FinishDeletePlace
    PROVE  EmployeesInv'
  <1>0. /\ tag \in [EmployeeKeys -> SUBSET Places] /\ (place \subseteq Places) /\ merging \in {NoMerge} \cup Merge
        /\ chosen \in [EmployeeKeys -> SUBSET Places] /\ saving \in [Owners -> {NoSave} \cup Save]
        /\ (lost \subseteq EmployeeKeys) /\ (merging.op = "merge" <=> merging \in Merge)
    BY PlaceTypes
  <1>1. /\ place' = place \ {deleting} /\ tag' = [e \in EmployeeKeys |-> tag[e] \ {deleting}]
        /\ merging' = IF merging.op = "merge" /\ merging.from = deleting THEN [merging EXCEPT !.moved = {}] ELSE merging
        /\ deleting' = Nobody /\ synced' = FALSE /\ UNCHANGED <<person, employee, saving, chosen, lost>>
    BY DEF FinishDeletePlace, listVars
  <1>2. /\ tag' \in [EmployeeKeys -> SUBSET Places] /\ (place' \subseteq Places)
        /\ \A e \in EmployeeKeys : tag'[e] = tag[e] \ {deleting}
    BY <1>0, <1>1
  <1>3. TagsStand'
    BY <1>1, <1>2 DEF EmployeesInv, TagsStand
  <1>4. merging' \in {NoMerge} \cup Merge /\ MovedAreTagged'
    <2>1. CASE merging.op = "merge" /\ merging.from = deleting
      <3>1. merging' = [merging EXCEPT !.moved = {}] /\ merging \in Merge /\ {} \in SUBSET EmployeeKeys
        BY <1>0, <1>1, <2>1
      <3>2. /\ merging' \in Merge /\ merging'.from = merging.from /\ merging'.to = merging.to /\ merging'.moved = {}
        BY <3>1, MovedFields
      <3> QED
        BY <2>1, <3>2 DEF EmployeesInv, MovedAreTagged
    <2>2. CASE ~(merging.op = "merge" /\ merging.from = deleting)
      <3>1. merging' = merging /\ (merging.op = "merge" => (merging.moved \subseteq EmployeeKeys))
        BY <1>0, <1>1, <2>2, SaveFields
      <3> QED
        BY <1>0, <1>2, <2>2, <3>1 DEF EmployeesInv, MovedAreTagged
    <2> QED
      BY <2>1, <2>2
  <1> QED
    BY <1>0, <1>1, <1>2, <1>3, <1>4, PlacesKeep

LEMMA BeginMergePlacesKeeps ==
    ASSUME EmployeesInv, NEW p \in Places, NEW q \in Places, BeginMergePlaces(p, q)
    PROVE  EmployeesInv'
  <1>1. /\ merging' = [op |-> "merge", from |-> p, to |-> q, moved |-> {e \in EmployeeKeys : p \in tag[e]}]
        /\ p # q /\ synced' = FALSE /\ UNCHANGED <<person, employee, place, tag, deleting, saving, chosen, lost>>
    BY DEF BeginMergePlaces, listVars
  <1>2. merging' \in Merge
    BY <1>1 DEF Merge
  <1>3. TagsStand' /\ MovedAreTagged'
    BY <1>1 DEF EmployeesInv, TagsStand, MovedAreTagged
  <1> QED
    BY <1>1, <1>2, <1>3, PlaceTypes, PlacesKeep

LEMMA PlacesMergedKeeps ==
    ASSUME EmployeesInv, PlacesMerged, merging \in Merge, merging' = NoMerge, synced' = FALSE,
           UNCHANGED <<person, employee, deleting>>
    PROVE  EmployeesInv'
  <1> DEFINE p == merging.from
             q == merging.to
             after(e, S) == IF e \in merging.moved THEN Into(S, p, q) ELSE S \ {p}
  <1>0. /\ tag \in [EmployeeKeys -> SUBSET Places] /\ chosen \in [EmployeeKeys -> SUBSET Places]
        /\ saving \in [Owners -> {NoSave} \cup Save] /\ (lost \subseteq EmployeeKeys) /\ (place \subseteq Places)
        /\ deleting \in Places \cup {Nobody}
        /\ p \in Places /\ q \in Places /\ (merging.moved \subseteq EmployeeKeys)
    BY PlaceTypes, SaveFields
  <1>1. /\ \A e \in merging.moved : q \in place \ tag[e]
        /\ place' = place \ {p} /\ tag' = [e \in EmployeeKeys |-> after(e, tag[e])]
        /\ saving' = [w \in Owners |-> IF saving[w].op = "save"
                                       THEN [saving[w] EXCEPT !.taken = after(saving[w].of, @)] ELSE saving[w]]
        /\ chosen' = [e \in EmployeeKeys |-> IF p \in place /\ p \in chosen[e]
                                             THEN (chosen[e] \ {p}) \cup {q} ELSE chosen[e]]
        /\ lost' = lost \cup {e \in EmployeeKeys \ merging.moved : p \in tag[e]}
    BY DEF PlacesMerged
  <1>2. p # q /\ \A e \in merging.moved : p \in tag[e]
    BY SaveFields DEF EmployeesInv, MovedAreTagged
  <1>3. \A e \in EmployeeKeys, S \in SUBSET Places :
           after(e, S) \in SUBSET Places /\ (after(e, S) \subseteq (S \ {p}) \cup {q})
    BY <1>0 DEF Into
  <1>4. ASSUME NEW e \in merging.moved
        PROVE  e \in EmployeeKeys /\ p \in tag[e] /\ q \in place /\ tag'[e] = (tag[e] \ {p}) \cup {q}
    BY <1>0, <1>1, <1>2 DEF Into
  <1>5. ASSUME NEW e \in EmployeeKeys \ merging.moved PROVE tag'[e] = tag[e] \ {p}
    BY <1>1
  <1>6. \A e \in EmployeeKeys : chosen'[e] = IF p \in place /\ p \in chosen[e]
                                             THEN (chosen[e] \ {p}) \cup {q} ELSE chosen[e]
    BY <1>1
  <1>7. \A w \in Owners : saving'[w] \in {NoSave} \cup Save
    <2> SUFFICES ASSUME NEW w \in Owners PROVE saving'[w] \in {NoSave} \cup Save
      OBVIOUS
    <2>1. CASE saving[w].op = "save"
      <3> DEFINE T == after(saving[w].of, saving[w].taken)
      <3>1. saving[w] \in Save /\ T \in SUBSET Places
        <4>1. saving[w] \in Save
          BY <2>1, PlaceTypes
        <4>2. saving[w].of \in EmployeeKeys /\ saving[w].taken \in SUBSET Places
          BY <4>1, SaveFields
        <4> QED
          BY <1>3, <4>1, <4>2
      <3>2. saving'[w] = [saving[w] EXCEPT !.taken = T]
        BY <1>1, <2>1
      <3> HIDE DEF T
      <3> QED
        BY <3>1, <3>2, SaveFields
    <2>2. CASE saving[w].op # "save"
      BY <1>0, <1>1, <2>2
    <2> QED
      BY <2>1, <2>2
  <1>8. /\ tag' \in [EmployeeKeys -> SUBSET Places] /\ chosen' \in [EmployeeKeys -> SUBSET Places]
        /\ saving' \in [Owners -> {NoSave} \cup Save] /\ (place' \subseteq Places) /\ (lost' \subseteq EmployeeKeys)
    <2>1. tag' \in [EmployeeKeys -> SUBSET Places]
      BY <1>0, <1>1, <1>3
    <2>2. chosen' \in [EmployeeKeys -> SUBSET Places]
      BY <1>0, <1>1
    <2>3. saving' \in [Owners -> {NoSave} \cup Save]
      BY <1>1, <1>7
    <2> QED
      BY <1>0, <1>1, <2>1, <2>2, <2>3
  <1> HIDE DEF after, p, q
  <1>9. \A e \in EmployeeKeys : tag[e] \subseteq place
    BY DEF EmployeesInv, TagsStand
  <1>10. ASSUME NEW e \in EmployeeKeys PROVE tag'[e] \subseteq place'
    <2>1. CASE e \in merging.moved
      BY <1>1, <1>2, <1>4, <1>9, <2>1
    <2>2. CASE e \notin merging.moved
      BY <1>1, <1>5, <1>9, <2>2
    <2> QED
      BY <2>1, <2>2
  <1>11. ASSUME NEW e \in EmployeeKeys \ lost' PROVE tag'[e] = chosen'[e] \cap place'
    <2>0. tag[e] = chosen[e] \cap place
      BY <1>1, <1>11 DEF EmployeesInv, TagsStand
    <2>1. CASE e \in merging.moved
      BY <1>1, <1>2, <1>4, <1>6, <1>9, <2>0, <2>1
    <2>2. CASE e \notin merging.moved
      <3>1. p \notin tag[e]
        BY <1>1, <1>11, <2>2
      <3>2. chosen'[e] = chosen[e]
        BY <1>6, <2>0, <3>1
      <3> QED
        BY <1>1, <1>5, <2>0, <2>2, <3>1, <3>2
    <2> QED
      BY <2>1, <2>2
  <1>12. TagsStand' /\ MovedAreTagged'
    BY <1>10, <1>11, SaveFields DEF TagsStand, MovedAreTagged
  <1> QED
    BY <1>0, <1>8, <1>12, PlacesKeep

LEMMA FinishMergePlacesKeeps ==
    ASSUME EmployeesInv, FinishMergePlaces
    PROVE  EmployeesInv'
  <1>1. /\ merging # NoMerge /\ (PlacesStay \/ PlacesMerged) /\ merging' = NoMerge /\ synced' = FALSE
        /\ UNCHANGED <<person, employee, deleting>>
    BY DEF FinishMergePlaces, listVars
  <1>2. CASE PlacesStay
    <2>1. UNCHANGED <<place, tag, saving, chosen, lost>>
      BY <1>2 DEF PlacesStay
    <2>2. TagsStand' /\ MovedAreTagged'
      BY <1>1, <2>1, SaveFields DEF EmployeesInv, TagsStand, MovedAreTagged
    <2> QED
      BY <1>1, <2>1, <2>2, PlaceTypes, PlacesKeep
  <1>3. CASE PlacesMerged
    BY <1>1, <1>3, PlaceTypes, PlacesMergedKeeps
  <1> QED
    BY <1>1, <1>2, <1>3

LEMMA PlaceStepsKeep ==
    ASSUME EmployeesInv, PlacesNext
    PROVE  EmployeesInv'
  BY BeginSetPlacesKeeps, FinishSetPlacesKeeps, BeginDeletePlaceKeeps, FinishDeletePlaceKeeps,
     BeginMergePlacesKeeps, FinishMergePlacesKeeps DEF PlacesNext

LEMMA EmployeesStep == EmployeesInv /\ [EmployeesNext]_employeeVars => EmployeesInv'
  <1> SUFFICES ASSUME EmployeesInv, [EmployeesNext]_employeeVars PROVE EmployeesInv'
    OBVIOUS
  <1>1. ASSUME NEW u \in People, NEW n \in NamesOfPeople, NEW eligible \in BOOLEAN, WriteMember(u, n, eligible)
        PROVE  EmployeesInv'
    BY <1>1, WriteMemberKeeps
  <1>2. ASSUME NEW u \in People, RemoveMember(u) PROVE EmployeesInv'
    BY <1>2, RemoveMemberKeeps
  <1>3. CASE SyncMembers
    BY <1>3, SyncKeeps
  <1>4. ASSUME NEW e \in EmployeeKeys, NEW n \in NamesOfPeople, AddEmployee(e, n) PROVE EmployeesInv'
    BY <1>4, AddEmployeeKeeps
  <1>5. ASSUME NEW e \in EmployeeKeys, DeleteEmployee(e) \/ DeleteWithRecords(e) PROVE EmployeesInv'
    BY <1>5, DeleteEmployeeKeeps, DeleteWithRecordsKeeps
  <1>6. CASE UNCHANGED employeeVars
    BY <1>6 DEF employeeVars, listVars, placeVars, EmployeesInv, EmployeesTypeOK, TagsStand, MovedAreTagged, NamesDiffer, UsersDiffer, LinksLive, Found,
                Eligible, Portal, OnList, LinkedTo, Called
  <1> QED
    BY <1>1, <1>2, <1>3, <1>4, <1>5, <1>6, PlaceStepsKeep DEF EmployeesNext, ListNext, RowNext

LEMMA EmployeesShow == EmployeesInv => EmployeesInOrder
  <1> SUFFICES ASSUME EmployeesInv PROVE EmployeesInOrder
    OBVIOUS
  <1>1. ASSUME NEW e \in OnList \ lost, chosen[e] \cap place # {}, NEW at \in Places \cup {Elsewhere}, MayMark(e, at)
        PROVE  at \in chosen[e]
    <2>1. tag[e] = chosen[e] \cap place
      BY DEF OnList, EmployeesInv, TagsStand
    <2> QED
      BY <1>1, <2>1 DEF MayMark
  <1>2. ASSUME NEW u \in People PROVE Cardinality(LinkedTo(u)) <= 1
    <2>1. CASE LinkedTo(u) = {}
      <3>1. Cardinality(LinkedTo(u)) = 0
        BY <2>1, FS_EmptySet
      <3> QED
        BY <3>1
    <2>2. ASSUME NEW e \in LinkedTo(u) PROVE Cardinality(LinkedTo(u)) = 1
      <3>1. LinkedTo(u) = {e}
        BY <2>2, RowsAreRows DEF LinkedTo, OnList, EmployeesInv, UsersDiffer
      <3> QED
        BY <3>1, FS_Singleton
    <2> QED
      BY <2>1, <2>2
  <1> QED
    BY <1>1, <1>2 DEF EmployeesInOrder, EmployeesInv, Found

(* The employees (attendance.sync_members, check_location): for any members, names and places, *)
(* nobody marks from a place not chosen, and a sync with nothing to do has found the list right. *)
THEOREM EmployeesStayInOrder == EmployeesSpec => []EmployeesInOrder
  <1> QED
    BY EmployeesStart, EmployeesStep, EmployeesShow, PTL DEF EmployeesSpec

-----------------------------------------------------------------------------
(***************************************************************************)
(* The jobs of VT Decor (DecorJob): a contract is what was agreed, and an  *)
(* approved quotation one client.                                          *)
(***************************************************************************)

Quotation == [status : {"Lead", "Approved", "Lost"}, total : JobAmounts, site : Sites \cup {NoJob}]
SiteRow == [status : {"Active", "Completed", "Hidden"}, contract : Nat, items : Nat]

(* What a request has read of a quotation it locked is still its status. *)
DealStands(d, quotes) ==
    /\ d.op = "change" => d.site \in Sites /\ d.change \in SiteChanges
    /\ d.op = "quote" => d.no \in PerformaNos
    /\ d.op = "decide" => /\ d.no \in PerformaNos /\ d.row \in Quotation
                          /\ quotes[d.no] # NoQuote /\ quotes[d.no].status = d.row.status

DealsStand ==
    /\ deal = [s \in Sellers |-> deal[s]]
    /\ \A s \in Sellers : DealStands(deal[s], quote)

OneDecides ==
    \A s, t \in Sellers :
        deal[s].op = "decide" /\ deal[t].op = "decide" /\ deal[s].no = deal[t].no => s = t

Agreed(k) == OnBook(k) => site[k].contract = owed[k]

MadeOnce(n) ==
    /\ made[n] = {} \/ \E k \in Sites : made[n] = {k}
    /\ quote[n] # NoQuote => (quote[n].status = "Approved" <=> made[n] # {})

JobInv ==
    /\ DecorTypeOK /\ DealsStand /\ OneDecides
    /\ \A k \in Sites : Agreed(k)
    /\ \A n \in PerformaNos : MadeOnce(n)

LEMMA DecorRows ==
    /\ Unborn \notin SiteRow /\ Gone \notin SiteRow /\ NoQuote \notin Quotation
    /\ NoDeal.op = "none" /\ NoJob \notin Sites
    /\ \A a \in JobAmounts : Client(a) \in SiteRow /\ Client(a).contract = a
  <1>1. \A r \in SiteRow : r.status \in {"Active", "Completed", "Hidden"}
    BY DEF SiteRow
  <1>2. \A r \in Quotation : r.status \in {"Lead", "Approved", "Lost"}
    BY DEF Quotation
  <1>3. \A a \in JobAmounts : Client(a) \in SiteRow /\ Client(a).contract = a
    BY JobAmountsAssumption DEF Client, SiteRow
  <1> QED
    BY <1>1, <1>2, <1>3, NoJobAssumption DEF Unborn, Gone, NoQuote, NoDeal

LEMMA DecorStart == DecorInit => JobInv
  <1> SUFFICES ASSUME DecorInit PROVE JobInv
    OBVIOUS
  <1>1. DecorTypeOK
    BY DEF DecorInit, DecorTypeOK
  <1>2. DealsStand /\ OneDecides
    BY DEF DecorInit, DealsStand, DealStands, OneDecides, NoDeal
  <1>3. \A k \in Sites : Agreed(k)
    BY DEF DecorInit, Agreed, OnBook
  <1>4. \A n \in PerformaNos : MadeOnce(n)
    BY DEF DecorInit, MadeOnce
  <1> QED
    BY <1>1, <1>2, <1>3, <1>4 DEF JobInv

(* A person's request moves to d, and what the others have read of the quotations still stands. *)
LEMMA DealMoves ==
    ASSUME JobInv, NEW s \in Sellers, NEW d, deal' = [deal EXCEPT ![s] = d],
           DealStands(d, quote'),
           d.op = "decide" => \A t \in Sellers \ {s} : deal[t].op = "decide" => deal[t].no # d.no,
           \A t \in Sellers \ {s} : deal[t].op = "decide" =>
                /\ quote'[deal[t].no] # NoQuote
                /\ quote'[deal[t].no].status = quote[deal[t].no].status
    PROVE  DealsStand' /\ OneDecides'
  <1> USE DEF JobInv
  <1>1. deal = [t \in Sellers |-> deal[t]]
    BY DEF DealsStand
  <1>2. deal'[s] = d /\ \A t \in Sellers \ {s} : deal'[t] = deal[t]
    BY <1>1
  <1>3. deal' = [t \in Sellers |-> deal'[t]]
    BY <1>1
  <1>4. \A t \in Sellers \ {s} : DealStands(deal'[t], quote')
    <2> SUFFICES ASSUME NEW t \in Sellers \ {s} PROVE DealStands(deal'[t], quote')
      OBVIOUS
    <2>1. DealStands(deal[t], quote) /\ deal'[t] = deal[t]
      BY <1>2 DEF DealsStand
    <2> QED
      BY <2>1 DEF DealStands, Quotation, SiteChanges
  <1>5. DealStands(deal'[s], quote')
    BY <1>2
  <1>6. DealsStand'
    BY <1>3, <1>4, <1>5 DEF DealsStand
  <1>7. OneDecides'
    BY <1>2 DEF OneDecides
  <1> QED
    BY <1>6, <1>7

(* A request that ends without touching a quotation others decide on. *)
LEMMA DealEnds ==
    ASSUME JobInv, NEW s \in Sellers, deal' = [deal EXCEPT ![s] = NoDeal],
           \A t \in Sellers \ {s} : deal[t].op = "decide" =>
                /\ quote'[deal[t].no] # NoQuote
                /\ quote'[deal[t].no].status = quote[deal[t].no].status
    PROVE  DealsStand' /\ OneDecides'
  <1> DEFINE d == NoDeal
  <1>1. d.op = "none"
    BY DecorRows
  <1>2. DealStands(d, quote')
    BY <1>1 DEF DealStands
  <1>3. deal' = [deal EXCEPT ![s] = d]
    OBVIOUS
  <1> HIDE DEF d
  <1> QED
    BY <1>1, <1>2, <1>3, DealMoves

LEMMA OthersStand ==
    ASSUME JobInv, NEW s \in Sellers
    PROVE  \A t \in Sellers \ {s} : deal[t].op = "decide" =>
                /\ deal[t].no \in PerformaNos
                /\ quote[deal[t].no] # NoQuote
                /\ deal[s].op = "decide" => deal[t].no # deal[s].no
  BY DEF JobInv, DealsStand, DealStands, OneDecides

-----------------------------------------------------------------------------
(* Clients. *)

(* A client's row is written; its contract is what is owed. *)
LEMMA SiteWritten ==
    ASSUME JobInv, NEW k \in Sites, NEW r \in SiteRow, NEW o \in Nat,
           site' = [site EXCEPT ![k] = r], owed' = [owed EXCEPT ![k] = o], r.contract = o
    PROVE  /\ site' \in [Sites -> {Unborn, Gone} \cup SiteRow] /\ owed' \in [Sites -> Nat]
           /\ \A j \in Sites : Agreed(j)'
  <1>1. site \in [Sites -> {Unborn, Gone} \cup SiteRow] /\ owed \in [Sites -> Nat]
    BY DEF JobInv, DecorTypeOK, SiteRow
  <1>2. site'[k] = r /\ owed'[k] = o /\ \A j \in Sites \ {k} : site'[j] = site[j] /\ owed'[j] = owed[j]
    BY <1>1
  <1>3. \A j \in Sites \ {k} : Agreed(j)'
    BY <1>2 DEF JobInv, Agreed, OnBook
  <1>4. Agreed(k)'
    BY <1>2 DEF Agreed
  <1> QED
    BY <1>1, <1>3, <1>4

LEMMA SiteKept ==
    ASSUME JobInv, UNCHANGED <<site, owed>>
    PROVE  /\ site' \in [Sites -> {Unborn, Gone} \cup SiteRow] /\ owed' \in [Sites -> Nat]
           /\ \A j \in Sites : Agreed(j)'
  BY DEF JobInv, DecorTypeOK, Agreed, OnBook, SiteRow

LEMMA QuotesKept ==
    ASSUME JobInv, UNCHANGED <<quote, made>>
    PROVE  /\ quote' \in [PerformaNos -> {NoQuote} \cup Quotation] /\ made' \in [PerformaNos -> SUBSET Sites]
           /\ \A n \in PerformaNos : MadeOnce(n)'
  BY DEF JobInv, DecorTypeOK, MadeOnce, Quotation

LEMMA JobInvFrom ==
    ASSUME (site' \in [Sites -> {Unborn, Gone} \cup SiteRow]), (owed' \in [Sites -> Nat]),
           (quote' \in [PerformaNos -> {NoQuote} \cup Quotation]), (made' \in [PerformaNos -> SUBSET Sites]),
           \A j \in Sites : Agreed(j)', \A n \in PerformaNos : MadeOnce(n)', DealsStand', OneDecides'
    PROVE  JobInv'
  BY DEF JobInv, DecorTypeOK, SiteRow, Quotation

LEMMA OnBookRow ==
    ASSUME JobInv, NEW k \in Sites, OnBook(k)
    PROVE  site[k] \in SiteRow /\ site[k].contract = owed[k]
  BY DEF JobInv, DecorTypeOK, OnBook, SiteRow, Agreed

LEMMA DealsKept ==
    ASSUME JobInv, UNCHANGED <<deal, quote>>
    PROVE  DealsStand' /\ OneDecides'
  BY DEF JobInv, DealsStand, DealStands, OneDecides

LEMMA AddClientKeeps ==
    ASSUME JobInv, NEW k \in Sites, NEW amount \in JobAmounts, AddClient(k, amount)
    PROVE  JobInv'
  <1>1. /\ site' = [site EXCEPT ![k] = Client(amount)] /\ owed' = [owed EXCEPT ![k] = amount]
        /\ UNCHANGED <<quote, made, deal>>
    BY DEF AddClient
  <1>2. Client(amount) \in SiteRow /\ Client(amount).contract = amount /\ amount \in Nat
    BY DecorRows, JobAmountsAssumption
  <1> DEFINE r == Client(amount)
  <1>3. r \in SiteRow /\ r.contract = amount /\ site' = [site EXCEPT ![k] = r]
    BY <1>1, <1>2
  <1> HIDE DEF r
  <1>4. /\ site' \in [Sites -> {Unborn, Gone} \cup SiteRow] /\ owed' \in [Sites -> Nat]
        /\ \A j \in Sites : Agreed(j)'
    BY <1>1, <1>2, <1>3, SiteWritten
  <1> QED
    BY <1>1, <1>4, QuotesKept, DealsKept, JobInvFrom

LEMMA BeginDealKeeps ==
    ASSUME JobInv, NEW s \in Sellers, NEW k \in Sites, NEW change \in SiteChanges, BeginDeal(s, k, change)
    PROVE  JobInv'
  <1> DEFINE d == [op |-> "change", site |-> k, change |-> change, read |-> site[k].contract]
  <1>1. deal' = [deal EXCEPT ![s] = d] /\ UNCHANGED <<site, owed, quote, made>>
    BY DEF BeginDeal
  <1>2. d.op = "change" /\ d.site = k /\ d.change = change
    OBVIOUS
  <1> HIDE DEF d
  <1>3. DealStands(d, quote')
    BY <1>2 DEF DealStands, SiteChanges
  <1>4. DealsStand' /\ OneDecides'
    BY <1>1, <1>2, <1>3, DealMoves, OthersStand
  <1> QED
    BY <1>1, <1>4, SiteKept, QuotesKept, JobInvFrom

LEMMA AddItemKeeps ==
    ASSUME JobInv, NEW s \in Sellers, NEW k \in Sites, AddItem(s, k)
    PROVE  JobInv'
  <1> DEFINE amount == deal[s].change.amount
             r == [site[k] EXCEPT !.contract = @ + amount, !.items = @ + 1]
  <1>1. /\ site' = [site EXCEPT ![k] = r] /\ owed' = [owed EXCEPT ![k] = owed[k] + amount]
        /\ deal' = [deal EXCEPT ![s] = NoDeal] /\ UNCHANGED <<quote, made>>
    BY DEF AddItem, AddedTo
  <1>2. amount \in Nat
    BY JobAmountsAssumption DEF AddItem, Deal, JobInv, DealsStand, DealStands, SiteChanges
  <1>3. site[k] \in SiteRow /\ site[k].contract = owed[k]
    BY OnBookRow DEF AddItem
  <1>4. r \in SiteRow /\ r.contract = owed[k] + amount /\ owed[k] + amount \in Nat
    <2> DEFINE counted == [site[k] EXCEPT !.contract = @ + amount]
    <2>1. counted \in SiteRow /\ counted.contract = owed[k] + amount
      BY <1>2, <1>3 DEF SiteRow
    <2>2. r = [counted EXCEPT !.items = @ + 1]
      BY <1>3 DEF SiteRow
    <2> HIDE DEF counted, r
    <2> QED
      BY <1>2, <1>3, <2>1, <2>2 DEF SiteRow
  <1> HIDE DEF r, amount
  <1>5. /\ site' \in [Sites -> {Unborn, Gone} \cup SiteRow] /\ owed' \in [Sites -> Nat]
        /\ \A j \in Sites : Agreed(j)'
    BY <1>1, <1>4, SiteWritten
  <1>6. DealsStand' /\ OneDecides'
    BY <1>1, DealEnds, OthersStand
  <1> QED
    BY <1>1, <1>5, <1>6, QuotesKept, JobInvFrom

LEMMA DeleteItemKeeps ==
    ASSUME JobInv, NEW s \in Sellers, NEW k \in Sites, DeleteItem(s, k)
    PROVE  JobInv'
  <1> DEFINE r == [site[k] EXCEPT !.items = @ - 1]
             o == owed[k]
  <1>1. /\ site' = [site EXCEPT ![k] = r] /\ owed' = owed /\ UNCHANGED <<quote, made, deal>>
    BY DEF DeleteItem
  <1>2. site[k] \in SiteRow /\ site[k].contract = owed[k] /\ site[k].items > 0
    BY OnBookRow DEF DeleteItem, MayWorkOn
  <1>3. r \in SiteRow /\ r.contract = o /\ o \in Nat
    BY <1>2 DEF SiteRow
  <1>4. owed' = [owed EXCEPT ![k] = o]
    BY <1>1 DEF JobInv, DecorTypeOK
  <1> HIDE DEF r, o
  <1>5. /\ site' \in [Sites -> {Unborn, Gone} \cup SiteRow] /\ owed' \in [Sites -> Nat]
        /\ \A j \in Sites : Agreed(j)'
    BY <1>1, <1>3, <1>4, SiteWritten
  <1> QED
    BY <1>1, <1>5, DealsKept, QuotesKept, JobInvFrom

LEMMA ReviseAmountKeeps ==
    ASSUME JobInv, NEW s \in Sellers, NEW k \in Sites, ReviseAmount(s, k)
    PROVE  JobInv'
  <1> DEFINE amount == deal[s].change.amount
             r == [site[k] EXCEPT !.contract = amount]
  <1>1. /\ site' = [site EXCEPT ![k] = r] /\ owed' = [owed EXCEPT ![k] = amount]
        /\ deal' = [deal EXCEPT ![s] = NoDeal] /\ UNCHANGED <<quote, made>>
    BY DEF ReviseAmount
  <1>2. amount \in Nat
    BY JobAmountsAssumption DEF ReviseAmount, Deal, JobInv, DealsStand, DealStands, SiteChanges
  <1>3. site[k] \in SiteRow
    BY OnBookRow DEF ReviseAmount
  <1>4. r \in SiteRow /\ r.contract = amount
    BY <1>2, <1>3 DEF SiteRow
  <1> HIDE DEF r, amount
  <1>5. /\ site' \in [Sites -> {Unborn, Gone} \cup SiteRow] /\ owed' \in [Sites -> Nat]
        /\ \A j \in Sites : Agreed(j)'
    BY <1>1, <1>2, <1>4, SiteWritten
  <1>6. DealsStand' /\ OneDecides'
    BY <1>1, DealEnds, OthersStand
  <1> QED
    BY <1>1, <1>5, <1>6, QuotesKept, JobInvFrom

LEMMA SetStatusKeeps ==
    ASSUME JobInv, NEW s \in Sellers, NEW k \in Sites, SetStatus(s, k)
    PROVE  JobInv'
  <1> DEFINE to == deal[s].change.to
             r == [site[k] EXCEPT !.status = to]
             o == owed[k]
  <1>1. /\ site' = [site EXCEPT ![k] = r] /\ owed' = owed
        /\ deal' = [deal EXCEPT ![s] = NoDeal] /\ UNCHANGED <<quote, made>>
    BY DEF SetStatus
  <1>2. to \in {"Active", "Completed", "Hidden"}
    BY DEF SetStatus, Deal, JobInv, DealsStand, DealStands, SiteChanges
  <1>3. site[k] \in SiteRow /\ site[k].contract = owed[k]
    BY OnBookRow DEF SetStatus
  <1>4. r \in SiteRow /\ r.contract = o /\ o \in Nat
    BY <1>2, <1>3 DEF SiteRow
  <1>5. owed' = [owed EXCEPT ![k] = o]
    BY <1>1 DEF JobInv, DecorTypeOK
  <1> HIDE DEF r, o, to
  <1>6. /\ site' \in [Sites -> {Unborn, Gone} \cup SiteRow] /\ owed' \in [Sites -> Nat]
        /\ \A j \in Sites : Agreed(j)'
    BY <1>1, <1>4, <1>5, SiteWritten
  <1>7. DealsStand' /\ OneDecides'
    BY <1>1, DealEnds, OthersStand
  <1> QED
    BY <1>1, <1>6, <1>7, QuotesKept, JobInvFrom

LEMMA DeleteClientKeeps ==
    ASSUME JobInv, NEW s \in Sellers, NEW k \in Sites, DeleteClient(s, k)
    PROVE  JobInv'
  <1>1. /\ site' = [site EXCEPT ![k] = Gone] /\ deal' = [deal EXCEPT ![s] = NoDeal]
        /\ quote' = [n \in PerformaNos |->
              IF quote[n] # NoQuote /\ quote[n].site = k THEN [quote[n] EXCEPT !.site = NoJob] ELSE quote[n]]
        /\ UNCHANGED <<owed, made>>
    BY DEF DeleteClient
  <1>2. /\ site \in [Sites -> {Unborn, Gone} \cup SiteRow] /\ owed \in [Sites -> Nat]
        /\ quote \in [PerformaNos -> {NoQuote} \cup Quotation] /\ made \in [PerformaNos -> SUBSET Sites]
    BY DEF JobInv, DecorTypeOK, SiteRow, Quotation
  <1>3. site' \in [Sites -> {Unborn, Gone} \cup SiteRow] /\ owed' \in [Sites -> Nat]
    BY <1>1, <1>2
  <1>4. \A j \in Sites : Agreed(j)'
    BY <1>1, <1>2 DEF JobInv, Agreed, OnBook
  <1>5. \A q \in Quotation : [q EXCEPT !.site = NoJob] \in Quotation /\ [q EXCEPT !.site = NoJob].status = q.status
    BY DEF Quotation
  <1>6. \A n \in PerformaNos : /\ quote'[n] \in {NoQuote} \cup Quotation
                               /\ quote'[n] = NoQuote <=> quote[n] = NoQuote
                               /\ quote[n] # NoQuote => quote'[n].status = quote[n].status
    <2> SUFFICES ASSUME NEW n \in PerformaNos
                 PROVE  /\ quote'[n] \in {NoQuote} \cup Quotation
                        /\ quote'[n] = NoQuote <=> quote[n] = NoQuote
                        /\ quote[n] # NoQuote => quote'[n].status = quote[n].status
      OBVIOUS
    <2>1. quote'[n] = IF quote[n] # NoQuote /\ quote[n].site = k THEN [quote[n] EXCEPT !.site = NoJob] ELSE quote[n]
      BY <1>1
    <2> QED
      BY <2>1, <1>2, <1>5, DecorRows
  <1>7. quote' \in [PerformaNos -> {NoQuote} \cup Quotation] /\ made' \in [PerformaNos -> SUBSET Sites]
    BY <1>1, <1>2, <1>6
  <1>8. \A n \in PerformaNos : MadeOnce(n)'
    BY <1>1, <1>6 DEF JobInv, MadeOnce
  <1>9. \A t \in Sellers \ {s} : deal[t].op = "decide" =>
            quote'[deal[t].no] # NoQuote /\ quote'[deal[t].no].status = quote[deal[t].no].status
    BY <1>6, OthersStand
  <1>10. DealsStand' /\ OneDecides'
    BY <1>1, <1>9, DealEnds
  <1> QED
    BY <1>3, <1>4, <1>7, <1>8, <1>10, JobInvFrom

LEMMA DealFailsKeeps ==
    ASSUME JobInv, NEW s \in Sellers, DealFails(s) \/ LeaveQuote(s)
    PROVE  JobInv'
  <1>1. deal' = [deal EXCEPT ![s] = NoDeal] /\ UNCHANGED <<site, owed, quote, made>>
    BY DEF DealFails, LeaveQuote, Decided
  <1>2. DealsStand' /\ OneDecides'
    BY <1>1, DealEnds, OthersStand
  <1> QED
    BY <1>1, <1>2, SiteKept, QuotesKept, JobInvFrom

-----------------------------------------------------------------------------
(* Quotations. *)

(* A quotation's row is written, with the clients it has been made into. *)
LEMMA QuoteWritten ==
    ASSUME JobInv, NEW n \in PerformaNos, NEW q \in Quotation \cup {NoQuote}, NEW m \in SUBSET Sites,
           quote' = [quote EXCEPT ![n] = q], made' = [made EXCEPT ![n] = m],
           m = {} \/ \E k \in Sites : m = {k},
           q # NoQuote => (q.status = "Approved" <=> m # {})
    PROVE  /\ quote' \in [PerformaNos -> {NoQuote} \cup Quotation] /\ made' \in [PerformaNos -> SUBSET Sites]
           /\ \A j \in PerformaNos : MadeOnce(j)'
           /\ quote'[n] = q /\ \A j \in PerformaNos \ {n} : quote'[j] = quote[j]
  <1>1. quote \in [PerformaNos -> {NoQuote} \cup Quotation] /\ made \in [PerformaNos -> SUBSET Sites]
    BY DEF JobInv, DecorTypeOK, Quotation
  <1>2. quote'[n] = q /\ made'[n] = m
        /\ \A j \in PerformaNos \ {n} : quote'[j] = quote[j] /\ made'[j] = made[j]
    BY <1>1
  <1>3. \A j \in PerformaNos \ {n} : MadeOnce(j)'
    BY <1>2 DEF JobInv, MadeOnce
  <1>4. MadeOnce(n)'
    BY <1>2 DEF MadeOnce
  <1> QED
    BY <1>1, <1>2, <1>3, <1>4

LEMMA BeginQuoteKeeps ==
    ASSUME JobInv, NEW s \in Sellers, NEW n \in PerformaNos, BeginQuote(s, n)
    PROVE  JobInv'
  <1> DEFINE d == [op |-> "quote", no |-> NumberFor(n)]
  <1>1. deal' = [deal EXCEPT ![s] = d] /\ UNCHANGED <<site, owed, quote, made>>
    BY DEF BeginQuote
  <1>2. d.op = "quote" /\ d.no \in PerformaNos
    BY DEF BeginQuote
  <1> HIDE DEF d
  <1>3. DealStands(d, quote')
    BY <1>2 DEF DealStands
  <1>4. DealsStand' /\ OneDecides'
    BY <1>1, <1>2, <1>3, DealMoves, OthersStand
  <1> QED
    BY <1>1, <1>4, SiteKept, QuotesKept, JobInvFrom

LEMMA BeginDecideKeeps ==
    ASSUME JobInv, NEW s \in Sellers, NEW n \in PerformaNos, BeginDecide(s, n)
    PROVE  JobInv'
  <1> DEFINE d == [op |-> "decide", no |-> n, row |-> quote[n]]
  <1>1. deal' = [deal EXCEPT ![s] = d] /\ UNCHANGED <<site, owed, quote, made>>
    BY DEF BeginDecide
  <1>2. d.op = "decide" /\ d.no = n /\ d.row = quote[n]
    OBVIOUS
  <1> HIDE DEF d
  <1>3. quote[n] # NoQuote /\ quote[n] \in Quotation
    BY DEF BeginDecide, JobInv, DecorTypeOK, Quotation
  <1>4. DealStands(d, quote')
    BY <1>1, <1>2, <1>3 DEF DealStands
  <1>5. \A t \in Sellers \ {s} : deal[t].op = "decide" => deal[t].no # n
    BY DEF BeginDecide, LockedByOther
  <1>6. DealsStand' /\ OneDecides'
    BY <1>1, <1>2, <1>4, <1>5, DealMoves, OthersStand
  <1> QED
    BY <1>1, <1>6, SiteKept, QuotesKept, JobInvFrom

LEMMA SaveQuoteKeeps ==
    ASSUME JobInv, NEW s \in Sellers, NEW total \in JobAmounts, SaveQuote(s, total)
    PROVE  JobInv'
  <1> DEFINE n == deal[s].no
             q == [status |-> "Lead", total |-> total, site |-> NoJob]
             m == {}
  <1>1. deal' = [deal EXCEPT ![s] = NoDeal] /\ UNCHANGED <<site, owed>>
    BY DEF SaveQuote
  <1>2. n \in PerformaNos
    BY DEF SaveQuote, JobInv, DealsStand, DealStands
  <1>3. CASE n \in Taken
    <2>1. UNCHANGED <<quote, made>>
      BY <1>3 DEF SaveQuote
    <2>2. DealsStand' /\ OneDecides'
      BY <1>1, <2>1, DealEnds, OthersStand
    <2> QED
      BY <1>1, <2>1, <2>2, SiteKept, QuotesKept, JobInvFrom
  <1>4. CASE n \notin Taken
    <2>1. quote' = [quote EXCEPT ![n] = q] /\ made' = [made EXCEPT ![n] = m]
      BY <1>4 DEF SaveQuote
    <2>2. q \in Quotation /\ q.status # "Approved" /\ m \in SUBSET Sites /\ m = {}
      BY DEF Quotation
    <2>3. quote[n] = NoQuote
      BY <1>2, <1>4 DEF Taken
    <2> HIDE DEF q, m, n
    <2>4. /\ quote' \in [PerformaNos -> {NoQuote} \cup Quotation] /\ made' \in [PerformaNos -> SUBSET Sites]
          /\ \A j \in PerformaNos : MadeOnce(j)'
          /\ quote'[n] = q /\ \A j \in PerformaNos \ {n} : quote'[j] = quote[j]
      BY <1>2, <2>1, <2>2, QuoteWritten
    <2>5. \A t \in Sellers \ {s} : deal[t].op = "decide" =>
              quote'[deal[t].no] # NoQuote /\ quote'[deal[t].no].status = quote[deal[t].no].status
      BY <2>3, <2>4, OthersStand
    <2>6. DealsStand' /\ OneDecides'
      BY <1>1, <2>5, DealEnds
    <2> QED
      BY <1>1, <2>4, <2>6, SiteKept, JobInvFrom
  <1> QED
    BY <1>3, <1>4

(* A decision writes the quotation it locked and ends. *)
LEMMA DecisionKeeps ==
    ASSUME JobInv, NEW s \in Sellers, deal[s].op = "decide",
           NEW q \in Quotation \cup {NoQuote}, NEW m \in SUBSET Sites,
           quote' = [quote EXCEPT ![deal[s].no] = q], made' = [made EXCEPT ![deal[s].no] = m],
           m = {} \/ \E k \in Sites : m = {k},
           q # NoQuote => (q.status = "Approved" <=> m # {}),
           deal' = [deal EXCEPT ![s] = NoDeal]
    PROVE  /\ quote' \in [PerformaNos -> {NoQuote} \cup Quotation] /\ made' \in [PerformaNos -> SUBSET Sites]
           /\ \A j \in PerformaNos : MadeOnce(j)'
           /\ DealsStand' /\ OneDecides'
  <1> DEFINE n == deal[s].no
  <1>1. n \in PerformaNos
    BY DEF JobInv, DealsStand, DealStands
  <1>2. quote' = [quote EXCEPT ![n] = q] /\ made' = [made EXCEPT ![n] = m]
    OBVIOUS
  <1>3. \A t \in Sellers \ {s} : deal[t].op = "decide" =>
            deal[t].no \in PerformaNos \ {n} /\ quote[deal[t].no] # NoQuote
    BY OthersStand
  <1> HIDE DEF n
  <1>4. /\ quote' \in [PerformaNos -> {NoQuote} \cup Quotation] /\ made' \in [PerformaNos -> SUBSET Sites]
        /\ \A j \in PerformaNos : MadeOnce(j)'
        /\ quote'[n] = q /\ \A j \in PerformaNos \ {n} : quote'[j] = quote[j]
    BY <1>1, <1>2, QuoteWritten
  <1>5. \A t \in Sellers \ {s} : deal[t].op = "decide" =>
            quote'[deal[t].no] # NoQuote /\ quote'[deal[t].no].status = quote[deal[t].no].status
    BY <1>3, <1>4
  <1>6. DealsStand' /\ OneDecides'
    BY <1>5, DealEnds
  <1> QED
    BY <1>4, <1>6

LEMMA LockedQuote ==
    ASSUME JobInv, NEW s \in Sellers, deal[s].op = "decide"
    PROVE  LET n == deal[s].no IN
           /\ n \in PerformaNos /\ quote[n] \in Quotation /\ deal[s].row \in Quotation
           /\ quote[n].status = deal[s].row.status
           /\ made[n] \in SUBSET Sites
           /\ made[n] = {} \/ \E k \in Sites : made[n] = {k}
           /\ quote[n].status = "Approved" <=> made[n] # {}
           /\ made = [made EXCEPT ![n] = made[n]]
  <1>1. /\ deal[s].no \in PerformaNos /\ deal[s].row \in Quotation
        /\ quote[deal[s].no] # NoQuote /\ quote[deal[s].no].status = deal[s].row.status
    BY DEF JobInv, DealsStand, DealStands
  <1>2. quote[deal[s].no] \in Quotation /\ made \in [PerformaNos -> SUBSET Sites]
    BY <1>1 DEF JobInv, DecorTypeOK, Quotation
  <1>3. MadeOnce(deal[s].no)
    BY <1>1 DEF JobInv
  <1> QED
    BY <1>1, <1>2, <1>3 DEF MadeOnce

LEMMA ApproveKeeps ==
    ASSUME JobInv, NEW s \in Sellers, NEW k \in Sites, ApproveQuote(s, k)
    PROVE  JobInv'
  <1> DEFINE total == deal[s].row.total
             q == [deal[s].row EXCEPT !.status = "Approved", !.site = k]
             m == {k}
             r == Client(total)
  <1>0. deal[s].op = "decide" /\ deal[s].row.status # "Approved"
    BY DEF ApproveQuote
  <1>1. deal[s].no \in PerformaNos /\ deal[s].row \in Quotation /\ made[deal[s].no] = {}
    BY <1>0, LockedQuote
  <1>2. made' = [made EXCEPT ![deal[s].no] = m]
    BY <1>1 DEF ApproveQuote, JobInv, DecorTypeOK
  <1>3. /\ site' = [site EXCEPT ![k] = r] /\ owed' = [owed EXCEPT ![k] = total]
        /\ quote' = [quote EXCEPT ![deal[s].no] = q] /\ deal' = [deal EXCEPT ![s] = NoDeal]
    BY DEF ApproveQuote, Decided
  <1>4. q \in Quotation /\ q.status = "Approved" /\ m \in SUBSET Sites /\ m = {k}
    BY <1>1 DEF Quotation
  <1>5. total \in JobAmounts
    BY <1>1 DEF Quotation
  <1>6. total \in Nat /\ r \in SiteRow /\ r.contract = total
    BY <1>5, DecorRows, JobAmountsAssumption
  <1> HIDE DEF total, q, m, r
  <1>7. /\ site' \in [Sites -> {Unborn, Gone} \cup SiteRow] /\ owed' \in [Sites -> Nat]
        /\ \A j \in Sites : Agreed(j)'
    BY <1>3, <1>6, SiteWritten
  <1>8. /\ quote' \in [PerformaNos -> {NoQuote} \cup Quotation] /\ made' \in [PerformaNos -> SUBSET Sites]
        /\ \A j \in PerformaNos : MadeOnce(j)'
        /\ DealsStand' /\ OneDecides'
    BY <1>0, <1>2, <1>3, <1>4, DecisionKeeps
  <1> QED
    BY <1>7, <1>8, JobInvFrom

LEMMA SetQuoteStatusKeeps ==
    ASSUME JobInv, NEW s \in Sellers, NEW status \in {"Lead", "Lost"}, SetQuoteStatus(s, status)
    PROVE  JobInv'
  <1> DEFINE q == [quote[deal[s].no] EXCEPT !.status = status]
             m == made[deal[s].no]
  <1>0. deal[s].op = "decide" /\ deal[s].row.status # "Approved"
    BY DEF SetQuoteStatus
  <1>1. quote[deal[s].no] \in Quotation /\ m = {} /\ m \in SUBSET Sites
        /\ made = [made EXCEPT ![deal[s].no] = m]
    BY <1>0, LockedQuote
  <1>2. /\ quote' = [quote EXCEPT ![deal[s].no] = q] /\ deal' = [deal EXCEPT ![s] = NoDeal]
        /\ UNCHANGED <<site, owed, made>>
    BY DEF SetQuoteStatus, Decided
  <1>3. q \in Quotation /\ q.status # "Approved"
    BY <1>1 DEF Quotation
  <1> HIDE DEF q, m
  <1>4. /\ quote' \in [PerformaNos -> {NoQuote} \cup Quotation] /\ made' \in [PerformaNos -> SUBSET Sites]
        /\ \A j \in PerformaNos : MadeOnce(j)'
        /\ DealsStand' /\ OneDecides'
    BY <1>0, <1>1, <1>2, <1>3, DecisionKeeps
  <1> QED
    BY <1>2, <1>4, SiteKept, JobInvFrom

LEMMA UpdateQuoteKeeps ==
    ASSUME JobInv, NEW s \in Sellers, NEW total \in JobAmounts, UpdateQuote(s, total)
    PROVE  JobInv'
  <1> DEFINE q == [quote[deal[s].no] EXCEPT !.total = total]
             m == made[deal[s].no]
  <1>0. deal[s].op = "decide"
    BY DEF UpdateQuote
  <1>1. /\ quote[deal[s].no] \in Quotation /\ m \in SUBSET Sites
        /\ made = [made EXCEPT ![deal[s].no] = m]
        /\ m = {} \/ \E k \in Sites : m = {k}
        /\ quote[deal[s].no].status = "Approved" <=> m # {}
    BY <1>0, LockedQuote
  <1>2. /\ quote' = [quote EXCEPT ![deal[s].no] = q] /\ deal' = [deal EXCEPT ![s] = NoDeal]
        /\ UNCHANGED <<site, owed, made>>
    BY DEF UpdateQuote, Decided
  <1>3. q \in Quotation /\ q.status = quote[deal[s].no].status
    BY <1>1 DEF Quotation
  <1> HIDE DEF q, m
  <1>4. /\ quote' \in [PerformaNos -> {NoQuote} \cup Quotation] /\ made' \in [PerformaNos -> SUBSET Sites]
        /\ \A j \in PerformaNos : MadeOnce(j)'
        /\ DealsStand' /\ OneDecides'
    BY <1>0, <1>1, <1>2, <1>3, DecisionKeeps
  <1> QED
    BY <1>2, <1>4, SiteKept, JobInvFrom

LEMMA DeleteQuoteKeeps ==
    ASSUME JobInv, NEW s \in Sellers, DeleteQuote(s)
    PROVE  JobInv'
  <1> DEFINE m == made[deal[s].no]
  <1>0. deal[s].op = "decide"
    BY DEF DeleteQuote
  <1>1. /\ m \in SUBSET Sites /\ made = [made EXCEPT ![deal[s].no] = m]
        /\ m = {} \/ \E k \in Sites : m = {k}
    BY <1>0, LockedQuote
  <1>2. /\ quote' = [quote EXCEPT ![deal[s].no] = NoQuote] /\ deal' = [deal EXCEPT ![s] = NoDeal]
        /\ UNCHANGED <<site, owed, made>>
    BY DEF DeleteQuote, Decided
  <1> DEFINE q == NoQuote
  <1>3. q = NoQuote /\ quote' = [quote EXCEPT ![deal[s].no] = q] /\ q \in Quotation \cup {NoQuote}
    BY <1>2
  <1> HIDE DEF q, m
  <1>4. /\ quote' \in [PerformaNos -> {NoQuote} \cup Quotation] /\ made' \in [PerformaNos -> SUBSET Sites]
        /\ \A j \in PerformaNos : MadeOnce(j)'
        /\ DealsStand' /\ OneDecides'
    BY <1>0, <1>1, <1>2, <1>3, DecisionKeeps
  <1> QED
    BY <1>2, <1>4, SiteKept, JobInvFrom

LEMMA DecorStep == JobInv /\ [DecorNext]_decorVars => JobInv'
  <1> SUFFICES ASSUME JobInv, [DecorNext]_decorVars PROVE JobInv'
    OBVIOUS
  <1>1. ASSUME NEW k \in Sites, NEW amount \in JobAmounts, AddClient(k, amount) PROVE JobInv'
    BY <1>1, AddClientKeeps
  <1>2. ASSUME NEW s \in Sellers, NEW k \in Sites, NEW change \in SiteChanges, BeginDeal(s, k, change)
        PROVE  JobInv'
    BY <1>2, BeginDealKeeps
  <1>3. ASSUME NEW s \in Sellers, NEW k \in Sites,
               AddItem(s, k) \/ DeleteItem(s, k) \/ ReviseAmount(s, k)
                   \/ SetStatus(s, k) \/ DeleteClient(s, k) \/ ApproveQuote(s, k)
        PROVE  JobInv'
    BY <1>3, AddItemKeeps, DeleteItemKeeps, ReviseAmountKeeps, SetStatusKeeps, DeleteClientKeeps, ApproveKeeps
  <1>4. ASSUME NEW s \in Sellers, DealFails(s) \/ DeleteQuote(s) \/ LeaveQuote(s) PROVE JobInv'
    BY <1>4, DealFailsKeeps, DeleteQuoteKeeps
  <1>5. ASSUME NEW s \in Sellers, NEW n \in PerformaNos, BeginQuote(s, n) \/ BeginDecide(s, n) PROVE JobInv'
    BY <1>5, BeginQuoteKeeps, BeginDecideKeeps
  <1>6. ASSUME NEW s \in Sellers, NEW total \in JobAmounts, SaveQuote(s, total) \/ UpdateQuote(s, total)
        PROVE  JobInv'
    BY <1>6, SaveQuoteKeeps, UpdateQuoteKeeps
  <1>7. ASSUME NEW s \in Sellers, NEW status \in {"Lead", "Lost"}, SetQuoteStatus(s, status) PROVE JobInv'
    BY <1>7, SetQuoteStatusKeeps
  <1>8. CASE UNCHANGED decorVars
    <2>1. UNCHANGED <<site, owed, quote, made, deal>>
      BY <1>8 DEF decorVars
    <2> QED
      BY <2>1, SiteKept, QuotesKept, DealsKept, JobInvFrom
  <1> QED
    BY <1>1, <1>2, <1>3, <1>4, <1>5, <1>6, <1>7, <1>8 DEF DecorNext

LEMMA DecorShows == JobInv => ContractAddsUp
  <1> SUFFICES ASSUME JobInv PROVE ContractAddsUp
    OBVIOUS
  <1>1. \A k \in Sites : OnBook(k) => site[k].contract = owed[k]
    BY DEF JobInv, Agreed
  <1>2. ASSUME NEW n \in PerformaNos
        PROVE  /\ Cardinality(made[n]) <= 1
               /\ quote[n] # NoQuote => (quote[n].status = "Approved" <=> made[n] # {})
    <2>1. MadeOnce(n)
      BY DEF JobInv
    <2>2. CASE made[n] = {}
      <3>1. Cardinality(made[n]) = 0
        BY <2>2, FS_EmptySet
      <3> QED
        BY <2>1, <3>1 DEF MadeOnce
    <2>3. ASSUME NEW k \in Sites, made[n] = {k} PROVE Cardinality(made[n]) = 1
      BY <2>3, FS_Singleton
    <2> QED
      BY <2>1, <2>2, <2>3 DEF MadeOnce
  <1> QED
    BY <1>1, <1>2 DEF ContractAddsUp

(* The jobs of VT Decor (app/decor.py): for any clients, quotations and people, a contract is what was last agreed *)
(* and every product since, and an approved quotation is one client.                                               *)
THEOREM ContractsAddUp == DecorSpec => []ContractAddsUp
  <1> QED
    BY DecorStart, DecorStep, DecorShows, PTL DEF DecorSpec

-----------------------------------------------------------------------------
(***************************************************************************)
(* Sums over finite sets.  The library states its induction theorems with an *)
(* operator for a parameter, which the provers cannot instantiate; its theorem *)
(* that the subsets of a finite set are well founded is first order, and of any *)
(* counterexamples to a law it gives a smallest one.                       *)
(***************************************************************************)

(* Of any subsets of a finite set one has no smaller one among them. *)
LEMMA SmallestSubset ==
    ASSUME NEW S, IsFiniteSet(S), NEW B, \A U \in B : U \subseteq S, B # {}
    PROVE  \E T \in B : \A U \in B : U \subseteq T => U = T
  <1>1. PICK T \in B : \A U \in B : ~(<<U, T>> \in StrictSubsetOrdering(S))
    BY FS_StrictSubsetOrderingWellFounded, FS_FiniteSubsetsOfFinite, WFMin
  <1> QED
    BY <1>1 DEF StrictSubsetOrdering

(* Of any numbers one is the smallest. *)
LEMMA Smallest ==
    ASSUME NEW B \in SUBSET Nat, B # {}
    PROVE  \E m \in B : \A n \in B : m <= n
  <1>1. PICK b \in B : TRUE
    OBVIOUS
  <1> DEFINE Below == {0..n : n \in {k \in B : k <= b}}
  <1>2. /\ \A U \in Below : U \subseteq 0..b
        /\ 0..b \in Below
        /\ \A n \in B : n <= b => 0..n \in Below
        /\ \A U \in Below : \E n \in B : U = 0..n /\ n <= b
    BY <1>1
  <1> HIDE DEF Below
  <1> DEFINE All == 0..b
  <1>6. IsFiniteSet(All) /\ (\A U \in Below : U \subseteq All) /\ Below # {}
    <2>1. IsFiniteSet(0..b)
      BY FS_Interval, b \in Int, 0 \in Int
    <2> QED
      BY <1>2, <2>1
  <1> HIDE DEF All
  <1>3. PICK T \in Below : \A U \in Below : U \subseteq T => U = T
    BY <1>6, SmallestSubset
  <1>4. PICK m \in B : T = 0..m /\ m <= b
    BY <1>2, <1>3
  <1>5. ASSUME NEW n \in B, n < m PROVE FALSE
    <2>1. 0..n \in Below /\ 0..n \subseteq 0..m
      BY <1>2, <1>4, <1>5
    <2>2. m \in 0..m /\ m \notin 0..n
      BY <1>5
    <2> QED
      BY <1>3, <1>4, <2>1, <2>2
  <1> QED
    BY <1>4, <1>5

First(s) == CHOOSE x \in s : TRUE

SumsOn(g, f, D) ==
    g = [s \in D |-> IF s = {} THEN 0 ELSE f[First(s)] + g[s \ {First(s)}]]

(* The sets are named by one argument, so that the lemmas about the functions can be cited. *)
Sums(g, f, S) == SumsOn(g, f, SUBSET S)

(* The function the folds choose, one element of a set at a time, exists. *)
LEMMA SumsExist ==
    ASSUME NEW S, IsFiniteSet(S), NEW f, \A x \in S : f[x] \in Int
    PROVE  \E g \in [SUBSET S -> Int] : Sums(g, f, S)
  <1> DEFINE Small(n) == {s \in SUBSET S : Cardinality(s) <= n}
             Good(n) == \E g \in [Small(n) -> Int] : SumsOn(g, f, Small(n))
             Bad == {n \in Nat : ~Good(n)}
  <1>1. Bad = {}
    <2> SUFFICES ASSUME Bad # {} PROVE FALSE
      OBVIOUS
    <2>1. PICK m \in Bad : \A n \in Bad : m <= n
      BY Smallest
    <2>2. CASE m = 0
      <3>1. \A s \in SUBSET S : Cardinality(s) <= 0 <=> s = {}
        BY FS_EmptySet, FS_Subset, FS_CardinalityType
      <3>2. Small(0) = {{}}
        BY <3>1
      <3> DEFINE zero == [s \in Small(0) |-> 0]
      <3>3. zero \in [Small(0) -> Int] /\ SumsOn(zero, f, Small(0))
        BY <3>2 DEF SumsOn
      <3> HIDE DEF zero
      <3>4. Good(0)
        BY <3>3
      <3> QED
        BY <2>1, <2>2, <3>4
    <2>3. CASE m # 0
      <3>1. m - 1 \in Nat /\ Good(m - 1)
        <4> HIDE DEF Good
        <4> QED
          BY <2>1, <2>3
      <3>2. PICK h \in [Small(m - 1) -> Int] : SumsOn(h, f, Small(m - 1))
        BY <3>1
      <3>3. \A s \in Small(m) : s # {} => First(s) \in s /\ First(s) \in S /\ s \ {First(s)} \in Small(m - 1)
        <4> TAKE s \in Small(m)
        <4> HAVE s # {}
        <4>1. First(s) \in s
          BY DEF First
        <4>2. IsFiniteSet(s)
          BY FS_Subset
        <4>3. Cardinality(s \ {First(s)}) = Cardinality(s) - 1 /\ Cardinality(s) \in Nat
          BY <4>1, <4>2, FS_RemoveElement, FS_CardinalityType
        <4> QED
          BY <4>1, <4>3
      <3>4. DEFINE g == [s \in Small(m) |-> IF s = {} THEN 0 ELSE f[First(s)] + h[s \ {First(s)}]]
      <3>5. g \in [Small(m) -> Int]
        BY <3>3
      <3>6. \A s \in Small(m - 1) : g[s] = h[s]
        <4> TAKE s \in Small(m - 1)
        <4>1. s \in Small(m)
          BY FS_Subset, FS_CardinalityType
        <4> QED
          BY <3>2, <4>1 DEF SumsOn
      <3>7. SumsOn(g, f, Small(m))
        BY <3>3, <3>6 DEF SumsOn
      <3> QED
        BY <2>1, <3>5, <3>7
    <2> QED
      BY <2>2, <2>3
  <1>2. Cardinality(S) \in Nat /\ Small(Cardinality(S)) = SUBSET S
    BY FS_CardinalityType, FS_Subset
  <1>3. Good(Cardinality(S))
    BY <1>1, <1>2
  <1> QED
    BY <1>2, <1>3 DEF Sums

(* Two such functions agree where the numbers they sum do. *)
LEMMA SumsAgree ==
    ASSUME NEW S, IsFiniteSet(S), NEW T, T \subseteq S, NEW f, NEW e, \A x \in T : f[x] = e[x],
           NEW g, Sums(g, f, S), NEW h, Sums(h, e, T)
    PROVE  g[T] = h[T]
  <1> DEFINE Bad == {s \in SUBSET T : g[s] # h[s]}
  <1>1. Bad = {}
    <2> SUFFICES ASSUME Bad # {} PROVE FALSE
      OBVIOUS
    <2>0. IsFiniteSet(T)
      BY FS_Subset
    <2>1. PICK s \in Bad : \A u \in Bad : u \subseteq s => u = s
      <3>1. Bad \in SUBSET (SUBSET T)
        OBVIOUS
      <3> HIDE DEF Bad
      <3> QED
        BY <2>0, <3>1, SmallestSubset
    <2>2. s # {} => First(s) \in s
      BY DEF First
    <2>3. s # {} => g[s \ {First(s)}] = h[s \ {First(s)}]
      BY <2>1, <2>2
    <2>4. /\ g[s] = IF s = {} THEN 0 ELSE f[First(s)] + g[s \ {First(s)}]
          /\ h[s] = IF s = {} THEN 0 ELSE e[First(s)] + h[s \ {First(s)}]
      BY DEF Sums, SumsOn
    <2> QED
      BY <2>1, <2>2, <2>3, <2>4
  <1> QED
    BY <1>1

(* SumFunctionOnSet, unfolded. *)
LEMMA SumIsSums ==
    ASSUME NEW S, IsFiniteSet(S), NEW f, \A x \in S : f[x] \in Int
    PROVE  \E g \in [SUBSET S -> Int] : Sums(g, f, S) /\ SumFunctionOnSet(f, S) = g[S]
  <1> DEFINE it == CHOOSE g : Sums(g, f, S)
  <1>1. SumFunctionOnSet(f, S) = it[S]
    BY DEF SumFunctionOnSet, FoldFunctionOnSet, MapThenFoldSet, Sums, SumsOn, First
  <1>2. PICK g \in [SUBSET S -> Int] : Sums(g, f, S)
    BY SumsExist
  <1>3. Sums(it, f, S)
    BY <1>2
  <1> HIDE DEF it
  <1>4. it[S] = g[S]
    <2>1. S \subseteq S /\ \A x \in S : f[x] = f[x]
      OBVIOUS
    <2> QED
      BY <1>2, <1>3, <2>1, SumsAgree
  <1> QED
    BY <1>1, <1>2, <1>4

(* Nothing adds up to 0. *)
LEMMA SumOfNone ==
    ASSUME NEW f
    PROVE  SumFunctionOnSet(f, {}) = 0
  <1>1. PICK g \in [SUBSET {} -> Int] : Sums(g, f, {}) /\ SumFunctionOnSet(f, {}) = g[{}]
    BY SumIsSums, FS_EmptySet
  <1> QED
    BY <1>1 DEF Sums, SumsOn

(* A sum of whole numbers is whole. *)
LEMMA SumIsInt ==
    ASSUME NEW S, IsFiniteSet(S), NEW f, \A x \in S : f[x] \in Int
    PROVE  SumFunctionOnSet(f, S) \in Int
  <1>1. PICK g \in [SUBSET S -> Int] : Sums(g, f, S) /\ SumFunctionOnSet(f, S) = g[S]
    BY SumIsSums
  <1> QED
    BY <1>1

(* A sum depends on nothing but the numbers summed. *)
LEMMA SumAgrees ==
    ASSUME NEW S, IsFiniteSet(S), NEW f, NEW e, \A x \in S : f[x] \in Int /\ e[x] = f[x]
    PROVE  SumFunctionOnSet(f, S) = SumFunctionOnSet(e, S)
  <1>1. PICK g \in [SUBSET S -> Int] : Sums(g, f, S) /\ SumFunctionOnSet(f, S) = g[S]
    BY SumIsSums
  <1>2. PICK h \in [SUBSET S -> Int] : Sums(h, e, S) /\ SumFunctionOnSet(e, S) = h[S]
    BY SumIsSums
  <1>3. S \subseteq S /\ \A x \in S : f[x] = e[x]
    OBVIOUS
  <1>4. g[S] = h[S]
    BY <1>1, <1>2, <1>3, SumsAgree
  <1> QED
    BY <1>1, <1>2, <1>4

(* Any element can be taken out of a sum, not only the one the fold chose. *)
LEMMA SumWithout ==
    ASSUME NEW S, IsFiniteSet(S), NEW f, \A x \in S : f[x] \in Int, NEW x \in S
    PROVE  SumFunctionOnSet(f, S) = f[x] + SumFunctionOnSet(f, S \ {x})
  <1>1. PICK g \in [SUBSET S -> Int] : Sums(g, f, S) /\ SumFunctionOnSet(f, S) = g[S]
    BY SumIsSums
  <1>2. PICK h \in [SUBSET (S \ {x}) -> Int] :
            Sums(h, f, S \ {x}) /\ SumFunctionOnSet(f, S \ {x}) = h[S \ {x}]
    BY SumIsSums, FS_RemoveElement
  <1>3. g[S \ {x}] = h[S \ {x}]
    <2> DEFINE T == S \ {x}
    <2>1. T \subseteq S /\ \A y \in T : f[y] = f[y]
      OBVIOUS
    <2>2. Sums(h, f, T)
      BY <1>2
    <2> HIDE DEF T
    <2>3. g[T] = h[T]
      BY <1>1, <2>1, <2>2, SumsAgree
    <2> QED
      BY <2>3 DEF T
  <1> DEFINE Bad == {s \in SUBSET S : \E y \in s : g[s] # f[y] + g[s \ {y}]}
  <1>4. Bad = {}
    <2> SUFFICES ASSUME Bad # {} PROVE FALSE
      OBVIOUS
    <2>1. PICK s \in Bad : \A u \in Bad : u \subseteq s => u = s
      <3>1. Bad \in SUBSET (SUBSET S)
        OBVIOUS
      <3> HIDE DEF Bad
      <3> QED
        BY <3>1, SmallestSubset
    <2>2. PICK y \in s : g[s] # f[y] + g[s \ {y}]
      BY <2>1
    <2> DEFINE z == First(s)
    <2>3. z \in s
      BY <2>2 DEF First
    <2>4. g[s] = f[z] + g[s \ {z}]
      BY <1>1, <2>2 DEF Sums, SumsOn
    <2> HIDE DEF z
    <2>5. y # z
      BY <2>2, <2>4
    <2>6. s \ {y} \notin Bad /\ s \ {z} \notin Bad
      BY <2>1, <2>2, <2>3
    <2>7. /\ g[s \ {z}] = f[y] + g[(s \ {z}) \ {y}]
          /\ g[s \ {y}] = f[z] + g[(s \ {y}) \ {z}]
      BY <2>1, <2>3, <2>5, <2>6
    <2>8. (s \ {z}) \ {y} = (s \ {y}) \ {z} /\ (s \ {z}) \ {y} \in SUBSET S
      BY <2>1
    <2>9. f[y] \in Int /\ f[z] \in Int /\ g[(s \ {z}) \ {y}] \in Int
      BY <2>1, <2>3, <2>8
    <2>10. g[(s \ {z}) \ {y}] = g[(s \ {y}) \ {z}]
      BY <2>8
    <2> DEFINE rest == g[(s \ {z}) \ {y}]
    <2>11. g[s] = f[z] + (f[y] + rest) /\ g[s] # f[y] + (f[z] + rest)
      BY <2>2, <2>4, <2>7, <2>10
    <2>12. rest \in Int
      BY <2>9
    <2> HIDE DEF rest
    <2> QED
      BY <2>9, <2>11, <2>12
  <1>5. g[S] = f[x] + g[S \ {x}]
    BY <1>4
  <1> QED
    BY <1>1, <1>2, <1>3, <1>5

(* A sum changes by what changes at one index. *)
LEMMA SumMoves ==
    ASSUME NEW S, IsFiniteSet(S), NEW T, IsFiniteSet(T), NEW x, S \ {x} = T \ {x},
           NEW f, NEW e, \A y \in S : f[y] \in Int, \A y \in T : e[y] \in Int,
           \A y \in S \ {x} : f[y] = e[y]
    PROVE  SumFunctionOnSet(e, T) - (IF x \in T THEN e[x] ELSE 0)
              = SumFunctionOnSet(f, S) - (IF x \in S THEN f[x] ELSE 0)
  <1> DEFINE R == S \ {x}
  <1>1. IsFiniteSet(R) /\ \A y \in R : f[y] \in Int /\ e[y] = f[y]
    BY FS_RemoveElement
  <1>2. SumFunctionOnSet(f, R) \in Int /\ SumFunctionOnSet(e, R) = SumFunctionOnSet(f, R)
    <2> HIDE DEF R
    <2> QED
      BY <1>1, SumIsInt, SumAgrees
  <1>3. SumFunctionOnSet(f, S) = (IF x \in S THEN f[x] ELSE 0) + SumFunctionOnSet(f, R)
    <2>1. CASE x \in S
      BY <2>1, SumWithout
    <2>2. CASE x \notin S
      <3>1. R = S
        BY <2>2
      <3> QED
        BY <1>2, <2>2, <3>1
    <2> QED
      BY <2>1, <2>2
  <1>4. SumFunctionOnSet(e, T) = (IF x \in T THEN e[x] ELSE 0) + SumFunctionOnSet(e, R)
    <2>1. CASE x \in T
      BY <2>1, SumWithout
    <2>2. CASE x \notin T
      <3>1. R = T
        BY <2>2
      <3>2. SumFunctionOnSet(e, T) = SumFunctionOnSet(e, R)
        BY <3>1
      <3> HIDE DEF R
      <3> QED
        BY <1>2, <2>2, <3>2
    <2> QED
      BY <2>1, <2>2
  <1> QED
    BY <1>2, <1>3, <1>4

(* Sums over parts that have nothing in common add up. *)
LEMMA SumOfParts ==
    ASSUME NEW S, IsFiniteSet(S), NEW T, IsFiniteSet(T), S \cap T = {}, NEW f, \A x \in S \cup T : f[x] \in Int
    PROVE  SumFunctionOnSet(f, S \cup T) = SumFunctionOnSet(f, S) + SumFunctionOnSet(f, T)
  <1> DEFINE Adds(u) == SumFunctionOnSet(f, S \cup u) = SumFunctionOnSet(f, S) + SumFunctionOnSet(f, u)
             Bad == {u \in SUBSET T : ~Adds(u)}
  <1>1. Bad = {}
    <2> SUFFICES ASSUME Bad # {} PROVE FALSE
      OBVIOUS
    <2>1. PICK u \in Bad : \A v \in Bad : v \subseteq u => v = u
      <3>1. Bad \in SUBSET (SUBSET T)
        OBVIOUS
      <3> HIDE DEF Bad
      <3> QED
        BY <3>1, SmallestSubset
    <2>2. u \subseteq T /\ ~Adds(u)
      BY <2>1
    <2>3. SumFunctionOnSet(f, S) \in Int
      BY SumIsInt
    <2>4. u # {}
      <3> SUFFICES ASSUME u = {} PROVE FALSE
        OBVIOUS
      <3>1. S \cup u = S /\ SumFunctionOnSet(f, u) = 0
        BY SumOfNone
      <3>2. SumFunctionOnSet(f, S \cup u) = SumFunctionOnSet(f, S)
        BY <3>1
      <3> QED
        BY <2>2, <2>3, <3>1, <3>2
    <2>5. PICK x \in u : TRUE
      BY <2>4
    <2> DEFINE v == u \ {x}
               all == S \cup u
    <2>6. Adds(v)
      BY <2>1, <2>5
    <2>7. /\ IsFiniteSet(u) /\ IsFiniteSet(v) /\ IsFiniteSet(all) /\ x \in all
          /\ all \ {x} = S \cup v
          /\ (\A y \in u : f[y] \in Int) /\ (\A y \in v : f[y] \in Int) /\ (\A y \in all : f[y] \in Int)
      BY <2>2, <2>5, FS_Subset, FS_Union
    <2>8. SumFunctionOnSet(f, u) = f[x] + SumFunctionOnSet(f, v)
      BY <2>5, <2>7, SumWithout
    <2>9. SumFunctionOnSet(f, v) \in Int /\ f[x] \in Int
      BY <2>5, <2>7, SumIsInt
    <2> HIDE DEF all
    <2>10. SumFunctionOnSet(f, all) = f[x] + SumFunctionOnSet(f, all \ {x})
      BY <2>7, SumWithout
    <2>11. SumFunctionOnSet(f, all) = f[x] + SumFunctionOnSet(f, S \cup v)
      BY <2>7, <2>10
    <2> QED
      BY <2>2, <2>3, <2>6, <2>8, <2>9, <2>11 DEF all
  <1> QED
    BY <1>1

-----------------------------------------------------------------------------
(***************************************************************************)
(* Delegation: the scoreboard.                                             *)
(***************************************************************************)
(* What a task and a piece of extra work bring a person. *)
TaskWorth(r, p) == IF r # NoRow /\ r.score # NoScore /\ r.owner = p THEN r.score ELSE 0
ExtraWorth(r, p) == IF r.status = "Approved" /\ r.author = p THEN Points(r.points) ELSE 0

(* The score of a submitted task is what its submission earned. *)
ScoreStands(r) ==
    r.score # NoScore =>
        r.score = (IF r.doneInTime THEN OnTime ELSE Late) + r.revisions * Revise + r.extensions * Extend

TaskFits(r) ==
    r # NoRow => /\ r \in Task
                 /\ r.score # NoScore <=> r.status \in {"CompletedByStaff", "Approved"}
                 /\ ScoreStands(r)

ExtraFits(r) == r = NoRow \/ (r \in ExtraWork /\ (r.status # "Approved" => r.points = NoScore))

ScoresInv ==
    /\ today \in Days /\ managers \subseteq Staff /\ editors \subseteq Staff
    /\ task = [t \in TaskIds |-> task[t]] /\ \A t \in TaskIds : TaskFits(task[t])
    /\ extra = [x \in ExtraIds |-> extra[x]] /\ \A x \in ExtraIds : ExtraFits(extra[x])
    /\ granted \in [Staff -> Int]
    /\ \A p \in Staff : TotalScore(p) = granted[p]

(* What the rows of tasks and of extra work have in common, and what tells them apart. *)
LEMMA RowFacts ==
    /\ NoRow.status = "none"
    /\ \A r \in Task : r # NoRow /\ r.owner \in Staff /\ r.score \in Int \cup {NoScore}
                       /\ r.revisions \in Nat /\ r.extensions \in Nat /\ r.doneInTime \in BOOLEAN
                       /\ r.status \in {"Pending", "CompletedByStaff", "Approved", "Rejected"}
    /\ \A r \in ExtraWork : r # NoRow /\ r.author \in Staff /\ r.points \in Int \cup {NoScore}
                       /\ r.status \in {"Pending", "Approved", "Rejected"}
    /\ \A r \in Task, p \in Staff : TaskWorth(r, p) \in Int
  <1>1. NoRow.status = "none" /\ \A r \in Task \cup ExtraWork : r # NoRow
    BY DEF NoRow, Task, ExtraWork
  <1> QED
    BY <1>1 DEF Task, ExtraWork, TaskWorth

LEMMA PointsAreInt ==
    ASSUME NEW s \in Int \cup {NoScore} PROVE Points(s) \in Int
  BY DEF Points

LEMMA SumsAreInt ==
    ASSUME ScoresInv, NEW p \in Staff
    PROVE  /\ SumFunction([t \in ScoredTasks(p) |-> task[t].score]) \in Int
           /\ SumFunction([x \in ApprovedWork(p) |-> Points(extra[x].points)]) \in Int
  <1>1. /\ IsFiniteSet(ScoredTasks(p)) /\ IsFiniteSet(ApprovedWork(p))
        /\ ScoredTasks(p) \subseteq TaskIds /\ ApprovedWork(p) \subseteq ExtraIds
    BY FS_Subset, ScoringAssumption DEF ScoredTasks, ApprovedWork
  <1>2. \A t \in ScoredTasks(p) : [u \in ScoredTasks(p) |-> task[u].score][t] \in Int
    BY RowFacts DEF ScoresInv, TaskFits, ScoredTasks
  <1>3. \A x \in ApprovedWork(p) : [y \in ApprovedWork(p) |-> Points(extra[y].points)][x] \in Int
    BY RowFacts, PointsAreInt DEF ScoresInv, ExtraFits, ApprovedWork
  <1> QED
    BY <1>1, <1>2, <1>3, SumIsInt DEF SumFunction

(* A task's row is written: the scoreboard moves by what it brings. *)
LEMMA TaskMoves ==
    ASSUME ScoresInv, NEW t \in TaskIds, NEW row, TaskFits(row), row # NoRow,
           task' = [task EXCEPT ![t] = row], UNCHANGED extra, NEW p \in Staff
    PROVE  TotalScore(p)' = TotalScore(p) - TaskWorth(task[t], p) + TaskWorth(row, p)
  <1> DEFINE S == ScoredTasks(p)
             T == ScoredTasks(p)'
             f == [u \in S |-> task[u].score]
             e == [u \in T |-> task'[u].score]
             work == SumFunction([x \in ApprovedWork(p) |-> Points(extra[x].points)])
  <1>1. task'[t] = row /\ \A u \in TaskIds \ {t} : task'[u] = task[u]
    BY DEF ScoresInv
  <1>2. \A u \in TaskIds : TaskFits(task[u]) /\ TaskFits(task'[u])
    BY <1>1 DEF ScoresInv
  <1>3. S = {u \in TaskIds : task[u] # NoRow /\ task[u].score # NoScore /\ task[u].owner = p}
    BY DEF ScoredTasks
  <1>4. T = {u \in TaskIds : task'[u] # NoRow /\ task'[u].score # NoScore /\ task'[u].owner = p}
    BY DEF ScoredTasks
  <1>5. S \ {t} = T \ {t}
    BY <1>1, <1>3, <1>4
  <1>6. IsFiniteSet(S) /\ IsFiniteSet(T)
    BY <1>3, <1>4, FS_Subset, ScoringAssumption
  <1>7. (\A u \in S : f[u] \in Int) /\ (\A u \in T : e[u] \in Int)
    BY <1>2, <1>3, <1>4, RowFacts DEF TaskFits
  <1>8. \A u \in S \ {t} : f[u] = e[u]
    BY <1>1, <1>3, <1>4
  <1>9. /\ TaskWorth(task[t], p) = IF t \in S THEN f[t] ELSE 0
        /\ TaskWorth(row, p) = IF t \in T THEN e[t] ELSE 0
    BY <1>1, <1>3, <1>4 DEF TaskWorth
  <1>10. TotalScore(p) = SumFunctionOnSet(f, S) + work
    BY DEF TotalScore, SumFunction
  <1>11. TotalScore(p)' = SumFunctionOnSet(e, T) + work
    BY DEF TotalScore, SumFunction, ApprovedWork, Points
  <1>12. work \in Int
    BY SumsAreInt
  <1> HIDE DEF S, T, f, e, work
  <1>13. /\ SumFunctionOnSet(f, S) \in Int /\ SumFunctionOnSet(e, T) \in Int
         /\ SumFunctionOnSet(e, T) - (IF t \in T THEN e[t] ELSE 0)
              = SumFunctionOnSet(f, S) - (IF t \in S THEN f[t] ELSE 0)
    BY <1>5, <1>6, <1>7, <1>8, SumIsInt, SumMoves
  <1>14. (t \in T => e[t] \in Int) /\ (t \in S => f[t] \in Int)
    BY <1>7
  <1> QED
    BY <1>9, <1>10, <1>11, <1>12, <1>13, <1>14

(* The same of extra work. *)
LEMMA ExtraMoves ==
    ASSUME ScoresInv, NEW i \in ExtraIds, NEW row, ExtraFits(row), row # NoRow,
           extra' = [extra EXCEPT ![i] = row], UNCHANGED task, NEW p \in Staff
    PROVE  TotalScore(p)' = TotalScore(p) - ExtraWorth(extra[i], p) + ExtraWorth(row, p)
  <1> DEFINE S == ApprovedWork(p)
             T == ApprovedWork(p)'
             f == [x \in S |-> Points(extra[x].points)]
             e == [x \in T |-> Points(extra'[x].points)]
             tasks == SumFunction([t \in ScoredTasks(p) |-> task[t].score])
  <1>1. extra'[i] = row /\ \A x \in ExtraIds \ {i} : extra'[x] = extra[x]
    BY DEF ScoresInv
  <1>2. \A x \in ExtraIds : ExtraFits(extra[x]) /\ ExtraFits(extra'[x])
    BY <1>1 DEF ScoresInv
  <1>3. S = {x \in ExtraIds : extra[x].status = "Approved" /\ extra[x].author = p}
    BY DEF ApprovedWork
  <1>4. T = {x \in ExtraIds : extra'[x].status = "Approved" /\ extra'[x].author = p}
    BY DEF ApprovedWork
  <1>5. S \ {i} = T \ {i}
    BY <1>1, <1>3, <1>4
  <1>6. IsFiniteSet(S) /\ IsFiniteSet(T)
    BY <1>3, <1>4, FS_Subset, ScoringAssumption
  <1>7. (\A x \in S : f[x] \in Int) /\ (\A x \in T : e[x] \in Int)
    BY <1>2, <1>3, <1>4, RowFacts, PointsAreInt DEF ExtraFits
  <1>8. \A x \in S \ {i} : f[x] = e[x]
    BY <1>1, <1>3, <1>4
  <1>9. /\ ExtraWorth(extra[i], p) = IF i \in S THEN f[i] ELSE 0
        /\ ExtraWorth(row, p) = IF i \in T THEN e[i] ELSE 0
    BY <1>1, <1>3, <1>4 DEF ExtraWorth
  <1>10. TotalScore(p) = tasks + SumFunctionOnSet(f, S)
    BY DEF TotalScore, SumFunction
  <1>11. TotalScore(p)' = tasks + SumFunctionOnSet(e, T)
    BY DEF TotalScore, SumFunction, ScoredTasks, Points
  <1>12. tasks \in Int
    BY SumsAreInt
  <1> HIDE DEF S, T, f, e, tasks
  <1>13. /\ SumFunctionOnSet(f, S) \in Int /\ SumFunctionOnSet(e, T) \in Int
         /\ SumFunctionOnSet(e, T) - (IF i \in T THEN e[i] ELSE 0)
              = SumFunctionOnSet(f, S) - (IF i \in S THEN f[i] ELSE 0)
    BY <1>5, <1>6, <1>7, <1>8, SumIsInt, SumMoves
  <1>14. (i \in T => e[i] \in Int) /\ (i \in S => f[i] \in Int)
    BY <1>7
  <1> QED
    BY <1>9, <1>10, <1>11, <1>12, <1>13, <1>14

(* A task's row is written and its owner told of the difference. *)
LEMMA TaskKeeps ==
    ASSUME ScoresInv, NEW t \in TaskIds, NEW row, TaskFits(row), row # NoRow,
           task' = [task EXCEPT ![t] = row], UNCHANGED <<today, managers, editors, extra>>,
           granted' \in [Staff -> Int],
           \A p \in Staff : granted'[p] = granted[p] - TaskWorth(task[t], p) + TaskWorth(row, p)
    PROVE  ScoresInv'
  <1>1. \A p \in Staff : TotalScore(p)' = granted'[p]
    BY TaskMoves DEF ScoresInv
  <1>2. task' = [u \in TaskIds |-> task'[u]] /\ \A u \in TaskIds : TaskFits(task[u])'
    <2>1. \A u \in TaskIds : TaskFits(task'[u])
      BY DEF ScoresInv
    <2> QED
      BY <2>1 DEF ScoresInv, TaskFits, ScoreStands
  <1> QED
    BY <1>1, <1>2 DEF ScoresInv, ExtraFits

LEMMA ExtraKeeps ==
    ASSUME ScoresInv, NEW i \in ExtraIds, NEW row, ExtraFits(row), row # NoRow,
           extra' = [extra EXCEPT ![i] = row], UNCHANGED <<today, managers, editors, task>>,
           granted' \in [Staff -> Int],
           \A p \in Staff : granted'[p] = granted[p] - ExtraWorth(extra[i], p) + ExtraWorth(row, p)
    PROVE  ScoresInv'
  <1>1. \A p \in Staff : TotalScore(p)' = granted'[p]
    BY ExtraMoves DEF ScoresInv
  <1>2. extra' = [x \in ExtraIds |-> extra'[x]] /\ \A x \in ExtraIds : ExtraFits(extra[x])'
    <2>1. \A x \in ExtraIds : ExtraFits(extra'[x])
      BY DEF ScoresInv
    <2> QED
      BY <2>1 DEF ScoresInv, ExtraFits
  <1> QED
    BY <1>1, <1>2 DEF ScoresInv, TaskFits, ScoreStands

(* Neither the rows nor the points change. *)
LEMMA ScoresIdle ==
    ASSUME ScoresInv, today' \in Days, managers' \subseteq Staff, editors' \subseteq Staff,
           UNCHANGED <<task, extra, granted>>
    PROVE  ScoresInv'
  <1>1. \A p \in Staff : TotalScore(p)' = TotalScore(p)
    BY DEF TotalScore, ScoredTasks, ApprovedWork, Points
  <1> QED
    BY <1>1 DEF ScoresInv, TaskFits, ScoreStands, ExtraFits

LEMMA ScoresStart == DelegationInit => ScoresInv
  <1> SUFFICES ASSUME DelegationInit PROVE ScoresInv
    OBVIOUS
  <1>1. ASSUME NEW p \in Staff PROVE TotalScore(p) = 0
    <2>1. ScoredTasks(p) = {} /\ ApprovedWork(p) = {}
      BY RowFacts DEF DelegationInit, ScoredTasks, ApprovedWork
    <2> QED
      BY <2>1, SumOfNone DEF TotalScore, SumFunction
  <1>2. today \in Days
    BY LastDayAssumption DEF DelegationInit, DayOne, Days
  <1> QED
    BY <1>1, <1>2 DEF DelegationInit, ScoresInv, TaskFits, ExtraFits

(* Points told to one person. *)
LEMMA Granted ==
    ASSUME granted \in [Staff -> Int], NEW p \in Staff, NEW n \in Int, Grant(p, n)
    PROVE  /\ granted' \in [Staff -> Int]
           /\ \A q \in Staff : granted'[q] = IF q = p THEN granted[q] + n ELSE granted[q]
  BY DEF Grant

LEMMA AssignKeeps ==
    ASSUME ScoresInv, NEW p \in Actors, NEW t \in TaskIds, NEW owner \in Staff, NEW due \in Days, Assign(p, t, owner, due)
    PROVE  ScoresInv'
  <1> DEFINE row == [owner |-> owner, due |-> due, status |-> "Pending", score |-> NoScore,
                     revisions |-> 0, extensions |-> 0, doneInTime |-> FALSE]
  <1>1. row \in Task /\ row.status = "Pending" /\ row.score = NoScore
    BY DEF Task
  <1>2. task[t] = NoRow /\ task' = [task EXCEPT ![t] = row]
        /\ UNCHANGED <<today, managers, editors, extra, granted>>
    BY DEF Assign
  <1> HIDE DEF row
  <1>3. TaskFits(row) /\ row # NoRow
    BY <1>1, RowFacts DEF TaskFits, ScoreStands
  <1>4. \A q \in Staff : TaskWorth(row, q) = 0 /\ TaskWorth(task[t], q) = 0
    BY <1>1, <1>2 DEF TaskWorth
  <1>5. granted' \in [Staff -> Int] /\ \A q \in Staff : granted'[q] = granted[q] - TaskWorth(task[t], q) + TaskWorth(row, q)
    BY <1>2, <1>4 DEF ScoresInv
  <1> QED
    BY <1>2, <1>3, <1>5, TaskKeeps

LEMMA EarnedIsInt ==
    ASSUME NEW r \in Task
    PROVE  /\ Earned(r) \in Int
           /\ Earned(r) = (IF today <= r.due THEN OnTime ELSE Late) + r.revisions * Revise + r.extensions * Extend
  <1>1. r.revisions * Revise \in Int /\ r.extensions * Extend \in Int
    BY RowFacts, ScoringAssumption
  <1>2. OnTime \in Int /\ Late \in Int
    BY ScoringAssumption
  <1> QED
    BY <1>1, <1>2 DEF Earned

LEMMA CompleteKeeps ==
    ASSUME ScoresInv, NEW p \in Actors, NEW t \in TaskIds, Complete(p, t)
    PROVE  ScoresInv'
  <1> DEFINE r == task[t]
             row == [r EXCEPT !.status = "CompletedByStaff", !.score = Earned(r), !.doneInTime = (today <= r.due)]
  <1>1. r \in Task /\ r.score = NoScore /\ r # NoRow /\ r.owner \in Staff
    BY RowFacts DEF ScoresInv, TaskFits, Complete
  <1>2. task' = [task EXCEPT ![t] = row] /\ Grant(r.owner, Earned(r)) /\ UNCHANGED <<today, managers, editors, extra>>
    BY DEF Complete
  <1>3. /\ row \in Task /\ row.status = "CompletedByStaff" /\ row.score = Earned(r) /\ row.doneInTime = (today <= r.due)
        /\ row.owner = r.owner /\ row.revisions = r.revisions /\ row.extensions = r.extensions
    <2>1. (today <= r.due) \in BOOLEAN /\ Earned(r) \in Int
      BY <1>1, EarnedIsInt
    <2> QED
      BY <1>1, <2>1 DEF Task
  <1>4. Earned(r) \in Int /\ Earned(r) # NoScore
        /\ Earned(r) = (IF today <= r.due THEN OnTime ELSE Late) + r.revisions * Revise + r.extensions * Extend
    BY <1>1, EarnedIsInt, ScoringAssumption
  <1> HIDE DEF row, r
  <1>5. TaskFits(row) /\ row # NoRow
    BY <1>3, <1>4, RowFacts DEF TaskFits, ScoreStands
  <1>6. /\ granted' \in [Staff -> Int]
        /\ \A q \in Staff : granted'[q] = granted[q] - TaskWorth(r, q) + TaskWorth(row, q)
    <2>1. \A q \in Staff : TaskWorth(r, q) = 0 /\ TaskWorth(row, q) = IF q = r.owner THEN Earned(r) ELSE 0
      BY <1>1, <1>3, <1>4, <1>5 DEF TaskWorth
    <2> QED
      BY <1>1, <1>2, <1>4, <2>1, Granted DEF ScoresInv
  <1> QED
    BY <1>2, <1>5, <1>6, TaskKeeps DEF r

LEMMA SendBackKeeps ==
    ASSUME ScoresInv, NEW p \in Actors, NEW t \in TaskIds, SendBack(p, t)
    PROVE  ScoresInv'
  <1> DEFINE r == task[t]
             row == [r EXCEPT !.status = "Pending", !.score = NoScore, !.revisions = r.revisions + 1]
  <1>1. r \in Task /\ r.score # NoScore /\ r.score \in Int /\ r # NoRow /\ r.owner \in Staff
    BY RowFacts DEF ScoresInv, TaskFits, SendBack
  <1>2. task' = [task EXCEPT ![t] = row] /\ Grant(r.owner, -Points(r.score)) /\ UNCHANGED <<today, managers, editors, extra>>
    BY DEF SendBack
  <1>3. row \in Task /\ row.status = "Pending" /\ row.score = NoScore /\ row.owner = r.owner
    <2>1. r.revisions + 1 \in Nat
      BY <1>1, RowFacts
    <2> QED
      BY <1>1, <2>1 DEF Task
  <1> HIDE DEF row, r
  <1>4. TaskFits(row) /\ row # NoRow
    BY <1>3, RowFacts DEF TaskFits, ScoreStands
  <1>5. /\ granted' \in [Staff -> Int]
        /\ \A q \in Staff : granted'[q] = granted[q] - TaskWorth(r, q) + TaskWorth(row, q)
    <2>1. \A q \in Staff : TaskWorth(row, q) = 0 /\ TaskWorth(r, q) = IF q = r.owner THEN r.score ELSE 0
      BY <1>1, <1>3 DEF TaskWorth
    <2>2. -Points(r.score) = -r.score /\ -r.score \in Int
      BY <1>1 DEF Points
    <2> QED
      BY <1>1, <1>2, <2>1, <2>2, Granted DEF ScoresInv
  <1> QED
    BY <1>2, <1>4, <1>5, TaskKeeps DEF r

LEMMA RejectKeeps ==
    ASSUME ScoresInv, NEW p \in Actors, NEW t \in TaskIds, Reject(p, t)
    PROVE  ScoresInv'
  <1> DEFINE r == task[t]
             row == [r EXCEPT !.status = "Rejected", !.score = NoScore]
  <1>1. r \in Task /\ r.score # NoScore /\ r.score \in Int /\ r # NoRow /\ r.owner \in Staff
    BY RowFacts DEF ScoresInv, TaskFits, Reject
  <1>2. task' = [task EXCEPT ![t] = row] /\ Grant(r.owner, -Points(r.score)) /\ UNCHANGED <<today, managers, editors, extra>>
    BY DEF Reject
  <1>3. row \in Task /\ row.status = "Rejected" /\ row.score = NoScore /\ row.owner = r.owner
    BY <1>1 DEF Task
  <1> HIDE DEF row, r
  <1>4. TaskFits(row) /\ row # NoRow
    BY <1>3, RowFacts DEF TaskFits, ScoreStands
  <1>5. /\ granted' \in [Staff -> Int]
        /\ \A q \in Staff : granted'[q] = granted[q] - TaskWorth(r, q) + TaskWorth(row, q)
    <2>1. \A q \in Staff : TaskWorth(row, q) = 0 /\ TaskWorth(r, q) = IF q = r.owner THEN r.score ELSE 0
      BY <1>1, <1>3 DEF TaskWorth
    <2>2. -Points(r.score) = -r.score /\ -r.score \in Int
      BY <1>1 DEF Points
    <2> QED
      BY <1>1, <1>2, <2>1, <2>2, Granted DEF ScoresInv
  <1> QED
    BY <1>2, <1>4, <1>5, TaskKeeps DEF r

(* What is written beside the score moves no points. *)
LEMMA ScoreStays ==
    ASSUME ScoresInv, NEW t \in TaskIds, NEW row \in Task, task[t] # NoRow, TaskFits(row),
           row.score = task[t].score, row.owner = task[t].owner \/ row.score = NoScore,
           task' = [task EXCEPT ![t] = row], UNCHANGED <<today, managers, editors, extra, granted>>
    PROVE  ScoresInv'
  <1>1. \A q \in Staff : TaskWorth(row, q) = TaskWorth(task[t], q)
    BY RowFacts DEF TaskWorth
  <1>2. /\ granted' \in [Staff -> Int]
        /\ \A q \in Staff : granted'[q] = granted[q] - TaskWorth(task[t], q) + TaskWorth(row, q)
    <2>1. \A q \in Staff : TaskWorth(row, q) \in Int /\ granted[q] \in Int
      BY RowFacts DEF ScoresInv
    <2> QED
      BY <1>1, <2>1 DEF ScoresInv
  <1> QED
    BY <1>2, RowFacts, TaskKeeps

LEMMA ApproveTaskKeeps ==
    ASSUME ScoresInv, NEW p \in Actors, NEW t \in TaskIds, Approve(p, t)
    PROVE  ScoresInv'
  <1> DEFINE r == task[t]
             row == [r EXCEPT !.status = "Approved"]
  <1>1. r \in Task /\ r # NoRow /\ TaskFits(r) /\ r.status = "CompletedByStaff"
    BY RowFacts DEF ScoresInv, TaskFits, Approve
  <1>2. task' = [task EXCEPT ![t] = row] /\ UNCHANGED <<today, managers, editors, extra, granted>>
    BY DEF Approve
  <1>3. /\ row \in Task /\ row.status = "Approved" /\ row.score = r.score /\ row.owner = r.owner
        /\ row.doneInTime = r.doneInTime /\ row.revisions = r.revisions /\ row.extensions = r.extensions
    BY <1>1 DEF Task
  <1> HIDE DEF row, r
  <1>4. TaskFits(row)
    BY <1>1, <1>3 DEF TaskFits, ScoreStands
  <1> QED
    BY <1>1, <1>2, <1>3, <1>4, ScoreStays DEF r

LEMMA ExtendKeeps ==
    ASSUME ScoresInv, NEW p \in Actors, NEW t \in TaskIds, NEW due \in Days, ExtendDeadline(p, t, due)
    PROVE  ScoresInv'
  <1> DEFINE r == task[t]
             n == IF r.due < today THEN r.extensions + 1 ELSE r.extensions
             row == [r EXCEPT !.due = due, !.extensions = n]
  <1>1. r \in Task /\ r # NoRow /\ TaskFits(r) /\ r.status = "Pending" /\ r.score = NoScore
    BY RowFacts DEF ScoresInv, TaskFits, ExtendDeadline
  <1>2. task' = [task EXCEPT ![t] = row] /\ UNCHANGED <<today, managers, editors, extra, granted>>
    BY DEF ExtendDeadline
  <1>3. row \in Task /\ row.status = "Pending" /\ row.score = r.score /\ row.owner = r.owner
    <2>1. n \in Nat
      BY <1>1, RowFacts
    <2> HIDE DEF n
    <2> QED
      BY <1>1, <2>1 DEF Task
  <1> HIDE DEF row, r, n
  <1>4. TaskFits(row)
    BY <1>1, <1>3 DEF TaskFits, ScoreStands
  <1> QED
    BY <1>1, <1>2, <1>3, <1>4, ScoreStays DEF r

LEMMA EditTaskKeeps ==
    ASSUME ScoresInv, NEW p \in Actors, NEW t \in TaskIds, NEW owner \in Staff, NEW due \in Days, EditTask(p, t, owner, due)
    PROVE  ScoresInv'
  <1> DEFINE r == task[t]
             row == [r EXCEPT !.owner = owner, !.due = due]
  <1>1. r \in Task /\ r # NoRow /\ TaskFits(r) /\ (owner = r.owner \/ r.score = NoScore)
    BY RowFacts DEF ScoresInv, TaskFits, EditTask, GivenTo
  <1>2. task' = [task EXCEPT ![t] = row] /\ UNCHANGED <<today, managers, editors, extra, granted>>
    BY DEF EditTask
  <1>3. /\ row \in Task /\ row.status = r.status /\ row.score = r.score /\ row.owner = owner
        /\ row.doneInTime = r.doneInTime /\ row.revisions = r.revisions /\ row.extensions = r.extensions
    BY <1>1 DEF Task
  <1> HIDE DEF row, r
  <1>4. TaskFits(row)
    BY <1>1, <1>3 DEF TaskFits, ScoreStands
  <1> QED
    BY <1>1, <1>2, <1>3, <1>4, ScoreStays DEF r

LEMMA LogKeeps ==
    ASSUME ScoresInv, NEW p \in Staff, NEW i \in ExtraIds, LogExtraWork(p, i)
    PROVE  ScoresInv'
  <1> DEFINE row == [author |-> p, status |-> "Pending", points |-> NoScore]
  <1>1. row \in ExtraWork /\ row.status = "Pending" /\ row.points = NoScore
    BY DEF ExtraWork
  <1>2. extra[i] = NoRow /\ extra' = [extra EXCEPT ![i] = row] /\ UNCHANGED <<today, managers, editors, task, granted>>
    BY DEF LogExtraWork
  <1> HIDE DEF row
  <1>3. ExtraFits(row) /\ row # NoRow
    BY <1>1, RowFacts DEF ExtraFits
  <1>4. \A q \in Staff : ExtraWorth(row, q) = 0 /\ ExtraWorth(extra[i], q) = 0
    BY <1>1, <1>2, RowFacts DEF ExtraWorth
  <1>5. granted' \in [Staff -> Int] /\ \A q \in Staff : granted'[q] = granted[q] - ExtraWorth(extra[i], q) + ExtraWorth(row, q)
    BY <1>2, <1>4 DEF ScoresInv
  <1> QED
    BY <1>2, <1>3, <1>5, ExtraKeeps

(* A decision may be taken again: the author is told of the difference. *)
LEMMA ReviewKeeps ==
    ASSUME ScoresInv, NEW p \in Actors, NEW i \in ExtraIds, NEW status \in {"Approved", "Rejected"},
           NEW points \in ExtraPoints, ReviewExtraWork(p, i, status, points)
    PROVE  ScoresInv'
  <1> DEFINE r == extra[i]
             given == IF status = "Approved" THEN points ELSE NoScore
             row == [r EXCEPT !.status = status, !.points = given]
  <1>1. r \in ExtraWork /\ r # NoRow /\ ExtraFits(r) /\ r.author \in Staff /\ r.points \in Int \cup {NoScore}
    BY RowFacts DEF ScoresInv, ExtraFits, ReviewExtraWork
  <1>2. /\ extra' = [extra EXCEPT ![i] = row] /\ Grant(r.author, Points(given) - Points(r.points))
        /\ UNCHANGED <<today, managers, editors, task>>
    BY DEF ReviewExtraWork
  <1>3. given \in Int \cup {NoScore} /\ (status # "Approved" => given = NoScore)
    BY ScoringAssumption
  <1> HIDE DEF given
  <1>4. row \in ExtraWork /\ row.status = status /\ row.points = given /\ row.author = r.author
    BY <1>1, <1>3 DEF ExtraWork
  <1> HIDE DEF row, r
  <1>5. ExtraFits(row) /\ row # NoRow
    BY <1>3, <1>4, RowFacts DEF ExtraFits
  <1>6. Points(given) \in Int /\ Points(r.points) \in Int /\ Points(NoScore) = 0
    BY <1>1, <1>3, PointsAreInt DEF Points
  <1>7. \A q \in Staff : /\ ExtraWorth(row, q) = IF q = r.author THEN Points(given) ELSE 0
                         /\ ExtraWorth(r, q) = IF q = r.author THEN Points(r.points) ELSE 0
    BY <1>1, <1>3, <1>4, <1>6, RowFacts DEF ExtraWorth, ExtraFits
  <1>8. /\ granted' \in [Staff -> Int]
        /\ \A q \in Staff : granted'[q] = granted[q] - ExtraWorth(r, q) + ExtraWorth(row, q)
    <2>1. Points(given) - Points(r.points) \in Int
      BY <1>6
    <2>2. /\ granted' \in [Staff -> Int]
          /\ \A q \in Staff : granted'[q] = IF q = r.author THEN granted[q] + (Points(given) - Points(r.points)) ELSE granted[q]
      BY <1>1, <1>2, <2>1, Granted DEF ScoresInv
    <2> QED
      BY <1>6, <1>7, <2>2 DEF ScoresInv
  <1> QED
    BY <1>2, <1>5, <1>8, ExtraKeeps DEF r

LEMMA ScoresStep == ScoresInv /\ [DelegationNext]_<<today, delegationVars>> => ScoresInv'
  <1> SUFFICES ASSUME ScoresInv, [DelegationNext]_<<today, delegationVars>> PROVE ScoresInv'
    OBVIOUS
  <1>1. CASE SwitchPages
    BY <1>1, ScoresIdle DEF SwitchPages, SymDiff, ScoresInv
  <1>2. CASE Tomorrow /\ UNCHANGED delegationVars
    BY <1>2, ScoresIdle, LastDayAssumption DEF Tomorrow, Days, delegationVars, ScoresInv
  <1>3. ASSUME NEW p \in Actors, NEW t \in TaskIds, Complete(p, t) \/ SendBack(p, t) \/ Approve(p, t) \/ Reject(p, t)
        PROVE  ScoresInv'
    BY <1>3, CompleteKeeps, SendBackKeeps, ApproveTaskKeeps, RejectKeeps
  <1>4. ASSUME NEW p \in Actors, NEW t \in TaskIds, NEW due \in Days, ExtendDeadline(p, t, due) PROVE ScoresInv'
    BY <1>4, ExtendKeeps
  <1>5. ASSUME NEW p \in Actors, NEW t \in TaskIds, NEW due \in Days, NEW owner \in Staff,
               Assign(p, t, owner, due) \/ EditTask(p, t, owner, due)
        PROVE  ScoresInv'
    BY <1>5, AssignKeeps, EditTaskKeeps
  <1>6. ASSUME NEW p \in Staff, NEW x \in ExtraIds, LogExtraWork(p, x) PROVE ScoresInv'
    BY <1>6, LogKeeps
  <1>7. ASSUME NEW p \in Actors, NEW x \in ExtraIds, NEW status \in {"Approved", "Rejected"}, NEW n \in ExtraPoints,
               ReviewExtraWork(p, x, status, n)
        PROVE  ScoresInv'
    BY <1>7, ReviewKeeps
  <1>8. CASE UNCHANGED <<today, delegationVars>>
    BY <1>8, ScoresIdle DEF delegationVars, ScoresInv
  <1> QED
    BY <1>1, <1>2, <1>3, <1>4, <1>5, <1>6, <1>7, <1>8 DEF DelegationNext

(* A task shown green was never sent back nor moved, so its score is the one of its submission: the one *)
(* for work on time, unless the one for late work is more than nothing. *)
LEMMA ScoresRight == ScoresInv => ScoresAreRight
  <1> SUFFICES ASSUME ScoresInv PROVE ScoresAreRight
    OBVIOUS
  <1>1. ASSUME NEW t \in TaskIds, task[t] # NoRow, Classify(task[t]) = "green"
        PROVE  task[t].revisions = 0 /\ task[t].extensions = 0 /\ (task[t].doneInTime \/ Late > 0)
    <2> DEFINE r == task[t]
    <2>1. r \in Task /\ ScoreStands(r) /\ (r.status = "Approved" => r.score # NoScore)
      BY <1>1 DEF ScoresInv, TaskFits
    <2>2. /\ r.revisions \in Nat /\ r.extensions \in Nat /\ r.doneInTime \in BOOLEAN
          /\ r.status \in {"Pending", "CompletedByStaff", "Approved", "Rejected"}
      BY <2>1, RowFacts
    <2> HIDE DEF r
    <2>3. r.status = "Approved" /\ r.revisions = 0 /\ r.extensions = 0 /\ Points(r.score) > 0
      BY <1>1, <2>2 DEF Classify, r
    <2>4. r.score = IF r.doneInTime THEN OnTime ELSE Late
      BY <2>1, <2>3, ScoringAssumption DEF ScoreStands
    <2> QED
      BY <2>2, <2>3, <2>4, ScoringAssumption DEF Points, r
  <1> QED
    BY <1>1 DEF ScoresInv, ScoresAreRight

(* The scoreboard (scoreboard_rows, classify): for any staff, tasks and scoring settings, a person's *)
(* total is what they were told of, and green means done once, with no deadline moved, and in time   *)
(* unless late work earns points. *)
THEOREM ScoresStayRight == DelegationSpec => []ScoresAreRight
  <1> QED
    BY ScoresStart, ScoresStep, ScoresRight, PTL DEF DelegationSpec

-----------------------------------------------------------------------------
(***************************************************************************)
(* Regular expenses: the float.                                            *)
(***************************************************************************)
(* What an entry puts into the float. *)
EntryWorth(r) == IF r = Unwritten THEN 0 ELSE IF r.voided THEN 0 ELSE Signed(r.kind, r.amount)

EntryFits(r) == r = Unwritten \/ (r \in ExpenseEntry /\ r.day <= today)

FloatInv ==
    /\ today \in Days /\ cancellers \subseteq Spenders
    /\ expense = [k \in EntryKeys |-> expense[k]]
    /\ \A k \in EntryKeys : EntryFits(expense[k])
    /\ explained \in Int
    /\ Balance = explained

(* What an entry carries. *)
LEMMA EntryFacts ==
    /\ \A r \in ExpenseEntry : /\ r # Unwritten /\ r.kind \in {"Topup", "Expense"} /\ r.amount \in Nat
                             /\ r.day \in Days /\ r.voided \in BOOLEAN /\ Signed(r.kind, r.amount) \in Int
    /\ \A kind, amount : amount \in Nat => Signed(kind, amount) \in Int
  <1>1. \A r \in ExpenseEntry : r.kind # "none" /\ Unwritten.kind = "none"
    BY DEF ExpenseEntry, Unwritten
  <1>2. ASSUME NEW kind, NEW amount \in Nat PROVE Signed(kind, amount) \in Int
    BY DEF Signed
  <1>3. ASSUME NEW r \in ExpenseEntry
        PROVE  /\ r # Unwritten /\ r.kind \in {"Topup", "Expense"} /\ r.amount \in Nat
               /\ r.day \in Days /\ r.voided \in BOOLEAN
    BY <1>1, ExpensesAssumption DEF ExpenseEntry
  <1> QED
    BY <1>2, <1>3

(* What counts, and what it is worth, is finite and whole. *)
LEMMA CountedFacts ==
    ASSUME FloatInv
    PROVE  /\ Counted \subseteq EntryKeys /\ IsFiniteSet(Counted)
           /\ \A k \in Counted : /\ expense[k] # Unwritten /\ expense[k] \in ExpenseEntry /\ ~expense[k].voided
                                 /\ expense[k].day <= today /\ Change(k) \in Int /\ Change(k) = EntryWorth(expense[k])
           /\ \A k \in EntryKeys \ Counted : EntryWorth(expense[k]) = 0
  <1>1. Counted \subseteq EntryKeys /\ IsFiniteSet(Counted)
    BY FS_Subset, ExpensesAssumption DEF Counted, Written
  <1>2. ASSUME NEW k \in Counted
        PROVE  /\ expense[k] # Unwritten /\ expense[k] \in ExpenseEntry /\ ~expense[k].voided
               /\ expense[k].day <= today /\ Change(k) \in Int /\ Change(k) = EntryWorth(expense[k])
    BY EntryFacts DEF FloatInv, EntryFits, Counted, Written, Change, EntryWorth
  <1>3. \A k \in EntryKeys \ Counted : EntryWorth(expense[k]) = 0
    BY EntryFacts DEF FloatInv, EntryFits, Counted, Written, EntryWorth
  <1> QED
    BY <1>1, <1>2, <1>3

(* An entry is written: the balance moves by what it is worth. *)
LEMMA BalanceMoves ==
    ASSUME FloatInv, NEW k \in EntryKeys, NEW row, row = Unwritten \/ row \in ExpenseEntry,
           expense' = [expense EXCEPT ![k] = row]
    PROVE  Balance' = Balance - EntryWorth(expense[k]) + EntryWorth(row)
  <1> DEFINE S == Counted
             T == Counted'
             f == [j \in S |-> Change(j)]
             e == [j \in T |-> Signed(expense'[j].kind, expense'[j].amount)]
  <1>1. expense'[k] = row /\ \A j \in EntryKeys \ {k} : expense'[j] = expense[j]
    BY DEF FloatInv
  <1>2. \A j \in EntryKeys : expense'[j] = Unwritten \/ expense'[j] \in ExpenseEntry
    BY <1>1 DEF FloatInv, EntryFits
  <1>3. S = {j \in EntryKeys : expense[j] # Unwritten /\ ~expense[j].voided}
    BY DEF Counted, Written
  <1>4. T = {j \in EntryKeys : expense'[j] # Unwritten /\ ~expense'[j].voided}
    BY DEF Counted, Written
  <1>5. S \ {k} = T \ {k}
    BY <1>1, <1>3, <1>4
  <1>6. IsFiniteSet(S) /\ IsFiniteSet(T)
    BY <1>3, <1>4, FS_Subset, ExpensesAssumption
  <1>7. (\A j \in S : f[j] \in Int) /\ (\A j \in T : e[j] \in Int)
    BY <1>2, <1>4, CountedFacts, EntryFacts
  <1>8. \A j \in S \ {k} : f[j] = e[j]
    BY <1>1, <1>3, <1>4 DEF Change
  <1>9. /\ EntryWorth(expense[k]) = IF k \in S THEN f[k] ELSE 0
        /\ EntryWorth(row) = IF k \in T THEN e[k] ELSE 0
    <2>1. EntryWorth(expense[k]) = IF k \in S THEN f[k] ELSE 0
      BY CountedFacts
    <2>2. EntryWorth(row) = IF k \in T THEN e[k] ELSE 0
      BY <1>1, <1>2, <1>4, EntryFacts DEF EntryWorth
    <2> QED
      BY <2>1, <2>2
  <1>10. Balance = OpeningBalance + SumFunctionOnSet(f, S)
    BY DEF Balance, SumFunction
  <1>11. Balance' = OpeningBalance + SumFunctionOnSet(e, T)
    BY DEF Balance, SumFunction, Change, Signed
  <1> HIDE DEF S, T, f, e
  <1>13. /\ SumFunctionOnSet(f, S) \in Int /\ SumFunctionOnSet(e, T) \in Int
         /\ SumFunctionOnSet(e, T) - (IF k \in T THEN e[k] ELSE 0)
              = SumFunctionOnSet(f, S) - (IF k \in S THEN f[k] ELSE 0)
    BY <1>5, <1>6, <1>7, <1>8, SumIsInt, SumMoves
  <1>14. (k \in T => e[k] \in Int) /\ (k \in S => f[k] \in Int)
    BY <1>7
  <1> QED
    BY <1>9, <1>10, <1>11, <1>13, <1>14, ExpensesAssumption

(* A step that writes one entry, and what it changes to the log, keeps the float right. *)
LEMMA FloatMoves ==
    ASSUME FloatInv, NEW k \in EntryKeys, NEW row, EntryFits(row), expense' = [expense EXCEPT ![k] = row],
           explained' = explained - EntryWorth(expense[k]) + EntryWorth(row), UNCHANGED <<today, cancellers>>
    PROVE  FloatInv'
  <1>1. Balance' = explained'
    BY BalanceMoves DEF FloatInv, EntryFits
  <1>2. EntryWorth(expense[k]) \in Int /\ EntryWorth(row) \in Int
    BY EntryFacts DEF EntryWorth, FloatInv, EntryFits
  <1>3. explained' \in Int
    BY <1>2 DEF FloatInv
  <1> QED
    BY <1>1, <1>3 DEF FloatInv, EntryFits

(* Neither the entries nor the log change. *)
LEMMA FloatIdle ==
    ASSUME FloatInv, today' \in Days, today' >= today, cancellers' \subseteq Spenders, UNCHANGED <<expense, explained>>
    PROVE  FloatInv'
  <1>1. Balance' = Balance
    BY DEF Balance, Counted, Written, Change, Signed
  <1>2. \A k \in EntryKeys : EntryFits(expense[k])'
    BY EntryFacts DEF FloatInv, EntryFits, Days
  <1> QED
    BY <1>1, <1>2 DEF FloatInv

LEMMA FloatStart == DayOne /\ ExpensesInit => FloatInv
  <1> SUFFICES ASSUME DayOne, ExpensesInit PROVE FloatInv
    OBVIOUS
  <1>1. Counted = {}
    BY DEF ExpensesInit, Counted, Written
  <1>2. Balance = explained /\ explained \in Int
    BY <1>1, SumOfNone, ExpensesAssumption DEF Balance, SumFunction, ExpensesInit
  <1>3. today \in Days
    BY LastDayAssumption DEF DayOne, Days
  <1> QED
    BY <1>2, <1>3 DEF ExpensesInit, FloatInv, EntryFits

LEMMA FloatStep == FloatInv /\ [ExpensesNext]_<<today, expenseVars>> => FloatInv'
  <1> SUFFICES ASSUME FloatInv, [ExpensesNext]_<<today, expenseVars>> PROVE FloatInv'
    OBVIOUS
  <1>1. CASE SwitchVoidPage
    BY <1>1, FloatIdle DEF SwitchVoidPage, SymDiff, FloatInv, Days
  <1>2. CASE Tomorrow /\ UNCHANGED expenseVars
    BY <1>2, FloatIdle, LastDayAssumption DEF Tomorrow, Days, expenseVars, FloatInv
  <1>3. ASSUME NEW k \in EntryKeys, DeleteEntry(k) PROVE FloatInv'
    <2>1. expense[k] \in ExpenseEntry
      BY <1>3 DEF DeleteEntry, Written, FloatInv, EntryFits
    <2>2. explained' = explained - EntryWorth(expense[k]) + EntryWorth(Unwritten)
      BY <1>3, <2>1, EntryFacts DEF DeleteEntry, EntryWorth, Change, FloatInv
    <2> QED
      BY <1>3, <2>2, FloatMoves DEF DeleteEntry, EntryFits
  <1>4. ASSUME NEW k \in EntryKeys, NEW p \in Spenders \cup {Manager}, VoidEntry(p, k) PROVE FloatInv'
    <2> DEFINE row == [expense[k] EXCEPT !.voided = TRUE]
    <2>1. k \in Counted /\ explained' = explained - Change(k) /\ expense' = [expense EXCEPT ![k] = row]
          /\ UNCHANGED <<today, cancellers>>
      BY <1>4 DEF VoidEntry, MayChange
    <2>2. row \in ExpenseEntry /\ row.voided /\ row.day = expense[k].day
      BY <2>1, CountedFacts DEF ExpenseEntry
    <2> HIDE DEF row
    <2>3. EntryFits(row) /\ EntryWorth(row) = 0
      BY <2>1, <2>2, CountedFacts, EntryFacts DEF EntryFits, EntryWorth
    <2>4. explained' = explained - EntryWorth(expense[k]) + EntryWorth(row)
      <3>1. EntryWorth(expense[k]) = Change(k) /\ Change(k) \in Int
        BY <2>1, CountedFacts
      <3>2. explained \in Int
        BY DEF FloatInv
      <3> QED
        BY <2>1, <2>3, <3>1, <3>2
    <2> QED
      BY <2>1, <2>3, <2>4, FloatMoves
  <1>5. ASSUME NEW k \in EntryKeys, NEW p \in Spenders \cup {Manager}, NEW amount \in ExpenseAmounts, NEW date \in Days,
               EditEntry(p, k, amount, date)
        PROVE  FloatInv'
    <2> DEFINE row == [expense[k] EXCEPT !.amount = amount, !.day = date]
    <2>1. /\ k \in Counted /\ date <= today /\ explained' = explained - Change(k) + Signed(expense[k].kind, amount)
          /\ expense' = [expense EXCEPT ![k] = row] /\ UNCHANGED <<today, cancellers>>
      BY <1>5 DEF EditEntry, MayChange, DayOpen
    <2>2. row \in ExpenseEntry /\ ~row.voided /\ row.day = date /\ row.amount = amount /\ row.kind = expense[k].kind
      BY <2>1, CountedFacts DEF ExpenseEntry
    <2> HIDE DEF row
    <2>3. EntryFits(row) /\ EntryWorth(row) = Signed(expense[k].kind, amount)
      BY <2>1, <2>2, EntryFacts DEF EntryFits, EntryWorth
    <2>4. explained' = explained - EntryWorth(expense[k]) + EntryWorth(row)
      BY <2>1, <2>3, CountedFacts DEF FloatInv
    <2> QED
      BY <2>1, <2>3, <2>4, FloatMoves
  <1>6. ASSUME NEW k \in EntryKeys, NEW p \in Spenders \cup {Manager}, NEW amount \in ExpenseAmounts, NEW date \in Days,
               NEW kind \in {"Topup", "Expense"}, AddExpense(p, k, kind, amount, date)
        PROVE  FloatInv'
    <2> DEFINE row == [kind |-> kind, amount |-> amount, day |-> date, by |-> p, made |-> today, voided |-> FALSE]
    <2>1. /\ expense[k] = Unwritten /\ date <= today /\ explained' = explained + Signed(kind, amount)
          /\ expense' = [expense EXCEPT ![k] = row] /\ UNCHANGED <<today, cancellers>>
      BY <1>6 DEF AddExpense, DayOpen, Written
    <2>2. row \in ExpenseEntry /\ ~row.voided /\ row.day = date /\ row.amount = amount /\ row.kind = kind
      BY DEF ExpenseEntry, FloatInv
    <2> HIDE DEF row
    <2>3. EntryFits(row) /\ EntryWorth(row) = Signed(kind, amount)
      BY <2>1, <2>2, EntryFacts DEF EntryFits, EntryWorth
    <2>4. explained' = explained - EntryWorth(expense[k]) + EntryWorth(row)
      BY <2>1, <2>3 DEF FloatInv, EntryWorth
    <2> QED
      BY <2>1, <2>3, <2>4, FloatMoves
  <1>7. CASE UNCHANGED <<today, expenseVars>>
    BY <1>7, FloatIdle DEF expenseVars, FloatInv, Days
  <1> QED
    BY <1>1, <1>2, <1>3, <1>4, <1>5, <1>6, <1>7 DEF ExpensesNext

-----------------------------------------------------------------------------
(* One line of a statement is its last: it has every other line before it. *)
LEMMA LastLineIs ==
    ASSUME FloatInv, NEW s \in SUBSET Written, s # {}
    PROVE  LastLine(s) \in s
  <1>1. \A k \in s : k \in Nat /\ expense[k].day \in Int
    <2> TAKE k \in s
    <2>1. k \in EntryKeys /\ expense[k] \in ExpenseEntry
      BY DEF Written, FloatInv, EntryFits
    <2> QED
      BY <2>1, EntryFacts, ExpensesAssumption DEF Days
  <1> DEFINE Later(k) == {j \in s : Before(k, j)}
             Laters == {Later(k) : k \in s}
  <1>2. PICK U \in Laters : \A V \in Laters : V \subseteq U => V = U
    <2>1. (\A V \in Laters : V \subseteq s) /\ Laters # {}
      OBVIOUS
    <2>2. IsFiniteSet(s)
      <3>1. s \subseteq EntryKeys
        BY DEF Written
      <3> QED
        BY <3>1, FS_Subset, ExpensesAssumption
    <2> HIDE DEF Laters
    <2> QED
      BY <2>1, <2>2, SmallestSubset
  <1>3. PICK k \in s : U = Later(k)
    BY <1>2
  <1>4. ASSUME NEW j \in s, j # k PROVE Before(j, k)
    <2>1. Before(j, k) \/ Before(k, j)
      BY <1>1, <1>4 DEF Before
    <2>2. CASE Before(k, j)
      <3>1. Later(j) \subseteq Later(k) /\ j \in Later(k) /\ j \notin Later(j)
        BY <1>1, <2>2 DEF Before
      <3>2. Later(j) \in Laters
        OBVIOUS
      <3> HIDE DEF Later, Laters
      <3> QED
        BY <1>2, <1>3, <3>1, <3>2
    <2> QED
      BY <2>1, <2>2
  <1>5. \E last \in s : \A j \in s \ {last} : Before(j, last)
    BY <1>4
  <1> QED
    BY <1>5, Zenon DEF LastLine

RunsOn(g, D) ==
    g = [s \in D |-> IF s = {} THEN OpeningBalance
                     ELSE IF expense[LastLine(s)].voided THEN g[s \ {LastLine(s)}]
                     ELSE g[s \ {LastLine(s)}] + Change(LastLine(s))]

(* The running balance over the lines of S. *)
Runs(g, S) == RunsOn(g, SUBSET S)

(* After every line of the statement the balance is the sum of the lines that count so far. *)
LEMMA StatementAddsUp ==
    ASSUME FloatInv
    PROVE  RunningBalance = Balance
  <1> DEFINE c == [k \in Counted |-> Change(k)]
             Sum(s) == SumFunctionOnSet(c, s \cap Counted)
             it == CHOOSE g : Runs(g, Written)
             now == [s \in SUBSET Written |-> OpeningBalance + Sum(s)]
  <1>1. RunningBalance = it[Written]
    BY DEF RunningBalance, MapThenFoldSet, Runs, RunsOn
  <1>2. /\ \A k \in Counted : c[k] = Change(k) /\ c[k] \in Int
        /\ Counted \subseteq Written /\ IsFiniteSet(Counted)
    BY CountedFacts DEF Counted
  <1> HIDE DEF c
  <1>3. ASSUME NEW s \in SUBSET Written, s # {}
        PROVE  OpeningBalance + Sum(s) = IF expense[LastLine(s)].voided THEN OpeningBalance + Sum(s \ {LastLine(s)})
                                         ELSE OpeningBalance + Sum(s \ {LastLine(s)}) + Change(LastLine(s))
    <2> DEFINE k == LastLine(s)
               S == s \cap Counted
    <2>1. k \in s
      BY <1>3, LastLineIs
    <2> HIDE DEF k
    <2>2. (s \ {k}) \cap Counted = S \ {k}
      OBVIOUS
    <2>3. IsFiniteSet(S) /\ IsFiniteSet(S \ {k}) /\ (\A j \in S : c[j] \in Int)
      BY <1>2, FS_Subset
    <2>4. SumFunctionOnSet(c, S) \in Int /\ SumFunctionOnSet(c, S \ {k}) \in Int
      <3>1. \A j \in S \ {k} : c[j] \in Int
        BY <2>3
      <3> HIDE DEF S
      <3> QED
        BY <2>3, <3>1, SumIsInt
    <2>5. CASE expense[k].voided
      <3>1. S \ {k} = S
        BY <2>5 DEF Counted
      <3>2. Sum(s \ {k}) = Sum(s)
        BY <2>2, <3>1
      <3> QED
        BY <2>5, <3>2 DEF k
    <2>6. CASE ~expense[k].voided
      <3>1. k \in S /\ c[k] = Change(k) /\ c[k] \in Int
        BY <1>2, <2>1, <2>6 DEF Counted
      <3>2. SumFunctionOnSet(c, S) = c[k] + SumFunctionOnSet(c, S \ {k})
        <4> HIDE DEF S
        <4> QED
          BY <2>3, <3>1, SumWithout
      <3>3. Sum(s) = SumFunctionOnSet(c, S) /\ Sum(s \ {k}) = SumFunctionOnSet(c, S \ {k})
        BY <2>2
      <3> HIDE DEF S, Sum
      <3>4. OpeningBalance + Sum(s) = OpeningBalance + Sum(s \ {k}) + Change(k)
        BY <2>4, <3>1, <3>2, <3>3, ExpensesAssumption
      <3> QED
        BY <2>6, <3>4 DEF k
    <2> QED
      BY <2>5, <2>6
  <1>4. Sum({}) = 0
    <2>1. {} \cap Counted = {}
      OBVIOUS
    <2> QED
      BY <2>1, SumOfNone
  <1>5. Runs(now, Written)
    <2> HIDE DEF Sum
    <2>1. \A s \in SUBSET Written : now[s] = OpeningBalance + Sum(s) /\ now[s \ {LastLine(s)}] = OpeningBalance + Sum(s \ {LastLine(s)})
      OBVIOUS
    <2>2. \A s \in SUBSET Written : OpeningBalance + Sum(s)
             = IF s = {} THEN OpeningBalance
               ELSE IF expense[LastLine(s)].voided THEN now[s \ {LastLine(s)}]
               ELSE now[s \ {LastLine(s)}] + Change(LastLine(s))
      <3> TAKE s \in SUBSET Written
      <3>1. CASE s = {}
        BY <1>4, <3>1, ExpensesAssumption
      <3>2. CASE s # {}
        BY <1>3, <2>1, <3>2
      <3> QED
        BY <3>1, <3>2
    <2> QED
      BY <2>2 DEF Runs, RunsOn
  <1>6. Runs(it, Written)
    <2> HIDE DEF now
    <2> QED
      BY <1>5, Zenon
  <1> HIDE DEF it
  <1> DEFINE Bad == {s \in SUBSET Written : it[s] # now[s]}
  <1>7. Bad = {}
    <2> SUFFICES ASSUME Bad # {} PROVE FALSE
      OBVIOUS
    <2> HIDE DEF now
    <2>1. PICK s \in Bad : \A u \in Bad : u \subseteq s => u = s
      <3>1. Bad \in SUBSET (SUBSET Written) /\ IsFiniteSet(Written)
        BY FS_Subset, ExpensesAssumption DEF Written
      <3> HIDE DEF Bad
      <3> QED
        BY <3>1, SmallestSubset
    <2>2. s # {} => LastLine(s) \in s
      BY <2>1, LastLineIs
    <2>3. s # {} => it[s \ {LastLine(s)}] = now[s \ {LastLine(s)}]
      BY <2>1, <2>2
    <2> QED
      BY <1>5, <1>6, <2>1, <2>3 DEF Runs, RunsOn
  <1>8. Written \cap Counted = Counted
    BY <1>2
  <1>9. it[Written] = OpeningBalance + SumFunctionOnSet(c, Counted)
    <2>1. it[Written] = now[Written]
      <3> HIDE DEF now
      <3> QED
        BY <1>7
    <2> QED
      BY <2>1, <1>8
  <1> QED
    BY <1>1, <1>9 DEF Balance, SumFunction, c

(* A period that ends today closes with what it opened with and what came since. *)
LEMMA PeriodsAddUp ==
    ASSUME FloatInv, NEW from \in 1..today
    PROVE  PeriodClosing(from, today) = Balance
  <1> DEFINE c == [k \in Counted |-> Change(k)]
             S == CountedBefore(from)
             T == CountedWithin(from, today)
             f == [k \in S |-> Change(k)]
             e == [k \in T |-> Change(k)]
  <1>1. S \cup T = Counted /\ S \cap T = {}
    <2>1. today \in Int /\ \A k \in Counted : expense[k].day \in Int /\ expense[k].day <= today
      BY CountedFacts, EntryFacts DEF FloatInv, Days
    <2> QED
      BY <2>1 DEF CountedBefore, CountedWithin
  <1>2. IsFiniteSet(S) /\ IsFiniteSet(T) /\ IsFiniteSet(Counted)
    BY <1>1, CountedFacts, FS_Subset
  <1>3. /\ \A k \in S : f[k] \in Int /\ c[k] = f[k]
        /\ \A k \in T : e[k] \in Int /\ c[k] = e[k]
        /\ \A k \in Counted : c[k] \in Int
    BY <1>1, CountedFacts
  <1>4. Balance = OpeningBalance + SumFunctionOnSet(c, Counted)
    BY DEF Balance, SumFunction
  <1>5. PeriodClosing(from, today) = (OpeningBalance + SumFunctionOnSet(f, S)) + SumFunctionOnSet(e, T)
    BY DEF PeriodClosing, PeriodOpening, SumFunction
  <1> HIDE DEF c, S, T, f, e
  <1>6. SumFunctionOnSet(f, S) = SumFunctionOnSet(c, S) /\ SumFunctionOnSet(f, S) \in Int
    BY <1>2, <1>3, SumAgrees, SumIsInt
  <1>7. SumFunctionOnSet(e, T) = SumFunctionOnSet(c, T) /\ SumFunctionOnSet(e, T) \in Int
    BY <1>2, <1>3, SumAgrees, SumIsInt
  <1>8. SumFunctionOnSet(c, Counted) = SumFunctionOnSet(c, S) + SumFunctionOnSet(c, T)
    BY <1>1, <1>2, <1>3, SumOfParts
  <1> QED
    BY <1>4, <1>5, <1>6, <1>7, <1>8, ExpensesAssumption

(* Every explanation of the float gives one number: the balance, the audit log, the statement's *)
(* last line and the closing of every period that ends today.                                   *)
THEOREM BalanceStaysExplained == ExpensesSpec => []BalanceIsExplained
  <1>1. FloatInv => BalanceIsExplained
    BY StatementAddsUp, PeriodsAddUp DEF BalanceIsExplained, FloatInv
  <1> QED
    BY FloatStart, FloatStep, <1>1, PTL DEF ExpensesSpec

-----------------------------------------------------------------------------
(***************************************************************************)
(* The money of a VT Decor entry, for any requests in flight, entries and  *)
(* amounts.  The argument is the one of OrderMoneyProofs: a merge writes   *)
(* amounts it checked when it began, and nobody changes what it checked    *)
(* them against while it holds the push row.                               *)
(***************************************************************************)
MoneyShape ==
    /\ decor \in Decor /\ push \in Push
    /\ job = [w \in Workers |-> job[w]] /\ locks = [w \in Workers |-> locks[w]]

OneHolder == \A v, w \in Workers : v # w => locks[v] \cap locks[w] = {}

(* A request in flight: a merge holds the push row and the amounts it checked still fit; *)
(* what edits or deletes the entry has found it saved. *)
JobFits(w) ==
    /\ job[w].op = "merge" => /\ job[w].legs \in LegMoney /\ "push" \in locks[w]
                              /\ Staged /\ Check(job[w].legs, split)
    /\ job[w].op = "edit" => job[w].amount \in Amounts
    /\ job[w].op \in {"edit", "unstage"} => decor.status # "new"

NewIsUnstaged == decor.status = "new" => ~Staged

MoneyInv ==
    /\ MoneyShape /\ OneHolder /\ NewIsUnstaged
    /\ \A w \in Workers : JobFits(w)
    /\ DecorMoneyIsStaged

LEMMA MoneyFacts ==
    /\ Money \subseteq Nat /\ Null \notin Money /\ Idle.op = "idle"
    /\ NoPush \in Push /\ NoPush.status = "absent"
    /\ \A p \in Push : /\ p.status \in {"absent", "awaiting", "merged"} /\ p.amount \in Money \cup {Null}
                       /\ p.mergedLegs \in LegMoney /\ p.txn \in [Legs -> EntryIds \cup {Null}]
                       /\ p.merged \in BOOLEAN /\ p.edited \in BOOLEAN
  <1>1. Money \subseteq Nat
    BY AmountsAssumption DEF Money
  <1>2. Null \notin Money
    BY <1>1, NullAssumption
  <1>3. NoPush \in Push
    BY DEF NoPush, Push, Money, LegMoney, NoMoney
  <1> QED
    BY <1>1, <1>2, <1>3 DEF Idle, NoPush, Push

(* The push row after the writes of the requests. *)
LEMMA PushStatus ==
    ASSUME NEW p \in Push, NEW s \in {"absent", "awaiting", "merged"}
    PROVE  /\ [p EXCEPT !.status = s] \in Push /\ [p EXCEPT !.status = s].status = s
           /\ [p EXCEPT !.status = s].amount = p.amount
  BY DEF Push

LEMMA PushAmount ==
    ASSUME NEW p \in Push, NEW a \in Money
    PROVE  /\ [p EXCEPT !.amount = a] \in Push /\ [p EXCEPT !.amount = a].amount = a
           /\ [p EXCEPT !.amount = a].status = p.status
  BY DEF Push

LEMMA PushEdited ==
    ASSUME NEW p \in Push, NEW b \in BOOLEAN
    PROVE  /\ [p EXCEPT !.edited = b] \in Push /\ [p EXCEPT !.edited = b].amount = p.amount
           /\ [p EXCEPT !.edited = b].status = p.status /\ [p EXCEPT !.edited = b].mergedLegs = p.mergedLegs
  BY DEF Push

LEMMA PushMerged ==
    ASSUME NEW p \in Push, NEW b \in BOOLEAN
    PROVE  /\ [p EXCEPT !.merged = b] \in Push /\ [p EXCEPT !.merged = b].amount = p.amount
           /\ [p EXCEPT !.merged = b].status = p.status
  BY DEF Push

LEMMA PushLegs ==
    ASSUME NEW p \in Push, NEW m \in LegMoney
    PROVE  /\ [p EXCEPT !.mergedLegs = m] \in Push /\ [p EXCEPT !.mergedLegs = m].amount = p.amount
           /\ [p EXCEPT !.mergedLegs = m].status = p.status /\ [p EXCEPT !.mergedLegs = m].mergedLegs = m
  BY DEF Push

LEMMA PushTxn ==
    ASSUME NEW p \in Push, NEW t \in [Legs -> EntryIds \cup {Null}]
    PROVE  /\ [p EXCEPT !.txn = t] \in Push /\ [p EXCEPT !.txn = t].amount = p.amount
           /\ [p EXCEPT !.txn = t].status = p.status /\ [p EXCEPT !.txn = t].mergedLegs = p.mergedLegs
  BY DEF Push

LEMMA MoneyStart == Init => MoneyInv
  <1> SUFFICES ASSUME Init PROVE MoneyInv
    OBVIOUS
  <1>1. MoneyShape
    BY MoneyFacts DEF Init, PayInit, MoneyShape, Decor, Money
  <1>2. OneHolder /\ NewIsUnstaged
    BY MoneyFacts DEF Init, PayInit, OneHolder, NewIsUnstaged, Staged
  <1>3. \A w \in Workers : JobFits(w)
    BY MoneyFacts DEF Init, PayInit, JobFits
  <1>4. DecorMoneyIsStaged
    BY DEF Init, DecorMoneyIsStaged
  <1> QED
    BY <1>1, <1>2, <1>3, <1>4 DEF MoneyInv

(* The locks of a worker, who takes rows that are free or lets all of them go. *)
LEMMA LocksMove ==
    ASSUME MoneyInv, NEW w \in Workers, NEW rows, locks' = [locks EXCEPT ![w] = rows],
           \/ rows = {} \/ Free(w, rows)
           \/ \E more : Free(w, more) /\ rows = locks[w] \cup more
    PROVE  /\ OneHolder' /\ locks' = [v \in Workers |-> locks'[v]]
           /\ locks'[w] = rows /\ \A v \in Workers \ {w} : locks'[v] = locks[v]
  BY DEF MoneyInv, MoneyShape, OneHolder, Free

(* A step of one worker that leaves the entry and the push row alone. *)
LEMMA WorkerMoves ==
    ASSUME MoneyInv, NEW w \in Workers, UNCHANGED <<decor, split, push>>,
           job' = [v \in Workers |-> job'[v]], locks' = [v \in Workers |-> locks'[v]], OneHolder',
           \A v \in Workers \ {w} : job'[v] = job[v] /\ locks'[v] = locks[v],
           JobFits(w)'
    PROVE  MoneyInv'
  <1>1. ASSUME NEW v \in Workers \ {w} PROVE JobFits(v)'
    <2>1. JobFits(v)
      BY DEF MoneyInv
    <2> QED
      BY <2>1 DEF JobFits, Staged, Check
  <1> QED
    BY <1>1 DEF MoneyInv, MoneyShape, NewIsUnstaged, Staged, DecorMoneyIsStaged

LEMMA StartKeeps ==
    ASSUME MoneyInv, NEW w \in Workers, NEW j, NEW rows, Start(w, j, rows), UNCHANGED <<decor, split, push>>,
           j.op = "merge" => j.legs \in LegMoney /\ "push" \in rows /\ Staged /\ Check(j.legs, split),
           j.op = "edit" => j.amount \in Amounts,
           j.op \in {"edit", "unstage"} => decor.status # "new"
    PROVE  MoneyInv'
  <1>1. job' = [job EXCEPT ![w] = j] /\ locks' = [locks EXCEPT ![w] = rows] /\ Free(w, rows)
    BY DEF Start
  <1>2. /\ OneHolder' /\ locks' = [v \in Workers |-> locks'[v]]
        /\ locks'[w] = rows /\ \A v \in Workers \ {w} : locks'[v] = locks[v]
    BY <1>1, LocksMove
  <1>3. job'[w] = j /\ job' = [v \in Workers |-> job'[v]] /\ \A v \in Workers \ {w} : job'[v] = job[v]
    BY <1>1 DEF MoneyInv, MoneyShape
  <1>4. JobFits(w)'
    BY <1>2, <1>3 DEF JobFits, Staged, Check
  <1> QED
    BY <1>2, <1>3, <1>4, WorkerMoves

(* After a commit the worker is idle and holds nothing. *)
LEMMA CommitMoves ==
    ASSUME MoneyInv, NEW w \in Workers, Commit(w)
    PROVE  /\ OneHolder' /\ locks' = [v \in Workers |-> locks'[v]] /\ job' = [v \in Workers |-> job'[v]]
           /\ job'[w].op = "idle"
           /\ \A v \in Workers \ {w} : job'[v] = job[v] /\ locks'[v] = locks[v]
  <1>1. job' = [job EXCEPT ![w] = Idle] /\ locks' = [locks EXCEPT ![w] = {}]
    BY DEF Commit
  <1>2. job'[w] = Idle /\ job' = [v \in Workers |-> job'[v]] /\ \A v \in Workers \ {w} : job'[v] = job[v]
    BY <1>1 DEF MoneyInv, MoneyShape
  <1> QED
    BY <1>1, <1>2, LocksMove, MoneyFacts

LEMMA RollbackKeeps ==
    ASSUME MoneyInv, NEW w \in Workers, Commit(w), UNCHANGED <<decor, split, push>>
    PROVE  MoneyInv'
  <1>1. JobFits(w)'
    BY CommitMoves DEF JobFits
  <1> QED
    BY <1>1, CommitMoves, WorkerMoves

LEMMA AtOnceKeeps ==
    ASSUME MoneyInv, UNCHANGED <<decor, split, push, job, locks>>
    PROVE  MoneyInv'
  BY DEF MoneyInv, MoneyShape, OneHolder, NewIsUnstaged, JobFits, Staged, Check, DecorMoneyIsStaged

(* A request that commits and leaves of the push row its status, its amounts and what was merged. *)
LEMMA TouchKeeps ==
    ASSUME MoneyInv, NEW w \in Workers, Commit(w), UNCHANGED <<decor, split>>, (push' \in Push),
           push'.status = push.status, push'.amount = push.amount, push'.mergedLegs = push.mergedLegs
    PROVE  MoneyInv'
  <1>1. \A v \in Workers \ {w} : JobFits(v)'
    BY CommitMoves DEF MoneyInv, JobFits, Staged, Check
  <1>2. JobFits(w)'
    BY CommitMoves DEF JobFits
  <1>3. MoneyShape' /\ NewIsUnstaged' /\ DecorMoneyIsStaged'
    BY CommitMoves DEF MoneyInv, MoneyShape, NewIsUnstaged, Staged, DecorMoneyIsStaged
  <1> QED
    BY <1>1, <1>2, <1>3, CommitMoves DEF MoneyInv

LEMMA FinishMergeKeeps ==
    ASSUME MoneyInv, NEW w \in Workers, FinishMerge(w), UNCHANGED <<decor, split>>
    PROVE  MoneyInv'
  <1> DEFINE legs == job[w].legs
             created == Created(legs)
  <1>0. Commit(w) /\ job[w].op = "merge"
    BY DEF FinishMerge
  <1>1. PICK new \in [created -> {e \in EntryIds : ~Exists(e)}] :
           push' = [push EXCEPT
              !.status = "merged", !.merged = TRUE, !.edited = FALSE,
              !.mergedLegs = legs,
              !.txn = [l \in Legs |->
                  IF l \in created THEN new[l]
                  ELSE IF push.txn[l] # Null /\ Exists(push.txn[l]) THEN push.txn[l]
                  ELSE Null]]
    BY DEF FinishMerge
  <1>2. legs \in LegMoney /\ Staged /\ Check(legs, split) /\ push \in Push
    BY <1>0 DEF MoneyInv, MoneyShape, JobFits
  <1> DEFINE t == [l \in Legs |-> IF l \in created THEN new[l]
                                  ELSE IF push.txn[l] # Null /\ Exists(push.txn[l]) THEN push.txn[l]
                                  ELSE Null]
  <1>3. t \in [Legs -> EntryIds \cup {Null}]
    BY <1>2, MoneyFacts
  <1> HIDE DEF t, legs, created
  <1>4. /\ push' \in Push /\ push'.status = "merged" /\ push'.amount = push.amount /\ push'.mergedLegs = legs
    <2>0. push' = [push EXCEPT !.status = "merged", !.merged = TRUE, !.edited = FALSE, !.mergedLegs = legs, !.txn = t]
      BY <1>1 DEF t
    <2> DEFINE p1 == [push EXCEPT !.status = "merged"]
               p2 == [p1 EXCEPT !.merged = TRUE]
               p3 == [p2 EXCEPT !.edited = FALSE]
               p4 == [p3 EXCEPT !.mergedLegs = legs]
    <2>1. p1 \in Push /\ p1.status = "merged" /\ p1.amount = push.amount
      BY <1>2, PushStatus
    <2>2. p2 \in Push /\ p2.status = "merged" /\ p2.amount = push.amount
      <3> HIDE DEF p1
      <3> QED BY <2>1, PushMerged
    <2>3. p3 \in Push /\ p3.status = "merged" /\ p3.amount = push.amount
      <3> HIDE DEF p2
      <3> QED BY <2>2, PushEdited
    <2>4. p4 \in Push /\ p4.status = "merged" /\ p4.amount = push.amount /\ p4.mergedLegs = legs
      <3> HIDE DEF p3
      <3> QED BY <2>3, <1>2, PushLegs
    <2>5. push' = [p4 EXCEPT !.txn = t]
      BY <2>0
    <2> HIDE DEF p4
    <2> QED
      BY <2>4, <2>5, <1>3, PushTxn
  <1>5. \A v \in Workers \ {w} : JobFits(v)'
    BY <1>4, CommitMoves, <1>0 DEF MoneyInv, JobFits, Staged, Check
  <1>6. JobFits(w)'
    BY <1>0, CommitMoves DEF JobFits
  <1>7. NewIsUnstaged'
    BY <1>2 DEF MoneyInv, NewIsUnstaged
  <1>8. DecorMoneyIsStaged'
    <2> SUFFICES ASSUME decor.status = "saved", decor.amount > 0 PROVE DecorMoneyIsStaged'
      BY DEF DecorMoneyIsStaged
    <2>1. push.amount = decor.amount
      BY DEF MoneyInv, DecorMoneyIsStaged
    <2>2. push.amount # Null
      BY <2>1, MoneyFacts DEF MoneyInv, MoneyShape, Decor
    <2> QED
      BY <1>2, <1>4, <2>1, <2>2 DEF DecorMoneyIsStaged, Staged, Check
  <1>9. MoneyShape'
    BY <1>0, <1>4, CommitMoves DEF MoneyInv, MoneyShape
  <1> QED
    BY <1>0, <1>5, <1>6, <1>7, <1>8, <1>9, CommitMoves DEF MoneyInv

LEMMA PaymentsKeep ==
    ASSUME MoneyInv, NEW w \in Workers, Payments(w)
    PROVE  MoneyInv'
  <1>0. PayNext(w, split) /\ UNCHANGED <<decor, split>>
    BY DEF Payments
  <1>1. ASSUME NEW legs \in LegMoney, BeginMerge(w, legs, split) PROVE MoneyInv'
    <2> DEFINE j == [op |-> "merge", legs |-> legs]
               rows == {"push"}
    <2>1. Start(w, j, rows) /\ Staged /\ Check(legs, split) /\ UNCHANGED <<push, entry>>
      BY <1>1 DEF BeginMerge
    <2>2. j.op = "merge" /\ j.legs = legs /\ "push" \in rows
      OBVIOUS
    <2> HIDE DEF j, rows
    <2> QED
      BY <1>0, <2>1, <2>2, StartKeeps
  <1>2. CASE FinishMerge(w)
    BY <1>0, <1>2, FinishMergeKeeps
  <1>3. ASSUME NEW e \in EntryIds,
               \/ \E d \in {"Approved", "Rejected"} : Decide(w, e, d)
               \/ \E a \in TypedAmounts : UpdateTransaction(w, e, a)
        PROVE  MoneyInv'
    BY <1>0, <1>3, AtOnceKeeps DEF Decide, UpdateTransaction, AtOnce
  <1>4. ASSUME NEW e \in EntryIds, NEW op \in {"clear", "delete"}, BeginOnEntry(w, e, op) PROVE MoneyInv'
    <2> DEFINE j == [op |-> op, id |-> e]
               rows == {e}
    <2>1. Start(w, j, rows) /\ UNCHANGED <<push, entry>>
      BY <1>4 DEF BeginOnEntry
    <2>2. j.op \in {"clear", "delete"}
      OBVIOUS
    <2> HIDE DEF j, rows
    <2> QED
      BY <1>0, <2>1, <2>2, StartKeeps
  <1>5. CASE FinishClearWarning(w)
    <2> DEFINE b == push.edited /\ job[w].id \notin Linked
    <2>1. Commit(w) /\ push' = [push EXCEPT !.edited = b]
      BY <1>5 DEF FinishClearWarning
    <2>2. b \in BOOLEAN /\ push \in Push
      BY DEF MoneyInv, MoneyShape
    <2> HIDE DEF b
    <2> QED
      BY <1>0, <2>1, <2>2, PushEdited, TouchKeeps
  <1>6. CASE FinishDelete(w)
    <2> DEFINE t == [l \in Legs |-> IF push.txn[l] = job[w].id THEN Null ELSE push.txn[l]]
    <2>1. Commit(w) /\ push' = [push EXCEPT !.txn = t]
      BY <1>6 DEF FinishDelete
    <2>2. t \in [Legs -> EntryIds \cup {Null}] /\ push \in Push
      BY MoneyFacts DEF MoneyInv, MoneyShape
    <2> HIDE DEF t
    <2> QED
      BY <1>0, <2>1, <2>2, PushTxn, TouchKeeps
  <1>7. CASE Rollback(w)
    BY <1>0, <1>7, RollbackKeeps DEF Rollback
  <1> QED
    BY <1>0, <1>1, <1>2, <1>3, <1>4, <1>5, <1>6, <1>7 DEF PayNext

-----------------------------------------------------------------------------
(* The entry itself. *)

LEMMA BeginKeeps ==
    ASSUME MoneyInv, NEW w \in Workers,
           (\E a \in Amounts, s \in SplitsOfKind : BeginEdit(w, a, s)) \/ BeginUnstage(w)
    PROVE  MoneyInv'
  <1>1. ASSUME NEW a \in Amounts, NEW s \in SplitsOfKind, BeginEdit(w, a, s) PROVE MoneyInv'
    <2> DEFINE j == [op |-> "edit", amount |-> a, split |-> s]
               rows == {"source"}
    <2>1. Start(w, j, rows) /\ decor.status = "saved" /\ UNCHANGED <<decor, split, push, entry>>
      BY <1>1 DEF BeginEdit
    <2>2. j.op = "edit" /\ j.amount = a
      OBVIOUS
    <2> HIDE DEF j, rows
    <2> QED
      BY <2>1, <2>2, StartKeeps
  <1>2. CASE BeginUnstage(w)
    <2> DEFINE j == [op |-> "unstage", staged |-> Staged, merged |-> push.merged, txn |-> Linked]
               rows == {"source"}
    <2>1. Start(w, j, rows) /\ decor.status = "saved" /\ UNCHANGED <<decor, split, push, entry>>
      BY <1>2 DEF BeginUnstage
    <2>2. j.op = "unstage"
      OBVIOUS
    <2> HIDE DEF j, rows
    <2> QED
      BY <2>1, <2>2, StartKeeps
  <1> QED
    BY <1>1, <1>2

LEMMA LockNextKeeps ==
    ASSUME MoneyInv, NEW w \in Workers, LockNext(w)
    PROVE  MoneyInv'
  <1> DEFINE more == Needs(w)
             rows == locks[w] \cup more
  <1>1. locks' = [locks EXCEPT ![w] = rows] /\ Free(w, more) /\ UNCHANGED <<decor, split, push, entry, job>>
    BY DEF LockNext
  <1>2. rows = locks[w] \cup more
    OBVIOUS
  <1> HIDE DEF rows, more
  <1>3. /\ OneHolder' /\ locks' = [v \in Workers |-> locks'[v]]
        /\ locks'[w] = rows /\ \A v \in Workers \ {w} : locks'[v] = locks[v]
    BY <1>1, <1>2, LocksMove
  <1>4. JobFits(w)'
    BY <1>1, <1>2, <1>3 DEF MoneyInv, JobFits, Staged, Check
  <1> QED
    BY <1>1, <1>3, <1>4, WorkerMoves DEF MoneyInv, MoneyShape

(* Whoever writes the push row from the entry's side does so when no merge is under way. *)
LEMMA FinishExcludesMerge ==
    ASSUME MoneyInv, NEW w \in Workers, FinishEdit(w) \/ FinishUnstage(w)
    PROVE  \A v \in Workers \ {w} : job[v].op # "merge"
  <1> SUFFICES ASSUME NEW v \in Workers \ {w}, job[v].op = "merge" PROVE FALSE
    OBVIOUS
  <1>1. Staged /\ "push" \in locks[v]
    BY DEF MoneyInv, JobFits
  <1>2. "push" \notin locks[w]
    BY <1>1 DEF MoneyInv, OneHolder
  <1>3. CASE FinishEdit(w)
    BY <1>1, <1>2, <1>3 DEF FinishEdit, TakesFirst
  <1>4. CASE FinishUnstage(w)
    <2>1. /\ job[w].op = "unstage" /\ (job[w].txn \subseteq locks[w] \/ ~job[w].merged)
          /\ ~(job[w].merged /\ ~(job[w].txn \subseteq locks[w]))
      BY <1>4 DEF FinishUnstage, TakesFirst
    <2>2. Needs(w) = {"push"}
      BY <1>1, <2>1 DEF Needs
    <2>3. Free(w, {"push"})
      BY <1>4, <2>2 DEF FinishUnstage
    <2> QED
      BY <1>1, <2>3 DEF Free
  <1> QED
    BY <1>3, <1>4

(* The push row is written while no merge is under way. *)
LEMMA PushWritten ==
    ASSUME MoneyInv, NEW w \in Workers, Commit(w), (push' \in Push), (decor' \in Decor),
           decor'.status # "new", decor.status # "new",
           \A v \in Workers \ {w} : job[v].op # "merge",
           DecorMoneyIsStaged'
    PROVE  MoneyInv'
  <1>1. \A v \in Workers \ {w} : JobFits(v)'
    BY CommitMoves DEF MoneyInv, JobFits
  <1>2. JobFits(w)'
    BY CommitMoves DEF JobFits
  <1>3. MoneyShape' /\ NewIsUnstaged'
    BY CommitMoves DEF MoneyInv, MoneyShape, NewIsUnstaged
  <1> QED
    BY <1>1, <1>2, <1>3, CommitMoves DEF MoneyInv

LEMMA FinishEditKeeps ==
    ASSUME MoneyInv, NEW w \in Workers, FinishEdit(w)
    PROVE  MoneyInv'
  <1> DEFINE a == job[w].amount
  <1>1. /\ Commit(w) /\ job[w].op = "edit" /\ decor' = [decor EXCEPT !.amount = a]
        /\ StageAgain(a) \/ Stage(a)
    BY DEF FinishEdit
  <1>2. a \in Money /\ decor.status # "new" /\ decor \in Decor /\ push \in Push
    BY <1>1 DEF MoneyInv, JobFits, MoneyShape, Money
  <1> HIDE DEF a
  <1>3. decor' \in Decor /\ decor'.status = decor.status /\ decor'.amount = a
    BY <1>1, <1>2 DEF Decor
  <1> DEFINE p1 == [push EXCEPT !.status = "awaiting"]
             p2 == [p1 EXCEPT !.edited = TRUE]
  <1>4. p1 \in Push /\ p1.status = "awaiting"
    BY <1>2, PushStatus
  <1>5. p2 \in Push /\ p2.status = "awaiting"
    <2> HIDE DEF p1
    <2> QED BY <1>4, PushEdited
  <1>6. push' \in {[p1 EXCEPT !.amount = a], [p2 EXCEPT !.amount = a]}
    BY <1>1 DEF Stage, StageAgain
  <1> HIDE DEF p1, p2
  <1>7. push' \in Push /\ push'.status = "awaiting" /\ push'.amount = a
    <2>1. CASE push' = [p1 EXCEPT !.amount = a]
      BY <1>2, <1>4, <2>1, PushAmount
    <2>2. CASE push' = [p2 EXCEPT !.amount = a]
      BY <1>2, <1>5, <2>2, PushAmount
    <2> QED
      BY <1>6, <2>1, <2>2
  <1>8. DecorMoneyIsStaged'
    BY <1>3, <1>7 DEF DecorMoneyIsStaged, Staged
  <1> QED
    BY <1>1, <1>2, <1>3, <1>7, <1>8, FinishExcludesMerge, PushWritten

LEMMA FinishUnstageKeeps ==
    ASSUME MoneyInv, NEW w \in Workers, FinishUnstage(w)
    PROVE  MoneyInv'
  <1>1. /\ Commit(w) /\ job[w].op = "unstage" /\ decor' = [decor EXCEPT !.status = "gone"]
        /\ push' \in {[push EXCEPT !.status = "merged", !.edited = FALSE], NoPush}
    BY DEF FinishUnstage
  <1>2. decor.status # "new" /\ decor \in Decor /\ push \in Push
    BY <1>1 DEF MoneyInv, JobFits, MoneyShape
  <1>3. decor' \in Decor /\ decor'.status = "gone"
    BY <1>1, <1>2 DEF Decor
  <1> DEFINE p1 == [push EXCEPT !.status = "merged"]
  <1>4. p1 \in Push
    BY <1>2, PushStatus
  <1>5. push' = [p1 EXCEPT !.edited = FALSE] \/ push' = NoPush
    BY <1>1
  <1> HIDE DEF p1
  <1>6. push' \in Push
    BY <1>4, <1>5, PushEdited, MoneyFacts
  <1>7. DecorMoneyIsStaged'
    BY <1>3 DEF DecorMoneyIsStaged
  <1> QED
    BY <1>1, <1>2, <1>3, <1>6, <1>7, FinishExcludesMerge, PushWritten

LEMMA AddEntryKeeps ==
    ASSUME MoneyInv, NEW w \in Workers, NEW a \in Money, NEW s \in SplitsOfKind, AddEntry(w, a, s)
    PROVE  MoneyInv'
  <1>1. /\ decor.status = "new" /\ UNCHANGED <<job, locks>> /\ decor' = [status |-> "saved", amount |-> a]
        /\ IF a = 0 THEN UNCHANGED <<push, split>> ELSE Stage(a) /\ split' = s
    BY DEF AddEntry, AtOnce
  <1>2. ~Staged /\ push \in Push
    BY <1>1 DEF MoneyInv, MoneyShape, NewIsUnstaged
  <1>3. decor' \in Decor /\ decor'.status = "saved" /\ decor'.amount = a
    BY <1>1 DEF Decor
  <1>4. \A v \in Workers : JobFits(v)'
    BY <1>1, <1>2, <1>3 DEF MoneyInv, JobFits
  <1>5. push' \in Push /\ DecorMoneyIsStaged'
    <2>1. CASE a = 0
      BY <1>1, <1>2, <1>3, <2>1 DEF DecorMoneyIsStaged
    <2>2. CASE a # 0
      <3> DEFINE p1 == [push EXCEPT !.status = "awaiting"]
      <3>1. p1 \in Push /\ p1.status = "awaiting"
        BY <1>2, PushStatus
      <3>2. push' = [p1 EXCEPT !.amount = a]
        BY <1>1, <2>2 DEF Stage
      <3> HIDE DEF p1
      <3>3. push' \in Push /\ push'.status = "awaiting" /\ push'.amount = a
        BY <3>1, <3>2, PushAmount
      <3> QED
        BY <1>3, <3>3 DEF DecorMoneyIsStaged, Staged
    <2> QED
      BY <2>1, <2>2
  <1> QED
    BY <1>1, <1>3, <1>4, <1>5 DEF MoneyInv, MoneyShape, OneHolder, NewIsUnstaged

LEMMA MoneyStep == MoneyInv /\ [Next]_vars => MoneyInv'
  <1> SUFFICES ASSUME MoneyInv, [Next]_vars PROVE MoneyInv'
    OBVIOUS
  <1>1. ASSUME NEW w \in Workers, Edits(w) PROVE MoneyInv'
    BY <1>1, AddEntryKeeps, BeginKeeps DEF Edits
  <1>2. ASSUME NEW w \in Workers, Finishes(w) PROVE MoneyInv'
    BY <1>2, LockNextKeeps, FinishEditKeeps, FinishUnstageKeeps DEF Finishes
  <1>3. ASSUME NEW w \in Workers, Payments(w) PROVE MoneyInv'
    BY <1>3, PaymentsKeep
  <1>4. CASE UNCHANGED vars
    BY <1>4, AtOnceKeeps DEF vars
  <1> QED
    BY <1>1, <1>2, <1>3, <1>4 DEF Next

(* The money of a VT Decor entry (migration 050, merge_row): for any requests, entries and amounts, *)
(* Payments has it as it is now, staged and, once merged, in parts that add up to it. *)
THEOREM DecorMoneyStaged == Spec => []DecorMoneyIsStaged
  <1>1. MoneyInv => DecorMoneyIsStaged
    BY DEF MoneyInv
  <1> QED
    BY <1>1, MoneyStart, MoneyStep, PTL DEF Spec

-----------------------------------------------------------------------------
(* The shapes of the entries of Payments and of the requests in flight. *)
JobsTyped == job \in [Workers -> Job] /\ locks \in [Workers -> SUBSET Rows]

MoneyTypes == split \in Splits /\ entry \in [EntryIds -> Entry] /\ JobsTyped

LEMMA MoneyTypesStart == Init => MoneyTypes
  <1>1. NoEntry \in Entry /\ Idle \in Job
    BY DEF NoEntry, Entry, Money, Job
  <1> QED
    BY <1>1 DEF Init, PayInit, MoneyTypes, JobsTyped

LEMMA StartTyped ==
    ASSUME JobsTyped, NEW w \in Workers, NEW j \in Job, NEW rows \in SUBSET Rows, Start(w, j, rows)
    PROVE  JobsTyped'
  BY DEF JobsTyped, Start

LEMMA CommitTyped ==
    ASSUME JobsTyped, NEW w \in Workers, Commit(w)
    PROVE  JobsTyped'
  BY DEF JobsTyped, Commit, Job

LEMMA RequestCarries ==
    ASSUME JobsTyped, NEW w \in Workers
    PROVE  /\ job[w].op = "merge" => job[w].legs \in LegMoney
           /\ job[w].op \in {"clear", "delete"} => job[w].id \in EntryIds
           /\ job[w].op = "edit" => job[w].amount \in Amounts /\ job[w].split \in Splits
  BY DEF JobsTyped, Job, Idle

(* What becomes of the entries a merge writes (merge_row). *)
LEMMA MergedEntries ==
    ASSUME MoneyTypes, NEW w \in Workers, FinishMerge(w)
    PROVE  entry' \in [EntryIds -> Entry]
  <1> DEFINE legs == job[w].legs
             created == Created(legs)
  <1>1. legs \in LegMoney /\ created \subseteq Legs
    BY RequestCarries DEF MoneyTypes, FinishMerge, Created
  <1>2. PICK new \in [created -> {e \in EntryIds : ~Exists(e)}] :
           entry' = [e \in EntryIds |->
              IF \E l \in created : new[l] = e
              THEN LET l == CHOOSE l \in created : new[l] = e IN NewEntry(legs[l])
              ELSE IF e \in Linked /\ Exists(e)
              THEN LET l == CHOOSE l \in Legs : push.txn[l] = e IN WriteLeg(entry[e], legs[l])
              ELSE entry[e]]
    BY DEF FinishMerge
  <1>3. ASSUME NEW l \in Legs PROVE NewEntry(legs[l]) \in Entry
    BY <1>1 DEF NewEntry, Entry, LegMoney
  <1>4. ASSUME NEW l \in Legs, NEW e \in EntryIds PROVE WriteLeg(entry[e], legs[l]) \in Entry
    <2>1. entry[e] \in Entry /\ legs[l] \in Money
      BY <1>1 DEF MoneyTypes, LegMoney
    <2> QED
      BY <2>1 DEF WriteLeg, RetiredLeg, UpdatedLeg, Entry
  <1> HIDE DEF created, legs
  <1> SUFFICES ASSUME NEW e \in EntryIds PROVE entry'[e] \in Entry
    BY <1>2
  <1>5. CASE \E l \in created : new[l] = e
    <2>1. (CHOOSE l \in created : new[l] = e) \in Legs
      BY <1>1, <1>5
    <2> QED
      BY <1>2, <1>3, <1>5, <2>1
  <1>6. CASE ~(\E l \in created : new[l] = e) /\ e \in Linked /\ Exists(e)
    <2>1. (CHOOSE l \in Legs : push.txn[l] = e) \in Legs
      BY <1>6 DEF Linked
    <2> QED
      BY <1>2, <1>4, <1>6, <2>1
  <1>7. CASE ~(\E l \in created : new[l] = e) /\ ~(e \in Linked /\ Exists(e))
    BY <1>2, <1>7 DEF MoneyTypes
  <1> QED
    BY <1>5, <1>6, <1>7

LEMMA PaymentsTyped ==
    ASSUME MoneyTypes, NEW w \in Workers, Payments(w)
    PROVE  MoneyTypes'
  <1>0. JobsTyped /\ entry \in [EntryIds -> Entry] /\ split \in Splits /\ UNCHANGED split /\ PayNext(w, split)
    BY DEF MoneyTypes, Payments
  <1>1. ASSUME NEW legs \in LegMoney, BeginMerge(w, legs, split) PROVE MoneyTypes'
    <2> DEFINE j == [op |-> "merge", legs |-> legs]
               rows == {"push"}
    <2>1. j \in Job /\ rows \in SUBSET Rows
      BY DEF Job, Rows
    <2>2. Start(w, j, rows) /\ UNCHANGED entry
      BY <1>1 DEF BeginMerge
    <2> HIDE DEF j, rows
    <2> QED
      BY <1>0, <2>1, <2>2, StartTyped DEF MoneyTypes
  <1>2. CASE FinishMerge(w)
    BY <1>0, <1>2, MergedEntries, CommitTyped DEF MoneyTypes, FinishMerge
  <1>3. ASSUME NEW e \in EntryIds, NEW d \in {"Approved", "Rejected"}, Decide(w, e, d) PROVE MoneyTypes'
    BY <1>0, <1>3 DEF MoneyTypes, JobsTyped, Decide, AtOnce, Entry
  <1>4. ASSUME NEW e \in EntryIds, NEW a \in TypedAmounts, UpdateTransaction(w, e, a) PROVE MoneyTypes'
    <2>1. a \in Money
      BY AmountsAssumption DEF Money
    <2> QED
      BY <1>0, <1>4, <2>1 DEF MoneyTypes, JobsTyped, UpdateTransaction, AtOnce, Entry
  <1>5. ASSUME NEW e \in EntryIds, NEW op \in {"clear", "delete"}, BeginOnEntry(w, e, op) PROVE MoneyTypes'
    <2> DEFINE j == [op |-> op, id |-> e]
               rows == {e}
    <2>1. j \in Job /\ rows \in SUBSET Rows
      BY DEF Job, Rows
    <2>2. Start(w, j, rows) /\ UNCHANGED entry
      BY <1>5 DEF BeginOnEntry
    <2> HIDE DEF j, rows
    <2> QED
      BY <1>0, <2>1, <2>2, StartTyped DEF MoneyTypes
  <1>6. CASE FinishClearWarning(w)
    BY <1>0, <1>6, CommitTyped DEF MoneyTypes, FinishClearWarning, Entry
  <1>7. CASE FinishDelete(w)
    <2>1. NoEntry \in Entry
      BY DEF NoEntry, Entry, Money
    <2> QED
      BY <1>0, <1>7, <2>1, CommitTyped DEF MoneyTypes, FinishDelete
  <1>8. CASE Rollback(w)
    BY <1>0, <1>8, CommitTyped DEF MoneyTypes, Rollback
  <1> QED
    BY <1>0, <1>1, <1>2, <1>3, <1>4, <1>5, <1>6, <1>7, <1>8 DEF PayNext

LEMMA WarnedEntries ==
    ASSUME entry \in [EntryIds -> Entry], NEW ids, Warn(ids)
    PROVE  entry' \in [EntryIds -> Entry]
  BY DEF Warn, Entry

LEMMA MoneyTypesStep == MoneyInv /\ MoneyTypes /\ [Next]_vars => MoneyTypes'
  <1> SUFFICES ASSUME MoneyInv, MoneyTypes, [Next]_vars PROVE MoneyTypes'
    OBVIOUS
  <1>0. /\ JobsTyped /\ entry \in [EntryIds -> Entry] /\ split \in Splits /\ SplitsOfKind \subseteq Splits
        /\ push.merged \in BOOLEAN /\ Linked \subseteq EntryIds
    <2>1. push \in Push
      BY DEF MoneyInv, MoneyShape
    <2> QED
      BY <2>1, MoneyFacts DEF MoneyTypes, SplitsOfKind, Splits, Linked, Legs
  <1>1. ASSUME NEW w \in Workers, NEW a \in Money, NEW s \in SplitsOfKind, AddEntry(w, a, s) PROVE MoneyTypes'
    BY <1>0, <1>1 DEF MoneyTypes, JobsTyped, AddEntry, AtOnce
  <1>2. ASSUME NEW w \in Workers, NEW a \in Amounts, NEW s \in SplitsOfKind, BeginEdit(w, a, s) PROVE MoneyTypes'
    <2> DEFINE j == [op |-> "edit", amount |-> a, split |-> s]
               rows == {"source"}
    <2>1. j \in Job /\ rows \in SUBSET Rows
      BY <1>0 DEF Job, Rows
    <2>2. Start(w, j, rows) /\ UNCHANGED <<split, entry>>
      BY <1>2 DEF BeginEdit
    <2> HIDE DEF j, rows
    <2> QED
      BY <1>0, <2>1, <2>2, StartTyped DEF MoneyTypes
  <1>3. ASSUME NEW w \in Workers, BeginUnstage(w) PROVE MoneyTypes'
    <2> DEFINE j == [op |-> "unstage", staged |-> Staged, merged |-> push.merged, txn |-> Linked]
               rows == {"source"}
    <2>1. j \in Job /\ rows \in SUBSET Rows
      BY <1>0 DEF Job, Rows, Staged
    <2>2. Start(w, j, rows) /\ UNCHANGED <<split, entry>>
      BY <1>3 DEF BeginUnstage
    <2> HIDE DEF j, rows
    <2> QED
      BY <1>0, <2>1, <2>2, StartTyped DEF MoneyTypes
  <1>4. ASSUME NEW w \in Workers, LockNext(w) PROVE MoneyTypes'
    <2>1. Needs(w) \subseteq Rows
      <3>1. job[w] \in Job
        BY <1>0 DEF JobsTyped
      <3>2. job[w].op = "unstage" => job[w].txn \subseteq EntryIds
        BY <3>1 DEF Job, Idle
      <3>3. {"push"} \subseteq Rows /\ Linked \subseteq Rows /\ EntryIds \subseteq Rows
        BY <1>0 DEF Rows
      <3>4. TakesFirst(w)
        BY <1>4 DEF LockNext
      <3> QED
        BY <3>2, <3>3, <3>4 DEF TakesFirst, Needs
    <2>2. locks' = [locks EXCEPT ![w] = @ \cup Needs(w)] /\ UNCHANGED <<split, entry, job>>
      BY <1>4 DEF LockNext
    <2> QED
      BY <1>0, <2>1, <2>2 DEF MoneyTypes, JobsTyped
  <1>5. ASSUME NEW w \in Workers, FinishEdit(w) PROVE MoneyTypes'
    <2>1. split' \in Splits /\ Commit(w) /\ (Warn(Linked) \/ UNCHANGED entry)
      BY <1>0, <1>5, RequestCarries DEF FinishEdit
    <2> QED
      BY <1>0, <2>1, CommitTyped, WarnedEntries DEF MoneyTypes
  <1>6. ASSUME NEW w \in Workers, FinishUnstage(w) PROVE MoneyTypes'
    <2>1. UNCHANGED split /\ Commit(w) /\ (Warn(job[w].txn) \/ UNCHANGED entry)
      BY <1>6 DEF FinishUnstage
    <2> QED
      BY <1>0, <2>1, CommitTyped, WarnedEntries DEF MoneyTypes
  <1>7. CASE UNCHANGED vars
    BY <1>0, <1>7 DEF MoneyTypes, JobsTyped, vars
  <1> QED
    BY <1>1, <1>2, <1>3, <1>4, <1>5, <1>6, <1>7, PaymentsTyped DEF Next, Edits, Finishes

-----------------------------------------------------------------------------
(***************************************************************************)
(* The run that has the books side by side.                                *)
(***************************************************************************)
OfficeInv ==
    /\ part = "delegation" => ScoresInv
    /\ part = "expenses" => FloatInv
    /\ part \in {"employees", "places"} => EmployeesInv
    /\ part = "decor" => JobInv
    /\ part = "decorMoney" => MoneyInv /\ MoneyTypes

LEMMA OfficeStart == OfficeInit => OfficeInv
  <1>1. OfficeInit => DayOne
    BY DEF OfficeInit, DelegationInit
  <1> QED
    BY <1>1, ScoresStart, FloatStart, EmployeesStart, DecorStart, MoneyStart, MoneyTypesStart
       DEF OfficeInit, OfficeInv

LEMMA OfficeStep ==
    OfficeInv /\ [OfficeNext]_<<part, today, delegationVars, expenseVars, employeeVars, decorVars, vars>>
        => OfficeInv'
  <1> SUFFICES ASSUME OfficeInv,
                      [OfficeNext]_<<part, today, delegationVars, expenseVars, employeeVars, decorVars, vars>>
               PROVE  OfficeInv'
    OBVIOUS
  <1>1. /\ part' = part
        /\ part = "delegation" => [DelegationNext]_<<today, delegationVars>>
        /\ part = "expenses" => [ExpensesNext]_<<today, expenseVars>>
        /\ part \in {"employees", "places"} => [EmployeesNext]_employeeVars
        /\ part = "decor" => [DecorNext]_decorVars
        /\ part = "decorMoney" => [Next]_vars
    BY DEF OfficeNext, EmployeesNext
  <1>2. part = "delegation" => ScoresInv'
    BY <1>1, ScoresStep DEF OfficeInv
  <1>3. part = "expenses" => FloatInv'
    BY <1>1, FloatStep DEF OfficeInv
  <1>4. part \in {"employees", "places"} => EmployeesInv'
    BY <1>1, EmployeesStep DEF OfficeInv
  <1>5. part = "decor" => JobInv'
    BY <1>1, DecorStep DEF OfficeInv
  <1>6. part = "decorMoney" => MoneyInv' /\ MoneyTypes'
    BY <1>1, MoneyStep, MoneyTypesStep DEF OfficeInv
  <1> QED
    BY <1>1, <1>2, <1>3, <1>4, <1>5, <1>6 DEF OfficeInv

LEMMA OfficeShapes == OfficeInv => OfficeTypeOK
  <1> SUFFICES ASSUME OfficeInv PROVE OfficeTypeOK
    OBVIOUS
  <1>1. ASSUME part = "delegation" PROVE DelegationTypeOK
    <2>1. ScoresInv
      BY <1>1 DEF OfficeInv
    <2>2. \A t \in TaskIds : task[t] \in Task \cup {NoRow}
      BY <2>1 DEF ScoresInv, TaskFits
    <2>3. \A x \in ExtraIds : extra[x] \in ExtraWork \cup {NoRow}
      BY <2>1 DEF ScoresInv, ExtraFits
    <2>4. \A t \in TaskIds : task[t] # NoRow =>
             (task[t].score # NoScore <=> task[t].status \in {"CompletedByStaff", "Approved"})
      BY <2>1 DEF ScoresInv, TaskFits
    <2> QED
      BY <2>1, <2>2, <2>3, <2>4 DEF ScoresInv, DelegationTypeOK
  <1>2. ASSUME part = "expenses" PROVE ExpensesTypeOK
    <2>1. FloatInv
      BY <1>2 DEF OfficeInv
    <2>2. \A k \in EntryKeys : expense[k] \in ExpenseEntry \cup {Unwritten}
      BY <2>1 DEF FloatInv, EntryFits
    <2> QED
      BY <2>1, <2>2 DEF FloatInv, ExpensesTypeOK
  <1>3. ASSUME part = "decorMoney" PROVE TypeOK
    BY <1>3 DEF OfficeInv, MoneyInv, MoneyShape, MoneyTypes, JobsTyped, TypeOK
  <1> QED
    BY <1>1, <1>2, <1>3 DEF OfficeInv, OfficeTypeOK, EmployeesInv, JobInv

(* In the run that has the books side by side, each keeps the shapes its module declares; a task has a *)
(* score while it is submitted or approved and at no other time (delegation.py).                       *)
THEOREM OfficeTypeCorrect == OfficeSpec => []OfficeTypeOK
  <1> QED
    BY OfficeStart, OfficeStep, OfficeShapes, PTL DEF OfficeSpec
=============================================================================
