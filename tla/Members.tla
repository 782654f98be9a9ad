------------------------------ MODULE Members -------------------------------
(***************************************************************************)
(* The members of the portal (app/admin.py, the members part, and          *)
(* change_password of app/main.py), as far as who may do what is concerned.*)
(*                                                                         *)
(* Who sends a request is looked up once, when it comes in (current_user); *)
(* its transaction runs afterwards and locks the row of its target only.   *)
(***************************************************************************)
EXTENDS Naturals

CONSTANTS
    MemberKeys,     \* rows dim_user may have
    Roles,          \* the roles, "admin" among them
    Clerks          \* requests in flight

ASSUME AdminIsARole == "admin" \in Roles

VARIABLES
    member,         \* dim_user
    errand,         \* what each request is in the middle of
    crossed         \* history: a request was carried out whose sender had lost the right to it

memberVars == <<member, errand, crossed>>

NoMember == [role |-> "none"]
NoErrand == [op |-> "idle"]

Member == [role : Roles, enabled : BOOLEAN, mustChange : BOOLEAN]

Exist(m) == member[m] # NoMember
MayManage(m) == Exist(m) /\ member[m].role = "admin" /\ member[m].enabled /\ ~member[m].mustChange
Accepted(m) == Exist(m) /\ member[m].enabled

MembersInit ==
    /\ member \in [MemberKeys -> [role : Roles, enabled : {TRUE}, mustChange : {FALSE}] \cup {NoMember}]
    /\ \E m \in MemberKeys : MayManage(m)
    /\ errand = [c \in Clerks |-> NoErrand]
    /\ crossed = FALSE

-----------------------------------------------------------------------------
(* create_user; the password is a first one and must be changed. *)
CreateMember(a, m, role) ==
    /\ MayManage(a)
    /\ ~Exist(m)
    /\ member' = [member EXCEPT ![m] = [role |-> role, enabled |-> TRUE, mustChange |-> TRUE]]
    /\ UNCHANGED <<errand, crossed>>

(* What a request may do to its target: edit_user, reset_password, disable_user, delete_user. *)
RoleChange(role) == [member |-> "role", role |-> role]
Reset == [member |-> "reset"]
Disable == [member |-> "disable"]
Remove == [member |-> "delete"]
Changes == {RoleChange(r) : r \in Roles} \cup {Reset, Disable, Remove}

(* A plausible bug: nobody is kept from shutting themselves out. *)
AllowedOnAnyone(a, m, change) == change.member \in {"role", "reset", "disable", "delete"}

(* One cannot change one's own role, disable or delete oneself. *)
AllowedOn(a, m, change) ==
    a = m => \/ change.member = "reset"
             \/ change.member = "role" /\ change.role = member[a].role

BeginChange(c, a, m, change) ==
    /\ errand[c] = NoErrand
    /\ MayManage(a)
    /\ AllowedOn(a, m, change)
    /\ errand' = [errand EXCEPT ![c] = [op |-> "change", by |-> a, on |-> m, what |-> change]]
    /\ UNCHANGED <<member, crossed>>

Changed(r, change) ==
    CASE change.member = "role" -> [r EXCEPT !.role = change.role]
      [] change.member = "reset" -> [r EXCEPT !.enabled = TRUE, !.mustChange = TRUE]
      [] change.member = "disable" -> [r EXCEPT !.enabled = FALSE]
      [] change.member = "delete" -> NoMember

(* _get_user, the write, and the audit row, which names a sender who must still have a row.  *)
(* What else a deleted member leaves behind is put in the sender's name.                     *)
FinishChange(c) ==
    /\ errand[c].op = "change"
    /\ LET e == errand[c] IN
        IF Exist(e.on) /\ Exist(e.by)
        THEN /\ member' = [member EXCEPT ![e.on] = Changed(@, e.what)]
             /\ crossed' = (crossed \/ ~MayManage(e.by))
        ELSE UNCHANGED <<member, crossed>>
    /\ errand' = [errand EXCEPT ![c] = NoErrand]

(* change_password: the old password is verified in one statement ... *)
BeginChangeOwn(c, m) ==
    /\ errand[c] = NoErrand
    /\ Accepted(m)
    /\ errand' = [errand EXCEPT ![c] = [op |-> "own", by |-> m]]
    /\ UNCHANGED <<member, crossed>>

(* ... and the new one is written in another, whatever has happened to the row since. *)
FinishChangeOwn(c) ==
    /\ errand[c].op = "own"
    /\ LET m == errand[c].by IN
        IF Exist(m) THEN member' = [member EXCEPT ![m].enabled = TRUE, ![m].mustChange = FALSE]
                    ELSE UNCHANGED member
    /\ errand' = [errand EXCEPT ![c] = NoErrand]
    /\ UNCHANGED crossed

MembersNext ==
    \/ \E a, m \in MemberKeys, r \in Roles : CreateMember(a, m, r)
    \/ \E c \in Clerks :
        \/ \E a, m \in MemberKeys, change \in Changes : BeginChange(c, a, m, change)
        \/ \E m \in MemberKeys : BeginChangeOwn(c, m)
        \/ FinishChange(c) \/ FinishChangeOwn(c)

-----------------------------------------------------------------------------
Errand == {NoErrand}
    \cup [op : {"change"}, by : MemberKeys, on : MemberKeys, what : Changes]
    \cup [op : {"own", "ask"}, by : MemberKeys]

\* The rows and the requests have the shapes declared above.
MembersTypeOK ==
    /\ member \in [MemberKeys -> Member \cup {NoMember}]
    /\ errand \in [Clerks -> Errand]
    /\ crossed \in BOOLEAN

\* "You cannot disable your own account" (disable_user, and delete_user, edit_user): the guards
\* look at one request at a time, and together they keep an administrator in the portal, unless
\* a request was carried out for somebody who was not one any more.
AdminRemains ==
    crossed \/ \E m \in MemberKeys : Exist(m) /\ member[m].role = "admin" /\ member[m].enabled
=============================================================================
