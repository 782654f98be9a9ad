------------------------------- MODULE Access -------------------------------
(***************************************************************************)
(* Who opens a page (app/access.py): what the role has, what was set for   *)
(* the person, and the requests people send.  One page is enough: every    *)
(* statement names one.                                                    *)
(***************************************************************************)
EXTENDS Members, FiniteSets

VARIABLES
    rolePages,      \* page_access: the roles that have the page
    exception,      \* user_page_access, by person
    pending         \* access_request rows that wait, counted by person

accessVars == <<rolePages, exception, pending>>

NoException == "default"
Exceptions == {NoException, "block", "view", "edit"}

AccessInit ==
    /\ MembersInit
    /\ rolePages = {}
    /\ exception = [m \in MemberKeys |-> NoException]
    /\ pending = [m \in MemberKeys |-> 0]

(* effective_access: "edit", "view", or "no". *)
Effective(m) ==
    IF member[m].role = "admin" THEN "edit"
    ELSE CASE exception[m] = NoException -> IF member[m].role \in rolePages THEN "edit" ELSE "no"
           [] exception[m] = "block" -> "no"
           [] OTHER -> exception[m]

(* A plausible bug: the role is asked, whatever was set for the person. *)
UsersWithPageOfRole ==
    {m \in MemberKeys : /\ Accepted(m) /\ member[m].role # "admin"
                        /\ member[m].role \in rolePages \/ exception[m] \in {"view", "edit"}}

(* users_with_page: the same question, asked of the database for everybody at once. *)
UsersWithPage ==
    {m \in MemberKeys : /\ Accepted(m) /\ member[m].role # "admin"
                        /\ \/ member[m].role \in rolePages /\ exception[m] # "block"
                           \/ exception[m] \in {"view", "edit"}}

-----------------------------------------------------------------------------
(* set_matrix *)
SwitchRole(a, role) ==
    /\ MayManage(a)
    /\ \/ rolePages' = rolePages \cup {role}
       \/ rolePages' = rolePages \ {role}
    /\ UNCHANGED <<memberVars, exception, pending>>

(* set_user_access *)
SetException(a, m, x) ==
    /\ MayManage(a)
    /\ Exist(m)
    /\ exception' = [exception EXCEPT ![m] = x]
    /\ UNCHANGED <<memberVars, rolePages, pending>>

(* request_access: is one waiting already? ... *)
BeginAsk(c, m) ==
    /\ errand[c] = NoErrand
    /\ Accepted(m)
    /\ Effective(m) = "no"
    /\ pending[m] = 0
    /\ errand' = [errand EXCEPT ![c] = [op |-> "ask", by |-> m]]
    /\ UNCHANGED <<member, crossed, rolePages, exception, pending>>

(* A plausible bug: no unique index on the requests that wait. *)
MayWait(m) == TRUE

(* uq_access_request_pending *)
OneMayWait(m) == pending[m] = 0

(* ... then the row, if the index lets it in. *)
FinishAsk(c) ==
    /\ errand[c].op = "ask"
    /\ LET m == errand[c].by IN
        pending' = IF Exist(m) /\ OneMayWait(m) THEN [pending EXCEPT ![m] = @ + 1] ELSE pending
    /\ errand' = [errand EXCEPT ![c] = NoErrand]
    /\ UNCHANGED <<member, crossed, rolePages, exception>>

(* _decide: the row is locked, so a request is decided once. *)
DecideRequest(a, m, approve) ==
    /\ MayManage(a)
    /\ pending[m] > 0
    /\ pending' = [pending EXCEPT ![m] = @ - 1]
    /\ exception' = IF approve THEN [exception EXCEPT ![m] = "edit"] ELSE exception
    /\ UNCHANGED <<memberVars, rolePages>>

(* A member's requests and exceptions go with them (ON DELETE CASCADE). *)
Cascade ==
    /\ exception' = [m \in MemberKeys |-> IF member'[m] = NoMember THEN NoException ELSE exception[m]]
    /\ pending' = [m \in MemberKeys |-> IF member'[m] = NoMember THEN 0 ELSE pending[m]]
    /\ UNCHANGED rolePages

AccessNext ==
    \/ MembersNext /\ Cascade
    \/ \E a \in MemberKeys :
        \/ \E r \in Roles \ {"admin"} : SwitchRole(a, r)
        \/ \E m \in MemberKeys :
            \/ \E x \in Exceptions : SetException(a, m, x)
            \/ \E approve \in BOOLEAN : DecideRequest(a, m, approve)
    \/ \E c \in Clerks : FinishAsk(c) \/ \E m \in MemberKeys : BeginAsk(c, m)

AccessSpec == AccessInit /\ [][AccessNext]_<<memberVars, accessVars>>

-----------------------------------------------------------------------------
\* The rows and the requests have the shapes declared above, and at most one request of a person
\* waits, though two can be sent at once ("You already have a request waiting for that page.").
AccessTypeOK ==
    /\ MembersTypeOK
    /\ rolePages \subseteq Roles
    /\ exception \in [MemberKeys -> Exceptions]
    /\ pending \in [MemberKeys -> {0, 1}]

\* effective_access and users_with_page are two programs for one question, in Python and in SQL:
\* a task or a checklist can be given to a person exactly when they can open its page.
HoldersAgree ==
    \A m \in MemberKeys : (Accepted(m) /\ member[m].role # "admin") =>
        (m \in UsersWithPage <=> Effective(m) # "no")
=============================================================================
