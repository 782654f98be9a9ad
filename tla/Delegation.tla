----------------------------- MODULE Delegation -----------------------------
(***************************************************************************)
(* Delegated tasks (app/delegation.py): a manager hands one out with a     *)
(* deadline, its owner submits it and is scored, the manager approves it,  *)
(* sends it back or rejects it; a missed deadline may be moved.  Extra     *)
(* work is logged by its author and earns points when a manager approves.  *)
(*                                                                         *)
(* Every handler that changes a task takes its row first (FOR UPDATE), so  *)
(* a handler is one step.                                                  *)
(***************************************************************************)
EXTENDS Calendar, FiniteSetsExt

CONSTANTS
    Staff,                          \* people who hold "deleg_mine"
    Admin,                          \* the administrator
    TaskIds, ExtraIds,              \* rows of fact_task and fact_extra_work
    OnTime, Late, Revise, Extend,   \* the scoring settings
    ExtraPoints,                    \* points a manager may give for extra work
    MaxPenalties,                   \* the bound on revisions and on extensions of a task
    NoScore                         \* the score (NULL) of what has none

ASSUME ScoringAssumption ==
    /\ {OnTime, Late, Revise, Extend} \subseteq Int
    /\ ExtraPoints \subseteq Int
    /\ MaxPenalties \in Nat
    /\ NoScore \notin Int
    /\ IsFiniteSet(TaskIds) /\ IsFiniteSet(ExtraIds)

VARIABLES
    managers,       \* staff who also hold "deleg_manage" with edit rights
    editors,        \* staff who hold "deleg_edit" with edit rights
    task,           \* fact_task
    extra,          \* fact_extra_work
    granted         \* history: the points each person was told they were given, less those taken back

delegationVars == <<managers, editors, task, extra, granted>>

NoRow == [status |-> "none"]

Task == [owner : Staff, due : Days, status : {"Pending", "CompletedByStaff", "Approved", "Rejected"},
         score : Int \cup {NoScore}, revisions : Nat, extensions : Nat, doneInTime : BOOLEAN]

ExtraWork == [author : Staff, status : {"Pending", "Approved", "Rejected"}, points : Int \cup {NoScore}]

DelegationInit ==
    /\ DayOne
    /\ managers = {}
    /\ editors = {}
    /\ task = [t \in TaskIds |-> NoRow]
    /\ extra = [x \in ExtraIds |-> NoRow]
    /\ granted = [p \in Staff |-> 0]

-----------------------------------------------------------------------------
(* Who a person is: _who, _need_manager, _need_editor, assignable_staff. *)
Actors == Staff \cup {Admin}
Manages(p) == p = Admin \/ p \in managers
MayEditTasks(p) == p = Admin \/ p \in editors
Assignable == Staff \ managers

Points(score) == IF score = NoScore THEN 0 ELSE score

Grant(p, n) == granted' = [granted EXCEPT ![p] = @ + n]

(* Setup > Access: pages are switched on and off at any time. *)
SwitchPages ==
    /\ \/ \E p \in Staff : managers' = SymDiff(managers, {p}) /\ UNCHANGED editors
       \/ \E p \in Staff : editors' = SymDiff(editors, {p}) /\ UNCHANGED managers
    /\ UNCHANGED <<today, task, extra, granted>>

Assign(p, t, owner, due) ==
    /\ Manages(p)
    /\ task[t] = NoRow
    /\ due >= today
    /\ owner \in Assignable
    /\ task' = [task EXCEPT ![t] = [owner |-> owner, due |-> due, status |-> "Pending", score |-> NoScore,
                                    revisions |-> 0, extensions |-> 0, doneInTime |-> FALSE]]
    /\ UNCHANGED <<today, managers, editors, extra, granted>>

(* The score of a submission: on time or late, less what went before. *)
Earned(r) ==
    (IF today <= r.due THEN OnTime ELSE Late) + r.revisions * Revise + r.extensions * Extend

Complete(p, t) ==
    /\ task[t].status = "Pending"
    /\ p \in {task[t].owner, Admin}
    /\ task' = [task EXCEPT ![t].status = "CompletedByStaff", ![t].score = Earned(task[t]),
                            ![t].doneInTime = (today <= task[t].due)]
    /\ Grant(task[t].owner, Earned(task[t]))
    /\ UNCHANGED <<today, managers, editors, extra>>

(* A plausible bug: a finished task can be given to someone else. *)
GivenToAnyone(t, owner) == owner \in Assignable

GivenTo(t, owner) == owner = task[t].owner \/ (task[t].status = "Pending" /\ owner \in Assignable)

(* edit_task: wording is abstracted away, so only the owner and the deadline change. *)
EditTask(p, t, owner, due) ==
    /\ MayEditTasks(p)
    /\ task[t] # NoRow
    /\ GivenTo(t, owner)
    /\ due # task[t].due => due >= today
    /\ <<owner, due>> # <<task[t].owner, task[t].due>>
    /\ task' = [task EXCEPT ![t].owner = owner, ![t].due = due]
    /\ UNCHANGED <<today, managers, editors, extra, granted>>

(* A plausible bug: the score of the work that is sent back stays. *)
SendBackScored(p, t) ==
    /\ Manages(p)
    /\ task[t].status = "CompletedByStaff"
    /\ task[t].revisions < MaxPenalties
    /\ task' = [task EXCEPT ![t].status = "Pending", ![t].revisions = @ + 1]
    /\ UNCHANGED <<today, managers, editors, extra, granted>>

SendBack(p, t) ==
    /\ Manages(p)
    /\ task[t].status = "CompletedByStaff"
    /\ task[t].revisions < MaxPenalties
    /\ task' = [task EXCEPT ![t].status = "Pending", ![t].score = NoScore, ![t].revisions = @ + 1]
    /\ Grant(task[t].owner, -Points(task[t].score))
    /\ UNCHANGED <<today, managers, editors, extra>>

Approve(p, t) ==
    /\ Manages(p)
    /\ task[t].status = "CompletedByStaff"
    /\ task' = [task EXCEPT ![t].status = "Approved"]
    /\ UNCHANGED <<today, managers, editors, extra, granted>>

Reject(p, t) ==
    /\ Manages(p)
    /\ task[t].status = "CompletedByStaff"
    /\ task' = [task EXCEPT ![t].status = "Rejected", ![t].score = NoScore]
    /\ Grant(task[t].owner, -Points(task[t].score))
    /\ UNCHANGED <<today, managers, editors, extra>>

(* extend: a deadline that was missed costs a penalty, one that was not does not. *)
ExtendDeadline(p, t, due) ==
    /\ Manages(p)
    /\ due >= today
    /\ task[t].status = "Pending"
    /\ task[t].extensions < MaxPenalties
    /\ task' = [task EXCEPT ![t].due = due,
                            ![t].extensions = IF task[t].due < today THEN @ + 1 ELSE @]
    /\ UNCHANGED <<today, managers, editors, extra, granted>>

-----------------------------------------------------------------------------
LogExtraWork(p, x) ==
    /\ extra[x] = NoRow
    /\ extra' = [extra EXCEPT ![x] = [author |-> p, status |-> "Pending", points |-> NoScore]]
    /\ UNCHANGED <<today, managers, editors, task, granted>>

(* extra_work_review looks at no earlier decision: it may be taken again. *)
ReviewExtraWork(p, x, status, points) ==
    /\ Manages(p)
    /\ extra[x] # NoRow
    /\ LET given == IF status = "Approved" THEN points ELSE NoScore IN
        /\ extra' = [extra EXCEPT ![x].status = status, ![x].points = given]
        /\ Grant(extra[x].author, Points(given) - Points(extra[x].points))
    /\ UNCHANGED <<today, managers, editors, task>>

-----------------------------------------------------------------------------
DelegationNext ==
    \/ SwitchPages
    \/ Tomorrow /\ UNCHANGED delegationVars
    \/ \E p \in Actors, t \in TaskIds :
        \/ Complete(p, t) \/ SendBack(p, t) \/ Approve(p, t) \/ Reject(p, t)
        \/ \E due \in Days : ExtendDeadline(p, t, due)
        \/ \E due \in Days, owner \in Staff : Assign(p, t, owner, due) \/ EditTask(p, t, owner, due)
    \/ \E x \in ExtraIds :
        \/ \E p \in Staff : LogExtraWork(p, x)
        \/ \E p \in Actors, status \in {"Approved", "Rejected"}, n \in ExtraPoints : ReviewExtraWork(p, x, status, n)

DelegationSpec == DelegationInit /\ [][DelegationNext]_<<today, delegationVars>>

-----------------------------------------------------------------------------
(* classify: the colour of a task in the weekly view. *)
Classify(r) ==
    CASE r.status = "Pending" -> IF today > r.due THEN "red" ELSE "pending"
      [] r.status = "CompletedByStaff" -> "pending"
      [] r.status = "Rejected" -> "red"
      [] r.status = "Approved" ->
            IF r.extensions > 0 \/ r.revisions >= 2 THEN "red"
            ELSE IF r.revisions = 1 THEN "yellow"
            ELSE IF Points(r.score) > 0 THEN "green" ELSE "red"

(* scoreboard_rows: task points and points of approved extra work. *)
ScoredTasks(p) == {t \in TaskIds : task[t] # NoRow /\ task[t].score # NoScore /\ task[t].owner = p}
ApprovedWork(p) == {x \in ExtraIds : extra[x].status = "Approved" /\ extra[x].author = p}

TotalScore(p) ==
    SumFunction([t \in ScoredTasks(p) |-> task[t].score])
      + SumFunction([x \in ApprovedWork(p) |-> Points(extra[x].points)])

\* The rows have the shapes declared above.
DelegationTypeOK ==
    /\ today \in Days
    /\ managers \subseteq Staff /\ editors \subseteq Staff
    /\ task \in [TaskIds -> Task \cup {NoRow}]
    /\ \A t \in TaskIds : task[t] # NoRow =>
          (task[t].score # NoScore <=> task[t].status \in {"CompletedByStaff", "Approved"})
    /\ extra \in [ExtraIds -> ExtraWork \cup {NoRow}]
    /\ granted \in [Staff -> Int]

\* "every staff member is scored" (module docstring): the scoreboard of a person is what they
\* were given and not taken back, whatever was edited, handed over, sent back or decided again; and
\* "green = done on time, no revisions" (classify): a task the week shows green was never sent
\* back, no missed deadline of it was moved, and it was submitted within its deadline of that
\* moment, unless the settings (-1000 to 1000 points) reward late work.
ScoresAreRight ==
    /\ \A p \in Staff : TotalScore(p) = granted[p]
    /\ \A t \in TaskIds : (task[t] # NoRow /\ Classify(task[t]) = "green")
        => /\ task[t].revisions = 0 /\ task[t].extensions = 0
           /\ task[t].doneInTime \/ Late > 0
=============================================================================
