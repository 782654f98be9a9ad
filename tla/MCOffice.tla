------------------------------ MODULE MCOffice ------------------------------
(* The office's books, which share nothing but the calendar: each behaviour is one of one of them. *)
(* Of the employees one part is the list and the sync, the other the places and the tags.          *)
EXTENDS Delegation, Expenses, Employees, DecorJob, DecorMoney, TLC

VARIABLE part       \* the book of this behaviour

DearerAmounts == {2}
PointsForLate == -5
PointsForRevise == -3
PointsForExtend == -5
OneQuotation == {1}

Same == Permutations(Workers) \cup Permutations(EmployeeKeys)

OfficeInit ==
    /\ part \in {"delegation", "expenses", "employees", "places", "decor", "decorMoney"}
    /\ DelegationInit /\ ExpensesInit /\ EmployeesInit /\ DecorInit /\ Init
    /\ part # "decorMoney" => split = "cash"

OfficeNext ==
    /\ \/ /\ part = "delegation" /\ DelegationNext
          /\ UNCHANGED <<expenseVars, employeeVars, decorVars, vars>>
       \/ /\ part = "expenses" /\ ExpensesNext
          /\ UNCHANGED <<delegationVars, employeeVars, decorVars, vars>>
       \/ /\ \/ part = "employees" /\ (ListNext \/ RowNext)
             \/ part = "places" /\ (RowNext \/ PlacesNext)
          /\ UNCHANGED <<today, delegationVars, expenseVars, decorVars, vars>>
       \/ /\ part = "decor" /\ DecorNext
          /\ UNCHANGED <<today, delegationVars, expenseVars, employeeVars, vars>>
       \/ /\ part = "decorMoney" /\ Next
          /\ UNCHANGED <<today, delegationVars, expenseVars, employeeVars, decorVars>>
    /\ UNCHANGED part

OfficeSpec == OfficeInit /\ [][OfficeNext]_<<part, today, delegationVars, expenseVars,
                                             employeeVars, decorVars, vars>>

\* The state of every book has the shapes its module declares.
OfficeTypeOK ==
    /\ part = "delegation" => DelegationTypeOK
    /\ part = "expenses" => ExpensesTypeOK
    /\ part \in {"employees", "places"} => EmployeesTypeOK
    /\ part = "decor" => DecorTypeOK
    /\ part = "decorMoney" => TypeOK
=============================================================================
