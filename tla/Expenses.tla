------------------------------ MODULE Expenses ------------------------------
(***************************************************************************)
(* Regular expenses (app/expenses.py): a float of money.  Entries are      *)
(* added, corrected, cancelled and deleted; each change is written to the  *)
(* audit log by the same transaction, which holds the entry's row.         *)
(***************************************************************************)
EXTENDS Calendar, FiniteSetsExt

CONSTANTS
    Spenders, Manager,      \* people with "pay_expense"; one with "pay_expense_manage"
    EntryKeys,              \* rows of fact_expense_entry, in the order of their keys
    ExpenseAmounts,
    OpeningBalance

ASSUME ExpensesAssumption ==
    /\ EntryKeys \subseteq Nat /\ IsFiniteSet(EntryKeys)
    /\ ExpenseAmounts \subseteq Nat \ {0}
    /\ OpeningBalance \in Int

VARIABLES
    cancellers,     \* spenders who also hold "pay_expense_void"
    expense,        \* fact_expense_entry
    explained       \* what the audit log's amounts add up to, from the opening balance

expenseVars == <<cancellers, expense, explained>>

Unwritten == [kind |-> "none"]

ExpenseEntry == [kind : {"Topup", "Expense"}, amount : ExpenseAmounts, day : Days,
                 by : Spenders \cup {Manager}, made : Days, voided : BOOLEAN]

ExpensesInit ==
    /\ cancellers = {}
    /\ expense = [k \in EntryKeys |-> Unwritten]
    /\ explained = OpeningBalance

Written == {k \in EntryKeys : expense[k] # Unwritten}
Counted == {k \in Written : ~expense[k].voided}

Signed(kind, amount) == IF kind = "Topup" THEN amount ELSE -amount

Change(k) == Signed(expense[k].kind, expense[k].amount)

(* balances: opening + top-ups - expenses of what is not cancelled. *)
Balance == OpeningBalance + SumFunction([k \in Counted |-> Change(k)])

MayVoidAny(p) == p = Manager \/ p \in cancellers
OwnToday(p, k) == expense[k].by = p /\ expense[k].made = today
MayChange(p, k) == k \in Counted /\ (MayVoidAny(p) \/ OwnToday(p, k))

-----------------------------------------------------------------------------
SwitchVoidPage ==
    /\ \E p \in Spenders : cancellers' = SymDiff(cancellers, {p})
    /\ UNCHANGED <<today, expense, explained>>

(* A plausible bug: the date of a correction or an entry is not looked at. *)
DayAny(day) == day \in Days

(* A date to come is refused. *)
DayOpen(day) == day <= today

AddExpense(p, k, kind, amount, day) ==
    /\ kind = "Topup" => p = Manager
    /\ DayOpen(day)
    /\ k \notin Written
    /\ \A j \in Written : j < k         \* keys are given in order
    /\ expense' = [expense EXCEPT ![k] = [kind |-> kind, amount |-> amount, day |-> day,
                                          by |-> p, made |-> today, voided |-> FALSE]]
    /\ explained' = explained + Signed(kind, amount)
    /\ UNCHANGED <<today, cancellers>>

(* edit_entry: the kind cannot change. *)
EditEntry(p, k, amount, day) ==
    /\ MayChange(p, k)
    /\ DayOpen(day)
    /\ <<amount, day>> # <<expense[k].amount, expense[k].day>>
    /\ expense' = [expense EXCEPT ![k].amount = amount, ![k].day = day]
    /\ explained' = explained - Change(k) + Signed(expense[k].kind, amount)
    /\ UNCHANGED <<today, cancellers>>

VoidEntry(p, k) ==
    /\ MayChange(p, k)
    /\ expense' = [expense EXCEPT ![k].voided = TRUE]
    /\ explained' = explained - Change(k)
    /\ UNCHANGED <<today, cancellers>>

(* delete_entry is the administrator's; the log says whether the entry still counted. *)
DeleteEntry(k) ==
    /\ k \in Written
    /\ expense' = [expense EXCEPT ![k] = Unwritten]
    /\ explained' = IF expense[k].voided THEN explained ELSE explained - Change(k)
    /\ UNCHANGED <<today, cancellers>>

ExpensesNext ==
    \/ SwitchVoidPage
    \/ Tomorrow /\ UNCHANGED expenseVars
    \/ \E k \in EntryKeys :
        \/ DeleteEntry(k)
        \/ \E p \in Spenders \cup {Manager} :
            \/ VoidEntry(p, k)
            \/ \E amount \in ExpenseAmounts, day \in Days :
                \/ EditEntry(p, k, amount, day)
                \/ \E kind \in {"Topup", "Expense"} : AddExpense(p, k, kind, amount, day)

ExpensesSpec == DayOne /\ ExpensesInit /\ [][ExpensesNext]_<<today, expenseVars>>

-----------------------------------------------------------------------------
(* entries: the order of the lines of the statement, ORDER BY d.full_date, e.entry_key. *)
Before(j, k) == expense[j].day < expense[k].day \/ (expense[j].day = expense[k].day /\ j < k)
LastLine(lines) == CHOOSE k \in lines : \A j \in lines \ {k} : Before(j, k)

(* The balance after the last line of the statement; a cancelled line changes nothing. *)
RunningBalance ==
    MapThenFoldSet(LAMBDA k, running : IF expense[k].voided THEN running ELSE running + Change(k),
                   OpeningBalance, LAMBDA k : k, LastLine, Written)

(* summary: the opening of a period, and its closing. *)
CountedBefore(from) == {k \in Counted : expense[k].day < from}
CountedWithin(from, to) == {k \in Counted : from <= expense[k].day /\ expense[k].day <= to}

PeriodOpening(from) == OpeningBalance + SumFunction([k \in CountedBefore(from) |-> Change(k)])
PeriodClosing(from, to) == PeriodOpening(from) + SumFunction([k \in CountedWithin(from, to) |-> Change(k)])

\* The rows have the shapes declared above.
ExpensesTypeOK ==
    /\ cancellers \subseteq Spenders
    /\ expense \in [EntryKeys -> ExpenseEntry \cup {Unwritten}]
    /\ explained \in Int

\* "so the balance can always be explained" (module docstring): the balance on the screen, the one
\* the audit log adds up to, the last line of the statement, and the closing of every period that
\* ends today are one number, after any corrections, cancellations and deletions.
BalanceIsExplained ==
    /\ Balance = explained
    /\ Balance = RunningBalance
    /\ \A from \in 1..today : PeriodClosing(from, today) = Balance
=============================================================================
