----------------------------- MODULE MCRecords ------------------------------
(* What is worked out from the records: the screens an order is on, the messages about it, the     *)
(* numbers of bills, the verdict on documents, the values of a list, the month of an employee.     *)
(* The parts share no state here, so each behaviour is one of one of them.                         *)
EXTENDS OrderScreens, DispatchAlert, BillGaps, DocCheck, Lists, Payroll, TLC

VARIABLE part       \* whose behaviour this one is

FieldsSaved == {{"date", "by"}, {"received"}, {"date", "by", "received", "paid"}}
BothSeries == {<<2, 3>>}
(* Numbers are 1 and 2, dates 1 and 2: a bill that names its date and also shows another, one    *)
(* without the word, one of another order, a picture of the bill, and papers that show little. *)
Shown(kind, numbers, dates, labelled) ==
    [kind |-> kind, numbers |-> numbers, dates |-> dates, labelled |-> labelled]
SomePapers == {Shown("pdf", {1}, {1, 2}, {1}), Shown("pdf", {1}, {2}, {}), Shown("pdf", {2}, {1, 2}, {}),
               Shown("pdf", {}, {}, {}), Shown("scan", {1, 2}, {2}, {2}), Shown("photo", {1}, {1}, {1}),
               Shown("photo", {1}, {}, {})}

(* The states the other parts wait in. *)
ScreensIdle == job = [k \in OrderKeys |-> Absent] /\ route = [s \in Statuses |-> "shop"]
               /\ cleanup = FALSE /\ reminder = [k \in OrderKeys |-> Absent]
BillsIdle == bill = [b \in BillKeys |-> NoBill] /\ setting = [t \in BillTypes |-> NoBill] /\ void = {}
DocIdle == /\ printed = [d \in Documents |-> NoPaper] /\ read = [d \in Documents |-> NotRead]
           /\ entered = [expected |-> {}, date |-> {}] /\ readerOn = FALSE /\ todo = [r \in Readers |-> {}]
ListsIdle == /\ value = [k \in Keys |-> Gone] /\ order = [o \in Orders |-> [status |-> Gone, cancelled |-> FALSE]]
             /\ merging = Gone /\ chosen = [o \in Orders |-> Gone] /\ into = [k \in Keys |-> k]

RecordsInit ==
    /\ part \in {"screens", "alerts", "bills", "documents", "lists", "payroll"}
    /\ IF part = "screens" THEN ScreensInit ELSE ScreensIdle
    /\ AlertInit
    /\ IF part = "bills" THEN BillsInit ELSE BillsIdle
    /\ IF part = "documents" THEN DocInit ELSE DocIdle
    /\ IF part = "lists" THEN ListsInit ELSE ListsIdle
    /\ DayOne /\ PayrollInit

RecordsNext ==
    /\ \/ /\ part = "screens" /\ ScreensNext
          /\ UNCHANGED <<alertVars, billVars, docVars, listVars, today, payrollVars>>
       \/ /\ part = "alerts" /\ AlertNext
          /\ UNCHANGED <<screenVars, billVars, docVars, listVars, today, payrollVars>>
       \/ /\ part = "bills" /\ BillsNext
          /\ UNCHANGED <<screenVars, alertVars, docVars, listVars, today, payrollVars>>
       \/ /\ part = "documents" /\ DocNext
          /\ UNCHANGED <<screenVars, alertVars, billVars, listVars, today, payrollVars>>
       \/ /\ part = "lists" /\ ListsNext
          /\ UNCHANGED <<screenVars, alertVars, billVars, docVars, today, payrollVars>>
       \/ /\ part = "payroll" /\ PayrollNext
          /\ UNCHANGED <<screenVars, alertVars, billVars, docVars, listVars>>
    /\ UNCHANGED part

RecordsSpec ==
    RecordsInit /\ [][RecordsNext]_<<part, screenVars, alertVars, billVars, docVars, listVars, today, payrollVars>>

\* The state of every part has the shapes its module declares.
RecordsTypeOK ==
    /\ part = "screens" => ScreensTypeOK
    /\ part = "alerts" => AlertTypeOK
    /\ part = "bills" => BillsTypeOK
    /\ part = "documents" => DocTypeOK
    /\ part = "lists" => ListsTypeOK
    /\ part = "payroll" => PayrollTypeOK
=============================================================================
