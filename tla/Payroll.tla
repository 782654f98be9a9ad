------------------------------ MODULE Payroll -------------------------------
(***************************************************************************)
(* The month of an employee (app/attendance.py): the salary slip, the      *)
(* monthly report and the absence streaks are computed by code of their    *)
(* own from the same records, holidays and rules, while days are punched,  *)
(* corrected and deleted and holidays come and go.  The month is days      *)
(* 1..LastDay; what came before it is not recorded.                        *)
(***************************************************************************)
EXTENDS Calendar, FiniteSetsExt

CONSTANTS
    OffDays,        \* the weekly offs of the month
    HolidayDays,    \* the days that may be made a holiday
    Times,          \* minutes of the day at which someone punches
    LateAfter, HalfCheckin, AbsentBefore, HalfBefore, FullUntil, AutoOut    \* Setup > Module settings

ASSUME PayrollAssumption ==
    /\ OffDays \cup HolidayDays \subseteq Nat
    /\ Times \cup {LateAfter, HalfCheckin, AbsentBefore, HalfBefore, FullUntil, AutoOut} \subseteq Nat

VARIABLES
    record,         \* fact_attendance of the month: final status, and the check-in time of an open day
    stillIn,        \* the check-in time of today's row while it has no check-out
    holidays        \* att_holiday

payrollVars == <<record, stillIn, holidays>>

NoRecord == [final |-> "none"]
Finals == {"Present", "Late", "HalfDay", "Absent"}

PayrollInit ==
    /\ record = [d \in Days |-> NoRecord]
    /\ stillIn = {}
    /\ holidays = {}

-----------------------------------------------------------------------------
(* Rules.final_status and Rules.resolve *)
LateOrPresent(in) == IF in >= LateAfter THEN "Late" ELSE "Present"

FinalStatus(in, out) ==
    CASE out < AbsentBefore -> "Absent"
      [] out \in AbsentBefore..(HalfBefore - 1) -> "HalfDay"
      [] out \in HalfBefore..FullUntil -> IF in >= HalfCheckin THEN "HalfDay" ELSE LateOrPresent(in)
      [] out >= HalfBefore /\ out > FullUntil -> LateOrPresent(in)

Resolve(r) == IF r.final = "Incomplete" THEN FinalStatus(r.in, AutoOut) ELSE r.final

Recorded(final) == [final |-> final]
Incomplete(in) == [in |-> in, final |-> "Incomplete"]

Punch(t) ==
    /\ record[today] = NoRecord
    /\ record' = [record EXCEPT ![today] = Incomplete(t)]
    /\ stillIn' = {t}
    /\ UNCHANGED <<today, holidays>>

CheckOutAt(t) ==
    /\ \E in \in stillIn :
          /\ t >= in
          /\ record' = [record EXCEPT ![today] = Recorded(FinalStatus(in, t))]
    /\ stillIn' = {}
    /\ UNCHANGED <<today, holidays>>

AutoCheckOut ==
    /\ \E in \in stillIn : record' = [record EXCEPT ![today] = Recorded(FinalStatus(in, AutoOut))]
    /\ stillIn' = {}
    /\ UNCHANGED <<today, holidays>>

(* correct_attendance: no day to come; without a check-out the status is the owner's or Incomplete, *)
(* and today's row is still open to a check-out. *)
Correct(d, row, open) ==
    /\ d <= today
    /\ record' = [record EXCEPT ![d] = row]
    /\ stillIn' = IF d = today THEN open ELSE stillIn
    /\ UNCHANGED <<today, holidays>>

CorrectDay(d) ==
    \/ \E final \in Finals : \/ Correct(d, Recorded(final), {})
                            \/ /\ d = today
                               /\ \E t \in Times : Correct(d, Recorded(final), {t})
    \/ \E t \in Times : Correct(d, Incomplete(t), {t})

DeleteRecord(d) ==
    /\ record[d] # NoRecord
    /\ record' = [record EXCEPT ![d] = NoRecord]
    /\ stillIn' = IF d = today THEN {} ELSE stillIn
    /\ UNCHANGED <<today, holidays>>

(* add_holiday, delete_holiday *)
SwitchHoliday(d) ==
    /\ holidays' = SymDiff(holidays, {d})
    /\ UNCHANGED <<today, record, stillIn>>

NextDay == Tomorrow /\ stillIn' = {} /\ UNCHANGED <<record, holidays>>

PayrollNext ==
    \/ NextDay \/ AutoCheckOut
    \/ \E t \in Times : Punch(t) \/ CheckOutAt(t)
    \/ \E d \in Days : DeleteRecord(d) \/ CorrectDay(d)
    \/ \E d \in HolidayDays : SwitchHoliday(d)

PayrollSpec == DayOne /\ PayrollInit /\ [][PayrollNext]_<<today, payrollVars>>

-----------------------------------------------------------------------------
(* A plausible bug: the slip shows the recorded status, and an open day has none. *)
SlipFirstUnresolved(d) ==
    CASE d \in OffDays -> "WeeklyOff"
      [] d \notin OffDays /\ d \in holidays /\ record[d] = NoRecord -> "Holiday"
      [] d \notin OffDays /\ ~(d \in holidays /\ record[d] = NoRecord) ->
            IF d > today THEN "Future" ELSE IF record[d] = NoRecord THEN "Absent" ELSE record[d].final

(* get_salary_report: the status of each day before the sandwich rule. *)
SlipFirst(d) ==
    CASE d \in OffDays -> "WeeklyOff"
      [] d \notin OffDays /\ d \in holidays /\ record[d] = NoRecord -> "Holiday"
      [] d \notin OffDays /\ ~(d \in holidays /\ record[d] = NoRecord) ->
            IF d > today THEN "Future" ELSE IF record[d] = NoRecord THEN "Absent" ELSE Resolve(record[d])

(* A weekly off between two absent days of the month is an absent day too. *)
Sandwiched(d) ==
    /\ d \in OffDays /\ {d - 1, d + 1} \subseteq Days
    /\ \A e \in {d - 1, d + 1} : SlipFirst(e) \in {"Absent", "Incomplete"}

SlipDays(status) == {d \in Days : SlipFirst(d) = status}
Sandwiches == {d \in Days : Sandwiched(d)}
SlipAbsent == SlipDays("Absent") \cup Sandwiches

(* Half days count once, whole days twice. *)
DeductedHalves ==
    2 * Cardinality(SlipAbsent \cup SlipDays("Incomplete")) + Cardinality(SlipDays("HalfDay"))

(* stat_percentages: the days that count towards pay. *)
CountedDays == Cardinality(SlipDays("Present") \cup SlipDays("Late") \cup SlipDays("HalfDay")
                             \cup SlipAbsent \cup SlipDays("Incomplete"))

(* _monthly_from: a record comes before the weekly off and the holiday. *)
ReportStatus(d) ==
    CASE record[d] # NoRecord -> Resolve(record[d])
      [] record[d] = NoRecord /\ d \in OffDays -> "WeeklyOff"
      [] record[d] = NoRecord /\ d \in holidays \ OffDays -> "Holiday"
      [] record[d] = NoRecord /\ d \notin holidays \cup OffDays -> IF d > today THEN "Future" ELSE "Absent"

ReportDays(status) == {d \in Days : ReportStatus(d) = status}

PaidHalves == 2 * Cardinality(ReportDays("Present") \cup ReportDays("Late")) + Cardinality(ReportDays("HalfDay"))

(* _working_days_back, get_absent_streak and get_employee_streak *)
WorkingDaysBack == (1..(today - 1)) \ (OffDays \cup holidays)
LastWorkingDays(n) == {d \in WorkingDaysBack : Cardinality({e \in WorkingDaysBack : e > d}) < n}

AbsentThroughout(n) ==
    LastWorkingDays(n) # {} /\ \A d \in LastWorkingDays(n) : record[d] = NoRecord \/ Resolve(record[d]) = "Absent"

StreakStatus(d) == IF record[d] = NoRecord THEN "Absent" ELSE Resolve(record[d])

CurrentStreak ==
    Cardinality({d \in WorkingDaysBack :
        \A e \in WorkingDaysBack : e >= d => StreakStatus(e) \in {"Absent", "Incomplete"}})

\* The records have the shapes declared above.
PayrollTypeOK ==
    /\ record \in [Days -> {NoRecord} \cup [final : Finals] \cup [in : Times, final : {"Incomplete"}]]
    /\ stillIn \subseteq Times /\ Cardinality(stillIn) <= 1
    /\ holidays \subseteq HolidayDays

\* "so salary, reports and streaks agree" (Rules.resolve): outside the weekly offs the slip and the
\* report show every day alike; every working day up to today is either paid by the report or
\* deducted by the slip, to the half day; sandwiched days are all the slip adds; and the list of
\* people absent for n days holds exactly those whose own streak is that long.
MonthBooksAgree ==
    /\ \A d \in Days \ OffDays : SlipFirst(d) = ReportStatus(d)
    /\ LET workedOff == {d \in OffDays : d \in Days /\ record[d] # NoRecord}
           paidOff == 2 * Cardinality(workedOff \cap (ReportDays("Present") \cup ReportDays("Late")))
                        + Cardinality(workedOff \cap ReportDays("HalfDay"))
       IN (PaidHalves - paidOff) + (DeductedHalves - 2 * Cardinality(Sandwiches))
             = 2 * (CountedDays - Cardinality(Sandwiches))
    /\ \A n \in 1..(LastDay - 1) : LastWorkingDays(n) # {} =>
            (AbsentThroughout(n) <=> CurrentStreak >= Cardinality(LastWorkingDays(n)))
=============================================================================
