------------------------------ MODULE Calendar ------------------------------
(***************************************************************************)
(* The day in India (today_ist of app/modcommon.py), which the office      *)
(* screens compare their deadlines with.  Days are numbered from 1.        *)
(***************************************************************************)
EXTENDS Integers

CONSTANT LastDay        \* the bound on days that pass

ASSUME LastDayAssumption == LastDay \in Nat \ {0}

VARIABLE today

Days == 1..LastDay

DayOne == today = 1

Tomorrow ==
    /\ today < LastDay
    /\ today' = today + 1
=============================================================================
