------------------------------ MODULE BillGaps ------------------------------
(***************************************************************************)
(* Bill numbers and the ones nobody has punched (app/doc_numbers.py and    *)
(* the missing-number routes of app/o2d_screens.py).  Which series an      *)
(* order's number counts in follows from its submission type's setting and *)
(* from the Challan / Invoice tag on the order; the setting may change     *)
(* under orders already saved.  The code reads it twice: in SQL when it    *)
(* looks for a number already used, in Python when it lists what is there. *)
(***************************************************************************)
EXTENDS Integers, FiniteSets, FiniteSetsExt, SequencesExt

CONSTANTS
    BillKeys, BillTypes,
    BillNumbers,        \* the numbers typed in
    OldPairs,           \* what an order saved before the tag may hold: "challan/invoice"
    BillDays,           \* order dates of one financial year
    Settings,           \* the series settings an admin picks from
    SuspectJump, SuspectRatio, SuspectMinMedian,
    MaxVoids,           \* bound: numbers closed as "no bill"
    NoBill              \* no such order; also: no tag, and a setting that is not numbered

Series == {"Challan", "Invoice", "SalesReturnChallan", "SalesReturnInvoice"}
Daily == {"Challan", "SalesReturnChallan"}
ReturnSeries == {"SalesReturnChallan", "SalesReturnInvoice"}
TagOf(s) == IF s \in Daily THEN "challan" ELSE "invoice"

ASSUME BillAssumption == /\ BillNumbers \subseteq Nat /\ OldPairs \subseteq BillNumbers \X BillNumbers
                         /\ Settings \subseteq Series \cup {"Both", "GoodsReturn", NoBill}
                         /\ NoBill \notin Series \cup {"Both", "GoodsReturn", "challan", "invoice"}
                         /\ IsFiniteSet(BillKeys)

VARIABLES
    bill,       \* type, tag, DC / Inv No and date of each order
    setting,    \* bill_series of each submission type
    void        \* doc_gap_void

billVars == <<bill, setting, void>>

Bills == {b \in BillKeys : bill[b] # NoBill}
Window(s, day) == IF s \in Daily THEN {day} ELSE BillDays
SeriesKey(s, day) == IF s \in Daily THEN day ELSE NoBill

BillsInit ==
    /\ bill = [b \in BillKeys |-> NoBill]
    /\ setting \in [BillTypes -> Settings]
    /\ void = {}

-----------------------------------------------------------------------------
(* DC / Inv No is <<n>> when it is digits, <<challan, invoice>> in the old form. *)
Digits(dc) == Len(dc) = 1
Half(s, dc) == dc[IF s = "Challan" THEN 1 ELSE 2]

(* number_in: the numbers an order carries in a series, as Python reads them (one or none). *)
IgnoringTheTag(s, b) ==
    LET set == setting[bill[b].type] IN
    IF set \in {s, "Both", "GoodsReturn"} /\ Digits(bill[b].dc) THEN {bill[b].dc[1]} ELSE {}
NumberIn(s, b) ==
    LET set == setting[bill[b].type]  tag == bill[b].tag  dc == bill[b].dc IN
    IF Digits(dc)
    THEN {n \in {dc[1]} : \/ set = s
                          \/ set = "GoodsReturn" /\ s \in ReturnSeries /\ tag = TagOf(s)
                          \/ set = "Both" /\ s \notin ReturnSeries /\ tag = TagOf(s)}
    ELSE {n \in {Half(s, dc)} : set = "Both" /\ s \notin ReturnSeries /\ tag = NoBill}

Present(s, day) == UNION {NumberIn(s, b) : b \in {x \in Bills : bill[x].day \in Window(s, day)}}

(* _check_unused: the orders that hold number n in the series, as the statement picks them. *)
Takers(s, n, day, own) ==
    {b \in Bills \ own :
        LET set == setting[bill[b].type]  tag == bill[b].tag  dc == bill[b].dc IN
        /\ bill[b].day \in Window(s, day)
        /\ \/ set = s
           \/ s \notin ReturnSeries /\ set = "Both" /\ (tag = TagOf(s) \/ (tag = NoBill /\ ~Digits(dc)))
           \/ s \in ReturnSeries /\ set = "GoodsReturn" /\ tag = TagOf(s)
        /\ IF set = "Both" /\ tag = NoBill THEN n = Half(s, dc) ELSE dc = <<n>>}

(* suspect_reason: a number out of scale for its series; an admin may enter it all the same. *)
Suspect(s, n, others) ==
    /\ others # {}
    /\ IF s \in Daily THEN n > Max(others) + SuspectJump /\ n > Max(others) * SuspectRatio
       ELSE LET median == SetToSortSeq(others, <)[(Cardinality(others) \div 2) + 1] IN
            median >= SuspectMinMedian /\ n * SuspectRatio < median

SeriesChosen(set, tag) ==
    IF set = "Both" THEN (IF tag = "challan" THEN "Challan" ELSE "Invoice")
    ELSE IF set = "GoodsReturn" THEN (IF tag = "challan" THEN "SalesReturnChallan" ELSE "SalesReturnInvoice")
    ELSE set

(* validate: what a save is refused for. *)
Valid(b, t, tag, n, day, admin) ==
    LET set == setting[t]  s == SeriesChosen(set, tag) IN
    set # NoBill =>
        /\ set \in {"Both", "GoodsReturn"} => tag # NoBill
        /\ Takers(s, n, day, {b}) = {}
        /\ admin \/ ~Suspect(s, n, Present(s, day))

(* The tag goes with an "either" type only (_chosen_series); free-form numbers are not digits. *)
SaveBill(b, t, tag, n, day, admin) ==
    /\ (tag # NoBill) = (setting[t] \in {"Both", "GoodsReturn"})
    /\ Valid(b, t, tag, n, day, admin)
    /\ bill' = [bill EXCEPT ![b] = [type |-> t, tag |-> tag, dc |-> <<n>>, day |-> day]]
    /\ UNCHANGED <<setting, void>>

(* Orders from before the tag, brought in with their sheet. *)
OldBill(b, t, pair, day) ==
    /\ bill[b] = NoBill
    /\ bill' = [bill EXCEPT ![b] = [type |-> t, tag |-> NoBill, dc |-> pair, day |-> day]]
    /\ UNCHANGED <<setting, void>>

DeleteBill(b) ==
    /\ b \in Bills
    /\ bill' = [bill EXCEPT ![b] = NoBill]
    /\ UNCHANGED <<setting, void>>
SetSeries(t, set) ==
    /\ setting' = [setting EXCEPT ![t] = set]
    /\ UNCHANGED <<bill, void>>

(* void_gap: a run of numbers closed as "no bill / voided"; one already closed is left alone. *)
VoidGap(s, day, from, to) ==
    /\ from <= to
    /\ void' = void \cup {<<s, SeriesKey(s, day), n>> : n \in from..to}
    /\ Cardinality(void') <= MaxVoids
    /\ UNCHANGED <<bill, setting>>

BillsNext ==
    \/ \E b \in BillKeys, t \in BillTypes, tag \in {"challan", "invoice", NoBill},
          n \in BillNumbers, day \in BillDays, admin \in BOOLEAN : SaveBill(b, t, tag, n, day, admin)
    \/ \E b \in BillKeys, t \in BillTypes, pair \in OldPairs, day \in BillDays : OldBill(b, t, pair, day)
    \/ \E b \in BillKeys : DeleteBill(b)
    \/ \E t \in BillTypes, set \in Settings : SetSeries(t, set)
    \/ \E s \in {"Challan", "Invoice"}, day \in BillDays, from, to \in BillNumbers : VoidGap(s, day, from, to)

BillsSpec == BillsInit /\ [][BillsNext]_billVars

-----------------------------------------------------------------------------
(* _gaps_in: the count by arithmetic. *)
Voided(s, day) == {v[3] : v \in {x \in void : x[1] = s /\ x[2] = SeriesKey(s, day)}}
UnusedVoids(present, voided, hi) == {n \in voided : 1 <= n /\ n <= hi /\ n \notin present}
GapCount(present, voided) ==
    IF present = {} THEN 0
    ELSE Max({0, Max(present) - Cardinality({n \in present : n >= 1})
                 - Cardinality(UnusedVoids(present, voided, Max(present)))})

\* The bills, the settings and the closed numbers have the shapes declared above.
BillsTypeOK ==
    /\ bill \in [BillKeys -> {NoBill} \cup [type : BillTypes, tag : {"challan", "invoice", NoBill},
                                            dc : {<<n>> : n \in BillNumbers} \cup OldPairs, day : BillDays]]
    /\ setting \in [BillTypes -> Settings]
    /\ void \subseteq Series \X (BillDays \cup {NoBill}) \X Nat

(* The two readings of the same rule agree: a number is refused as already used exactly when the *)
(* gaps list counts it as present, and the number of missing ones is what a walk from 1 to the *)
(* highest would find, whatever was saved, deleted, voided or re-tagged by a change of setting. *)
NumbersAreReadAlike ==
    \A s \in Series, day \in BillDays :
        /\ \A n \in BillNumbers : (Takers(s, n, day, {}) # {}) = (n \in Present(s, day))
        /\ LET present == Present(s, day) IN
           GapCount(present, Voided(s, day)) =
               IF present = {} THEN 0
               ELSE Cardinality({n \in 1..Max(present) : n \notin present /\ n \notin Voided(s, day)})
=============================================================================
