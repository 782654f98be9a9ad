------------------------------ MODULE DocCheck ------------------------------
(***************************************************************************)
(* Is the document attached to an order really its bill?                   *)
(* (app/doc_check.py)  An attachment is read once, by the text of a PDF or *)
(* by the picture reader if that is switched on; what was read is kept and *)
(* judged, each time it is asked for, against the order as it is then.     *)
(***************************************************************************)
EXTENDS FiniteSets, Naturals

CONSTANTS
    Documents,          \* attachments of the order
    Papers,             \* what a document may be and show
    Numbers, BillDates, \* printed bill numbers, in normal form (_norm), and dates
    Readers             \* requests and background jobs that read

(* A document shows any numbers and dates, some of them after the word "date". *)
ASSUME PapersAssumption ==
    Papers \subseteq {p \in [kind : {"pdf", "scan", "photo"}, numbers : SUBSET Numbers,
                            dates : SUBSET BillDates, labelled : SUBSET BillDates] : p.labelled \subseteq p.dates}

VARIABLES
    printed,    \* what each attached document is and shows; NoPaper if not attached
    read,       \* order_doc_read: what is kept of it; NotRead if nothing is
    entered,    \* the number and the date entered
    readerOn,   \* vision_enabled
    todo        \* the documents each reader has yet to read

docVars == <<printed, read, entered, readerOn, todo>>

NoPaper == [kind |-> "none"]
NotRead == [readable |-> FALSE, method |-> "unread"]

(* '12/345', an order in both series, is printed as either of its halves. *)
Entered == {{n} : n \in Numbers} \cup {{n, m} : n, m \in Numbers} \cup {{}}

DocInit ==
    /\ printed = [d \in Documents |-> NoPaper]
    /\ read = [d \in Documents |-> NotRead]
    /\ entered \in [expected : {{n} : n \in Numbers}, date : BillDates]
    /\ readerOn \in BOOLEAN
    /\ todo = [r \in Readers |-> {}]

Attached == {d \in Documents : printed[d] # NoPaper}
Done(d) == read[d].method # "unread"

-----------------------------------------------------------------------------
Attach(d, paper) ==
    /\ printed[d] = NoPaper
    /\ \A r \in Readers : d \notin todo[r]      \* keys are not given again
    /\ printed' = [printed EXCEPT ![d] = paper]
    /\ UNCHANGED <<read, entered, readerOn, todo>>

(* delete_photo: the read goes with it (ON DELETE CASCADE). *)
Detach(d) ==
    /\ d \in Attached
    /\ printed' = [printed EXCEPT ![d] = NoPaper]
    /\ read' = [read EXCEPT ![d] = NotRead]
    /\ UNCHANGED <<entered, readerOn, todo>>

EditOrder(expected, date) ==
    /\ entered' = [expected |-> expected, date |-> date]
    /\ entered' # entered
    /\ UNCHANGED <<printed, read, readerOn, todo>>

(* The picture reader is an environment variable: a restart, which ends all reading. *)
SwitchReader ==
    /\ readerOn' = ~readerOn
    /\ todo' = [r \in Readers |-> {}]
    /\ UNCHANGED <<printed, read, entered>>

(* read_pending: photos wait while the picture reader is off; an admin may ask for all again. *)
BeginReading(r, refresh) ==
    /\ todo[r] = {}
    /\ todo' = [todo EXCEPT ![r] = {d \in Attached : /\ refresh \/ ~Done(d)
                                                     /\ readerOn \/ printed[d].kind # "photo"}]
    /\ todo'[r] # {}
    /\ UNCHANGED <<printed, read, entered, readerOn>>

Nothing == [numbers |-> {}, dates |-> {}, labelled |-> {}]
Unreadable == [readable |-> FALSE, method |-> "none", shows |-> Nothing]
Shows(p) == [numbers |-> p.numbers, dates |-> p.dates, labelled |-> p.labelled]

(* The picture reader reports one number and one date at most, the date as a labelled one. *)
Glimpses(p) == [numbers : {s \in SUBSET p.numbers : Cardinality(s) <= 1},
                dates : {s \in SUBSET p.dates : Cardinality(s) <= 1}]

(* read_attachment: what may be kept of a document. *)
Readings(p) ==
    IF p.kind = "pdf" /\ p.numbers \cup p.dates # {}
    THEN {[readable |-> TRUE, method |-> "pdf_text", shows |-> Shows(p)]}
    ELSE IF ~readerOn THEN {Unreadable}
    ELSE {Unreadable} \cup
         {[readable |-> g.numbers \cup g.dates # {}, method |-> "vision",
           shows |-> [numbers |-> g.numbers, dates |-> g.dates, labelled |-> g.dates]] : g \in Glimpses(p)}

(* read_attachment and _store: what a document shows does not change between the two. *)
ReadOne(r, d) ==
    /\ d \in todo[r] \cap Attached
    /\ \E kept \in Readings(printed[d]) : read' = [read EXCEPT ![d] = kept]
    /\ todo' = [todo EXCEPT ![r] = @ \ {d}]
    /\ UNCHANGED <<printed, entered, readerOn>>

(* The file is gone or cannot be read now: nothing is kept, so asking again retries. *)
ReadFails(r, d) ==
    /\ d \in todo[r]
    /\ todo' = [todo EXCEPT ![r] = @ \ {d}]
    /\ UNCHANGED <<printed, read, entered, readerOn>>

DocNext ==
    \/ \E d \in Documents : Detach(d) \/ \E paper \in Papers : Attach(d, paper)
    \/ \E expected \in Entered, date \in BillDates : EditOrder(expected, date)
    \/ SwitchReader
    \/ \E r \in Readers : \/ \E refresh \in BOOLEAN : BeginReading(r, refresh)
                          \/ \E d \in Documents : ReadOne(r, d) \/ ReadFails(r, d)

DocSpec == DocInit /\ [][DocNext]_docVars

-----------------------------------------------------------------------------
NumberMatches(r) == r.shows.numbers \cap entered.expected # {}

(* A plausible bug: any date on the paper will do, a due date too. *)
PoolOfAll(r) == r.shows.dates

(* date_matches: dates after the word "date" go first. *)
Pool(r) == IF r.shows.labelled # {} THEN r.shows.labelled ELSE r.shows.dates
DateMatches(r) == entered.date \in Pool(r)

(* state and verdict: -1 attachments stands for photos nobody can read. *)
Verdict ==
    LET done == {d \in Attached : Done(d)}
        readable == {read[d] : d \in {d \in done : read[d].readable}}
    IN CASE Attached = {} -> "none"
         [] Attached # {} /\ done = {} ->
              IF ~readerOn /\ \A d \in Attached : printed[d].kind = "photo" THEN "skipped" ELSE "unchecked"
         [] done # {} /\ readable = {} -> "unreadable"
         [] readable # {} ->
              IF entered.expected = {} THEN "review"
              ELSE IF \E r \in readable : NumberMatches(r) /\ DateMatches(r) THEN "perfect"
              ELSE IF \E r \in readable : NumberMatches(r) /\ Pool(r) = {} THEN "review"
              ELSE "mismatch"

\* What is kept has the declared shapes.
DocTypeOK ==
    /\ printed \in [Documents -> Papers \cup {NoPaper}]
    /\ \A d \in Documents : Done(d) => d \in Attached /\ read[d].shows \in
            [numbers : SUBSET Numbers, dates : SUBSET BillDates, labelled : SUBSET BillDates]
    /\ entered.expected \in Entered /\ entered.date \in BillDates
    /\ readerOn \in BOOLEAN
    /\ todo \in [Readers -> SUBSET Documents]

\* "The order is marked PERFECT only when the number AND the date on the document are the ones on
\* the order", and "editing the order's number or date afterwards takes the PERFECT mark away":
\* judged on the papers that are attached now and the order as it is now, whatever was read when.
\* A PDF that names the date of the bill is held to that date, not to another it also shows.
PerfectIsTrue ==
    Verdict = "perfect" =>
        \E d \in Attached : LET p == printed[d] IN
            /\ p.numbers \cap entered.expected # {}
            /\ entered.date \in p.dates
            /\ p.kind = "pdf" /\ read[d].method = "pdf_text" /\ p.labelled # {} => entered.date \in p.labelled
=============================================================================
