---------------------------- MODULE DailyReports ----------------------------
(***************************************************************************)
(* The automatic reports (app/daily_reports.py): two batches a day, built  *)
(* by the scheduler thread of each copy of the service, at most one of     *)
(* which has the database lock, recorded as run in the transaction that    *)
(* builds them, and announced on WhatsApp once that has committed.  An     *)
(* admin builds any day's reports again, announcing nothing.               *)
(*                                                                         *)
(* A delivery person has a report for a day with a delivery of theirs; the *)
(* pending reports, which every batch has, stand for one.                  *)
(***************************************************************************)
EXTENDS Naturals, FiniteSets

CONSTANTS
    LastReportDay,  \* the last day the clock reaches
    Copies,         \* copies of the service
    People,         \* delivery people
    Pending,        \* the pending and received reports of a batch
    MaxFailures     \* the bound on failed batches and restarts

ASSUME LastReportDayAssumption == LastReportDay \in Nat \ {0}
ASSUME FailuresAssumption == MaxFailures \in Nat
ASSUME ReportsAssumption == Pending \notin People

Batches == {1, 2}      \* "evening" and "night"
ReportingDays == 1..LastReportDay

VARIABLES
    clock,          \* the day, and how many batches are due
    delivered,      \* who has delivered on each day
    stored,         \* daily_delivery_report: <<day, batch, report>>
    runs,           \* daily_report_run: <<day, batch>>
    job,            \* the scheduler thread of each copy
    lockedBy,       \* the copies whose transaction holds LOCK_ID
    sent,           \* the messages: how often each day's batch was announced, and of what
    failures        \* how often something has failed

reportVars == <<clock, delivered, stored, runs, job, lockedBy, sent, failures>>

Asleep == [at |-> "asleep"]
NoMessage == [times |-> 0, of |-> {}, lost |-> FALSE]

ReportsInit ==
    /\ clock = [day |-> 1, due |-> 0]
    /\ delivered = [d \in ReportingDays |-> {}]
    /\ stored = {} /\ runs = {} /\ lockedBy = {}
    /\ job = [c \in Copies |-> Asleep]
    /\ sent = [r \in ReportingDays \X Batches |-> NoMessage]
    /\ failures = 0

-----------------------------------------------------------------------------
(* The day goes on; a delivery is entered, or corrected away. *)
ClockMoves ==
    /\ clock' = IF clock.due < 2 THEN [clock EXCEPT !.due = @ + 1]
                ELSE [day |-> clock.day + 1, due |-> 0]
    /\ clock'.day <= LastReportDay
    /\ UNCHANGED <<delivered, stored, runs, job, lockedBy, sent, failures>>

DeliveryChanges(p) ==
    /\ delivered' = [delivered EXCEPT ![clock.day] = IF p \in @ THEN @ \ {p} ELSE @ \cup {p}]
    /\ UNCHANGED <<clock, stored, runs, job, lockedBy, sent, failures>>

Reports(day, b) == IF b = 1 THEN delivered[day] \cup {Pending} ELSE {Pending}

-----------------------------------------------------------------------------
(* run_if_due: `now` is taken once, then each batch that is due in turn. *)
Wake(c) ==
    /\ job[c] = Asleep
    /\ clock.due > 0
    /\ job' = [job EXCEPT ![c] = [at |-> "trying", day |-> clock.day, due |-> clock.due, batch |-> 1]]
    /\ UNCHANGED <<clock, delivered, stored, runs, lockedBy, sent, failures>>

Thread(c, at) == job[c].at = at
Run(c) == <<job[c].day, job[c].batch>>

(* pg_try_advisory_xact_lock: another copy is on it. *)
LeaveToOther(c) ==
    /\ Thread(c, "trying")
    /\ lockedBy # {}
    /\ job' = [job EXCEPT ![c] = Asleep]
    /\ UNCHANGED <<clock, delivered, stored, runs, lockedBy, sent, failures>>

NextBatch(c) ==
    IF job[c].batch < job[c].due
    THEN [at |-> "trying", day |-> job[c].day, due |-> job[c].due, batch |-> job[c].batch + 1]
    ELSE Asleep

(* A plausible bug: a batch that is done ends the call. *)
AfterDoneStops(c) == Asleep

AfterDone(c) == NextBatch(c)

SkipDone(c) ==
    /\ Thread(c, "trying")
    /\ lockedBy = {}
    /\ Run(c) \in runs
    /\ job' = [job EXCEPT ![c] = AfterDone(c)]
    /\ UNCHANGED <<clock, delivered, stored, runs, lockedBy, sent, failures>>

(* generate_batch, in the transaction that has the lock: what it stores is *)
(* seen by nobody yet.                                                     *)
BuildBatch(c) ==
    /\ Thread(c, "trying")
    /\ lockedBy = {}
    /\ Run(c) \notin runs
    /\ lockedBy' = {c}
    /\ job' = [job EXCEPT ![c] = [at |-> "built", day |-> @.day, due |-> @.due, batch |-> @.batch,
                                  reports |-> Reports(@.day, @.batch)]]
    /\ UNCHANGED <<clock, delivered, stored, runs, sent, failures>>

Announced(c) ==
    [sent EXCEPT ![Run(c)] = [times |-> @.times + 1, of |-> job[c].reports, lost |-> @.lost]]

(* A plausible bug: the message goes out while the batch is not yet committed. *)
SendWhenBuilt(c) == sent' = Announced(c)

SendLater(c) == sent' = sent

(* The commit stores the reports, records the run and frees the lock. *)
CommitBatch(c) ==
    /\ Thread(c, "built")
    /\ stored' = stored \cup {<<job[c].day, job[c].batch, r>> : r \in job[c].reports}
    /\ runs' = runs \cup {Run(c)}
    /\ lockedBy' = {}
    /\ job' = [job EXCEPT ![c].at = "sending"]
    /\ SendLater(c)
    /\ UNCHANGED <<clock, delivered, failures>>

(* An error rolls all of it back; the thread tries again in ten minutes. *)
FailBatch(c) ==
    /\ Thread(c, "built")
    /\ failures < MaxFailures
    /\ failures' = failures + 1
    /\ lockedBy' = {}
    /\ job' = [job EXCEPT ![c] = Asleep]
    /\ SendLater(c)
    /\ UNCHANGED <<clock, delivered, stored, runs>>

(* send_summary and send_reports: sent, or skipped and logged; never raised. *)
SendBatch(c) ==
    /\ Thread(c, "sending")
    /\ \/ sent' = Announced(c) /\ UNCHANGED failures
       \/ /\ failures < MaxFailures /\ failures' = failures + 1
          /\ sent' = [sent EXCEPT ![Run(c)].lost = TRUE]
    /\ job' = [job EXCEPT ![c] = NextBatch(c)]
    /\ UNCHANGED <<clock, delivered, stored, runs, lockedBy>>

(* The service is restarted: its transaction is rolled back, and what it had still to send is lost. *)
RestartService(c) ==
    /\ job[c] # Asleep
    /\ failures < MaxFailures
    /\ failures' = failures + 1
    /\ lockedBy' = lockedBy \ {c}
    /\ sent' = IF Thread(c, "sending") THEN [sent EXCEPT ![Run(c)].lost = TRUE] ELSE sent
    /\ job' = [job EXCEPT ![c] = Asleep]
    /\ UNCHANGED <<clock, delivered, stored, runs>>

(* generate_now: the reports of a day, into the same table (each in its    *)
(* own transaction: no two of them have a row in common).  A batch that is *)
(* just writing them makes it wait.                                        *)
GenerateNow(day) ==
    /\ day <= clock.day
    /\ \A c \in lockedBy : job[c].day # day
    /\ stored' = stored \cup {row \in {day} \X Batches \X (People \cup {Pending}) :
                                row[3] \in Reports(day, row[2])}
    /\ UNCHANGED <<clock, delivered, runs, job, lockedBy, sent, failures>>

ReportStep(c) ==
    Wake(c) \/ LeaveToOther(c) \/ SkipDone(c) \/ BuildBatch(c) \/ CommitBatch(c) \/ SendBatch(c)

ReportsNext ==
    \/ ClockMoves
    \/ \E p \in People : DeliveryChanges(p)
    \/ \E c \in Copies : ReportStep(c) \/ FailBatch(c) \/ RestartService(c)
    \/ \E day \in ReportingDays : GenerateNow(day)

(* The thread wakes every minute, also after an error. *)
ReportsFairness == \A c \in Copies : WF_reportVars(ReportStep(c))

ReportsSpec == ReportsInit /\ [][ReportsNext]_reportVars /\ ReportsFairness

-----------------------------------------------------------------------------
(***************************************************************************)
(* Properties.                                                             *)
(***************************************************************************)
Places == [at : {"trying"}, day : ReportingDays, due : Batches, batch : Batches]
    \cup [at : {"built", "sending"}, day : ReportingDays, due : Batches, batch : Batches,
          reports : SUBSET (People \cup {Pending})]

\* The tables, the threads' places and the messages have the shapes declared above.
ReportsTypeOK ==
    /\ clock \in [day : ReportingDays, due : 0..2]
    /\ delivered \in [ReportingDays -> SUBSET People]
    /\ stored \subseteq ReportingDays \X Batches \X (People \cup {Pending})
    /\ runs \subseteq ReportingDays \X Batches
    /\ job \in [Copies -> {Asleep} \cup Places]
    /\ lockedBy \subseteq Copies
    /\ failures \in 0..MaxFailures

\* "does each batch once": whichever copies wake, fail and restart, a batch is announced at most
\* once, only when it is recorded, and only with reports that can be downloaded; and one that is
\* recorded and unannounced is about to be, or was lost to a restart or a failed message.
BatchesAreSentOnce ==
    \A r \in ReportingDays \X Batches :
        /\ sent[r].times <= 1
        /\ sent[r].times = 1 => r \in runs /\ \A p \in sent[r].of : <<r[1], r[2], p>> \in stored
        /\ r \in runs => \/ sent[r].times = 1 \/ sent[r].lost
                         \/ \E c \in Copies : Thread(c, "sending") /\ Run(c) = r

\* "each batch once, after its time (also if the service was restarted later in the evening)":
\* both batches of a day that does not end are recorded in the end.
DueBatchesRun ==
    clock.day = LastReportDay /\ clock.due = 2 ~> {<<LastReportDay, b>> : b \in Batches} \subseteq runs
=============================================================================
