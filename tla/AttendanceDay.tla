--------------------------- MODULE AttendanceDay ---------------------------
(***************************************************************************)
(* One person's day in the attendance book (app/attendance.py): the punch, *)
(* the WhatsApp messages still owed for it, and the automatic check-out of *)
(* the evening.                                                            *)
(*                                                                         *)
(* A message is sent while its row is locked, up to ten seconds; a check-  *)
(* out decides what is owed from a row it has read without a lock, and     *)
(* waits for the lock only when it writes.  What the scheduler does for a  *)
(* day it does only until midnight.                                        *)
(***************************************************************************)
EXTENDS Naturals, FiniteSets

CONSTANTS
    Workers,        \* requests in flight, and the scheduler's thread
    MaxPunches,     \* the bound on attendance rows made for the day
    MaxCheckOuts,   \* the bound on check-outs of a row
    MaxLost         \* the bound on sends that went out and were not recorded

ASSUME BoundsAssumption == {MaxPunches, MaxCheckOuts, MaxLost} \subseteq Nat

VARIABLES
    day,            \* the fact_attendance row; key 0 when there is none
    quiet,          \* skip_whatsapp of the person, a tick in Setup
    job,            \* what each worker is in the middle of
    ran,            \* att_auto_run has the day
    over,           \* midnight has passed
    told            \* history of the present row, see Told

vars == <<day, quiet, job, ran, over, told>>

(* wa_status, with "_" for its spaces and brackets. *)
OwesIn == {"IN_Pending", "IN+OUT_Pending"}
OwesOut == {"OUT_Pending", "IN+OUT_Pending"}
Pending == OwesIn \cup OwesOut
WaStatus == Pending \cup {"IN_Sent", "Done", "Done_Auto", "Skipped"}

Day == [key : 0..MaxPunches, out : BOOLEAN, wa : WaStatus]
NoDay == [key |-> 0, out |-> FALSE, wa |-> "Done"]

(* Messages that went out, check-outs written, sends that went out though  *)
(* their transaction or their answer was lost, and the number of keys given.*)
Told == [in : Nat, out : Nat, asked : Nat, lost : Nat, used : 0..MaxPunches]

Idle == [op |-> "idle"]

Init ==
    /\ day = NoDay
    /\ quiet \in BOOLEAN
    /\ job = [w \in Workers |-> Idle]
    /\ ran = FALSE
    /\ over = FALSE
    /\ told = [in |-> 0, out |-> 0, asked |-> 0, lost |-> 0, used |-> 0]

Exists == day.key # 0
RowFree == \A v \in Workers : job[v].op # "send"

Punch(out, wa) ==
    /\ ~Exists
    /\ told.used < MaxPunches
    /\ day' = [key |-> told.used + 1, out |-> out, wa |-> wa]
    /\ told' = [in |-> 0, out |-> 0, asked |-> 0, lost |-> 0, used |-> told.used + 1]

-----------------------------------------------------------------------------
(* save_attendance: the unique key lets one punch of a day through. *)
CheckIn ==
    /\ ~over
    /\ Punch(FALSE, IF quiet THEN "Skipped" ELSE "IN_Pending")
    /\ UNCHANGED <<quiet, job, ran, over>>

(* save_checkout and manual_checkout: read today's row, without a lock, ... *)
BeginCheckOut(w) ==
    /\ job[w] = Idle /\ ~over
    /\ Exists /\ ~day.out
    /\ told.asked + Cardinality({v \in Workers : job[v].op = "checkout"}) < MaxCheckOuts
    /\ job' = [job EXCEPT ![w] = [op |-> "checkout", key |-> day.key, wa |-> day.wa, quiet |-> quiet]]
    /\ UNCHANGED <<day, quiet, ran, over, told>>

NextWa(wa) == IF wa \in OwesIn THEN "IN+OUT_Pending" ELSE "OUT_Pending"

(* ... and update it by its key, with a status worked out from what was read. *)
FinishCheckOut(w) ==
    /\ job[w].op = "checkout"
    /\ RowFree
    /\ IF day.key = job[w].key
       THEN /\ day' = [day EXCEPT !.out = TRUE,
                          !.wa = IF job[w].quiet THEN "Skipped" ELSE NextWa(job[w].wa)]
            /\ told' = [told EXCEPT !.asked = @ + 1]
       ELSE UNCHANGED <<day, told>>
    /\ job' = [job EXCEPT ![w] = Idle]
    /\ UNCHANGED <<quiet, ran, over>>

(* correct_attendance, of any date: the times change, never what is owed; or a new row. *)
Correct(out) ==
    /\ RowFree
    /\ IF Exists
       THEN /\ day' = [day EXCEPT !.out = out]
            /\ UNCHANGED told
       ELSE Punch(out, "Skipped")
    /\ UNCHANGED <<quiet, job, ran, over>>

DeleteDay ==
    /\ Exists
    /\ RowFree
    /\ day' = NoDay
    /\ UNCHANGED <<quiet, job, ran, over, told>>

(* The next day begins; nothing says when. *)
Midnight ==
    /\ ~over
    /\ over' = TRUE
    /\ UNCHANGED <<day, quiet, job, ran, told>>

SetQuiet ==
    /\ quiet' = ~quiet
    /\ UNCHANGED <<day, job, ran, over, told>>

-----------------------------------------------------------------------------
(* A plausible bug: the row is read without its lock. *)
BeginSendUnlocked(w) ==
    /\ job[w] = Idle
    /\ Exists /\ day.wa \in Pending
    /\ ~quiet
    /\ job' = [job EXCEPT ![w] = [op |-> "send", wa |-> day.wa]]
    /\ UNCHANGED <<day, quiet, ran, over, told>>

(* process_wa_row: lock the row, or leave it to whoever has it.  The page asks for it *)
(* by the row's key, whatever the date.                                                *)
BeginSend(w) ==
    /\ job[w] = Idle
    /\ Exists /\ day.wa \in Pending
    /\ RowFree
    /\ ~quiet
    /\ job' = [job EXCEPT ![w] = [op |-> "send", wa |-> day.wa]]
    /\ UNCHANGED <<day, quiet, ran, over, told>>

(* A plausible bug: the row of somebody who gets no messages is passed over. *)
SkipQuietUnmarked ==
    /\ Exists /\ day.wa \in Pending
    /\ RowFree
    /\ quiet
    /\ UNCHANGED vars

SkipQuiet ==
    /\ Exists /\ day.wa \in Pending
    /\ RowFree
    /\ quiet
    /\ day' = [day EXCEPT !.wa = "Skipped"]
    /\ UNCHANGED <<quiet, job, ran, over, told>>

(* One message accepted by the provider, or switched off in Setup (n = 0). *)
SendIn(w, n) ==
    /\ job[w].op = "send" /\ job[w].wa \in OwesIn
    /\ job' = [job EXCEPT ![w].wa = IF @ \in OwesOut THEN "OUT_Pending" ELSE "IN_Sent"]
    /\ told' = [told EXCEPT !.in = @ + n]
    /\ UNCHANGED <<day, quiet, ran, over>>

SendOut(w, n) ==
    /\ job[w].op = "send" /\ job[w].wa = "OUT_Pending"
    /\ job' = [job EXCEPT ![w].wa = "Done"]
    /\ told' = [told EXCEPT !.out = @ + n]
    /\ UNCHANGED <<day, quiet, ran, over>>

(* Nothing is owed any more, or the next message failed: what did go is kept. *)
EndSend(w) ==
    /\ job[w].op = "send"
    /\ day' = [day EXCEPT !.wa = job[w].wa]
    /\ job' = [job EXCEPT ![w] = Idle]
    /\ UNCHANGED <<quiet, ran, over, told>>

(* The provider took the message and the answer never came: it counts as failed. *)
SendUnheard(w) ==
    /\ told.lost < MaxLost
    /\ job[w].op = "send" /\ job[w].wa \in Pending
    /\ day' = [day EXCEPT !.wa = job[w].wa]
    /\ job' = [job EXCEPT ![w] = Idle]
    /\ told' = [told EXCEPT !.lost = @ + 1,
                            !.in = IF job[w].wa \in OwesIn THEN @ + 1 ELSE @,
                            !.out = IF job[w].wa \in OwesIn THEN @ ELSE @ + 1]
    /\ UNCHANGED <<quiet, ran, over>>

-----------------------------------------------------------------------------
(* run_jobs, in the evening.  The sends it retries first are sends like    *)
(* any other; then the open day is closed, and in a transaction of its own *)
(* the run is recorded.  The advisory lock is held over both, and a run    *)
(* keeps the date it began with.                                           *)
BeginRun(w) ==
    /\ job[w] = Idle /\ ~over
    /\ \A v \in Workers : job[v].op # "run"
    /\ ~ran
    /\ job' = [job EXCEPT ![w] = [op |-> "run", done |-> FALSE]]
    /\ UNCHANGED <<day, quiet, ran, over, told>>

AutoCheckOut(w) ==
    /\ job[w].op = "run" /\ ~job[w].done
    /\ RowFree
    /\ day' = IF Exists /\ ~day.out
              THEN [day EXCEPT !.out = TRUE, !.wa = IF quiet THEN "Skipped" ELSE "Done_Auto"]
              ELSE day
    /\ job' = [job EXCEPT ![w].done = TRUE]
    /\ UNCHANGED <<quiet, ran, over, told>>

(* A plausible bug: the run is recorded before anybody is checked out. *)
RecordRunFirst(w) ==
    /\ job[w].op = "run"
    /\ ran' = TRUE
    /\ job' = [job EXCEPT ![w] = IF @.done THEN Idle ELSE @]
    /\ UNCHANGED <<day, quiet, over, told>>

RecordRun(w) ==
    /\ job[w].op = "run" /\ job[w].done
    /\ ran' = TRUE
    /\ job' = [job EXCEPT ![w] = Idle]
    /\ UNCHANGED <<day, quiet, over, told>>

(* A restart or a lost connection: uncommitted work is undone, messages are not. *)
Abort(w) ==
    /\ job[w] # Idle
    /\ job' = [job EXCEPT ![w] = Idle]
    /\ IF job[w].op = "send" /\ job[w].wa # day.wa
       THEN told.lost < MaxLost /\ told' = [told EXCEPT !.lost = @ + 1]
       ELSE UNCHANGED told
    /\ UNCHANGED <<day, quiet, ran, over>>

ByHand == CheckIn \/ DeleteDay \/ SetQuiet \/ Midnight \/ \E out \in BOOLEAN : Correct(out)

Next ==
    \/ ByHand \/ SkipQuiet
    \/ \E w \in Workers :
        \/ BeginCheckOut(w) \/ FinishCheckOut(w)
        \/ BeginSend(w) \/ EndSend(w) \/ SendUnheard(w)
        \/ \E n \in {0, 1} : SendIn(w, n) \/ SendOut(w, n)
        \/ BeginRun(w) \/ AutoCheckOut(w) \/ RecordRun(w)
        \/ Abort(w)

Spec == Init /\ [][Next]_vars

(***************************************************************************)
(* The scheduler's thread comes back every minute, retries what is owed of *)
(* today's rows and, in the evening, runs until the run is recorded: what  *)
(* can be done again and again is done.  A provider that answers again and *)
(* again with a failure is not one the retry can help against, so a        *)
(* message that is tried again and again goes out.  Nothing is assumed of  *)
(* people or of the clock: once midnight has passed nothing is retried.    *)
(***************************************************************************)
Retry == ~over /\ (SkipQuiet \/ \E w \in Workers : BeginSend(w))
Delivers == \E w \in Workers : SendIn(w, 1) \/ SendOut(w, 1)
Finishes == \E w \in Workers : FinishCheckOut(w) \/ EndSend(w) \/ RecordRun(w)

Fairness ==
    /\ SF_vars(Retry) /\ SF_vars(Delivers)
    /\ SF_vars(Finishes)
    /\ SF_vars(\E w \in Workers : BeginRun(w))
    /\ SF_vars(\E w \in Workers : AutoCheckOut(w))

LiveSpec == Spec /\ Fairness

-----------------------------------------------------------------------------
Job == {Idle}
    \cup [op : {"checkout"}, key : 1..MaxPunches, wa : WaStatus, quiet : BOOLEAN]
    \cup [op : {"send"}, wa : WaStatus]
    \cup [op : {"run"}, done : BOOLEAN]

\* The day, the workers and the history have the shapes declared above.
TypeOK ==
    /\ day \in Day
    /\ quiet \in BOOLEAN
    /\ job \in [Workers -> Job]
    /\ ran \in BOOLEAN
    /\ over \in BOOLEAN
    /\ told \in Told

\* "never a double message" (process_wa_row), as far as it goes: a check-out message
\* goes out once for each check-out written, a check-in message once more than that
\* - a check-out may bring it back - and a send that was lost repeats each once at most.
MessagesAreCounted ==
    /\ told.out <= told.asked + told.lost
    /\ told.in <= 1 + told.asked + told.lost

\* "a background job ... retries" (module docstring), for as long as the day lasts: a
\* message that is owed is sent, or overtaken by a later state of the day, unless the day
\* ends first.  What is still owed at midnight nothing retries any more.
MessagesGoOut == day.wa \in Pending ~> (day.wa \notin Pending \/ over)

\* The automatic check-out is done once a day, wherever a restart hits it: a day that
\* is open before the run has looked at it does not stay open, unless midnight comes
\* before a run has got through: the next run looks at the next day.
OpenDayIsClosed ==
    (Exists /\ ~day.out /\ ~ran /\ \A w \in Workers : job[w].op # "run")
        ~> (day.out \/ ~Exists \/ over)
=============================================================================
