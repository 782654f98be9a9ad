-------------------------- MODULE AttendanceProofs --------------------------
(***************************************************************************)
(* A day of attendance (AttendanceDay): a message goes out once for what   *)
(* is written, for any number of requests and check-outs.                  *)
(***************************************************************************)
EXTENDS AttendanceDay, FiniteSetTheorems, TLAPS

(***************************************************************************)
(* Shapes.                                                                 *)
(***************************************************************************)

\* The bounds are numbers, and the statuses a step writes are statuses.
LEMMA Shapes ==
    /\ MaxPunches \in Nat /\ Idle \in Job
    /\ OwesIn \subseteq WaStatus /\ OwesOut \subseteq WaStatus
    /\ \A wa \in WaStatus : NextWa(wa) \in OwesOut
BY BoundsAssumption DEF Job, OwesIn, OwesOut, Pending, WaStatus, NextWa

\* What a request carries.
LEMMA JobShape ==
    ASSUME TypeOK, NEW w \in Workers
    PROVE  /\ job[w].op = "send" => job[w] \in [op : {"send"}, wa : WaStatus]
           /\ job[w].op = "checkout" =>
                job[w] \in [op : {"checkout"}, key : 1..MaxPunches, wa : WaStatus, quiet : BOOLEAN]
           /\ job[w].op = "run" => job[w] \in [op : {"run"}, done : BOOLEAN]
BY DEF TypeOK, Job, Idle

\* A new row gets the next key.
LEMMA PunchTypes ==
    ASSUME TypeOK, NEW out \in BOOLEAN, NEW wa \in WaStatus, Punch(out, wa)
    PROVE  day' \in Day /\ told' \in Told
<1>1. told.used + 1 \in 0..MaxPunches
  BY Shapes DEF TypeOK, Punch, Told
<1> QED
  BY <1>1 DEF Punch, Day, Told

\* Counts may become any numbers.
LEMMA NewCounts ==
    ASSUME NEW r \in Told, NEW n \in Nat, NEW i \in Nat, NEW o \in Nat
    PROVE  [r EXCEPT !.lost = n, !.in = i, !.out = o] \in Told
<1>1. [r EXCEPT !.lost = n] \in Told
  BY DEF Told
<1>2. [[r EXCEPT !.lost = n] EXCEPT !.in = i] \in Told
  BY <1>1 DEF Told
<1> QED
  BY <1>2 DEF Told

LEMMA DayTypesStart == Init => TypeOK
<1> SUFFICES ASSUME Init PROVE TypeOK
  OBVIOUS
<1>1. day \in Day /\ told \in Told
  BY Shapes DEF Init, NoDay, Day, WaStatus, Told
<1>2. quiet \in BOOLEAN /\ job \in [Workers -> Job] /\ ran \in BOOLEAN /\ over \in BOOLEAN
  BY Shapes DEF Init
<1> QED
  BY <1>1, <1>2 DEF TypeOK

\* Every step keeps the shapes.
LEMMA DayTypesStep ==
    ASSUME TypeOK, [Next]_vars
    PROVE  TypeOK'
<1> USE Shapes
<1>1. CASE UNCHANGED vars
  BY <1>1 DEF vars, TypeOK
<1>2. CASE CheckIn
  <2>1. day' \in Day /\ told' \in Told
    BY <1>2, PunchTypes DEF CheckIn, OwesIn, WaStatus
  <2> QED
    BY <1>2, <2>1 DEF CheckIn, TypeOK
<1>3. ASSUME NEW out \in BOOLEAN, Correct(out) PROVE TypeOK'
  <2>1. day' \in Day /\ told' \in Told
    <3>1. CASE Exists
      BY <1>3, <3>1 DEF Correct, TypeOK, Day
    <3>2. CASE ~Exists
      BY <1>3, <3>2, PunchTypes DEF Correct, WaStatus
    <3> QED
      BY <3>1, <3>2
  <2> QED
    BY <1>3, <2>1 DEF Correct, TypeOK
<1>4. CASE DeleteDay \/ SetQuiet \/ SkipQuiet
  <2>1. day' \in Day
    <3>1. CASE DeleteDay
      BY <3>1 DEF DeleteDay, NoDay, Day, WaStatus
    <3>2. CASE SetQuiet
      BY <3>2 DEF SetQuiet, TypeOK
    <3>3. CASE SkipQuiet
      BY <3>3 DEF SkipQuiet, TypeOK, Day, WaStatus
    <3> QED
      BY <1>4, <3>1, <3>2, <3>3
  <2>2. quiet' \in BOOLEAN
    BY <1>4 DEF DeleteDay, SetQuiet, SkipQuiet, TypeOK
  <2> QED
    BY <1>4, <2>1, <2>2 DEF DeleteDay, SetQuiet, SkipQuiet, TypeOK
<1>5. ASSUME NEW w \in Workers, BeginCheckOut(w) PROVE TypeOK'
  <2>1. [op |-> "checkout", key |-> day.key, wa |-> day.wa, quiet |-> quiet] \in Job
    BY <1>5 DEF BeginCheckOut, Exists, TypeOK, Day, Job
  <2> QED
    BY <1>5, <2>1 DEF BeginCheckOut, TypeOK
<1>6. ASSUME NEW w \in Workers, FinishCheckOut(w) PROVE TypeOK'
  <2>1. NextWa(job[w].wa) \in WaStatus
    BY <1>6, JobShape DEF FinishCheckOut
  <2>2. day' \in Day
    BY <1>6, <2>1 DEF FinishCheckOut, TypeOK, Day, WaStatus
  <2>3. told' \in Told
    BY <1>6 DEF FinishCheckOut, TypeOK, Told
  <2> QED
    BY <1>6, <2>2, <2>3 DEF FinishCheckOut, TypeOK
<1>7. ASSUME NEW w \in Workers, BeginSend(w) PROVE TypeOK'
  <2>1. [op |-> "send", wa |-> day.wa] \in Job
    BY DEF TypeOK, Day, Job
  <2> QED
    BY <1>7, <2>1 DEF BeginSend, TypeOK
<1>8. ASSUME NEW w \in Workers, EndSend(w) PROVE TypeOK'
  BY <1>8, JobShape DEF EndSend, TypeOK, Day
<1>9. ASSUME NEW w \in Workers, SendUnheard(w) PROVE TypeOK'
  <2>1. day' \in Day
    BY <1>9, JobShape DEF SendUnheard, TypeOK, Day
  <2>2. told' \in Told
    <3> DEFINE owesIn == job[w].wa \in OwesIn
               i == IF owesIn THEN told.in + 1 ELSE told.in
               o == IF owesIn THEN told.out ELSE told.out + 1
               n == told.lost + 1
    <3>1. told \in Told /\ i \in Nat /\ o \in Nat /\ n \in Nat
      BY DEF TypeOK, Told
    <3>2. told' = [told EXCEPT !.lost = n, !.in = i, !.out = o]
      BY <1>9, <3>1 DEF SendUnheard, Told
    <3> HIDE DEF i, o, n
    <3>3. [told EXCEPT !.lost = n, !.in = i, !.out = o] \in Told
      BY <3>1, NewCounts
    <3> QED
      BY <3>2, <3>3, Zenon
  <2> QED
    BY <1>9, <2>1, <2>2 DEF SendUnheard, TypeOK
<1>10. ASSUME NEW w \in Workers, NEW n \in {0, 1}, SendIn(w, n) \/ SendOut(w, n) PROVE TypeOK'
  <2>1. PICK wa \in WaStatus : job' = [job EXCEPT ![w].wa = wa]
    BY <1>10 DEF SendIn, SendOut, WaStatus, OwesOut, Pending
  <2>2. [job[w] EXCEPT !.wa = wa] \in Job
    BY <1>10, JobShape DEF SendIn, SendOut, Job
  <2>3. told' \in Told
    BY <1>10 DEF SendIn, SendOut, TypeOK, Told
  <2> QED
    BY <1>10, <2>1, <2>2, <2>3 DEF SendIn, SendOut, TypeOK
<1>11. ASSUME NEW w \in Workers, BeginRun(w) PROVE TypeOK'
  <2>1. [op |-> "run", done |-> FALSE] \in Job
    BY DEF Job
  <2> QED
    BY <1>11, <2>1 DEF BeginRun, TypeOK
<1>12. ASSUME NEW w \in Workers, AutoCheckOut(w) PROVE TypeOK'
  <2>1. [job[w] EXCEPT !.done = TRUE] \in Job
    BY <1>12, JobShape DEF AutoCheckOut, Job
  <2>2. day' \in Day
    BY <1>12 DEF AutoCheckOut, TypeOK, Day, WaStatus
  <2> QED
    BY <1>12, <2>1, <2>2 DEF AutoCheckOut, TypeOK
<1>13. ASSUME NEW w \in Workers, RecordRun(w) PROVE TypeOK'
  BY <1>13 DEF RecordRun, TypeOK
<1>14. ASSUME NEW w \in Workers, Abort(w) PROVE TypeOK'
  BY <1>14 DEF Abort, TypeOK, Told
<1>15. CASE Midnight
  BY <1>15 DEF Midnight, TypeOK
<1> QED
  BY <1>1, <1>2, <1>3, <1>4, <1>5, <1>6, <1>7, <1>8, <1>9, <1>10, <1>11, <1>12, <1>13, <1>14, <1>15
     DEF Next, ByHand

-----------------------------------------------------------------------------
(***************************************************************************)
(* The messages.  A message that is still owed has been paid for: by the   *)
(* punch, by a check-out, or by a send that was lost.  What is owed is in  *)
(* the row, or with the one request that has locked the row to send it.    *)
(***************************************************************************)
One(b) == IF b THEN 1 ELSE 0

PaidFor(wa) ==
    /\ told.out + One(wa \in OwesOut) <= told.asked + told.lost
    /\ told.in + One(wa \in OwesIn) <= 1 + told.asked + told.lost

Sends(w) == job[w].op = "send"

DayInv ==
    /\ TypeOK
    /\ \A v, w \in Workers : Sends(v) /\ Sends(w) => v = w
    /\ \A w \in Workers : Sends(w) => Exists /\ PaidFor(job[w].wa)
    /\ RowFree => PaidFor(day.wa)

LEMMA ToldShape ==
    ASSUME TypeOK
    PROVE  /\ told.out \in Nat /\ told.in \in Nat /\ told.asked \in Nat /\ told.lost \in Nat
           /\ day.wa \in WaStatus /\ day.key \in Nat
BY Shapes DEF TypeOK, Told, Day

\* What is paid for stays so when less is owed, and when more is paid for.
LEMMA PaidForMore ==
    ASSUME TypeOK, TypeOK', NEW wa, PaidFor(wa), NEW new, told'.lost = told.lost, told'.asked = told.asked,
           told'.out + One(new \in OwesOut) <= told.out + One(wa \in OwesOut),
           told'.in + One(new \in OwesIn) <= told.in + One(wa \in OwesIn)
    PROVE  PaidFor(new)'
<1>1. /\ told.out \in Nat /\ told.in \in Nat /\ told.asked \in Nat /\ told.lost \in Nat
      /\ told'.out \in Nat /\ told'.in \in Nat
  BY DEF TypeOK, Told
<1>2. One(new \in OwesOut) \in {0, 1} /\ One(new \in OwesIn) \in {0, 1}
      /\ One(wa \in OwesOut) \in {0, 1} /\ One(wa \in OwesIn) \in {0, 1}
  BY DEF One
<1>3. PaidFor(new)' <=> /\ told'.out + One(new \in OwesOut) <= told'.asked + told'.lost
                        /\ told'.in + One(new \in OwesIn) <= 1 + told'.asked + told'.lost
  BY DEF PaidFor, OwesIn, OwesOut
<1> QED
  BY <1>1, <1>2, <1>3 DEF PaidFor

LEMMA PaidOnceMore ==
    ASSUME TypeOK, TypeOK', NEW wa, PaidFor(wa), NEW new,
           told'.lost + told'.asked = told.lost + told.asked + 1,
           told'.out <= told.out + One(wa \in OwesOut) , told'.in <= told.in + One(wa \in OwesIn)
    PROVE  PaidFor(new)'
<1>1. /\ told.out \in Nat /\ told.in \in Nat /\ told.asked \in Nat /\ told.lost \in Nat
      /\ told'.out \in Nat /\ told'.in \in Nat /\ told'.asked \in Nat /\ told'.lost \in Nat
  BY DEF TypeOK, Told
<1>2. One(new \in OwesOut) \in {0, 1} /\ One(new \in OwesIn) \in {0, 1}
      /\ One(wa \in OwesOut) \in {0, 1} /\ One(wa \in OwesIn) \in {0, 1}
  BY DEF One
<1> QED
  BY <1>1, <1>2 DEF PaidFor, OwesIn, OwesOut

LEMMA DayStart == Init => DayInv
<1> SUFFICES ASSUME Init PROVE DayInv
  OBVIOUS
<1>1. TypeOK
  BY DayTypesStart
<1>2. \A w \in Workers : ~Sends(w)
  BY DEF Init, Idle, Sends
<1>3. PaidFor(day.wa)
  BY DEF Init, NoDay, PaidFor, One, OwesIn, OwesOut
<1> QED
  BY <1>1, <1>2, <1>3 DEF DayInv

\* A step that leaves the senders, the row's messages and the history alone.
LEMMA QuietStep ==
    ASSUME DayInv, TypeOK', Exists => Exists', day'.wa = day.wa, told' = told,
           \A w \in Workers : Sends(w)' => Sends(w) /\ job'[w].wa = job[w].wa,
           \A w \in Workers : Sends(w) => Sends(w)'
    PROVE  DayInv'
BY DEF DayInv, PaidFor, RowFree, Sends

\* A step on a row that nobody has locked, after which what is owed is paid for.
LEMMA FreeStep ==
    ASSUME DayInv, TypeOK', RowFree, \A w \in Workers : ~Sends(w)', PaidFor(day.wa)'
    PROVE  DayInv'
BY DEF DayInv, Sends

\* The sender is done: the row is free again.
LEMMA SenderEnds ==
    ASSUME DayInv, NEW w \in Workers, Sends(w), job' = [job EXCEPT ![w] = Idle]
    PROVE  \A v \in Workers : ~Sends(v)'
BY DEF DayInv, TypeOK, Sends, Idle

\* Every step keeps what is owed paid for.
LEMMA DayStep ==
    ASSUME DayInv, [Next]_vars
    PROVE  DayInv'
<1>0. TypeOK /\ TypeOK' /\ job \in [Workers -> Job]
  BY DayTypesStep DEF DayInv, TypeOK
<1>1. CASE UNCHANGED vars
  BY <1>0, <1>1, QuietStep DEF vars, Exists, Sends
<1>2. ASSUME ~Exists, NEW out \in BOOLEAN, NEW wa \in {"IN_Pending", "Skipped"}, Punch(out, wa),
             UNCHANGED job
      PROVE  DayInv'
  <2>1. \A w \in Workers : ~Sends(w)
    BY <1>2 DEF DayInv
  <2>2. RowFree /\ \A w \in Workers : ~Sends(w)'
    BY <1>2, <2>1 DEF RowFree, Sends
  <2>3. PaidFor(day.wa)'
    BY <1>2 DEF Punch, PaidFor, One, OwesIn, OwesOut
  <2> QED
    BY <1>0, <2>2, <2>3, FreeStep
<1>3. CASE CheckIn
  BY <1>2, <1>3 DEF CheckIn, Punch
<1>4. ASSUME NEW out \in BOOLEAN, Correct(out) PROVE DayInv'
  <2>1. CASE Exists
    <3>1. day' = [day EXCEPT !.out = out] /\ UNCHANGED <<told, job>>
      BY <1>4, <2>1 DEF Correct
    <3>2. day'.wa = day.wa /\ day'.key = day.key
      BY <1>0, <3>1 DEF TypeOK, Day
    <3> QED
      BY <1>0, <3>1, <3>2, QuietStep DEF Exists, Sends
  <2>2. CASE ~Exists
    BY <1>2, <1>4, <2>2 DEF Correct
  <2> QED
    BY <2>1, <2>2
<1>5. ASSUME RowFree, UNCHANGED <<job, told>>, day'.wa \notin Pending PROVE DayInv'
  <2>1. day'.wa \notin OwesIn /\ day'.wa \notin OwesOut
    BY <1>5 DEF Pending
  <2>2. PaidFor(day.wa)
    BY <1>5 DEF DayInv
  <2>3. PaidFor(day.wa)'
    BY <1>0, <1>5, <2>1, <2>2, ToldShape DEF PaidFor, One, OwesIn, OwesOut
  <2> QED
    BY <1>0, <1>5, <2>3, FreeStep DEF RowFree, Sends
<1>6. CASE DeleteDay
  BY <1>5, <1>6 DEF DeleteDay, NoDay, Pending, OwesIn, OwesOut
<1>7. CASE SkipQuiet
  BY <1>0, <1>5, <1>7 DEF SkipQuiet, TypeOK, Day, Pending, OwesIn, OwesOut
<1>8. CASE SetQuiet \/ Midnight
  BY <1>0, <1>8, QuietStep DEF SetQuiet, Midnight, Exists, Sends
<1>9. ASSUME NEW w \in Workers, ~Sends(w), NEW j \in Job, j.op # "send", job' = [job EXCEPT ![w] = j],
             UNCHANGED <<day, told>>
      PROVE  DayInv'
  <2>1. \A v \in Workers : (Sends(v)' => Sends(v) /\ job'[v].wa = job[v].wa) /\ (Sends(v) => Sends(v)')
    BY <1>0, <1>9 DEF Sends
  <2> QED
    BY <1>0, <1>9, <2>1, QuietStep DEF Exists
<1>10. ASSUME NEW w \in Workers, BeginCheckOut(w) PROVE DayInv'
  <2> DEFINE j == [op |-> "checkout", key |-> day.key, wa |-> day.wa, quiet |-> quiet]
  <2>1. j \in Job /\ j.op # "send"
    BY <1>0, <1>10 DEF BeginCheckOut, Exists, TypeOK, Day, Job
  <2>2. job' = [job EXCEPT ![w] = j] /\ ~Sends(w) /\ UNCHANGED <<day, told>>
    BY <1>10 DEF BeginCheckOut, Sends, Idle
  <2> HIDE DEF j
  <2> QED
    BY <1>9, <2>1, <2>2
<1>11. ASSUME NEW w \in Workers, BeginRun(w) \/ RecordRun(w) PROVE DayInv'
  <2>1. [op |-> "run", done |-> FALSE] \in Job /\ Idle \in Job /\ Idle.op # "send"
    BY DEF Job, Idle
  <2> QED
    BY <1>9, <1>11, <2>1 DEF BeginRun, RecordRun, Sends, Idle
<1>12. ASSUME NEW w \in Workers, AutoCheckOut(w) PROVE DayInv'
  <2>1. \A v \in Workers : ~Sends(v) /\ ~Sends(v)'
    BY <1>0, <1>12, JobShape DEF AutoCheckOut, RowFree, Sends
  <2>2. day'.wa = day.wa \/ day'.wa \notin Pending
    BY <1>0, <1>12 DEF AutoCheckOut, TypeOK, Day, Pending, OwesIn, OwesOut
  <2>3. PaidFor(day.wa) /\ told' = told
    BY <1>12 DEF AutoCheckOut, DayInv
  <2>4. PaidFor(day.wa)'
    BY <1>0, <2>2, <2>3, ToldShape DEF PaidFor, One, Pending
  <2> QED
    BY <1>0, <1>12, <2>1, <2>4, FreeStep DEF AutoCheckOut
<1>13. ASSUME NEW w \in Workers, FinishCheckOut(w) PROVE DayInv'
  <2>1. \A v \in Workers : ~Sends(v) /\ ~Sends(v)'
    BY <1>0, <1>13 DEF FinishCheckOut, RowFree, Sends, Idle
  <2>2. RowFree /\ PaidFor(day.wa)
    BY <1>13 DEF FinishCheckOut, DayInv
  <2>3. CASE UNCHANGED <<day, told>>
    BY <1>0, <2>1, <2>2, <2>3, FreeStep DEF PaidFor
  <2>4. CASE told' = [told EXCEPT !.asked = @ + 1]
    <3>1. /\ told'.asked = told.asked + 1 /\ told'.lost = told.lost
          /\ told'.out = told.out /\ told'.in = told.in
      BY <1>0, <2>4 DEF TypeOK, Told
    <3>2. PaidFor(day.wa)'
      <4>1. told'.out <= told.out + One(day.wa \in OwesOut) /\ told'.in <= told.in + One(day.wa \in OwesIn)
        BY <1>0, <3>1, ToldShape DEF One
      <4> QED
        BY <1>0, <2>2, <3>1, <4>1, ToldShape, PaidOnceMore
    <3> QED
      BY <1>0, <2>1, <2>2, <3>2, FreeStep
  <2> QED
    BY <1>13, <2>3, <2>4 DEF FinishCheckOut
<1>14. ASSUME NEW w \in Workers, BeginSend(w) PROVE DayInv'
  <2> DEFINE j == [op |-> "send", wa |-> day.wa]
  <2>1. /\ job' = [job EXCEPT ![w] = j] /\ UNCHANGED <<day, told>>
        /\ Exists /\ RowFree /\ PaidFor(day.wa)
    BY <1>14 DEF BeginSend, DayInv
  <2>2. \A v \in Workers : Sends(v)' => v = w /\ job'[v].wa = day.wa
    BY <1>0, <2>1 DEF RowFree, Sends
  <2>3. ~RowFree'
    BY <1>0, <2>1 DEF RowFree
  <2> QED
    BY <1>0, <2>1, <2>2, <2>3 DEF DayInv, PaidFor, Exists
<1>15. ASSUME NEW w \in Workers, EndSend(w) PROVE DayInv'
  <2>1. Sends(w) /\ PaidFor(job[w].wa) /\ told' = told /\ job' = [job EXCEPT ![w] = Idle]
    BY <1>15 DEF EndSend, Sends, DayInv
  <2>2. day'.wa = job[w].wa
    BY <1>0, <1>15 DEF EndSend, TypeOK, Day
  <2>3. PaidFor(day.wa)'
    BY <2>1, <2>2 DEF PaidFor
  <2>4. \A v \in Workers : ~Sends(v)'
    BY <2>1, SenderEnds
  <2> QED
    BY <1>0, <2>3, <2>4 DEF DayInv
<1>16. ASSUME NEW w \in Workers, SendUnheard(w) PROVE DayInv'
  <2>1. Sends(w) /\ PaidFor(job[w].wa) /\ job[w].wa \in Pending /\ job' = [job EXCEPT ![w] = Idle]
    BY <1>16 DEF SendUnheard, Sends, DayInv
  <2>2. /\ told'.lost = told.lost + 1 /\ told'.asked = told.asked
        /\ told'.in = IF job[w].wa \in OwesIn THEN told.in + 1 ELSE told.in
        /\ told'.out = IF job[w].wa \in OwesIn THEN told.out ELSE told.out + 1
    BY <1>0, <1>16 DEF SendUnheard, TypeOK, Told
  <2>3. PaidFor(day.wa)'
    <3>1. /\ told'.out <= told.out + One(job[w].wa \in OwesOut)
          /\ told'.in <= told.in + One(job[w].wa \in OwesIn)
      BY <1>0, <2>1, <2>2, ToldShape DEF One, Pending
    <3> QED
      BY <1>0, <2>1, <2>2, <3>1, ToldShape, PaidOnceMore
  <2>4. \A v \in Workers : ~Sends(v)'
    BY <2>1, SenderEnds
  <2> QED
    BY <1>0, <2>3, <2>4 DEF DayInv
<1>17. ASSUME NEW w \in Workers, NEW n \in {0, 1}, SendIn(w, n) \/ SendOut(w, n) PROVE DayInv'
  <2>0. PICK new : new = job'[w].wa
    OBVIOUS
  <2>1. Sends(w) /\ PaidFor(job[w].wa) /\ Exists /\ day' = day
    BY <1>17 DEF SendIn, SendOut, Sends, DayInv
  <2>2. (\A v \in Workers \ {w} : job'[v] = job[v] /\ ~Sends(v)) /\ job'[w].op = "send"
    BY <1>0, <1>17, <2>1, JobShape DEF SendIn, SendOut, DayInv, Sends
  <2>3. PaidFor(new)'
    <3>1. told'.lost = told.lost /\ told'.asked = told.asked
      BY <1>0, <1>17 DEF SendIn, SendOut, TypeOK, Told
    <3>2. CASE SendIn(w, n)
      <4>1. /\ job[w].wa \in OwesIn /\ new = IF job[w].wa \in OwesOut THEN "OUT_Pending" ELSE "IN_Sent"
            /\ told'.in = told.in + n /\ told'.out = told.out
        BY <1>0, <3>2, <2>0, <2>1, JobShape DEF SendIn, TypeOK, Told, Sends
      <4>2. One(new \in OwesIn) = 0 /\ One(new \in OwesOut) = One(job[w].wa \in OwesOut)
            /\ One(job[w].wa \in OwesIn) = 1
        BY <4>1 DEF One, OwesIn, OwesOut
      <4>3. /\ told'.out + One(new \in OwesOut) <= told.out + One(job[w].wa \in OwesOut)
            /\ told'.in + One(new \in OwesIn) <= told.in + One(job[w].wa \in OwesIn)
        BY <1>0, <4>1, <4>2, ToldShape DEF One
      <4> QED
        BY <1>0, <2>1, <3>1, <4>3, PaidForMore
    <3>3. CASE SendOut(w, n)
      <4>1. /\ job[w].wa = "OUT_Pending" /\ new = "Done"
            /\ told'.in = told.in /\ told'.out = told.out + n
        BY <1>0, <3>3, <2>0, <2>1, JobShape DEF SendOut, TypeOK, Told, Sends
      <4>2. /\ One(new \in OwesIn) = 0 /\ One(new \in OwesOut) = 0
            /\ One(job[w].wa \in OwesOut) = 1 /\ One(job[w].wa \in OwesIn) = 0
        BY <4>1 DEF One, OwesIn, OwesOut
      <4>3. /\ told'.out + One(new \in OwesOut) <= told.out + One(job[w].wa \in OwesOut)
            /\ told'.in + One(new \in OwesIn) <= told.in + One(job[w].wa \in OwesIn)
        BY <1>0, <4>1, <4>2, ToldShape
      <4> QED
        BY <1>0, <2>1, <3>1, <4>3, PaidForMore
    <3> QED
      BY <1>17, <3>2, <3>3
  <2>4. ~RowFree'
    BY <2>2 DEF RowFree
  <2>5. \A v \in Workers : Sends(v)' => v = w
    BY <2>2 DEF Sends
  <2> QED
    BY <1>0, <2>0, <2>1, <2>3, <2>4, <2>5 DEF DayInv, Exists, PaidFor
<1>18. ASSUME NEW w \in Workers, Abort(w) PROVE DayInv'
  <2>1. CASE Sends(w)
    <3>1. PaidFor(job[w].wa) /\ job' = [job EXCEPT ![w] = Idle] /\ day' = day
      BY <1>18, <2>1 DEF Abort, DayInv
    <3>2. PaidFor(day.wa)'
      <4>1. CASE job[w].wa = day.wa
        BY <1>18, <3>1, <4>1 DEF Abort, PaidFor
      <4>2. CASE job[w].wa # day.wa
        <5>1. /\ told'.lost = told.lost + 1 /\ told'.asked = told.asked
              /\ told'.in = told.in /\ told'.out = told.out
          BY <1>0, <1>18, <2>1, <4>2 DEF Abort, Sends, TypeOK, Told
        <5> QED
          <6>1. /\ told'.out <= told.out + One(job[w].wa \in OwesOut)
                /\ told'.in <= told.in + One(job[w].wa \in OwesIn)
            BY <1>0, <5>1, ToldShape DEF One
          <6> QED
            BY <1>0, <3>1, <5>1, <6>1, ToldShape, PaidOnceMore
      <4> QED
        BY <4>1, <4>2
    <3>3. \A v \in Workers : ~Sends(v)'
      BY <2>1, <3>1, SenderEnds
    <3> QED
      BY <1>0, <3>2, <3>3 DEF DayInv
  <2>2. CASE ~Sends(w)
    <3>1. Idle \in Job /\ Idle.op # "send"
      BY Shapes DEF Idle
    <3> QED
      BY <1>9, <1>18, <2>2, <3>1 DEF Abort, Sends
  <2> QED
    BY <2>1, <2>2
<1> QED
  BY <1>1, <1>3, <1>4, <1>6, <1>7, <1>8, <1>10, <1>11, <1>12, <1>13, <1>14, <1>15, <1>16, <1>17, <1>18
     DEF Next, ByHand

\* "never a double message" (attendance.process_wa_row), as far as it goes: a check-out
\* message goes out once for each check-out written, a check-in message once more than
\* that, and a send that was lost repeats each once at most - for any number of requests,
\* aborts and check-outs.
THEOREM MessagesCounted == Spec => []MessagesAreCounted
<1>1. DayInv => MessagesAreCounted
  <2> SUFFICES ASSUME DayInv PROVE MessagesAreCounted
    OBVIOUS
  <2>1. PICK wa : PaidFor(wa)
    BY DEF DayInv, RowFree, Sends
  <2>2. TypeOK
    BY DEF DayInv
  <2>3. One(wa \in OwesOut) \in {0, 1} /\ One(wa \in OwesIn) \in {0, 1}
    BY DEF One
  <2> QED
    BY <2>1, <2>2, <2>3, ToldShape DEF PaidFor, MessagesAreCounted
<1> QED
  BY DayStart, DayStep, <1>1, PTL DEF Spec
=============================================================================
