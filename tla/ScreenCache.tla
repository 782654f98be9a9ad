---------------------------- MODULE ScreenCache -----------------------------
(***************************************************************************)
(* The answers of the order screens (screen_response in                    *)
(* app/o2d_screens.py), kept while no write has been committed anywhere.   *)
(* They are built from rows that read() gives, so one cache stands on      *)
(* another.  Of read() only the promise of ReadThrough is used, which      *)
(* ReadCache keeps: an answer is not older than the last write that was    *)
(* finished when it was asked for, and not newer than the table.           *)
(***************************************************************************)
EXTENDS Naturals

CONSTANTS
    Viewers,        \* requests for a screen
    Changers,       \* requests that write
    MaxCommits      \* the bound on committed writes

ASSUME MaxCommitsAssumption == MaxCommits \in Nat

VARIABLES
    contents,       \* how many writes were committed to what the screens show
    told,           \* the last of them whose cursor() has ended
    version,        \* the sum of _versions
    change,         \* each writer: committed, and not yet bumped
    page,           \* _SCREEN_CACHE, one person's copy of one screen
    look            \* where each viewer is in screen_response

screenVars == <<contents, told, version, change, page, look>>

NoChange == [made |-> 0]
NoPage == [rows |-> 0]
NotLooking == [at |-> "none"]

ScreenInit ==
    /\ contents = 0 /\ told = 0 /\ version = 0
    /\ change = [w \in Changers |-> NoChange]
    /\ page = NoPage
    /\ look = [v \in Viewers |-> NotLooking]

-----------------------------------------------------------------------------
(* cursor(): the commit, and only then _bump, by one for each table written. *)
CommitChange(w, tables) ==
    /\ change[w] = NoChange
    /\ contents < MaxCommits
    /\ contents' = contents + 1
    /\ change' = [change EXCEPT ![w] = [made |-> contents + 1, tables |-> tables]]
    /\ UNCHANGED <<told, version, page, look>>

BumpChange(w) ==
    /\ change[w] # NoChange
    /\ version' = version + change[w].tables
    /\ told' = IF change[w].made > told THEN change[w].made ELSE told
    /\ change' = [change EXCEPT ![w] = NoChange]
    /\ UNCHANGED <<contents, page, look>>

(* A write from elsewhere, or a commit whose answer was lost. *)
ChangeBehind ==
    /\ contents < MaxCommits
    /\ contents' = contents + 1
    /\ UNCHANGED <<told, version, change, page, look>>

-----------------------------------------------------------------------------
(* The version is read before anything else. *)
OpenScreen(v) ==
    /\ look[v] = NotLooking
    /\ look' = [look EXCEPT ![v] = [at |-> "looking", seen |-> version, floor |-> told]]
    /\ UNCHANGED <<contents, told, version, change, page>>

Shown(v, rows) == look' = [look EXCEPT ![v] = [at |-> "shown", floor |-> @.floor, rows |-> rows]]

IsKept(v) == page # NoPage /\ page.seen = look[v].seen

ShowKept(v) ==
    /\ look[v].at = "looking"
    /\ IsKept(v)
    /\ Shown(v, page.rows)
    /\ UNCHANGED <<contents, told, version, change, page>>

(* build() asks read() for rows ... *)
BeginBuild(v) ==
    /\ look[v].at = "looking"
    /\ ~IsKept(v)
    /\ look' = [look EXCEPT ![v] = [at |-> "reading", seen |-> @.seen, floor |-> @.floor, asked |-> told]]
    /\ UNCHANGED <<contents, told, version, change, page>>

(* ... and has them. *)
EndBuild(v) ==
    /\ look[v].at = "reading"
    /\ \E rows \in look[v].asked..contents :
          look' = [look EXCEPT ![v] = [at |-> "built", seen |-> @.seen, floor |-> @.floor, rows |-> rows]]
    /\ UNCHANGED <<contents, told, version, change, page>>

(* A plausible bug: the answer is filed under the version of when it is ready. *)
KeepPageAsOfNow(v) == page' = [seen |-> version, rows |-> look[v].rows]

(* The answer is filed under the version that was read first. *)
KeepPage(v) == page' = [seen |-> look[v].seen, rows |-> look[v].rows]

ShowBuilt(v) ==
    /\ look[v].at = "built"
    /\ KeepPage(v)
    /\ Shown(v, look[v].rows)
    /\ UNCHANGED <<contents, told, version, change>>

CloseScreen(v) ==
    /\ look[v] # NotLooking
    /\ look' = [look EXCEPT ![v] = NotLooking]
    /\ UNCHANGED <<contents, told, version, change, page>>

(* SCREEN_CACHE_TTL has passed, or SCREEN_CACHE_MAX was reached and all went. *)
DropPage ==
    /\ page # NoPage
    /\ page' = NoPage
    /\ UNCHANGED <<contents, told, version, change, look>>

ScreenNext ==
    \/ \E w \in Changers : BumpChange(w) \/ \E tables \in 1..2 : CommitChange(w, tables)
    \/ \E v \in Viewers :
          \/ OpenScreen(v) \/ ShowKept(v) \/ BeginBuild(v) \/ EndBuild(v)
          \/ ShowBuilt(v) \/ CloseScreen(v)
    \/ ChangeBehind \/ DropPage

ScreenSpec == ScreenInit /\ [][ScreenNext]_screenVars

-----------------------------------------------------------------------------
(***************************************************************************)
(* Properties.                                                             *)
(***************************************************************************)
\* Counters, the kept answer and the requests' places have the shapes declared above.
ScreenTypeOK ==
    /\ contents \in Nat /\ told \in Nat /\ version \in Nat
    /\ change \in [Changers -> {NoChange} \cup [made : Nat, tables : 1..2]]
    /\ page \in {NoPage} \cup [seen : Nat, rows : Nat]
    /\ look \in [Viewers -> {NotLooking}
          \cup [at : {"looking"}, seen : Nat, floor : Nat]
          \cup [at : {"reading"}, seen : Nat, floor : Nat, asked : Nat]
          \cup [at : {"built"}, seen : Nat, floor : Nat, rows : Nat]
          \cup [at : {"shown"}, floor : Nat, rows : Nat]]

\* "a write that commits meanwhile makes this copy stale on arrival" (screen_response): what a
\* screen shows has every write that had finished when the screen was asked for, though the
\* answer may be the copy of an answer that was built while others wrote.
ScreenIsFresh ==
    \A v \in Viewers : look[v].at = "shown" => look[v].rows >= look[v].floor
=============================================================================
