----------------------------- MODULE ReadCache ------------------------------
(***************************************************************************)
(* The read cache of app/db.py: the rows of small lookup tables, kept for  *)
(* a few seconds and shared by the threads of the web server.  A write     *)
(* made through cursor() bumps a version of its table once it has          *)
(* committed; a copy counts only while the versions it was read under are  *)
(* the present ones.  Every read of the application is of one table.       *)
(*                                                                         *)
(* One step is what a thread does between two points where another can     *)
(* run: taking the versions, looking at the copy, the query, storing the   *)
(* copy, the commit, the bump.                                             *)
(***************************************************************************)
EXTENDS Naturals, FiniteSets

CONSTANTS
    Threads,
    Tables,
    MaxWrites,      \* the bound on committed writes of a table
    MaxVersion,     \* the bound on versions of "*" before a row is locked
    Uncommitted     \* the contents of a table one has changed and not committed

ASSUME MaxWritesAssumption == MaxWrites \in Nat /\ MaxVersion \in Nat
ASSUME UncommittedAssumption == Uncommitted \notin Nat
ASSUME TablesAssumption == "*" \notin Tables

VARIABLES
    table,          \* contents of each table: how many writes were committed
    versions,       \* _versions
    cache,          \* _read_cache, one entry for each table
    txn,            \* each thread's transaction: what it wrote, and _mine.dirty
    ask,            \* where each thread is in read()
    finished        \* history: table contents whose writer's cursor() has ended

vars == <<table, versions, cache, txn, ask, finished>>

None == [rows |-> Uncommitted]      \* no copy
Idle == [at |-> "idle"]
NoTxn == [wrote |-> {}, dirty |-> {}, made |-> {}]

Counts == Tables \cup {"*"}

Init ==
    /\ table = [t \in Tables |-> 0]
    /\ versions = [t \in Counts |-> 0]
    /\ cache = [t \in Tables |-> None]
    /\ txn = [w \in Threads |-> NoTxn]
    /\ ask = [w \in Threads |-> Idle]
    /\ finished = [t \in Tables |-> 0]

Working(w) == ask[w] = Idle /\ txn[w].made = {}

-----------------------------------------------------------------------------
(* A statement that writes table t; tables_written names the table, or     *)
(* "*" when it cannot tell.                                                *)
Write(w, t, named) ==
    /\ Working(w)
    /\ txn' = [txn EXCEPT ![w].wrote = @ \cup {t}, ![w].dirty = @ \cup {named}]
    /\ UNCHANGED <<table, versions, cache, ask, finished>>

(* SELECT ... FOR UPDATE looks like a write of an unknown table. *)
LockRows(w) ==
    /\ Working(w)
    /\ versions["*"] < MaxVersion
    /\ txn' = [txn EXCEPT ![w].dirty = @ \cup {"*"}]
    /\ UNCHANGED <<table, versions, cache, ask, finished>>

Written(w) == [t \in Tables |-> IF t \in txn[w].wrote THEN table[t] + 1 ELSE table[t]]

InBounds(w) == \A t \in txn[w].wrote : table[t] < MaxWrites

(* The end of cursor(): commit, and only then _bump. *)
Commit(w) ==
    /\ Working(w)
    /\ txn[w].wrote # {}
    /\ InBounds(w)
    /\ table' = Written(w)
    /\ txn' = [txn EXCEPT ![w] = [wrote |-> {}, dirty |-> @.dirty,
                                  made |-> {<<t, Written(w)[t]>> : t \in @.wrote}]]
    /\ UNCHANGED <<versions, cache, ask, finished>>

Bumped(dirty) == [t \in Counts |-> IF t \in dirty THEN versions[t] + 1 ELSE versions[t]]

Bump(w) ==
    /\ ask[w] = Idle
    /\ txn[w].wrote = {} /\ txn[w].dirty # {}
    /\ versions' = Bumped(txn[w].dirty)
    /\ finished' = [t \in Tables |->
          IF \E n \in 1..MaxWrites : <<t, n>> \in txn[w].made /\ n > finished[t]
          THEN CHOOSE n \in 1..MaxWrites : <<t, n>> \in txn[w].made /\ n > finished[t]
          ELSE finished[t]]
    /\ txn' = [txn EXCEPT ![w] = NoTxn]
    /\ UNCHANGED <<table, cache, ask>>

(* An error anywhere in the block: the transaction is rolled back.  The    *)
(* commit itself may fail though the server has done it.                   *)
Fail(w) ==
    /\ txn[w].made = {}
    /\ txn[w].dirty # {} \/ ask[w] # Idle
    /\ txn' = [txn EXCEPT ![w] = NoTxn]
    /\ ask' = [ask EXCEPT ![w] = Idle]
    /\ UNCHANGED <<table, versions, cache, finished>>

CommitUnheard(w) ==
    /\ Working(w)
    /\ txn[w].wrote # {}
    /\ InBounds(w)
    /\ table' = Written(w)
    /\ txn' = [txn EXCEPT ![w] = NoTxn]
    /\ UNCHANGED <<versions, cache, ask, finished>>

(* "a manual SQL edit, another instance" *)
WriteBehind(t) ==
    /\ table[t] < MaxWrites
    /\ table' = [table EXCEPT ![t] = @ + 1]
    /\ UNCHANGED <<versions, cache, txn, ask, finished>>

-----------------------------------------------------------------------------
(* read(): a caller that has written the table, or an unknown one, in its  *)
(* own transaction is sent to the database; any other takes the versions.  *)
Snapshot(t) == <<versions[t], versions["*"]>>

(* A plausible bug: writers read through the cache like anyone else. *)
MustLoadNever(w, t) == FALSE

MustLoad(w, t) == txn[w].dirty \cap {t, "*"} # {}

Ask(w, t) ==
    /\ Working(w)
    /\ ask' = [ask EXCEPT ![w] =
          [at |-> IF MustLoad(w, t) THEN "direct" ELSE "asked", t |-> t,
           seen |-> Snapshot(t), floor |-> finished[t]]]
    /\ UNCHANGED <<table, versions, cache, txn, finished>>

Answered(w, rows) ==
    ask' = [ask EXCEPT ![w] = [at |-> "answered", t |-> @.t, floor |-> @.floor, rows |-> rows]]

IsHit(w) == cache[ask[w].t] # None /\ cache[ask[w].t].seen = ask[w].seen

Hit(w) ==
    /\ ask[w].at = "asked"
    /\ IsHit(w)
    /\ Answered(w, cache[ask[w].t].rows)
    /\ UNCHANGED <<table, versions, cache, txn, finished>>

Miss(w) ==
    /\ ask[w].at = "asked"
    /\ ~IsHit(w)
    /\ ask' = [ask EXCEPT ![w].at = "missed"]
    /\ UNCHANGED <<table, versions, cache, txn, finished>>

Rows(w, t) == IF t \in txn[w].wrote THEN Uncommitted ELSE table[t]

LoadDirect(w) ==
    /\ ask[w].at = "direct"
    /\ Answered(w, Rows(w, ask[w].t))
    /\ UNCHANGED <<table, versions, cache, txn, finished>>

Load(w) ==
    /\ ask[w].at = "missed"
    /\ ask' = [ask EXCEPT ![w] = [at |-> "loaded", t |-> @.t, seen |-> @.seen, floor |-> @.floor,
                                  rows |-> Rows(w, @.t)]]
    /\ UNCHANGED <<table, versions, cache, txn, finished>>

(* A plausible bug: the copy is filed under the versions of now. *)
KeepUnderPresent(w) ==
    /\ ask[w].at = "loaded"
    /\ cache' = [cache EXCEPT ![ask[w].t] = [seen |-> Snapshot(ask[w].t), rows |-> ask[w].rows]]
    /\ Answered(w, ask[w].rows)
    /\ UNCHANGED <<table, versions, txn, finished>>

Keep(w) ==
    /\ ask[w].at = "loaded"
    /\ cache' = [cache EXCEPT ![ask[w].t] = [seen |-> ask[w].seen, rows |-> ask[w].rows]]
    /\ Answered(w, ask[w].rows)
    /\ UNCHANGED <<table, versions, txn, finished>>

Done(w) ==
    /\ ask[w].at = "answered"
    /\ ask' = [ask EXCEPT ![w] = Idle]
    /\ UNCHANGED <<table, versions, cache, txn, finished>>

(* READ_CACHE_TTL has passed, or READ_CACHE_MAX was reached and all went. *)
Drop(t) ==
    /\ cache[t] # None
    /\ cache' = [cache EXCEPT ![t] = None]
    /\ UNCHANGED <<table, versions, txn, ask, finished>>

Next ==
    \/ \E w \in Threads :
        \/ \E t \in Tables : Ask(w, t) \/ \E named \in {t, "*"} : Write(w, t, named)
        \/ LockRows(w) \/ Commit(w) \/ Bump(w) \/ Fail(w) \/ CommitUnheard(w)
        \/ Hit(w) \/ Miss(w) \/ LoadDirect(w) \/ Load(w) \/ Keep(w) \/ Done(w)
    \/ \E t \in Tables : WriteBehind(t) \/ Drop(t)

Spec == Init /\ [][Next]_vars

-----------------------------------------------------------------------------
(***************************************************************************)
(* Properties.                                                             *)
(***************************************************************************)
Contents == Nat \cup {Uncommitted}
Seen == Nat \X Nat

Question == {Idle}
    \cup [at : {"direct", "asked", "missed"}, t : Tables, seen : Seen, floor : Nat]
    \cup [at : {"loaded"}, t : Tables, seen : Seen, floor : Nat, rows : Contents]
    \cup [at : {"answered"}, t : Tables, floor : Nat, rows : Contents]

\* The tables, the cache and the threads' places have the shapes declared above.
TypeOK ==
    /\ table \in [Tables -> Nat]
    /\ versions \in [Counts -> Nat]
    /\ cache \in [Tables -> {None} \cup [seen : Seen, rows : Contents]]
    /\ txn \in [Threads -> [wrote : SUBSET Tables, dirty : SUBSET Counts, made : SUBSET (Tables \X Nat)]]
    /\ ask \in [Threads -> Question]
    /\ finished \in [Tables -> Nat]

\* "a change made here shows up on the very next request": a read that began after a
\* write had finished shows it, however reads, copies, commits and bumps were
\* interleaved - and shows nobody's uncommitted change but the reader's own.
ReadIsFresh ==
    \A w \in Threads : ask[w].at = "answered" =>
        IF ask[w].t \in txn[w].wrote THEN ask[w].rows = Uncommitted
        ELSE ask[w].rows \in Nat /\ ask[w].rows >= ask[w].floor

(* Behind the cache is the plain service: a question that is being         *)
(* answered from a copy or from the database is one that was asked.        *)
Promise == INSTANCE ReadThrough WITH
    txn <- [w \in Threads |-> [wrote |-> txn[w].wrote, made |-> txn[w].made]],
    ask <- [w \in Threads |->
        CASE ask[w].at = "idle" -> [at |-> "idle"]
          [] ask[w].at = "answered" -> ask[w]
          [] OTHER -> [at |-> "asked", t |-> ask[w].t, floor |-> ask[w].floor]]

\* The cache is invisible: every behaviour with it is one of the service without it.
KeepsThePromise == Promise!Spec
=============================================================================
