--------------------------- MODULE ConnectionPool ---------------------------
(***************************************************************************)
(* The connections of app/db.py: a bounded pool the threads of one process *)
(* share, the waiting for a free one, cursor() and the cursors opened      *)
(* inside it, and advisory_lock(), which sits on a connection of its own   *)
(* while the job inside it opens cursors like anyone else.                 *)
(*                                                                         *)
(* The pool itself is psycopg2's: it hands out a free connection or opens  *)
(* one, refuses beyond its maximum, and keeps one free connection.         *)
(***************************************************************************)
EXTENDS Naturals, FiniteSets

CONSTANTS
    Conns,          \* as many as the pool's maximum; a closed one may be opened again
    Requests,       \* threads that use cursor()
    Jobs,           \* scheduler threads, which use advisory_lock() too
    MaxDepth        \* the bound on cursors inside cursors

ASSUME DepthAssumption == MaxDepth \in Nat
ASSUME WorkersAssumption == Requests \cap Jobs = {}
ASSUME ConnsAssumption == Conns # {}

Users == Requests \cup Jobs

VARIABLES
    used,           \* connections handed out
    free,           \* connections kept open by the pool
    dead,           \* of these two: the server has dropped them
    server,         \* the connection that holds the advisory lock, or who else
    use,            \* each thread: where it is in cursor()
    lockConn        \* each job: the connection its advisory_lock() is on

poolVars == <<used, free, dead, server, use, lockConn>>

Nobody == [by |-> "nobody"]
OtherProcess == [by |-> "other"]
Holding(c) == [by |-> "us", conn |-> c]

NotUsing == [at |-> "none"]
NoLock == [got |-> FALSE, conn |-> {}]

PoolInit ==
    /\ used = {} /\ dead = {}
    /\ free = {CHOOSE c \in Conns : TRUE}
    /\ server = Nobody
    /\ use = [w \in Users |-> NotUsing]
    /\ lockConn = [w \in Jobs |-> NoLock]

-----------------------------------------------------------------------------
(* getconn and putconn of psycopg2's pool. *)
MayGet(c) == IF free # {} THEN c \in free ELSE c \in Conns \ used

Get(c) ==
    /\ MayGet(c)
    /\ used' = used \cup {c}
    /\ free' = free \ {c}

(* Returning a connection: one that is dead is closed, so is one the pool  *)
(* need not keep, and one the caller asks to close.                        *)
Closes(c, close) == close \/ c \in dead \/ free # {}

(* What the server does when a connection ends: its session lock goes. *)
SessionEnds(c) == IF server = Holding(c) THEN Nobody ELSE server

Release(c, close) ==
    /\ used' = used \ {c}
    /\ free' = IF Closes(c, close) THEN free ELSE free \cup {c}
    /\ dead' = dead \ {c}
    /\ server' = IF Closes(c, close) THEN SessionEnds(c) ELSE server

(* The server, or the network, drops a connection. *)
DropConnection(c) ==
    /\ c \in (used \cup free) \ dead
    /\ dead' = dead \cup {c}
    /\ server' = SessionEnds(c)
    /\ UNCHANGED <<used, free, use, lockConn>>

-----------------------------------------------------------------------------
(* cursor(): a thread that holds none waits for a connection ... *)
Waits(for) == [at |-> "waiting", for |-> for, late |-> FALSE]
IsWaiting(w, for) == use[w].at = "waiting" /\ use[w].for = for

BeginCursor(w) ==
    /\ use[w] = NotUsing
    /\ w \in Jobs => lockConn[w].got
    /\ use' = [use EXCEPT ![w] = Waits("cursor")]
    /\ UNCHANGED <<used, free, dead, server, lockConn>>

(* ... and has it; one that is known to be closed goes back, once ...      *)
TakeForCursor(w, c) ==
    /\ IsWaiting(w, "cursor") \/ IsWaiting(w, "again")
    /\ Get(c)
    /\ use' = [use EXCEPT ![w] = [at |-> "inside", conn |-> c, depth |-> 0]]
    /\ UNCHANGED <<dead, server, lockConn>>

TakeClosed(w, c) ==
    /\ IsWaiting(w, "cursor")
    /\ MayGet(c) /\ c \in dead
    /\ free' = free \ {c} /\ dead' = dead \ {c}
    /\ use' = [use EXCEPT ![w] = Waits("again")]
    /\ UNCHANGED <<used, server, lockConn>>

(* ... or has waited for WAIT_FOR_CONNECTION_S ... *)
(* A plausible bug: the deadline starts anew at every try. *)
LateNever(w) == FALSE /\ UNCHANGED poolVars

Late(w) ==
    /\ use[w].at = "waiting" /\ ~use[w].late
    /\ use' = [use EXCEPT ![w].late = TRUE]
    /\ UNCHANGED <<used, free, dead, server, lockConn>>

(* ... and the next try fails too: PoolError. *)
GiveUp(w) ==
    /\ use[w].at = "waiting" /\ use[w].late
    /\ ~\E c \in Conns : MayGet(c)
    /\ use' = [use EXCEPT ![w] = NotUsing]
    /\ UNCHANGED <<used, free, dead, server, lockConn>>

(* A cursor opened inside joins, in a SAVEPOINT; its own error may be caught. *)
OpenNested(w) ==
    /\ use[w].at = "inside" /\ use[w].depth < MaxDepth
    /\ use' = [use EXCEPT ![w].depth = @ + 1]
    /\ UNCHANGED <<used, free, dead, server, lockConn>>

CloseNested(w) ==
    /\ use[w].at = "inside" /\ use[w].depth > 0
    /\ use' = [use EXCEPT ![w].depth = @ - 1]
    /\ UNCHANGED <<used, free, dead, server, lockConn>>

(* The outermost block ends, by a commit at depth 0 or by an error at any. *)
EndCursor(w) ==
    /\ use[w].at = "inside"
    /\ Release(use[w].conn, FALSE)
    /\ use' = [use EXCEPT ![w] = NotUsing]
    /\ UNCHANGED lockConn

-----------------------------------------------------------------------------
(* advisory_lock(): a connection first. *)
BeginLock(w) ==
    /\ use[w] = NotUsing
    /\ lockConn[w] = NoLock
    /\ use' = [use EXCEPT ![w] = Waits("lock")]
    /\ UNCHANGED <<used, free, dead, server, lockConn>>

TakeForLock(w, c) ==
    /\ IsWaiting(w, "lock")
    /\ Get(c)
    /\ lockConn' = [lockConn EXCEPT ![w] = [got |-> FALSE, conn |-> {c}]]
    /\ use' = [use EXCEPT ![w] = [at |-> "locking", conn |-> c]]
    /\ UNCHANGED <<dead, server>>

(* pg_try_advisory_lock: yes when nobody has it, or this session itself. *)
TryLock(w) ==
    /\ use[w].at = "locking"
    /\ use[w].conn \notin dead
    /\ server \in {Nobody, Holding(use[w].conn)}
    /\ server' = Holding(use[w].conn)
    /\ lockConn' = [lockConn EXCEPT ![w].got = TRUE]
    /\ use' = [use EXCEPT ![w] = NotUsing]
    /\ UNCHANGED <<used, free, dead>>

(* Another has it, or the connection is dead: the block is left, or never entered. *)
FailLock(w) ==
    /\ use[w].at = "locking"
    /\ use[w].conn \in dead \/ server \notin {Nobody, Holding(use[w].conn)}
    /\ Release(use[w].conn, FALSE)
    /\ lockConn' = [lockConn EXCEPT ![w] = NoLock]
    /\ use' = [use EXCEPT ![w] = NotUsing]

(* The block has ended, well or by an error (a cursor it waited for in     *)
(* vain): unlock and return the connection ...                             *)
Unlock(w) ==
    /\ use[w] = NotUsing
    /\ lockConn[w].got
    /\ \E c \in lockConn[w].conn :
          /\ c \notin dead
          /\ used' = used \ {c}
          /\ free' = IF free # {} THEN free ELSE free \cup {c}
          /\ server' = IF server = Holding(c) THEN Nobody ELSE server
    /\ lockConn' = [lockConn EXCEPT ![w] = NoLock]
    /\ UNCHANGED <<dead, use>>

(* ... "closing the connection releases the lock" when that fails. *)
(* A plausible bug: it is returned like any other. *)
ReturnLock(c) == Release(c, FALSE)

CloseLock(c) == Release(c, TRUE)

FailUnlock(w) ==
    /\ use[w] = NotUsing
    /\ lockConn[w].got
    /\ \E c \in lockConn[w].conn : CloseLock(c)
    /\ lockConn' = [lockConn EXCEPT ![w] = NoLock]
    /\ UNCHANGED use

(* Another copy of the service. *)
OtherLocks == server = Nobody /\ server' = OtherProcess /\ UNCHANGED <<used, free, dead, use, lockConn>>
OtherUnlocks == server = OtherProcess /\ server' = Nobody /\ UNCHANGED <<used, free, dead, use, lockConn>>

-----------------------------------------------------------------------------
Try(w) ==
    \/ GiveUp(w)
    \/ \E c \in Conns : TakeForCursor(w, c) \/ TakeClosed(w, c) \/ (w \in Jobs /\ TakeForLock(w, c))

PoolNext ==
    \/ \E w \in Users : BeginCursor(w) \/ Late(w) \/ Try(w) \/ OpenNested(w) \/ CloseNested(w) \/ EndCursor(w)
    \/ \E w \in Jobs : BeginLock(w) \/ TryLock(w) \/ FailLock(w) \/ Unlock(w) \/ FailUnlock(w)
    \/ \E c \in Conns : DropConnection(c)
    \/ OtherLocks \/ OtherUnlocks

(* Whoever waits tries again every 30 ms, and the clock moves on. *)
PoolFairness == \A w \in Users : WF_poolVars(Try(w)) /\ WF_poolVars(Late(w))

PoolSpec == PoolInit /\ [][PoolNext]_poolVars /\ PoolFairness

-----------------------------------------------------------------------------
(***************************************************************************)
(* Properties.                                                             *)
(***************************************************************************)
\* The sets of connections and the threads' places have the shapes declared above.
PoolTypeOK ==
    /\ used \subseteq Conns /\ free \subseteq Conns /\ dead \subseteq used \cup free
    /\ used \cap free = {}
    /\ server \in {Nobody, OtherProcess} \cup {Holding(c) : c \in Conns}
    /\ use \in [Users -> {NotUsing}
          \cup [at : {"waiting"}, for : {"cursor", "again", "lock"}, late : BOOLEAN]
          \cup [at : {"locking"}, conn : Conns]
          \cup [at : {"inside"}, conn : Conns, depth : 0..MaxDepth]]
    /\ lockConn \in [Jobs -> [got : BOOLEAN, conn : SUBSET Conns]]

CursorConns(w) == IF use[w].at = "inside" THEN {use[w].conn} ELSE {}
LockConns(w) == IF w \in Jobs THEN lockConn[w].conn ELSE {}

\* Every connection handed out is in the hands of one thread, and the session lock is held only
\* by a connection of a job inside its block: whatever fails, none is lost to the pool, and no
\* connection goes back with the lock still on it (no other process would ever run the job).
LocksComeBack ==
    /\ used = UNION {CursorConns(w) \cup LockConns(w) : w \in Users}
    /\ \A v, w \in Users : v # w =>
          (CursorConns(v) \cup LockConns(v)) \cap (CursorConns(w) \cup LockConns(w)) = {}
    /\ \A c \in Conns : server = Holding(c) => \E w \in Jobs : lockConn[w] = [got |-> TRUE, conn |-> {c}]

\* "waits a little for one to come back instead of failing": nobody waits for ever, not even a
\* job that waits for a second connection while all jobs hold theirs.
EveryoneIsAnswered == \A w \in Users : use[w].at = "waiting" ~> use[w].at # "waiting"
=============================================================================
