-------------------------- MODULE BackgroundProofs --------------------------
(***************************************************************************)
(* Proofs about the connections, the daily reports, the bulk uploads and   *)
(* the batches, for any number of each.                                    *)
(***************************************************************************)
EXTENDS ConnectionPool, DailyReports, Uploads, Imports, WellFoundedInduction, TLAPS

-----------------------------------------------------------------------------
(***************************************************************************)
(* Connections: each comes back, and none with the session lock on it.     *)
(***************************************************************************)

UsePlaces ==
    {NotUsing}
    \cup [at : {"waiting"}, for : {"cursor", "again", "lock"}, late : BOOLEAN]
    \cup [at : {"locking"}, conn : Conns]
    \cup [at : {"inside"}, conn : Conns, depth : 0..MaxDepth]

(* What a thread has in its hands: in cursor(), and in advisory_lock(). *)
Hands(w) == CursorConns(w) \cup LockConns(w)

(* Every connection handed out is in one pair of hands, and only there once. *)
HandsHoldUsed == \A c \in Conns : c \in used <=> \E w \in Users : c \in Hands(w)
HandsDiffer ==
    /\ \A v, w \in Users : v # w => Hands(v) \cap Hands(w) = {}
    /\ \A w \in Users : CursorConns(w) \cap LockConns(w) = {}

(* A job's connection is one, from the moment it is taken for the lock to the end of the block. *)
JobLock(u, l) ==
    /\ l = NoLock \/ \E c \in Conns : l.conn = {c}
    /\ l.got => l # NoLock
    /\ u.at = "locking" => l = [got |-> FALSE, conn |-> {u.conn}]
    /\ u.at = "waiting" /\ u.for = "lock" => l = NoLock
JobsLock == \A w \in Jobs : JobLock(use[w], lockConn[w])

OnlyJobsLock ==
    \A w \in Users : use[w].at = "locking" \/ (use[w].at = "waiting" /\ use[w].for = "lock") => w \in Jobs

(* The session lock is a job's that is inside its block. *)
LockIsHeld == \A c \in Conns : server = Holding(c) => \E w \in Jobs : lockConn[w] = [got |-> TRUE, conn |-> {c}]

PoolInv == PoolTypeOK /\ HandsHoldUsed /\ HandsDiffer /\ JobsLock /\ OnlyJobsLock /\ LockIsHeld

LEMMA LocksAreBack == PoolInv => LocksComeBack
  <1> SUFFICES ASSUME PoolInv
               PROVE  LocksComeBack
    OBVIOUS
  <1>1. \A w \in Users : Hands(w) \subseteq Conns
    BY DEF PoolInv, PoolTypeOK, Hands, CursorConns, LockConns, NotUsing
  <1>2. used = UNION {CursorConns(w) \cup LockConns(w) : w \in Users}
    <2>1. \A c : c \in UNION {CursorConns(w) \cup LockConns(w) : w \in Users} <=> \E w \in Users : c \in Hands(w)
      BY DEF Hands
    <2>2. \A c : c \in used <=> \E w \in Users : c \in Hands(w)
      BY <1>1 DEF PoolInv, PoolTypeOK, HandsHoldUsed
    <2> QED
      BY <2>1, <2>2
  <1> QED
    BY <1>2 DEF PoolInv, HandsDiffer, LockIsHeld, LocksComeBack, Hands

LEMMA HoldingIsOne ==
    /\ \A c, d : Holding(c) = Holding(d) => c = d
    /\ \A c : Holding(c) # Nobody /\ Holding(c) # OtherProcess
    /\ Nobody # OtherProcess
  <1>1. /\ \A c : Holding(c).conn = c /\ Holding(c).by = "us"
        /\ Nobody.by = "nobody" /\ OtherProcess.by = "other"
    BY DEF Holding, Nobody, OtherProcess
  <1> QED
    BY <1>1

LEMMA UseFields ==
    ASSUME NEW x \in UsePlaces
    PROVE  /\ x.at \in {"none", "waiting", "locking", "inside"}
           /\ x.at = "none" <=> x = NotUsing
           /\ x.at \in {"locking", "inside"} => x.conn \in Conns
           /\ x.at = "waiting" => x.for \in {"cursor", "again", "lock"}
           /\ x.at = "inside" => x.depth \in 0..MaxDepth
  BY DEF UsePlaces, NotUsing

LEMMA PoolShape ==
    ASSUME PoolTypeOK
    PROVE  /\ use \in [Users -> UsePlaces]
           /\ lockConn \in [Jobs -> [got : BOOLEAN, conn : SUBSET Conns]]
           /\ Jobs \subseteq Users
           /\ \A w \in Users : Hands(w) \subseteq Conns
  <1>1. use \in [Users -> UsePlaces] /\ lockConn \in [Jobs -> [got : BOOLEAN, conn : SUBSET Conns]]
    BY DEF PoolTypeOK, UsePlaces
  <1>2. \A w \in Users : use[w].at = "inside" => use[w].conn \in Conns
    BY <1>1, UseFields
  <1> QED
    BY <1>1, <1>2 DEF Hands, CursorConns, LockConns, Users

LEMMA PoolStart == PoolInit => PoolInv
  <1> SUFFICES ASSUME PoolInit
               PROVE  PoolInv
    OBVIOUS
  <1>1. free \subseteq Conns
    BY ConnsAssumption DEF PoolInit
  <1>2. PoolTypeOK
    BY <1>1 DEF PoolInit, PoolTypeOK, NotUsing, NoLock, Nobody
  <1>3. \A w \in Users : CursorConns(w) = {} /\ LockConns(w) = {} /\ Hands(w) = {}
    BY DEF PoolInit, CursorConns, LockConns, Hands, NotUsing, NoLock
  <1>4. HandsHoldUsed /\ HandsDiffer
    BY <1>3 DEF PoolInit, HandsHoldUsed, HandsDiffer
  <1>5. JobsLock /\ OnlyJobsLock
    BY DEF PoolInit, JobsLock, JobLock, OnlyJobsLock, NotUsing, NoLock, Users
  <1>6. LockIsHeld
    BY HoldingIsOne DEF PoolInit, LockIsHeld
  <1> QED
    BY <1>2, <1>4, <1>5, <1>6 DEF PoolInv

(* A thread moves while what it and the others have in their hands stays. *)
LEMMA ThreadMoves ==
    ASSUME PoolInv, NEW w \in Users, NEW x \in UsePlaces, use' = [use EXCEPT ![w] = x],
           UNCHANGED <<used, lockConn>>,
           free' \subseteq free, dead' \subseteq used \cup free', server' = server,
           IF x.at = "inside" THEN use[w].at = "inside" /\ x.conn = use[w].conn ELSE use[w].at # "inside",
           x.at # "locking",
           x.at = "waiting" /\ x.for = "lock" => w \in Jobs /\ lockConn[w] = NoLock
    PROVE  PoolInv'
  <1> USE DEF PoolInv
  <1>1. use'[w] = x /\ \A v \in Users : v # w => use'[v] = use[v]
    BY PoolShape
  <1>2. PoolTypeOK'
    <2>1. use' \in [Users -> UsePlaces]
      BY PoolShape
    <2> QED
      BY <2>1 DEF PoolTypeOK, UsePlaces
  <1>3. \A v \in Users : CursorConns(v)' = CursorConns(v) /\ LockConns(v)' = LockConns(v) /\ Hands(v)' = Hands(v)
    BY <1>1 DEF CursorConns, LockConns, Hands
  <1>4. HandsHoldUsed' /\ HandsDiffer'
    BY <1>3 DEF HandsHoldUsed, HandsDiffer
  <1>5. JobsLock'
    <2> SUFFICES ASSUME NEW v \in Jobs
                 PROVE  JobLock(use'[v], lockConn[v])
      BY DEF JobsLock
    <2>1. JobLock(use[v], lockConn[v]) /\ v \in Users
      BY PoolShape DEF JobsLock
    <2>2. CASE v = w
      BY <1>1, <2>1, <2>2 DEF JobLock
    <2> QED
      BY <1>1, <2>1, <2>2
  <1>6. OnlyJobsLock'
    BY <1>1 DEF OnlyJobsLock
  <1>7. LockIsHeld'
    BY DEF LockIsHeld
  <1> QED
    BY <1>2, <1>4, <1>5, <1>6, <1>7

(* What the pool gives is in nobody's hands. *)
LEMMA GivenIsFree ==
    ASSUME PoolInv, NEW c \in Conns, MayGet(c)
    PROVE  c \notin used /\ \A v \in Users : c \notin Hands(v)
  BY DEF PoolInv, PoolTypeOK, HandsHoldUsed, MayGet

LEMMA TakeForCursorKeeps ==
    ASSUME PoolInv, NEW w \in Users, NEW c \in Conns, TakeForCursor(w, c)
    PROVE  PoolInv'
  <1> USE DEF PoolInv
  <1> DEFINE x == [at |-> "inside", conn |-> c, depth |-> 0]
  <1>1. /\ use' = [use EXCEPT ![w] = x] /\ UNCHANGED <<dead, server, lockConn>>
        /\ used' = used \cup {c} /\ free' = free \ {c} /\ MayGet(c) /\ use[w].at = "waiting"
    BY DEF TakeForCursor, Get, IsWaiting
  <1>2. x \in UsePlaces /\ x.at = "inside" /\ x.conn = c
    BY DepthAssumption DEF UsePlaces
  <1> HIDE DEF x
  <1>3. use'[w] = x /\ \A v \in Users : v # w => use'[v] = use[v]
    BY <1>1, PoolShape
  <1>4. c \notin used /\ \A v \in Users : c \notin Hands(v)
    BY <1>1, GivenIsFree
  <1>5. PoolTypeOK'
    <2>1. use' \in [Users -> UsePlaces]
      BY <1>1, <1>2, PoolShape
    <2> QED
      BY <1>1, <2>1 DEF PoolTypeOK, UsePlaces
  <1>6. /\ CursorConns(w)' = {c} /\ CursorConns(w) = {} /\ LockConns(w)' = LockConns(w)
        /\ \A v \in Users : v # w =>
              CursorConns(v)' = CursorConns(v) /\ LockConns(v)' = LockConns(v) /\ Hands(v)' = Hands(v)
    BY <1>1, <1>2, <1>3 DEF CursorConns, LockConns, Hands
  <1>7. Hands(w)' = Hands(w) \cup {c}
    BY <1>6 DEF Hands
  <1>8. HandsHoldUsed'
    BY <1>1, <1>6, <1>7 DEF HandsHoldUsed
  <1>9. HandsDiffer'
    <2>1. CursorConns(w)' \cap LockConns(w)' = {}
      BY <1>4, <1>6 DEF Hands
    <2> QED
      BY <1>4, <1>6, <1>7, <2>1 DEF HandsDiffer
  <1>10. JobsLock'
    <2> SUFFICES ASSUME NEW v \in Jobs
                 PROVE  JobLock(use'[v], lockConn[v])
      BY <1>1 DEF JobsLock
    <2>1. JobLock(use[v], lockConn[v]) /\ v \in Users
      BY PoolShape DEF JobsLock
    <2>2. CASE v = w
      BY <1>2, <1>3, <2>1, <2>2 DEF JobLock
    <2> QED
      BY <1>3, <2>1, <2>2
  <1>11. OnlyJobsLock'
    BY <1>2, <1>3 DEF OnlyJobsLock
  <1>12. LockIsHeld'
    BY <1>1 DEF LockIsHeld
  <1> QED
    BY <1>5, <1>8, <1>9, <1>10, <1>11, <1>12

LEMMA TakeForLockKeeps ==
    ASSUME PoolInv, NEW w \in Jobs, NEW c \in Conns, TakeForLock(w, c)
    PROVE  PoolInv'
  <1> USE DEF PoolInv
  <1> DEFINE x == [at |-> "locking", conn |-> c]
             l == [got |-> FALSE, conn |-> {c}]
  <1>1. /\ use' = [use EXCEPT ![w] = x] /\ lockConn' = [lockConn EXCEPT ![w] = l]
        /\ UNCHANGED <<dead, server>> /\ used' = used \cup {c} /\ free' = free \ {c} /\ MayGet(c)
        /\ use[w].at = "waiting" /\ use[w].for = "lock"
    BY DEF TakeForLock, Get, IsWaiting
  <1>2. /\ x \in UsePlaces /\ x.at = "locking" /\ x.conn = c
        /\ l \in [got : BOOLEAN, conn : SUBSET Conns] /\ l.conn = {c} /\ l.got = FALSE /\ l = [got |-> FALSE, conn |-> {c}]
    BY DEF UsePlaces
  <1> HIDE DEF x, l
  <1>3. /\ w \in Users /\ use'[w] = x /\ \A v \in Users : v # w => use'[v] = use[v]
        /\ lockConn'[w] = l /\ \A v \in Jobs : v # w => lockConn'[v] = lockConn[v]
        /\ Jobs \subseteq Users
    BY <1>1, PoolShape
  <1>4. c \notin used /\ \A v \in Users : c \notin Hands(v)
    BY <1>1, GivenIsFree
  <1>5. PoolTypeOK'
    <2>1. use' \in [Users -> UsePlaces] /\ lockConn' \in [Jobs -> [got : BOOLEAN, conn : SUBSET Conns]]
      BY <1>1, <1>2, PoolShape
    <2> QED
      BY <1>1, <2>1 DEF PoolTypeOK, UsePlaces
  <1>6. lockConn[w] = NoLock /\ lockConn[w].conn = {} /\ ~lockConn[w].got
    <2>1. NoLock.conn = {} /\ NoLock.got = FALSE
      BY DEF NoLock
    <2> QED
      BY <1>1, <2>1 DEF JobsLock, JobLock
  <1>7. /\ CursorConns(w)' = {} /\ CursorConns(w) = {} /\ LockConns(w)' = {c} /\ LockConns(w) = {}
        /\ \A v \in Users : v # w =>
              CursorConns(v)' = CursorConns(v) /\ LockConns(v)' = LockConns(v) /\ Hands(v)' = Hands(v)
    BY <1>1, <1>2, <1>3, <1>6 DEF CursorConns, LockConns, Hands
  <1>8. Hands(w)' = {c} /\ Hands(w) = {}
    BY <1>7 DEF Hands
  <1>9. HandsHoldUsed'
    BY <1>1, <1>3, <1>7, <1>8 DEF HandsHoldUsed
  <1>10. HandsDiffer'
    BY <1>4, <1>7, <1>8 DEF HandsDiffer
  <1>11. JobsLock'
    <2> SUFFICES ASSUME NEW v \in Jobs
                 PROVE  JobLock(use'[v], lockConn'[v])
      BY DEF JobsLock
    <2>1. JobLock(x, l)
      <3>1. l.conn = {x.conn} /\ l = [got |-> FALSE, conn |-> {x.conn}]
        BY <1>2
      <3> QED
        BY <1>2, <3>1 DEF JobLock
    <2>2. JobLock(use[v], lockConn[v]) /\ v \in Users
      BY <1>3 DEF JobsLock
    <2> QED
      BY <1>3, <2>1, <2>2
  <1>12. OnlyJobsLock'
    BY <1>3 DEF OnlyJobsLock
  <1>13. LockIsHeld'
    BY <1>1, <1>3, <1>6 DEF LockIsHeld
  <1> QED
    BY <1>5, <1>9, <1>10, <1>11, <1>12, <1>13

(* A connection goes back: the one thread that had it in its hands no longer has.  If it had the *)
(* session lock, that is gone from it.                                                           *)
LEMMA ConnectionReturns ==
    ASSUME PoolInv, NEW w \in Users, NEW c \in Conns,
           use' \in [Users -> UsePlaces], lockConn' \in [Jobs -> [got : BOOLEAN, conn : SUBSET Conns]],
           \A v \in Users : v # w => use'[v] = use[v],
           \A v \in Jobs : v # w => lockConn'[v] = lockConn[v],
           use'[w] = NotUsing,
           used' = used \ {c}, free' \in {free, free \cup {c}}, dead' = dead \ {c},
           c \in Hands(w),
           \/ use[w].at = "inside" /\ use[w].conn = c /\ lockConn' = lockConn
           \/ w \in Jobs /\ use[w].at # "inside" /\ lockConn[w].conn = {c} /\ lockConn'[w] = NoLock,
           server' \in {server, Nobody}, server' # Holding(c)
    PROVE  PoolInv'
  <1> USE DEF PoolInv
  <1>1. c \in used /\ \A v \in Users : v # w => c \notin Hands(v)
    BY DEF HandsHoldUsed, HandsDiffer
  <1>2. PoolTypeOK'
    BY <1>1 DEF PoolTypeOK, UsePlaces
  <1>3. NotUsing.at = "none" /\ Jobs \subseteq Users /\ NoLock.conn = {} /\ NoLock.got = FALSE
    BY DEF NotUsing, NoLock, Users
  <1>4. /\ CursorConns(w)' = {}
        /\ \A v \in Users : v # w =>
              CursorConns(v)' = CursorConns(v) /\ LockConns(v)' = LockConns(v) /\ Hands(v)' = Hands(v)
    BY <1>3 DEF CursorConns, LockConns, Hands
  <1>5. Hands(w)' = Hands(w) \ {c}
    <2>1. CASE use[w].at = "inside" /\ use[w].conn = c /\ lockConn' = lockConn
      <3>1. CursorConns(w) = {c} /\ LockConns(w)' = LockConns(w) /\ c \notin LockConns(w)
        BY <2>1 DEF CursorConns, LockConns, HandsDiffer
      <3> QED
        BY <1>4, <3>1 DEF Hands
    <2>2. CASE w \in Jobs /\ use[w].at # "inside" /\ lockConn[w].conn = {c} /\ lockConn'[w] = NoLock
      <3>1. CursorConns(w) = {} /\ LockConns(w) = {c} /\ LockConns(w)' = {}
        BY <1>3, <2>2 DEF CursorConns, LockConns
      <3> QED
        BY <1>4, <3>1 DEF Hands
    <2> QED
      BY <2>1, <2>2
  <1>6. HandsHoldUsed'
    BY <1>1, <1>4, <1>5 DEF HandsHoldUsed
  <1>7. HandsDiffer'
    BY <1>4, <1>5 DEF HandsDiffer
  <1>8. JobsLock'
    <2> SUFFICES ASSUME NEW v \in Jobs
                 PROVE  JobLock(use'[v], lockConn'[v])
      BY DEF JobsLock
    <2>1. JobLock(use[v], lockConn[v]) /\ v \in Users
      BY <1>3 DEF JobsLock
    <2>2. CASE v = w
      <3>1. lockConn'[v] = lockConn[v] \/ lockConn'[v] = NoLock
        BY <2>2
      <3> QED
        BY <1>3, <2>1, <2>2, <3>1 DEF JobLock
    <2>3. CASE v # w
      BY <2>1, <2>3
    <2> QED
      BY <2>2, <2>3
  <1>9. OnlyJobsLock'
    BY <1>3 DEF OnlyJobsLock
  <1>10. LockIsHeld'
    <2> SUFFICES ASSUME NEW d \in Conns, server' = Holding(d)
                 PROVE  \E v \in Jobs : lockConn'[v] = [got |-> TRUE, conn |-> {d}]
      BY DEF LockIsHeld
    <2>1. server = Holding(d) /\ d # c
      BY HoldingIsOne
    <2>2. PICK v \in Jobs : lockConn[v] = [got |-> TRUE, conn |-> {d}]
      BY <2>1 DEF LockIsHeld
    <2>3. lockConn[v].conn = {d}
      BY <2>2
    <2>4. v # w \/ lockConn'[v] = lockConn[v]
      BY <2>1, <2>3
    <2> QED
      BY <2>2, <2>4
  <1> QED
    BY <1>2, <1>6, <1>7, <1>8, <1>9, <1>10

(* The session lock is not on a connection of a cursor, nor on one that did not get it. *)
LEMMA NotTheLock ==
    ASSUME PoolInv, NEW w \in Users, NEW c \in Conns, c \in Hands(w), server = Holding(c)
    PROVE  w \in Jobs /\ c \in LockConns(w) /\ lockConn[w] = [got |-> TRUE, conn |-> {c}]
  <1>1. PICK v \in Jobs : lockConn[v] = [got |-> TRUE, conn |-> {c}]
    BY DEF PoolInv, LockIsHeld
  <1>2. v \in Users /\ c \in LockConns(v)
    BY <1>1 DEF LockConns, Users
  <1>3. v = w
    BY <1>2 DEF PoolInv, HandsDiffer, Hands
  <1> QED
    BY <1>1, <1>2, <1>3

LEMMA EndCursorKeeps ==
    ASSUME PoolInv, NEW w \in Users, EndCursor(w)
    PROVE  PoolInv'
  <1> DEFINE c == use[w].conn
  <1>1. /\ use[w].at = "inside" /\ use' = [use EXCEPT ![w] = NotUsing] /\ lockConn' = lockConn
        /\ used' = used \ {c} /\ free' \in {free, free \cup {c}} /\ dead' = dead \ {c}
        /\ server' \in {server, SessionEnds(c)}
    BY DEF EndCursor, Release
  <1>2. c \in Conns /\ use \in [Users -> UsePlaces] /\ NotUsing \in UsePlaces
    BY <1>1, PoolShape, UseFields DEF PoolInv, UsePlaces
  <1>3. c \in Hands(w) /\ c \in CursorConns(w)
    BY <1>1 DEF Hands, CursorConns
  <1>4. server # Holding(c)
    BY <1>2, <1>3, NotTheLock DEF PoolInv, HandsDiffer
  <1>5. server' = server
    BY <1>1, <1>4 DEF SessionEnds
  <1>6. lockConn \in [Jobs -> [got : BOOLEAN, conn : SUBSET Conns]]
    BY PoolShape DEF PoolInv
  <1> HIDE DEF c
  <1>7. /\ use' \in [Users -> UsePlaces] /\ use'[w] = NotUsing
        /\ \A v \in Users : v # w => use'[v] = use[v]
    BY <1>1, <1>2
  <1> QED
    BY <1>1, <1>2, <1>3, <1>4, <1>5, <1>6, <1>7, ConnectionReturns DEF c

LEMMA FailLockKeeps ==
    ASSUME PoolInv, NEW w \in Jobs, FailLock(w)
    PROVE  PoolInv'
  <1> DEFINE c == use[w].conn
  <1>0. w \in Users /\ use \in [Users -> UsePlaces] /\ NotUsing \in UsePlaces
        /\ lockConn \in [Jobs -> [got : BOOLEAN, conn : SUBSET Conns]]
        /\ NoLock \in [got : BOOLEAN, conn : SUBSET Conns]
    BY PoolShape DEF PoolInv, UsePlaces, NoLock
  <1>1. /\ use[w].at = "locking" /\ use' = [use EXCEPT ![w] = NotUsing]
        /\ lockConn' = [lockConn EXCEPT ![w] = NoLock]
        /\ used' = used \ {c} /\ free' \in {free, free \cup {c}} /\ dead' = dead \ {c}
        /\ server' \in {server, SessionEnds(c)}
    BY DEF FailLock, Release
  <1>2. c \in Conns
    BY <1>0, <1>1, UseFields
  <1>3. lockConn[w] = [got |-> FALSE, conn |-> {c}]
    BY <1>1 DEF PoolInv, JobsLock, JobLock
  <1>4. lockConn[w].conn = {c} /\ lockConn[w].got = FALSE /\ c \in Hands(w)
    BY <1>3 DEF Hands, LockConns
  <1>5. server # Holding(c)
    <2>1. [got |-> TRUE, conn |-> {c}].got = TRUE
      OBVIOUS
    <2> QED
      BY <1>0, <1>2, <1>4, <2>1, NotTheLock
  <1>6. server' = server
    BY <1>1, <1>5 DEF SessionEnds
  <1> HIDE DEF c
  <1>7. /\ use' \in [Users -> UsePlaces] /\ use'[w] = NotUsing
        /\ \A v \in Users : v # w => use'[v] = use[v]
        /\ lockConn' \in [Jobs -> [got : BOOLEAN, conn : SUBSET Conns]] /\ lockConn'[w] = NoLock
        /\ \A v \in Jobs : v # w => lockConn'[v] = lockConn[v]
    BY <1>0, <1>1
  <1> QED
    BY <1>0, <1>1, <1>2, <1>4, <1>5, <1>6, <1>7, ConnectionReturns

(* The end of a job's block, well or not. *)
LEMMA EndOfBlockKeeps ==
    ASSUME PoolInv, NEW w \in Jobs, Unlock(w) \/ FailUnlock(w)
    PROVE  PoolInv'
  <1>0. w \in Users /\ use \in [Users -> UsePlaces]
        /\ lockConn \in [Jobs -> [got : BOOLEAN, conn : SUBSET Conns]]
        /\ NoLock \in [got : BOOLEAN, conn : SUBSET Conns]
    BY PoolShape DEF PoolInv, NoLock
  <1>1. /\ use[w] = NotUsing /\ lockConn[w].got /\ use' = use
        /\ lockConn' = [lockConn EXCEPT ![w] = NoLock]
    BY DEF Unlock, FailUnlock
  <1>2. PICK c \in lockConn[w].conn :
            /\ used' = used \ {c} /\ free' \in {free, free \cup {c}} /\ dead' = dead \ {c}
            /\ server' = IF server = Holding(c) THEN Nobody ELSE server
    <2>1. CASE Unlock(w)
      <3>1. PICK c \in lockConn[w].conn :
                /\ c \notin dead /\ used' = used \ {c}
                /\ free' = (IF free # {} THEN free ELSE free \cup {c})
                /\ server' = IF server = Holding(c) THEN Nobody ELSE server
        BY <2>1 DEF Unlock
      <3>2. dead' = dead \ {c}
        BY <2>1, <3>1 DEF Unlock
      <3> QED
        BY <3>1, <3>2
    <2>2. CASE FailUnlock(w)
      BY <2>2 DEF FailUnlock, CloseLock, Release, Closes, SessionEnds
    <2> QED
      BY <2>1, <2>2
  <1>3. lockConn[w].conn = {c} /\ c \in Conns /\ c \in Hands(w)
    <2>1. lockConn[w] # NoLock
      BY <1>1 DEF PoolInv, JobsLock, JobLock
    <2>2. PICK d \in Conns : lockConn[w].conn = {d}
      BY <2>1 DEF PoolInv, JobsLock, JobLock
    <2> QED
      BY <1>2, <2>2 DEF Hands, LockConns
  <1>4. server' \in {server, Nobody} /\ server' # Holding(c)
    BY <1>2, HoldingIsOne
  <1>5. /\ use'[w] = NotUsing /\ use[w].at # "inside"
        /\ lockConn' \in [Jobs -> [got : BOOLEAN, conn : SUBSET Conns]] /\ lockConn'[w] = NoLock
        /\ \A v \in Jobs : v # w => lockConn'[v] = lockConn[v]
    BY <1>0, <1>1 DEF NotUsing
  <1> QED
    BY <1>0, <1>1, <1>2, <1>3, <1>4, <1>5, ConnectionReturns

LEMMA TryLockKeeps ==
    ASSUME PoolInv, NEW w \in Jobs, TryLock(w)
    PROVE  PoolInv'
  <1> USE DEF PoolInv
  <1> DEFINE c == use[w].conn
             l == [lockConn[w] EXCEPT !.got = TRUE]
  <1>0. w \in Users /\ use \in [Users -> UsePlaces] /\ NotUsing \in UsePlaces /\ NotUsing.at = "none"
        /\ lockConn \in [Jobs -> [got : BOOLEAN, conn : SUBSET Conns]] /\ Jobs \subseteq Users
    BY PoolShape DEF UsePlaces, NotUsing
  <1>1. /\ use[w].at = "locking" /\ use' = [use EXCEPT ![w] = NotUsing] /\ UNCHANGED <<used, free, dead>>
        /\ server \in {Nobody, Holding(c)} /\ server' = Holding(c)
        /\ lockConn' = [lockConn EXCEPT ![w].got = TRUE]
    BY DEF TryLock
  <1>2. c \in Conns
    BY <1>0, <1>1, UseFields
  <1>3. lockConn[w] = [got |-> FALSE, conn |-> {c}]
    BY <1>1 DEF JobsLock, JobLock
  <1>4. lockConn[w].conn = {c} /\ lockConn[w].got = FALSE
    BY <1>3
  <1>5. l \in [got : BOOLEAN, conn : SUBSET Conns] /\ l.conn = {c} /\ l.got = TRUE
    <2>1. lockConn[w] \in [got : BOOLEAN, conn : SUBSET Conns]
      BY <1>0
    <2> QED
      BY <1>4, <2>1
  <1>6. l = [got |-> TRUE, conn |-> {c}] /\ lockConn' = [lockConn EXCEPT ![w] = l]
    <2>1. lockConn' = [lockConn EXCEPT ![w] = l]
      BY <1>1
    <2>2. l = [got |-> TRUE, conn |-> {c}]
      <3> HIDE DEF c, l
      <3> QED
        BY <1>5
    <2> QED
      BY <2>1, <2>2
  <1> HIDE DEF c, l
  <1>7. /\ use'[w] = NotUsing /\ \A v \in Users : v # w => use'[v] = use[v]
        /\ lockConn'[w] = l /\ \A v \in Jobs : v # w => lockConn'[v] = lockConn[v]
    BY <1>0, <1>1, <1>6
  <1>8. PoolTypeOK'
    <2>1. use' \in [Users -> UsePlaces] /\ lockConn' \in [Jobs -> [got : BOOLEAN, conn : SUBSET Conns]]
      BY <1>0, <1>1, <1>5, <1>6
    <2> QED
      BY <1>1, <1>2, <2>1 DEF PoolTypeOK, UsePlaces
  <1>9. \A v \in Users : CursorConns(v)' = CursorConns(v) /\ LockConns(v)' = LockConns(v) /\ Hands(v)' = Hands(v)
    BY <1>0, <1>1, <1>4, <1>5, <1>7 DEF CursorConns, LockConns, Hands
  <1>10. HandsHoldUsed' /\ HandsDiffer'
    BY <1>1, <1>9 DEF HandsHoldUsed, HandsDiffer
  <1>11. JobsLock'
    <2> SUFFICES ASSUME NEW v \in Jobs
                 PROVE  JobLock(use'[v], lockConn'[v])
      BY DEF JobsLock
    <2>1. NoLock.got = FALSE
      BY DEF NoLock
    <2>2. JobLock(NotUsing, l)
      BY <1>0, <1>2, <1>5, <2>1 DEF JobLock
    <2>3. JobLock(use[v], lockConn[v]) /\ v \in Users
      BY <1>0 DEF JobsLock
    <2> QED
      BY <1>7, <2>2, <2>3
  <1>12. OnlyJobsLock'
    BY <1>0, <1>7 DEF OnlyJobsLock
  <1>13. LockIsHeld'
    BY <1>1, <1>6, <1>7, HoldingIsOne DEF LockIsHeld
  <1> QED
    BY <1>8, <1>10, <1>11, <1>12, <1>13

(* Nothing but the session lock, and what is known of dead connections, changes. *)
LEMMA ServerMoves ==
    ASSUME PoolInv, UNCHANGED <<used, free, use, lockConn>>, dead' \subseteq used \cup free,
           server' \in {server, Nobody, OtherProcess}
    PROVE  PoolInv'
  <1> USE DEF PoolInv
  <1>1. PoolTypeOK'
    BY DEF PoolTypeOK
  <1>2. \A v \in Users : CursorConns(v)' = CursorConns(v) /\ LockConns(v)' = LockConns(v) /\ Hands(v)' = Hands(v)
    BY DEF CursorConns, LockConns, Hands
  <1>3. HandsHoldUsed' /\ HandsDiffer' /\ JobsLock' /\ OnlyJobsLock'
    BY <1>2 DEF HandsHoldUsed, HandsDiffer, JobsLock, OnlyJobsLock
  <1>4. LockIsHeld'
    BY HoldingIsOne DEF LockIsHeld
  <1> QED
    BY <1>1, <1>3, <1>4

LEMMA PoolStep == PoolInv /\ [PoolNext]_poolVars => PoolInv'
  <1> SUFFICES ASSUME PoolInv, [PoolNext]_poolVars
               PROVE  PoolInv'
    OBVIOUS
  <1>0. /\ use \in [Users -> UsePlaces] /\ NotUsing \in UsePlaces /\ NotUsing.at = "none"
        /\ dead \subseteq used \cup free /\ Jobs \subseteq Users
        /\ \A s \in {"cursor", "again", "lock"} :
              Waits(s) \in UsePlaces /\ Waits(s).at = "waiting" /\ Waits(s).for = s
    BY PoolShape DEF PoolInv, PoolTypeOK, UsePlaces, NotUsing, Waits
  <1>1. CASE UNCHANGED poolVars
    BY <1>0, <1>1, ServerMoves DEF poolVars
  <1>2. ASSUME NEW w \in Users, BeginCursor(w)
        PROVE  PoolInv'
    <2>1. /\ use' = [use EXCEPT ![w] = Waits("cursor")] /\ UNCHANGED <<used, free, dead, server, lockConn>>
          /\ use[w].at = "none"
      BY <1>0, <1>2 DEF BeginCursor
    <2> QED
      BY <1>0, <2>1, ThreadMoves
  <1>3. ASSUME NEW w \in Users, Late(w)
        PROVE  PoolInv'
    <2>1. /\ use' = [use EXCEPT ![w] = [use[w] EXCEPT !.late = TRUE]]
          /\ UNCHANGED <<used, free, dead, server, lockConn>> /\ use[w].at = "waiting"
      BY <1>0, <1>3 DEF Late
    <2>2. use[w] \in [at : {"waiting"}, for : {"cursor", "again", "lock"}, late : BOOLEAN]
      BY <1>0, <2>1 DEF UsePlaces, NotUsing
    <2> DEFINE x == [use[w] EXCEPT !.late = TRUE]
    <2>3. x \in [at : {"waiting"}, for : {"cursor", "again", "lock"}, late : BOOLEAN] /\ x.for = use[w].for
      BY <2>2
    <2>4. x \in UsePlaces /\ x.at = "waiting"
      BY <2>3 DEF UsePlaces
    <2> HIDE DEF x
    <2>5. x.for = "lock" => w \in Jobs /\ lockConn[w] = NoLock
      BY <1>0, <2>1, <2>3 DEF PoolInv, OnlyJobsLock, JobsLock, JobLock
    <2>6. use' = [use EXCEPT ![w] = x]
      BY <2>1 DEF x
    <2> QED
      BY <1>0, <2>1, <2>4, <2>5, <2>6, ThreadMoves
  <1>4. ASSUME NEW w \in Users, GiveUp(w)
        PROVE  PoolInv'
    <2>1. use' = [use EXCEPT ![w] = NotUsing] /\ UNCHANGED <<used, free, dead, server, lockConn>> /\ use[w].at = "waiting"
      BY <1>4 DEF GiveUp
    <2> QED
      BY <1>0, <2>1, ThreadMoves
  <1>5. ASSUME NEW w \in Users, NEW c \in Conns, TakeClosed(w, c)
        PROVE  PoolInv'
    <2>1. /\ use' = [use EXCEPT ![w] = Waits("again")] /\ UNCHANGED <<used, server, lockConn>>
          /\ use[w].at = "waiting" /\ free' = free \ {c} /\ dead' = dead \ {c}
      BY <1>5 DEF TakeClosed, IsWaiting
    <2> QED
      BY <1>0, <2>1, ThreadMoves
  <1>6. ASSUME NEW w \in Users, OpenNested(w) \/ CloseNested(w)
        PROVE  PoolInv'
    <2>1. PICK n \in {use[w].depth + 1, use[w].depth - 1} :
              /\ use' = [use EXCEPT ![w] = [use[w] EXCEPT !.depth = n]]
              /\ n = use[w].depth + 1 => use[w].depth < MaxDepth
              /\ n = use[w].depth - 1 => use[w].depth > 0
      <3>0. use[w].at = "inside" => use[w].depth \in 0..MaxDepth
        BY <1>0, UseFields
      <3>1. CASE OpenNested(w)
        BY <3>0, <3>1, DepthAssumption DEF OpenNested
      <3>2. CASE CloseNested(w)
        BY <3>0, <3>2, DepthAssumption DEF CloseNested
      <3> QED
        BY <1>6, <3>1, <3>2
    <2>2. UNCHANGED <<used, free, dead, server, lockConn>> /\ use[w].at = "inside"
      BY <1>6 DEF OpenNested, CloseNested
    <2>3. use[w] \in [at : {"inside"}, conn : Conns, depth : 0..MaxDepth]
      BY <1>0, <2>2 DEF UsePlaces, NotUsing
    <2>4. n \in 0..MaxDepth
      BY <2>1, <2>3, DepthAssumption
    <2> DEFINE x == [use[w] EXCEPT !.depth = n]
    <2>5. x \in [at : {"inside"}, conn : Conns, depth : 0..MaxDepth] /\ x.conn = use[w].conn
      BY <2>3, <2>4
    <2>6. x \in UsePlaces /\ x.at = "inside"
      BY <2>5 DEF UsePlaces
    <2>7. use' = [use EXCEPT ![w] = x]
      BY <2>1
    <2> HIDE DEF x
    <2> QED
      BY <1>0, <2>2, <2>5, <2>6, <2>7, ThreadMoves
  <1>7. ASSUME NEW w \in Jobs, BeginLock(w)
        PROVE  PoolInv'
    <2>1. /\ use' = [use EXCEPT ![w] = Waits("lock")] /\ UNCHANGED <<used, free, dead, server, lockConn>>
          /\ use[w].at = "none" /\ lockConn[w] = NoLock /\ w \in Users
      BY <1>0, <1>7 DEF BeginLock
    <2> QED
      BY <1>0, <2>1, ThreadMoves
  <1>8. ASSUME NEW c \in Conns, DropConnection(c)
        PROVE  PoolInv'
    <2>1. /\ dead' = dead \cup {c} /\ c \in used \cup free /\ server' \in {server, Nobody}
          /\ UNCHANGED <<used, free, use, lockConn>>
      BY <1>8 DEF DropConnection, SessionEnds
    <2> QED
      BY <1>0, <2>1, ServerMoves
  <1>9. CASE OtherLocks \/ OtherUnlocks
    BY <1>0, <1>9, ServerMoves DEF OtherLocks, OtherUnlocks
  <1> QED
    BY <1>1, <1>2, <1>3, <1>4, <1>5, <1>6, <1>7, <1>8, <1>9,
       TakeForCursorKeeps, TakeForLockKeeps, EndCursorKeeps, FailLockKeeps, EndOfBlockKeeps, TryLockKeeps
       DEF PoolNext, Try

(* cursor() and advisory_lock() (app/db.py): for any pool, threads and jobs, whatever connections are dropped, *)
(* no connection is lost to the pool or in two hands, and none goes back with the session lock on it.           *)
THEOREM ConnectionsComeBack == PoolSpec => []LocksComeBack
  <1> QED
    BY PoolStart, PoolStep, LocksAreBack, PTL DEF PoolSpec

-----------------------------------------------------------------------------
(***************************************************************************)
(* Daily reports: a batch is announced once.                               *)
(***************************************************************************)

Papers == SUBSET (People \cup {Pending})
Messages == [times : 0..1, of : Papers, lost : BOOLEAN]

ReportsShape == ReportsTypeOK /\ sent \in [ReportingDays \X Batches -> Messages]

(* The lock is with the one copy that is building; what it builds is not recorded yet. *)
BuilderHasLock ==
    /\ \A c \in Copies : c \in lockedBy <=> Thread(c, "built")
    /\ \A c, d \in lockedBy : c = d
    /\ \A c \in Copies : Thread(c, "built") => Run(c) \notin runs

(* What a copy is about to announce is recorded, stored, unannounced, and its own. *)
SenderHasBatch ==
    /\ \A c \in Copies : Thread(c, "sending") =>
          /\ Run(c) \in runs /\ sent[Run(c)].times = 0
          /\ \A p \in job[c].reports : <<job[c].day, job[c].batch, p>> \in stored
    /\ \A c, d \in Copies : Thread(c, "sending") /\ Thread(d, "sending") /\ Run(c) = Run(d) => c = d

ReportsInv == ReportsShape /\ BuilderHasLock /\ SenderHasBatch /\ BatchesAreSentOnce

LEMMA PlaceFields ==
    ASSUME NEW x \in {Asleep} \cup Places
    PROVE  /\ x.at \in {"asleep", "trying", "built", "sending"}
           /\ x.at = "asleep" <=> x = Asleep
           /\ x.at # "asleep" => x.day \in ReportingDays /\ x.due \in Batches /\ x.batch \in Batches
           /\ x.at \in {"built", "sending"} => x.reports \in Papers
  BY DEF Places, Asleep, Papers

LEMMA ReportsStart == ReportsInit => ReportsInv
  <1> SUFFICES ASSUME ReportsInit
               PROVE  ReportsInv
    OBVIOUS
  <1>1. NoMessage \in Messages /\ NoMessage.times = 0
    BY DEF NoMessage, Messages, Papers
  <1>2. ReportsShape
    <2>1. clock \in [day : ReportingDays, due : 0..2]
      BY LastReportDayAssumption DEF ReportsInit, ReportingDays
    <2>2. sent \in [ReportingDays \X Batches -> Messages]
      BY <1>1 DEF ReportsInit
    <2> QED
      BY <2>1, <2>2, FailuresAssumption DEF ReportsInit, ReportsShape, ReportsTypeOK
  <1>3. \A c \in Copies : job[c].at = "asleep"
    BY DEF ReportsInit, Asleep
  <1>4. BuilderHasLock /\ SenderHasBatch
    BY <1>3 DEF ReportsInit, BuilderHasLock, SenderHasBatch, Thread
  <1>5. BatchesAreSentOnce
    <2>1. \A r \in ReportingDays \X Batches : sent[r].times = 0 /\ r \notin runs
      BY <1>1 DEF ReportsInit
    <2> QED
      BY <2>1 DEF BatchesAreSentOnce
  <1> QED
    BY <1>2, <1>4, <1>5 DEF ReportsInv

(* The clock, a delivery, a rebuild: the threads, the runs and the messages stay, the reports only grow. *)
LEMMA DayGoesOn ==
    ASSUME ReportsInv, UNCHANGED <<runs, job, lockedBy, sent, failures>>,
           clock' \in [day : ReportingDays, due : 0..2],
           delivered' \in [ReportingDays -> SUBSET People],
           stored' \subseteq ReportingDays \X Batches \X (People \cup {Pending}), stored \subseteq stored'
    PROVE  ReportsInv'
  <1> USE DEF ReportsInv
  <1>1. ReportsShape'
    BY DEF ReportsShape, ReportsTypeOK
  <1>2. \A c \in Copies : Run(c)' = Run(c) /\ \A s : Thread(c, s)' = Thread(c, s)
    BY DEF Run, Thread
  <1>3. BuilderHasLock'
    BY <1>2 DEF BuilderHasLock
  <1>4. SenderHasBatch'
    BY <1>2 DEF SenderHasBatch
  <1>5. BatchesAreSentOnce'
    BY <1>2 DEF BatchesAreSentOnce
  <1> QED
    BY <1>1, <1>3, <1>4, <1>5

(* A thread that sends nothing moves to where it has nothing to send. *)
LEMMA ThreadSteps ==
    ASSUME ReportsInv, NEW c \in Copies, NEW x \in {Asleep} \cup Places,
           job' = [job EXCEPT ![c] = x], x.at \notin {"built", "sending"},
           ~Thread(c, "sending"), lockedBy' = lockedBy \ {c},
           UNCHANGED <<clock, delivered, stored, runs, sent>>, failures' \in 0..MaxFailures
    PROVE  ReportsInv'
  <1> USE DEF ReportsInv
  <1>1. ReportsShape'
    BY DEF ReportsShape, ReportsTypeOK
  <1>2. /\ job'[c] = x /\ \A d \in Copies : d # c => job'[d] = job[d]
        /\ \A s \in {"built", "sending"} : ~Thread(c, s)'
        /\ \A d \in Copies : d # c => Run(d)' = Run(d) /\ \A s : Thread(d, s)' = Thread(d, s)
    BY DEF ReportsShape, ReportsTypeOK, Run, Thread
  <1>3. BuilderHasLock'
    BY <1>2 DEF BuilderHasLock
  <1>4. SenderHasBatch'
    BY <1>2 DEF SenderHasBatch
  <1>5. BatchesAreSentOnce'
    BY <1>2 DEF BatchesAreSentOnce
  <1> QED
    BY <1>1, <1>3, <1>4, <1>5

(* A batch is announced, or its message lost: by the one copy that had it to announce. *)
LEMMA MessageGoes ==
    ASSUME ReportsInv, NEW c \in Copies, Thread(c, "sending"), lockedBy' = lockedBy \ {c},
           job' \in [Copies -> {Asleep} \cup Places], job'[c].at \notin {"built", "sending"},
           \A d \in Copies : d # c => job'[d] = job[d],
           sent' \in [ReportingDays \X Batches -> Messages],
           \A r \in ReportingDays \X Batches : r # Run(c) => sent'[r] = sent[r],
           \/ sent'[Run(c)].times = 1 /\ sent'[Run(c)].of = job[c].reports
           \/ sent'[Run(c)].times = 0 /\ sent'[Run(c)].lost = TRUE,
           UNCHANGED <<clock, delivered, stored, runs>>, failures' \in 0..MaxFailures
    PROVE  ReportsInv'
  <1> USE DEF ReportsInv
  <1>0. Run(c) \in runs /\ runs \subseteq ReportingDays \X Batches
    BY DEF SenderHasBatch, ReportsShape, ReportsTypeOK
  <1>1. ReportsShape'
    BY DEF ReportsShape, ReportsTypeOK
  <1>2. /\ \A s \in {"built", "sending"} : ~Thread(c, s)'
        /\ \A d \in Copies : d # c => Run(d)' = Run(d) /\ \A s : Thread(d, s)' = Thread(d, s)
    BY DEF Run, Thread
  <1>3. BuilderHasLock'
    BY <1>2 DEF BuilderHasLock
  <1>4. SenderHasBatch'
    BY <1>0, <1>2 DEF SenderHasBatch
  <1>5. BatchesAreSentOnce'
    <2> SUFFICES ASSUME NEW r \in ReportingDays \X Batches
                 PROVE  /\ sent'[r].times <= 1
                        /\ sent'[r].times = 1 => r \in runs /\ \A p \in sent'[r].of : <<r[1], r[2], p>> \in stored
                        /\ r \in runs => \/ sent'[r].times = 1 \/ sent'[r].lost
                                         \/ \E d \in Copies : Thread(d, "sending")' /\ Run(d)' = r
      BY DEF BatchesAreSentOnce
    <2>1. CASE r = Run(c)
      <3>1. r[1] = job[c].day /\ r[2] = job[c].batch
        BY <2>1 DEF Run
      <3>2. \A p \in job[c].reports : <<r[1], r[2], p>> \in stored
        BY <3>1 DEF SenderHasBatch
      <3> QED
        BY <1>0, <2>1, <3>2
    <2>2. CASE r # Run(c)
      BY <1>2, <2>2 DEF BatchesAreSentOnce
    <2> QED
      BY <2>1, <2>2
  <1> QED
    BY <1>1, <1>3, <1>4, <1>5

LEMMA BuildBatchKeeps ==
    ASSUME ReportsInv, NEW c \in Copies, BuildBatch(c)
    PROVE  ReportsInv'
  <1> USE DEF ReportsInv
  <1> DEFINE x == [at |-> "built", day |-> job[c].day, due |-> job[c].due, batch |-> job[c].batch,
                   reports |-> Reports(job[c].day, job[c].batch)]
  <1>1. /\ job[c].at = "trying" /\ lockedBy = {} /\ lockedBy' = {c} /\ Run(c) \notin runs
        /\ job' = [job EXCEPT ![c] = x] /\ UNCHANGED <<clock, delivered, stored, runs, sent, failures>>
    BY DEF BuildBatch, Thread
  <1>2. job[c].day \in ReportingDays /\ job[c].due \in Batches /\ job[c].batch \in Batches
    BY <1>1, PlaceFields DEF ReportsShape, ReportsTypeOK
  <1>3. Reports(job[c].day, job[c].batch) \in Papers
    BY <1>2 DEF Reports, Papers, ReportsShape, ReportsTypeOK
  <1>4. x \in Places /\ x.at = "built" /\ <<x.day, x.batch>> = Run(c)
    BY <1>2, <1>3 DEF Places, Papers, Run
  <1> HIDE DEF x
  <1>5. ReportsShape'
    BY <1>1, <1>4 DEF ReportsShape, ReportsTypeOK
  <1>6. /\ job'[c] = x /\ \A d \in Copies : d # c => job'[d] = job[d]
        /\ Thread(c, "built")' /\ ~Thread(c, "sending")' /\ Run(c)' = Run(c)
        /\ \A d \in Copies : d # c => Run(d)' = Run(d) /\ \A s : Thread(d, s)' = Thread(d, s)
    BY <1>1, <1>4 DEF ReportsShape, ReportsTypeOK, Run, Thread
  <1>7. ~Thread(c, "sending")
    BY <1>1 DEF Thread
  <1>8. BuilderHasLock'
    BY <1>1, <1>6 DEF BuilderHasLock
  <1>9. SenderHasBatch'
    BY <1>1, <1>6 DEF SenderHasBatch
  <1>10. BatchesAreSentOnce'
    BY <1>1, <1>6, <1>7 DEF BatchesAreSentOnce
  <1> QED
    BY <1>5, <1>8, <1>9, <1>10

LEMMA CommitBatchKeeps ==
    ASSUME ReportsInv, NEW c \in Copies, CommitBatch(c)
    PROVE  ReportsInv'
  <1> USE DEF ReportsInv
  <1> DEFINE x == [job[c] EXCEPT !.at = "sending"]
  <1>1. /\ job[c].at = "built" /\ lockedBy' = {} /\ runs' = runs \cup {Run(c)}
        /\ stored' = stored \cup {<<job[c].day, job[c].batch, p>> : p \in job[c].reports}
        /\ job' = [job EXCEPT ![c] = x] /\ UNCHANGED <<clock, delivered, sent, failures>>
    BY DEF CommitBatch, Thread, SendLater
  <1>2. job[c] \in [at : {"built", "sending"}, day : ReportingDays, due : Batches, batch : Batches,
                    reports : SUBSET (People \cup {Pending})]
    BY <1>1 DEF ReportsShape, ReportsTypeOK, Places, Asleep
  <1>3. x \in Places /\ x.at = "sending" /\ x.day = job[c].day /\ x.batch = job[c].batch /\ x.reports = job[c].reports
    BY <1>2 DEF Places
  <1> HIDE DEF x
  <1>4. Run(c) \in ReportingDays \X Batches /\ Run(c) \notin runs
    BY <1>1, <1>2 DEF Run, BuilderHasLock, Thread
  <1>5. ReportsShape'
    <2>1. stored' \subseteq ReportingDays \X Batches \X (People \cup {Pending})
      BY <1>1, <1>2 DEF ReportsShape, ReportsTypeOK
    <2> QED
      BY <1>1, <1>3, <1>4, <2>1 DEF ReportsShape, ReportsTypeOK
  <1>6. /\ job'[c] = x /\ \A d \in Copies : d # c => job'[d] = job[d]
        /\ ~Thread(c, "built")' /\ Thread(c, "sending")' /\ Run(c)' = Run(c)
        /\ \A d \in Copies : d # c => Run(d)' = Run(d) /\ \A s : Thread(d, s)' = Thread(d, s)
    BY <1>1, <1>3 DEF ReportsShape, ReportsTypeOK, Run, Thread
  <1>7. \A d \in Copies : Thread(d, "built") => d = c
    BY <1>1 DEF BuilderHasLock, Thread
  <1>8. BuilderHasLock'
    BY <1>1, <1>6, <1>7 DEF BuilderHasLock
  <1>9. sent[Run(c)].times = 0
    <2>1. sent[Run(c)] \in Messages
      BY <1>4 DEF ReportsShape
    <2>2. sent[Run(c)].times # 1
      BY <1>4 DEF BatchesAreSentOnce
    <2> QED
      BY <2>1, <2>2 DEF Messages
  <1>10. SenderHasBatch'
    <2>1. \A d \in Copies : d # c /\ Thread(d, "sending") => Run(d) # Run(c)
      BY <1>4 DEF SenderHasBatch
    <2>2. \A d \in Copies : Thread(d, "sending")' =>
              /\ Run(d)' \in runs' /\ sent'[Run(d)'].times = 0
              /\ \A p \in job'[d].reports : <<job'[d].day, job'[d].batch, p>> \in stored'
      <3> TAKE d \in Copies
      <3>1. CASE d = c
        BY <1>1, <1>3, <1>6, <1>9, <3>1
      <3>2. CASE d # c
        BY <1>1, <1>6, <3>2 DEF SenderHasBatch
      <3> QED
        BY <3>1, <3>2
    <2> QED
      BY <1>1, <1>6, <2>1, <2>2 DEF SenderHasBatch
  <1>11. BatchesAreSentOnce'
    <2> SUFFICES ASSUME NEW r \in ReportingDays \X Batches
                 PROVE  /\ sent[r].times <= 1
                        /\ sent[r].times = 1 => r \in runs' /\ \A p \in sent[r].of : <<r[1], r[2], p>> \in stored'
                        /\ r \in runs' => \/ sent[r].times = 1 \/ sent[r].lost
                                          \/ \E d \in Copies : Thread(d, "sending")' /\ Run(d)' = r
      BY <1>1 DEF BatchesAreSentOnce
    <2>1. ~Thread(c, "sending")
      BY <1>1 DEF Thread
    <2> QED
      BY <1>1, <1>6, <2>1 DEF BatchesAreSentOnce
  <1> QED
    BY <1>5, <1>8, <1>10, <1>11

LEMMA NextPlace ==
    ASSUME ReportsShape, NEW c \in Copies, job[c].at # "asleep"
    PROVE  NextBatch(c) \in {Asleep} \cup Places /\ NextBatch(c).at \notin {"built", "sending"}
  <1>1. job[c].day \in ReportingDays /\ job[c].due \in {1, 2} /\ job[c].batch \in {1, 2}
    BY PlaceFields DEF ReportsShape, ReportsTypeOK, Batches
  <1>2. CASE job[c].batch < job[c].due
    <2>1. job[c].batch + 1 \in Batches /\ job[c].due \in Batches
      BY <1>1, <1>2 DEF Batches
    <2> QED
      BY <1>1, <1>2, <2>1 DEF NextBatch, Places
  <1>3. CASE ~(job[c].batch < job[c].due)
    BY <1>3 DEF NextBatch, Asleep
  <1> QED
    BY <1>2, <1>3

LEMMA MessageIsLost ==
    ASSUME sent \in [ReportingDays \X Batches -> Messages], NEW c \in Copies,
           Run(c) \in ReportingDays \X Batches, sent[Run(c)].times = 0,
           sent' = [sent EXCEPT ![Run(c)].lost = TRUE]
    PROVE  /\ sent' \in [ReportingDays \X Batches -> Messages]
           /\ \A r \in ReportingDays \X Batches : r # Run(c) => sent'[r] = sent[r]
           /\ sent'[Run(c)].times = 0 /\ sent'[Run(c)].lost = TRUE
  <1> DEFINE m == [sent[Run(c)] EXCEPT !.lost = TRUE]
  <1>1. sent[Run(c)] \in [times : 0..1, of : Papers, lost : BOOLEAN]
    BY DEF Messages
  <1>2. m \in [times : 0..1, of : Papers, lost : BOOLEAN] /\ m.times = 0 /\ m.lost = TRUE
    BY <1>1
  <1>3. sent' = [sent EXCEPT ![Run(c)] = m]
    OBVIOUS
  <1>4. m \in Messages
    BY <1>2 DEF Messages
  <1> HIDE DEF m
  <1>5. sent' \in [ReportingDays \X Batches -> Messages] /\ sent'[Run(c)] = m
    BY <1>3, <1>4
  <1> QED
    BY <1>2, <1>3, <1>5

LEMMA ReportsStep == ReportsInv /\ [ReportsNext]_reportVars => ReportsInv'
  <1> SUFFICES ASSUME ReportsInv, [ReportsNext]_reportVars
               PROVE  ReportsInv'
    OBVIOUS
  <1>0. /\ job \in [Copies -> {Asleep} \cup Places] /\ lockedBy \subseteq Copies /\ failures \in 0..MaxFailures
        /\ clock \in [day : ReportingDays, due : 0..2] /\ delivered \in [ReportingDays -> SUBSET People]
        /\ stored \subseteq ReportingDays \X Batches \X (People \cup {Pending})
        /\ Asleep.at = "asleep" /\ ReportsShape /\ SenderHasBatch
        /\ sent \in [ReportingDays \X Batches -> Messages]
        /\ \A c \in Copies : c \in lockedBy <=> Thread(c, "built")
    BY DEF ReportsInv, ReportsShape, ReportsTypeOK, Asleep, BuilderHasLock
  <1>1. CASE UNCHANGED reportVars
    BY <1>0, <1>1, DayGoesOn DEF reportVars
  <1>2. CASE ClockMoves
    <2>1. clock' \in [day : ReportingDays, due : 0..2]
      BY <1>0, <1>2, LastReportDayAssumption DEF ClockMoves, ReportingDays
    <2> QED
      BY <1>0, <1>2, <2>1, DayGoesOn DEF ClockMoves
  <1>3. ASSUME NEW p \in People, DeliveryChanges(p)
        PROVE  ReportsInv'
    <2>1. delivered' \in [ReportingDays -> SUBSET People]
      BY <1>0, <1>3 DEF DeliveryChanges
    <2> QED
      BY <1>0, <1>3, <2>1, DayGoesOn DEF DeliveryChanges
  <1>4. ASSUME NEW c \in Copies, Wake(c)
        PROVE  ReportsInv'
    <2> DEFINE x == [at |-> "trying", day |-> clock.day, due |-> clock.due, batch |-> 1]
    <2>1. /\ job[c] = Asleep /\ job' = [job EXCEPT ![c] = x] /\ clock.due > 0
          /\ UNCHANGED <<clock, delivered, stored, runs, lockedBy, sent, failures>>
      BY <1>4 DEF Wake
    <2>2. clock.due \in Batches /\ clock.day \in ReportingDays /\ 1 \in Batches
      BY <1>0, <2>1 DEF Batches
    <2>3. x \in Places /\ x.at = "trying"
      BY <2>2 DEF Places
    <2>4. ~Thread(c, "sending") /\ c \notin lockedBy
      BY <1>0, <2>1 DEF Thread
    <2> HIDE DEF x
    <2> QED
      BY <1>0, <2>1, <2>3, <2>4, ThreadSteps
  <1>5. ASSUME NEW c \in Copies, LeaveToOther(c)
        PROVE  ReportsInv'
    <2>1. job[c].at = "trying" /\ ~Thread(c, "sending") /\ c \notin lockedBy
      BY <1>0, <1>5 DEF LeaveToOther, Thread
    <2> QED
      BY <1>0, <1>5, <2>1, ThreadSteps DEF LeaveToOther
  <1>6. ASSUME NEW c \in Copies, SkipDone(c)
        PROVE  ReportsInv'
    <2>1. job[c].at = "trying" /\ ~Thread(c, "sending") /\ c \notin lockedBy
      BY <1>0, <1>6 DEF SkipDone, Thread
    <2>2. NextBatch(c) \in {Asleep} \cup Places /\ NextBatch(c).at \notin {"built", "sending"}
      BY <1>0, <2>1, NextPlace
    <2> QED
      BY <1>0, <1>6, <2>1, <2>2, ThreadSteps DEF SkipDone, AfterDone
  <1>7. ASSUME NEW c \in Copies, FailBatch(c)
        PROVE  ReportsInv'
    <2>1. /\ Thread(c, "built") /\ lockedBy' = {} /\ job' = [job EXCEPT ![c] = Asleep]
          /\ failures' \in 0..MaxFailures /\ UNCHANGED <<clock, delivered, stored, runs, sent>>
      BY <1>0, <1>7, FailuresAssumption DEF FailBatch, SendLater
    <2>2. lockedBy' = lockedBy \ {c}
      BY <1>0, <2>1 DEF ReportsInv, BuilderHasLock
    <2>3. ~Thread(c, "sending")
      BY <2>1 DEF Thread
    <2> QED
      BY <1>0, <2>1, <2>2, <2>3, ThreadSteps
  <1>8. ASSUME NEW c \in Copies, Thread(c, "sending")
        PROVE  /\ Run(c) \in ReportingDays \X Batches /\ c \notin lockedBy /\ job[c].at # "asleep"
               /\ sent[Run(c)] \in Messages /\ sent[Run(c)].times = 0 /\ job[c].reports \in Papers
    <2>1. job[c].at = "sending" /\ c \notin lockedBy
      BY <1>0, <1>8 DEF Thread
    <2>2. job[c].reports \in Papers
      BY <1>0, <2>1, PlaceFields
    <2>3. Run(c) \in ReportingDays \X Batches /\ sent[Run(c)].times = 0
      BY <1>8 DEF ReportsInv, ReportsShape, ReportsTypeOK, SenderHasBatch
    <2>4. sent[Run(c)] \in Messages
      BY <1>0, <2>3
    <2> QED
      BY <2>1, <2>2, <2>3, <2>4
  <1>9. ASSUME NEW c \in Copies, SendBatch(c)
        PROVE  ReportsInv'
    <2>1. /\ Thread(c, "sending") /\ job' = [job EXCEPT ![c] = NextBatch(c)]
          /\ UNCHANGED <<clock, delivered, stored, runs, lockedBy>> /\ lockedBy' = lockedBy \ {c}
          /\ failures' \in 0..MaxFailures
      <3>1. /\ Thread(c, "sending") /\ job' = [job EXCEPT ![c] = NextBatch(c)]
            /\ UNCHANGED <<clock, delivered, stored, runs, lockedBy>>
            /\ failures' = failures \/ (failures < MaxFailures /\ failures' = failures + 1)
        BY <1>9 DEF SendBatch
      <3>2. failures' \in 0..MaxFailures
        BY <1>0, <3>1, FailuresAssumption
      <3> QED
        BY <1>8, <3>1, <3>2
    <2>2. NextBatch(c) \in {Asleep} \cup Places /\ NextBatch(c).at \notin {"built", "sending"}
      BY <1>0, <1>8, <2>1, NextPlace
    <2>3. job' \in [Copies -> {Asleep} \cup Places] /\ job'[c] = NextBatch(c)
          /\ \A d \in Copies : d # c => job'[d] = job[d]
      BY <1>0, <2>1, <2>2
    <2>4. CASE sent' = Announced(c)
      <3> DEFINE m == [times |-> sent[Run(c)].times + 1, of |-> job[c].reports, lost |-> sent[Run(c)].lost]
      <3>1. sent[Run(c)].times = 0 /\ sent[Run(c)] \in Messages /\ job[c].reports \in Papers
        BY <1>8, <2>1
      <3>2. sent[Run(c)].lost \in BOOLEAN /\ sent[Run(c)].times + 1 = 1
        BY <3>1 DEF Messages
      <3>3. m \in Messages /\ m.times = 1 /\ m.of = job[c].reports
        BY <3>1, <3>2 DEF Messages
      <3>4. sent' = [sent EXCEPT ![Run(c)] = m]
        BY <2>4 DEF Announced
      <3> HIDE DEF m
      <3>5. /\ sent' \in [ReportingDays \X Batches -> Messages] /\ sent'[Run(c)] = m
            /\ \A r \in ReportingDays \X Batches : r # Run(c) => sent'[r] = sent[r]
        BY <1>0, <1>8, <2>1, <3>3, <3>4
      <3> QED
        BY <2>1, <2>2, <2>3, <3>3, <3>5, MessageGoes
    <2>5. CASE sent' = [sent EXCEPT ![Run(c)].lost = TRUE]
      <3>1. /\ sent' \in [ReportingDays \X Batches -> Messages]
            /\ \A r \in ReportingDays \X Batches : r # Run(c) => sent'[r] = sent[r]
            /\ sent'[Run(c)].times = 0 /\ sent'[Run(c)].lost = TRUE
        BY <1>0, <1>8, <2>1, <2>5, MessageIsLost
      <3> QED
        BY <2>1, <2>2, <2>3, <3>1, MessageGoes
    <2> QED
      BY <1>9, <2>4, <2>5 DEF SendBatch
  <1>10. ASSUME NEW c \in Copies, RestartService(c)
         PROVE  ReportsInv'
    <2>1. /\ job' = [job EXCEPT ![c] = Asleep] /\ lockedBy' = lockedBy \ {c}
          /\ UNCHANGED <<clock, delivered, stored, runs>> /\ failures' \in 0..MaxFailures
          /\ sent' = IF Thread(c, "sending") THEN [sent EXCEPT ![Run(c)].lost = TRUE] ELSE sent
      BY <1>0, <1>10, FailuresAssumption DEF RestartService
    <2>2. CASE ~Thread(c, "sending")
      BY <1>0, <2>1, <2>2, ThreadSteps
    <2>3. CASE Thread(c, "sending")
      <3>1. job' \in [Copies -> {Asleep} \cup Places] /\ job'[c] = Asleep
            /\ \A d \in Copies : d # c => job'[d] = job[d]
        BY <1>0, <2>1
      <3> QED
        BY <1>0, <1>8, <2>1, <2>3, <3>1, MessageIsLost, MessageGoes
    <2> QED
      BY <2>2, <2>3
  <1>11. ASSUME NEW day \in ReportingDays, GenerateNow(day)
         PROVE  ReportsInv'
    <2>1. /\ UNCHANGED <<clock, delivered, runs, job, lockedBy, sent, failures>> /\ stored \subseteq stored'
          /\ stored' \subseteq ReportingDays \X Batches \X (People \cup {Pending})
      BY <1>0, <1>11 DEF GenerateNow
    <2> QED
      BY <1>0, <2>1, DayGoesOn
  <1> QED
    BY <1>1, <1>2, <1>3, <1>4, <1>5, <1>6, <1>7, <1>9, <1>10, <1>11, BuildBatchKeeps, CommitBatchKeeps
       DEF ReportsNext, ReportStep

(* run_if_due (app/daily_reports.py): for any copies, people and days, whatever is restarted or fails, a batch *)
(* is announced at most once, only when recorded, and only with reports that can be downloaded.                *)
THEOREM AnnouncedOnce == ReportsSpec => []BatchesAreSentOnce
  <1>1. ReportsInv => BatchesAreSentOnce
    BY DEF ReportsInv
  <1> QED
    BY <1>1, ReportsStart, ReportsStep, PTL DEF ReportsSpec

-----------------------------------------------------------------------------
(***************************************************************************)
(* Uploads with old numbers: the next number is free.                      *)
(***************************************************************************)

ClosedUploads == [at : {"waiting", "imported", "undone"}]
OpenUploads ==
    [at : {"inserting", "moved", "ending"}, done : SUBSET RowNumbers, left : SUBSET RowNumbers, fresh : Int]
    \cup [at : {"numbered"}, done : SUBSET RowNumbers, left : SUBSET RowNumbers, fresh : Int, no : RowNumbers]
Inserts == {NoInsert} \cup [at : {"inserting", "inserted"}, no : RowNumbers]

UploadsShape ==
    /\ Used \subseteq RowNumbers /\ sequence \in Nat
    /\ form \in [Forms -> Inserts]
    /\ upload \in [UploadFiles -> ClosedUploads \cup OpenUploads]
    /\ raced \in BOOLEAN

(* What is committed, what a form has taken, and what an upload is about to commit. *)
BelowSequence ==
    /\ \A n \in Used : n <= sequence
    /\ \A f \in Forms : form[f] # NoInsert => form[f].no <= sequence
    /\ \A u \in UploadFiles : upload[u].at = "ending" => \A n \in upload[u].done : n <= sequence

UploadsInv == UploadsShape /\ (raced = FALSE => BelowSequence)

LEMMA NumbersAreFree == UploadsInv => NextNumberIsFree
  <1> SUFFICES ASSUME UploadsInv, ~raced, NEW n \in Used \cup OpenForms
               PROVE  n <= sequence
    BY DEF NextNumberIsFree
  <1>1. raced = FALSE
    BY DEF UploadsInv, UploadsShape
  <1>2. BelowSequence
    BY <1>1 DEF UploadsInv
  <1>3. CASE n \in Used
    BY <1>2, <1>3 DEF BelowSequence
  <1>4. CASE n \in OpenForms
    <2>1. PICK f \in Forms : form[f].at = "inserted" /\ n = form[f].no
      BY <1>4 DEF OpenForms
    <2>2. form[f] # NoInsert
      BY <2>1 DEF NoInsert
    <2> QED
      BY <1>2, <2>1, <2>2 DEF BelowSequence
  <1> QED
    BY <1>3, <1>4

(* A set of numbers has a highest, and Max is it. *)
LEMMA HighestNumber ==
    ASSUME NEW S \in SUBSET RowNumbers, S # {}
    PROVE  Max(S) \in S /\ \A n \in S : n <= Max(S)
  <1> USE MaxRowNumberAssumption
  <1> DEFINE B == {b \in Nat : \A n \in S : n <= b}
  <1>1. MaxRowNumber \in B /\ B \in SUBSET Nat
    BY DEF RowNumbers
  <1>2. PICK b \in B : \A a \in B : b <= a
    <2> DEFINE R == OpToRel(<, Nat)
    <2>1. \A x, y \in Nat : <<x, y>> \in R <=> x < y
      BY DEF OpToRel
    <2>2. IsWellFoundedOn(R, Nat)
      BY NatLessThanWellFounded
    <2> HIDE DEF R
    <2>3. PICK b \in B : \A a \in B : <<a, b>> \notin R
      <3> HIDE DEF B
      <3> QED
        BY <1>1, <2>2, WFMin
    <2>4. \A a \in B : b <= a
      <3> TAKE a \in B
      <3>1. a \in Nat /\ b \in Nat
        OBVIOUS
      <3>2. ~(a < b)
        BY <2>1, <2>3, <3>1
      <3> QED
        BY <3>1, <3>2
    <2> QED
      BY <2>4
  <1>3. b \in S
    <2> SUFFICES ASSUME b \notin S
                 PROVE  FALSE
      OBVIOUS
    <2>1. \A n \in S : n \in Nat /\ n # 0 /\ n <= b /\ n # b
      BY <1>2 DEF RowNumbers
    <2>2. b - 1 \in Nat /\ \A n \in S : n <= b - 1
      BY <1>2, <2>1
    <2>3. b - 1 \in B
      BY <2>2
    <2> QED
      BY <1>2, <2>3
  <1>4. b \in S /\ \A n \in S : b >= n
    BY <1>2, <1>3 DEF RowNumbers
  <1>5. \E x \in S : \A y \in S : x >= y
    BY <1>4
  <1> DEFINE m == Max(S)
  <1>6. m \in S /\ \A y \in S : m >= y
    <2> DEFINE P(x) == x \in S /\ \A y \in S : x >= y
    <2>1. m = CHOOSE x \in S : \A y \in S : x >= y
      BY DEF Max
    <2> HIDE DEF m
    <2> QED
      BY <1>5, <2>1, Zenon
  <1> QED
    BY <1>6 DEF RowNumbers

LEMMA LastIsHighest ==
    ASSUME UploadsShape, NEW u \in UploadFiles, upload[u] \in OpenUploads
    PROVE  Last(u) \in Nat /\ \A n \in Visible(u) : n <= Last(u)
  <1>1. Visible(u) \in SUBSET RowNumbers
    BY DEF UploadsShape, Visible, Own, OpenUploads
  <1>2. CASE Visible(u) = {}
    BY <1>2 DEF Last
  <1>3. CASE Visible(u) # {}
    <2>1. Last(u) = Max(Visible(u))
      BY <1>3 DEF Last
    <2>2. Max(Visible(u)) \in Visible(u) /\ \A n \in Visible(u) : n <= Max(Visible(u))
      BY <1>1, <1>3, HighestNumber
    <2> QED
      BY <1>1, <2>1, <2>2 DEF RowNumbers
  <1> QED
    BY <1>2, <1>3

LEMMA UploadFields ==
    ASSUME NEW x \in ClosedUploads \cup OpenUploads
    PROVE  /\ x \in OpenUploads <=> x.at \in {"inserting", "moved", "numbered", "ending"}
           /\ x \in OpenUploads => x.done \subseteq RowNumbers /\ x.left \subseteq RowNumbers /\ x.fresh \in Int
           /\ x.at = "numbered" => x.no \in RowNumbers
  BY DEF ClosedUploads, OpenUploads

LEMMA UploadsStart == UploadsInit => UploadsInv
  <1> SUFFICES ASSUME UploadsInit
               PROVE  UploadsInv
    OBVIOUS
  <1>1. Used = {} /\ sequence = 0 /\ \A u \in UploadFiles : upload[u].at = "waiting"
    BY DEF UploadsInit, Used
  <1>2. UploadsShape
    <2>1. upload \in [UploadFiles -> ClosedUploads \cup OpenUploads]
      BY DEF UploadsInit, ClosedUploads
    <2>2. form \in [Forms -> Inserts]
      BY DEF UploadsInit, Inserts
    <2>3. raced \in BOOLEAN
      BY Zenon DEF UploadsInit
    <2>4. Used \subseteq RowNumbers /\ sequence \in Nat
      BY <1>1
    <2> QED
      BY <2>1, <2>2, <2>3, <2>4 DEF UploadsShape
  <1>3. BelowSequence
    BY <1>1 DEF UploadsInit, BelowSequence
  <1> QED
    BY <1>2, <1>3 DEF UploadsInv

(* The sequence goes nowhere but up, and what is new is below it. *)
LEMMA NumbersGrow ==
    ASSUME UploadsInv, UploadsShape', raced' = raced, sequence <= sequence',
           raced = FALSE => \A n \in Used' : n \in Used \/ n <= sequence',
           raced = FALSE => \A f \in Forms : form'[f] \in {form[f], NoInsert} \/ form'[f].no <= sequence',
           \A u \in UploadFiles : upload'[u] = upload[u] \/ upload'[u].at # "ending"
    PROVE  UploadsInv'
  <1>1. SUFFICES ASSUME raced = FALSE
                 PROVE  BelowSequence'
    BY DEF UploadsInv
  <1>2. BelowSequence /\ sequence \in Nat /\ sequence' \in Nat
    BY <1>1 DEF UploadsInv, UploadsShape
  <1>3. Used \subseteq Nat /\ Used' \subseteq Nat
    BY MaxRowNumberAssumption DEF UploadsInv, UploadsShape, RowNumbers
  <1>4. \A n \in Used' : n <= sequence'
    BY <1>1, <1>2, <1>3 DEF BelowSequence
  <1>5. ASSUME NEW f \in Forms, form'[f] # NoInsert
        PROVE  form'[f].no <= sequence'
    <2>1. CASE form'[f] = form[f]
      <3>1. form[f].no \in Nat /\ form[f].no <= sequence
        BY <1>2, <1>5, <2>1, MaxRowNumberAssumption DEF UploadsInv, UploadsShape, BelowSequence, Inserts, RowNumbers
      <3> QED
        BY <1>2, <2>1, <3>1
    <2> QED
      BY <1>1, <1>5, <2>1
  <1>6. ASSUME NEW u \in UploadFiles, upload'[u].at = "ending", NEW n \in upload'[u].done
        PROVE  n <= sequence'
    <2>1. upload'[u] = upload[u] /\ upload[u] \in ClosedUploads \cup OpenUploads
      BY <1>6 DEF UploadsInv, UploadsShape
    <2>2. n \in Nat /\ n <= sequence
      BY <1>2, <1>6, <2>1, UploadFields, MaxRowNumberAssumption DEF BelowSequence, RowNumbers
    <2> QED
      BY <1>2, <2>2
  <1> QED
    BY <1>4, <1>5, <1>6 DEF BelowSequence

(* An upload moves the sequence, and overtakes nobody: then everything is below it again. *)
LEMMA SequenceMoved ==
    ASSUME UploadsInv, NEW u \in UploadFiles, upload[u] \in OpenUploads, MoveSequence(u),
           NEW s \in {"moved", "ending"}, upload[u].at = "inserting",
           upload' = [upload EXCEPT ![u].at = s], UNCHANGED <<rows, form>>
    PROVE  UploadsInv'
  <1>1. /\ upload \in [UploadFiles -> ClosedUploads \cup OpenUploads] /\ UploadsShape
        /\ Last(u) \in Nat /\ \A n \in Visible(u) : n <= Last(u)
    BY LastIsHighest DEF UploadsInv, UploadsShape
  <1> DEFINE x == [upload[u] EXCEPT !.at = s]
  <1>2. upload' = [upload EXCEPT ![u] = x]
    OBVIOUS
  <1>3. upload[u] \in [at : {"inserting", "moved", "ending"}, done : SUBSET RowNumbers,
                       left : SUBSET RowNumbers, fresh : Int]
    BY DEF OpenUploads
  <1>4. x \in [at : {"inserting", "moved", "ending"}, done : SUBSET RowNumbers, left : SUBSET RowNumbers, fresh : Int]
        /\ x.done = upload[u].done
    BY <1>3
  <1>5. x \in OpenUploads
    BY <1>4 DEF OpenUploads
  <1> HIDE DEF x
  <1>6. upload'[u] = x /\ \A v \in UploadFiles : v # u => upload'[v] = upload[v]
    BY <1>1, <1>2
  <1>7. UploadsShape'
    <2>1. upload' \in [UploadFiles -> ClosedUploads \cup OpenUploads]
      BY <1>1, <1>2, <1>5
    <2>2. raced' \in BOOLEAN /\ sequence' \in Nat
      BY <1>1 DEF MoveSequence
    <2>3. Used' = Used
      BY DEF Used
    <2> QED
      BY <1>1, <2>1, <2>2, <2>3 DEF UploadsShape
  <1>8. SUFFICES ASSUME raced' = FALSE
                 PROVE  BelowSequence'
    BY <1>7 DEF UploadsInv
  <1>9. ~Races(u) /\ sequence' = Last(u)
    BY <1>8 DEF MoveSequence
  <1>10. \A n \in Used' : n <= sequence'
    BY <1>1, <1>9 DEF Visible, Used
  <1>11. ASSUME NEW f \in Forms, form[f] # NoInsert
         PROVE  form[f].no <= sequence'
    <2>1. ~(form[f].no > Last(u))
      BY <1>9, <1>11 DEF Races
    <2>2. form[f].no \in Nat
      BY <1>1, <1>11, MaxRowNumberAssumption DEF UploadsShape, Inserts, RowNumbers
    <2> QED
      BY <1>1, <1>9, <2>1, <2>2
  <1>12. ASSUME NEW v \in UploadFiles, upload'[v].at = "ending", NEW n \in upload'[v].done
         PROVE  n <= sequence'
    <2>1. CASE v = u
      BY <1>1, <1>4, <1>6, <1>9, <1>12, <2>1 DEF Visible, Own
    <2>2. CASE v # u
      <3>1. upload[v].at = "ending" /\ n \in upload[v].done /\ upload[v] \in ClosedUploads \cup OpenUploads
        BY <1>1, <1>6, <1>12, <2>2
      <3>2. n \in Nat
        BY <3>1, UploadFields, MaxRowNumberAssumption DEF RowNumbers
      <3>3. ~(n > Last(u))
        BY <1>9, <2>2, <3>1 DEF Races, IsOpen, Own
      <3> QED
        BY <1>1, <1>9, <3>2, <3>3
    <2> QED
      BY <2>1, <2>2
  <1> QED
    BY <1>10, <1>11, <1>12 DEF BelowSequence

(* One upload goes somewhere; numbers and forms stay, or a number is taken. *)
LEMMA UploadMoves ==
    ASSUME UploadsInv, NEW u \in UploadFiles, NEW x \in ClosedUploads \cup OpenUploads, x.at # "ending",
           upload' = [upload EXCEPT ![u] = x], UNCHANGED <<form, raced>>, Used' \subseteq Used,
           sequence' \in Nat, sequence <= sequence'
    PROVE  UploadsInv'
  <1>1. upload \in [UploadFiles -> ClosedUploads \cup OpenUploads] /\ UploadsShape
    BY DEF UploadsInv, UploadsShape
  <1>2. UploadsShape'
    <2>1. upload' \in [UploadFiles -> ClosedUploads \cup OpenUploads]
      BY <1>1
    <2> QED
      BY <1>1, <2>1 DEF UploadsShape
  <1>3. \A v \in UploadFiles : upload'[v] = upload[v] \/ upload'[v].at # "ending"
    BY <1>1
  <1> QED
    BY <1>2, <1>3, NumbersGrow

(* A form's insert goes somewhere, with a number that is not new or just taken. *)
LEMMA FormMoves ==
    ASSUME UploadsInv, NEW f \in Forms, NEW x \in Inserts,
           form' = [form EXCEPT ![f] = x], UNCHANGED <<upload, raced>>,
           sequence' \in Nat, sequence <= sequence',
           x = NoInsert \/ x.no = sequence' \/ (form[f] # NoInsert /\ x.no = form[f].no),
           \A n \in Used' : n \in Used \/ (form[f] # NoInsert /\ n = form[f].no)
    PROVE  UploadsInv'
  <1>1. form \in [Forms -> Inserts] /\ UploadsShape
    BY DEF UploadsInv, UploadsShape
  <1>2. form[f] # NoInsert => form[f].no \in RowNumbers /\ form[f].no \in Nat
    BY <1>1, MaxRowNumberAssumption DEF Inserts, RowNumbers
  <1>3. UploadsShape'
    <2>1. form' \in [Forms -> Inserts]
      BY <1>1
    <2> QED
      BY <1>1, <1>2, <2>1 DEF UploadsShape
  <1>4. raced = FALSE /\ form[f] # NoInsert => form[f].no <= sequence'
    <2> SUFFICES ASSUME raced = FALSE, form[f] # NoInsert
                 PROVE  form[f].no <= sequence'
      OBVIOUS
    <2>1. form[f].no <= sequence /\ sequence \in Nat
      BY DEF UploadsInv, BelowSequence, UploadsShape
    <2> QED
      BY <1>2, <2>1
  <1>5. raced = FALSE => \A g \in Forms : form'[g] \in {form[g], NoInsert} \/ form'[g].no <= sequence'
    <2> SUFFICES ASSUME raced = FALSE, NEW g \in Forms
                 PROVE  form'[g] \in {form[g], NoInsert} \/ form'[g].no <= sequence'
      OBVIOUS
    <2>1. CASE g = f
      BY <1>1, <1>4, <2>1
    <2>2. CASE g # f
      BY <1>1, <2>2
    <2> QED
      BY <2>1, <2>2
  <1>6. raced = FALSE => \A n \in Used' : n \in Used \/ n <= sequence'
    BY <1>4
  <1> QED
    BY <1>3, <1>5, <1>6, NumbersGrow

LEMMA CommitUploadKeeps ==
    ASSUME UploadsInv, NEW u \in UploadFiles, CommitUpload(u)
    PROVE  UploadsInv'
  <1> DEFINE x == [at |-> "imported"]
  <1>1. /\ upload[u].at = "ending" /\ upload' = [upload EXCEPT ![u] = x] /\ UNCHANGED <<sequence, form, raced>>
        /\ Used' = Visible(u)
    BY DEF CommitUpload, Used
  <1>2. x \in ClosedUploads /\ x.at # "ending"
    BY DEF ClosedUploads
  <1> HIDE DEF x
  <1>3. UploadsShape /\ upload \in [UploadFiles -> ClosedUploads \cup OpenUploads] /\ sequence \in Nat
    BY DEF UploadsInv, UploadsShape
  <1>4. upload[u].done \subseteq RowNumbers
    BY <1>1, <1>3, UploadFields
  <1>5. UploadsShape'
    <2>1. upload' \in [UploadFiles -> ClosedUploads \cup OpenUploads]
      BY <1>1, <1>2, <1>3
    <2>2. Used' \subseteq RowNumbers
      BY <1>1, <1>3, <1>4 DEF Visible, Own, UploadsShape
    <2> QED
      BY <1>1, <1>3, <2>1, <2>2 DEF UploadsShape
  <1>6. raced = FALSE => \A n \in Used' : n \in Used \/ n <= sequence'
    BY <1>1 DEF UploadsInv, BelowSequence, Visible, Own
  <1>7. \A v \in UploadFiles : upload'[v] = upload[v] \/ upload'[v].at # "ending"
    BY <1>1, <1>2, <1>3
  <1>8. sequence <= sequence'
    BY <1>1, <1>3
  <1> QED
    BY <1>1, <1>5, <1>6, <1>7, <1>8, NumbersGrow

LEMMA UploadsStep == UploadsInv /\ [UploadsNext]_uploadVars => UploadsInv'
  <1> SUFFICES ASSUME UploadsInv, [UploadsNext]_uploadVars
               PROVE  UploadsInv'
    OBVIOUS
  <1>0. /\ form \in [Forms -> Inserts] /\ upload \in [UploadFiles -> ClosedUploads \cup OpenUploads]
        /\ sequence \in Nat /\ UploadsShape /\ NoInsert \in Inserts /\ sequence + 1 \in Nat /\ sequence <= sequence + 1
        /\ sequence <= sequence
        /\ \A s \in {"waiting", "imported", "undone"} : [at |-> s] \in ClosedUploads /\ [at |-> s].at = s
    BY DEF UploadsInv, UploadsShape, Inserts, ClosedUploads
  <1>1. CASE UNCHANGED uploadVars
    <2>1. UploadsShape'
      BY <1>0, <1>1 DEF uploadVars, UploadsShape, Used
    <2>2. BelowSequence' <=> BelowSequence
      BY <1>1 DEF uploadVars, BelowSequence, Used
    <2> QED
      BY <1>1, <2>1, <2>2 DEF uploadVars, UploadsInv
  <1>2. ASSUME NEW f \in Forms, BeginForm(f)
        PROVE  UploadsInv'
    <2> DEFINE x == [at |-> "inserting", no |-> sequence + 1]
    <2>1. /\ form' = [form EXCEPT ![f] = x] /\ sequence' = sequence + 1 /\ UNCHANGED <<upload, raced>>
          /\ Used' = Used /\ sequence + 1 \in RowNumbers
      BY <1>2 DEF BeginForm, Used
    <2>2. x \in Inserts /\ x.no = sequence'
      BY <2>1 DEF Inserts
    <2> HIDE DEF x
    <2> QED
      BY <1>0, <2>1, <2>2, FormMoves
  <1>3. ASSUME NEW f \in Forms, InsertForm(f)
        PROVE  UploadsInv'
    <2> DEFINE y == [at |-> "inserted", no |-> form[f].no]
               x == IF form[f].no \in Used THEN NoInsert ELSE y
    <2>1. /\ form' = [form EXCEPT ![f] = x] /\ UNCHANGED <<sequence, upload, raced>>
          /\ Used' = Used /\ form[f].at = "inserting"
      BY <1>3 DEF InsertForm, Used
    <2>2. form[f] # NoInsert
      BY <2>1 DEF NoInsert
    <2>3. y \in Inserts /\ y.no = form[f].no
      BY <1>0, <2>2 DEF Inserts
    <2>4. x \in Inserts /\ (x = NoInsert \/ x.no = form[f].no)
      BY <1>0, <2>3
    <2> HIDE DEF x, y
    <2> QED
      BY <1>0, <2>1, <2>2, <2>4, FormMoves
  <1>4. ASSUME NEW f \in Forms, CommitForm(f) \/ RollBackForm(f)
        PROVE  UploadsInv'
    <2>1. /\ form' = [form EXCEPT ![f] = NoInsert] /\ UNCHANGED <<sequence, upload, raced>>
          /\ form[f].at = "inserted" /\ Used' \subseteq Used \cup {form[f].no}
      BY <1>4 DEF CommitForm, RollBackForm, Used
    <2>2. form[f] # NoInsert
      BY <2>1 DEF NoInsert
    <2> QED
      BY <1>0, <2>1, <2>2, FormMoves
  <1>5. ASSUME NEW u \in UploadFiles, Validate(u)
        PROVE  UploadsInv'
    <2> DEFINE x == [at |-> "inserting", done |-> {}, left |-> u.old, fresh |-> u.new]
    <2>1. /\ upload' = [upload EXCEPT ![u] = x] /\ UNCHANGED <<sequence, form, raced>> /\ Used' = Used
      BY <1>5 DEF Validate, Used
    <2>2. x \in OpenUploads /\ x.at # "ending"
      BY UploadFilesAssumption DEF OpenUploads
    <2> HIDE DEF x
    <2> QED
      BY <1>0, <2>1, <2>2, UploadMoves
  <1>6. ASSUME NEW u \in UploadFiles, UploadFails(u)
        PROVE  UploadsInv'
    <2>1. /\ upload' = [upload EXCEPT ![u] = [at |-> "waiting"]] /\ UNCHANGED <<sequence, form, raced>> /\ Used' = Used
      BY <1>6 DEF UploadFails, Used
    <2> QED
      BY <1>0, <2>1, UploadMoves
  <1>7. ASSUME NEW u \in UploadFiles, NEW n \in RowNumbers, InsertOld(u, n)
        PROVE  UploadsInv'
    <2>1. CASE n \in Used
      BY <1>6, <1>7, <2>1 DEF InsertOld
    <2>2. CASE n \notin Used
      <3> DEFINE x == [upload[u] EXCEPT !.done = upload[u].done \cup {n}, !.left = upload[u].left \ {n}]
      <3>1. /\ upload' = [upload EXCEPT ![u] = x] /\ UNCHANGED <<sequence, form, raced>> /\ Used' = Used
            /\ upload[u].at = "inserting"
        BY <1>7, <2>2 DEF InsertOld, Used
      <3>2. upload[u] \in [at : {"inserting", "moved", "ending"}, done : SUBSET RowNumbers,
                           left : SUBSET RowNumbers, fresh : Int]
        BY <1>0, <3>1 DEF OpenUploads, ClosedUploads
      <3>3. upload[u].done \cup {n} \in SUBSET RowNumbers /\ upload[u].left \ {n} \in SUBSET RowNumbers
        BY <3>2
      <3>4. x \in [at : {"inserting", "moved", "ending"}, done : SUBSET RowNumbers,
                   left : SUBSET RowNumbers, fresh : Int] /\ x.at = "inserting"
        BY <3>1, <3>2, <3>3
      <3>5. x \in OpenUploads
        BY <3>4 DEF OpenUploads
      <3> HIDE DEF x
      <3> QED
        BY <1>0, <3>1, <3>4, <3>5, UploadMoves
    <2> QED
      BY <2>1, <2>2
  <1>8. ASSUME NEW u \in UploadFiles, MoveForNew(u) \/ MoveAtEnd(u)
        PROVE  UploadsInv'
    <2>1. upload[u].at = "inserting" /\ MoveSequence(u) /\ UNCHANGED <<rows, form>>
      BY <1>8 DEF MoveForNew, MoveAtEnd
    <2>2. upload[u] \in OpenUploads
      BY <1>0, <2>1, UploadFields
    <2>3. \E s \in {"moved", "ending"} : upload' = [upload EXCEPT ![u].at = s]
      BY <1>8 DEF MoveForNew, MoveAtEnd
    <2> QED
      BY <2>1, <2>2, <2>3, SequenceMoved
  <1>9. ASSUME NEW u \in UploadFiles, NumberNew(u)
        PROVE  UploadsInv'
    <2> DEFINE x == [at |-> "numbered", done |-> upload[u].done, left |-> {}, fresh |-> upload[u].fresh,
                     no |-> sequence + 1]
    <2>1. /\ upload' = [upload EXCEPT ![u] = x] /\ sequence' = sequence + 1 /\ UNCHANGED <<form, raced>>
          /\ Used' = Used /\ upload[u].at = "moved" /\ sequence + 1 \in RowNumbers
      BY <1>9 DEF NumberNew, Used
    <2>2. upload[u].done \subseteq RowNumbers /\ upload[u].fresh \in Int
      BY <1>0, <2>1, UploadFields
    <2>3. x \in OpenUploads /\ x.at = "numbered"
      BY <2>1, <2>2 DEF OpenUploads
    <2> HIDE DEF x
    <2> QED
      BY <1>0, <2>1, <2>3, UploadMoves
  <1>10. ASSUME NEW u \in UploadFiles, InsertNew(u)
         PROVE  UploadsInv'
    <2>1. CASE upload[u].no \in Visible(u)
      BY <1>6, <1>10, <2>1 DEF InsertNew
    <2>2. CASE upload[u].no \notin Visible(u)
      <3> DEFINE x == [at |-> "inserting", done |-> upload[u].done \cup {upload[u].no}, left |-> {},
                       fresh |-> upload[u].fresh - 1]
      <3>1. /\ upload' = [upload EXCEPT ![u] = x] /\ UNCHANGED <<sequence, form, raced>> /\ Used' = Used
            /\ upload[u].at = "numbered"
        BY <1>10, <2>2 DEF InsertNew, Used
      <3>2. upload[u].done \subseteq RowNumbers /\ upload[u].fresh \in Int /\ upload[u].no \in RowNumbers
        BY <1>0, <3>1, UploadFields
      <3>3. x \in OpenUploads /\ x.at = "inserting"
        BY <3>2 DEF OpenUploads
      <3> HIDE DEF x
      <3> QED
        BY <1>0, <3>1, <3>3, UploadMoves
    <2> QED
      BY <2>1, <2>2
  <1>11. ASSUME NEW u \in UploadFiles, UndoUpload(u)
         PROVE  UploadsInv'
    <2>1. /\ upload' = [upload EXCEPT ![u] = [at |-> "undone"]] /\ UNCHANGED <<sequence, form, raced>>
          /\ Used' \subseteq Used
      BY <1>11 DEF UndoUpload, Used
    <2> QED
      BY <1>0, <2>1, UploadMoves
  <1> QED
    BY <1>1, <1>2, <1>3, <1>4, <1>5, <1>6, <1>7, <1>8, <1>9, <1>10, <1>11, CommitUploadKeeps
       DEF UploadsNext, FailUpload

(* confirm and undo_batch with old numbers (app/bulk_modules.py): for any uploads and forms, unless a number not *)
(* yet committed was overtaken, what is in use is below the sequence whenever no upload is under way.            *)
THEOREM NumbersStayFree == UploadsSpec => []NextNumberIsFree
  <1> QED
    BY UploadsStart, UploadsStep, NumbersAreFree, PTL DEF UploadsSpec

-----------------------------------------------------------------------------
(***************************************************************************)
(* Imports: an undo removes no work done since.                            *)
(***************************************************************************)

(* What a request at Setup > Import has in hand, and what an import is. *)
ClerkPlaces ==
    {IdleClerk}
    \cup [at : {"checked"}, names : SUBSET RowNames, aside : SUBSET RowNames, seen : SUBSET (ImportIds \X RowNames)]
    \cup [at : {"undoing"}, of : ImportIds, late : SUBSET {"edit", "kids"}]

BatchRows ==
    [names : SUBSET RowNames, aside : SUBSET RowNames, work : SUBSET {"edit", "kids"},
     seen : SUBSET (ImportIds \X RowNames), status : {"none", "made", "undone"}]

ImportsShape == ImportsTypeOK /\ clerk \in [Clerks -> ClerkPlaces]

(* Only an import that was made has rows or knows others. *)
RowsAreMade == \A b \in ImportIds : batch[b].status = "none" => Rows(batch[b]) = {} /\ batch[b].work = {}

(* An undo under way is the only one of its import, and knows what work came late. *)
UndosKnow ==
    /\ \A c \in Clerks : clerk[c].at = "undoing" =>
          batch[clerk[c].of].work \cap kind.asks \subseteq clerk[c].late
    /\ \A c, d \in Clerks : clerk[c].at = "undoing" /\ clerk[d].at = "undoing" /\ clerk[c].of = clerk[d].of => c = d

(* A name an import was asked about is none of those of the imports that were there. *)
Unshared(b, n) == batch[b].status # "none" /\ (kind.names # "free" => n \notin Rows(batch[b]))

SeenStays ==
    /\ \A d \in ImportIds : \A b \in ImportIds, n \in RowNames : <<b, n>> \in batch[d].seen => Unshared(b, n)
    /\ \A c \in Clerks : clerk[c].at = "checked" =>
          \A b \in ImportIds, n \in RowNames : <<b, n>> \in clerk[c].seen => Unshared(b, n)

OwnersCount ==
    /\ owner # "there" => kind.points # "nothing"
    /\ owner = "gone" => Rows(typed) = {} /\ \A b \in ImportIds : Rows(batch[b]) = {}

IndexHolds ==
    kind.names = "indexed" => \A b, d \in ImportIds : b # d => batch[b].names \cap batch[d].names = {}

ImportsInv == ImportsShape /\ RowsAreMade /\ UndosKnow /\ SeenStays /\ OwnersCount /\ IndexHolds /\ lost = {}

LEMMA KindNames ==
    /\ \A k \in Kinds : k.names \in {"free", "checked", "indexed"}
    /\ \A k \in Renamed : k.names # "free"
  BY DEF Kinds, Kind, Renamed, Members, Payments, Parties, Tasks, Purchases, PurchasesPf, DecorClients, DecorPayments,
         DecorExpenses, DecorItems, DecorPhotos, DecorQuotations, AttEmployees, AttRecords, AttAdvances, Checklists

LEMMA BatchFields ==
    ASSUME ImportsTypeOK, NEW b \in ImportIds
    PROVE  /\ batch[b] \in BatchRows
           /\ batch[b].names \subseteq RowNames /\ batch[b].aside \subseteq RowNames
           /\ batch[b].work \subseteq {"edit", "kids"} /\ batch[b].seen \subseteq ImportIds \X RowNames
           /\ batch[b].status \in {"none", "made", "undone"}
  BY DEF ImportsTypeOK, BatchRows

LEMMA ClerkFields ==
    ASSUME ImportsShape, NEW c \in Clerks
    PROVE  /\ clerk[c].at \in {"idle", "checked", "undoing"}
           /\ clerk[c].at = "checked" => /\ clerk[c].names \subseteq RowNames /\ clerk[c].aside \subseteq RowNames
                                         /\ clerk[c].seen \subseteq ImportIds \X RowNames
           /\ clerk[c].at = "undoing" => clerk[c].of \in ImportIds /\ clerk[c].late \subseteq {"edit", "kids"}
  BY DEF ImportsShape, ClerkPlaces, IdleClerk

LEMMA ImportsPlace ==
    ASSUME NEW x \in ClerkPlaces
    PROVE  x.at \in {"idle", "checked", "undoing"}
  BY DEF ClerkPlaces, IdleClerk

LEMMA IdlePlace == IdleClerk \in ClerkPlaces /\ IdleClerk.at = "idle"
  BY DEF ClerkPlaces, IdleClerk

LEMMA ImportsStart == ImportsInit => ImportsInv
  <1> SUFFICES ASSUME ImportsInit
               PROVE  ImportsInv
    OBVIOUS
  <1>1. ImportsShape
    BY DEF ImportsInit, ImportsShape, ImportsTypeOK, ClerkPlaces, IdleClerk, NoBatch, NoRows
  <1>2. UndosKnow
    BY DEF ImportsInit, UndosKnow, IdleClerk
  <1>3. SeenStays
    BY DEF ImportsInit, SeenStays, IdleClerk, NoBatch
  <1>4. RowsAreMade /\ OwnersCount /\ IndexHolds
    BY DEF ImportsInit, RowsAreMade, OwnersCount, IndexHolds, NoBatch, Rows
  <1> QED
    BY <1>1, <1>2, <1>3, <1>4 DEF ImportsInit, ImportsInv

(* A request's place changes and no import does. *)
LEMMA ClerkMoves ==
    ASSUME ImportsInv, NEW c \in Clerks, NEW x \in ClerkPlaces, clerk' = [clerk EXCEPT ![c] = x],
           UNCHANGED <<kind, batch, typed, owner, lost>>,
           x.at = "checked" => \A b \in ImportIds, n \in RowNames : <<b, n>> \in x.seen => Unshared(b, n),
           x.at = "undoing" =>
              /\ batch[x.of].work \cap kind.asks \subseteq x.late
              /\ \A d \in Clerks : ~(clerk[d].at = "undoing" /\ clerk[d].of = x.of)
    PROVE  ImportsInv'
  <1> USE DEF ImportsInv
  <1>1. clerk'[c] = x /\ \A d \in Clerks : d # c => clerk'[d] = clerk[d]
    BY DEF ImportsShape
  <1>2. ImportsShape'
    <2>1. clerk' \in [Clerks -> ClerkPlaces]
      BY DEF ImportsShape
    <2>2. \A d \in Clerks : clerk'[d].at \in {"idle", "checked", "undoing"}
      BY <2>1, ImportsPlace
    <2> QED
      BY <2>1, <2>2 DEF ImportsShape, ImportsTypeOK
  <1>3. UndosKnow'
    BY <1>1 DEF UndosKnow
  <1>4. SeenStays'
    BY <1>1 DEF SeenStays, Unshared
  <1>5. RowsAreMade' /\ OwnersCount' /\ IndexHolds'
    BY DEF RowsAreMade, OwnersCount, IndexHolds
  <1> QED
    BY <1>2, <1>3, <1>4, <1>5

(* One import changes: it gains no row, knows no more, and the requests know what they did. *)
LEMMA BatchMoves ==
    ASSUME ImportsInv, NEW b \in ImportIds, NEW y \in BatchRows, batch' = [batch EXCEPT ![b] = y],
           UNCHANGED <<kind, typed, owner>>, lost' = {}, y.status # "none",
           Rows(y) \subseteq Rows(batch[b]), y.seen \subseteq batch[b].seen,
           kind.names = "indexed" => \A d \in ImportIds \ {b} : y.names \cap batch[d].names = {},
           clerk' \in [Clerks -> ClerkPlaces], UndosKnow',
           \A c \in Clerks : clerk'[c].at = "checked" => clerk[c].at = "checked" /\ clerk'[c].seen = clerk[c].seen
    PROVE  ImportsInv'
  <1> USE DEF ImportsInv
  <1>1. batch'[b] = y /\ \A d \in ImportIds : d # b => batch'[d] = batch[d]
    BY DEF ImportsShape, ImportsTypeOK
  <1>2. ImportsShape'
    <2>1. batch' \in [ImportIds -> BatchRows]
      BY DEF ImportsShape, ImportsTypeOK, BatchRows
    <2>2. \A c \in Clerks : clerk'[c].at \in {"idle", "checked", "undoing"}
      BY ImportsPlace
    <2> QED
      BY <2>1, <2>2 DEF ImportsShape, ImportsTypeOK, BatchRows
  <1>3. RowsAreMade'
    BY <1>1 DEF RowsAreMade
  <1>4. ASSUME NEW d \in ImportIds, NEW n \in RowNames, Unshared(d, n)
        PROVE  Unshared(d, n)'
    <2>1. CASE d = b
      BY <1>1, <1>4, <2>1 DEF Unshared
    <2>2. CASE d # b
      BY <1>1, <1>4, <2>2 DEF Unshared
    <2> QED
      BY <2>1, <2>2
  <1>5. SeenStays'
    <2>1. ASSUME NEW d \in ImportIds, NEW e \in ImportIds, NEW n \in RowNames, <<e, n>> \in batch'[d].seen
          PROVE  Unshared(e, n)'
      <3>1. <<e, n>> \in batch[d].seen
        BY <1>1, <2>1
      <3> QED
        BY <1>4, <3>1 DEF SeenStays
    <2>2. ASSUME NEW c \in Clerks, clerk'[c].at = "checked", NEW e \in ImportIds, NEW n \in RowNames,
                 <<e, n>> \in clerk'[c].seen
          PROVE  Unshared(e, n)'
      BY <1>4, <2>2 DEF SeenStays
    <2> QED
      BY <2>1, <2>2 DEF SeenStays
  <1>6. OwnersCount'
    BY <1>1 DEF OwnersCount
  <1>7. IndexHolds'
    BY <1>1 DEF IndexHolds
  <1> QED
    BY <1>2, <1>3, <1>5, <1>6, <1>7

LEMMA ValidateKeeps ==
    ASSUME ImportsInv, NEW c \in Clerks, NEW names \in SUBSET RowNames, NEW asked \in Asked(names),
           ValidateImport(c, names, asked)
    PROVE  ImportsInv'
  <1> DEFINE S == {p \in ImportIds \X asked : Live(p[1]) /\ p[2] \notin batch[p[1]].aside}
             x == [at |-> "checked", names |-> IF kind = Purchases THEN asked ELSE names,
                   aside |-> IF kind = Purchases THEN names \ asked ELSE {}, seen |-> S]
  <1>1. clerk' = [clerk EXCEPT ![c] = x] /\ UNCHANGED <<kind, batch, typed, owner, lost>>
    BY DEF ValidateImport
  <1>2. asked \subseteq RowNames
    BY DEF Asked
  <1>3. S \subseteq ImportIds \X RowNames
    BY <1>2
  <1>4. \A b \in ImportIds, n \in RowNames : <<b, n>> \in S => Unshared(b, n)
    <2> SUFFICES ASSUME NEW b \in ImportIds, NEW n \in RowNames, <<b, n>> \in S
                 PROVE  Unshared(b, n)
      OBVIOUS
    <2>1. n \in asked /\ Live(b) /\ n \notin batch[b].aside
      OBVIOUS
    <2>2. batch[b].status # "none"
      BY <2>1 DEF ImportsInv, RowsAreMade, Live
    <2>3. batch[b].names \subseteq Found
      BY DEF Found
    <2> QED
      BY <2>1, <2>2, <2>3 DEF ValidateImport, Unshared, Rows
  <1> HIDE DEF S
  <1>5. x \in ClerkPlaces /\ x.at = "checked" /\ x.seen = S
    BY <1>2, <1>3 DEF ClerkPlaces
  <1> HIDE DEF x
  <1> QED
    BY <1>1, <1>4, <1>5, ClerkMoves

LEMMA ConfirmKeeps ==
    ASSUME ImportsInv, NEW c \in Clerks, NEW b \in ImportIds, ConfirmImport(c, b)
    PROVE  ImportsInv'
  <1> USE DEF ImportsInv
  <1>1. /\ clerk' = [clerk EXCEPT ![c] = IdleClerk] /\ UNCHANGED <<kind, typed, owner, lost>>
        /\ clerk[c].at = "checked" /\ batch[b].status = "none"
    BY DEF ConfirmImport
  <1>2. CASE UNCHANGED batch
    BY <1>1, <1>2, IdlePlace, ClerkMoves
  <1>3. CASE batch' # batch
    <2> DEFINE y == Imported(clerk[c])
    <2>1. /\ batch' = [batch EXCEPT ![b] = y]
          /\ kind.names = "indexed" => clerk[c].names \cap Found = {}
          /\ kind.points # "nothing" => owner # "gone"
      BY <1>3 DEF ConfirmImport
    <2>2. /\ y \in BatchRows /\ y.names = clerk[c].names /\ y.seen = clerk[c].seen /\ y.work = {} /\ y.status = "made"
      BY <1>1, ClerkFields DEF Imported, BatchRows
    <2> HIDE DEF y
    <2>3. /\ batch'[b] = y /\ \A d \in ImportIds : d # b => batch'[d] = batch[d]
          /\ batch' \in [ImportIds -> BatchRows]
      BY <2>1, <2>2 DEF ImportsShape, ImportsTypeOK, BatchRows
    <2>4. clerk'[c] = IdleClerk /\ \A d \in Clerks : d # c => clerk'[d] = clerk[d]
      BY <1>1 DEF ImportsShape
    <2>5. ImportsShape'
      <3>1. clerk' \in [Clerks -> ClerkPlaces]
        BY <1>1, IdlePlace DEF ImportsShape
      <3>2. \A d \in Clerks : clerk'[d].at \in {"idle", "checked", "undoing"}
        BY <3>1, ImportsPlace
      <3> QED
        BY <1>1, <2>3, <3>1, <3>2 DEF ImportsShape, ImportsTypeOK, BatchRows
    <2>6. RowsAreMade'
      BY <2>2, <2>3 DEF RowsAreMade
    <2>7. UndosKnow'
      <3>1. \A d \in Clerks : clerk[d].at = "undoing" => clerk[d].of \in ImportIds
        BY ClerkFields
      <3> QED
        BY <1>1, <2>2, <2>3, <2>4, <3>1, IdlePlace DEF UndosKnow
    <2>8. ASSUME NEW e \in ImportIds, NEW n \in RowNames, Unshared(e, n)
          PROVE  e # b /\ Unshared(e, n)'
      BY <1>1, <2>3, <2>8 DEF Unshared
    <2>9. SeenStays'
      <3>1. ASSUME NEW d \in ImportIds, NEW e \in ImportIds, NEW n \in RowNames, <<e, n>> \in batch'[d].seen
            PROVE  Unshared(e, n)'
        <4>1. Unshared(e, n)
          BY <1>1, <2>2, <2>3, <3>1 DEF SeenStays
        <4> QED
          BY <2>8, <4>1
      <3>2. ASSUME NEW d \in Clerks, clerk'[d].at = "checked", NEW e \in ImportIds, NEW n \in RowNames,
                   <<e, n>> \in clerk'[d].seen
            PROVE  Unshared(e, n)'
        <4>1. d # c
          BY <2>4, <3>2, IdlePlace
        <4>2. Unshared(e, n)
          BY <2>4, <3>2, <4>1 DEF SeenStays
        <4> QED
          BY <2>8, <4>2
      <3> QED
        BY <3>1, <3>2 DEF SeenStays
    <2>10. OwnersCount'
      BY <1>1, <2>1 DEF OwnersCount
    <2>11. IndexHolds'
      <3>1. \A d \in ImportIds : batch[d].names \subseteq Found
        BY DEF Found
      <3>2. kind.names = "indexed" => \A d \in ImportIds : y.names \cap batch[d].names = {}
        BY <2>1, <2>2, <3>1
      <3> QED
        BY <1>1, <2>3, <3>2 DEF IndexHolds
    <2> QED
      BY <1>1, <2>5, <2>6, <2>7, <2>9, <2>10, <2>11
  <1> QED
    BY <1>2, <1>3

(* Work on an import is known to the undo under way. *)
LEMMA LateIsKnown ==
    ASSUME ImportsInv, NEW b \in ImportIds, NEW what \in {"edit", "kids"}, clerk' = LateWork(b, what),
           NEW y, batch' = [batch EXCEPT ![b] = y], y.work = batch[b].work \cup {what}, UNCHANGED kind
    PROVE  /\ clerk' \in [Clerks -> ClerkPlaces] /\ UndosKnow'
           /\ \A c \in Clerks : clerk'[c].at = "checked" => clerk[c].at = "checked" /\ clerk'[c].seen = clerk[c].seen
  <1> USE DEF ImportsInv
  <1>1. ASSUME NEW c \in Clerks
        PROVE  /\ clerk'[c] \in ClerkPlaces /\ clerk'[c].at = clerk[c].at
               /\ clerk[c].at = "checked" => clerk'[c] = clerk[c]
               /\ clerk[c].at = "undoing" =>
                    /\ clerk'[c].of = clerk[c].of /\ clerk[c].late \subseteq clerk'[c].late
                    /\ clerk[c].of = b => what \in clerk'[c].late
    <2>1. CASE clerk[c].at = "undoing" /\ clerk[c].of = b
      <3>1. clerk[c] \in [at : {"undoing"}, of : ImportIds, late : SUBSET {"edit", "kids"}]
        BY <2>1 DEF ImportsShape, ClerkPlaces, IdleClerk
      <3>2. clerk'[c] = [clerk[c] EXCEPT !.late = clerk[c].late \cup {what}]
        BY <2>1 DEF LateWork
      <3>3. /\ clerk'[c] \in [at : {"undoing"}, of : ImportIds, late : SUBSET {"edit", "kids"}]
            /\ clerk'[c].of = clerk[c].of /\ clerk'[c].late = clerk[c].late \cup {what} /\ clerk'[c].at = "undoing"
        BY <3>1, <3>2
      <3> QED
        BY <2>1, <3>3 DEF ClerkPlaces
    <2>2. CASE ~(clerk[c].at = "undoing" /\ clerk[c].of = b)
      BY <2>2 DEF LateWork, ImportsShape
    <2> QED
      BY <2>1, <2>2
  <1>2. clerk' \in [Clerks -> ClerkPlaces]
    BY <1>1 DEF LateWork
  <1>3. batch'[b] = y /\ \A d \in ImportIds : d # b => batch'[d] = batch[d]
    BY DEF ImportsShape, ImportsTypeOK
  <1>4. ASSUME NEW c \in Clerks, clerk'[c].at = "undoing"
        PROVE  batch'[clerk'[c].of].work \cap kind.asks \subseteq clerk'[c].late
    <2>1. batch[clerk[c].of].work \cap kind.asks \subseteq clerk[c].late /\ clerk[c].of \in ImportIds
      BY <1>1, <1>4, ClerkFields DEF UndosKnow
    <2> QED
      BY <1>1, <1>3, <1>4, <2>1
  <1> QED
    BY <1>1, <1>2, <1>4 DEF UndosKnow

LEMMA WorkOnKeeps ==
    ASSUME ImportsInv, NEW b \in ImportIds, NEW what \in {"edit", "kids"}, WorkOn(b, what)
    PROVE  ImportsInv'
  <1> DEFINE y == [batch[b] EXCEPT !.work = batch[b].work \cup {what}]
  <1>1. /\ batch' = [batch EXCEPT ![b] = y] /\ clerk' = LateWork(b, what)
        /\ UNCHANGED <<kind, typed, owner, lost>> /\ Live(b)
    BY DEF WorkOn, ImportsInv, ImportsShape, ImportsTypeOK
  <1>2. batch[b] \in BatchRows
    BY BatchFields DEF ImportsInv, ImportsShape
  <1>3. y \in BatchRows /\ y.work = batch[b].work \cup {what} /\ y.seen = batch[b].seen /\ y.names = batch[b].names
        /\ y.aside = batch[b].aside /\ y.status = batch[b].status
    BY <1>2 DEF BatchRows
  <1> HIDE DEF y
  <1>4. y.status # "none" /\ Rows(y) = Rows(batch[b])
    BY <1>1, <1>3 DEF ImportsInv, RowsAreMade, Live, Rows
  <1>5. kind.names = "indexed" => \A d \in ImportIds \ {b} : y.names \cap batch[d].names = {}
    BY <1>3 DEF ImportsInv, IndexHolds
  <1>6. /\ clerk' \in [Clerks -> ClerkPlaces] /\ UndosKnow'
        /\ \A c \in Clerks : clerk'[c].at = "checked" => clerk[c].at = "checked" /\ clerk'[c].seen = clerk[c].seen
    BY <1>1, <1>3, LateIsKnown
  <1>7. lost' = {}
    BY <1>1 DEF ImportsInv
  <1> QED
    BY <1>1, <1>3, <1>4, <1>5, <1>6, <1>7, BatchMoves

LEMMA PutAsideKeeps ==
    ASSUME ImportsInv, NEW b \in ImportIds, NEW n \in RowNames, PutAside(b, n)
    PROVE  ImportsInv'
  <1> DEFINE N == batch[b].names \ {n}
             A == batch[b].aside \cup {n}
             W == batch[b].work \cup {"edit"}
             y == Changed(batch[b], N, A, W)
  <1>1. batch[b] \in BatchRows /\ batch \in [ImportIds -> BatchRows]
    BY BatchFields DEF ImportsInv, ImportsShape, ImportsTypeOK, BatchRows
  <1>3. /\ batch' = [batch EXCEPT ![b] = y] /\ clerk' = LateWork(b, "edit")
        /\ UNCHANGED <<kind, typed, owner, lost>> /\ n \in batch[b].names
    BY <1>1 DEF PutAside
  <1>4. /\ y \in BatchRows /\ y.work = batch[b].work \cup {"edit"} /\ y.seen = batch[b].seen
        /\ y.names = N /\ y.aside = A /\ y.status = batch[b].status
    BY <1>1 DEF BatchRows, Changed
  <1> HIDE DEF y
  <1>5. y.status # "none" /\ Rows(y) = Rows(batch[b])
    BY <1>3, <1>4 DEF ImportsInv, RowsAreMade, Rows
  <1>6. kind.names = "indexed" => \A d \in ImportIds \ {b} : y.names \cap batch[d].names = {}
    BY <1>4 DEF ImportsInv, IndexHolds
  <1>7. /\ clerk' \in [Clerks -> ClerkPlaces] /\ UndosKnow'
        /\ \A c \in Clerks : clerk'[c].at = "checked" => clerk[c].at = "checked" /\ clerk'[c].seen = clerk[c].seen
    BY <1>3, <1>4, LateIsKnown
  <1>8. lost' = {}
    BY <1>3 DEF ImportsInv
  <1> QED
    BY <1>3, <1>4, <1>5, <1>6, <1>7, <1>8, BatchMoves

LEMMA TakeBackKeeps ==
    ASSUME ImportsInv, NEW b \in ImportIds, NEW n \in RowNames, TakeBack(b, n)
    PROVE  ImportsInv'
  <1> DEFINE N == batch[b].names \cup {n}
             A == batch[b].aside \ {n}
             W == batch[b].work \cup {"edit"}
             y == Changed(batch[b], N, A, W)
  <1>1. batch[b] \in BatchRows /\ batch \in [ImportIds -> BatchRows]
    BY BatchFields DEF ImportsInv, ImportsShape, ImportsTypeOK, BatchRows
  <1>3. /\ batch' = [batch EXCEPT ![b] = y] /\ clerk' = LateWork(b, "edit")
        /\ UNCHANGED <<kind, typed, owner, lost>> /\ n \in batch[b].aside
        /\ kind.names = "indexed" => n \notin Found
    BY <1>1 DEF TakeBack
  <1>4. /\ y \in BatchRows /\ y.work = batch[b].work \cup {"edit"} /\ y.seen = batch[b].seen
        /\ y.names = N /\ y.aside = A /\ y.status = batch[b].status
    BY <1>1 DEF BatchRows, Changed
  <1> HIDE DEF y
  <1>5. y.status # "none" /\ Rows(y) = Rows(batch[b])
    BY <1>3, <1>4 DEF ImportsInv, RowsAreMade, Rows
  <1>6. kind.names = "indexed" => \A d \in ImportIds \ {b} : y.names \cap batch[d].names = {}
    <2>1. \A d \in ImportIds : batch[d].names \subseteq Found
      BY DEF Found
    <2> QED
      BY <1>3, <1>4, <2>1 DEF ImportsInv, IndexHolds
  <1>7. /\ clerk' \in [Clerks -> ClerkPlaces] /\ UndosKnow'
        /\ \A c \in Clerks : clerk'[c].at = "checked" => clerk[c].at = "checked" /\ clerk'[c].seen = clerk[c].seen
    BY <1>3, <1>4, LateIsKnown
  <1>8. lost' = {}
    BY <1>3 DEF ImportsInv
  <1> QED
    BY <1>3, <1>4, <1>5, <1>6, <1>7, <1>8, BatchMoves

LEMMA DeleteRowKeeps ==
    ASSUME ImportsInv, NEW b \in ImportIds, NEW n \in RowNames, DeleteRow(b, n)
    PROVE  ImportsInv'
  <1> USE DEF ImportsInv
  <1> DEFINE N == batch[b].names \ {n}
             A == batch[b].aside \ {n}
             W == IF Rows(batch[b]) = {n} THEN {} ELSE batch[b].work
             y == Changed(batch[b], N, A, W)
  <1>1. batch[b] \in BatchRows /\ batch \in [ImportIds -> BatchRows]
    BY BatchFields DEF ImportsShape, ImportsTypeOK, BatchRows
  <1>4. /\ batch' = [batch EXCEPT ![b] = y] /\ UNCHANGED <<kind, typed, owner, clerk, lost>>
        /\ n \in Rows(batch[b])
    BY <1>1 DEF DeleteRow
  <1>5. W \subseteq batch[b].work
    OBVIOUS
  <1>6. /\ y \in BatchRows /\ y.work = W /\ y.seen = batch[b].seen
        /\ y.names = N /\ y.aside = A /\ y.status = batch[b].status
    BY <1>1, <1>5 DEF BatchRows, Changed
  <1> HIDE DEF y, W
  <1>7. y.status # "none" /\ Rows(y) \subseteq Rows(batch[b])
    BY <1>4, <1>6 DEF RowsAreMade, Rows
  <1>8. kind.names = "indexed" => \A d \in ImportIds \ {b} : y.names \cap batch[d].names = {}
    BY <1>6 DEF IndexHolds
  <1>9. UndosKnow'
    <2>1. \A d \in ImportIds : batch'[d].work \subseteq batch[d].work
      BY <1>1, <1>4, <1>5, <1>6
    <2>2. \A c \in Clerks : clerk[c].at = "undoing" => clerk[c].of \in ImportIds
      BY ClerkFields
    <2> QED
      BY <1>4, <2>1, <2>2 DEF UndosKnow
  <1>10. clerk' \in [Clerks -> ClerkPlaces] /\ lost' = {}
    BY <1>4 DEF ImportsShape
  <1>11. \A c \in Clerks : clerk'[c].at = "checked" => clerk[c].at = "checked" /\ clerk'[c].seen = clerk[c].seen
    BY <1>4
  <1> QED
    BY <1>4, <1>6, <1>7, <1>8, <1>9, <1>10, <1>11, BatchMoves

LEMMA BeginUndoKeeps ==
    ASSUME ImportsInv, NEW c \in Clerks, NEW b \in ImportIds, BeginUndo(c, b)
    PROVE  ImportsInv'
  <1> DEFINE x == [at |-> "undoing", of |-> b, late |-> {}]
  <1>1. clerk' = [clerk EXCEPT ![c] = x] /\ UNCHANGED <<kind, batch, typed, owner, lost>>
    BY DEF BeginUndo
  <1>2. x \in ClerkPlaces /\ x.at = "undoing" /\ x.of = b /\ x.late = {}
    BY DEF ClerkPlaces
  <1>3. batch[b].work \cap kind.asks = {} /\ \A d \in Clerks : ~(clerk[d].at = "undoing" /\ clerk[d].of = b)
    BY DEF BeginUndo, Untouched
  <1> HIDE DEF x
  <1> QED
    BY <1>1, <1>2, <1>3, ClerkMoves

(* The import loses its rows, and all work on them came late. *)
LEMMA FinishUndoKeeps ==
    ASSUME ImportsInv, NEW c \in Clerks, FinishUndo(c)
    PROVE  ImportsInv'
  <1> USE DEF ImportsInv
  <1> DEFINE b == clerk[c].of
             y == [NoBatch EXCEPT !.status = "undone"]
  <1>1. /\ clerk' = [clerk EXCEPT ![c] = IdleClerk] /\ UNCHANGED <<kind, typed, owner>>
        /\ clerk[c].at = "undoing" /\ b \in ImportIds
    BY ClerkFields DEF FinishUndo
  <1>2. CASE UNCHANGED <<batch, lost>>
    BY <1>1, <1>2, IdlePlace, ClerkMoves
  <1>3. CASE /\ batch' = [batch EXCEPT ![b] = y]
             /\ lost' = lost \cup ((batch[b].work \cap kind.asks) \ clerk[c].late)
    <2>1. lost' = {}
      BY <1>1, <1>3 DEF UndosKnow
    <2>2. y \in BatchRows /\ y.names = {} /\ Rows(y) = {} /\ y.work = {} /\ y.seen = {} /\ y.status # "none"
      BY DEF NoBatch, BatchRows, Rows
    <2> HIDE DEF y
    <2>3. batch'[b] = y /\ \A d \in ImportIds : d # b => batch'[d] = batch[d]
      BY <1>1, <1>3 DEF ImportsShape, ImportsTypeOK
    <2>4. /\ clerk'[c] = IdleClerk /\ \A d \in Clerks : d # c => clerk'[d] = clerk[d]
          /\ clerk' \in [Clerks -> ClerkPlaces]
      BY <1>1, IdlePlace DEF ImportsShape
    <2>5. UndosKnow'
      <3>1. \A d \in Clerks : clerk[d].at = "undoing" => clerk[d].of \in ImportIds
        BY ClerkFields
      <3> QED
        BY <1>1, <2>2, <2>3, <2>4, <3>1, IdlePlace DEF UndosKnow
    <2>6. \A d \in Clerks : clerk'[d].at = "checked" => clerk[d].at = "checked" /\ clerk'[d].seen = clerk[d].seen
      BY <2>4, IdlePlace
    <2> HIDE DEF b
    <2> QED
      BY <1>1, <1>3, <2>1, <2>2, <2>4, <2>5, <2>6, BatchMoves
  <1> QED
    BY <1>2, <1>3 DEF FinishUndo

LEMMA DeleteOwnerKeeps ==
    ASSUME ImportsInv, DeleteOwner
    PROVE  ImportsInv'
  <1> USE DEF ImportsInv
  <1>1. owner = "asked" /\ UNCHANGED <<kind, clerk, lost>> /\ kind.points # "nothing"
    BY DEF DeleteOwner, OwnersCount
  <1>2. CASE owner' = "there" /\ UNCHANGED <<batch, typed>>
    <2>1. ImportsShape'
      BY <1>1, <1>2 DEF ImportsShape, ImportsTypeOK
    <2> QED
      BY <1>1, <1>2, <2>1 DEF RowsAreMade, UndosKnow, SeenStays, Unshared, OwnersCount, IndexHolds
  <1>3. CASE /\ owner' = "gone" /\ typed' = NoRows
             /\ batch' = [b \in ImportIds |-> Changed(batch[b], {}, {}, {})]
    <2>1. ASSUME NEW b \in ImportIds
          PROVE  /\ batch'[b] \in BatchRows /\ batch'[b].names = {} /\ Rows(batch'[b]) = {} /\ batch'[b].work = {}
                 /\ batch'[b].seen = batch[b].seen /\ batch'[b].status = batch[b].status
      <3>1. batch[b] \in BatchRows
        BY BatchFields DEF ImportsShape
      <3>2. batch'[b] = Changed(batch[b], {}, {}, {})
        BY <1>3
      <3> QED
        BY <3>1, <3>2 DEF BatchRows, Rows, Changed
    <2>2. ImportsShape'
      <3>1. batch' \in [ImportIds -> BatchRows]
        BY <1>3, <2>1
      <3> QED
        BY <1>1, <1>3, <3>1 DEF ImportsShape, ImportsTypeOK, BatchRows, NoRows
    <2>3. UndosKnow'
      <3>1. \A d \in Clerks : clerk[d].at = "undoing" => clerk[d].of \in ImportIds
        BY ClerkFields
      <3> QED
        BY <1>1, <2>1, <3>1 DEF UndosKnow
    <2>4. SeenStays'
      <3>1. ASSUME NEW b \in ImportIds, NEW n \in RowNames, Unshared(b, n)
            PROVE  Unshared(b, n)'
        BY <1>1, <2>1, <3>1 DEF Unshared
      <3>2. \A d \in ImportIds : \A b \in ImportIds, n \in RowNames : <<b, n>> \in batch'[d].seen => Unshared(b, n)'
        BY <2>1, <3>1 DEF SeenStays
      <3>3. \A c \in Clerks : clerk'[c].at = "checked" =>
              \A b \in ImportIds, n \in RowNames : <<b, n>> \in clerk'[c].seen => Unshared(b, n)'
        BY <1>1, <3>1 DEF SeenStays
      <3> QED
        BY <3>2, <3>3 DEF SeenStays
    <2>5. OwnersCount'
      BY <1>1, <1>3, <2>1 DEF OwnersCount, NoRows, Rows
    <2>6. RowsAreMade' /\ IndexHolds'
      BY <2>1 DEF RowsAreMade, IndexHolds
    <2> QED
      BY <1>1, <2>2, <2>3, <2>4, <2>5, <2>6
  <1> QED
    BY <1>2, <1>3 DEF DeleteOwner

LEMMA ImportsStep == ImportsInv /\ [ImportsNext]_importVars => ImportsInv'
  <1> SUFFICES ASSUME ImportsInv, [ImportsNext]_importVars
               PROVE  ImportsInv'
    OBVIOUS
  <1> USE DEF ImportsInv
  <1>1. CASE UNCHANGED importVars
    <2>1. ImportsShape'
      BY <1>1 DEF importVars, ImportsShape, ImportsTypeOK
    <2> QED
      BY <1>1, <2>1 DEF importVars, RowsAreMade, UndosKnow, SeenStays, Unshared, OwnersCount, IndexHolds
  <1>2. ASSUME NEW names \in SUBSET RowNames, NEW aside \in SUBSET RowNames, SaveRows(names, aside)
        PROVE  ImportsInv'
    <2>1. UNCHANGED <<kind, batch, owner, clerk, lost>> /\ typed' = [names |-> names, aside |-> aside]
      BY <1>2 DEF SaveRows
    <2>2. ImportsShape'
      BY <2>1 DEF ImportsShape, ImportsTypeOK
    <2>3. OwnersCount'
      BY <1>2, <2>1 DEF SaveRows, OwnersCount, Rows
    <2> QED
      BY <2>1, <2>2, <2>3 DEF RowsAreMade, UndosKnow, SeenStays, Unshared, IndexHolds
  <1>3. CASE AskOwner
    <2>1. UNCHANGED <<kind, batch, typed, clerk, lost>> /\ owner' = "asked" /\ kind.points # "nothing"
      BY <1>3 DEF AskOwner
    <2>2. ImportsShape'
      BY <2>1 DEF ImportsShape, ImportsTypeOK
    <2> QED
      BY <2>1, <2>2 DEF RowsAreMade, UndosKnow, SeenStays, Unshared, OwnersCount, IndexHolds
  <1>4. ASSUME NEW c \in Clerks, NEW names \in SUBSET RowNames, NEW asked \in Asked(names),
               ValidateImport(c, names, asked)
        PROVE  ImportsInv'
    BY <1>4, ValidateKeeps
  <1>5. ASSUME NEW b \in ImportIds, NEW n \in RowNames, PutAside(b, n) \/ TakeBack(b, n) \/ DeleteRow(b, n)
        PROVE  ImportsInv'
    BY <1>5, PutAsideKeeps, TakeBackKeeps, DeleteRowKeeps
  <1> QED
    BY <1>1, <1>2, <1>3, <1>4, <1>5, ConfirmKeeps, WorkOnKeeps, BeginUndoKeeps, FinishUndoKeeps, DeleteOwnerKeeps
       DEF ImportsNext

(* An undo takes no work it asks about that was there when it asked, nothing points to a row that is gone, and   *)
(* imports share a name only where neither could be found while the other was checked and no index refuses       *)
(* (undo_batch of app/admin_tools.py: "undoing would lose that work. Nothing was changed."): for every kind, any *)
(* admins, imports and rows, however rows are renamed, stopped and deleted in between.                           *)
THEOREM UndoKeepsWork == ImportsSpec => []ImportsKeepWork
  <1>1. ASSUME ImportsInv
        PROVE  ImportsKeepWork
    <2>1. owner = "gone" => ~RowsThere
      BY <1>1 DEF ImportsInv, OwnersCount, RowsThere, Live
    <2>2. ASSUME NEW b \in ImportIds, NEW d \in ImportIds, b # d
          PROVE  ToldApart(b, d)
      <3> SUFFICES ASSUME NEW n \in batch[b].names \cap batch[d].names
                   PROVE  /\ kind.names # "indexed"
                          /\ kind.names = "checked" => <<b, n>> \notin batch[d].seen /\ <<d, n>> \notin batch[b].seen
        BY DEF ToldApart
      <3>1. n \in RowNames /\ n \in Rows(batch[b]) /\ n \in Rows(batch[d])
        BY <1>1, BatchFields DEF ImportsInv, ImportsShape, Rows
      <3> QED
        BY <1>1, <2>2, <3>1 DEF ImportsInv, IndexHolds, SeenStays, Unshared
    <2> QED
      BY <1>1, <2>1, <2>2 DEF ImportsInv, ImportsKeepWork
  <1> QED
    BY ImportsStart, ImportsStep, <1>1, PTL DEF ImportsSpec
=============================================================================
