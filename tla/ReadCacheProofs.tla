--------------------------- MODULE ReadCacheProofs --------------------------
(***************************************************************************)
(* Proofs about ReadCache, for any number of threads, tables and writes.   *)
(***************************************************************************)
EXTENDS ReadCache, TLAPS

(***************************************************************************)
(* The inductive invariant.  What keeps a read fresh is a fact about every *)
(* copy, in the cache or in the hands of a thread that is about to store   *)
(* it: under the present versions it holds what every finished writer      *)
(* wrote, and it is good enough for every question that took the same      *)
(* versions.                                                               *)
(***************************************************************************)
Asking(w) == ask[w].at \in {"asked", "missed", "loaded"}

GoodCopy(t, seen, rows) ==
    /\ rows \in Nat
    /\ seen[1] <= versions[t] /\ seen[2] <= versions["*"]
    /\ seen = Snapshot(t) => rows >= finished[t]
    /\ \A w \in Threads : Asking(w) /\ ask[w].t = t /\ ask[w].seen = seen => rows >= ask[w].floor

CopiesAreGood ==
    /\ \A t \in Tables : cache[t] # None => GoodCopy(t, cache[t].seen, cache[t].rows)
    /\ \A w \in Threads : ask[w].at = "loaded" => GoodCopy(ask[w].t, ask[w].seen, ask[w].rows)

\* A thread that may be answered from a copy has not written that table itself.
AskersAreClean ==
    \A w \in Threads :
        /\ ask[w] # Idle => txn[w].made = {}
        /\ Asking(w) => ask[w].t \notin txn[w].wrote

\* What was taken down when a question was asked is not ahead of its time.
FloorsAreOld ==
    \A w \in Threads : ask[w] # Idle =>
        /\ ask[w].floor <= finished[ask[w].t]
        /\ Asking(w) => ask[w].seen[1] <= versions[ask[w].t] /\ ask[w].seen[2] <= versions["*"]

\* Finished writes are committed ones, and every table written will be bumped.
WritesAreTracked ==
    /\ \A t \in Tables : finished[t] <= table[t]
    /\ \A w \in Threads, t \in Tables :
          /\ t \in txn[w].wrote => t \in txn[w].dirty \/ "*" \in txn[w].dirty
          /\ \A n \in Nat : <<t, n>> \in txn[w].made =>
                n <= table[t] /\ (t \in txn[w].dirty \/ "*" \in txn[w].dirty)

IInv ==
    /\ TypeOK
    /\ CopiesAreGood
    /\ AskersAreClean
    /\ FloorsAreOld
    /\ WritesAreTracked
    /\ ReadIsFresh

(***************************************************************************)
(* Shapes.                                                                 *)
(***************************************************************************)

\* A question has a table, and what it took down are numbers.
LEMMA QuestionShape ==
    ASSUME TypeOK, NEW w \in Threads, ask[w] # Idle
    PROVE  /\ ask[w].t \in Tables /\ ask[w].floor \in Nat
           /\ ask[w].at \in {"direct", "asked", "missed", "loaded", "answered"}
           /\ ask[w].at # "answered" => ask[w].seen \in Seen
           /\ ask[w].at \in {"loaded", "answered"} => ask[w].rows \in Contents
BY DEF TypeOK, Question

\* A thread that is not in read() asks nothing.
LEMMA IdleShape == Idle.at = "idle" /\ Idle \in Question
BY DEF Idle, Question

\* A copy has versions and rows; no copy has neither.
LEMMA CopyShape ==
    ASSUME TypeOK, NEW t \in Tables, cache[t] # None
    PROVE  cache[t].seen \in Seen /\ cache[t].rows \in Contents
BY DEF TypeOK

LEMMA SnapshotShape == TypeOK => \A t \in Tables : Snapshot(t) \in Seen
BY DEF TypeOK, Snapshot, Seen, Counts

LEMMA TxnShape ==
    ASSUME TypeOK, NEW w \in Threads
    PROVE  /\ txn[w].wrote \in SUBSET Tables /\ txn[w].dirty \in SUBSET Counts
           /\ txn[w].made \in SUBSET (Tables \X Nat)
BY DEF TypeOK

\* A place in read() that a thread may come to.
LEMMA NewQuestion ==
    ASSUME NEW t \in Tables, NEW seen \in Seen, NEW floor \in Nat, NEW rows \in Contents
    PROVE  /\ \A at \in {"direct", "asked", "missed"} :
                [at |-> at, t |-> t, seen |-> seen, floor |-> floor] \in Question
           /\ [at |-> "loaded", t |-> t, seen |-> seen, floor |-> floor, rows |-> rows] \in Question
           /\ [at |-> "answered", t |-> t, floor |-> floor, rows |-> rows] \in Question
BY DEF Question

\* What the database answers are contents of a table.
LEMMA RowsShape ==
    ASSUME TypeOK, NEW w \in Threads, NEW t \in Tables
    PROVE  Rows(w, t) \in Contents
BY DEF TypeOK, Rows, Contents

(***************************************************************************)
(* Every step keeps the shapes.                                            *)
(***************************************************************************)

\* Being answered keeps the shapes of the questions.
LEMMA AnsweredTypes ==
    ASSUME TypeOK, NEW w \in Threads, ask[w] # Idle, NEW rows \in Contents, Answered(w, rows)
    PROVE  ask' \in [Threads -> Question]
<1> DEFINE j == [at |-> "answered", t |-> ask[w].t, floor |-> ask[w].floor, rows |-> rows]
<1>1. ask \in [Threads -> Question] /\ ask' = [ask EXCEPT ![w] = j]
  BY DEF TypeOK, Answered
<1>2. j \in Question
  BY QuestionShape DEF Question
<1> HIDE DEF j
<1> QED
  BY <1>1, <1>2

\* A commit writes numbers, and remembers which it wrote.
LEMMA WrittenShape ==
    ASSUME TypeOK, NEW w \in Threads
    PROVE  /\ Written(w) \in [Tables -> Nat]
           /\ {<<t, Written(w)[t]>> : t \in txn[w].wrote} \in SUBSET (Tables \X Nat)
<1>1. Written(w) \in [Tables -> Nat]
  BY DEF TypeOK, Written
<1>2. txn[w].wrote \in SUBSET Tables
  BY TxnShape
<1> QED
  BY <1>1, <1>2

LEMMA TypeInit == Init => TypeOK
BY DEF Init, TypeOK, None, Idle, NoTxn, Question, Counts

LEMMA TypeStep ==
    ASSUME TypeOK, [Next]_vars
    PROVE  TypeOK'
<1>1. CASE UNCHANGED vars
  BY <1>1 DEF TypeOK, vars
<1>2. ASSUME NEW w \in Threads, NEW t \in Tables, Ask(w, t) PROVE TypeOK'
  <2> DEFINE at == IF MustLoad(w, t) THEN "direct" ELSE "asked"
             j == [at |-> at, t |-> t, seen |-> Snapshot(t), floor |-> finished[t]]
  <2>1. at \in {"direct", "asked"} /\ Snapshot(t) \in Seen /\ finished[t] \in Nat
    BY SnapshotShape DEF TypeOK
  <2>2. ask' = [ask EXCEPT ![w] = j] /\ UNCHANGED <<table, versions, cache, txn, finished>>
    BY <1>2 DEF Ask
  <2> HIDE DEF at
  <2>3. j \in Question
    BY <2>1 DEF Question
  <2> HIDE DEF j
  <2> QED
    BY <2>2, <2>3 DEF TypeOK
<1>3. ASSUME NEW w \in Threads, NEW t \in Tables, NEW named \in {t, "*"}, Write(w, t, named)
      PROVE  TypeOK'
  BY <1>3 DEF Write, TypeOK, Counts
<1>4. ASSUME NEW w \in Threads, LockRows(w) PROVE TypeOK'
  BY <1>4 DEF LockRows, TypeOK, Counts
<1>5. ASSUME NEW w \in Threads, Commit(w) PROVE TypeOK'
  <2> DEFINE made == {<<t, Written(w)[t]>> : t \in txn[w].wrote}
  <2>1. txn' = [txn EXCEPT ![w] = [wrote |-> {}, dirty |-> txn[w].dirty, made |-> made]]
    BY <1>5 DEF Commit, TypeOK
  <2>2. made \in SUBSET (Tables \X Nat) /\ table' \in [Tables -> Nat] /\ txn[w].dirty \in SUBSET Counts
    BY <1>5, WrittenShape, TxnShape DEF Commit
  <2> HIDE DEF made
  <2> QED
    BY <1>5, <2>1, <2>2 DEF Commit, TypeOK
<1>6. ASSUME NEW w \in Threads, Bump(w) PROVE TypeOK'
  <2>1. versions' \in [Counts -> Nat]
    BY <1>6 DEF Bump, Bumped, TypeOK
  <2>2. finished' \in [Tables -> Nat]
    <3> SUFFICES ASSUME NEW t \in Tables PROVE finished'[t] \in Nat
      BY <1>6 DEF Bump
    <3> DEFINE P(n) == <<t, n>> \in txn[w].made /\ n > finished[t]
    <3>1. finished'[t] = IF \E n \in 1..MaxWrites : P(n) THEN CHOOSE n \in 1..MaxWrites : P(n)
                         ELSE finished[t]
      BY <1>6 DEF Bump
    <3>2. finished[t] \in Nat /\ 1..MaxWrites \subseteq Nat
      BY MaxWritesAssumption DEF TypeOK
    <3> HIDE DEF P
    <3>3. (\E n \in 1..MaxWrites : P(n)) => (CHOOSE n \in 1..MaxWrites : P(n)) \in 1..MaxWrites
      OBVIOUS
    <3> QED
      BY <3>1, <3>2, <3>3
  <2> QED
    BY <1>6, <2>1, <2>2 DEF Bump, TypeOK, NoTxn
<1>7. ASSUME NEW w \in Threads, Fail(w) PROVE TypeOK'
  BY <1>7, IdleShape DEF Fail, TypeOK, NoTxn
<1>8. ASSUME NEW w \in Threads, CommitUnheard(w) PROVE TypeOK'
  BY <1>8, WrittenShape DEF CommitUnheard, TypeOK, NoTxn
<1>9. ASSUME NEW w \in Threads, Hit(w) PROVE TypeOK'
  <2>1. ask[w] # Idle /\ ask[w].t \in Tables
    BY <1>9, QuestionShape, IdleShape DEF Hit
  <2>2. cache[ask[w].t].rows \in Contents
    BY <1>9, <2>1, CopyShape DEF Hit, IsHit
  <2> QED
    BY <1>9, <2>1, <2>2, AnsweredTypes DEF Hit, TypeOK
<1>10. ASSUME NEW w \in Threads, Miss(w) PROVE TypeOK'
  <2>1. ask[w] # Idle /\ ask[w].at = "asked" /\ ask[w] \in Question
    BY <1>10, IdleShape DEF Miss, TypeOK
  <2>2. [ask[w] EXCEPT !.at = "missed"] \in Question
    BY <2>1 DEF Question
  <2> QED
    BY <1>10, <2>2 DEF Miss, TypeOK
<1>11. ASSUME NEW w \in Threads, LoadDirect(w) PROVE TypeOK'
  <2>1. ask[w] # Idle /\ ask[w].t \in Tables
    BY <1>11, QuestionShape, IdleShape DEF LoadDirect
  <2>2. Rows(w, ask[w].t) \in Contents
    BY <2>1, RowsShape
  <2> QED
    BY <1>11, <2>1, <2>2, AnsweredTypes DEF LoadDirect, TypeOK
<1>12. ASSUME NEW w \in Threads, Load(w) PROVE TypeOK'
  <2> DEFINE j == [at |-> "loaded", t |-> ask[w].t, seen |-> ask[w].seen, floor |-> ask[w].floor,
                   rows |-> Rows(w, ask[w].t)]
  <2>1. /\ ask[w].t \in Tables /\ ask[w].floor \in Nat /\ ask[w].seen \in Seen
    BY <1>12, QuestionShape, IdleShape DEF Load
  <2>2. ask' = [ask EXCEPT ![w] = j] /\ UNCHANGED <<table, versions, cache, txn, finished>>
    BY <1>12 DEF Load, TypeOK
  <2>3. j \in Question
    BY <2>1, RowsShape, NewQuestion
  <2> HIDE DEF j
  <2> QED
    BY <2>2, <2>3 DEF TypeOK
<1>13. ASSUME NEW w \in Threads, Keep(w) PROVE TypeOK'
  <2>1. /\ ask[w] # Idle /\ ask[w].t \in Tables /\ ask[w].seen \in Seen /\ ask[w].rows \in Contents
    BY <1>13, QuestionShape, IdleShape DEF Keep
  <2>2. ask' \in [Threads -> Question]
    BY <1>13, <2>1, AnsweredTypes DEF Keep
  <2> QED
    BY <1>13, <2>1, <2>2 DEF Keep, TypeOK
<1>14. ASSUME NEW w \in Threads, Done(w) PROVE TypeOK'
  BY <1>14, IdleShape DEF Done, TypeOK
<1>15. ASSUME NEW t \in Tables, WriteBehind(t) \/ Drop(t) PROVE TypeOK'
  BY <1>15 DEF WriteBehind, Drop, TypeOK
<1> QED
  BY <1>1, <1>2, <1>3, <1>4, <1>5, <1>6, <1>7, <1>8, <1>9, <1>10, <1>11, <1>12, <1>13, <1>14, <1>15
     DEF Next

(***************************************************************************)
(* Steps that leave the versions alone and start or answer no question.    *)
(***************************************************************************)

\* No version moves, nothing finishes, and nobody begins to ask.
Calm ==
    /\ UNCHANGED <<versions, finished>>
    /\ \A x \in Threads : Asking(x)' =>
          /\ Asking(x)
          /\ ask'[x].t = ask[x].t /\ ask'[x].seen = ask[x].seen /\ ask'[x].floor = ask[x].floor

\* A good copy stays one over a calm step.
LEMMA CalmKeepsCopies ==
    Calm => \A t \in Tables : \A seen, rows : GoodCopy(t, seen, rows) => GoodCopy(t, seen, rows)'
BY DEF Calm, GoodCopy, Snapshot

\* Copies are good when each is equal to a good one.
LEMMA CopiesByValue ==
    ASSUME \A t \in Tables : cache'[t] # None => \E seen, rows :
               cache'[t].seen = seen /\ cache'[t].rows = rows /\ GoodCopy(t, seen, rows)',
           \A x \in Threads : ask'[x].at = "loaded" => \E t, seen, rows :
               /\ ask'[x].t = t /\ ask'[x].seen = seen /\ ask'[x].rows = rows
               /\ GoodCopy(t, seen, rows)'
    PROVE  CopiesAreGood'
<1>1. ASSUME NEW t \in Tables, cache'[t] # None
      PROVE  GoodCopy(t, cache[t].seen, cache[t].rows)'
  <2>1. PICK seen, rows : cache'[t].seen = seen /\ cache'[t].rows = rows /\ GoodCopy(t, seen, rows)'
    BY <1>1
  <2> QED
    BY <2>1 DEF GoodCopy
<1>2. ASSUME NEW x \in Threads, ask'[x].at = "loaded"
      PROVE  GoodCopy(ask[x].t, ask[x].seen, ask[x].rows)'
  <2>1. PICK t, seen, rows : /\ ask'[x].t = t /\ ask'[x].seen = seen /\ ask'[x].rows = rows
                             /\ GoodCopy(t, seen, rows)'
    BY <1>2
  <2> QED
    BY <2>1 DEF GoodCopy, Snapshot
<1> QED
  BY <1>1, <1>2 DEF CopiesAreGood

\* Copies stay good over a calm step that makes none, but may store one just read.
LEMMA CopiesStay ==
    ASSUME IInv, Calm,
           \A t \in Tables : \/ cache'[t] \in {cache[t], None}
                             \/ \E x \in Threads : /\ ask[x].at = "loaded" /\ ask[x].t = t
                                                   /\ cache'[t] = [seen |-> ask[x].seen, rows |-> ask[x].rows],
           \A x \in Threads : ask'[x].at = "loaded" => ask'[x] = ask[x]
    PROVE  CopiesAreGood'
<1>1. ASSUME NEW t \in Tables, cache'[t] # None
      PROVE  \E seen, rows : cache'[t].seen = seen /\ cache'[t].rows = rows /\ GoodCopy(t, seen, rows)'
  <2>1. CASE cache'[t] \in {cache[t], None}
    BY <1>1, <2>1, CalmKeepsCopies DEF IInv, CopiesAreGood
  <2>2. ASSUME NEW x \in Threads, ask[x].at = "loaded", ask[x].t = t,
               cache'[t] = [seen |-> ask[x].seen, rows |-> ask[x].rows]
        PROVE  \E seen, rows : cache'[t].seen = seen /\ cache'[t].rows = rows /\ GoodCopy(t, seen, rows)'
    <3>1. GoodCopy(t, ask[x].seen, ask[x].rows)
      BY <2>2 DEF IInv, CopiesAreGood
    <3> QED
      BY <2>2, <3>1, CalmKeepsCopies
  <2> QED
    BY <2>1, <2>2
<1>2. ASSUME NEW x \in Threads, ask'[x].at = "loaded"
      PROVE  \E t, seen, rows : /\ ask'[x].t = t /\ ask'[x].seen = seen /\ ask'[x].rows = rows
                                /\ GoodCopy(t, seen, rows)'
  <2>1. ask'[x] = ask[x] /\ GoodCopy(ask[x].t, ask[x].seen, ask[x].rows)
    BY <1>2 DEF IInv, CopiesAreGood
  <2>2. ask[x].t \in Tables
    BY <1>2, <2>1, QuestionShape, IdleShape DEF IInv
  <2> QED
    BY <2>1, <2>2, CalmKeepsCopies
<1> QED
  BY <1>1, <1>2, CopiesByValue

\* No thread moves in read() but to leave it, and no copy is stored.
Quiet ==
    /\ UNCHANGED <<versions, finished>>
    /\ \A t \in Tables : cache'[t] \in {cache[t], None}
    /\ \A x \in Threads : ask'[x] = Idle \/ (ask'[x] = ask[x] /\ txn'[x] = txn[x])

\* A quiet step keeps everything but what is said of the writes.
LEMMA QuietStep ==
    ASSUME IInv, Quiet
    PROVE  CopiesAreGood' /\ AskersAreClean' /\ FloorsAreOld' /\ ReadIsFresh'
<1>1. Calm
  BY IdleShape DEF Quiet, Calm, Asking
<1>2. \A x \in Threads : ask'[x] # Idle => ask'[x] = ask[x] /\ txn'[x] = txn[x] /\ ask[x].t \in Tables
  BY QuestionShape DEF Quiet, IInv
<1>3. \A x \in Threads : ask'[x].at \in {"asked", "missed", "loaded", "answered"} => ask'[x] # Idle
  BY IdleShape
<1>4. CopiesAreGood'
  BY <1>1, <1>2, <1>3, CopiesStay DEF Quiet
<1>5. AskersAreClean'
  BY <1>2, <1>3 DEF IInv, AskersAreClean, Asking
<1>6. FloorsAreOld'
  BY <1>2, <1>3 DEF IInv, FloorsAreOld, Asking, Quiet
<1>7. ReadIsFresh'
  BY <1>2, <1>3 DEF IInv, ReadIsFresh
<1> QED
  BY <1>4, <1>5, <1>6, <1>7

(***************************************************************************)
(* The steps of read() after the versions were taken.                      *)
(***************************************************************************)

\* One thread moves on in read(), keeping what it took down when it asked.
Onward(w) ==
    /\ UNCHANGED <<table, versions, txn, finished>>
    /\ \A x \in Threads \ {w} : ask'[x] = ask[x]
    /\ ask[w] # Idle /\ ask'[w] # Idle
    /\ ask'[w].t = ask[w].t /\ ask'[w].floor = ask[w].floor
    /\ Asking(w)' => Asking(w) /\ ask'[w].seen = ask[w].seen

\* Moving on keeps what is said of the askers and the writes, and is calm.
LEMMA OnwardStep ==
    ASSUME IInv, NEW w \in Threads, Onward(w)
    PROVE  Calm /\ AskersAreClean' /\ FloorsAreOld' /\ WritesAreTracked'
<1>1. Calm
  BY DEF Onward, Calm, Asking
<1>2. AskersAreClean'
  BY DEF Onward, IInv, AskersAreClean, Asking
<1>3. FloorsAreOld'
  BY QuestionShape DEF Onward, IInv, FloorsAreOld, Asking
<1>4. WritesAreTracked'
  BY DEF Onward, IInv, WritesAreTracked
<1> QED
  BY <1>1, <1>2, <1>3, <1>4

\* The answer given is fresh when its rows are.
FreshRows(w, rows) ==
    IF ask[w].t \in txn[w].wrote THEN rows = Uncommitted ELSE rows \in Nat /\ rows >= ask[w].floor

\* An answer of fresh rows, with or without storing the copy, keeps the invariant.
LEMMA AnswerStep ==
    ASSUME IInv, NEW w \in Threads, ask[w] # Idle, NEW rows \in Contents, Answered(w, rows),
           FreshRows(w, rows), UNCHANGED <<table, versions, txn, finished>>,
           \/ UNCHANGED cache
           \/ /\ ask[w].at = "loaded"
              /\ cache' = [cache EXCEPT ![ask[w].t] = [seen |-> ask[w].seen, rows |-> ask[w].rows]]
    PROVE  CopiesAreGood' /\ AskersAreClean' /\ FloorsAreOld' /\ WritesAreTracked' /\ ReadIsFresh'
<1>1. /\ ask' = [ask EXCEPT ![w] = [at |-> "answered", t |-> ask[w].t, floor |-> ask[w].floor, rows |-> rows]]
      /\ ask \in [Threads -> Question]
  BY DEF Answered, IInv, TypeOK
<1>2. /\ ask'[w] = [at |-> "answered", t |-> ask[w].t, floor |-> ask[w].floor, rows |-> rows]
      /\ \A x \in Threads \ {w} : ask'[x] = ask[x]
  BY <1>1
<1>3. Onward(w)
  BY <1>2, IdleShape DEF Onward, Asking
<1>4. \A t \in Tables : \/ cache'[t] \in {cache[t], None}
                        \/ \E x \in Threads : /\ ask[x].at = "loaded" /\ ask[x].t = t
                                              /\ cache'[t] = [seen |-> ask[x].seen, rows |-> ask[x].rows]
  BY DEF IInv, TypeOK
<1>5. \A x \in Threads : ask'[x].at = "loaded" => ask'[x] = ask[x]
  BY <1>2
<1>6. CopiesAreGood'
  BY <1>3, <1>4, <1>5, OnwardStep, CopiesStay
<1>7. ReadIsFresh'
  <2> SUFFICES ASSUME NEW x \in Threads, ask'[x].at = "answered"
               PROVE  IF ask'[x].t \in txn'[x].wrote THEN ask'[x].rows = Uncommitted
                      ELSE ask'[x].rows \in Nat /\ ask'[x].rows >= ask'[x].floor
    BY DEF ReadIsFresh
  <2>1. CASE x = w
    BY <1>2, <2>1 DEF FreshRows
  <2>2. CASE x # w
    BY <1>2, <2>2 DEF IInv, ReadIsFresh
  <2> QED
    BY <2>1, <2>2
<1> QED
  BY <1>3, <1>6, <1>7, OnwardStep

(***************************************************************************)
(* The invariant, action by action.  TypeStep has the shapes.              *)
(***************************************************************************)
Rest == CopiesAreGood /\ AskersAreClean /\ FloorsAreOld /\ WritesAreTracked /\ ReadIsFresh

\* The versions are taken by a caller that has written nothing of that table.
LEMMA AskStep ==
    ASSUME IInv, NEW w \in Threads, NEW t \in Tables, Ask(w, t)
    PROVE  Rest'
<1> DEFINE j == [at |-> IF MustLoad(w, t) THEN "direct" ELSE "asked", t |-> t,
                 seen |-> Snapshot(t), floor |-> finished[t]]
<1>1. /\ ask'[w] = j /\ \A x \in Threads \ {w} : ask'[x] = ask[x]
      /\ UNCHANGED <<table, versions, cache, txn, finished>> /\ ask[w] = Idle /\ txn[w].made = {}
  BY DEF Ask, IInv, TypeOK, Working
<1>2. /\ j.t = t /\ j.floor = finished[t] /\ j.seen = Snapshot(t) /\ j.at \in {"direct", "asked"}
      /\ j.at = "asked" => ~MustLoad(w, t)
  OBVIOUS
<1> HIDE DEF j
<1>3. \A s \in Tables : \A seen, rows : GoodCopy(s, seen, rows) => GoodCopy(s, seen, rows)'
  <2> SUFFICES ASSUME NEW s \in Tables, NEW seen, NEW rows, GoodCopy(s, seen, rows)
               PROVE  GoodCopy(s, seen, rows)'
    OBVIOUS
  <2>1. /\ rows \in Nat /\ seen[1] <= versions[s] /\ seen[2] <= versions["*"]
        /\ seen = Snapshot(s) => rows >= finished[s]
    BY DEF GoodCopy
  <2>2. ASSUME NEW x \in Threads, Asking(x)', ask'[x].t = s, ask'[x].seen = seen
        PROVE  rows >= ask'[x].floor
    <3>1. CASE x = w
      BY <1>1, <1>2, <2>1, <2>2, <3>1
    <3>2. CASE x # w
      BY <1>1, <2>2, <3>2 DEF GoodCopy, Asking
    <3> QED
      BY <3>1, <3>2
  <2> QED
    BY <1>1, <2>1, <2>2 DEF GoodCopy, Snapshot
<1>4. \A s \in Tables : cache'[s] # None => \E seen, rows :
          cache'[s].seen = seen /\ cache'[s].rows = rows /\ GoodCopy(s, seen, rows)'
  BY <1>1, <1>3 DEF IInv, CopiesAreGood
<1>5. ASSUME NEW x \in Threads, ask'[x].at = "loaded"
      PROVE  \E s, seen, rows : /\ ask'[x].t = s /\ ask'[x].seen = seen /\ ask'[x].rows = rows
                                /\ GoodCopy(s, seen, rows)'
  <2>1. x # w /\ ask'[x] = ask[x]
    BY <1>1, <1>2, <1>5
  <2>2. ask[x].t \in Tables /\ GoodCopy(ask[x].t, ask[x].seen, ask[x].rows)
    BY <1>5, <2>1, QuestionShape, IdleShape DEF IInv, CopiesAreGood
  <2> QED
    BY <1>3, <2>1, <2>2
<1>6. CopiesAreGood'
  BY <1>4, <1>5, CopiesByValue
<1>7. AskersAreClean'
  <2>1. j.at = "asked" => t \notin txn[w].wrote
    BY <1>2 DEF MustLoad, IInv, WritesAreTracked
  <2> QED
    BY <1>1, <1>2, <2>1 DEF IInv, AskersAreClean, Asking
<1>8. FloorsAreOld'
  BY <1>1, <1>2 DEF IInv, FloorsAreOld, Asking, Snapshot, TypeOK, Counts
<1>9. WritesAreTracked' /\ ReadIsFresh'
  BY <1>1, <1>2 DEF IInv, WritesAreTracked, ReadIsFresh
<1> QED
  BY <1>6, <1>7, <1>8, <1>9 DEF Rest

\* The copy looked at is missing or of other versions.
LEMMA MissStep ==
    ASSUME IInv, NEW w \in Threads, Miss(w)
    PROVE  Rest'
<1>1. /\ ask[w] # Idle /\ ask'[w] = [ask[w] EXCEPT !.at = "missed"] /\ ask[w].at = "asked"
      /\ \A x \in Threads \ {w} : ask'[x] = ask[x]
      /\ UNCHANGED <<table, versions, cache, txn, finished>>
  BY IdleShape DEF Miss, IInv, TypeOK
<1>2. ask[w] \in [at : {"direct", "asked", "missed"}, t : Tables, seen : Seen, floor : Nat]
  BY <1>1 DEF IInv, TypeOK, Question
<1>3. /\ ask'[w].t = ask[w].t /\ ask'[w].seen = ask[w].seen /\ ask'[w].floor = ask[w].floor
      /\ ask'[w].at = "missed"
  BY <1>1, <1>2
<1>4. Onward(w)
  BY <1>1, <1>3, IdleShape DEF Onward, Asking
<1>5. CopiesAreGood'
  BY <1>1, <1>3, <1>4, OnwardStep, CopiesStay
<1>6. ReadIsFresh'
  BY <1>1, <1>3 DEF IInv, ReadIsFresh
<1> QED
  BY <1>4, <1>5, <1>6, OnwardStep DEF Rest

\* The query sees at least every write that had finished when it ran.
LEMMA LoadStep ==
    ASSUME IInv, NEW w \in Threads, Load(w)
    PROVE  Rest'
<1> DEFINE t == ask[w].t
           j == [at |-> "loaded", t |-> t, seen |-> ask[w].seen, floor |-> ask[w].floor,
                 rows |-> Rows(w, t)]
<1>1. /\ ask[w] # Idle /\ ask'[w] = j /\ ask[w].at = "missed"
      /\ \A x \in Threads \ {w} : ask'[x] = ask[x]
      /\ UNCHANGED <<table, versions, cache, txn, finished>>
  BY IdleShape DEF Load, IInv, TypeOK
<1>2. t \in Tables /\ ask[w].seen \in Seen /\ ask[w].floor \in Nat
  BY <1>1, QuestionShape DEF IInv
<1>3. j.t = t /\ j.seen = ask[w].seen /\ j.floor = ask[w].floor /\ j.at = "loaded" /\ j.rows = Rows(w, t)
  OBVIOUS
<1> HIDE DEF j
<1>4. Onward(w)
  BY <1>1, <1>3, IdleShape DEF Onward, Asking
<1>5. GoodCopy(t, ask[w].seen, table[t])
  <2>1. table[t] \in Nat /\ finished[t] \in Nat /\ table[t] >= finished[t]
    BY <1>2 DEF IInv, TypeOK, WritesAreTracked
  <2>2. ask[w].seen[1] <= versions[t] /\ ask[w].seen[2] <= versions["*"]
    BY <1>1 DEF IInv, FloorsAreOld, Asking
  <2>3. ASSUME NEW x \in Threads, Asking(x), ask[x].t = t
        PROVE  table[t] >= ask[x].floor
    <3>1. ask[x] # Idle
      BY <2>3, IdleShape DEF Asking
    <3>2. ask[x].floor <= finished[t] /\ ask[x].floor \in Nat
      BY <2>3, <3>1, QuestionShape DEF IInv, FloorsAreOld
    <3> QED
      BY <2>1, <3>2
  <2> HIDE DEF t
  <2> QED
    BY <2>1, <2>2, <2>3 DEF GoodCopy
<1>6. Rows(w, t) = table[t]
  BY <1>1 DEF Rows, IInv, AskersAreClean, Asking
<1>7. Calm
  BY <1>4, OnwardStep
<1>8. \A s \in Tables : cache'[s] # None => \E seen, rows :
          cache'[s].seen = seen /\ cache'[s].rows = rows /\ GoodCopy(s, seen, rows)'
  BY <1>1, <1>7, CalmKeepsCopies DEF IInv, CopiesAreGood
<1>9. ASSUME NEW x \in Threads, ask'[x].at = "loaded"
      PROVE  \E s, seen, rows : /\ ask'[x].t = s /\ ask'[x].seen = seen /\ ask'[x].rows = rows
                                /\ GoodCopy(s, seen, rows)'
  <2>1. CASE x = w
    BY <1>1, <1>2, <1>3, <1>5, <1>6, <1>7, <2>1, CalmKeepsCopies
  <2>2. CASE x # w
    <3>1. ask'[x] = ask[x] /\ ask[x].t \in Tables /\ GoodCopy(ask[x].t, ask[x].seen, ask[x].rows)
      BY <1>1, <1>9, <2>2, QuestionShape, IdleShape DEF IInv, CopiesAreGood
    <3> QED
      BY <1>7, <3>1, CalmKeepsCopies
  <2> QED
    BY <2>1, <2>2
<1>10. CopiesAreGood'
  BY <1>8, <1>9, CopiesByValue
<1>11. ReadIsFresh'
  BY <1>1, <1>3 DEF IInv, ReadIsFresh
<1> QED
  BY <1>4, <1>10, <1>11, OnwardStep DEF Rest

\* A finished write outdates every copy of its table: its versions are gone for good.
LEMMA BumpStep ==
    ASSUME IInv, NEW w \in Threads, Bump(w)
    PROVE  Rest'
<1>1. /\ UNCHANGED <<table, cache, ask>> /\ ask[w] = Idle
      /\ \A x \in Threads \ {w} : txn'[x] = txn[x]
      /\ txn'[w] = NoTxn
  BY DEF Bump, IInv, TypeOK
<1>2. \A t \in Tables :
          /\ versions[t] \in Nat /\ versions["*"] \in Nat
          /\ versions'[t] = IF t \in txn[w].dirty THEN versions[t] + 1 ELSE versions[t]
          /\ versions'["*"] = IF "*" \in txn[w].dirty THEN versions["*"] + 1 ELSE versions["*"]
  BY DEF Bump, Bumped, IInv, TypeOK, Counts
<1>3. ASSUME NEW t \in Tables
      PROVE  \/ finished'[t] = finished[t]
             \/ /\ finished'[t] \in Nat /\ finished'[t] > finished[t]
                /\ <<t, finished'[t]>> \in txn[w].made
  <2> DEFINE P(n) == <<t, n>> \in txn[w].made /\ n > finished[t]
  <2>1. finished'[t] = IF \E n \in 1..MaxWrites : P(n) THEN CHOOSE n \in 1..MaxWrites : P(n)
                       ELSE finished[t]
    BY DEF Bump
  <2> HIDE DEF P
  <2>2. CASE \E n \in 1..MaxWrites : P(n)
    <3>1. finished'[t] \in 1..MaxWrites /\ P(finished'[t])
      BY <2>1, <2>2
    <3> QED
      BY <3>1, MaxWritesAssumption DEF P
  <2>3. CASE ~\E n \in 1..MaxWrites : P(n)
    BY <2>1, <2>3
  <2> QED
    BY <2>2, <2>3
<1>4. \A t \in Tables : finished[t] \in Nat /\ finished'[t] \in Nat /\ finished'[t] >= finished[t]
  <2> SUFFICES ASSUME NEW t \in Tables
               PROVE  finished[t] \in Nat /\ finished'[t] \in Nat /\ finished'[t] >= finished[t]
    OBVIOUS
  <2>1. finished[t] \in Nat
    BY DEF IInv, TypeOK
  <2>2. finished'[t] = finished[t] \/ (finished'[t] \in Nat /\ finished'[t] > finished[t])
    BY <1>3
  <2> QED
    BY <2>1, <2>2
<1>5. ASSUME NEW t \in Tables, finished'[t] # finished[t]
      PROVE  t \in txn[w].dirty \/ "*" \in txn[w].dirty
  BY <1>3, <1>5 DEF IInv, WritesAreTracked
<1>6. ASSUME NEW t \in Tables, NEW seen, seen[1] \in Nat, seen[2] \in Nat,
             NEW rows, GoodCopy(t, seen, rows)
      PROVE  GoodCopy(t, seen, rows)'
  <2>1. seen[1] <= versions[t] /\ seen[2] <= versions["*"] /\ rows \in Nat
    BY <1>6 DEF GoodCopy
  <2>2. seen[1] <= versions'[t] /\ seen[2] <= versions'["*"]
    BY <1>2, <1>6, <2>1
  <2>3. ASSUME seen = Snapshot(t)' PROVE rows >= finished'[t]
    <3>1. seen[1] = versions'[t] /\ seen[2] = versions'["*"]
      BY <2>3 DEF Snapshot
    <3>2. t \notin txn[w].dirty /\ "*" \notin txn[w].dirty
      BY <1>2, <1>6, <2>1, <3>1
    <3>3. finished'[t] = finished[t] /\ versions'[t] = versions[t] /\ versions'["*"] = versions["*"]
      BY <1>2, <1>5, <3>2
    <3>4. seen = Snapshot(t)
      BY <2>3, <3>3 DEF Snapshot
    <3> QED
      BY <1>6, <3>3, <3>4 DEF GoodCopy
  <2>4. \A x \in Threads : Asking(x)' /\ ask'[x].t = t /\ ask'[x].seen = seen => rows >= ask'[x].floor
    BY <1>1, <1>6 DEF GoodCopy, Asking
  <2> QED
    BY <2>1, <2>2, <2>3, <2>4 DEF GoodCopy
<1>7. ASSUME NEW t \in Tables, cache'[t] # None
      PROVE  \E seen, rows : cache'[t].seen = seen /\ cache'[t].rows = rows /\ GoodCopy(t, seen, rows)'
  <2>1. cache[t].seen \in Seen /\ GoodCopy(t, cache[t].seen, cache[t].rows)
    BY <1>1, <1>7, CopyShape DEF IInv, CopiesAreGood
  <2> QED
    BY <1>1, <1>6, <2>1 DEF Seen
<1>8. ASSUME NEW x \in Threads, ask'[x].at = "loaded"
      PROVE  \E t, seen, rows : /\ ask'[x].t = t /\ ask'[x].seen = seen /\ ask'[x].rows = rows
                                /\ GoodCopy(t, seen, rows)'
  <2>1. /\ ask[x].t \in Tables /\ ask[x].seen \in Seen
        /\ GoodCopy(ask[x].t, ask[x].seen, ask[x].rows)
    BY <1>1, <1>8, QuestionShape, IdleShape DEF IInv, CopiesAreGood
  <2> QED
    BY <1>1, <1>6, <2>1 DEF Seen
<1>9. CopiesAreGood'
  BY <1>7, <1>8, CopiesByValue
<1>10. AskersAreClean'
  BY <1>1, IdleShape DEF IInv, AskersAreClean, Asking, NoTxn
<1>11. FloorsAreOld'
  <2> SUFFICES ASSUME NEW x \in Threads, ask[x] # Idle
               PROVE  /\ ask[x].floor <= finished'[ask[x].t]
                      /\ Asking(x) => /\ ask[x].seen[1] <= versions'[ask[x].t]
                                      /\ ask[x].seen[2] <= versions'["*"]
    BY <1>1 DEF FloorsAreOld, Asking
  <2>1. /\ ask[x].t \in Tables /\ ask[x].floor \in Nat
        /\ ask[x].floor <= finished[ask[x].t]
    BY QuestionShape DEF IInv, FloorsAreOld
  <2>2. Asking(x) => /\ ask[x].seen[1] \in Nat /\ ask[x].seen[2] \in Nat
                     /\ ask[x].seen[1] <= versions[ask[x].t] /\ ask[x].seen[2] <= versions["*"]
    BY QuestionShape DEF IInv, FloorsAreOld, Asking, Seen
  <2> QED
    BY <1>2, <1>4, <2>1, <2>2
<1>12. WritesAreTracked'
  <2>1. \A t \in Tables : finished'[t] <= table[t]
    BY <1>3, <1>4 DEF IInv, WritesAreTracked
  <2> QED
    BY <1>1, <2>1 DEF IInv, WritesAreTracked, NoTxn
<1>13. ReadIsFresh'
  BY <1>1, IdleShape DEF IInv, ReadIsFresh
<1> QED
  BY <1>9, <1>10, <1>11, <1>12, <1>13 DEF Rest

\* A table's contents only grow, and what a commit made is in them.
LEMMA WritingStep ==
    ASSUME IInv,
           \/ \E w \in Threads : \/ \E t \in Tables, named \in {"*"} \cup Tables :
                                        named \in {t, "*"} /\ Write(w, t, named)
                                 \/ LockRows(w) \/ Commit(w) \/ Fail(w) \/ CommitUnheard(w) \/ Done(w)
           \/ \E t \in Tables : WriteBehind(t) \/ Drop(t)
           \/ UNCHANGED vars
    PROVE  WritesAreTracked'
<1>1. CASE UNCHANGED vars
  BY <1>1 DEF vars, IInv, WritesAreTracked
<1>2. ASSUME NEW w \in Threads, NEW t \in Tables, NEW named \in {t, "*"}, Write(w, t, named)
      PROVE  WritesAreTracked'
  BY <1>2 DEF Write, IInv, WritesAreTracked, TypeOK
<1>3. ASSUME NEW w \in Threads, LockRows(w) PROVE WritesAreTracked'
  BY <1>3 DEF LockRows, IInv, WritesAreTracked, TypeOK
<1>4. ASSUME NEW w \in Threads, Commit(w) PROVE WritesAreTracked'
  <2> DEFINE made == {<<t, Written(w)[t]>> : t \in txn[w].wrote}
  <2>1. /\ txn'[w] = [wrote |-> {}, dirty |-> txn[w].dirty, made |-> made]
        /\ \A x \in Threads \ {w} : txn'[x] = txn[x]
        /\ table' = Written(w) /\ finished' = finished
    BY <1>4 DEF Commit, IInv, TypeOK
  <2>2. \A t \in Tables : table[t] \in Nat /\ table'[t] \in Nat /\ table'[t] >= table[t]
    BY <2>1 DEF Written, IInv, TypeOK
  <2>3. \A t \in Tables, n \in Nat : <<t, n>> \in made => n = table'[t] /\ t \in txn[w].wrote
    BY <2>1
  <2> HIDE DEF made
  <2>4. \A t \in Tables : finished'[t] <= table'[t]
    BY <2>1, <2>2 DEF IInv, WritesAreTracked, TypeOK
  <2>5. ASSUME NEW x \in Threads, NEW t \in Tables
        PROVE  /\ t \in txn'[x].wrote => t \in txn'[x].dirty \/ "*" \in txn'[x].dirty
               /\ \A n \in Nat : <<t, n>> \in txn'[x].made =>
                      n <= table'[t] /\ (t \in txn'[x].dirty \/ "*" \in txn'[x].dirty)
    <3>1. CASE x = w
      BY <2>1, <2>2, <2>3, <3>1 DEF IInv, WritesAreTracked
    <3>2. CASE x # w
      BY <2>1, <2>2, <3>2 DEF IInv, WritesAreTracked
    <3> QED
      BY <3>1, <3>2
  <2> QED
    BY <2>4, <2>5 DEF WritesAreTracked
<1>5. ASSUME NEW w \in Threads, CommitUnheard(w) PROVE WritesAreTracked'
  <2>1. /\ txn'[w] = NoTxn /\ \A x \in Threads \ {w} : txn'[x] = txn[x]
        /\ table' = Written(w) /\ finished' = finished
    BY <1>5 DEF CommitUnheard, IInv, TypeOK
  <2>2. \A t \in Tables : table[t] \in Nat /\ table'[t] \in Nat /\ table'[t] >= table[t] /\ finished[t] \in Nat
    BY <2>1 DEF Written, IInv, TypeOK
  <2> QED
    BY <2>1, <2>2 DEF IInv, WritesAreTracked, NoTxn
<1>6. ASSUME NEW w \in Threads, Fail(w) \/ Done(w) PROVE WritesAreTracked'
  BY <1>6 DEF Fail, Done, IInv, WritesAreTracked, NoTxn, TypeOK
<1>7. ASSUME NEW t \in Tables, WriteBehind(t) \/ Drop(t) PROVE WritesAreTracked'
  <2>1. /\ txn' = txn /\ finished' = finished
        /\ \A s \in Tables : table[s] \in Nat /\ finished[s] \in Nat /\ table'[s] \in Nat /\ table'[s] >= table[s]
    BY <1>7 DEF WriteBehind, Drop, IInv, TypeOK
  <2> QED
    BY <2>1 DEF IInv, WritesAreTracked
<1> QED
  BY <1>1, <1>2, <1>3, <1>4, <1>5, <1>6, <1>7

\* Every step keeps the invariant.
LEMMA InvStep ==
    ASSUME IInv, [Next]_vars
    PROVE  IInv'
<1>1. TypeOK'
  BY TypeStep DEF IInv
<1>2. ASSUME NEW w \in Threads, NEW t \in Tables, Ask(w, t) PROVE Rest'
  BY <1>2, AskStep
<1>3. ASSUME \/ \E w \in Threads : \/ \E t \in Tables, named \in {"*"} \cup Tables :
                                        named \in {t, "*"} /\ Write(w, t, named)
                                   \/ LockRows(w) \/ Commit(w) \/ Fail(w) \/ CommitUnheard(w) \/ Done(w)
             \/ \E t \in Tables : WriteBehind(t) \/ Drop(t)
             \/ UNCHANGED vars
      PROVE  Rest'
  <2>1. WritesAreTracked'
    BY <1>3, WritingStep
  <2>2. Quiet
    <3>1. ASSUME NEW w \in Threads, NEW t \in Tables, NEW named \in {t, "*"}, Write(w, t, named)
          PROVE  Quiet
      BY <3>1 DEF Write, Working, Quiet, IInv, TypeOK
    <3>2. ASSUME NEW w \in Threads, LockRows(w) \/ Commit(w) \/ CommitUnheard(w) PROVE Quiet
      BY <3>2 DEF LockRows, Commit, CommitUnheard, Working, Quiet, IInv, TypeOK
    <3>3. ASSUME NEW w \in Threads, Fail(w) \/ Done(w) PROVE Quiet
      BY <3>3 DEF Fail, Done, Quiet, IInv, TypeOK
    <3>4. ASSUME NEW t \in Tables, WriteBehind(t) \/ Drop(t) PROVE Quiet
      BY <3>4 DEF WriteBehind, Drop, Quiet, IInv, TypeOK
    <3>5. CASE UNCHANGED vars
      BY <3>5 DEF vars, Quiet
    <3> QED
      BY <1>3, <3>1, <3>2, <3>3, <3>4, <3>5
  <2> QED
    BY <2>1, <2>2, QuietStep DEF Rest
<1>4. ASSUME NEW w \in Threads, Bump(w) PROVE Rest'
  BY <1>4, BumpStep
<1>5. ASSUME NEW w \in Threads, Miss(w) PROVE Rest'
  BY <1>5, MissStep
<1>6. ASSUME NEW w \in Threads, Load(w) PROVE Rest'
  BY <1>6, LoadStep
<1>7. ASSUME NEW w \in Threads, Hit(w) PROVE Rest'
  <2>1. /\ ask[w] # Idle /\ ask[w].t \in Tables /\ ask[w].t \notin txn[w].wrote
        /\ cache[ask[w].t] # None /\ cache[ask[w].t].seen = ask[w].seen
    BY <1>7, QuestionShape, IdleShape DEF Hit, IsHit, IInv, AskersAreClean, Asking
  <2>2. GoodCopy(ask[w].t, ask[w].seen, cache[ask[w].t].rows)
    BY <2>1 DEF IInv, CopiesAreGood
  <2>3. FreshRows(w, cache[ask[w].t].rows)
    BY <1>7, <2>1, <2>2 DEF FreshRows, GoodCopy, Hit, Asking
  <2>4. cache[ask[w].t].rows \in Contents
    BY <2>1, CopyShape DEF IInv
  <2> QED
    BY <1>7, <2>1, <2>3, <2>4, AnswerStep DEF Hit, Rest
<1>8. ASSUME NEW w \in Threads, LoadDirect(w) PROVE Rest'
  <2>1. ask[w] # Idle /\ ask[w].t \in Tables /\ ask[w].floor \in Nat /\ ask[w].floor <= finished[ask[w].t]
    BY <1>8, QuestionShape, IdleShape DEF LoadDirect, IInv, FloorsAreOld
  <2>2. table[ask[w].t] \in Nat /\ finished[ask[w].t] \in Nat /\ finished[ask[w].t] <= table[ask[w].t]
    BY <2>1 DEF IInv, TypeOK, WritesAreTracked
  <2>3. FreshRows(w, Rows(w, ask[w].t))
    BY <2>1, <2>2 DEF FreshRows, Rows
  <2>4. Rows(w, ask[w].t) \in Contents
    BY <2>1, RowsShape DEF IInv
  <2> QED
    BY <1>8, <2>1, <2>3, <2>4, AnswerStep DEF LoadDirect, Rest
<1>9. ASSUME NEW w \in Threads, Keep(w) PROVE Rest'
  <2>1. /\ ask[w] # Idle /\ ask[w].t \in Tables /\ ask[w].t \notin txn[w].wrote /\ ask[w].rows \in Contents
    BY <1>9, QuestionShape, IdleShape DEF Keep, IInv, AskersAreClean, Asking
  <2>2. GoodCopy(ask[w].t, ask[w].seen, ask[w].rows)
    BY <1>9 DEF Keep, IInv, CopiesAreGood
  <2>3. FreshRows(w, ask[w].rows)
    BY <1>9, <2>1, <2>2 DEF FreshRows, GoodCopy, Keep, Asking
  <2> QED
    BY <1>9, <2>1, <2>3, AnswerStep DEF Keep, Rest
<1>10. Rest'
  BY <1>2, <1>3, <1>4, <1>5, <1>6, <1>7, <1>8, <1>9 DEF Next
<1> QED
  BY <1>1, <1>10 DEF IInv, Rest

\* The invariant holds at the start: nothing is cached and nobody asks.
LEMMA InvInit == Init => IInv
<1> SUFFICES ASSUME Init PROVE IInv
  OBVIOUS
<1>1. TypeOK
  BY TypeInit
<1>2. CopiesAreGood /\ AskersAreClean /\ FloorsAreOld /\ ReadIsFresh
  BY IdleShape DEF Init, CopiesAreGood, AskersAreClean, FloorsAreOld, ReadIsFresh, Asking
<1>3. WritesAreTracked
  BY DEF Init, WritesAreTracked, NoTxn
<1> QED
  BY <1>1, <1>2, <1>3 DEF IInv

(***************************************************************************)
(* "a change made here shows up on the very next request" (app/db.py), and *)
(* a read never shows another's uncommitted change: for every number of    *)
(* threads, tables and writes, in every interleaving.                      *)
(***************************************************************************)
THEOREM ReadsAreFresh == Spec => []ReadIsFresh
<1>1. IInv => ReadIsFresh
  BY DEF IInv
<1> QED
  BY <1>1, InvInit, InvStep, PTL DEF Spec

(***************************************************************************)
(* The cache implements the service without one.                           *)
(***************************************************************************)

\* Rows from a copy were in the table once: it has not fewer writes.
CopiesArePast ==
    /\ \A t \in Tables : cache[t] # None => cache[t].rows \in Nat /\ cache[t].rows <= table[t]
    /\ \A w \in Threads : ask[w].at = "loaded" => ask[w].rows \in Nat /\ ask[w].rows <= table[ask[w].t]

\* The state of the plain service that stands behind the cache's.
TxnBar == [w \in Threads |-> [wrote |-> txn[w].wrote, made |-> txn[w].made]]
AskBar == [w \in Threads |->
        CASE ask[w].at = "idle" -> [at |-> "idle"]
          [] ask[w].at = "answered" -> ask[w]
          [] OTHER -> [at |-> "asked", t |-> ask[w].t, floor |-> ask[w].floor]]

\* The table only grows.
LEMMA TableGrows == TypeOK /\ [Next]_vars => \A t \in Tables : table[t] <= table'[t]
<1> SUFFICES ASSUME TypeOK, [Next]_vars, NEW t \in Tables PROVE table[t] <= table'[t]
  OBVIOUS
<1>0. table[t] \in Nat /\ table \in [Tables -> Nat]
  BY DEF TypeOK
<1>1. ASSUME NEW w \in Threads, table' = Written(w) PROVE table[t] <= table'[t]
  BY <1>0, <1>1 DEF Written
<1>2. ASSUME NEW u \in Tables, WriteBehind(u) PROVE table[t] <= table'[t]
  BY <1>0, <1>2 DEF WriteBehind
<1>3. table' = table \/ (\E w \in Threads : table' = Written(w)) \/ \E u \in Tables : WriteBehind(u)
  BY DEF Next, vars, Write, LockRows, Commit, Bump, Fail, CommitUnheard, Ask, Hit, Miss, Load,
         LoadDirect, Keep, Done, Drop
<1> QED
  BY <1>0, <1>1, <1>2, <1>3

\* A copy is made of what the table holds, and the table only grows.
LEMMA PastStep == IInv /\ CopiesArePast /\ [Next]_vars => CopiesArePast'
<1> SUFFICES ASSUME IInv, CopiesArePast, [Next]_vars PROVE CopiesArePast'
  OBVIOUS
<1>1. TypeOK /\ TypeOK' /\ table \in [Tables -> Nat] /\ table' \in [Tables -> Nat]
  BY InvStep DEF IInv, TypeOK
<1>2. \A t \in Tables : table[t] <= table'[t]
  BY <1>1, TableGrows
<1>3. ASSUME cache' = cache,
             \A w \in Threads : ask'[w].at = "loaded" => ask'[w] = ask[w]
      PROVE  CopiesArePast'
  <2>1. \A t \in Tables : cache'[t] # None => cache'[t].rows \in Nat /\ cache'[t].rows <= table'[t]
    BY <1>1, <1>2, <1>3 DEF CopiesArePast
  <2>2. ASSUME NEW w \in Threads, ask'[w].at = "loaded"
        PROVE  ask'[w].rows \in Nat /\ ask'[w].rows <= table'[ask'[w].t]
    <3>1. ask'[w] = ask[w] /\ ask[w].t \in Tables
      BY <1>1, <1>3, <2>2, QuestionShape, IdleShape
    <3> QED
      BY <1>1, <1>2, <2>2, <3>1 DEF CopiesArePast
  <2> QED
    BY <2>1, <2>2 DEF CopiesArePast
<1>5. ASSUME NEW w \in Threads, NEW t \in Tables, Ask(w, t) PROVE CopiesArePast'
  <2>1. ask'[w].at # "loaded" /\ (\A v \in Threads \ {w} : ask'[v] = ask[v]) /\ cache' = cache
    BY <1>1, <1>5 DEF Ask, TypeOK
  <2> QED
    BY <1>3, <2>1
<1>6. ASSUME NEW w \in Threads, NEW rows, Answered(w, rows), cache' = cache
      PROVE  CopiesArePast'
  <2>1. ask'[w].at # "loaded" /\ \A v \in Threads \ {w} : ask'[v] = ask[v]
    BY <1>1, <1>6 DEF Answered, TypeOK
  <2> QED
    BY <1>3, <1>6, <2>1
<1>7. ASSUME NEW w \in Threads, Hit(w) \/ LoadDirect(w) \/ Miss(w) \/ Done(w) \/ Fail(w)
      PROVE  CopiesArePast'
  <2>1. CASE Hit(w) \/ LoadDirect(w)
    BY <1>6, <2>1 DEF Hit, LoadDirect
  <2>2. CASE Miss(w) \/ Done(w) \/ Fail(w)
    <3>1. ask'[w].at # "loaded" /\ (\A v \in Threads \ {w} : ask'[v] = ask[v]) /\ cache' = cache
      <4>1. CASE Miss(w)
        BY <1>1, <4>1, QuestionShape, IdleShape DEF Miss, TypeOK
      <4>2. CASE Done(w) \/ Fail(w)
        BY <1>1, <4>2, IdleShape DEF Done, Fail, TypeOK
      <4> QED
        BY <2>2, <4>1, <4>2
    <3> QED
      BY <1>3, <3>1
  <2> QED
    BY <1>7, <2>1, <2>2
<1>8. ASSUME NEW w \in Threads, Load(w) PROVE CopiesArePast'
  <2>1. /\ ask[w].t \in Tables /\ ask[w].t \notin txn[w].wrote
    BY <1>1, <1>8, QuestionShape, IdleShape DEF Load, IInv, AskersAreClean, Asking
  <2>2. /\ ask'[w].rows = table[ask[w].t] /\ ask'[w].t = ask[w].t
        /\ \A v \in Threads \ {w} : ask'[v] = ask[v]
    BY <1>1, <1>8, <2>1 DEF Load, Rows, TypeOK
  <2>3. cache' = cache /\ table' = table
    BY <1>8 DEF Load
  <2>4. ASSUME NEW v \in Threads, ask'[v].at = "loaded"
        PROVE  ask'[v].rows \in Nat /\ ask'[v].rows <= table'[ask'[v].t]
    <3>1. CASE v = w
      BY <1>1, <2>1, <2>2, <2>3, <3>1
    <3>2. CASE v # w
      BY <2>2, <2>3, <2>4, <3>2 DEF CopiesArePast
    <3> QED
      BY <3>1, <3>2
  <2> QED
    BY <2>3, <2>4 DEF CopiesArePast
<1>9. ASSUME NEW w \in Threads, Keep(w) PROVE CopiesArePast'
  <2>1. /\ ask[w].t \in Tables /\ ask[w].rows \in Nat /\ ask[w].rows <= table[ask[w].t]
        /\ table' = table
    BY <1>1, <1>9, QuestionShape, IdleShape DEF Keep, CopiesArePast
  <2>2. cache' = [cache EXCEPT ![ask[w].t] = [seen |-> ask[w].seen, rows |-> ask[w].rows]]
    BY <1>9 DEF Keep
  <2>3. \A t \in Tables : cache'[t] # None => cache'[t].rows \in Nat /\ cache'[t].rows <= table'[t]
    BY <1>1, <2>1, <2>2 DEF CopiesArePast, TypeOK
  <2>4. ask'[w].at # "loaded" /\ \A v \in Threads \ {w} : ask'[v] = ask[v]
    BY <1>1, <1>9 DEF Keep, Answered, TypeOK
  <2> QED
    BY <2>1, <2>3, <2>4 DEF CopiesArePast
<1>10. ASSUME NEW t \in Tables, Drop(t) PROVE CopiesArePast'
  BY <1>1, <1>10 DEF Drop, CopiesArePast, TypeOK
<1>11. ASSUME UNCHANGED <<cache, ask>> PROVE CopiesArePast'
  BY <1>3, <1>11
<1>12. ASSUME NEW w \in Threads, NEW t \in Tables, NEW named \in {t, "*"}, Write(w, t, named)
       PROVE  CopiesArePast'
  BY <1>11, <1>12 DEF Write
<1>13. ASSUME NEW w \in Threads, LockRows(w) \/ Commit(w) \/ Bump(w) \/ CommitUnheard(w)
       PROVE  CopiesArePast'
  BY <1>11, <1>13 DEF LockRows, Commit, Bump, CommitUnheard
<1>14. ASSUME NEW t \in Tables, WriteBehind(t) PROVE CopiesArePast'
  BY <1>11, <1>14 DEF WriteBehind
<1>15. CASE UNCHANGED vars
  BY <1>11, <1>15 DEF vars
<1> QED
  BY <1>5, <1>7, <1>8, <1>9, <1>10, <1>12, <1>13, <1>14, <1>15 DEF Next

(***************************************************************************)
(* The plain service, said of the state behind the cache.                  *)
(***************************************************************************)

\* A record changed in one field.
LEMMA OneField == \A a, b, c :
    /\ [[wrote |-> a, made |-> b] EXCEPT !.wrote = c] = [wrote |-> c, made |-> b]
    /\ [[wrote |-> a, made |-> b] EXCEPT !.made = c] = [wrote |-> a, made |-> c]
OBVIOUS

\* A thread that comes to q in read() changes only what stands behind it.
LEMMA BehindAsked ==
    ASSUME TypeOK, NEW w \in Threads, NEW q, ask' = [ask EXCEPT ![w] = q],
           q.at # "idle", q.at # "answered"
    PROVE  AskBar' = [AskBar EXCEPT ![w] = [at |-> "asked", t |-> q.t, floor |-> q.floor]]
<1>1. ask \in [Threads -> Question]
  BY DEF TypeOK
<1>2. ask'[w] = q /\ \A v \in Threads \ {w} : ask'[v] = ask[v]
  BY <1>1
<1> QED
  BY <1>2 DEF AskBar

LEMMA BehindAnswered ==
    ASSUME TypeOK, NEW w \in Threads, NEW q, ask' = [ask EXCEPT ![w] = q], q.at = "answered"
    PROVE  AskBar' = [AskBar EXCEPT ![w] = q]
<1>1. ask \in [Threads -> Question]
  BY DEF TypeOK
<1>2. ask'[w] = q /\ \A v \in Threads \ {w} : ask'[v] = ask[v]
  BY <1>1
<1> QED
  BY <1>2 DEF AskBar

LEMMA BehindIdle ==
    ASSUME TypeOK, NEW w \in Threads, ask' = [ask EXCEPT ![w] = Idle]
    PROVE  AskBar' = [AskBar EXCEPT ![w] = [at |-> "idle"]]
<1>1. ask \in [Threads -> Question]
  BY DEF TypeOK
<1>2. ask'[w].at = "idle" /\ \A v \in Threads \ {w} : ask'[v] = ask[v]
  BY <1>1, IdleShape
<1> QED
  BY <1>2 DEF AskBar

\* A transaction that becomes r changes only what stands behind it.
LEMMA BehindTxn ==
    ASSUME TypeOK, NEW w \in Threads, NEW r, txn' = [txn EXCEPT ![w] = r]
    PROVE  TxnBar' = [TxnBar EXCEPT ![w] = [wrote |-> r.wrote, made |-> r.made]]
<1>1. txn \in [Threads -> [wrote : SUBSET Tables, dirty : SUBSET Counts, made : SUBSET (Tables \X Nat)]]
  BY DEF TypeOK
<1>2. txn'[w] = r /\ \A v \in Threads \ {w} : txn'[v] = txn[v]
  BY <1>1
<1> QED
  BY <1>2 DEF TxnBar

\* The actions of the plain service.
LEMMA PromiseActions ==
    ASSUME NEW w \in Threads
    PROVE
    /\ \A t : Promise!Write(w, t) <=>
          /\ AskBar[w].at = "idle"
          /\ TxnBar' = [TxnBar EXCEPT ![w].wrote = @ \cup {t}]
          /\ UNCHANGED <<table, finished, AskBar>>
    /\ Promise!Commit(w) <=>
          /\ table' = [t \in Tables |-> IF t \in TxnBar[w].wrote THEN table[t] + 1 ELSE table[t]]
          /\ TxnBar' = [TxnBar EXCEPT ![w] =
                [wrote |-> {}, made |-> {<<t, table'[t]>> : t \in @.wrote}]]
          /\ UNCHANGED <<finished, AskBar>>
    /\ \A written : Promise!OutsideWrite(written) <=>
          /\ table' = [t \in Tables |-> IF t \in written THEN table[t] + 1 ELSE table[t]]
          /\ UNCHANGED finished
    /\ \A t : Promise!Ask(w, t) <=>
          /\ AskBar[w].at = "idle"
          /\ AskBar' = [AskBar EXCEPT ![w] = [at |-> "asked", t |-> t, floor |-> finished[t]]]
          /\ UNCHANGED <<table, finished, TxnBar>>
    /\ Promise!Answer(w) <=>
          /\ AskBar[w].at = "asked"
          /\ \E rows \in IF AskBar[w].t \in TxnBar[w].wrote THEN {Uncommitted}
                         ELSE AskBar[w].floor..table[AskBar[w].t] :
                AskBar' = [AskBar EXCEPT ![w] =
                    [at |-> "answered", t |-> @.t, floor |-> @.floor, rows |-> rows]]
          /\ UNCHANGED <<table, finished, TxnBar>>
    /\ Promise!Done(w) <=>
          /\ AskBar' = [AskBar EXCEPT ![w] = [at |-> "idle"]]
          /\ UNCHANGED <<table, finished, TxnBar>>
    /\ Promise!GiveUp(w) <=>
          /\ TxnBar' = [TxnBar EXCEPT ![w].wrote = {}]
          /\ AskBar' = [AskBar EXCEPT ![w] = [at |-> "idle"]]
BY DEF Promise!Write, Promise!Commit, Promise!OutsideWrite, Promise!Ask,
       Promise!Answer, Promise!Done, Promise!GiveUp, AskBar, TxnBar

\* The end of a writer's cursor(), which marks what it committed as finished.
LEMMA PromiseFinish ==
    ASSUME NEW w \in Threads
    PROVE  Promise!Finish(w) <=>
          /\ finished' = [t \in Tables |->
                IF \E n \in 1..MaxWrites : <<t, n>> \in TxnBar[w].made /\ n > finished[t]
                THEN CHOOSE n \in 1..MaxWrites : <<t, n>> \in TxnBar[w].made /\ n > finished[t]
                ELSE finished[t]]
          /\ TxnBar' = [TxnBar EXCEPT ![w].made = {}]
          /\ UNCHANGED <<table, AskBar>>
BY Zenon DEF Promise!Finish, AskBar, TxnBar

LEMMA PromiseVars == UNCHANGED Promise!vars <=> UNCHANGED <<table, finished, TxnBar, AskBar>>
BY DEF Promise!vars, AskBar, TxnBar

(***************************************************************************)
(* Every step of the cache is a step of the plain service, or none.        *)
(***************************************************************************)

\* What stands behind a thread.
LEMMA Behind ==
    ASSUME NEW w \in Threads
    PROVE  /\ TxnBar[w] = [wrote |-> txn[w].wrote, made |-> txn[w].made]
           /\ TxnBar[w].wrote = txn[w].wrote
           /\ TxnBar[w].made = txn[w].made
           /\ ask[w].at = "idle" => AskBar[w].at = "idle"
           /\ ask[w].at # "idle" /\ ask[w].at # "answered" =>
                /\ AskBar[w] = [at |-> "asked", t |-> ask[w].t, floor |-> ask[w].floor]
                /\ AskBar[w].at = "asked" /\ AskBar[w].t = ask[w].t /\ AskBar[w].floor = ask[w].floor
BY DEF TxnBar, AskBar

\* A transaction that changes in one field.
LEMMA BehindWrote ==
    ASSUME TypeOK, NEW w \in Threads, NEW r, txn' = [txn EXCEPT ![w] = r], r.made = txn[w].made
    PROVE  TxnBar' = [TxnBar EXCEPT ![w].wrote = r.wrote]
<1>1. TxnBar' = [TxnBar EXCEPT ![w] = [wrote |-> r.wrote, made |-> txn[w].made]]
  BY BehindTxn
<1>2. TxnBar[w] = [wrote |-> txn[w].wrote, made |-> txn[w].made]
  BY Behind
<1>3. [TxnBar[w] EXCEPT !.wrote = r.wrote] = [wrote |-> r.wrote, made |-> txn[w].made]
  BY <1>2, OneField
<1> QED
  BY <1>1, <1>3

LEMMA BehindMade ==
    ASSUME TypeOK, NEW w \in Threads, NEW r, txn' = [txn EXCEPT ![w] = r], r.wrote = txn[w].wrote
    PROVE  TxnBar' = [TxnBar EXCEPT ![w].made = r.made]
<1>1. TxnBar' = [TxnBar EXCEPT ![w] = [wrote |-> txn[w].wrote, made |-> r.made]]
  BY BehindTxn
<1>2. TxnBar[w] = [wrote |-> txn[w].wrote, made |-> txn[w].made]
  BY Behind
<1>3. [TxnBar[w] EXCEPT !.made = r.made] = [wrote |-> txn[w].wrote, made |-> r.made]
  BY <1>2, OneField
<1> QED
  BY <1>1, <1>3

\* Rows that were in the table, and are fresh, are an answer of the service.
LEMMA AnswerBehind ==
    ASSUME TypeOK, NEW w \in Threads, ask[w].at # "idle", ask[w].at # "answered", NEW rows,
           Answered(w, rows), UNCHANGED <<table, finished, txn>>,
           IF ask[w].t \in txn[w].wrote THEN rows = Uncommitted
           ELSE rows \in ask[w].floor..table[ask[w].t]
    PROVE  Promise!Answer(w)
<1> DEFINE q == [at |-> "answered", t |-> ask[w].t, floor |-> ask[w].floor, rows |-> rows]
<1>1. ask' = [ask EXCEPT ![w] = q]
  BY DEF Answered, TypeOK
<1>2. AskBar' = [AskBar EXCEPT ![w] = q]
  BY <1>1, BehindAnswered
<1>3. AskBar[w].at = "asked" /\ AskBar[w].t = ask[w].t /\ AskBar[w].floor = ask[w].floor
      /\ TxnBar[w].wrote = txn[w].wrote
  BY Behind
<1>4. AskBar' = [AskBar EXCEPT ![w] = [at |-> "answered", t |-> @.t, floor |-> @.floor, rows |-> rows]]
  BY <1>2, <1>3
<1>5. UNCHANGED <<table, finished, TxnBar>>
  BY DEF TxnBar
<1>6. rows \in IF AskBar[w].t \in TxnBar[w].wrote THEN {Uncommitted}
                ELSE AskBar[w].floor..table[AskBar[w].t]
  BY <1>3
<1> HIDE DEF q
<1>7. \E r \in IF AskBar[w].t \in TxnBar[w].wrote THEN {Uncommitted}
               ELSE AskBar[w].floor..table[AskBar[w].t] :
         AskBar' = [AskBar EXCEPT ![w] = [at |-> "answered", t |-> @.t, floor |-> @.floor, rows |-> r]]
  BY <1>4, <1>6
<1> QED
  BY <1>3, <1>5, <1>7, PromiseActions

\* One step is a step of the plain service, or changes nothing that stands behind.
LEMMA PromiseStep == IInv /\ CopiesArePast /\ [Next]_vars => [Promise!Next]_(Promise!vars)
<1> SUFFICES ASSUME IInv, CopiesArePast, [Next]_vars PROVE Promise!Next \/ UNCHANGED Promise!vars
  OBVIOUS
<1>1. TypeOK /\ CopiesAreGood /\ AskersAreClean /\ FloorsAreOld /\ WritesAreTracked
  BY DEF IInv
<1>2. ASSUME NEW w \in Threads, NEW t \in Tables, Ask(w, t) PROVE Promise!Ask(w, t)
  <2> DEFINE q == [at |-> IF MustLoad(w, t) THEN "direct" ELSE "asked", t |-> t,
                   seen |-> Snapshot(t), floor |-> finished[t]]
  <2>1. ask' = [ask EXCEPT ![w] = q] /\ ask[w].at = "idle" /\ UNCHANGED <<table, finished, txn>>
    BY <1>2, IdleShape DEF Ask, Working
  <2>2. q.at # "idle" /\ q.at # "answered" /\ q.t = t /\ q.floor = finished[t]
    OBVIOUS
  <2> HIDE DEF q
  <2>3. AskBar' = [AskBar EXCEPT ![w] = [at |-> "asked", t |-> q.t, floor |-> q.floor]]
    BY <1>1, <2>1, <2>2, BehindAsked
  <2>4. AskBar' = [AskBar EXCEPT ![w] = [at |-> "asked", t |-> t, floor |-> finished[t]]]
    BY <2>2, <2>3
  <2>5. AskBar[w].at = "idle"
    BY <2>1, Behind
  <2>6. UNCHANGED <<table, finished, TxnBar>>
    BY <2>1 DEF TxnBar
  <2> QED
    BY <2>4, <2>5, <2>6, PromiseActions
<1>3. ASSUME NEW w \in Threads, NEW t \in Tables, NEW named \in {t, "*"}, Write(w, t, named)
      PROVE  Promise!Write(w, t)
  <2> DEFINE r == [txn[w] EXCEPT !.wrote = @ \cup {t}, !.dirty = @ \cup {named}]
  <2>1. txn' = [txn EXCEPT ![w] = r] /\ ask[w].at = "idle" /\ UNCHANGED <<table, finished, ask>>
    BY <1>3, IdleShape DEF Write, Working
  <2>2. r.wrote = txn[w].wrote \cup {t} /\ r.made = txn[w].made
    BY <1>1 DEF TypeOK
  <2> HIDE DEF r
  <2>3. TxnBar' = [TxnBar EXCEPT ![w].wrote = r.wrote]
    BY <1>1, <2>1, <2>2, BehindWrote
  <2>4. TxnBar' = [TxnBar EXCEPT ![w].wrote = @ \cup {t}]
    BY <2>2, <2>3, Behind
  <2>5. AskBar[w].at = "idle"
    BY <2>1, Behind
  <2>6. UNCHANGED <<table, finished, AskBar>>
    BY <2>1 DEF AskBar
  <2> QED
    BY <2>4, <2>5, <2>6, PromiseActions
<1>4. ASSUME NEW w \in Threads, Commit(w) PROVE Promise!Commit(w)
  <2> DEFINE made == {<<t, Written(w)[t]>> : t \in txn[w].wrote}
  <2>1. /\ txn' = [txn EXCEPT ![w] = [wrote |-> {}, dirty |-> txn[w].dirty, made |-> made]]
        /\ table' = Written(w) /\ UNCHANGED <<finished, ask>>
    BY <1>1, <1>4 DEF Commit, TypeOK
  <2>2. TxnBar[w].wrote = txn[w].wrote
    BY Behind
  <2>3. made = {<<t, table'[t]>> : t \in TxnBar[w].wrote}
    BY <2>1, <2>2
  <2> HIDE DEF made
  <2>4. TxnBar' = [TxnBar EXCEPT ![w] = [wrote |-> {}, made |-> made]]
    BY <1>1, <2>1, BehindTxn
  <2>5. table' = [t \in Tables |-> IF t \in TxnBar[w].wrote THEN table[t] + 1 ELSE table[t]]
    BY <2>1, <2>2 DEF Written
  <2>6. UNCHANGED <<finished, AskBar>>
    BY <2>1 DEF AskBar
  <2> QED
    BY <2>3, <2>4, <2>5, <2>6, PromiseActions
<1>5. ASSUME NEW w \in Threads, Bump(w) PROVE Promise!Finish(w)
  <2>1. /\ txn' = [txn EXCEPT ![w] = NoTxn] /\ txn[w].wrote = {}
        /\ UNCHANGED <<table, ask>>
    BY <1>5 DEF Bump
  <2>2. NoTxn.wrote = {} /\ NoTxn.made = {}
    BY DEF NoTxn
  <2>3. TxnBar' = [TxnBar EXCEPT ![w].made = NoTxn.made]
    BY <1>1, <2>1, <2>2, BehindMade
  <2>4. TxnBar' = [TxnBar EXCEPT ![w].made = {}]
    BY <2>2, <2>3
  <2>5. TxnBar[w].made = txn[w].made
    BY Behind
  <2>6. UNCHANGED <<table, AskBar>>
    BY <2>1 DEF AskBar
  <2>7. finished' = [t \in Tables |->
            IF \E n \in 1..MaxWrites : <<t, n>> \in TxnBar[w].made /\ n > finished[t]
            THEN CHOOSE n \in 1..MaxWrites : <<t, n>> \in TxnBar[w].made /\ n > finished[t]
            ELSE finished[t]]
    BY <1>5, <2>5, Zenon DEF Bump
  <2> QED
    BY <2>4, <2>6, <2>7, PromiseFinish, Zenon
<1>6. ASSUME NEW w \in Threads, txn[w].made = {}, txn' = [txn EXCEPT ![w] = NoTxn],
             ask' = [ask EXCEPT ![w] = Idle]
      PROVE  Promise!GiveUp(w)
  <2>1. NoTxn.wrote = {} /\ NoTxn.made = {}
    BY DEF NoTxn
  <2>2. TxnBar' = [TxnBar EXCEPT ![w].wrote = NoTxn.wrote]
    BY <1>1, <1>6, <2>1, BehindWrote
  <2>3. TxnBar' = [TxnBar EXCEPT ![w].wrote = {}]
    BY <2>1, <2>2
  <2>4. AskBar' = [AskBar EXCEPT ![w] = [at |-> "idle"]]
    BY <1>1, <1>6, BehindIdle
  <2> QED
    BY <2>3, <2>4, PromiseActions
<1>7. ASSUME NEW w \in Threads, Fail(w)
      PROVE  Promise!GiveUp(w) /\ UNCHANGED <<table, finished>>
  BY <1>6, <1>7 DEF Fail
<1>8. ASSUME NEW w \in Threads, CommitUnheard(w)
      PROVE  Promise!GiveUp(w) /\ Promise!OutsideWrite(TxnBar[w].wrote)
  <2>1. /\ ask' = [ask EXCEPT ![w] = Idle] /\ txn[w].made = {} /\ txn' = [txn EXCEPT ![w] = NoTxn]
        /\ table' = Written(w) /\ UNCHANGED finished
    BY <1>1, <1>8 DEF CommitUnheard, Working, TypeOK
  <2>2. TxnBar[w].wrote = txn[w].wrote
    BY Behind
  <2>3. table' = [t \in Tables |-> IF t \in TxnBar[w].wrote THEN table[t] + 1 ELSE table[t]]
    BY <2>1, <2>2 DEF Written
  <2>4. Promise!OutsideWrite(TxnBar[w].wrote)
    BY <2>1, <2>3, PromiseActions
  <2> QED
    BY <1>6, <2>1, <2>4
<1>9. ASSUME NEW t \in Tables, WriteBehind(t)
      PROVE  Promise!OutsideWrite({t}) /\ UNCHANGED <<TxnBar, AskBar>>
  <2>1. table' = [u \in Tables |-> IF u \in {t} THEN table[u] + 1 ELSE table[u]]
    BY <1>1, <1>9 DEF WriteBehind, TypeOK
  <2>2. UNCHANGED <<finished, txn, ask>>
    BY <1>9 DEF WriteBehind
  <2>3. Promise!OutsideWrite({t})
    BY <2>1, <2>2 DEF Promise!OutsideWrite
  <2> QED
    BY <2>2, <2>3 DEF TxnBar, AskBar
<1>10. ASSUME NEW w \in Threads, Hit(w) PROVE Promise!Answer(w)
  <2>1. /\ ask[w] # Idle /\ ask[w].t \in Tables /\ ask[w].t \notin txn[w].wrote
        /\ ask[w].floor \in Nat
        /\ cache[ask[w].t] # None /\ cache[ask[w].t].seen = ask[w].seen
    BY <1>1, <1>10, QuestionShape, IdleShape DEF Hit, IsHit, AskersAreClean, Asking
  <2>2. /\ cache[ask[w].t].rows \in Nat /\ cache[ask[w].t].rows <= table[ask[w].t]
        /\ cache[ask[w].t].rows >= ask[w].floor
    BY <1>1, <1>10, <2>1 DEF CopiesAreGood, GoodCopy, CopiesArePast, Hit, Asking
  <2>3. cache[ask[w].t].rows \in ask[w].floor..table[ask[w].t]
    BY <1>1, <2>1, <2>2 DEF TypeOK
  <2> QED
    BY <1>1, <1>10, <2>1, <2>3, AnswerBehind DEF Hit
<1>11. ASSUME NEW w \in Threads, LoadDirect(w) PROVE Promise!Answer(w)
  <2>1. ask[w] # Idle /\ ask[w].t \in Tables /\ ask[w].floor \in Nat /\ ask[w].floor <= finished[ask[w].t]
    BY <1>1, <1>11, QuestionShape, IdleShape DEF LoadDirect, FloorsAreOld
  <2>2. table[ask[w].t] \in ask[w].floor..table[ask[w].t]
    BY <1>1, <2>1 DEF TypeOK, WritesAreTracked
  <2> QED
    BY <1>1, <1>11, <2>1, <2>2, AnswerBehind DEF LoadDirect, Rows
<1>12. ASSUME NEW w \in Threads, Keep(w) PROVE Promise!Answer(w)
  <2>1. /\ ask[w] # Idle /\ ask[w].t \in Tables /\ ask[w].t \notin txn[w].wrote
        /\ ask[w].floor \in Nat
    BY <1>1, <1>12, QuestionShape, IdleShape DEF Keep, AskersAreClean, Asking
  <2>2. ask[w].rows \in Nat /\ ask[w].rows <= table[ask[w].t] /\ ask[w].rows >= ask[w].floor
    BY <1>1, <1>12, <2>1 DEF CopiesAreGood, GoodCopy, CopiesArePast, Keep, Asking
  <2>3. ask[w].rows \in ask[w].floor..table[ask[w].t]
    BY <1>1, <2>1, <2>2 DEF TypeOK
  <2> QED
    BY <1>1, <1>12, <2>1, <2>3, AnswerBehind DEF Keep
<1>13. ASSUME NEW w \in Threads, Done(w) PROVE Promise!Done(w)
  <2>1. AskBar' = [AskBar EXCEPT ![w] = [at |-> "idle"]]
    BY <1>1, <1>13, BehindIdle DEF Done
  <2>2. UNCHANGED <<table, finished, TxnBar>>
    BY <1>13 DEF Done, TxnBar
  <2> QED
    BY <2>1, <2>2, PromiseActions
<1>14. ASSUME NEW w \in Threads, Miss(w) \/ Load(w) PROVE UNCHANGED Promise!vars
  <2>1. /\ UNCHANGED <<table, finished, txn>>
        /\ ask[w].at # "idle" /\ ask[w].at # "answered" /\ ask[w] \in Question
    BY <1>1, <1>14 DEF Miss, Load, TypeOK
  <2> DEFINE q == IF Miss(w) THEN [ask[w] EXCEPT !.at = "missed"]
                  ELSE [at |-> "loaded", t |-> ask[w].t, seen |-> ask[w].seen,
                        floor |-> ask[w].floor, rows |-> Rows(w, ask[w].t)]
  <2>2. ask' = [ask EXCEPT ![w] = q]
    BY <1>1, <1>14 DEF Miss, Load, TypeOK
  <2>3. q.at # "idle" /\ q.at # "answered" /\ q.t = ask[w].t /\ q.floor = ask[w].floor
    <3>1. CASE Miss(w)
      BY <2>1, <3>1 DEF Question, Idle, Miss
    <3>2. CASE ~Miss(w)
      BY <3>2
    <3> QED
      BY <3>1, <3>2
  <2> HIDE DEF q
  <2>4. AskBar' = [AskBar EXCEPT ![w] = [at |-> "asked", t |-> q.t, floor |-> q.floor]]
    BY <1>1, <2>2, <2>3, BehindAsked
  <2>5. AskBar[w] = [at |-> "asked", t |-> q.t, floor |-> q.floor]
    BY <2>1, <2>3, Behind
  <2>6. AskBar' = AskBar
    BY <2>4, <2>5 DEF AskBar
  <2> QED
    BY <2>1, <2>6, PromiseVars DEF TxnBar
<1>15. ASSUME NEW w \in Threads, LockRows(w) PROVE UNCHANGED Promise!vars
  <2> DEFINE r == [txn[w] EXCEPT !.dirty = @ \cup {"*"}]
  <2>1. txn' = [txn EXCEPT ![w] = r] /\ UNCHANGED <<table, finished, ask>>
    BY <1>15 DEF LockRows
  <2>2. r.wrote = txn[w].wrote /\ r.made = txn[w].made
    BY <1>1 DEF TypeOK
  <2> HIDE DEF r
  <2>3. TxnBar' = [TxnBar EXCEPT ![w] = [wrote |-> r.wrote, made |-> r.made]]
    BY <1>1, <2>1, <2>2, BehindTxn
  <2>4. TxnBar[w] = [wrote |-> r.wrote, made |-> r.made]
    BY <2>2, Behind
  <2>5. TxnBar' = TxnBar
    BY <2>3, <2>4 DEF TxnBar
  <2> QED
    BY <2>1, <2>5, PromiseVars DEF AskBar
<1>16. ASSUME NEW t \in Tables, Drop(t) PROVE UNCHANGED Promise!vars
  BY <1>16, PromiseVars DEF Drop, TxnBar, AskBar
<1>17. CASE UNCHANGED vars
  BY <1>17, PromiseVars DEF vars, TxnBar, AskBar
<1>18. (\E w \in Threads : Promise!GiveUp(w) /\ Promise!OutsideWrite(TxnBar[w].wrote)) => Promise!Next
  BY DEF Promise!Next, TxnBar
<1>19. (\E t \in Tables : Promise!OutsideWrite({t}) /\ UNCHANGED <<TxnBar, AskBar>>) => Promise!Next
  BY DEF Promise!Next, TxnBar, AskBar
<1> DEFINE Served ==
       \/ \E w \in Threads :
          \/ \E t \in Tables : Promise!Write(w, t) \/ Promise!Ask(w, t)
          \/ Promise!Commit(w) \/ Promise!Finish(w) \/ Promise!Answer(w) \/ Promise!Done(w)
          \/ Promise!GiveUp(w) /\ UNCHANGED <<table, finished>>
<1>20. Served => Promise!Next
  BY DEF Promise!Next
<1>21. ASSUME NEW w \in Threads,
              \/ \E t \in Tables : Ask(w, t) \/ \E named \in {t, "*"} : Write(w, t, named)
              \/ Commit(w) \/ Bump(w) \/ Fail(w) \/ Hit(w) \/ LoadDirect(w) \/ Keep(w) \/ Done(w)
       PROVE  Served
  BY <1>2, <1>3, <1>4, <1>5, <1>7, <1>10, <1>11, <1>12, <1>13, <1>21
<1> HIDE DEF Served
<1> QED
  BY <1>8, <1>9, <1>14, <1>15, <1>16, <1>17, <1>18, <1>19, <1>20, <1>21 DEF Next

(***************************************************************************)
(* The cache is invisible: whatever the threads do, what they are answered *)
(* is what the plain read-through service could have answered them.        *)
(***************************************************************************)
THEOREM CacheKeepsThePromise == Spec => KeepsThePromise
<1>1. Init => IInv /\ CopiesArePast
  BY InvInit, IdleShape DEF Init, CopiesArePast
<1>2. Init => Promise!Init
  BY IdleShape DEF Init, Promise!Init, NoTxn
<1>3. IInv /\ CopiesArePast /\ [Next]_vars => (IInv /\ CopiesArePast)'
  BY InvStep, PastStep
<1> QED
  BY <1>1, <1>2, <1>3, PromiseStep, PTL DEF Spec, KeepsThePromise, Promise!Spec
=============================================================================
