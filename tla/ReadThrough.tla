---------------------------- MODULE ReadThrough -----------------------------
(***************************************************************************)
(* What db.read promises its callers, with no cache in sight: the rows of  *)
(* a table as they were at some time since the read began, or newer than   *)
(* every write that this process had finished by then; and one's own       *)
(* uncommitted change, always.                                             *)
(***************************************************************************)
EXTENDS Naturals

CONSTANTS Threads, Tables, MaxWrites, Uncommitted

VARIABLES
    table,      \* committed writes of each table: its contents
    finished,   \* of those, what the writers of this process have finished
    txn,        \* what each thread's transaction wrote, and made when it committed
    ask         \* what each thread reads

vars == <<table, finished, txn, ask>>

Init ==
    /\ table = [t \in Tables |-> 0]
    /\ finished = [t \in Tables |-> 0]
    /\ txn = [w \in Threads |-> [wrote |-> {}, made |-> {}]]
    /\ ask = [w \in Threads |-> [at |-> "idle"]]

Write(w, t) ==
    /\ ask[w].at = "idle"
    /\ txn' = [txn EXCEPT ![w].wrote = @ \cup {t}]
    /\ UNCHANGED <<table, finished, ask>>

Commit(w) ==
    /\ table' = [t \in Tables |-> IF t \in txn[w].wrote THEN table[t] + 1 ELSE table[t]]
    /\ txn' = [txn EXCEPT ![w] = [wrote |-> {}, made |-> {<<t, table'[t]>> : t \in @.wrote}]]
    /\ UNCHANGED <<finished, ask>>

Finish(w) ==
    /\ finished' = [t \in Tables |->
          IF \E n \in 1..MaxWrites : <<t, n>> \in txn[w].made /\ n > finished[t]
          THEN CHOOSE n \in 1..MaxWrites : <<t, n>> \in txn[w].made /\ n > finished[t]
          ELSE finished[t]]
    /\ txn' = [txn EXCEPT ![w].made = {}]
    /\ UNCHANGED <<table, ask>>

(* Written by somebody else, or committed though the writer was told it failed. *)
OutsideWrite(written) ==
    /\ table' = [t \in Tables |-> IF t \in written THEN table[t] + 1 ELSE table[t]]
    /\ UNCHANGED finished

Ask(w, t) ==
    /\ ask[w].at = "idle"
    /\ ask' = [ask EXCEPT ![w] = [at |-> "asked", t |-> t, floor |-> finished[t]]]
    /\ UNCHANGED <<table, finished, txn>>

Answer(w) ==
    /\ ask[w].at = "asked"
    /\ \E rows \in IF ask[w].t \in txn[w].wrote THEN {Uncommitted}
                   ELSE ask[w].floor..table[ask[w].t] :
          ask' = [ask EXCEPT ![w] = [at |-> "answered", t |-> @.t, floor |-> @.floor, rows |-> rows]]
    /\ UNCHANGED <<table, finished, txn>>

Done(w) ==
    /\ ask' = [ask EXCEPT ![w] = [at |-> "idle"]]
    /\ UNCHANGED <<table, finished, txn>>

GiveUp(w) ==
    /\ txn' = [txn EXCEPT ![w].wrote = {}]
    /\ ask' = [ask EXCEPT ![w] = [at |-> "idle"]]

Next ==
    \/ \E w \in Threads :
        \/ \E t \in Tables : Write(w, t) \/ Ask(w, t)
        \/ Commit(w) \/ Finish(w) \/ Answer(w) \/ Done(w)
        \/ GiveUp(w) /\ UNCHANGED <<table, finished>>
        \/ GiveUp(w) /\ OutsideWrite(txn[w].wrote)
    \/ \E t \in Tables : OutsideWrite({t}) /\ UNCHANGED <<txn, ask>>

Spec == Init /\ [][Next]_vars
=============================================================================
