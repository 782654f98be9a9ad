------------------------------ MODULE Settings ------------------------------
(***************************************************************************)
(* The settings an administrator changes while the service runs            *)
(* (app/config.py): single values (get, set_value) and whole maps, such as *)
(* the fields each role may write (editable_fields_for_role,               *)
(* set_field_permission) or the roles that see every order.                *)
(*                                                                         *)
(* Each has a copy in memory which a save replaces (values) or throws away *)
(* (maps) after it has committed.  The copies have no lock.                *)
(***************************************************************************)
EXTENDS Naturals

CONSTANTS
    Askers,        \* requests in flight
    MaxSaves        \* the bound on saves of each setting

ASSUME MaxSavesAssumption == MaxSaves \in Nat

VARIABLES
    stored,         \* app_config and role_field_permissions: how often each was saved
    kept,           \* _value_cache and _perm_cache, with whether TTL is over
    step            \* what each thread is in the middle of

settingsVars == <<stored, kept, step>>

Sorts == {"value", "map"}
NotKept == [at |-> "nowhere"]

(* passed is history: somebody saved after what is kept here was read, or saved. *)
Copy(n, passed) == [at |-> n, old |-> FALSE, passed |-> passed]
Resting == [op |-> "idle"]

SettingsInit ==
    /\ stored = [s \in Sorts |-> 0]
    /\ kept = [s \in Sorts |-> NotKept]
    /\ step = [t \in Askers |-> Resting]

IsFresh(s) == kept[s] # NotKept /\ ~kept[s].old
Rests(t) == step[t] = Resting
At(t, op) == step[t].op = op
Goes(t, next) == step' = [step EXCEPT ![t] = next]

(* Whoever has read, or saved, what is now replaced. *)
PassedBy(t, s) ==
    [u \in Askers |->
        IF u # t /\ step[u].op \in {"store", "replace"} /\ step[u].of = s THEN [step[u] EXCEPT !.passed = TRUE] ELSE step[u]]

-----------------------------------------------------------------------------
(* get: a copy that is there and young is the answer ... *)
GetKept(t) ==
    /\ Rests(t) /\ IsFresh("value")
    /\ UNCHANGED settingsVars

(* ... a map that is young is looked up in a moment later ... *)
LookAtMap(t) ==
    /\ Rests(t) /\ IsFresh("map")
    /\ Goes(t, [op |-> "use", of |-> "map"])
    /\ UNCHANGED <<stored, kept>>

(* ... and what is missing or old is read from the table, ... *)
LoadSetting(t, s) ==
    /\ Rests(t) /\ ~IsFresh(s)
    /\ Goes(t, [op |-> "store", of |-> s, at |-> stored[s], passed |-> FALSE])
    /\ UNCHANGED <<stored, kept>>

(* ... and kept. *)
StoreSetting(t) ==
    /\ At(t, "store")
    /\ LET s == step[t].of IN
        /\ kept' = [kept EXCEPT ![s] = Copy(step[t].at, step[t].passed)]
        /\ Goes(t, IF s = "value" THEN Resting ELSE [op |-> "use", of |-> "map"])
    /\ UNCHANGED stored

(* The map is taken from the variable again; thrown away meanwhile, it is None and the *)
(* request fails.  Neither changes anything.                                           *)
UseMap(t) ==
    /\ At(t, "use")
    /\ Goes(t, Resting)
    /\ UNCHANGED <<stored, kept>>

(* set_value, set_field_permission: the commit ... *)
CommitSetting(t, s) ==
    /\ Rests(t)
    /\ stored[s] < MaxSaves
    /\ stored' = [stored EXCEPT ![s] = @ + 1]
    /\ step' = [PassedBy(t, s) EXCEPT ![t] = [op |-> "replace", of |-> s, at |-> stored[s] + 1, passed |-> FALSE]]
    /\ UNCHANGED kept

(* A plausible bug: the copy is left to its lifetime. *)
ReplaceLater(t) ==
    /\ At(t, "replace")
    /\ Goes(t, Resting)
    /\ UNCHANGED <<stored, kept>>

(* ... and the copy. *)
ReplaceCopy(t) ==
    /\ At(t, "replace")
    /\ kept' = [kept EXCEPT ![step[t].of] = IF step[t].of = "value" THEN Copy(step[t].at, step[t].passed) ELSE NotKept]
    /\ Goes(t, Resting)
    /\ UNCHANGED stored

TtlEnds(s) ==
    /\ IsFresh(s)
    /\ kept' = [kept EXCEPT ![s].old = TRUE]
    /\ UNCHANGED <<stored, step>>

SettingsNext ==
    \/ \E t \in Askers :
        \/ GetKept(t) \/ LookAtMap(t) \/ StoreSetting(t) \/ UseMap(t) \/ ReplaceCopy(t)
        \/ \E s \in Sorts : LoadSetting(t, s) \/ CommitSetting(t, s)
    \/ \E s \in Sorts : TtlEnds(s)

SettingsSpec == SettingsInit /\ [][SettingsNext]_settingsVars

-----------------------------------------------------------------------------
Step == {Resting}
    \cup [op : {"use"}, of : {"map"}]
    \cup [op : {"store", "replace"}, of : Sorts, at : Nat, passed : BOOLEAN]

\* The copies and the threads have the shapes declared above.
SettingsTypeOK ==
    /\ stored \in [Sorts -> Nat]
    /\ kept \in [Sorts -> [at : Nat, old : BOOLEAN, passed : BOOLEAN] \cup {NotKept}]
    /\ step \in [Askers -> Step]

\* "up to TTL seconds" (module docstring) is for other processes: in this one a young copy differs
\* from the table only while the save is under way, or because it was read or saved before another
\* save and put in its place afterwards.
CopyFollowsSaves ==
    \A s \in Sorts : (IsFresh(s) /\ kept[s].at # stored[s]) =>
        kept[s].passed \/ \E t \in Askers : At(t, "replace") /\ step[t].of = s
=============================================================================
