------------------------------- MODULE SignIn -------------------------------
(***************************************************************************)
(* Wrong tries: the counters of the portal's sign-in (app/auth.py, login   *)
(* of app/main.py) and of an employee's salary PIN (verify_employee_pin of *)
(* app/attendance.py).                                                     *)
(*                                                                         *)
(* Both look at the count, verify the secret, which takes long, and count  *)
(* afterwards; tries of several clients run at once.                       *)
(***************************************************************************)
EXTENDS Integers, FiniteSets

CONSTANTS
    Names, Addresses,   \* the keys of _fails
    Clients,            \* tries in flight
    MaxFailures,        \* MAX_FAILURES
    PinAttempts,        \* the setting att_pin_attempts
    PinIpMaxFails       \* PIN_IP_MAX_FAILS

ASSUME LimitsAssumption == {MaxFailures, PinAttempts, PinIpMaxFails} \subseteq Nat \ {0}
ASSUME ClientsAssumption == IsFiniteSet(Clients)

VARIABLES
    fails,          \* _fails: failures since the first one, and whether its window is over
    pin,            \* pin_failed_count and pin_locked_until of one employee
    device,         \* wrong PINs from one address that are still remembered
    try,            \* what each client is in the middle of
    wrong           \* history: wrong PINs since the last right one or lock, while tries came one by one

signInVars == <<fails, pin, device, try, wrong>>

NoFails == [count |-> 0, old |-> FALSE]
NoTry == [op |-> "idle"]

SignInInit ==
    /\ fails = [k \in Names \cup Addresses |-> NoFails]
    /\ pin = [failed |-> 0, locked |-> FALSE]
    /\ device = 0
    /\ try = [c \in Clients |-> NoTry]
    /\ wrong = [tries |-> 0, together |-> FALSE]

TooMany(k) == fails[k].count >= MaxFailures /\ ~fails[k].old
Without(keys) == [k \in DOMAIN fails |-> IF k \in keys THEN NoFails ELSE fails[k]]
Over(keys) == {k \in keys : fails[k].old}
Ends(c) == try' = [try EXCEPT ![c] = NoTry]

-----------------------------------------------------------------------------
(* A plausible bug: only the name is looked at. *)
RefusedByName(name, address) == TooMany(name)

Refused(name, address) == TooMany(name) \/ TooMany(address)

(* check_not_locked lets a client through; a window that is over is forgotten. *)
BeginLogin(c, name, address) ==
    /\ try[c] = NoTry
    /\ ~Refused(name, address)
    /\ fails' = Without(Over({name, address}))
    /\ try' = [try EXCEPT ![c] = [op |-> "login", keys |-> {name, address}]]
    /\ UNCHANGED <<pin, device, wrong>>

(* It looks at the name first, so that one may be forgotten before the address refuses. *)
TurnedAway(name, address) ==
    /\ ~TooMany(name) /\ TooMany(address)
    /\ fails' = Without(Over({name}))
    /\ UNCHANGED <<pin, device, try, wrong>>

(* record_failure *)
WrongPassword(c) ==
    /\ try[c].op = "login"
    /\ fails' = [k \in DOMAIN fails |->
                    IF k \notin try[c].keys THEN fails[k]
                    ELSE [count |-> fails[k].count + 1, old |-> fails[k].old /\ fails[k].count > 0]]
    /\ Ends(c)
    /\ UNCHANGED <<pin, device, wrong>>

(* clear_failures *)
RightPassword(c) ==
    /\ try[c].op = "login"
    /\ fails' = Without(try[c].keys)
    /\ Ends(c)
    /\ UNCHANGED <<pin, device, wrong>>

WindowEnds(k) ==
    /\ fails[k].count > 0
    /\ fails' = [fails EXCEPT ![k].old = TRUE]
    /\ UNCHANGED <<pin, device, try, wrong>>

(* The counters are in memory. *)
Restart ==
    /\ fails' = [k \in DOMAIN fails |-> NoFails]
    /\ device' = 0
    /\ try' = [c \in Clients |-> NoTry]
    /\ UNCHANGED <<pin, wrong>>

-----------------------------------------------------------------------------
(* verify_employee_pin: the employee's row is read, without a lock, ... *)
BeginPin(c) ==
    /\ try[c] = NoTry
    /\ device < PinIpMaxFails
    /\ ~pin.locked
    /\ try' = [try EXCEPT ![c] = [op |-> "pin", read |-> pin.failed]]
    /\ wrong' = [wrong EXCEPT !.together = @ \/ \E d \in Clients : try[d].op = "pin"]
    /\ UNCHANGED <<fails, pin, device>>

Locks(n) == n >= PinAttempts

(* ... and the count that was read, plus one, is written back. *)
WrongPin(c) ==
    /\ try[c].op = "pin"
    /\ LET n == try[c].read + 1 IN
        /\ pin' = IF Locks(n) THEN [failed |-> 0, locked |-> TRUE] ELSE [pin EXCEPT !.failed = n]
        /\ wrong' = IF wrong.together THEN wrong ELSE [wrong EXCEPT !.tries = IF Locks(n) THEN 0 ELSE @ + 1]
    /\ device' = device + 1
    /\ Ends(c)
    /\ UNCHANGED fails

RightPin(c) ==
    /\ try[c].op = "pin"
    /\ pin' = [failed |-> 0, locked |-> FALSE]
    /\ wrong' = [wrong EXCEPT !.tries = 0]
    /\ Ends(c)
    /\ UNCHANGED <<fails, device>>

(* set_employee_pin *)
SetPin ==
    /\ pin' = [failed |-> 0, locked |-> FALSE]
    /\ wrong' = [tries |-> 0, together |-> wrong.together \/ \E c \in Clients : try[c].op = "pin"]
    /\ UNCHANGED <<fails, device, try>>

PinUnlocks ==
    /\ pin.locked
    /\ pin' = [pin EXCEPT !.locked = FALSE]
    /\ UNCHANGED <<fails, device, try, wrong>>

DeviceForgets ==
    /\ device > 0
    /\ device' = device - 1
    /\ UNCHANGED <<fails, pin, try, wrong>>

SignInNext ==
    \/ \E c \in Clients :
        \/ \E name \in Names, address \in Addresses : BeginLogin(c, name, address)
        \/ WrongPassword(c) \/ RightPassword(c)
        \/ BeginPin(c) \/ WrongPin(c) \/ RightPin(c)
    \/ \E name \in Names, address \in Addresses : TurnedAway(name, address)
    \/ \E k \in Names \cup Addresses : WindowEnds(k)
    \/ SetPin \/ PinUnlocks \/ DeviceForgets \/ Restart

SignInSpec == SignInInit /\ [][SignInNext]_signInVars

-----------------------------------------------------------------------------
Try == {NoTry}
    \cup [op : {"login"}, keys : SUBSET (Names \cup Addresses)]
    \cup [op : {"pin"}, read : Nat]

\* The counters and the tries have the shapes declared above.
SignInTypeOK ==
    /\ fails \in [Names \cup Addresses -> [count : Nat, old : BOOLEAN]]
    /\ pin \in [failed : Nat, locked : BOOLEAN]
    /\ device \in Nat
    /\ try \in [Clients -> Try]
    /\ wrong \in [tries : Nat, together : BOOLEAN]

Login(k) == {c \in Clients : try[c].op = "login" /\ k \in try[c].keys}
Pin == {c \in Clients : try[c].op = "pin"}

\* MAX_FAILURES and PIN_IP_MAX_FAILS: however many tries run at once, what is counted against a
\* name, an address or a phone exceeds the limit by no more than the tries that can be in flight.
\* "Wrong PINs lock that employee after the number of tries set" (attendance.py:532): so it is
\* while tries come one by one; tries at once can be counted as one.
TriesAreLimited ==
    /\ \A k \in Names \cup Addresses :
          fails[k].count + Cardinality(Login(k)) < MaxFailures + Cardinality(Clients)
    /\ device + Cardinality(Pin) < PinIpMaxFails + Cardinality(Clients)
    /\ ~wrong.together => wrong.tries = pin.failed /\ wrong.tries < PinAttempts
=============================================================================
