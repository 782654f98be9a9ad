---------------------------- MODULE PeopleProofs ----------------------------
(***************************************************************************)
(* The parts MCPeople puts side by side, one after the other: what each    *)
(* keeps true for every value of its constants, and the shapes of the run. *)
(***************************************************************************)
EXTENDS MCPeople, FiniteSetTheorems, TLAPS

-----------------------------------------------------------------------------
(***************************************************************************)
(* Access: an administrator stays in the portal, and the two programs that *)
(* say who may open a page agree.                                          *)
(***************************************************************************)
\* What a request does to its own sender was allowed when it came in.
OwnErrands ==
    \A c \in Clerks :
        LET e == errand[c] IN
        (e.op = "change" /\ e.by = e.on) =>
            \/ e.what.member = "reset"
            \/ e.what.member = "role" /\ e.what.role = "admin"

AccessInv == MembersTypeOK /\ exception \in [MemberKeys -> Exceptions] /\ OwnErrands /\ AdminRemains

LEMMA NoMemberIsNoMember == \A r \in Member : r # NoMember
BY DEF Member, NoMember

LEMMA AccessStart == AccessInit => AccessInv
<1> SUFFICES ASSUME AccessInit PROVE AccessInv
  OBVIOUS
<1> USE DEF AccessInit, MembersInit
<1>1. MembersTypeOK
  BY DEF MembersTypeOK, Member, Errand, NoErrand
<1>2. exception \in [MemberKeys -> Exceptions]
  BY DEF Exceptions, NoException
<1>3. OwnErrands
  BY DEF OwnErrands, NoErrand
<1>4. AdminRemains
  BY DEF AdminRemains, MayManage
<1> QED BY <1>1, <1>2, <1>3, <1>4 DEF AccessInv

\* A step that leaves the members alone and ends a request, or begins one that is not a change.
LEMMA ErrandKeeps ==
    ASSUME MembersTypeOK, OwnErrands, AdminRemains, NEW c \in Clerks,
           NEW e \in Errand, e.op # "change",
           errand' = [errand EXCEPT ![c] = e], UNCHANGED <<member, crossed>>
    PROVE  MembersTypeOK' /\ OwnErrands' /\ AdminRemains'
<1>1. MembersTypeOK'
  BY DEF MembersTypeOK
<1>2. OwnErrands'
  BY DEF MembersTypeOK, OwnErrands
<1>3. AdminRemains'
  BY DEF AdminRemains, Exist
<1> QED BY <1>1, <1>2, <1>3

\* A step that writes one member's row and keeps an administrator an administrator.
LEMMA CreateKeeps ==
    ASSUME MembersTypeOK, OwnErrands, AdminRemains, NEW a \in MemberKeys, NEW m \in MemberKeys,
           NEW r \in Roles, CreateMember(a, m, r)
    PROVE  MembersTypeOK' /\ OwnErrands' /\ AdminRemains'
<1> USE DEF CreateMember
<1>1. MembersTypeOK'
  BY DEF MembersTypeOK, Member
<1>2. OwnErrands'
  BY DEF OwnErrands
<1>3. AdminRemains'
  BY DEF AdminRemains, Exist, MembersTypeOK
<1> QED BY <1>1, <1>2, <1>3

LEMMA BeginChangeKeeps ==
    ASSUME MembersTypeOK, OwnErrands, AdminRemains, NEW c \in Clerks, NEW a \in MemberKeys,
           NEW m \in MemberKeys, NEW asked \in Changes, BeginChange(c, a, m, asked)
    PROVE  MembersTypeOK' /\ OwnErrands' /\ AdminRemains'
<1> DEFINE e == [op |-> "change", by |-> a, on |-> m, what |-> asked]
<1>0. /\ errand' = [errand EXCEPT ![c] = e] /\ UNCHANGED <<member, crossed>>
      /\ MayManage(a) /\ AllowedOn(a, m, asked)
  BY DEF BeginChange
<1>1. e \in Errand /\ e.op = "change" /\ e.by = a /\ e.on = m /\ e.what = asked
  BY DEF Errand
<1>2. a = m => \/ asked.member = "reset"
               \/ asked.member = "role" /\ asked.role = "admin"
  BY <1>0 DEF AllowedOn, MayManage
<1> HIDE DEF e
<1>3. MembersTypeOK'
  BY <1>0, <1>1 DEF MembersTypeOK
<1>4. OwnErrands'
  BY <1>0, <1>1, <1>2 DEF OwnErrands, MembersTypeOK
<1>5. AdminRemains'
  BY <1>0 DEF AdminRemains, Exist
<1> QED BY <1>3, <1>4, <1>5

LEMMA ChangedIsMember ==
    ASSUME NEW r \in Member, NEW asked \in Changes
    PROVE  /\ Changed(r, asked) \in Member \cup {NoMember}
           /\ asked.member = "reset" => Changed(r, asked).role = r.role /\ Changed(r, asked).enabled
           /\ asked.member = "role" => /\ Changed(r, asked).role = asked.role
                                        /\ Changed(r, asked).enabled = r.enabled
           /\ asked.member \in {"reset", "role"} => Changed(r, asked) \in Member
<1>1. CASE \E role \in Roles : asked = RoleChange(role)
  <2>1. PICK role \in Roles : asked = RoleChange(role)
    BY <1>1
  <2>2. asked.member = "role" /\ asked.role = role
    BY <2>1 DEF RoleChange
  <2>3. Changed(r, asked) = [r EXCEPT !.role = role]
    BY <2>2 DEF Changed
  <2> QED BY <2>2, <2>3 DEF Member
<1>2. CASE asked = Reset
  BY <1>2 DEF Reset, Changed, Member
<1>3. CASE asked = Disable
  BY <1>3 DEF Disable, Changed, Member
<1>4. CASE asked = Remove
  BY <1>4 DEF Remove, Changed, Member
<1> QED BY <1>1, <1>2, <1>3, <1>4 DEF Changes

\* The write of a change: its sender is an administrator still, and stays one whatever it does to
\* itself; or it is not, and the history says so.
LEMMA FinishChangeKeeps ==
    ASSUME MembersTypeOK, OwnErrands, AdminRemains, NEW c \in Clerks, FinishChange(c)
    PROVE  MembersTypeOK' /\ OwnErrands' /\ AdminRemains'
<1> DEFINE e == errand[c]
<1>0. e.op = "change" /\ errand' = [errand EXCEPT ![c] = NoErrand]
  BY DEF FinishChange
<1>1. e.by \in MemberKeys /\ e.on \in MemberKeys /\ e.what \in Changes
  BY <1>0 DEF MembersTypeOK, Errand, NoErrand
<1>2. NoErrand \in Errand /\ NoErrand.op = "idle"
  BY DEF NoErrand, Errand
<1>3. OwnErrands'
  BY <1>0, <1>2 DEF OwnErrands, MembersTypeOK
<1>4. CASE ~(Exist(e.on) /\ Exist(e.by))
  <2>1. UNCHANGED <<member, crossed>>
    BY <1>4 DEF FinishChange
  <2> QED BY <1>0, <1>2, <1>3, <2>1 DEF MembersTypeOK, AdminRemains, Exist
<1>5. CASE Exist(e.on) /\ Exist(e.by)
  <2>1. /\ member' = [member EXCEPT ![e.on] = Changed(member[e.on], e.what)]
        /\ crossed' = (crossed \/ ~MayManage(e.by))
    BY <1>5 DEF FinishChange
  <2>2. member[e.on] \in Member /\ member[e.by] \in Member
    BY <1>1, <1>5 DEF MembersTypeOK, Exist
  <2>3. MembersTypeOK'
    BY <1>0, <1>1, <1>2, <2>1, <2>2, ChangedIsMember DEF MembersTypeOK
  <2>4. AdminRemains'
    <3>1. CASE crossed'
      BY <3>1 DEF AdminRemains
    <3>2. CASE ~crossed'
      <4>1. crossed' \in BOOLEAN /\ MayManage(e.by)
        BY <2>1, <2>3, <3>2 DEF MembersTypeOK
      <4>2. CASE e.by # e.on
        <5>1. member'[e.by] = member[e.by]
          BY <1>1, <2>1, <4>2 DEF MembersTypeOK
        <5> QED BY <1>1, <4>1, <5>1 DEF AdminRemains, MayManage, Exist
      <4>3. CASE e.by = e.on
        <5>1. member'[e.by] = Changed(member[e.by], e.what)
          BY <1>1, <2>1, <4>3 DEF MembersTypeOK
        <5>2. \/ e.what.member = "reset"
              \/ e.what.member = "role" /\ e.what.role = "admin"
          BY <1>0, <4>3 DEF OwnErrands
        <5>3. member'[e.by] \in Member /\ member'[e.by].role = "admin" /\ member'[e.by].enabled
          BY <1>1, <2>2, <4>1, <5>1, <5>2, ChangedIsMember DEF MayManage
        <5> QED BY <1>1, <5>3, NoMemberIsNoMember DEF AdminRemains, Exist
      <4> QED BY <4>2, <4>3
    <3> QED BY <3>1, <3>2
  <2> QED BY <1>3, <2>3, <2>4
<1> QED BY <1>4, <1>5

LEMMA FinishChangeOwnKeeps ==
    ASSUME MembersTypeOK, OwnErrands, AdminRemains, NEW c \in Clerks, FinishChangeOwn(c)
    PROVE  MembersTypeOK' /\ OwnErrands' /\ AdminRemains'
<1> DEFINE m == errand[c].by
<1>0. /\ errand[c].op = "own" /\ errand' = [errand EXCEPT ![c] = NoErrand] /\ crossed' = crossed
      /\ IF Exist(m) THEN member' = [member EXCEPT ![m].enabled = TRUE, ![m].mustChange = FALSE]
                     ELSE UNCHANGED member
  BY DEF FinishChangeOwn
<1>1. m \in MemberKeys
  BY <1>0 DEF MembersTypeOK, Errand, NoErrand
<1>2. NoErrand \in Errand /\ NoErrand.op = "idle"
  BY DEF NoErrand, Errand
<1>3. OwnErrands'
  BY <1>0, <1>2 DEF OwnErrands, MembersTypeOK
<1>4. CASE ~Exist(m)
  BY <1>0, <1>2, <1>3, <1>4 DEF MembersTypeOK, AdminRemains, Exist
<1>5. CASE Exist(m)
  <2>1. member[m] \in Member
    BY <1>1, <1>5 DEF MembersTypeOK, Exist
  <2> DEFINE r == [member[m] EXCEPT !.enabled = TRUE, !.mustChange = FALSE]
  <2>a. r \in Member /\ r.role = member[m].role /\ r.enabled
    BY <2>1 DEF Member
  <2>b. member' = [member EXCEPT ![m] = r]
    BY <1>0, <1>1, <1>5 DEF MembersTypeOK
  <2> HIDE DEF r
  <2>2. /\ member' \in [MemberKeys -> Member \cup {NoMember}]
        /\ member'[m] \in Member /\ member'[m].role = member[m].role /\ member'[m].enabled
        /\ \A p \in MemberKeys \ {m} : member'[p] = member[p]
    BY <1>1, <2>a, <2>b DEF MembersTypeOK
  <2>3. MembersTypeOK'
    BY <1>0, <1>2, <2>2 DEF MembersTypeOK
  <2>4. AdminRemains'
    BY <1>0, <1>1, <2>2, NoMemberIsNoMember DEF AdminRemains, Exist
  <2> QED BY <1>3, <2>3, <2>4
<1> QED BY <1>4, <1>5

LEMMA MembersStepKeeps ==
    ASSUME MembersTypeOK, OwnErrands, AdminRemains, MembersNext
    PROVE  MembersTypeOK' /\ OwnErrands' /\ AdminRemains'
<1>1. ASSUME NEW a \in MemberKeys, NEW m \in MemberKeys, NEW r \in Roles, CreateMember(a, m, r)
      PROVE  MembersTypeOK' /\ OwnErrands' /\ AdminRemains'
  BY <1>1, CreateKeeps
<1>2. ASSUME NEW c \in Clerks, NEW a \in MemberKeys, NEW m \in MemberKeys, NEW asked \in Changes,
             BeginChange(c, a, m, asked)
      PROVE  MembersTypeOK' /\ OwnErrands' /\ AdminRemains'
  BY <1>2, BeginChangeKeeps
<1>3. ASSUME NEW c \in Clerks, NEW m \in MemberKeys, BeginChangeOwn(c, m)
      PROVE  MembersTypeOK' /\ OwnErrands' /\ AdminRemains'
  <2>1. [op |-> "own", by |-> m] \in Errand /\ [op |-> "own", by |-> m].op # "change"
    BY DEF Errand
  <2> QED BY <1>3, <2>1, ErrandKeeps DEF BeginChangeOwn
<1>4. ASSUME NEW c \in Clerks, FinishChange(c)
      PROVE  MembersTypeOK' /\ OwnErrands' /\ AdminRemains'
  BY <1>4, FinishChangeKeeps
<1>5. ASSUME NEW c \in Clerks, FinishChangeOwn(c)
      PROVE  MembersTypeOK' /\ OwnErrands' /\ AdminRemains'
  BY <1>5, FinishChangeOwnKeeps
<1> QED BY <1>1, <1>2, <1>3, <1>4, <1>5 DEF MembersNext

LEMMA AccessStep == AccessInv /\ [AccessNext]_<<memberVars, accessVars>> => AccessInv'
<1> SUFFICES ASSUME AccessInv, [AccessNext]_<<memberVars, accessVars>> PROVE AccessInv'
  OBVIOUS
<1> USE DEF AccessInv
<1>1. CASE MembersNext /\ Cascade
  <2>1. exception' \in [MemberKeys -> Exceptions]
    BY <1>1 DEF Cascade, Exceptions, NoException
  <2> QED BY <1>1, <2>1, MembersStepKeeps
<1>2. ASSUME UNCHANGED memberVars, exception' \in [MemberKeys -> Exceptions] PROVE AccessInv'
  BY <1>2 DEF memberVars, MembersTypeOK, OwnErrands, AdminRemains, Exist
<1>3. ASSUME NEW a \in MemberKeys, NEW r \in Roles, SwitchRole(a, r) PROVE AccessInv'
  BY <1>2, <1>3 DEF SwitchRole
<1>4. ASSUME NEW a \in MemberKeys, NEW m \in MemberKeys, NEW x \in Exceptions, SetException(a, m, x) PROVE AccessInv'
  BY <1>2, <1>4 DEF SetException
<1>5. ASSUME NEW a \in MemberKeys, NEW m \in MemberKeys, NEW approve \in BOOLEAN, DecideRequest(a, m, approve) PROVE AccessInv'
  <2>1. exception' \in [MemberKeys -> Exceptions]
    BY <1>5 DEF DecideRequest, Exceptions
  <2> QED BY <1>2, <1>5, <2>1 DEF DecideRequest
<1>6. ASSUME NEW c \in Clerks, FinishAsk(c) PROVE AccessInv'
  <2>1. NoErrand \in Errand /\ NoErrand.op # "change"
    BY DEF NoErrand, Errand
  <2> QED BY <1>6, <2>1, ErrandKeeps DEF FinishAsk
<1>7. ASSUME NEW c \in Clerks, NEW m \in MemberKeys, BeginAsk(c, m) PROVE AccessInv'
  <2>1. [op |-> "ask", by |-> m] \in Errand /\ [op |-> "ask", by |-> m].op # "change"
    BY DEF Errand
  <2> QED BY <1>7, <2>1, ErrandKeeps DEF BeginAsk
<1>8. CASE UNCHANGED <<memberVars, accessVars>>
  BY <1>2, <1>8 DEF accessVars
<1> QED BY <1>1, <1>3, <1>4, <1>5, <1>6, <1>7, <1>8 DEF AccessNext

\* Both programs give the same answer for every role, exception and state of the members.
LEMMA BothAnswersAgree == exception \in [MemberKeys -> Exceptions] => HoldersAgree
BY DEF HoldersAgree, UsersWithPage, Effective, Exceptions, NoException, Accepted

\* However many members, roles and overlapping requests there are, an administrator who can sign
\* in stays (edit_user, disable_user, delete_user of admin.py), unless a request was carried out
\* for somebody who was not one any more.
THEOREM AdministratorStays == AccessSpec => []AdminRemains
<1>1. AccessSpec => []AccessInv
  BY AccessStart, AccessStep, PTL DEF AccessSpec
<1>2. AccessInv => AdminRemains
  BY DEF AccessInv
<1> QED BY <1>1, <1>2, PTL

\* effective_access and users_with_page agree on every person, whatever was switched, set, asked
\* for and decided.
THEOREM AnswersAgree == AccessSpec => []HoldersAgree
<1>1. AccessSpec => []AccessInv
  BY AccessStart, AccessStep, PTL DEF AccessSpec
<1>2. AccessInv => HoldersAgree
  BY BothAnswersAgree DEF AccessInv
<1> QED BY <1>1, <1>2, PTL

-----------------------------------------------------------------------------
(***************************************************************************)
(* Sign-in: the counters of wrong tries.                                   *)
(***************************************************************************)
(* PINs tried one by one: nobody holds a count that is not the employee's. *)
OneByOne ==
    ~wrong.together =>
        /\ \A c \in Clients : try[c].op = "pin" => try[c].read = pin.failed
        /\ \A c, d \in Clients : try[c].op = "pin" /\ try[d].op = "pin" => c = d

(* The three parts of TriesAreLimited. *)
LoginsAreLimited ==
    \A k \in Names \cup Addresses :
        fails[k].count + Cardinality(Login(k)) < MaxFailures + Cardinality(Clients)
PinsAreLimited == device + Cardinality(Pin) < PinIpMaxFails + Cardinality(Clients)
PinLocks == ~wrong.together => wrong.tries = pin.failed /\ wrong.tries < PinAttempts

SignInInv == SignInTypeOK /\ LoginsAreLimited /\ PinsAreLimited /\ PinLocks /\ OneByOne

(* What is counted of the tries in flight, and how it changes when one begins or ends. *)
LEMMA SomeClients ==
    ASSUME NEW S \in SUBSET Clients
    PROVE  /\ IsFiniteSet(S) /\ Cardinality(S) \in Nat /\ Cardinality(Clients) \in Nat
           /\ Cardinality(S) <= Cardinality(Clients)
  BY FS_Subset, FS_CardinalityType, ClientsAssumption

LEMMA OneLess ==
    ASSUME NEW S \in SUBSET Clients, NEW c \in S, NEW T, T \subseteq S \ {c}
    PROVE  Cardinality(T) + 1 <= Cardinality(S)
  <1>1. IsFiniteSet(S)
    BY SomeClients
  <1>2. Cardinality(S \ {c}) = Cardinality(S) - 1 /\ IsFiniteSet(S \ {c})
    BY <1>1, FS_RemoveElement
  <1>3. Cardinality(T) <= Cardinality(S \ {c}) /\ IsFiniteSet(T)
    BY <1>2, FS_Subset
  <1>4. Cardinality(T) \in Nat /\ Cardinality(S) \in Nat
    BY <1>1, <1>3, FS_CardinalityType
  <1> QED
    BY <1>2, <1>3, <1>4

LEMMA NotMore ==
    ASSUME NEW S \in SUBSET Clients, NEW T, T \subseteq S
    PROVE  Cardinality(T) <= Cardinality(S) /\ Cardinality(T) \in Nat /\ Cardinality(S) \in Nat
  BY SomeClients, FS_Subset, FS_CardinalityType

LEMMA Limits ==
    /\ MaxFailures \in Nat /\ MaxFailures > 0
    /\ PinAttempts \in Nat /\ PinAttempts > 0
    /\ PinIpMaxFails \in Nat /\ PinIpMaxFails > 0
  BY LimitsAssumption

LEMMA TryFields ==
    ASSUME SignInTypeOK, NEW c \in Clients
    PROVE  /\ try[c] \in Try
           /\ try[c].op \in {"idle", "login", "pin"}
           /\ try[c].op = "login" => try[c].keys \in SUBSET (Names \cup Addresses)
           /\ try[c].op = "pin" => try[c].read \in Nat
  BY DEF SignInTypeOK, Try, NoTry

LEMMA SignInStart == SignInInit => SignInInv
  <1> SUFFICES ASSUME SignInInit
               PROVE  SignInInv
    OBVIOUS
  <1>1. \A k : Login(k) = {}
    BY DEF SignInInit, Login, NoTry
  <1>2. Pin = {}
    BY DEF SignInInit, Pin, NoTry
  <1>3. Cardinality({}) = 0 /\ Cardinality(Clients) \in Nat
    BY FS_EmptySet, FS_CardinalityType, ClientsAssumption
  <1>4. SignInTypeOK
    BY DEF SignInInit, SignInTypeOK, NoFails, NoTry, Try
  <1>5. LoginsAreLimited
    <2> SUFFICES ASSUME NEW k \in Names \cup Addresses
                 PROVE  fails[k].count + Cardinality(Login(k)) < MaxFailures + Cardinality(Clients)
      BY DEF LoginsAreLimited
    <2>1. fails[k].count = 0 /\ Cardinality(Login(k)) = 0
      BY <1>1, <1>3 DEF SignInInit, NoFails
    <2> QED
      BY <1>3, <2>1, Limits
  <1>6. PinsAreLimited
    BY <1>2, <1>3, Limits DEF SignInInit, PinsAreLimited
  <1>7. PinLocks /\ OneByOne
    BY Limits DEF SignInInit, PinLocks, OneByOne, NoTry
  <1> QED
    BY <1>4, <1>5, <1>6, <1>7 DEF SignInInv

(* Nothing but counts of logins changes, and no count grows. *)
LEMMA CountsShrink ==
    ASSUME SignInInv, UNCHANGED <<pin, device, wrong, try>>,
           fails' \in [Names \cup Addresses -> [count : Nat, old : BOOLEAN]],
           \A k \in Names \cup Addresses : fails'[k].count <= fails[k].count
    PROVE  SignInInv'
  <1>1. SignInTypeOK'
    BY DEF SignInInv, SignInTypeOK
  <1>2. \A k : Login(k)' = Login(k)
    BY DEF Login
  <1>3. LoginsAreLimited'
    <2> SUFFICES ASSUME NEW k \in Names \cup Addresses
                 PROVE  fails'[k].count + Cardinality(Login(k)) < MaxFailures + Cardinality(Clients)
      BY <1>2 DEF LoginsAreLimited
    <2>1. Login(k) \in SUBSET Clients
      BY DEF Login
    <2>2. /\ fails'[k].count \in Nat /\ fails[k].count \in Nat
          /\ fails[k].count + Cardinality(Login(k)) < MaxFailures + Cardinality(Clients)
      BY DEF SignInInv, SignInTypeOK, LoginsAreLimited
    <2> QED
      BY <2>1, <2>2, SomeClients, Limits
  <1>4. PinsAreLimited' /\ PinLocks' /\ OneByOne'
    BY DEF SignInInv, PinsAreLimited, PinLocks, OneByOne, Pin
  <1> QED
    BY <1>1, <1>3, <1>4 DEF SignInInv

LEMMA WithoutFails ==
    ASSUME SignInTypeOK, NEW keys, fails' = Without(keys)
    PROVE  /\ fails' \in [Names \cup Addresses -> [count : Nat, old : BOOLEAN]]
           /\ \A k \in Names \cup Addresses :
                 /\ fails'[k].count <= fails[k].count
                 /\ k \in keys => fails'[k].count = 0
  BY DEF SignInTypeOK, Without, NoFails

LEMMA BeginLoginKeeps ==
    ASSUME SignInInv, NEW c \in Clients, NEW name \in Names, NEW address \in Addresses,
           BeginLogin(c, name, address)
    PROVE  SignInInv'
  <1> USE DEF SignInInv
  <1> DEFINE next == [op |-> "login", keys |-> {name, address}]
  <1>1. /\ try' = [try EXCEPT ![c] = next] /\ UNCHANGED <<pin, device, wrong>>
        /\ next \in Try /\ next.op = "login" /\ next.keys = {name, address} /\ try[c].op = "idle"
    BY DEF BeginLogin, Try, NoTry
  <1> HIDE DEF next
  <1>2. /\ fails' \in [Names \cup Addresses -> [count : Nat, old : BOOLEAN]]
        /\ \A k \in Names \cup Addresses : fails'[k].count <= fails[k].count
    BY WithoutFails DEF BeginLogin
  <1>3. SignInTypeOK'
    BY <1>1, <1>2 DEF SignInTypeOK
  <1>4. ASSUME NEW k \in {name, address}
        PROVE  fails'[k].count < MaxFailures
    <2>1. ~TooMany(k)
      BY <1>4 DEF BeginLogin, Refused
    <2>2. CASE fails[k].old
      <3>1. k \in Over({name, address})
        BY <1>4, <2>2 DEF Over
      <3>2. fails'[k].count = 0
        BY <1>4, <3>1, WithoutFails DEF BeginLogin
      <3> QED
        BY <3>2, Limits
    <2>3. CASE ~fails[k].old
      <3>1. fails[k].count < MaxFailures /\ fails[k].count \in Nat /\ fails'[k].count \in Nat
        BY <1>2, <1>4, <2>1, <2>3, Limits DEF TooMany, SignInTypeOK
      <3> QED
        BY <1>2, <1>4, <3>1, Limits
    <2> QED
      BY <2>2, <2>3
  <1>5. LoginsAreLimited'
    <2> SUFFICES ASSUME NEW k \in Names \cup Addresses
                 PROVE  fails'[k].count + Cardinality(Login(k)') < MaxFailures + Cardinality(Clients)
      BY DEF LoginsAreLimited
    <2>0. Login(k) \in SUBSET Clients /\ Login(k)' \in SUBSET Clients
      BY DEF Login
    <2>1. CASE k \in {name, address}
      BY <1>2, <1>4, <2>0, <2>1, SomeClients, Limits
    <2>2. CASE k \notin {name, address}
      <3>1. Login(k)' = Login(k)
        BY <1>1, <2>2 DEF Login, SignInTypeOK
      <3>2. fails[k].count + Cardinality(Login(k)) < MaxFailures + Cardinality(Clients)
        BY DEF LoginsAreLimited
      <3>3. fails[k].count \in Nat /\ fails'[k].count \in Nat /\ fails'[k].count <= fails[k].count
        BY <1>2 DEF SignInTypeOK
      <3> QED
        BY <2>0, <3>1, <3>2, <3>3, SomeClients, Limits
    <2> QED
      BY <2>1, <2>2
  <1>6. Pin' = Pin
    BY <1>1 DEF Pin, SignInTypeOK
  <1>7. PinsAreLimited' /\ PinLocks'
    BY <1>1, <1>6 DEF PinsAreLimited, PinLocks
  <1>8. OneByOne'
    BY <1>1 DEF OneByOne, SignInTypeOK
  <1> QED
    BY <1>3, <1>5, <1>7, <1>8

(* The end of a login: what was counted for its keys is counted, or forgotten. *)
LEMMA EndLoginKeeps ==
    ASSUME SignInInv, NEW c \in Clients, WrongPassword(c) \/ RightPassword(c)
    PROVE  SignInInv'
  <1> USE DEF SignInInv
  <1>1. /\ try' = [try EXCEPT ![c] = NoTry] /\ UNCHANGED <<pin, device, wrong>>
        /\ try[c].op = "login" /\ NoTry \in Try /\ NoTry.op = "idle"
        /\ try[c].keys \in SUBSET (Names \cup Addresses)
    BY TryFields DEF WrongPassword, RightPassword, Ends, Try, NoTry
  <1>2. /\ fails' \in [Names \cup Addresses -> [count : Nat, old : BOOLEAN]]
        /\ \A k \in Names \cup Addresses :
              \/ fails'[k].count <= fails[k].count
              \/ k \in try[c].keys /\ fails'[k].count = fails[k].count + 1
    <2>1. CASE WrongPassword(c)
      BY <2>1 DEF WrongPassword, SignInTypeOK
    <2>2. CASE RightPassword(c)
      BY <2>2, WithoutFails DEF RightPassword
    <2> QED
      BY <2>1, <2>2
  <1>3. SignInTypeOK'
    BY <1>1, <1>2 DEF SignInTypeOK
  <1>4. LoginsAreLimited'
    <2> SUFFICES ASSUME NEW k \in Names \cup Addresses
                 PROVE  fails'[k].count + Cardinality(Login(k)') < MaxFailures + Cardinality(Clients)
      BY DEF LoginsAreLimited
    <2>1. /\ Login(k) \in SUBSET Clients /\ Login(k)' \subseteq Login(k) \ {c}
          /\ k \in try[c].keys => c \in Login(k)
      BY <1>1 DEF Login, SignInTypeOK
    <2>2. Cardinality(Login(k)') <= Cardinality(Login(k)) /\ Cardinality(Login(k)') \in Nat
      BY <2>1, NotMore
    <2>3. k \in try[c].keys => Cardinality(Login(k)') + 1 <= Cardinality(Login(k))
      BY <2>1, OneLess
    <2>4. /\ fails[k].count \in Nat /\ fails'[k].count \in Nat
          /\ fails[k].count + Cardinality(Login(k)) < MaxFailures + Cardinality(Clients)
      BY <1>2 DEF SignInTypeOK, LoginsAreLimited
    <2> QED
      BY <1>2, <2>1, <2>2, <2>3, <2>4, SomeClients, Limits
  <1>5. Pin' = Pin
    BY <1>1 DEF Pin, SignInTypeOK
  <1>6. PinsAreLimited' /\ PinLocks'
    BY <1>1, <1>5 DEF PinsAreLimited, PinLocks
  <1>7. OneByOne'
    BY <1>1 DEF OneByOne, SignInTypeOK
  <1> QED
    BY <1>3, <1>4, <1>6, <1>7

LEMMA BeginPinKeeps ==
    ASSUME SignInInv, NEW c \in Clients, BeginPin(c)
    PROVE  SignInInv'
  <1> USE DEF SignInInv
  <1> DEFINE next == [op |-> "pin", read |-> pin.failed]
  <1>1. /\ try' = [try EXCEPT ![c] = next] /\ UNCHANGED <<fails, pin, device>>
        /\ pin.failed \in Nat
        /\ next \in Try /\ next.op = "pin" /\ next.read = pin.failed /\ try[c].op = "idle"
    BY DEF BeginPin, Try, NoTry, SignInTypeOK
  <1> HIDE DEF next
  <1>2. /\ wrong' \in [tries : Nat, together : BOOLEAN] /\ wrong'.tries = wrong.tries
        /\ ~wrong'.together => ~wrong.together /\ \A d \in Clients : try[d].op # "pin"
    BY DEF BeginPin, SignInTypeOK
  <1>3. SignInTypeOK'
    BY <1>1, <1>2 DEF SignInTypeOK
  <1>4. \A k : Login(k)' = Login(k)
    BY <1>1 DEF Login, SignInTypeOK
  <1>5. LoginsAreLimited'
    BY <1>1, <1>4 DEF LoginsAreLimited
  <1>6. PinsAreLimited'
    <2>1. Pin' \in SUBSET Clients
      BY DEF Pin
    <2>2. device < PinIpMaxFails /\ device \in Nat
      BY DEF BeginPin, SignInTypeOK
    <2> QED
      BY <1>1, <2>1, <2>2, SomeClients, Limits DEF PinsAreLimited
  <1>7. PinLocks'
    BY <1>1, <1>2 DEF PinLocks
  <1>8. OneByOne'
    BY <1>1, <1>2 DEF OneByOne, SignInTypeOK
  <1> QED
    BY <1>3, <1>5, <1>6, <1>7, <1>8

LEMMA EndPinKeeps ==
    ASSUME SignInInv, NEW c \in Clients, WrongPin(c) \/ RightPin(c)
    PROVE  SignInInv'
  <1> USE DEF SignInInv
  <1>1. /\ try' = [try EXCEPT ![c] = NoTry] /\ UNCHANGED fails
        /\ try[c].op = "pin" /\ NoTry \in Try /\ NoTry.op = "idle" /\ try[c].read \in Nat
        /\ device' \in {device, device + 1} /\ device \in Nat
    BY TryFields DEF WrongPin, RightPin, Ends, Try, NoTry, SignInTypeOK
  <1>2. wrong'.together = wrong.together
    BY DEF WrongPin, RightPin, SignInTypeOK
  <1>3. ~wrong.together =>
            /\ try[c].read = pin.failed /\ wrong.tries = pin.failed
            /\ \A d \in Clients : d # c => try[d].op # "pin"
    BY <1>1 DEF OneByOne, PinLocks
  <1>4. /\ pin' \in [failed : Nat, locked : BOOLEAN] /\ wrong' \in [tries : Nat, together : BOOLEAN]
        /\ PinLocks'
    <2>1. CASE RightPin(c)
      BY <2>1, Limits DEF RightPin, PinLocks, SignInTypeOK
    <2>2. CASE WrongPin(c) /\ Locks(try[c].read + 1)
      BY <2>2, Limits DEF WrongPin, PinLocks, SignInTypeOK
    <2>3. CASE WrongPin(c) /\ ~Locks(try[c].read + 1)
      <3>1. pin' = [pin EXCEPT !.failed = try[c].read + 1]
        BY <2>3 DEF WrongPin
      <3>2. wrong' = IF wrong.together THEN wrong ELSE [wrong EXCEPT !.tries = @ + 1]
        BY <2>3 DEF WrongPin
      <3>3. pin'.failed = try[c].read + 1 /\ pin' \in [failed : Nat, locked : BOOLEAN]
        BY <1>1, <3>1 DEF SignInTypeOK
      <3>4. ~wrong.together => wrong'.tries = wrong.tries + 1
        BY <3>2 DEF SignInTypeOK
      <3>5. try[c].read + 1 < PinAttempts
        BY <1>1, <2>3, Limits DEF Locks
      <3>6. wrong' \in [tries : Nat, together : BOOLEAN]
        BY <3>2 DEF SignInTypeOK
      <3> QED
        BY <1>2, <1>3, <3>3, <3>4, <3>5, <3>6 DEF PinLocks
    <2> QED
      BY <2>1, <2>2, <2>3
  <1>5. SignInTypeOK'
    BY <1>1, <1>4 DEF SignInTypeOK
  <1>6. \A k : Login(k)' = Login(k)
    BY <1>1 DEF Login, SignInTypeOK
  <1>7. LoginsAreLimited'
    BY <1>1, <1>6 DEF LoginsAreLimited
  <1>8. PinsAreLimited'
    <2>1. Pin \in SUBSET Clients /\ c \in Pin /\ Pin' \subseteq Pin \ {c}
      BY <1>1 DEF Pin, SignInTypeOK
    <2>2. Cardinality(Pin') + 1 <= Cardinality(Pin) /\ Cardinality(Pin') \in Nat
      BY <2>1, OneLess, NotMore
    <2> QED
      BY <1>1, <2>1, <2>2, SomeClients, Limits DEF PinsAreLimited
  <1>9. OneByOne'
    BY <1>1, <1>2, <1>3 DEF OneByOne, SignInTypeOK
  <1> QED
    BY <1>4, <1>5, <1>7, <1>8, <1>9

LEMMA SignInStep == SignInInv /\ [SignInNext]_signInVars => SignInInv'
  <1> SUFFICES ASSUME SignInInv, [SignInNext]_signInVars
               PROVE  SignInInv'
    OBVIOUS
  <1> USE DEF SignInInv
  <1>1. CASE UNCHANGED signInVars
    BY <1>1 DEF signInVars, SignInTypeOK, LoginsAreLimited, PinsAreLimited, PinLocks, OneByOne, Login, Pin
  <1>2. ASSUME NEW name \in Names, NEW address \in Addresses, TurnedAway(name, address)
        PROVE  SignInInv'
    BY <1>2, WithoutFails, CountsShrink DEF TurnedAway
  <1>3. ASSUME NEW k \in Names \cup Addresses, WindowEnds(k)
        PROVE  SignInInv'
    <2>1. /\ fails' \in [Names \cup Addresses -> [count : Nat, old : BOOLEAN]]
          /\ \A l \in Names \cup Addresses : fails'[l].count <= fails[l].count
      <3>1. fails' = [fails EXCEPT ![k].old = TRUE] /\ DOMAIN fails = Names \cup Addresses
        BY <1>3 DEF WindowEnds, SignInTypeOK
      <3>2. \A l \in Names \cup Addresses :
                fails[l] \in [count : Nat, old : BOOLEAN] /\ (l # k => fails'[l] = fails[l])
        BY <3>1 DEF SignInTypeOK
      <3>3. fails'[k] = [fails[k] EXCEPT !.old = TRUE]
        BY <3>1
      <3>4. fails'[k] \in [count : Nat, old : BOOLEAN] /\ fails'[k].count = fails[k].count
        BY <3>2, <3>3
      <3>5. \A l \in Names \cup Addresses :
                fails'[l] \in [count : Nat, old : BOOLEAN] /\ fails'[l].count <= fails[l].count
        BY <3>2, <3>4
      <3> QED
        BY <3>1, <3>5
    <2> QED
      BY <1>3, <2>1, CountsShrink DEF WindowEnds
  <1>4. CASE SetPin
    <2>1. /\ UNCHANGED <<fails, device, try>> /\ pin' = [failed |-> 0, locked |-> FALSE]
          /\ wrong'.tries = 0 /\ wrong' \in [tries : Nat, together : BOOLEAN]
          /\ ~wrong'.together => \A c \in Clients : try[c].op # "pin"
      BY <1>4 DEF SetPin, SignInTypeOK
    <2>2. SignInTypeOK'
      BY <2>1 DEF SignInTypeOK
    <2> QED
      BY <2>1, <2>2, Limits DEF LoginsAreLimited, PinsAreLimited, PinLocks, OneByOne, Login, Pin
  <1>5. CASE PinUnlocks
    <2>1. /\ UNCHANGED <<fails, device, try, wrong>> /\ pin'.failed = pin.failed
          /\ pin' \in [failed : Nat, locked : BOOLEAN]
      BY <1>5 DEF PinUnlocks, SignInTypeOK
    <2>2. SignInTypeOK'
      BY <2>1 DEF SignInTypeOK
    <2> QED
      BY <2>1, <2>2 DEF LoginsAreLimited, PinsAreLimited, PinLocks, OneByOne, Login, Pin
  <1>6. CASE DeviceForgets
    <2>1. UNCHANGED <<fails, pin, try, wrong>> /\ device' = device - 1 /\ device' \in Nat /\ device \in Nat
      BY <1>6 DEF DeviceForgets, SignInTypeOK
    <2>2. SignInTypeOK'
      BY <2>1 DEF SignInTypeOK
    <2>3. Pin' = Pin /\ Pin \in SUBSET Clients
      BY <2>1 DEF Pin
    <2>4. PinsAreLimited'
      BY <2>1, <2>3, SomeClients, Limits DEF PinsAreLimited
    <2> QED
      BY <2>1, <2>2, <2>4 DEF LoginsAreLimited, PinLocks, OneByOne, Login
  <1>7. CASE Restart
    <2>1. /\ UNCHANGED <<pin, wrong>> /\ device' = 0 /\ try' = [c \in Clients |-> NoTry] /\ NoTry.op = "idle"
          /\ NoTry \in Try
          /\ \A k \in Names \cup Addresses : fails'[k].count = 0
          /\ fails' \in [Names \cup Addresses -> [count : Nat, old : BOOLEAN]]
      BY <1>7 DEF Restart, SignInTypeOK, NoTry, NoFails, Try
    <2>2. SignInTypeOK'
      BY <2>1 DEF SignInTypeOK
    <2>3. (\A k : Login(k)' = {}) /\ Pin' = {}
      BY <2>1 DEF Login, Pin
    <2>4. Cardinality({}) = 0 /\ Cardinality(Clients) \in Nat
      BY FS_EmptySet, FS_CardinalityType, ClientsAssumption
    <2>5. LoginsAreLimited'
      <3> SUFFICES ASSUME NEW k \in Names \cup Addresses
                   PROVE  fails'[k].count + Cardinality(Login(k)') < MaxFailures + Cardinality(Clients)
        BY DEF LoginsAreLimited
      <3>1. fails'[k].count = 0 /\ Cardinality(Login(k)') = 0
        BY <2>1, <2>3, <2>4
      <3> QED
        BY <2>4, <3>1, Limits
    <2>6. PinsAreLimited'
      BY <2>1, <2>3, <2>4, Limits DEF PinsAreLimited
    <2> QED
      BY <2>1, <2>2, <2>5, <2>6 DEF PinLocks, OneByOne
  <1> QED
    BY <1>1, <1>2, <1>3, <1>4, <1>5, <1>6, <1>7, BeginLoginKeeps, EndLoginKeeps, BeginPinKeeps, EndPinKeeps
       DEF SignInNext

(* MAX_FAILURES, PIN_IP_MAX_FAILS and the setting att_pin_attempts: for any limits and any number   *)
(* of tries in flight, the counters exceed a limit by no more than those tries, and PINs tried one *)
(* by one lock the employee at the number set.                                                     *)
THEOREM TriesStayLimited == SignInSpec => []TriesAreLimited
  <1>1. SignInInv => TriesAreLimited
    BY DEF SignInInv, TriesAreLimited, LoginsAreLimited, PinsAreLimited, PinLocks
  <1> QED
    BY SignInStart, SignInStep, <1>1, PTL DEF SignInSpec

-----------------------------------------------------------------------------
(***************************************************************************)
(* Settings: the copies follow the saves.                                  *)
(***************************************************************************)
(* Whoever has read or saved a setting, and was not passed by a save since, has what is stored. *)
UnpassedIsStored ==
    \A t \in Askers : (step[t].op \in {"store", "replace"} /\ ~step[t].passed) =>
        step[t].at = stored[step[t].of]

SettingsInv == SettingsTypeOK /\ UnpassedIsStored /\ CopyFollowsSaves

(* A step's shape tells what its fields hold. *)
LEMMA StepFields ==
    ASSUME NEW x \in Step
    PROVE  /\ x.op \in {"idle", "use", "store", "replace"}
           /\ x.op \in {"store", "replace"} =>
                /\ x.of \in Sorts /\ x.at \in Nat /\ x.passed \in BOOLEAN
                /\ [x EXCEPT !.passed = TRUE] \in Step
                /\ [x EXCEPT !.passed = TRUE].op = x.op
                /\ [x EXCEPT !.passed = TRUE].of = x.of
                /\ [x EXCEPT !.passed = TRUE].passed
  <1>1. CASE x = Resting
    BY <1>1 DEF Resting
  <1>2. CASE x \in [op : {"use"}, of : {"map"}]
    BY <1>2
  <1>3. CASE x \in [op : {"store", "replace"}, of : Sorts, at : Nat, passed : BOOLEAN]
    <2>1. [x EXCEPT !.passed = TRUE] \in [op : {"store", "replace"}, of : Sorts, at : Nat, passed : BOOLEAN]
      BY <1>3
    <2> QED
      BY <1>3, <2>1 DEF Step
  <1> QED
    BY <1>1, <1>2, <1>3 DEF Step

LEMMA SettingsStart == SettingsInit => SettingsInv
  BY DEF SettingsInit, SettingsInv, SettingsTypeOK, UnpassedIsStored, CopyFollowsSaves, Step, Resting,
         Sorts, NotKept, IsFresh, At

(* A thread that moves on to a step that is no read and no save, nothing else changing. *)
LEMMA SettingsThreadMoves ==
    ASSUME SettingsInv, NEW t \in Askers, NEW next \in Step, Goes(t, next), UNCHANGED stored,
           next.op = "store" /\ ~next.passed => next.at = stored[next.of],
           next.op # "replace", step[t].op # "replace", UNCHANGED kept
    PROVE  SettingsInv'
  <1>1. SettingsTypeOK'
    BY DEF SettingsInv, SettingsTypeOK, Goes
  <1>2. UnpassedIsStored'
    BY DEF SettingsInv, SettingsTypeOK, UnpassedIsStored, Goes
  <1>3. CopyFollowsSaves'
    <2> SUFFICES ASSUME NEW s \in Sorts, IsFresh(s)', kept[s].at # stored[s], ~kept[s].passed
                 PROVE  \E u \in Askers : step'[u].op = "replace" /\ step'[u].of = s
      BY DEF CopyFollowsSaves, At
    <2>1. PICK u \in Askers : step[u].op = "replace" /\ step[u].of = s
      BY DEF SettingsInv, CopyFollowsSaves, IsFresh, At
    <2>2. u # t
      BY <2>1
    <2> QED
      BY <2>1, <2>2 DEF SettingsInv, SettingsTypeOK, Goes
  <1> QED
    BY <1>1, <1>2, <1>3 DEF SettingsInv

(* A thread that keeps what it has read or saved, or throws the map away. *)
LEMMA SettingsThreadKeeps ==
    ASSUME SettingsInv, NEW t \in Askers, NEW next \in Step, Goes(t, next), UNCHANGED stored,
           next.op \in {"idle", "use"}, step[t].op \in {"store", "replace"},
           NEW copy \in {NotKept, Copy(step[t].at, step[t].passed)},
           kept' = [kept EXCEPT ![step[t].of] = copy]
    PROVE  SettingsInv'
  <1>0. /\ step[t] \in Step /\ step[t].of \in Sorts /\ step[t].at \in Nat /\ step[t].passed \in BOOLEAN
        /\ DOMAIN kept = Sorts
    BY StepFields, step[t] \in Step DEF SettingsInv, SettingsTypeOK
  <1>1. SettingsTypeOK'
    <2>1. copy \in [at : Nat, old : BOOLEAN, passed : BOOLEAN] \cup {NotKept}
      <3>1. Copy(step[t].at, step[t].passed) \in [at : Nat, old : BOOLEAN, passed : BOOLEAN]
        BY <1>0 DEF Copy
      <3> QED
        BY <3>1
    <2>2. kept' \in [Sorts -> [at : Nat, old : BOOLEAN, passed : BOOLEAN] \cup {NotKept}]
      BY <1>0, <2>1 DEF SettingsInv, SettingsTypeOK
    <2> QED
      BY <2>2 DEF SettingsInv, SettingsTypeOK, Goes
  <1>2. UnpassedIsStored'
    BY DEF SettingsInv, SettingsTypeOK, UnpassedIsStored, Goes
  <1>3. CopyFollowsSaves'
    <2> SUFFICES ASSUME NEW s \in Sorts, IsFresh(s)', kept'[s].at # stored[s], ~kept'[s].passed
                 PROVE  \E u \in Askers : step'[u].op = "replace" /\ step'[u].of = s
      BY DEF CopyFollowsSaves, At
    <2>1. CASE s = step[t].of
      <3>1. kept'[s] = Copy(step[t].at, step[t].passed)
        BY <1>0, <2>1 DEF IsFresh
      <3>2. kept'[s].at = step[t].at /\ kept'[s].passed = step[t].passed
        BY <3>1 DEF Copy
      <3> QED
        BY <3>2, <2>1 DEF SettingsInv, UnpassedIsStored
    <2>2. CASE s # step[t].of
      <3>1. kept'[s] = kept[s] /\ IsFresh(s)
        BY <1>0, <2>2 DEF IsFresh
      <3>2. PICK u \in Askers : step[u].op = "replace" /\ step[u].of = s
        BY <3>1 DEF SettingsInv, CopyFollowsSaves, At
      <3>3. u # t
        BY <3>2, <2>2
      <3> QED
        BY <3>2, <3>3 DEF SettingsInv, SettingsTypeOK, Goes
    <2> QED
      BY <2>1, <2>2
  <1> QED
    BY <1>1, <1>2, <1>3 DEF SettingsInv

(* A save passes everybody who has read or saved the setting before. *)
LEMMA SettingsCommit ==
    ASSUME SettingsInv, NEW t \in Askers, NEW s \in Sorts, CommitSetting(t, s)
    PROVE  SettingsInv'
  <1> DEFINE mine == [op |-> "replace", of |-> s, at |-> stored[s] + 1, passed |-> FALSE]
  <1>0. /\ stored \in [Sorts -> Nat] /\ step \in [Askers -> Step]
        /\ mine \in Step /\ mine.op = "replace" /\ mine.of = s /\ mine.at = stored[s] + 1
    BY DEF SettingsInv, SettingsTypeOK, Step
  <1>1. stored' = [stored EXCEPT ![s] = stored[s] + 1] /\ kept' = kept
    BY DEF CommitSetting
  <1>2. step'[t] = mine
    BY <1>0 DEF CommitSetting, PassedBy
  <1>3. \A u \in Askers : u # t => step'[u] = IF step[u].op \in {"store", "replace"} /\ step[u].of = s
                                              THEN [step[u] EXCEPT !.passed = TRUE] ELSE step[u]
    BY DEF CommitSetting, PassedBy
  <1>4. step' = [u \in Askers |-> step'[u]]
    BY DEF CommitSetting, PassedBy
  <1> HIDE DEF mine
  <1>5. \A u \in Askers : u # t =>
            /\ step'[u] \in Step /\ step'[u].op = step[u].op
            /\ step[u].op \in {"store", "replace"} =>
                /\ step'[u].of = step[u].of
                /\ step[u].of = s => step'[u].passed
                /\ step[u].of # s => step'[u] = step[u]
    <2> SUFFICES ASSUME NEW u \in Askers, u # t
                 PROVE  /\ step'[u] \in Step /\ step'[u].op = step[u].op
                        /\ step[u].op \in {"store", "replace"} =>
                            /\ step'[u].of = step[u].of
                            /\ step[u].of = s => step'[u].passed
                            /\ step[u].of # s => step'[u] = step[u]
      OBVIOUS
    <2>1. step[u] \in Step
      BY <1>0
    <2>2. CASE step[u].op \in {"store", "replace"} /\ step[u].of = s
      <3>1. step'[u] = [step[u] EXCEPT !.passed = TRUE]
        BY <1>3, <2>2
      <3> QED
        BY <2>1, <2>2, <3>1, StepFields
    <2>3. CASE ~(step[u].op \in {"store", "replace"} /\ step[u].of = s)
      BY <1>3, <2>1, <2>3
    <2> QED
      BY <2>2, <2>3
  <1>6. SettingsTypeOK'
    <2>1. stored' \in [Sorts -> Nat]
      BY <1>0, <1>1
    <2>2. step' \in [Askers -> Step]
      BY <1>0, <1>2, <1>4, <1>5
    <2> QED
      BY <1>1, <2>1, <2>2 DEF SettingsInv, SettingsTypeOK
  <1>7. UnpassedIsStored'
    <2> SUFFICES ASSUME NEW u \in Askers, step'[u].op \in {"store", "replace"}, ~step'[u].passed
                 PROVE  step'[u].at = stored'[step'[u].of]
      BY DEF UnpassedIsStored
    <2>1. CASE u = t
      BY <1>0, <1>1, <1>2, <2>1
    <2>2. CASE u # t
      <3>1. step'[u] = step[u] /\ step[u].of # s
        BY <1>5, <2>2
      <3>2. step[u].of \in Sorts
        BY <1>0, <3>1, StepFields
      <3> QED
        BY <1>0, <1>1, <3>1, <3>2 DEF SettingsInv, UnpassedIsStored
    <2> QED
      BY <2>1, <2>2
  <1>8. CopyFollowsSaves'
    <2> SUFFICES ASSUME NEW r \in Sorts, IsFresh(r)', kept[r].at # stored'[r], ~kept[r].passed
                 PROVE  \E u \in Askers : step'[u].op = "replace" /\ step'[u].of = r
      BY <1>1 DEF CopyFollowsSaves, At
    <2>1. CASE r = s
      BY <1>0, <1>2, <2>1
    <2>2. CASE r # s
      <3>1. stored'[r] = stored[r] /\ IsFresh(r)
        BY <1>0, <1>1, <2>2 DEF IsFresh
      <3>2. PICK u \in Askers : step[u].op = "replace" /\ step[u].of = r
        BY <3>1 DEF SettingsInv, CopyFollowsSaves, At
      <3>3. u # t
        BY <3>2 DEF CommitSetting, Rests, Resting
      <3> QED
        BY <1>5, <3>2, <3>3
    <2> QED
      BY <2>1, <2>2
  <1> QED
    BY <1>6, <1>7, <1>8 DEF SettingsInv

LEMMA SettingsStep == SettingsInv /\ [SettingsNext]_settingsVars => SettingsInv'
  <1> SUFFICES ASSUME SettingsInv, [SettingsNext]_settingsVars
               PROVE  SettingsInv'
    OBVIOUS
  <1>0. /\ step \in [Askers -> Step] /\ stored \in [Sorts -> Nat]
        /\ Resting \in Step /\ Resting.op = "idle"
        /\ [op |-> "use", of |-> "map"] \in Step
    BY DEF SettingsInv, SettingsTypeOK, Step, Resting
  <1>1. CASE UNCHANGED settingsVars
    BY <1>1 DEF settingsVars, SettingsInv, SettingsTypeOK, UnpassedIsStored, CopyFollowsSaves, IsFresh, At
  <1>2. ASSUME NEW t \in Askers, GetKept(t)
        PROVE  SettingsInv'
    BY <1>1, <1>2 DEF GetKept
  <1>3. ASSUME NEW t \in Askers, LookAtMap(t)
        PROVE  SettingsInv'
    <2>1. Goes(t, [op |-> "use", of |-> "map"]) /\ UNCHANGED <<stored, kept>> /\ step[t].op = "idle"
      BY <1>0, <1>3 DEF LookAtMap, Rests
    <2> QED
      BY <1>0, <2>1, SettingsThreadMoves
  <1>4. ASSUME NEW t \in Askers, UseMap(t)
        PROVE  SettingsInv'
    <2>1. Goes(t, Resting) /\ UNCHANGED <<stored, kept>> /\ step[t].op = "use"
      BY <1>4 DEF UseMap, At
    <2> QED
      BY <1>0, <2>1, SettingsThreadMoves
  <1>5. ASSUME NEW t \in Askers, NEW s \in Sorts, LoadSetting(t, s)
        PROVE  SettingsInv'
    <2> DEFINE next == [op |-> "store", of |-> s, at |-> stored[s], passed |-> FALSE]
    <2>1. Goes(t, next) /\ UNCHANGED <<stored, kept>> /\ step[t].op = "idle"
      BY <1>0, <1>5 DEF LoadSetting, Rests
    <2>2. next \in Step /\ next.op = "store" /\ next.at = stored[next.of]
      BY <1>0 DEF Step
    <2> HIDE DEF next
    <2> QED
      BY <2>1, <2>2, SettingsThreadMoves
  <1>6. ASSUME NEW t \in Askers, StoreSetting(t)
        PROVE  SettingsInv'
    <2> DEFINE next == IF step[t].of = "value" THEN Resting ELSE [op |-> "use", of |-> "map"]
               copy == Copy(step[t].at, step[t].passed)
    <2>1. /\ Goes(t, next) /\ UNCHANGED stored /\ step[t].op = "store"
          /\ kept' = [kept EXCEPT ![step[t].of] = copy]
      BY <1>6 DEF StoreSetting, At
    <2>2. next \in Step /\ next.op \in {"idle", "use"}
      BY <1>0
    <2> HIDE DEF next
    <2> QED
      BY <2>1, <2>2, SettingsThreadKeeps
  <1>7. ASSUME NEW t \in Askers, ReplaceCopy(t)
        PROVE  SettingsInv'
    <2> DEFINE copy == IF step[t].of = "value" THEN Copy(step[t].at, step[t].passed) ELSE NotKept
    <2>1. /\ Goes(t, Resting) /\ UNCHANGED stored /\ step[t].op = "replace"
          /\ kept' = [kept EXCEPT ![step[t].of] = copy]
      BY <1>7 DEF ReplaceCopy, At
    <2>2. copy \in {NotKept, Copy(step[t].at, step[t].passed)}
      OBVIOUS
    <2> HIDE DEF copy
    <2> QED
      BY <1>0, <2>1, <2>2, SettingsThreadKeeps
  <1>8. ASSUME NEW s \in Sorts, TtlEnds(s)
        PROVE  SettingsInv'
    <2>1. /\ kept' = [kept EXCEPT ![s].old = TRUE] /\ UNCHANGED <<stored, step>>
          /\ kept[s] # NotKept /\ kept \in [Sorts -> [at : Nat, old : BOOLEAN, passed : BOOLEAN] \cup {NotKept}]
      BY <1>8 DEF TtlEnds, IsFresh, SettingsInv, SettingsTypeOK
    <2>2. SettingsTypeOK'
      BY <2>1 DEF SettingsInv, SettingsTypeOK
    <2>3. UnpassedIsStored'
      BY <2>1 DEF SettingsInv, UnpassedIsStored
    <2>4. kept'[s].old /\ \A r \in Sorts : r # s => kept'[r] = kept[r]
      BY <2>1
    <2>5. CopyFollowsSaves'
      BY <2>1, <2>4 DEF SettingsInv, CopyFollowsSaves, IsFresh, At
    <2> QED
      BY <2>2, <2>3, <2>5 DEF SettingsInv
  <1> QED
    BY <1>1, <1>2, <1>3, <1>4, <1>5, <1>6, <1>7, <1>8, SettingsCommit DEF SettingsNext

(* "up to TTL seconds" (the docstring of app/config.py) is for other processes: for any number of *)
(* threads and saves, a young copy differs from the table only while the save is under way or     *)
(* because another save passed what is kept.                                                      *)
THEOREM SettingsFollowSaves == SettingsSpec => []CopyFollowsSaves
  <1>1. SettingsInv => CopyFollowsSaves
    BY DEF SettingsInv
  <1> QED
    BY SettingsStart, SettingsStep, <1>1, PTL DEF SettingsSpec

-----------------------------------------------------------------------------
(***************************************************************************)
(* Screens: the answers that are kept.                                     *)
(***************************************************************************)
(* Who may still be answered under the version read first, and who builds an answer and the *)
(* writes that answer is sure to have.                                                      *)
Waits(v) == look[v].at \in {"looking", "reading", "built"}
Builds(v) == look[v].at \in {"reading", "built"}
SureOf(v) == IF look[v].at = "reading" THEN look[v].asked ELSE look[v].rows

(* What a request has seen lies in the past. *)
SeenIsPast ==
    /\ page # NoPage => page.seen <= version
    /\ \A v \in Viewers : Waits(v) => look[v].seen <= version /\ look[v].floor <= told

(* An answer filed, or to be filed, under the version of now has every finished write ... *)
FiledIsCurrent ==
    /\ page # NoPage /\ page.seen = version => page.rows >= told
    /\ \A v \in Viewers : Builds(v) /\ look[v].seen = version => SureOf(v) >= told

(* ... and one filed under the version somebody has seen will do for that request. *)
FiledServes ==
    \A v \in Viewers : Waits(v) =>
        /\ page # NoPage /\ page.seen = look[v].seen => page.rows >= look[v].floor
        /\ \A u \in Viewers : Builds(u) /\ look[u].seen = look[v].seen => SureOf(u) >= look[v].floor

ScreenInv == ScreenTypeOK /\ SeenIsPast /\ FiledIsCurrent /\ FiledServes /\ ScreenIsFresh

LEMMA LookFields ==
    ASSUME ScreenTypeOK, NEW v \in Viewers
    PROVE  /\ look[v].at \in {"none", "looking", "reading", "built", "shown"}
           /\ Waits(v) => look[v].seen \in Nat /\ look[v].floor \in Nat
           /\ Builds(v) => Waits(v) /\ SureOf(v) \in Nat
           /\ look[v].at = "shown" => look[v].floor \in Nat /\ look[v].rows \in Nat
           /\ look[v].at = "reading" => SureOf(v) = look[v].asked
           /\ look[v].at = "built" => SureOf(v) = look[v].rows
  BY DEF ScreenTypeOK, NotLooking, Waits, Builds, SureOf

LEMMA PageFields ==
    ASSUME ScreenTypeOK, page # NoPage
    PROVE  page.seen \in Nat /\ page.rows \in Nat
  BY DEF ScreenTypeOK

LEMMA ScreenStart == ScreenInit => ScreenInv
  BY DEF ScreenInit, ScreenInv, ScreenTypeOK, SeenIsPast, FiledIsCurrent, FiledServes, ScreenIsFresh,
         NoChange, NoPage, NotLooking, Waits, Builds

(* One viewer moves; the others, the page and the counters stay. *)
LEMMA ViewerMoves ==
    ASSUME ScreenInv, NEW v \in Viewers, NEW next, look' = [look EXCEPT ![v] = next],
           UNCHANGED <<contents, told, version, change, page>>,
           next \in {NotLooking}
              \cup [at : {"looking"}, seen : Nat, floor : Nat]
              \cup [at : {"reading"}, seen : Nat, floor : Nat, asked : Nat]
              \cup [at : {"built"}, seen : Nat, floor : Nat, rows : Nat]
              \cup [at : {"shown"}, floor : Nat, rows : Nat],
           next.at = "shown" => next.rows >= next.floor,
           next.at \in {"looking", "reading", "built"} =>
              \/ look[v] = NotLooking /\ next.at = "looking" /\ next.seen = version /\ next.floor = told
              \/ Waits(v) /\ next.seen = look[v].seen /\ next.floor = look[v].floor,
           next.at = "reading" => next.asked = told,
           next.at = "built" => look[v].at = "reading" /\ next.rows >= look[v].asked
    PROVE  ScreenInv'
  <1> USE DEF ScreenInv
  <1>1. ScreenTypeOK'
    BY DEF ScreenTypeOK
  <1>2. /\ look'[v] = next /\ \A u \in Viewers : u # v => look'[u] = look[u]
        /\ page' = page /\ version' = version /\ told' = told
        /\ version \in Nat /\ told \in Nat
    BY DEF ScreenTypeOK
  <1>3. \A u \in Viewers : u # v =>
            (Waits(u)' <=> Waits(u)) /\ (Builds(u)' <=> Builds(u)) /\ SureOf(u)' = SureOf(u)
    BY <1>2 DEF Waits, Builds, SureOf
  <1>4. SeenIsPast'
    BY <1>2, <1>3 DEF SeenIsPast, Waits
  <1>5. Builds(v)' => Waits(v) /\ look'[v].seen = look[v].seen /\ look'[v].floor = look[v].floor
    BY <1>2 DEF Builds
  <1>6. Builds(v)' => SureOf(v)' \in Nat /\ \/ SureOf(v)' = told
                                            \/ Builds(v) /\ SureOf(v)' >= SureOf(v)
    <2>1. CASE next.at = "reading"
      BY <1>2, <2>1 DEF SureOf
    <2>2. CASE next.at = "built"
      <3>1. next.rows \in Nat
        BY <2>2 DEF NotLooking
      <3>2. Builds(v) /\ SureOf(v) = look[v].asked /\ SureOf(v)' = next.rows
        BY <1>2, <2>2 DEF Builds, SureOf
      <3> QED
        BY <2>2, <3>1, <3>2
    <2> QED
      BY <1>2, <2>1, <2>2 DEF Builds
  <1>7. FiledIsCurrent'
    <2> SUFFICES ASSUME NEW u \in Viewers, Builds(u)', look'[u].seen = version
                 PROVE  SureOf(u)' >= told
      BY <1>2 DEF FiledIsCurrent
    <2>1. CASE u # v
      BY <1>2, <1>3, <2>1 DEF FiledIsCurrent
    <2>2. CASE u = v
      BY <1>2, <1>5, <1>6, <2>2, LookFields DEF FiledIsCurrent
    <2> QED
      BY <2>1, <2>2
  <1>8. FiledServes'
    <2> SUFFICES ASSUME NEW u \in Viewers, Waits(u)'
                 PROVE  /\ page # NoPage /\ page.seen = look'[u].seen => page.rows >= look'[u].floor
                        /\ \A w \in Viewers : Builds(w)' /\ look'[w].seen = look'[u].seen =>
                              SureOf(w)' >= look'[u].floor
      BY <1>2 DEF FiledServes
    <2>1. \/ look'[u].seen = version /\ look'[u].floor = told
          \/ Waits(u) /\ look'[u].seen = look[u].seen /\ look'[u].floor = look[u].floor
      <3>1. CASE u # v
        BY <1>2, <1>3, <3>1
      <3>2. CASE u = v
        <4>1. next.at \in {"looking", "reading", "built"}
          BY <1>2, <3>2 DEF Waits
        <4> QED
          BY <1>2, <3>2, <4>1
      <3> QED
        BY <3>1, <3>2
    <2>2. page # NoPage /\ page.seen = look'[u].seen => page.rows >= look'[u].floor
      BY <2>1, <1>2 DEF FiledServes, FiledIsCurrent
    <2>3. ASSUME NEW w \in Viewers, Builds(w)', look'[w].seen = look'[u].seen
          PROVE  SureOf(w)' >= look'[u].floor
      <3>1. CASE w # v
        BY <1>2, <1>3, <2>1, <2>3, <3>1 DEF FiledServes, FiledIsCurrent
      <3>2. CASE w = v /\ SureOf(w)' = told
        <4>1. look'[u].floor <= told
          BY <2>1, <1>2, LookFields DEF SeenIsPast
        <4> QED
          BY <3>2, <4>1, <2>1, <1>2, LookFields
      <3>3. CASE w = v /\ SureOf(w)' # told
        <4>1. Builds(w) /\ SureOf(w)' >= SureOf(w) /\ SureOf(w)' \in Nat /\ look[w].seen = look'[u].seen
          BY <1>5, <1>6, <2>3, <3>3
        <4>2. SureOf(w) >= look'[u].floor
          BY <1>2, <2>1, <4>1 DEF FiledServes, FiledIsCurrent
        <4> QED
          BY <4>1, <4>2, <2>1, <1>2, LookFields
      <3> QED
        BY <3>1, <3>2, <3>3
    <2> QED
      BY <2>2, <2>3
  <1>9. ScreenIsFresh'
    BY <1>2 DEF ScreenIsFresh
  <1> QED
    BY <1>1, <1>4, <1>7, <1>8, <1>9

LEMMA ScreenStep == ScreenInv /\ [ScreenNext]_screenVars => ScreenInv'
  <1> SUFFICES ASSUME ScreenInv, [ScreenNext]_screenVars
               PROVE  ScreenInv'
    OBVIOUS
  <1> USE DEF ScreenInv
  <1>0. /\ version \in Nat /\ told \in Nat /\ contents \in Nat
        /\ change \in [Changers -> {NoChange} \cup [made : Nat, tables : 1..2]]
    BY DEF ScreenTypeOK
  <1>1. CASE UNCHANGED screenVars
    BY <1>1 DEF screenVars, ScreenTypeOK, SeenIsPast, FiledIsCurrent, FiledServes, ScreenIsFresh,
                Waits, Builds, SureOf
  <1>2. ASSUME NEW w \in Changers, NEW tables \in 1..2, CommitChange(w, tables)
        PROVE  ScreenInv'
    <2>1. UNCHANGED <<told, version, page, look>>
      BY <1>2 DEF CommitChange
    <2>2. ScreenTypeOK'
      BY <1>0, <1>2, <2>1 DEF ScreenTypeOK, CommitChange
    <2> QED
      BY <2>1, <2>2 DEF SeenIsPast, FiledIsCurrent, FiledServes, ScreenIsFresh, Waits, Builds, SureOf
  <1>3. ASSUME ChangeBehind
        PROVE  ScreenInv'
    <2>1. UNCHANGED <<told, version, change, page, look>> /\ contents' \in Nat
      BY <1>0, <1>3 DEF ChangeBehind
    <2> QED
      BY <2>1 DEF ScreenTypeOK, SeenIsPast, FiledIsCurrent, FiledServes, ScreenIsFresh, Waits, Builds, SureOf
  <1>4. ASSUME NEW w \in Changers, BumpChange(w)
        PROVE  ScreenInv'
    <2>1. /\ change[w] \in [made : Nat, tables : 1..2]
          /\ UNCHANGED <<contents, page, look>>
      BY <1>0, <1>4 DEF BumpChange
    <2>2. version' \in Nat /\ version' > version /\ told' \in Nat /\ told' >= told
      BY <1>0, <1>4, <2>1 DEF BumpChange
    <2>3. ScreenTypeOK'
      BY <1>0, <1>4, <2>1, <2>2 DEF ScreenTypeOK, BumpChange
    <2>4. SeenIsPast'
      <3>1. page # NoPage => page.seen \in Nat /\ page.seen <= version
        BY PageFields DEF SeenIsPast
      <3>2. \A v \in Viewers : Waits(v) =>
                /\ look[v].seen \in Nat /\ look[v].seen <= version
                /\ look[v].floor \in Nat /\ look[v].floor <= told
        BY LookFields DEF SeenIsPast
      <3> QED
        BY <1>0, <2>1, <2>2, <3>1, <3>2 DEF SeenIsPast, Waits
    <2>5. FiledIsCurrent'
      <3>1. page # NoPage => page.seen \in Nat /\ page.seen <= version
        BY PageFields DEF SeenIsPast
      <3>2. \A v \in Viewers : Builds(v) => look[v].seen \in Nat /\ look[v].seen <= version
        BY LookFields DEF SeenIsPast
      <3> QED
        BY <1>0, <2>1, <2>2, <3>1, <3>2 DEF FiledIsCurrent, Builds
    <2>6. FiledServes' /\ ScreenIsFresh'
      BY <2>1 DEF FiledServes, ScreenIsFresh, Waits, Builds, SureOf
    <2> QED
      BY <2>3, <2>4, <2>5, <2>6
  <1>5. ASSUME NEW v \in Viewers, OpenScreen(v)
        PROVE  ScreenInv'
    <2> DEFINE next == [at |-> "looking", seen |-> version, floor |-> told]
    <2>1. /\ look' = [look EXCEPT ![v] = next] /\ UNCHANGED <<contents, told, version, change, page>>
          /\ look[v] = NotLooking
      BY <1>5 DEF OpenScreen
    <2>2. /\ next \in [at : {"looking"}, seen : Nat, floor : Nat]
          /\ next.at = "looking" /\ next.seen = version /\ next.floor = told
      BY <1>0
    <2> HIDE DEF next
    <2> QED
      BY <2>1, <2>2, ViewerMoves
  <1>6. ASSUME NEW v \in Viewers, ShowKept(v)
        PROVE  ScreenInv'
    <2> DEFINE next == [at |-> "shown", floor |-> look[v].floor, rows |-> page.rows]
    <2>1. /\ look' = [look EXCEPT ![v] = next] /\ UNCHANGED <<contents, told, version, change, page>>
          /\ look[v].at = "looking" /\ page # NoPage /\ page.seen = look[v].seen
      BY <1>6 DEF ShowKept, Shown, IsKept
    <2>2. Waits(v)
      BY <2>1 DEF Waits
    <2>3. look[v].floor \in Nat /\ page.rows \in Nat /\ page.rows >= look[v].floor
      BY <2>1, <2>2, LookFields, PageFields DEF FiledServes
    <2>4. next \in [at : {"shown"}, floor : Nat, rows : Nat] /\ next.at = "shown" /\ next.rows >= next.floor
      BY <2>3
    <2> HIDE DEF next
    <2> QED
      BY <2>1, <2>4, ViewerMoves
  <1>7. ASSUME NEW v \in Viewers, BeginBuild(v)
        PROVE  ScreenInv'
    <2> DEFINE next == [at |-> "reading", seen |-> look[v].seen, floor |-> look[v].floor, asked |-> told]
    <2>1. /\ look' = [look EXCEPT ![v] = next] /\ UNCHANGED <<contents, told, version, change, page>>
          /\ look[v].at = "looking"
      BY <1>7 DEF BeginBuild
    <2>2. Waits(v)
      BY <2>1 DEF Waits
    <2>3. /\ next \in [at : {"reading"}, seen : Nat, floor : Nat, asked : Nat]
          /\ next.at = "reading" /\ next.asked = told /\ next.seen = look[v].seen /\ next.floor = look[v].floor
      BY <1>0, <2>2, LookFields
    <2> HIDE DEF next
    <2> QED
      BY <2>1, <2>2, <2>3, ViewerMoves
  <1>8. ASSUME NEW v \in Viewers, EndBuild(v)
        PROVE  ScreenInv'
    <2>1. look[v].at = "reading" /\ UNCHANGED <<contents, told, version, change, page>>
      BY <1>8 DEF EndBuild
    <2>2. Waits(v) /\ look[v].asked \in Nat
      BY <2>1 DEF Waits, ScreenTypeOK, NotLooking
    <2>3. PICK rows \in look[v].asked..contents :
              look' = [look EXCEPT ![v] = [at |-> "built", seen |-> look[v].seen, floor |-> look[v].floor,
                                           rows |-> rows]]
      BY <1>8 DEF EndBuild
    <2> DEFINE next == [at |-> "built", seen |-> look[v].seen, floor |-> look[v].floor, rows |-> rows]
    <2>4. /\ next \in [at : {"built"}, seen : Nat, floor : Nat, rows : Nat]
          /\ next.at = "built" /\ next.rows >= look[v].asked
          /\ next.seen = look[v].seen /\ next.floor = look[v].floor
      BY <1>0, <2>2, LookFields
    <2>5. look' = [look EXCEPT ![v] = next]
      BY <2>3
    <2> HIDE DEF next
    <2> QED
      BY <2>1, <2>2, <2>4, <2>5, ViewerMoves
  <1>9. ASSUME NEW v \in Viewers, ShowBuilt(v)
        PROVE  ScreenInv'
    <2>1. /\ look[v].at = "built" /\ UNCHANGED <<contents, told, version, change>>
          /\ page' = [seen |-> look[v].seen, rows |-> look[v].rows]
          /\ look' = [look EXCEPT ![v] = [at |-> "shown", floor |-> look[v].floor, rows |-> look[v].rows]]
      BY <1>9 DEF ShowBuilt, KeepPage, Shown
    <2>2. Waits(v) /\ Builds(v) /\ SureOf(v) = look[v].rows /\ look[v].rows \in Nat
          /\ look[v].seen \in Nat /\ look[v].floor \in Nat /\ look[v].rows >= look[v].floor
      <3>1. Waits(v) /\ Builds(v) /\ SureOf(v) = look[v].rows
        BY <2>1 DEF Waits, Builds, SureOf
      <3> QED
        BY <3>1, LookFields DEF FiledServes
    <2>3. /\ look'[v].at = "shown" /\ look'[v].floor = look[v].floor /\ look'[v].rows = look[v].rows
          /\ \A u \in Viewers : u # v => look'[u] = look[u]
          /\ page'.seen = look[v].seen /\ page'.rows = look[v].rows
      BY <2>1 DEF ScreenTypeOK
    <2>4. ScreenTypeOK'
      BY <2>1, <2>2 DEF ScreenTypeOK
    <2>5. /\ ~Waits(v)' /\ ~Builds(v)'
          /\ \A u \in Viewers : u # v =>
                (Waits(u)' <=> Waits(u)) /\ (Builds(u)' <=> Builds(u)) /\ SureOf(u)' = SureOf(u)
      BY <2>3 DEF Waits, Builds, SureOf
    <2>6. SeenIsPast'
      BY <2>1, <2>2, <2>3, <2>5 DEF SeenIsPast
    <2>7. FiledIsCurrent'
      BY <2>1, <2>2, <2>3, <2>5 DEF FiledIsCurrent
    <2>8. FiledServes'
      BY <2>1, <2>2, <2>3, <2>5 DEF FiledServes
    <2>9. ScreenIsFresh'
      BY <2>2, <2>3 DEF ScreenIsFresh
    <2> QED
      BY <2>4, <2>6, <2>7, <2>8, <2>9
  <1>10. ASSUME NEW v \in Viewers, CloseScreen(v)
         PROVE  ScreenInv'
    <2>1. look' = [look EXCEPT ![v] = NotLooking] /\ UNCHANGED <<contents, told, version, change, page>>
      BY <1>10 DEF CloseScreen
    <2>2. NotLooking.at = "none"
      BY DEF NotLooking
    <2> QED
      BY <2>1, <2>2, ViewerMoves
  <1>11. ASSUME DropPage
         PROVE  ScreenInv'
    <2>1. page' = NoPage /\ UNCHANGED <<contents, told, version, change, look>>
      BY <1>11 DEF DropPage
    <2> QED
      BY <2>1 DEF ScreenTypeOK, SeenIsPast, FiledIsCurrent, FiledServes, ScreenIsFresh, Waits, Builds, SureOf
  <1> QED
    BY <1>1, <1>2, <1>3, <1>4, <1>5, <1>6, <1>7, <1>8, <1>9, <1>10, <1>11 DEF ScreenNext

(* For any number of viewers and writers, a screen shows every write that had finished when it was *)
(* asked for, from a kept answer or a new one (screen_response of app/o2d_screens.py).             *)
THEOREM ScreensAreFresh == ScreenSpec => []ScreenIsFresh
  <1>1. ScreenInv => ScreenIsFresh
    BY DEF ScreenInv
  <1> QED
    BY ScreenStart, ScreenStep, <1>1, PTL DEF ScreenSpec

-----------------------------------------------------------------------------
(***************************************************************************)
(* Files: rows and objects agree.                                          *)
(***************************************************************************)
Owners == Orders \cup Purchases
Photos == {"loose"} \cup Owners
Kinds == {"none"} \cup Uses \cup Purchases

Ops == {NotBusy}
    \cup [at : {"put", "insert", "link", "erase"}, file : FileIds, use : Uses, challan : Challans]
    \cup [at : {"drop", "erase"}, file : FileIds]
    \cup [at : {"commit"}, entry : Purchases, linked : SUBSET FileIds, dropped : SUBSET FileIds]
    \cup [at : {"delete"}, entry : Purchases, seen : SUBSET FileIds]

FilesShape ==
    /\ object \subseteq FileIds /\ strays \subseteq FileIds /\ left \subseteq FileIds /\ lost \subseteq FileIds
    /\ row \in [FileIds -> Kinds]
    /\ record \in [Owners -> {"unborn", "there", "gone"}]
    /\ challan \in [Challans -> FileIds \cup {NoFile}]
    /\ op \in [Workers -> Ops]

Linked(f) == \E c \in Challans : challan[c] = f
Dropping(f) == \E w \in Workers : op[w].at = "commit" /\ f \in op[w].dropped
HeldBySome(f) == \E w \in Workers : f \in Held(w)

(* How far the file a request holds has come; no challan has it. *)
HandsAgree ==
    \A w \in Workers :
        /\ op[w].at \in {"put", "insert", "erase"} => row[op[w].file] = "none"
        /\ op[w].at = "insert" => op[w].file \in object
        /\ op[w].at \in {"link", "drop"} =>
              row[op[w].file] = "challan" /\ op[w].file \in object /\ ~Linked(op[w].file)

(* No two requests hold one file. *)
HandsApart == \A v, w \in Workers : v # w => Held(v) \cap Held(w) = {}

(* The photos a save moves stay what they were, its entry is there to hold, and an object the *)
(* store refused to erase is a stray already.                                                 *)
SaveStands ==
    /\ \A w \in Workers : op[w].at = "commit" =>
          /\ \A f \in op[w].linked : row[f] = "loose"
          /\ \A f \in op[w].dropped : row[f] = op[w].entry
          /\ op[w].dropped \cap object \subseteq strays
          /\ record[op[w].entry] # "gone"
    /\ \A v, w \in Workers : op[v].at = "commit" /\ op[w].at = "commit" /\ v # w =>
          op[v].entry # op[w].entry /\ op[v].linked \cap op[w].linked = {}

(* What a row is for has not been deleted, but for what was given to an entry as it went. *)
RowsHaveOwners ==
    /\ \A f \in FileIds : row[f] \in Orders => record[row[f]] = "there"
    /\ \A f \in FileIds : row[f] \in Purchases /\ f \notin left => record[row[f]] = "there"

RowsHaveObjects ==
    \A f \in FileIds : row[f] # "none" => f \in object \/ f \in lost \/ Dropping(f)

ChallansHaveFiles ==
    /\ \A c \in Challans : challan[c] # NoFile => row[challan[c]] = "challan" /\ challan[c] \in object
    /\ \A c, d \in Challans : c # d /\ challan[c] # NoFile => challan[c] # challan[d]

ObjectsAreKnown ==
    \A f \in object : f \in strays \cup left \/ row[f] \in Photos \/ Linked(f) \/ HeldBySome(f)

FilesInv ==
    /\ FilesShape /\ HandsAgree /\ HandsApart /\ SaveStands
    /\ RowsHaveObjects /\ RowsHaveOwners /\ ChallansHaveFiles /\ ObjectsAreKnown

LEMMA FilesAgree == FilesInv => FilesAndRowsAgree
  <1> SUFFICES ASSUME FilesInv
               PROVE  FilesAndRowsAgree
    OBVIOUS
  <1>1. \A f : Dropping(f) => f \in InHand
    BY DEF Dropping, InHand
  <1>2. \A f : HeldBySome(f) => f \in InHand
    BY DEF HeldBySome, InHand
  <1>3. \A f \in FileIds : Linked(f) => f \in PointedAt
    BY FilesAssumption DEF Linked, PointedAt
  <1>4. \A f \in FileIds : row[f] # "none" /\ f \notin lost \cup InHand => f \in object
    BY <1>1 DEF FilesInv, RowsHaveObjects
  <1>5. \A f \in object \ (strays \cup left \cup InHand) :
            row[f] \in {"loose"} \cup Orders \cup Purchases \/ f \in PointedAt
    BY <1>2, <1>3 DEF FilesInv, FilesShape, ObjectsAreKnown, Photos, Owners
  <1>6. \A f \in FileIds : row[f] \in Orders \cup (IF f \in left THEN {} ELSE Purchases) => record[row[f]] = "there"
    BY DEF FilesInv, RowsHaveOwners
  <1> QED
    BY <1>4, <1>5, <1>6 DEF FilesInv, ChallansHaveFiles, FilesAndRowsAgree

LEMMA FilesStart == FilesInit => FilesInv
  <1> SUFFICES ASSUME FilesInit
               PROVE  FilesInv
    OBVIOUS
  <1> USE DEF FilesInit, NotBusy
  <1>1. FilesShape
    BY DEF FilesShape, Ops, Kinds, Owners
  <1>2. HandsAgree /\ HandsApart /\ SaveStands
    BY DEF HandsAgree, HandsApart, SaveStands, Held
  <1>3. RowsHaveObjects /\ RowsHaveOwners /\ ChallansHaveFiles /\ ObjectsAreKnown
    BY FilesAssumption DEF RowsHaveObjects, RowsHaveOwners, ChallansHaveFiles, ObjectsAreKnown
  <1> QED
    BY <1>1, <1>2, <1>3 DEF FilesInv

(* What the shape of a request's place says of its fields. *)
LEMMA OpFields ==
    ASSUME NEW x \in Ops
    PROVE  /\ x.at \in {"idle", "put", "insert", "link", "drop", "erase", "commit", "delete"}
           /\ x.at = "idle" <=> x = NotBusy
           /\ x.at \notin {"idle", "commit", "delete"} => x.file \in FileIds
           /\ x.at \in {"put", "insert", "link"} => x.use \in Uses /\ x.challan \in Challans
           /\ x.at = "commit" => x.entry \in Purchases /\ x.linked \subseteq FileIds /\ x.dropped \subseteq FileIds
           /\ x.at = "delete" => x.entry \in Purchases /\ x.seen \subseteq FileIds
  BY DEF Ops, NotBusy

(* One that moves on keeps its file. *)
LEMMA OpTurns ==
    ASSUME NEW x \in Ops, NEW at,
           \/ x.at \in {"put", "insert"} /\ at \in {"insert", "link", "erase"}
           \/ x.at = "drop" /\ at = "erase"
    PROVE  /\ [x EXCEPT !.at = at] \in Ops
           /\ [x EXCEPT !.at = at].at = at
           /\ [x EXCEPT !.at = at].file = x.file
  <1>1. CASE x \in [at : {"put", "insert", "link", "erase"}, file : FileIds, use : Uses, challan : Challans]
    <2>1. [x EXCEPT !.at = at] \in [at : {"put", "insert", "link", "erase"}, file : FileIds, use : Uses,
                                    challan : Challans]
      BY <1>1
    <2> QED
      BY <1>1, <2>1 DEF Ops
  <1>2. CASE x \in [at : {"drop", "erase"}, file : FileIds]
    <2>1. [x EXCEPT !.at = at] \in [at : {"drop", "erase"}, file : FileIds]
      BY <1>2
    <2> QED
      BY <1>2, <2>1 DEF Ops
  <1> QED
    BY <1>1, <1>2 DEF Ops, NotBusy

(* A request that is no save moves one file, of no entry and no challan: what another request holds *)
(* and what every screen lists is as it was.                                                        *)
LEMMA OneFileMoves ==
    ASSUME FilesInv, NEW w \in Workers, NEW f \in FileIds, NEW x \in Ops,
           op' = [op EXCEPT ![w] = x], op[w].at \notin {"commit", "delete"},
           x.at \notin {"commit", "delete"}, UNCHANGED <<record, challan, left, lost>>,
           row' \in [FileIds -> Kinds],
           \A g \in FileIds : g # f => row'[g] = row[g] /\ (g \in object' <=> g \in object),
           object' \subseteq FileIds, strays' \subseteq FileIds, strays \subseteq strays',
           op[w].at = "idle" => ~HeldBySome(f),
           op[w].at # "idle" => op[w].file = f,
           x.at # "idle" => x.file = f,
           row[f] \notin {"loose"} \cup Purchases, ~Linked(f),
           row'[f] \notin Purchases, row'[f] \in Orders => record[row'[f]] = "there",
           x.at \in {"put", "insert", "erase"} => row'[f] = "none",
           x.at \in {"link", "drop"} => row'[f] = "challan",
           row'[f] # "none" \/ x.at = "insert" => f \in object',
           f \in object' => f \in strays' \/ row'[f] \in Photos \/ x.at # "idle"
    PROVE  FilesInv'
  <1> USE DEF FilesInv
  <1>1. FilesShape'
    BY DEF FilesShape
  <1>2. /\ op'[w] = x /\ \A v \in Workers : v # w => op'[v] = op[v]
        /\ \A v \in Workers : op[v] \in Ops
    BY DEF FilesShape
  <1>3. /\ Held(w)' = (IF x.at = "idle" THEN {} ELSE {f})
        /\ Held(w) = (IF op[w].at = "idle" THEN {} ELSE {f})
        /\ \A v \in Workers : v # w => Held(v)' = Held(v)
    BY <1>2 DEF Held
  <1>4. \A v \in Workers : v # w => f \notin Held(v)
    BY <1>3 DEF HandsApart, HeldBySome
  <1>5. \A g : (Linked(g)' <=> Linked(g))
    BY DEF Linked
  <1>6. \A g : (Dropping(g)' <=> Dropping(g))
    BY <1>2 DEF Dropping
  <1>7. \A g \in FileIds : g # f => (HeldBySome(g)' <=> HeldBySome(g))
    BY <1>3 DEF HeldBySome
  <1>8. HandsAgree'
    <2> SUFFICES ASSUME NEW v \in Workers
                 PROVE  /\ op'[v].at \in {"put", "insert", "erase"} => row'[op'[v].file] = "none"
                        /\ op'[v].at = "insert" => op'[v].file \in object'
                        /\ op'[v].at \in {"link", "drop"} =>
                              row'[op'[v].file] = "challan" /\ op'[v].file \in object' /\ ~Linked(op'[v].file)
      BY <1>5 DEF HandsAgree
    <2>1. CASE v = w
      BY <1>2, <2>1
    <2>2. CASE v # w
      <3>1. CASE op[v].at \in {"idle", "commit", "delete"}
        BY <1>2, <2>2, <3>1
      <3>2. CASE op[v].at \notin {"idle", "commit", "delete"}
        <4>1. op[v].file # f /\ op[v].file \in FileIds
          BY <1>2, <1>4, <2>2, <3>2, OpFields DEF Held
        <4>2. row'[op[v].file] = row[op[v].file] /\ (op[v].file \in object' <=> op[v].file \in object)
          BY <4>1
        <4> QED
          BY <1>2, <2>2, <4>2 DEF HandsAgree
      <3> QED
        BY <3>1, <3>2
    <2> QED
      BY <2>1, <2>2
  <1>9. HandsApart'
    BY <1>3, <1>4 DEF HandsApart
  <1>10. SaveStands'
    <2>1. ASSUME NEW v \in Workers, op'[v].at = "commit"
          PROVE  /\ \A g \in op'[v].linked : row'[g] = "loose"
                 /\ \A g \in op'[v].dropped : row'[g] = op'[v].entry
                 /\ op'[v].dropped \cap object' \subseteq strays'
                 /\ record[op'[v].entry] # "gone"
      <3>1. v # w /\ op'[v] = op[v]
        BY <1>2, <2>1
      <3>2. /\ \A g \in op[v].linked : row[g] = "loose"
            /\ \A g \in op[v].dropped : row[g] = op[v].entry
            /\ op[v].dropped \cap object \subseteq strays
            /\ record[op[v].entry] # "gone"
        BY <2>1, <3>1 DEF SaveStands
      <3>3. op[v].linked \subseteq FileIds /\ op[v].dropped \subseteq FileIds /\ op[v].entry \in Purchases
        BY <1>2, <2>1, <3>1, OpFields
      <3> QED
        BY <3>1, <3>2, <3>3
    <2>2. \A u, v \in Workers : op'[u].at = "commit" /\ op'[v].at = "commit" /\ u # v =>
              op'[u].entry # op'[v].entry /\ op'[u].linked \cap op'[v].linked = {}
      BY <1>2 DEF SaveStands
    <2> QED
      BY <2>1, <2>2 DEF SaveStands
  <1>11. RowsHaveObjects' /\ RowsHaveOwners'
    BY <1>6 DEF RowsHaveObjects, RowsHaveOwners
  <1>12. ChallansHaveFiles'
    <2>1. \A c \in Challans : challan[c] # NoFile => challan[c] \in FileIds /\ challan[c] # f
      BY DEF FilesShape, Linked
    <2> QED
      BY <2>1 DEF ChallansHaveFiles
  <1>13. ObjectsAreKnown'
    <2> SUFFICES ASSUME NEW g \in object'
                 PROVE  \/ g \in strays' \cup left' \/ row'[g] \in Photos
                        \/ Linked(g) \/ HeldBySome(g)'
      BY <1>5 DEF ObjectsAreKnown
    <2>1. CASE g = f
      BY <1>3, <2>1 DEF HeldBySome
    <2>2. CASE g # f
      BY <1>7, <2>2 DEF ObjectsAreKnown
    <2> QED
      BY <2>1, <2>2
  <1> QED
    BY <1>1, <1>8, <1>9, <1>10, <1>11, <1>12, <1>13

(* A challan gets another file, or none; what it had is the request's now. *)
LEMMA ChallanMoves ==
    ASSUME FilesInv, NEW w \in Workers, NEW c \in Challans, NEW n \in FileIds \cup {NoFile},
           challan' = [challan EXCEPT ![c] = n],
           UNCHANGED <<object, row, record, strays, left, lost>>,
           NEW x \in Ops, op' = [op EXCEPT ![w] = x],
           \/ n = NoFile /\ op[w].at = "idle" /\ challan[c] # NoFile
           \/ n # NoFile /\ op[w].at = "link" /\ op[w].file = n,
           IF challan[c] = NoFile THEN x.at = "idle" ELSE x.at = "drop" /\ x.file = challan[c]
    PROVE  FilesInv'
  <1> USE DEF FilesInv
  <1> DEFINE o == challan[c]
             Now(g) == \E d \in Challans : challan'[d] = g
  <1>1. /\ op'[w] = x /\ \A v \in Workers : v # w => op'[v] = op[v]
        /\ \A v \in Workers : op[v] \in Ops
        /\ challan'[c] = n /\ \A d \in Challans : d # c => challan'[d] = challan[d]
        /\ o \in FileIds \cup {NoFile}
    BY DEF FilesShape
  <1>2. FilesShape'
    BY DEF FilesShape
  <1>3. o # NoFile => row[o] = "challan" /\ o \in object /\ \A d \in Challans : d # c => challan[d] # o
    BY DEF ChallansHaveFiles
  <1>4. n # NoFile => /\ row[n] = "challan" /\ n \in object /\ ~Linked(n)
                      /\ \A v \in Workers : v # w => n \notin Held(v)
    <2>1. n # NoFile => op[w].at = "link" /\ op[w].file = n /\ Held(w) = {n}
      BY DEF Held
    <2> QED
      BY <2>1 DEF HandsAgree, HandsApart
  <1>5. \A g \in FileIds : Now(g) <=> g = n \/ (Linked(g) /\ g # o)
    <2> SUFFICES ASSUME NEW g \in FileIds
                 PROVE  Now(g) <=> g = n \/ (Linked(g) /\ g # o)
      OBVIOUS
    <2>1. Linked(g) /\ g # o => \E d \in Challans : d # c /\ challan[d] = g
      BY DEF Linked
    <2>2. \A d \in Challans : d # c /\ challan[d] = g => g # o
      BY <1>3, FilesAssumption
    <2> QED
      BY <1>1, <2>1, <2>2 DEF Linked
  <1> HIDE DEF Now
  <1>6. /\ Held(w)' = (IF o = NoFile THEN {} ELSE {o})
        /\ Held(w) = (IF n = NoFile THEN {} ELSE {n})
        /\ \A v \in Workers : v # w => Held(v)' = Held(v)
    BY <1>1 DEF Held
  <1>7. o # NoFile => \A v \in Workers : v # w => o \notin Held(v)
    <2> SUFFICES ASSUME o # NoFile, NEW v \in Workers, v # w, o \in Held(v)
                 PROVE  FALSE
      OBVIOUS
    <2>1. op[v].at \notin {"idle", "commit", "delete"} /\ op[v].file = o
      BY DEF Held
    <2>2. op[v].at \in {"put", "insert", "erase"} \/ op[v].at \in {"link", "drop"}
      BY <1>1, <2>1, OpFields
    <2>3. Linked(o)
      BY DEF Linked
    <2> QED
      BY <1>3, <2>1, <2>2, <2>3 DEF HandsAgree
  <1>8. n # o \/ n = NoFile
    BY <1>4 DEF Linked
  <1>9. HandsAgree'
    <2> SUFFICES ASSUME NEW v \in Workers
                 PROVE  /\ op'[v].at \in {"put", "insert", "erase"} => row[op'[v].file] = "none"
                        /\ op'[v].at = "insert" => op'[v].file \in object
                        /\ op'[v].at \in {"link", "drop"} =>
                              row[op'[v].file] = "challan" /\ op'[v].file \in object /\ ~Now(op'[v].file)
      BY DEF HandsAgree, Linked, Now
    <2>1. CASE v = w
      <3>1. CASE o = NoFile
        BY <1>1, <2>1, <3>1
      <3>2. CASE o # NoFile
        <4>1. ~Now(o) /\ x.at = "drop" /\ x.file = o
          BY <1>1, <1>5, <1>8, <3>2, FilesAssumption
        <4> QED
          BY <1>1, <1>3, <2>1, <3>2, <4>1
      <3> QED
        BY <3>1, <3>2
    <2>2. CASE v # w
      <3>1. CASE op[v].at \in {"link", "drop"}
        <4>1. Held(v) = {op[v].file} /\ op[v].file \in FileIds
          BY <1>1, <3>1, OpFields DEF Held
        <4>2. op[v].file # n
          BY <1>4, <2>2, <4>1, FilesAssumption
        <4>3. ~Now(op[v].file)
          BY <1>5, <3>1, <4>1, <4>2 DEF HandsAgree
        <4> QED
          BY <1>1, <2>2, <3>1, <4>3 DEF HandsAgree
      <3>2. CASE op[v].at \notin {"link", "drop"}
        BY <1>1, <2>2, <3>2 DEF HandsAgree
      <3> QED
        BY <3>1, <3>2
    <2> QED
      BY <2>1, <2>2
  <1>10. HandsApart'
    BY <1>6, <1>7 DEF HandsApart
  <1>11. x.at # "commit" /\ op[w].at # "commit"
    OBVIOUS
  <1>12. SaveStands'
    BY <1>1, <1>11 DEF SaveStands
  <1>13. RowsHaveObjects' /\ RowsHaveOwners'
    <2>1. \A g : (Dropping(g)' <=> Dropping(g))
      BY <1>1, <1>11 DEF Dropping
    <2> QED
      BY <2>1 DEF RowsHaveObjects, RowsHaveOwners
  <1>14. ChallansHaveFiles'
    BY <1>1, <1>4 DEF ChallansHaveFiles, Linked
  <1>15. ObjectsAreKnown'
    <2> SUFFICES ASSUME NEW g \in object
                 PROVE  \/ g \in strays \cup left \/ row[g] \in Photos
                        \/ Now(g) \/ HeldBySome(g)'
      BY DEF ObjectsAreKnown, Linked, Now
    <2>0. g \in FileIds
      BY DEF FilesShape
    <2>1. CASE g = n \/ g = o
      BY <1>5, <1>6, <2>0, <2>1, FilesAssumption DEF HeldBySome
    <2>2. CASE g # n /\ g # o
      <3>1. HeldBySome(g) => HeldBySome(g)'
        BY <1>6, <2>2 DEF HeldBySome
      <3> QED
        BY <1>5, <2>0, <2>2, <3>1 DEF ObjectsAreKnown
    <2> QED
      BY <2>1, <2>2
  <1> QED
    BY <1>2, <1>9, <1>10, <1>12, <1>13, <1>14, <1>15

(* The save of an entry begins: the objects of the photos it drops are erased, or become strays. *)
LEMMA BeginSaveKeeps ==
    ASSUME FilesInv, NEW w \in Workers, NEW p \in Purchases, NEW linked \in SUBSET RowsFor("loose"),
           NEW keep \in SUBSET RowsFor(p), BeginSave(w, p, linked, keep)
    PROVE  FilesInv'
  <1> USE DEF FilesInv
  <1> DEFINE dropped == RowsFor(p) \ keep
             x == [at |-> "commit", entry |-> p, linked |-> linked, dropped |-> dropped]
  <1>1. PICK refused \in SUBSET dropped :
            object' = object \ (dropped \ refused) /\ strays' = strays \cup refused
    BY DEF BeginSave
  <1>2. /\ op' = [op EXCEPT ![w] = x] /\ UNCHANGED <<row, record, challan, left, lost>>
        /\ op[w] = NotBusy /\ record[p] # "gone"
        /\ \A v \in Workers : op[v].at = "commit" => op[v].entry # p /\ linked \cap op[v].linked = {}
    BY DEF BeginSave, Becomes, Saves
  <1>3. /\ dropped \subseteq FileIds /\ linked \subseteq FileIds
        /\ \A g \in dropped : row[g] = p
        /\ \A g \in linked : row[g] = "loose"
    BY DEF RowsFor
  <1>4. x \in Ops /\ x.at = "commit" /\ x.entry = p /\ x.linked = linked /\ x.dropped = dropped
    BY <1>3 DEF Ops
  <1> HIDE DEF dropped, x
  <1>6. /\ op'[w] = x /\ \A v \in Workers : v # w => op'[v] = op[v]
        /\ \A v \in Workers : op[v] \in Ops
    BY <1>2 DEF FilesShape
  <1>7. FilesShape'
    BY <1>1, <1>2, <1>3, <1>4 DEF FilesShape
  <1>8. \A g : (Linked(g)' <=> Linked(g)) /\ (HeldBySome(g)' <=> HeldBySome(g))
    BY <1>2, <1>4, <1>6 DEF Linked, HeldBySome, Held, NotBusy
  <1>9. \A g : (Dropping(g)' <=> g \in dropped \/ Dropping(g))
    BY <1>2, <1>4, <1>6 DEF Dropping, NotBusy
  <1>0. p \notin {"none", "loose", "challan"}
    BY FilesAssumption
  <1>10. HandsAgree'
    <2> SUFFICES ASSUME NEW v \in Workers, v # w
                 PROVE  /\ op[v].at \in {"put", "insert", "erase"} => row[op[v].file] = "none"
                        /\ op[v].at = "insert" => op[v].file \in object'
                        /\ op[v].at \in {"link", "drop"} =>
                              row[op[v].file] = "challan" /\ op[v].file \in object' /\ ~Linked(op[v].file)
      BY <1>2, <1>4, <1>6, <1>8 DEF HandsAgree, Linked
    <2>1. \A g \in FileIds : row[g] # p => (g \in object' <=> g \in object)
      BY <1>1, <1>3
    <2> QED
      BY <1>0, <1>6, <2>1, OpFields DEF HandsAgree
  <1>11. HandsApart'
    <2>1. \A v \in Workers : Held(v)' = Held(v)
      <3>1. Held(w) = {} /\ Held(w)' = {}
        BY <1>2, <1>4, <1>6 DEF Held, NotBusy
      <3> QED
        BY <1>6, <3>1 DEF Held
    <2> QED
      BY <2>1 DEF HandsApart
  <1>12. SaveStands'
    <2>1. dropped \cap object' \subseteq strays'
      BY <1>1
    <2>2. object' \subseteq object /\ strays \subseteq strays'
      BY <1>1
    <2>3. \A v \in Workers : op'[v].at = "commit" =>
              /\ \A g \in op'[v].linked : row[g] = "loose"
              /\ \A g \in op'[v].dropped : row[g] = op'[v].entry
              /\ op'[v].dropped \cap object' \subseteq strays'
              /\ record[op'[v].entry] # "gone"
      BY <1>2, <1>3, <1>4, <1>6, <2>1, <2>2 DEF SaveStands
    <2>4. \A u, v \in Workers : op'[u].at = "commit" /\ op'[v].at = "commit" /\ u # v =>
              op'[u].entry # op'[v].entry /\ op'[u].linked \cap op'[v].linked = {}
      BY <1>2, <1>4, <1>6 DEF SaveStands
    <2> QED
      BY <1>2, <2>3, <2>4 DEF SaveStands
  <1>13. RowsHaveObjects' /\ RowsHaveOwners'
    BY <1>1, <1>2, <1>9 DEF RowsHaveObjects, RowsHaveOwners
  <1>14. ChallansHaveFiles'
    <2>1. \A c \in Challans : challan[c] # NoFile /\ row[challan[c]] = "challan" => challan[c] \notin dropped
      BY <1>0, <1>3
    <2> QED
      BY <1>1, <1>2, <2>1 DEF ChallansHaveFiles
  <1>15. ObjectsAreKnown'
    BY <1>1, <1>2, <1>8 DEF ObjectsAreKnown
  <1> QED
    BY <1>7, <1>10, <1>11, <1>12, <1>13, <1>14, <1>15

(* It commits. *)
LEMMA CommitSaveKeeps ==
    ASSUME FilesInv, NEW w \in Workers, CommitSave(w)
    PROVE  FilesInv'
  <1> USE DEF FilesInv
  <1> DEFINE p == op[w].entry
  <1>1. /\ op' = [op EXCEPT ![w] = NotBusy] /\ UNCHANGED <<object, challan, strays, left, lost>>
        /\ record' = [record EXCEPT ![p] = "there"]
        /\ op[w].at = "commit" /\ NotBusy \in Ops /\ NotBusy.at = "idle"
    BY DEF CommitSave, Finishes, Becomes, Ops, NotBusy
  <1>2. /\ op'[w] = NotBusy /\ \A v \in Workers : v # w => op'[v] = op[v]
        /\ \A v \in Workers : op[v] \in Ops
    BY <1>1 DEF FilesShape
  <1>3. /\ \A g \in op[w].linked : g \in FileIds /\ row[g] = "loose"
        /\ \A g \in op[w].dropped : g \in FileIds /\ row[g] = p /\ (g \in object => g \in strays)
        /\ p \in Purchases /\ p \in Owners /\ p \notin {"none", "loose", "challan"} /\ p \notin Orders
    BY <1>1, <1>2, OpFields, FilesAssumption DEF SaveStands, Owners
  <1>4. row' = [f \in FileIds |-> IF f \in op[w].linked THEN p
                                  ELSE IF f \in op[w].dropped THEN "none" ELSE row[f]]
    BY DEF CommitSave
  <1>r. record'[p] = "there" /\ \A k \in Owners : k # p => record'[k] = record[k]
    BY <1>1, <1>3 DEF FilesShape
  <1>5. FilesShape'
    BY <1>1, <1>3, <1>4 DEF FilesShape, Kinds
  <1>6. /\ \A g \in FileIds : row[g] \notin {"loose", p} => row'[g] = row[g]
        /\ \A g \in FileIds : row[g] = "loose" => row'[g] \in {"loose", p}
        /\ \A g \in FileIds : row[g] = "loose" /\ g \notin op[w].linked => row'[g] = "loose"
        /\ \A g \in FileIds : row[g] = p /\ g \notin op[w].dropped => row'[g] = p
        /\ \A g \in op[w].dropped : row'[g] = "none"
    BY <1>3, <1>4
  <1>7. \A g : (Linked(g)' <=> Linked(g)) /\ (HeldBySome(g)' <=> HeldBySome(g))
    BY <1>1, <1>2 DEF Linked, HeldBySome, Held
  <1>8. \A g : Dropping(g) => Dropping(g)' \/ g \in op[w].dropped
    BY <1>2 DEF Dropping
  <1> HIDE DEF p
  <1>9. HandsAgree'
    <2>1. \A v \in Workers : v # w /\ op[v].at \in {"put", "insert", "erase", "link", "drop"} =>
              op[v].file \in FileIds
      BY <1>2, OpFields
    <2> QED
      BY <1>1, <1>2, <1>3, <1>6, <1>7, <2>1 DEF HandsAgree, Linked
  <1>10. HandsApart'
    <2>1. \A v \in Workers : Held(v)' = Held(v)
      BY <1>1, <1>2 DEF Held
    <2> QED
      BY <2>1 DEF HandsApart
  <1>11. SaveStands'
    <2>1. ASSUME NEW v \in Workers, op'[v].at = "commit"
          PROVE  /\ \A g \in op'[v].linked : row'[g] = "loose"
                 /\ \A g \in op'[v].dropped : row'[g] = op'[v].entry
                 /\ op'[v].dropped \cap object \subseteq strays
                 /\ record'[op'[v].entry] # "gone"
      <3>1. v # w /\ op'[v] = op[v] /\ op[v].entry # p /\ op[v].linked \cap op[w].linked = {}
        BY <1>1, <1>2, <2>1 DEF SaveStands, p
      <3>2. /\ \A g \in op[v].linked : g \in FileIds /\ row[g] = "loose"
            /\ \A g \in op[v].dropped : g \in FileIds /\ row[g] = op[v].entry
            /\ op[v].dropped \cap object \subseteq strays
            /\ record[op[v].entry] # "gone" /\ op[v].entry \in Owners /\ op[v].entry # "loose"
        BY <1>2, <2>1, <3>1, OpFields, FilesAssumption DEF SaveStands, Owners
      <3> QED
        BY <1>6, <1>r, <3>1, <3>2
    <2>2. \A u, v \in Workers : op'[u].at = "commit" /\ op'[v].at = "commit" /\ u # v =>
              op'[u].entry # op'[v].entry /\ op'[u].linked \cap op'[v].linked = {}
      BY <1>1, <1>2 DEF SaveStands
    <2> QED
      BY <1>1, <2>1, <2>2 DEF SaveStands
  <1>12. RowsHaveObjects'
    <2> SUFFICES ASSUME NEW g \in FileIds, row'[g] # "none"
                 PROVE  g \in object \/ g \in lost \/ Dropping(g)'
      BY <1>1 DEF RowsHaveObjects
    <2>1. row[g] # "none" /\ g \notin op[w].dropped
      BY <1>6
    <2> QED
      BY <1>8, <2>1 DEF RowsHaveObjects
  <1>o. RowsHaveOwners'
    <2> SUFFICES ASSUME NEW g \in FileIds, row'[g] \in Orders \/ (row'[g] \in Purchases /\ g \notin left)
                 PROVE  record'[row'[g]] = "there"
      BY <1>1 DEF RowsHaveOwners
    <2>1. CASE row'[g] = p
      BY <1>r, <2>1
    <2>2. CASE row'[g] # p
      <3>1. row'[g] = row[g] /\ row'[g] \in Owners
        BY <1>4, <2>2, FilesAssumption DEF Owners
      <3> QED
        BY <1>r, <2>2, <3>1 DEF RowsHaveOwners
    <2> QED
      BY <2>1, <2>2
  <1>13. ChallansHaveFiles'
    <2>1. \A c \in Challans : challan[c] # NoFile => challan[c] \in FileIds
      BY DEF FilesShape
    <2> QED
      BY <1>1, <1>3, <1>6, <2>1 DEF ChallansHaveFiles
  <1>14. ObjectsAreKnown'
    <2> SUFFICES ASSUME NEW g \in object
                 PROVE  \/ g \in strays \cup left \/ row'[g] \in Photos
                        \/ Linked(g) \/ HeldBySome(g)
      BY <1>1, <1>7 DEF ObjectsAreKnown
    <2>1. g \in FileIds
      BY DEF FilesShape
    <2>2. row[g] \in Photos => row'[g] \in Photos \/ g \in strays
      BY <1>3, <1>6, <2>1 DEF Photos
    <2> QED
      BY <2>2 DEF ObjectsAreKnown
  <1> QED
    BY <1>5, <1>9, <1>10, <1>11, <1>12, <1>o, <1>13, <1>14

(* An order or a purchase goes, and rows of it, while nobody saves it. *)
LEMMA OwnerGoes ==
    ASSUME FilesInv, NEW k \in Owners, NEW gone, gone \subseteq RowsFor(k), RowsGone(gone),
           k \in Orders => gone = RowsFor(k),
           record' = [record EXCEPT ![k] = "gone"], left' = left \cup RowsFor(k),
           UNCHANGED <<object, challan, strays, lost>>,
           \A v \in Workers : ~Saves(v, k), op' \in [Workers -> Ops],
           \A v \in Workers : op'[v] = op[v] \/ (op[v].at = "delete" /\ op'[v] = NotBusy)
    PROVE  FilesInv'
  <1> USE DEF FilesInv
  <1>1. k \notin {"none", "loose", "challan"} /\ NotBusy.at = "idle"
    BY FilesAssumption DEF Owners, NotBusy
  <1>2. /\ \A g \in FileIds : row[g] # k => row'[g] = row[g]
        /\ \A g \in FileIds : row[g] = k => row'[g] \in {k, "none"} /\ g \in left'
        /\ \A g \in FileIds : row[g] = k /\ k \in Orders => row'[g] = "none"
        /\ left \subseteq left'
    BY DEF RowsFor, RowsGone
  <1>3. FilesShape'
    BY DEF FilesShape, RowsFor, RowsGone, Kinds
  <1>4. /\ \A v \in Workers : Held(v)' = Held(v)
        /\ \A v \in Workers : op'[v].at \notin {"idle", "delete"} => op'[v] = op[v]
    BY <1>1 DEF Held
  <1>5. \A g : (Linked(g)' <=> Linked(g)) /\ (HeldBySome(g)' <=> HeldBySome(g)) /\ (Dropping(g)' <=> Dropping(g))
    BY <1>1, <1>4 DEF Linked, HeldBySome, Dropping
  <1>6. HandsAgree'
    <2>1. \A v \in Workers : op[v].at \in {"put", "insert", "erase", "link", "drop"} => op[v].file \in FileIds
      BY OpFields DEF FilesShape
    <2> QED
      BY <1>1, <1>2, <1>4, <1>5, <2>1 DEF HandsAgree
  <1>7. HandsApart'
    BY <1>4 DEF HandsApart
  <1>8. SaveStands'
    <2>1. ASSUME NEW v \in Workers, op'[v].at = "commit"
          PROVE  /\ \A g \in op'[v].linked : row'[g] = "loose"
                 /\ \A g \in op'[v].dropped : row'[g] = op'[v].entry
                 /\ op'[v].dropped \cap object \subseteq strays
                 /\ record'[op'[v].entry] # "gone"
      <3>1. op'[v] = op[v] /\ op[v].entry # k
        BY <1>4, <2>1 DEF Saves
      <3>2. /\ \A g \in op[v].linked : g \in FileIds /\ row[g] = "loose"
            /\ \A g \in op[v].dropped : g \in FileIds /\ row[g] = op[v].entry
            /\ op[v].dropped \cap object \subseteq strays
            /\ record[op[v].entry] # "gone" /\ op[v].entry \in Owners
        BY <2>1, <3>1, OpFields DEF SaveStands, Owners, FilesShape
      <3>3. record'[op[v].entry] = record[op[v].entry]
        BY <3>1, <3>2 DEF FilesShape
      <3> QED
        BY <1>1, <1>2, <3>1, <3>2, <3>3
    <2> QED
      BY <1>4, <2>1 DEF SaveStands
  <1>9. RowsHaveObjects'
    BY <1>2, <1>5 DEF RowsHaveObjects
  <1>10. RowsHaveOwners'
    <2> SUFFICES ASSUME NEW g \in FileIds, row'[g] \in Orders \/ (row'[g] \in Purchases /\ g \notin left')
                 PROVE  record'[row'[g]] = "there"
      BY DEF RowsHaveOwners
    <2>1. row[g] # k
      BY <1>1, <1>2, FilesAssumption DEF Owners
    <2>2. row'[g] = row[g] /\ row[g] \in Owners
      BY <1>2, <2>1 DEF Owners
    <2> QED
      BY <1>2, <2>1, <2>2 DEF RowsHaveOwners, FilesShape
  <1>11. ChallansHaveFiles'
    <2>1. \A c \in Challans : challan[c] # NoFile => challan[c] \in FileIds
      BY DEF FilesShape
    <2> QED
      BY <1>1, <1>2, <2>1 DEF ChallansHaveFiles
  <1>12. ObjectsAreKnown'
    <2>1. object \subseteq FileIds
      BY DEF FilesShape
    <2> QED
      BY <1>2, <1>5, <2>1 DEF ObjectsAreKnown
  <1> QED
    BY <1>3, <1>6, <1>7, <1>8, <1>9, <1>10, <1>11, <1>12

(* A delete looks at the rows of its entry. *)
LEMMA BeginDeleteKeeps ==
    ASSUME FilesInv, NEW w \in Workers, NEW p \in Purchases, BeginDeletePurchase(w, p)
    PROVE  FilesInv'
  <1> USE DEF FilesInv
  <1> DEFINE x == [at |-> "delete", entry |-> p, seen |-> RowsFor(p)]
  <1>1. /\ op' = [op EXCEPT ![w] = x] /\ UNCHANGED <<object, row, record, challan, strays, left, lost>>
        /\ op[w] = NotBusy /\ NotBusy.at = "idle"
    BY DEF BeginDeletePurchase, Becomes, NotBusy
  <1>2. x \in Ops /\ x.at = "delete"
    BY DEF Ops, RowsFor
  <1> HIDE DEF x
  <1>3. op'[w] = x /\ \A v \in Workers : v # w => op'[v] = op[v]
    BY <1>1 DEF FilesShape
  <1>4. \A v \in Workers : Held(v)' = Held(v)
    BY <1>1, <1>2, <1>3 DEF Held
  <1>5. \A g : (Linked(g)' <=> Linked(g)) /\ (HeldBySome(g)' <=> HeldBySome(g)) /\ (Dropping(g)' <=> Dropping(g))
    BY <1>1, <1>2, <1>3, <1>4 DEF Linked, HeldBySome, Dropping
  <1>6. FilesShape' /\ HandsApart'
    BY <1>1, <1>2, <1>4 DEF FilesShape, HandsApart
  <1>7. HandsAgree' /\ SaveStands'
    BY <1>1, <1>2, <1>3, <1>5 DEF HandsAgree, SaveStands
  <1> QED
    BY <1>1, <1>5, <1>6, <1>7 DEF RowsHaveObjects, RowsHaveOwners, ChallansHaveFiles, ObjectsAreKnown

(* A request is cut off: what it held is a stray, and what its save had erased is lost. *)
LEMMA CutOffKeeps ==
    ASSUME FilesInv, NEW w \in Workers, CutOff(w)
    PROVE  FilesInv'
  <1> USE DEF FilesInv
  <1>1. /\ op' = [op EXCEPT ![w] = NotBusy] /\ UNCHANGED <<object, row, record, challan, left>>
        /\ strays' = strays \cup Held(w)
        /\ lost' = IF op[w].at = "commit" THEN lost \cup (op[w].dropped \ object) ELSE lost
        /\ NotBusy \in Ops /\ NotBusy.at = "idle"
    BY DEF CutOff, Finishes, Becomes, Ops, NotBusy
  <1>2. /\ op'[w] = NotBusy /\ \A v \in Workers : v # w => op'[v] = op[v]
        /\ \A v \in Workers : op[v] \in Ops
    BY <1>1 DEF FilesShape
  <1>3. /\ Held(w) \subseteq FileIds /\ Held(w)' = {}
        /\ \A v \in Workers : v # w => Held(v)' = Held(v)
        /\ op[w].at = "commit" => op[w].dropped \subseteq FileIds
    BY <1>1, <1>2, OpFields DEF Held
  <1>4. FilesShape'
    BY <1>1, <1>3 DEF FilesShape
  <1>5. HandsAgree' /\ HandsApart'
    BY <1>1, <1>2, <1>3 DEF HandsAgree, HandsApart, Linked
  <1>6. SaveStands'
    BY <1>1, <1>2 DEF SaveStands
  <1>o. RowsHaveOwners'
    BY <1>1 DEF RowsHaveOwners
  <1>7. RowsHaveObjects'
    <2> SUFFICES ASSUME NEW f \in FileIds, row[f] # "none", f \notin object, f \notin lost'
                 PROVE  Dropping(f)'
      BY <1>1 DEF RowsHaveObjects
    <2>1. PICK v \in Workers : op[v].at = "commit" /\ f \in op[v].dropped
      BY <1>1 DEF RowsHaveObjects, Dropping
    <2>2. v # w
      BY <1>1, <2>1
    <2> QED
      BY <1>2, <2>1, <2>2 DEF Dropping
  <1>8. ChallansHaveFiles'
    BY <1>1 DEF ChallansHaveFiles
  <1>9. ObjectsAreKnown'
    <2> SUFFICES ASSUME NEW g \in object
                 PROVE  \/ g \in strays' \cup left' \/ row[g] \in Photos
                        \/ Linked(g) \/ HeldBySome(g)'
      BY <1>1 DEF ObjectsAreKnown, Linked
    <2>1. HeldBySome(g) => HeldBySome(g)' \/ g \in strays'
      BY <1>1, <1>3 DEF HeldBySome
    <2> QED
      BY <1>1, <2>1 DEF ObjectsAreKnown
  <1> QED
    BY <1>4, <1>5, <1>6, <1>o, <1>7, <1>8, <1>9

LEMMA FilesStep == FilesInv /\ [FilesNext]_fileVars => FilesInv'
  <1> SUFFICES ASSUME FilesInv, [FilesNext]_fileVars
               PROVE  FilesInv'
    OBVIOUS
  <1> USE DEF FilesInv
  <1>0. /\ \A v \in Workers : op[v] \in Ops
        /\ row \in [FileIds -> Kinds]
        /\ object \subseteq FileIds /\ strays \subseteq FileIds
        /\ challan \in [Challans -> FileIds \cup {NoFile}]
        /\ NotBusy \in Ops /\ NotBusy.at = "idle"
    BY DEF FilesShape, Ops, NotBusy
  <1>a. /\ {"none", "loose", "challan"} \cap (Orders \cup Purchases) = {} /\ Orders \cap Purchases = {}
        /\ "none" \in Kinds /\ "loose" \in Photos /\ Uses \subseteq Kinds
    BY FilesAssumption DEF Kinds, Photos
  <1>1. CASE UNCHANGED fileVars
    BY <1>1 DEF fileVars, FilesShape, HandsAgree, HandsApart, SaveStands, RowsHaveObjects, RowsHaveOwners, ChallansHaveFiles,
                ObjectsAreKnown, Linked, Dropping, HeldBySome, Held, RowsFor
  <1>2. ASSUME NEW f \in FileIds, row[f] # "challan"
        PROVE  ~Linked(f)
    BY <1>2, FilesAssumption DEF ChallansHaveFiles, Linked
  <1>3. ASSUME NEW w \in Workers, NEW f \in FileIds, NEW use \in Uses, NEW c \in Challans,
               BeginUpload(w, f, use, c)
        PROVE  FilesInv'
    <2> DEFINE x == [at |-> "put", file |-> f, use |-> use, challan |-> c]
    <2>1. op' = [op EXCEPT ![w] = x] /\ UNCHANGED <<object, row, record, challan, strays, left, lost>>
      BY <1>3 DEF BeginUpload, Becomes
    <2>2. op[w].at = "idle" /\ row[f] = "none" /\ f \notin object /\ ~HeldBySome(f)
      BY <1>0, <1>3 DEF BeginUpload, Fresh, HeldBySome
    <2>3. x \in Ops /\ x.at = "put" /\ x.file = f
      BY DEF Ops
    <2> HIDE DEF x
    <2> QED
      BY <1>0, <1>a, <1>2, <2>1, <2>2, <2>3, OneFileMoves
  <1>4. ASSUME NEW w \in Workers, PutObject(w)
        PROVE  FilesInv'
    <2> DEFINE f == op[w].file
               x == [op[w] EXCEPT !.at = "insert"]
    <2>1. /\ op' = [op EXCEPT ![w].at = "insert"] /\ UNCHANGED <<row, record, challan, strays, left, lost>>
          /\ object' = object \cup {f} /\ op[w].at = "put"
      BY <1>4 DEF PutObject, TurnsTo
    <2>2. op' = [op EXCEPT ![w] = x]
      BY <2>1
    <2>3. x \in Ops /\ x.at = "insert" /\ x.file = f /\ f \in FileIds
      BY <1>0, <2>1, OpFields, OpTurns
    <2>4. row[f] = "none"
      BY <2>1 DEF HandsAgree
    <2> HIDE DEF f, x
    <2> QED
      BY <1>0, <1>a, <1>2, <2>1, <2>2, <2>3, <2>4, OneFileMoves DEF f
  <1>5. ASSUME NEW w \in Workers, InsertRow(w)
        PROVE  FilesInv'
    <2> DEFINE f == op[w].file
               r == op[w].use
               x == IF op[w].use = "challan" THEN [op[w] EXCEPT !.at = "link"] ELSE NotBusy
    <2>1. /\ op' = [op EXCEPT ![w] = x] /\ UNCHANGED <<object, record, challan, strays, left, lost>>
          /\ row' = [row EXCEPT ![f] = r] /\ op[w].at = "insert"
      BY <1>5 DEF InsertRow, TurnsTo, Finishes, Becomes
    <2>2. f \in FileIds /\ op[w].use \in Uses /\ f \in object /\ row[f] = "none"
      BY <1>0, <2>1, OpFields DEF HandsAgree
    <2>3. /\ x \in Ops /\ x.at \in {"idle", "link"} /\ (x.at # "idle" => x.file = f)
          /\ (x.at = "link" <=> r = "challan") /\ r \in Orders \cup {"loose", "challan"}
          /\ (r \in Orders => record[r] = "there") /\ (r \in Photos \/ r = "challan")
          /\ r \notin Purchases /\ r # "none"
      BY <1>a, <1>0, <1>5, <2>1, <2>2, OpTurns DEF Uses, Photos, Owners, InsertRow
    <2>4. row'[f] = r /\ row' \in [FileIds -> Kinds]
      BY <1>a, <1>0, <2>1, <2>2, <2>3 DEF Uses
    <2>5. \A g \in FileIds : g # f => row'[g] = row[g]
      BY <1>0, <2>1
    <2> HIDE DEF f, r, x
    <2> QED
      BY <1>0, <1>a, <1>2, <2>1, <2>2, <2>3, <2>4, <2>5, OneFileMoves DEF f
  <1>6. ASSUME NEW w \in Workers, InsertFails(w)
        PROVE  FilesInv'
    <2> DEFINE f == op[w].file
               x == [op[w] EXCEPT !.at = "erase"]
    <2>1. op' = [op EXCEPT ![w].at = "erase"] /\ UNCHANGED <<object, row, record, challan, strays, left, lost>> /\ op[w].at = "insert"
      BY <1>6 DEF InsertFails, TurnsTo
    <2>2. op' = [op EXCEPT ![w] = x]
      BY <2>1
    <2>3. x \in Ops /\ x.at = "erase" /\ x.file = f /\ f \in FileIds
      BY <1>0, <2>1, OpFields, OpTurns
    <2>4. row[f] = "none"
      BY <2>1 DEF HandsAgree
    <2> HIDE DEF f, x
    <2> QED
      BY <1>0, <1>a, <1>2, <2>1, <2>2, <2>3, <2>4, OneFileMoves DEF f
  <1>7. ASSUME NEW w \in Workers, EraseObject(w)
        PROVE  FilesInv'
    <2> DEFINE f == op[w].file
    <2>1. /\ op' = [op EXCEPT ![w] = NotBusy] /\ UNCHANGED <<row, record, challan, left, lost>> /\ op[w].at = "erase"
          /\ \/ object' = object \ {f} /\ strays' = strays
             \/ strays' = strays \cup {f} /\ object' = object
      BY <1>7 DEF EraseObject, Finishes, Becomes
    <2>2. f \in FileIds /\ row[f] = "none"
      BY <1>0, <2>1, OpFields DEF HandsAgree
    <2> HIDE DEF f
    <2> QED
      BY <1>0, <1>a, <1>2, <2>1, <2>2, OneFileMoves DEF f
  <1>8. ASSUME NEW w \in Workers, NEW f \in FileIds, DeletePhoto(w, f)
        PROVE  FilesInv'
    <2> DEFINE x == [at |-> "erase", file |-> f]
    <2>1. /\ op' = [op EXCEPT ![w] = x] /\ UNCHANGED <<object, record, challan, strays, left, lost>>
          /\ row' = [row EXCEPT ![f] = "none"] /\ op[w].at = "idle" /\ row[f] \in Orders
      BY <1>0, <1>8 DEF DeletePhoto, Becomes
    <2>2. x \in Ops /\ x.at = "erase" /\ x.file = f
      BY DEF Ops
    <2>3. ~HeldBySome(f)
      <3> SUFFICES ASSUME NEW v \in Workers, f \in Held(v)
                   PROVE  FALSE
        BY DEF HeldBySome
      <3>1. op[v].file = f /\ op[v].at \in {"put", "insert", "erase", "link", "drop"}
        BY <1>0, OpFields DEF Held
      <3> QED
        BY <1>a, <2>1, <3>1 DEF HandsAgree
    <2> HIDE DEF x
    <2> QED
      BY <1>0, <1>a, <1>2, <2>1, <2>2, <2>3, OneFileMoves
  <1>9. ASSUME NEW w \in Workers, LinkChallan(w)
        PROVE  FilesInv'
    <2> DEFINE c == op[w].challan
               x == IF challan[c] = NoFile THEN NotBusy ELSE [at |-> "drop", file |-> challan[c]]
    <2>1. /\ op' = [op EXCEPT ![w] = x] /\ UNCHANGED <<object, row, record, strays, left, lost>>
          /\ challan' = [challan EXCEPT ![c] = op[w].file] /\ op[w].at = "link"
      BY <1>9 DEF LinkChallan, Finishes, Becomes
    <2>2. c \in Challans /\ op[w].file \in FileIds /\ op[w].file # NoFile
      BY <1>0, <2>1, OpFields, FilesAssumption
    <2>3. x \in Ops /\ IF challan[c] = NoFile THEN x.at = "idle" ELSE x.at = "drop" /\ x.file = challan[c]
      BY <1>0, <2>2 DEF Ops
    <2> HIDE DEF c, x
    <2> QED
      BY <2>1, <2>2, <2>3, ChallanMoves
  <1>10. ASSUME NEW w \in Workers, NEW c \in Challans, DeleteChallan(w, c)
         PROVE  FilesInv'
    <2> DEFINE x == [at |-> "drop", file |-> challan[c]]
    <2>1. /\ op' = [op EXCEPT ![w] = x] /\ UNCHANGED <<object, row, record, strays, left, lost>>
          /\ challan' = [challan EXCEPT ![c] = NoFile] /\ op[w].at = "idle" /\ challan[c] # NoFile
      BY <1>0, <1>10 DEF DeleteChallan, Becomes
    <2>2. x \in Ops /\ x.at = "drop" /\ x.file = challan[c]
      BY <1>0, <2>1 DEF Ops
    <2> HIDE DEF x
    <2> QED
      BY <2>1, <2>2, ChallanMoves
  <1>11. ASSUME NEW w \in Workers, LinkRefused(w)
         PROVE  FilesInv'
    <2> DEFINE f == op[w].file
    <2>1. /\ op' = [op EXCEPT ![w] = NotBusy] /\ UNCHANGED <<object, record, challan, left, lost>> /\ op[w].at = "link"
          /\ row' = [row EXCEPT ![f] = "none"] \/ row' = row
          /\ strays' = strays \cup {f}
      BY <1>11 DEF LinkRefused, Finishes, Becomes
    <2>2. f \in FileIds /\ row[f] = "challan" /\ f \in object /\ ~Linked(f)
      BY <1>0, <2>1, OpFields DEF HandsAgree
    <2>3. /\ row' \in [FileIds -> Kinds]
          /\ \A g \in FileIds : g # f => row'[g] = row[g]
      BY <1>0, <1>a, <2>1
    <2> HIDE DEF f
    <2> QED
      BY <1>0, <1>a, <2>1, <2>2, <2>3, OneFileMoves DEF f
  <1>12. ASSUME NEW w \in Workers, DropRow(w)
         PROVE  FilesInv'
    <2> DEFINE f == op[w].file
               x == [op[w] EXCEPT !.at = "erase"]
    <2>1. /\ op' = [op EXCEPT ![w].at = "erase"] /\ UNCHANGED <<object, record, challan, strays, left, lost>> /\ op[w].at = "drop"
          /\ row' = [row EXCEPT ![f] = "none"]
      BY <1>12 DEF DropRow, TurnsTo
    <2>2. op' = [op EXCEPT ![w] = x]
      BY <2>1
    <2>3. x \in Ops /\ x.at = "erase" /\ x.file = f /\ f \in FileIds
      BY <1>0, <2>1, OpFields, OpTurns
    <2>4. row[f] = "challan" /\ ~Linked(f)
      BY <2>1 DEF HandsAgree
    <2>5. /\ row' \in [FileIds -> Kinds] /\ row'[f] = "none"
          /\ \A g \in FileIds : g # f => row'[g] = row[g]
      BY <1>0, <1>a, <2>1, <2>3
    <2> HIDE DEF f, x
    <2> QED
      BY <1>0, <1>a, <2>1, <2>2, <2>3, <2>4, <2>5, OneFileMoves DEF f
  <1>13. ASSUME NEW o \in Orders, DeleteOrder(o)
         PROVE  FilesInv'
    <2>1. \A v \in Workers : ~Saves(v, o)
      BY <1>0, <1>a, OpFields DEF Saves
    <2>2. /\ RowsGone(RowsFor(o)) /\ record' = [record EXCEPT ![o] = "gone"] /\ left' = left \cup RowsFor(o)
          /\ UNCHANGED <<object, challan, op, strays, lost>>
      BY <1>13 DEF DeleteOrder
    <2>3. o \in Owners /\ op' \in [Workers -> Ops]
      BY <2>2 DEF Owners, FilesShape
    <2> QED
      BY <2>1, <2>2, <2>3, OwnerGoes
  <1>14. ASSUME NEW w \in Workers, FinishDeletePurchase(w)
         PROVE  FilesInv'
    <2> DEFINE p == op[w].entry
               gone == op[w].seen \cap RowsFor(p)
    <2>1. /\ RowsGone(gone) /\ record' = [record EXCEPT ![p] = "gone"] /\ left' = left \cup RowsFor(p)
          /\ op' = [op EXCEPT ![w] = NotBusy] /\ op[w].at = "delete"
          /\ UNCHANGED <<object, challan, strays, lost>> /\ \A v \in Workers : ~Saves(v, p)
      BY <1>14 DEF FinishDeletePurchase, Finishes, Becomes
    <2>2. p \in Purchases /\ p \in Owners /\ p \notin Orders
      BY <1>0, <1>a, <2>1, OpFields DEF Owners
    <2>3. /\ op' \in [Workers -> Ops]
          /\ \A v \in Workers : op'[v] = op[v] \/ (op[v].at = "delete" /\ op'[v] = NotBusy)
      BY <1>0, <2>1 DEF FilesShape
    <2>4. gone \subseteq RowsFor(p)
      OBVIOUS
    <2> HIDE DEF gone, p
    <2> QED
      BY <2>1, <2>2, <2>3, <2>4, OwnerGoes
  <1> QED
    BY <1>1, <1>3, <1>4, <1>5, <1>6, <1>7, <1>8, <1>9, <1>10, <1>11, <1>12, <1>13, <1>14,
       BeginSaveKeeps, CommitSaveKeeps, BeginDeleteKeeps, CutOffKeeps DEF FilesNext

(* "the row is gone either way; an orphaned object is harmless" (app/challans.py, app/purchase.py): *)
(* for any files, orders, entries, challans and requests in progress, cut off anywhere, every row   *)
(* can be opened and every object is known, but for what a failure or a delete of what the file     *)
(* was for left behind.                                                                             *)
THEOREM FilesStayKnown == FilesSpec => []FilesAndRowsAgree
  <1> QED
    BY FilesStart, FilesStep, FilesAgree, PTL DEF FilesSpec

-----------------------------------------------------------------------------
(***************************************************************************)
(* Checklist: open items follow, marked items stay.                        *)
(***************************************************************************)
(* A view that is under way knows what it read, and its checklist is there or was deleted. *)
ViewsKnow ==
    \A v \in Lookers :
        /\ view[v].op = "view" =>
              /\ view[v].read.active
              /\ \A d \in view[v].due : d \in view[v].read.schedule.dates /\ d >= view[v].read.start
        /\ view[v].op = "delete" => view[v].unmarked = Days
        /\ view[v].op # "idle" => list # NoList \/ deleted

ItemsHaveList == list = NoList => \A d \in Days : item[d] = NoItem
DeletedIsGone == deleted => list = NoList

(* OpenItemsFollow of every item that has no excuse: a marked one may be opened again. *)
ItemsFollow ==
    \A d \in Days : (item[d] # NoItem /\ item[d].excuse = "none") =>
        /\ item[d].owner = list.assignee
        /\ d >= today => list.active /\ d \in list.schedule.dates /\ d >= list.start

ChecklistInv == ChecklistTypeOK /\ ViewsKnow /\ ItemsHaveList /\ DeletedIsGone /\ ItemsFollow

LEMMA ItemFields ==
    ASSUME ChecklistTypeOK, NEW d \in Days
    PROVE  /\ item[d] = NoItem \/ item[d] \in Item
           /\ item[d] = NoItem => item[d].status = "none"
           /\ item[d] \in Item => item[d].status \in {"Pending", "Done", "NotDone"} /\ item[d] # NoItem
  <1>1. NoItem.status = "none"
    BY DEF NoItem
  <1>2. \A x \in Item : x.status \in {"Pending", "Done", "NotDone"}
    BY DEF Item
  <1>3. item[d] = NoItem \/ item[d] \in Item
    BY DEF ChecklistTypeOK
  <1> QED
    BY <1>1, <1>2, <1>3

LEMMA DayNumbers == \A d \in Days : d \in Int
  BY DEF Days

LEMMA ListFields ==
    ASSUME ChecklistTypeOK
    PROVE  /\ list # NoList => /\ list \in List /\ list.assignee \in Assignees /\ list.start \in Days
                               /\ list.schedule \in Schedules /\ list.active \in BOOLEAN
           /\ list = NoList => ~list.active
           /\ \A x \in List : x # NoList
  BY DEF ChecklistTypeOK, List, NoList

LEMMA ViewFields ==
    ASSUME ChecklistTypeOK, NEW v \in Lookers
    PROVE  /\ view[v].op \in {"idle", "view", "delete"}
           /\ view[v].op = "idle" <=> view[v] = NoView
           /\ view[v].op = "view" =>
                view[v].due \subseteq Days /\ view[v].read \in List /\ view[v].read.assignee \in Assignees
  <1>1. view[v] \in Views
    BY DEF ChecklistTypeOK
  <1>2. view[v].op \in {"idle", "view", "delete"} /\ (view[v].op = "idle" <=> view[v] = NoView)
    BY <1>1 DEF Views, NoView
  <1>3. view[v].op = "view" => view[v].due \subseteq Days /\ view[v].read \in List
    BY <1>1 DEF Views, NoView
  <1>4. \A x \in List : x.assignee \in Assignees
    BY DEF List
  <1> QED
    BY <1>2, <1>3, <1>4

LEMMA DueDates ==
    ASSUME ChecklistTypeOK, list # NoList, NEW off \in OffDays
    PROVE  Due(list, off) \subseteq Days /\ \A d \in Due(list, off) : d \in list.schedule.dates /\ d >= list.start
  BY ListFields, ScheduleAssumption DEF Due, Dates

LEMMA ChecklistStart == ChecklistInit => ChecklistInv
  <1> SUFFICES ASSUME ChecklistInit
               PROVE  ChecklistInv
    OBVIOUS
  <1> USE DEF ChecklistInit, NoView, NoItem
  <1>1. ChecklistTypeOK
    <2>1. today \in Days
      BY LastDayAssumption DEF DayOne, Days
    <2>2. item \in [Days -> Item \cup {NoItem}] /\ view \in [Lookers -> Views]
      BY DEF Views
    <2> QED
      BY <2>1, <2>2 DEF ChecklistTypeOK
  <1> QED
    BY <1>1 DEF ChecklistInv, ViewsKnow, ItemsHaveList, DeletedIsGone, ItemsFollow

(* Marking keeps an item's owner and excuse. *)
LEMMA MarkKeeps ==
    ASSUME ChecklistInv, NEW d \in Days, NEW status \in {"Pending", "Done", "NotDone"}, item[d] # NoItem,
           item' = [item EXCEPT ![d].status = status], UNCHANGED <<today, list, view, deleted>>
    PROVE  ChecklistInv'
  <1> USE DEF ChecklistInv
  <1>1. item[d] \in Item
    BY ItemFields
  <1>2. /\ item' = [item EXCEPT ![d] = [item[d] EXCEPT !.status = status]]
        /\ item \in [Days -> Item \cup {NoItem}]
    BY DEF ChecklistTypeOK
  <1>3. /\ [item[d] EXCEPT !.status = status] \in Item
        /\ [item[d] EXCEPT !.status = status].owner = item[d].owner
        /\ [item[d] EXCEPT !.status = status].excuse = item[d].excuse
    BY <1>1 DEF Item
  <1>4. /\ item' \in [Days -> Item \cup {NoItem}]
        /\ item'[d].owner = item[d].owner /\ item'[d].excuse = item[d].excuse
        /\ \A e \in Days : e # d => item'[e] = item[e]
    BY <1>2, <1>3
  <1>5. ChecklistTypeOK'
    BY <1>4 DEF ChecklistTypeOK
  <1>6. ItemsHaveList'
    BY DEF ItemsHaveList
  <1>7. ItemsFollow'
    BY <1>4 DEF ItemsFollow
  <1> QED
    BY <1>5, <1>6, <1>7 DEF ViewsKnow, DeletedIsGone

(* update and set_active: what is open and not due yet goes, a marked item is excused. *)
LEMMA ListChanges ==
    ASSUME ChecklistInv, list # NoList, list' \in List, UNCHANGED <<today, view, deleted>>,
           item' \in [Days -> Item \cup {NoItem}],
           \A d \in Days : (item'[d] # NoItem /\ item'[d].excuse = "none") =>
              /\ item'[d].owner = list'.assignee
              /\ d < today
    PROVE  ChecklistInv'
  <1> USE DEF ChecklistInv
  <1>1. list' # NoList
    BY ListFields
  <1>2. ChecklistTypeOK'
    BY DEF ChecklistTypeOK
  <1>3. ViewsKnow' /\ ItemsHaveList' /\ DeletedIsGone'
    BY <1>1 DEF ViewsKnow, ItemsHaveList, DeletedIsGone
  <1>4. ItemsFollow'
    <2> SUFFICES ASSUME NEW d \in Days, item'[d] # NoItem, item'[d].excuse = "none"
                 PROVE  item'[d].owner = list'.assignee /\ ~(d >= today)
      BY DEF ItemsFollow
    <2>1. d \in Int /\ today \in Int
      BY DayNumbers DEF ChecklistTypeOK
    <2>2. item'[d].owner = list'.assignee /\ d < today
      OBVIOUS
    <2>3. ~(d >= today)
      BY <2>1, <2>2
    <2> QED
      BY <2>2, <2>3, Zenon
  <1> QED
    BY <1>2, <1>3, <1>4

LEMMA ItemChanged ==
    ASSUME NEW x \in Item, NEW p \in Assignees
    PROVE  /\ [x EXCEPT !.owner = p, !.excuse = "none"] \in Item
           /\ [x EXCEPT !.owner = p, !.excuse = "none"].owner = p
           /\ [x EXCEPT !.excuse = "marked"] \in Item /\ [x EXCEPT !.excuse = "marked"].excuse = "marked"
           /\ [x EXCEPT !.excuse = x.excuse] = x
  BY DEF Item

LEMMA ExcusedItem ==
    ASSUME ChecklistTypeOK, NEW d \in Days, item[d] # NoItem
    PROVE  /\ Excused(d) \in Item
           /\ Excused(d).excuse = "none" => Open(d) /\ Excused(d) = item[d]
  <1>0. item[d] \in Item /\ item[d].status \in {"Pending", "Done", "NotDone"}
    BY ItemFields
  <1>1. CASE Marked(d)
    <2>1. Excused(d) = [item[d] EXCEPT !.excuse = "marked"]
      BY <1>1 DEF Excused
    <2> QED
      BY <1>0, <2>1 DEF Item
  <1>2. CASE ~Marked(d)
    <2>1. Excused(d) = [item[d] EXCEPT !.excuse = item[d].excuse]
      BY <1>2 DEF Excused
    <2>2. Excused(d) = item[d]
      BY <1>0, <2>1 DEF Item
    <2> QED
      BY <1>0, <1>2, <2>2 DEF Marked, Open
  <1> QED
    BY <1>1, <1>2

LEMMA UpdateListKeeps ==
    ASSUME ChecklistInv, NEW p \in Assignees, NEW start \in Days, NEW schedule \in Schedules,
           UpdateList(p, start, schedule)
    PROVE  ChecklistInv'
  <1> USE DEF ChecklistInv
  <1>1. list' \in List /\ list'.assignee = p
    <2>1. list \in List /\ list' = [list EXCEPT !.assignee = p, !.start = start, !.schedule = schedule]
      BY ListFields DEF UpdateList
    <2> QED
      BY <2>1 DEF List
  <1>2. ASSUME NEW d \in Days
        PROVE  /\ item'[d] \in Item \cup {NoItem}
               /\ (item'[d] # NoItem /\ item'[d].excuse = "none") => item'[d].owner = p /\ d < today
    <2>0. /\ item'[d] = IF Dropped(d) THEN NoItem
                        ELSE IF item[d] = NoItem THEN NoItem
                        ELSE IF HandedOver(d, p) THEN TakenOver(d, p) ELSE Excused(d)
          /\ d \in Int /\ today \in Int
      BY DEF UpdateList, Days, ChecklistTypeOK
    <2>1. CASE Dropped(d) \/ item[d] = NoItem
      BY <2>0, <2>1
    <2>2. CASE ~Dropped(d) /\ item[d] # NoItem /\ HandedOver(d, p)
      <3>1. item[d] \in Item /\ item'[d] = TakenOver(d, p)
        BY <2>0, <2>2, ItemFields
      <3>2. item'[d] \in Item /\ item'[d].owner = p
        <4> DEFINE x == item[d]
        <4>1. x \in Item /\ item'[d] = [x EXCEPT !.owner = p, !.excuse = "none"]
          BY <3>1 DEF TakenOver
        <4> HIDE DEF x
        <4>2. [x EXCEPT !.owner = p, !.excuse = "none"] \in Item /\ [x EXCEPT !.owner = p, !.excuse = "none"].owner = p
          BY <4>1, ItemChanged
        <4> QED
          BY <4>1, <4>2, Zenon
      <3>3. d < today
        BY <2>0, <2>2 DEF Dropped, HandedOver
      <3> QED
        BY <3>2, <3>3
    <2>3. CASE ~Dropped(d) /\ item[d] # NoItem /\ ~HandedOver(d, p)
      <3>1. item'[d] = Excused(d)
        BY <2>0, <2>3
      <3>2. item'[d] \in Item /\ (item'[d].excuse = "none" => Open(d) /\ item'[d] = item[d])
        BY <2>3, <3>1, ExcusedItem
      <3>3. Open(d) => p = list.assignee /\ d < today
        BY <2>0, <2>3 DEF Dropped, HandedOver
      <3> QED
        BY <2>3, <3>2, <3>3 DEF ItemsFollow
    <2> QED
      BY <2>1, <2>2, <2>3
  <1>3. item' \in [Days -> Item \cup {NoItem}]
    <2>1. item' = [d \in Days |-> item'[d]]
      BY DEF UpdateList
    <2> QED
      BY <1>2, <2>1
  <1> QED
    BY <1>1, <1>2, <1>3, ListChanges DEF UpdateList

LEMMA StopListKeeps ==
    ASSUME ChecklistInv, StopList
    PROVE  ChecklistInv'
  <1> USE DEF ChecklistInv
  <1>1. list' \in List /\ list'.assignee = list.assignee
    <2>1. list \in List /\ list' = [list EXCEPT !.active = FALSE]
      BY ListFields DEF StopList
    <2> QED
      BY <2>1 DEF List
  <1>2. ASSUME NEW d \in Days
        PROVE  /\ item'[d] \in Item \cup {NoItem}
               /\ (item'[d] # NoItem /\ item'[d].excuse = "none") => item'[d].owner = list.assignee /\ d < today
    <2>0. /\ item'[d] = IF Dropped(d) THEN NoItem ELSE IF item[d] = NoItem THEN NoItem ELSE Excused(d)
          /\ d \in Int /\ today \in Int
      BY DEF StopList, Days, ChecklistTypeOK
    <2>1. CASE Dropped(d) \/ item[d] = NoItem
      BY <2>0, <2>1
    <2>2. CASE ~Dropped(d) /\ item[d] # NoItem
      <3>1. item'[d] \in Item /\ (item'[d].excuse = "none" => Open(d) /\ item'[d] = item[d])
        BY <2>0, <2>2, ExcusedItem
      <3>2. Open(d) => d < today
        BY <2>0, <2>2 DEF Dropped
      <3> QED
        BY <2>2, <3>1, <3>2 DEF ItemsFollow
    <2> QED
      BY <2>1, <2>2
  <1>3. item' \in [Days -> Item \cup {NoItem}]
    <2>1. item' = [d \in Days |-> item'[d]]
      BY DEF StopList
    <2> QED
      BY <1>2, <2>1
  <1> QED
    BY <1>1, <1>2, <1>3, ListChanges DEF StopList

(* A view inserts what it found missing; nothing it inserts of what it read just now needs an excuse. *)
LEMMA FinishViewKeeps ==
    ASSUME ChecklistInv, NEW v \in Lookers, FinishView(v)
    PROVE  ChecklistInv'
  <1> USE DEF ChecklistInv
  <1>1. /\ view' = [view EXCEPT ![v] = NoView] /\ UNCHANGED <<today, list, deleted>>
        /\ view[v].op = "view"
        /\ item' = IF deleted THEN item
                   ELSE [d \in Days |->
                           IF d \in view[v].due /\ item[d] = NoItem
                           THEN [owner |-> view[v].read.assignee, status |-> "Pending",
                                 excuse |-> IF view[v].read = list THEN "none" ELSE "raced"]
                           ELSE item[d]]
    BY DEF FinishView
  <1>2. /\ view[v].read.assignee \in Assignees /\ view[v].read.active
        /\ \A d \in view[v].due : d \in view[v].read.schedule.dates /\ d >= view[v].read.start
        /\ list # NoList \/ deleted
    BY <1>1, ViewFields DEF ViewsKnow
  <1>3. view' \in [Lookers -> Views]
    BY <1>1 DEF ChecklistTypeOK, Views
  <1>4. ViewsKnow'
    <2>1. NoView.op = "idle"
      BY DEF NoView
    <2> QED
      BY <1>1, <2>1 DEF ViewsKnow, ChecklistTypeOK
  <1>5. DeletedIsGone'
    BY <1>1 DEF DeletedIsGone
  <1>6. CASE deleted
    BY <1>1, <1>3, <1>4, <1>5, <1>6 DEF ChecklistTypeOK, ItemsHaveList, ItemsFollow
  <1>7. CASE ~deleted
    <2>1. ASSUME NEW d \in Days
          PROVE  /\ item'[d] \in Item \cup {NoItem}
                 /\ \/ item'[d] = item[d]
                    \/ item'[d].excuse = "none" => /\ item'[d].owner = list.assignee
                                               /\ list.active /\ d \in list.schedule.dates /\ d >= list.start
      <3>1. CASE d \in view[v].due /\ item[d] = NoItem
        <4> DEFINE x == [owner |-> view[v].read.assignee, status |-> "Pending",
                         excuse |-> IF view[v].read = list THEN "none" ELSE "raced"]
        <4>1. item'[d] = x
          BY <1>1, <1>7, <3>1
        <4>2. x \in Item
          BY <1>2 DEF Item
        <4>3. x.owner = view[v].read.assignee /\ (x.excuse = "none" => view[v].read = list)
          OBVIOUS
        <4> HIDE DEF x
        <4> QED
          BY <1>2, <3>1, <4>1, <4>2, <4>3
      <3>2. CASE ~(d \in view[v].due /\ item[d] = NoItem)
        BY <1>1, <1>7, <3>2 DEF ChecklistTypeOK
      <3> QED
        BY <3>1, <3>2
    <2>2. item' \in [Days -> Item \cup {NoItem}]
      <3>1. item' = [d \in Days |-> item'[d]]
        BY <1>1, <1>7
      <3> QED
        BY <2>1, <3>1
    <2>3. ChecklistTypeOK'
      BY <1>1, <1>3, <2>2 DEF ChecklistTypeOK
    <2>4. ItemsFollow'
      BY <1>1, <2>1 DEF ItemsFollow
    <2>5. ItemsHaveList'
      BY <1>1, <1>2, <1>7 DEF ItemsHaveList
    <2> QED
      BY <1>4, <1>5, <2>3, <2>4, <2>5
  <1> QED
    BY <1>6, <1>7

LEMMA ChecklistStep == ChecklistInv /\ [ChecklistNext]_<<today, checklistVars>> => ChecklistInv'
  <1> SUFFICES ASSUME ChecklistInv, [ChecklistNext]_<<today, checklistVars>>
               PROVE  ChecklistInv'
    OBVIOUS
  <1> USE DEF ChecklistInv
  <1>1. CASE UNCHANGED <<today, checklistVars>>
    BY <1>1 DEF checklistVars, ChecklistTypeOK, ViewsKnow, ItemsHaveList, DeletedIsGone, ItemsFollow
  <1>2. CASE Tomorrow /\ UNCHANGED checklistVars
    <2>1. UNCHANGED <<list, item, view, deleted>> /\ today' \in Days /\ today' >= today /\ today \in Days
      BY <1>2, LastDayAssumption DEF Tomorrow, checklistVars, ChecklistTypeOK, Days
    <2>2. ChecklistTypeOK'
      BY <2>1 DEF ChecklistTypeOK
    <2>3. ItemsFollow'
      <3> SUFFICES ASSUME NEW d \in Days, item[d] # NoItem, item[d].excuse = "none"
                   PROVE  /\ item[d].owner = list.assignee
                          /\ d >= today' => list.active /\ d \in list.schedule.dates /\ d >= list.start
        BY <2>1 DEF ItemsFollow
      <3>1. d \in Int /\ today \in Int /\ today' \in Int
        BY <2>1, DayNumbers
      <3>2. /\ item[d].owner = list.assignee
            /\ d >= today => list.active /\ d \in list.schedule.dates /\ d >= list.start
        BY DEF ItemsFollow
      <3>3. d >= today' => d >= today
        BY <2>1, <3>1
      <3> QED
        BY <3>2, <3>3, Zenon
    <2> QED
      BY <2>1, <2>2, <2>3 DEF ViewsKnow, ItemsHaveList, DeletedIsGone
  <1>3. ASSUME NEW p \in Assignees, NEW start \in Days, NEW schedule \in Schedules, CreateList(p, start, schedule)
        PROVE  ChecklistInv'
    <2>1. /\ list = NoList /\ ~deleted /\ list' \in List /\ UNCHANGED <<today, item, view, deleted>>
      BY <1>3 DEF CreateList, List
    <2>2. ChecklistTypeOK' /\ list' # NoList
      BY <2>1, ListFields DEF ChecklistTypeOK
    <2>3. \A d \in Days : item[d] = NoItem
      BY <2>1 DEF ItemsHaveList
    <2> QED
      BY <2>1, <2>2, <2>3 DEF ViewsKnow, ItemsHaveList, DeletedIsGone, ItemsFollow
  <1>4. ASSUME NEW v \in Lookers, NEW off \in OffDays, BeginView(v, off)
        PROVE  ChecklistInv'
    <2> DEFINE x == [op |-> "view", due |-> Due(list, off), read |-> list]
    <2>1. view' = [view EXCEPT ![v] = x] /\ UNCHANGED <<today, list, item, deleted>> /\ list.active
      BY <1>4 DEF BeginView
    <2>2. /\ list # NoList /\ list \in List /\ list.assignee \in Assignees
          /\ Due(list, off) \subseteq Days
          /\ \A d \in Due(list, off) : d \in list.schedule.dates /\ d >= list.start
      BY <2>1, ListFields, DueDates
    <2>3. /\ x \in Views /\ x.op = "view" /\ x.due = Due(list, off) /\ x.read = list
      BY <2>2 DEF Views
    <2> HIDE DEF x
    <2>4. ChecklistTypeOK'
      BY <2>1, <2>3 DEF ChecklistTypeOK
    <2>5. ViewsKnow'
      BY <2>1, <2>2, <2>3 DEF ViewsKnow, ChecklistTypeOK
    <2> QED
      BY <2>1, <2>4, <2>5 DEF ItemsHaveList, DeletedIsGone, ItemsFollow
  <1>5. ASSUME NEW v \in Lookers, BeginDeleteList(v)
        PROVE  ChecklistInv'
    <2> DEFINE x == [op |-> "delete", unmarked |-> {d \in Days : ~Marked(d)}]
    <2>1. view' = [view EXCEPT ![v] = x] /\ UNCHANGED <<today, list, item, deleted>> /\ list # NoList
      BY <1>5 DEF BeginDeleteList
    <2>2. x \in Views /\ x.op = "delete" /\ x.unmarked = Days
      BY <1>5 DEF Views, BeginDeleteList, Counted
    <2> HIDE DEF x
    <2>3. ChecklistTypeOK'
      BY <2>1, <2>2 DEF ChecklistTypeOK
    <2>4. ViewsKnow'
      BY <2>1, <2>2 DEF ViewsKnow, ChecklistTypeOK
    <2> QED
      BY <2>1, <2>3, <2>4 DEF ItemsHaveList, DeletedIsGone, ItemsFollow
  <1>6. ASSUME NEW v \in Lookers, FinishDeleteList(v)
        PROVE  ChecklistInv'
    <2>1. /\ list' = NoList /\ deleted' = TRUE /\ item' = [d \in Days |-> NoItem]
          /\ view' = [view EXCEPT ![v] = NoView] /\ UNCHANGED today
      BY <1>6 DEF FinishDeleteList
    <2>2. ChecklistTypeOK'
      BY <2>1 DEF ChecklistTypeOK, Views
    <2>3. ViewsKnow'
      <3>1. NoView.op = "idle"
        BY DEF NoView
      <3> QED
        BY <2>1, <3>1 DEF ViewsKnow, ChecklistTypeOK
    <2> QED
      BY <2>1, <2>2, <2>3 DEF ItemsHaveList, DeletedIsGone, ItemsFollow
  <1>7. ASSUME NEW d \in Days, NEW status \in {"Done", "NotDone"}, MarkOwn(d, status)
        PROVE  ChecklistInv'
    <2>1. item[d] # NoItem
      BY <1>7, ItemFields DEF MarkOwn, Open
    <2> QED
      BY <1>7, <2>1, MarkKeeps DEF MarkOwn
  <1>8. ASSUME NEW d \in Days, NEW status \in {"Done", "NotDone", "Pending"}, MarkAsEditor(d, status)
        PROVE  ChecklistInv'
    BY <1>8, MarkKeeps DEF MarkAsEditor
  <1>9. CASE RestartList
    <2>1. list \in List /\ list' = [list EXCEPT !.active = TRUE] /\ UNCHANGED <<today, item, view, deleted>>
      BY <1>9, ListFields DEF RestartList
    <2>2. /\ list' \in List /\ list'.assignee = list.assignee /\ list'.schedule = list.schedule
          /\ list'.start = list.start /\ list'.active
      BY <2>1 DEF List
    <2>3. list' # NoList /\ list # NoList
      BY <2>1, <2>2, ListFields
    <2>4. ChecklistTypeOK'
      BY <2>1, <2>2 DEF ChecklistTypeOK
    <2> QED
      BY <2>1, <2>2, <2>3, <2>4 DEF ViewsKnow, ItemsHaveList, DeletedIsGone, ItemsFollow
  <1> QED
    BY <1>1, <1>2, <1>3, <1>4, <1>5, <1>6, <1>7, <1>8, <1>9, UpdateListKeeps, StopListKeeps, FinishViewKeeps
       DEF ChecklistNext

(* "what is still open (overdue included) is theirs now" (update of app/checklist.py): for any people, *)
(* schedules, off days and requests in flight, an open item is the present assignee's and stands on    *)
(* the present schedule, or has its excuse.                                                            *)
THEOREM OpenItemsStayTheirs == ChecklistSpec => []OpenItemsFollow
  <1>1. ChecklistInv => OpenItemsFollow
    <2>1. \A d \in Days : Open(d) => item[d] # NoItem
      BY DEF Open, NoItem
    <2> QED
      BY <2>1 DEF ChecklistInv, ItemsFollow, OpenItemsFollow
  <1> QED
    BY ChecklistStart, ChecklistStep, <1>1, PTL DEF ChecklistSpec

(* "What was already done stays in the history" (set_active of app/checklist.py): whatever is done to *)
(* a checklist, a marked item goes only with a delete that had found it not marked when it counted.   *)
THEOREM MarkedStay == ChecklistSpec => MarkedItemsSurvive
  <1>1. ASSUME ChecklistInv, [ChecklistNext]_<<today, checklistVars>>
        PROVE  [\A d \in Days : (Marked(d) /\ item'[d] = NoItem)
                   => \E v \in Lookers : view[v].op = "delete" /\ view'[v] = NoView /\ d \in view[v].unmarked]_<<today, checklistVars>>
    <2> SUFFICES ASSUME ChecklistNext, NEW d \in Days, Marked(d), item'[d] = NoItem
                 PROVE  \E v \in Lookers : view[v].op = "delete" /\ view'[v] = NoView /\ d \in view[v].unmarked
      BY <1>1
    <2>0. /\ item[d] # NoItem /\ item[d] \in Item /\ ~Open(d) /\ item \in [Days -> Item \cup {NoItem}]
          /\ \A x \in Item : x # NoItem
      <3>1. NoItem.status = "none" /\ \A x \in Item : x.status \in {"Pending", "Done", "NotDone"}
        BY DEF NoItem, Item
      <3>2. item \in [Days -> Item \cup {NoItem}]
        BY <1>1 DEF ChecklistInv, ChecklistTypeOK
      <3> QED
        BY <3>1, <3>2 DEF Marked, Open
    <2>1. ASSUME item' = item
          PROVE  FALSE
      BY <2>0, <2>1
    <2>2. ASSUME NEW e \in Days, NEW status \in {"Pending", "Done", "NotDone"},
                 item' = [item EXCEPT ![e].status = status]
          PROVE  FALSE
      <3>1. item' = [item EXCEPT ![e] = [item[e] EXCEPT !.status = status]]
        BY <2>2
      <3>2. e = d
        BY <2>0, <3>1
      <3>3. [item[d] EXCEPT !.status = status] \in Item
        BY <2>0 DEF Item
      <3> QED
        BY <2>0, <3>1, <3>2, <3>3
    <2>3. ASSUME NEW p \in Assignees, NEW start \in Days, NEW schedule \in Schedules, UpdateList(p, start, schedule)
          PROVE  FALSE
      <3>1. item'[d] = Excused(d)
        BY <2>0, <2>3 DEF UpdateList, Dropped, HandedOver
      <3> QED
        BY <1>1, <2>0, <3>1, ExcusedItem DEF ChecklistInv
    <2>4. ASSUME StopList
          PROVE  FALSE
      <3>1. item'[d] = Excused(d)
        BY <2>0, <2>4 DEF StopList, Dropped
      <3> QED
        BY <1>1, <2>0, <3>1, ExcusedItem DEF ChecklistInv
    <2>5. ASSUME NEW v \in Lookers, FinishView(v)
          PROVE  FALSE
      <3>1. item'[d] = item[d]
        BY <2>0, <2>5 DEF FinishView
      <3> QED
        BY <2>0, <3>1
    <2>6. ASSUME NEW v \in Lookers, FinishDeleteList(v)
          PROVE  \E u \in Lookers : view[u].op = "delete" /\ view'[u] = NoView /\ d \in view[u].unmarked
      BY <1>1, <2>6 DEF FinishDeleteList, ChecklistInv, ChecklistTypeOK, ViewsKnow
    <2> QED
      BY <2>1, <2>2, <2>3, <2>4, <2>5, <2>6
         DEF ChecklistNext, checklistVars, CreateList, BeginView, BeginDeleteList, MarkOwn, MarkAsEditor, RestartList
  <1> QED
    BY ChecklistStart, ChecklistStep, <1>1, PTL DEF ChecklistSpec, MarkedItemsSurvive

-----------------------------------------------------------------------------
(***************************************************************************)
(* The shapes of the parts, and of the run that has them side by side.     *)
(***************************************************************************)
(* One request of a person waits at most, though two are sent at once. *)
LEMMA AccessTypesStep ==
    AccessInv /\ AccessTypeOK /\ [AccessNext]_<<memberVars, accessVars>> => AccessTypeOK'
  <1> SUFFICES ASSUME AccessInv, AccessTypeOK, [AccessNext]_<<memberVars, accessVars>>
               PROVE  AccessTypeOK'
    OBVIOUS
  <1>0. MembersTypeOK' /\ exception' \in [MemberKeys -> Exceptions]
    BY AccessStep DEF AccessInv
  <1>1. rolePages \subseteq Roles /\ pending \in [MemberKeys -> {0, 1}]
    BY DEF AccessTypeOK
  <1>2. SUFFICES rolePages' \subseteq Roles /\ pending' \in [MemberKeys -> {0, 1}]
    BY <1>0 DEF AccessTypeOK
  <1>3. CASE MembersNext /\ Cascade
    BY <1>1, <1>3 DEF Cascade
  <1>4. ASSUME NEW a \in MemberKeys, NEW r \in Roles \ {"admin"}, SwitchRole(a, r)
        PROVE  rolePages' \subseteq Roles /\ pending' \in [MemberKeys -> {0, 1}]
    BY <1>1, <1>4 DEF SwitchRole
  <1>5. ASSUME NEW a \in MemberKeys, NEW m \in MemberKeys, NEW x \in Exceptions, SetException(a, m, x)
        PROVE  rolePages' \subseteq Roles /\ pending' \in [MemberKeys -> {0, 1}]
    BY <1>1, <1>5 DEF SetException
  <1>6. ASSUME NEW a \in MemberKeys, NEW m \in MemberKeys, NEW approve \in BOOLEAN, DecideRequest(a, m, approve)
        PROVE  rolePages' \subseteq Roles /\ pending' \in [MemberKeys -> {0, 1}]
    BY <1>1, <1>6 DEF DecideRequest
  <1>7. ASSUME NEW c \in Clerks, FinishAsk(c)
        PROVE  rolePages' \subseteq Roles /\ pending' \in [MemberKeys -> {0, 1}]
    <2> DEFINE m == errand[c].by
    <2>1. /\ pending' = IF Exist(m) /\ OneMayWait(m) THEN [pending EXCEPT ![m] = @ + 1] ELSE pending
          /\ rolePages' = rolePages
      BY <1>7 DEF FinishAsk
    <2>2. CASE m \in MemberKeys /\ Exist(m) /\ OneMayWait(m)
      <3>1. pending[m] = 0
        BY <1>1, <2>2 DEF OneMayWait
      <3>2. pending' = [pending EXCEPT ![m] = 1]
        BY <2>1, <2>2, <3>1
      <3> HIDE DEF m
      <3> QED
        BY <1>1, <2>1, <2>2, <3>2
    <2>3. CASE m \notin MemberKeys
      <3>1. pending' = pending
        BY <1>1, <2>1, <2>3
      <3> QED
        BY <1>1, <2>1, <3>1
    <2>4. CASE m \in MemberKeys /\ ~(Exist(m) /\ OneMayWait(m))
      BY <1>1, <2>1, <2>4
    <2> QED
      BY <2>2, <2>3, <2>4
  <1>8. ASSUME NEW c \in Clerks, NEW m \in MemberKeys, BeginAsk(c, m)
        PROVE  rolePages' \subseteq Roles /\ pending' \in [MemberKeys -> {0, 1}]
    BY <1>1, <1>8 DEF BeginAsk
  <1>9. CASE UNCHANGED <<memberVars, accessVars>>
    BY <1>1, <1>9 DEF accessVars
  <1> QED
    BY <1>3, <1>4, <1>5, <1>6, <1>7, <1>8, <1>9 DEF AccessNext

LEMMA AccessTypesStart == AccessInit => AccessTypeOK
  BY AccessStart DEF AccessInit, AccessInv, AccessTypeOK

LEMMA FilesTypes == FilesInv => FilesTypeOK
  <1> SUFFICES ASSUME FilesInv PROVE FilesTypeOK
    OBVIOUS
  <1>1. \A o \in Ops : o.at \in {"idle", "put", "insert", "link", "drop", "erase", "commit", "delete"}
    BY DEF Ops, NotBusy
  <1> QED
    BY <1>1 DEF FilesInv, FilesShape, FilesTypeOK, Kinds, Owners

PeopleInv ==
    /\ part = "access" => AccessInv /\ AccessTypeOK
    /\ part = "signIn" => SignInInv
    /\ part = "settings" => SettingsInv
    /\ part = "screens" => ScreenInv
    /\ part = "files" => FilesInv
    /\ part = "checklist" => ChecklistInv

LEMMA PeopleStart == PeopleInit => PeopleInv
  BY AccessStart, AccessTypesStart, SignInStart, SettingsStart, ScreenStart, FilesStart, ChecklistStart
     DEF PeopleInit, PeopleInv

LEMMA PeopleStep ==
    PeopleInv /\ [PeopleNext]_<<part, memberVars, accessVars, signInVars, settingsVars,
                                screenVars, fileVars, today, checklistVars>> => PeopleInv'
  <1> SUFFICES ASSUME PeopleInv, [PeopleNext]_<<part, memberVars, accessVars, signInVars, settingsVars,
                                                screenVars, fileVars, today, checklistVars>>
               PROVE  PeopleInv'
    OBVIOUS
  <1>1. /\ part' = part
        /\ part = "access" => [AccessNext]_<<memberVars, accessVars>>
        /\ part = "signIn" => [SignInNext]_signInVars
        /\ part = "settings" => [SettingsNext]_settingsVars
        /\ part = "screens" => [ScreenNext]_screenVars
        /\ part = "files" => [FilesNext]_fileVars
        /\ part = "checklist" => [ChecklistNext]_<<today, checklistVars>>
    BY DEF PeopleNext
  <1>2. part = "access" => AccessInv' /\ AccessTypeOK'
    BY <1>1, AccessStep, AccessTypesStep DEF PeopleInv
  <1>3. part = "signIn" => SignInInv'
    BY <1>1, SignInStep DEF PeopleInv
  <1>4. part = "settings" => SettingsInv'
    BY <1>1, SettingsStep DEF PeopleInv
  <1>5. part = "screens" => ScreenInv'
    BY <1>1, ScreenStep DEF PeopleInv
  <1>6. part = "files" => FilesInv'
    BY <1>1, FilesStep DEF PeopleInv
  <1>7. part = "checklist" => ChecklistInv'
    BY <1>1, ChecklistStep DEF PeopleInv
  <1> QED
    BY <1>1, <1>2, <1>3, <1>4, <1>5, <1>6, <1>7 DEF PeopleInv

(* In the run that has the parts side by side, each keeps the shapes its module declares; of a person one request *)
(* waits at most ("You already have a request waiting for that page.").                                           *)
THEOREM PeopleTypeCorrect == PeopleSpec => []PeopleTypeOK
  <1>1. PeopleInv => PeopleTypeOK
    BY FilesTypes DEF PeopleInv, PeopleTypeOK, SignInInv, SettingsInv, ScreenInv, ChecklistInv
  <1> QED
    BY PeopleStart, PeopleStep, <1>1, PTL DEF PeopleSpec
=============================================================================
