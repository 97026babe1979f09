------------------------------ MODULE AccountsProofs ------------------------------
(****************************************************************************)
(* Proofs about Accounts, for any number of names, accounts and requests,   *)
(* any time to live in the cache and any latency of the database.           *)
(****************************************************************************)
EXTENDS Accounts, FiniteSetTheorems, FunctionTheorems, TLAPS

--------------------------------------------------------------------------------
(* Types *)

Entries == [copy : Copies, left : 0..TTL]

(* The awaits of a request, with what it has read. *)
Lookups == [at : {"lookup"}, name : Usernames, found : Copies \cup {None},
            waited : 0..Latency, strategy : {"jwt", "test", None}]
Created == [at : {"created"}, name : Usernames, waited : 0..Latency, found : Copies]
Acting  == [at : {"acting"}, role : Roles]
Loaded  == [at : {"loaded"}, name : Usernames, id : 1..MaxId, role : Roles]

TypesOK ==
  /\ account \in [Usernames -> Copies \cup {None}]
  /\ lastId \in 0..MaxId
  /\ cache \in [Usernames -> Entries \cup {None}]
  /\ req \in [Requests -> {Idle} \cup Lookups \cup Created \cup Acting \cup Loaded]
  /\ age \in [Copies -> Nat]

LEMMA TypesInit == ASSUME ConstantsOK, Init PROVE TypesOK
<1>1. Cardinality(Initial) \in Nat
  BY FS_CardinalityType DEF ConstantsOK
<1> QED BY <1>1 DEF ConstantsOK, Init, TypesOK, Copies, Roles

(* The account that is created has an id of its own. *)
LEMMA CreateTyped ==
  ASSUME ConstantsOK, TypesOK, NEW n \in Usernames, NEW role \in Roles, Create(n, role)
  PROVE  /\ lastId + 1 \in 1..MaxId /\ lastId' \in 0..MaxId
         /\ [id |-> lastId + 1, role |-> role] \in Copies
         /\ account' \in [Usernames -> Copies \cup {None}]
<1>1. lastId + 1 \in 1..MaxId
  BY DEF ConstantsOK, TypesOK, Create
<1> QED BY <1>1 DEF TypesOK, Create, Copies

LEMMA TypesStep == ASSUME ConstantsOK, TypesOK, [Next]_vars PROVE TypesOK'
<1> USE DEF TypesOK
<1>1. ASSUME NEW ticks \in {0, 1}, SetAge(ticks)
      PROVE  age' \in [Copies -> Nat]
  BY <1>1 DEF SetAge
<1> DEFINE RestTyped ==
             /\ account' \in [Usernames -> Copies \cup {None}]
             /\ lastId' \in 0..MaxId
             /\ cache' \in [Usernames -> Entries \cup {None}]
             /\ req' \in [Requests -> {Idle} \cup Lookups \cup Created \cup Acting \cup Loaded]
<1>2. ASSUME Operation
      PROVE  RestTyped
  <2>1. ASSUME NEW r \in Requests, NEW n \in Usernames, NEW strategy \in {"jwt", "test"},
               Authenticate(r, n, strategy)
        PROVE  RestTyped
    <3>1. CASE cache[n] # None
      BY <2>1, <3>1 DEF Authenticate, Get, Attach, Entries, Acting, Copies
    <3>2. CASE cache[n] = None
      <4>1. 0 \in 0..Latency
        BY DEF ConstantsOK
      <4> QED BY <2>1, <3>2, <4>1 DEF Authenticate, Lookups
    <3> QED BY <3>1, <3>2
  <2>2. ASSUME NEW r \in Requests, Found(r)
        PROVE  RestTyped
    <3>1. req[r].name \in Usernames /\ req[r].found \in Copies /\ TTL \in 0..TTL
      BY <2>2 DEF Found, Waiting, Idle, Lookups, Created, Acting, Loaded, ConstantsOK
    <3> QED BY <2>2, <3>1 DEF Found, Remember, Attach, Entries, Acting, Copies
  <2>3. ASSUME NEW r \in Requests, CreateUser(r)
        PROVE  RestTyped
    <3>1. req[r].name \in Usernames /\ 0 \in 0..Latency /\ "USER" \in Roles
      BY <2>3 DEF CreateUser, Idle, Lookups, Created, Acting, Loaded, ConstantsOK, Roles
    <3>2. CASE Free(req[r].name)
      BY <2>3, <3>1, <3>2, CreateTyped DEF CreateUser, Created
    <3>3. CASE ~Free(req[r].name)
      BY <2>3, <3>3 DEF CreateUser
    <3> QED BY <3>2, <3>3
  <2>4. ASSUME NEW r \in Requests, NEW n \in Usernames, NEW role \in Roles,
               AdminCreates(r, n, role)
        PROVE  RestTyped
    BY <2>4, CreateTyped DEF AdminCreates
  <2>5. ASSUME NEW r \in Requests, NEW n \in Usernames, NEW role \in Roles,
               AdminLoads(r, n, role)
        PROVE  RestTyped
    BY <2>5 DEF AdminLoads, Loaded, Copies
  <2>6. ASSUME NEW r \in Requests, AdminSaves(r)
        PROVE  RestTyped
    <3>1. req[r].name \in Usernames /\ [id |-> req[r].id, role |-> req[r].role] \in Copies
      BY <2>6 DEF AdminSaves, Idle, Lookups, Created, Acting, Loaded, Copies
    <3> QED BY <2>6, <3>1 DEF AdminSaves
  <2>7. ASSUME NEW r \in Requests,
               Reject(r) \/ Done(r) \/ AdminSaveFails(r)
               \/ \E n \in Usernames : AdminDeletes(r, n)
        PROVE  RestTyped
    BY <2>7 DEF Reject, Done, AdminSaveFails, AdminDeletes
  <2>8. CASE Restart
    BY <2>8 DEF Restart
  <2> QED BY <1>2, <2>1, <2>2, <2>3, <2>4, <2>5, <2>6, <2>7, <2>8 DEF Operation
<1>3. CASE Operation /\ SetAge(0)
  BY <1>1, <1>2, <1>3
<1>4. CASE Tick /\ SetAge(1)
  <2>1. \A n \in Usernames : cache'[n] \in Entries \cup {None}
    <3> TAKE n \in Usernames
    <3>1. CASE cache[n] = None \/ cache[n].left = 0
      BY <1>4, <3>1 DEF Tick
    <3>2. CASE cache[n] # None /\ cache[n].left # 0
      <4>1. cache[n] \in Entries /\ cache[n].left - 1 \in 0..TTL
        BY <3>2 DEF Entries, ConstantsOK
      <4>2. cache'[n] = [cache[n] EXCEPT !.left = @ - 1]
        BY <1>4, <3>2 DEF Tick
      <4> QED BY <4>1, <4>2 DEF Entries
    <3> QED BY <3>1, <3>2
  <2>2. \A r \in Requests :
          req'[r] \in {Idle} \cup Lookups \cup Created \cup Acting \cup Loaded
    <3> TAKE r \in Requests
    <3>1. CASE Waiting(r)
      <4>1. req[r] \in Lookups \cup Created /\ req[r].waited + 1 \in 0..Latency
        BY <1>4, <3>1 DEF Tick, Waiting, Idle, Lookups, Created, Acting, Loaded, ConstantsOK
      <4>2. req'[r] = [req[r] EXCEPT !.waited = @ + 1]
        BY <1>4, <3>1 DEF Tick
      <4> QED BY <4>1, <4>2 DEF Lookups, Created
    <3>2. CASE ~Waiting(r)
      BY <1>4, <3>2 DEF Tick
    <3> QED BY <3>1, <3>2
  <2>3. cache' \in [Usernames -> Entries \cup {None}]
    BY <1>4, <2>1 DEF Tick
  <2>4. req' \in [Requests -> {Idle} \cup Lookups \cup Created \cup Acting \cup Loaded]
    BY <1>4, <2>2 DEF Tick
  <2> QED BY <1>1, <1>4, <2>3, <2>4 DEF Tick
<1>5. CASE UNCHANGED vars
  BY <1>5 DEF vars
<1> QED BY <1>3, <1>4, <1>5 DEF Next

(* Every request holds the copies and names of its own await. *)
THEOREM TypeCorrect == ASSUME ConstantsOK PROVE Spec => []TypesOK
BY TypesInit, TypesStep, PTL DEF Spec

--------------------------------------------------------------------------------
(* How old a copy can be *)

(* Who holds a copy bounds its age: the older an entry of the cache, the less time it
   has left, and a query has waited since its answer was true. *)
AgesOK ==
  /\ \A n \in Usernames : cache[n] # None =>
       age[cache[n].copy] + cache[n].left <= TTL + Latency
  /\ \A r \in Requests : Waiting(r) /\ req[r].found # None => age[req[r].found] <= req[r].waited
  /\ \A c \in Copies : age[c] > 0 => c \in Held

LEMMA AgesBounded == ASSUME ConstantsOK, TypesOK, AgesOK PROVE BoundedStaleness
<1> SUFFICES ASSUME NEW c \in Copies, age[c] > 0
             PROVE  age[c] <= TTL + Latency
  BY DEF BoundedStaleness, ConstantsOK, TypesOK
<1>1. c \in Held /\ c # None
  BY DEF AgesOK, ConstantsOK
<1>2. CASE \E n \in Usernames : cache[n] # None /\ c = cache[n].copy
  <2>1. PICK n \in Usernames : cache[n] # None /\ c = cache[n].copy
    BY <1>2
  <2>2. cache[n].left \in Nat
    BY <2>1 DEF TypesOK, Entries, ConstantsOK
  <2> QED BY <2>1, <2>2 DEF AgesOK, TypesOK, ConstantsOK
<1>3. CASE \E r \in Requests : Waiting(r) /\ c = req[r].found
  <2>1. PICK r \in Requests : Waiting(r) /\ c = req[r].found
    BY <1>3
  <2>2. req[r].waited \in 0..Latency
    BY <2>1 DEF TypesOK, Waiting, Idle, Lookups, Created, Acting, Loaded
  <2> QED BY <1>1, <2>1, <2>2 DEF AgesOK, TypesOK, ConstantsOK
<1> QED BY <1>1, <1>2, <1>3 DEF Held

(* A copy ages by a tick at most, and not at all while it is true. *)
LEMMA Aging ==
  ASSUME TypesOK, NEW ticks \in {0, 1}, SetAge(ticks)
  PROVE  /\ \A c \in Copies : age'[c] <= age[c] + ticks
         /\ \A c \in Copies : age'[c] > 0 => c \in Held'
         /\ \A n \in Usernames : account'[n] \in Copies => age'[account'[n]] = 0
         /\ age' \in [Copies -> Nat]
BY DEF TypesOK, SetAge

(* What an operation leaves in the cache or waiting was there, or waited, or is true. *)
LEMMA OperationHolds ==
  ASSUME ConstantsOK, TypesOK, Operation
  PROVE  /\ \A n \in Usernames : cache'[n] # None =>
              \/ cache'[n] = cache[n]
              \/ \E r \in Requests : /\ Waiting(r) /\ req[r].found # None
                                     /\ cache'[n] = [copy |-> req[r].found, left |-> TTL]
         /\ \A r \in Requests : Waiting(r)' /\ req'[r].found # None =>
              \/ Waiting(r) /\ req'[r] = req[r]
              \/ req'[r].waited = 0 /\ \E n \in Usernames : req'[r].found = account'[n]
<1> DEFINE Holds ==
      /\ \A n \in Usernames : cache'[n] # None =>
           \/ cache'[n] = cache[n]
           \/ \E r \in Requests : /\ Waiting(r) /\ req[r].found # None
                                  /\ cache'[n] = [copy |-> req[r].found, left |-> TTL]
      /\ \A r \in Requests : Waiting(r)' /\ req'[r].found # None =>
           \/ Waiting(r) /\ req'[r] = req[r]
           \/ req'[r].waited = 0 /\ \E n \in Usernames : req'[r].found = account'[n]
<1> SUFFICES Holds
  OBVIOUS
<1> USE DEF TypesOK, Waiting, Idle
<1>1. ASSUME NEW r \in Requests, NEW n \in Usernames, NEW strategy \in {"jwt", "test"},
             Authenticate(r, n, strategy)
      PROVE  Holds
  BY <1>1 DEF Authenticate, Get, Attach
<1>2. ASSUME NEW r \in Requests, Found(r)
      PROVE  Holds
  BY <1>2 DEF Found, Remember, Attach
<1>3. ASSUME NEW r \in Requests, CreateUser(r)
      PROVE  Holds
  <2>1. req[r].name \in Usernames
    BY <1>3 DEF CreateUser, Lookups, Created, Acting, Loaded
  <2> QED BY <1>3, <2>1 DEF CreateUser, Create
<1>4. ASSUME NEW r \in Requests, NEW n \in Usernames, NEW role \in Roles,
             AdminCreates(r, n, role) \/ AdminLoads(r, n, role)
      PROVE  Holds
  BY <1>4 DEF AdminCreates, AdminLoads
<1>5. ASSUME NEW r \in Requests,
             \/ Reject(r) \/ Done(r) \/ AdminSaves(r) \/ AdminSaveFails(r)
             \/ \E n \in Usernames : AdminDeletes(r, n)
      PROVE  Holds
  BY <1>5 DEF Reject, Done, AdminSaves, AdminSaveFails, AdminDeletes
<1>6. CASE Restart
  BY <1>6 DEF Restart
<1> HIDE DEF Holds, TypesOK, Waiting, Idle
<1> QED BY <1>1, <1>2, <1>3, <1>4, <1>5, <1>6 DEF Operation

LEMMA AgesStep ==
  ASSUME ConstantsOK, TypesOK, TypesOK', AgesOK, [Next]_vars
  PROVE  AgesOK'
<1> USE DEF AgesOK
<1>1. CASE Operation /\ SetAge(0)
  <2>0. /\ \A c \in Copies : age'[c] <= age[c] /\ age'[c] \in Nat /\ age[c] \in Nat
        /\ \A c \in Copies : age'[c] > 0 => c \in Held'
        /\ \A n \in Usernames : account'[n] \in Copies => age'[account'[n]] = 0
    BY <1>1, Aging DEF TypesOK
  <2>1. ASSUME NEW n \in Usernames, cache'[n] # None
        PROVE  age'[cache'[n].copy] + cache'[n].left <= TTL + Latency
    <3>1. cache'[n] \in Entries
      BY <2>1 DEF TypesOK
    <3>2. CASE cache'[n] = cache[n]
      BY <2>0, <2>1, <3>1, <3>2 DEF Entries, ConstantsOK
    <3>3. CASE \E r \in Requests : /\ Waiting(r) /\ req[r].found # None
                                   /\ cache'[n] = [copy |-> req[r].found, left |-> TTL]
      <4>1. PICK r \in Requests : /\ Waiting(r) /\ req[r].found # None
                                  /\ cache'[n] = [copy |-> req[r].found, left |-> TTL]
        BY <3>3
      <4>2. req[r].waited \in 0..Latency /\ req[r].found \in Copies
        BY <4>1 DEF TypesOK, Waiting, Idle, Lookups, Created, Acting, Loaded
      <4>3. age'[req[r].found] <= Latency
        BY <2>0, <4>1, <4>2 DEF ConstantsOK
      <4> QED BY <2>0, <4>1, <4>2, <4>3 DEF ConstantsOK
    <3> QED BY <1>1, <2>1, <3>2, <3>3, OperationHolds
  <2>2. ASSUME NEW r \in Requests, Waiting(r)', req'[r].found # None
        PROVE  age'[req'[r].found] <= req'[r].waited
    <3>1. req'[r].waited \in 0..Latency /\ req'[r].found \in Copies
      BY <2>2 DEF TypesOK, Waiting, Idle, Lookups, Created, Acting, Loaded
    <3>2. CASE Waiting(r) /\ req'[r] = req[r]
      BY <2>0, <2>2, <3>1, <3>2 DEF ConstantsOK
    <3>3. CASE req'[r].waited = 0 /\ \E n \in Usernames : req'[r].found = account'[n]
      BY <2>0, <3>1, <3>3
    <3> QED BY <1>1, <2>2, <3>2, <3>3, OperationHolds
  <2> QED BY <2>0, <2>1, <2>2
<1>2. CASE Tick /\ SetAge(1)
  <2>0. /\ \A c \in Copies : age'[c] <= age[c] + 1 /\ age'[c] \in Nat /\ age[c] \in Nat
        /\ \A c \in Copies : age'[c] > 0 => c \in Held'
    BY <1>2, Aging DEF TypesOK
  <2>1. ASSUME NEW n \in Usernames, cache'[n] # None
        PROVE  age'[cache'[n].copy] + cache'[n].left <= TTL + Latency
    <3>1. cache[n] # None /\ cache'[n] = [cache[n] EXCEPT !.left = @ - 1]
      BY <1>2, <2>1 DEF Tick
    <3>2. cache[n] \in Entries
      BY <3>1 DEF TypesOK
    <3>3. cache'[n].copy = cache[n].copy /\ cache'[n].left = cache[n].left - 1
      BY <3>1, <3>2 DEF Entries
    <3> QED BY <2>0, <3>1, <3>2, <3>3 DEF Entries, ConstantsOK
  <2>2. ASSUME NEW r \in Requests, Waiting(r)', req'[r].found # None
        PROVE  age'[req'[r].found] <= req'[r].waited
    <3>1. req[r] \in {Idle} \cup Lookups \cup Created \cup Acting \cup Loaded
      BY DEF TypesOK
    <3>2. req'[r] = IF Waiting(r) THEN [req[r] EXCEPT !.waited = @ + 1] ELSE req[r]
      BY <1>2 DEF Tick
    <3>3. Waiting(r)
      BY <2>2, <3>2 DEF Waiting
    <3>4. req[r] \in Lookups \cup Created
      BY <3>1, <3>3 DEF Waiting, Idle, Acting, Loaded
    <3>5. req'[r].found = req[r].found /\ req'[r].waited = req[r].waited + 1
      BY <3>2, <3>3, <3>4 DEF Lookups, Created
    <3>6. req[r].waited \in Nat /\ req[r].found \in Copies
      BY <2>2, <3>4, <3>5 DEF Lookups, Created, ConstantsOK
    <3> QED BY <2>0, <2>2, <3>3, <3>5, <3>6
  <2> QED BY <2>0, <2>1, <2>2
<1>3. CASE UNCHANGED vars
  BY <1>3 DEF vars, Held, Waiting
<1> QED BY <1>1, <1>2, <1>3 DEF Next

(* Nobody holds a copy at first. *)
LEMMA AgesInit == ASSUME Init PROVE AgesOK
BY DEF Init, AgesOK, Waiting, Idle

(* A copy of an account is attached to requests for no longer than the cache's time and
   one answer of the database after it has ceased to be true. *)
THEOREM StalenessIsBounded == ASSUME ConstantsOK PROVE Spec => []BoundedStaleness
BY AgesInit, TypesInit, TypesStep, AgesStep, AgesBounded, PTL DEF Spec

--------------------------------------------------------------------------------
(* Accounts and their settings *)

(* The account of n has the id i, or an update is about to write it with that id. *)
Owns(n, i) ==
  \/ account[n] # None /\ account[n].id = i
  \/ \E r \in Requests : req[r].at = "loaded" /\ req[r].name = n /\ req[r].id = i

(* An id is never given to a second name, though an update may insert an account again. *)
IdsOK ==
  /\ \A n, m \in Usernames, i \in 1..MaxId : Owns(n, i) /\ Owns(m, i) => n = m
  /\ \A n \in Usernames, i \in 1..MaxId : Owns(n, i) => i <= lastId
  /\ SettingsComplete

LEMMA IdsInit == ASSUME ConstantsOK, Init PROVE IdsOK
<1> DEFINE N == Cardinality(Initial)
<1>1. N \in 0..MaxId
  BY FS_CardinalityType DEF ConstantsOK
<1>2. PICK ids \in [Initial -> 1..N] :
        /\ \A a, b \in Initial : ids[a] = ids[b] => a = b
        /\ account = [n \in Usernames |->
                        IF n \in Initial THEN [id |-> ids[n], role |-> "ADMIN"] ELSE None]
  BY DEF Init
<1> HIDE DEF N
<1>3. \A n \in Initial : [id |-> ids[n], role |-> "ADMIN"] \in Copies
  <2>1. \A i \in 1..N : i \in 1..MaxId
    BY <1>1 DEF ConstantsOK
  <2> QED BY <1>2, <2>1 DEF Copies, Roles
<1>4. \A n \in Usernames : IF n \in Initial THEN account[n] # None /\ account[n].id = ids[n]
                           ELSE account[n] = None
  BY <1>2, <1>3 DEF ConstantsOK
<1>5. \A n \in Usernames : \A i : Owns(n, i) <=> n \in Initial /\ i = ids[n]
  BY <1>4 DEF Owns, Init, Idle
<1>6. ids \in Surjection(Initial, 1..N)
  <2>1. ids \in Injection(Initial, 1..N)
    BY <1>2 DEF Injection, IsInjective
  <2>2. IsFiniteSet(1..N) /\ Cardinality(1..N) = N
    BY <1>1, FS_Interval
  <2>3. N = Cardinality(Initial)
    BY DEF N
  <2> QED BY <2>1, <2>2, <2>3, FS_Injection
<1>7. {account[n].id : n \in Existing} = 1..N
  <2>1. Existing = Initial
    BY <1>4 DEF Existing, ConstantsOK
  <2>2. \A n \in Initial : account[n].id = ids[n]
    BY <1>4 DEF ConstantsOK
  <2>3. \A i \in 1..N : \E n \in Initial : ids[n] = i
    BY <1>6 DEF Surjection
  <2>4. \A n \in Initial : ids[n] \in 1..N
    BY <1>2
  <2>5. {account[n].id : n \in Existing} = {ids[n] : n \in Initial}
    BY <2>1, <2>2
  <2>6. {ids[n] : n \in Initial} = 1..N
    BY <2>3, <2>4
  <2> QED BY <2>5, <2>6
<1>8. settings = 1..N /\ lastId = N /\ revived = {}
  BY DEF Init, N
<1>9. SettingsComplete
  BY <1>7, <1>8 DEF SettingsComplete
<1> QED BY <1>1, <1>2, <1>5, <1>8, <1>9 DEF IdsOK

(* The ids of the accounts. *)
AccountIds == {account[n].id : n \in Existing}

LEMMA IdsStep ==
  ASSUME ConstantsOK, TypesOK, TypesOK', IdsOK, [Next]_vars
  PROVE  IdsOK'
<1> USE DEF IdsOK
<1> DEFINE Kept == /\ \A n \in Usernames, i \in 1..MaxId : Owns(n, i)' => Owns(n, i)
                   /\ UNCHANGED <<account, settings, lastId, revived>>
<1>1. ASSUME Kept PROVE IdsOK'
  BY <1>1 DEF TypesOK, SettingsComplete, Existing
<1>2. ASSUME NEW r \in Requests, NEW n \in Usernames, NEW role \in Roles,
             Free(n), Create(n, role), UNCHANGED revived,
             req' \in {[req EXCEPT ![r] = q] : q \in {Idle} \cup Created}
      PROVE  IdsOK'
  <2>0. [id |-> lastId + 1, role |-> role] \in Copies /\ lastId + 1 \in 1..MaxId
    BY <1>2, CreateTyped
  <2>1. /\ lastId + 1 \in 1..MaxId /\ lastId' = lastId + 1 /\ lastId \in Nat
        /\ account'[n] = [id |-> lastId + 1, role |-> role] /\ account'[n] # None
        /\ account[n] = None
        /\ \A m \in Usernames : m # n => account'[m] = account[m]
    BY <1>2, <2>0 DEF Create, Free, TypesOK, ConstantsOK
  <2>2. \A s \in Requests : req'[s].at = "loaded" => req'[s] = req[s]
    BY <1>2 DEF TypesOK, Idle, Created
  <2>3. \A m \in Usernames, i \in 1..MaxId :
          Owns(m, i)' => Owns(m, i) \/ (m = n /\ i = lastId + 1)
    BY <2>1, <2>2 DEF Owns
  <2>4. AccountIds' = AccountIds \cup {lastId + 1}
    BY <2>1 DEF AccountIds, Existing
  <2>5. SettingsComplete'
    BY <1>2, <2>4 DEF SettingsComplete, AccountIds, Create
  <2> QED BY <2>1, <2>3, <2>5
<1>3. ASSUME NEW r \in Requests, NEW n \in Usernames, NEW role \in Roles, AdminLoads(r, n, role)
      PROVE  IdsOK'
  <2>1. Kept
    BY <1>3 DEF AdminLoads, Owns, TypesOK
  <2> QED BY <1>1, <2>1
<1>4. ASSUME NEW r \in Requests, AdminSaves(r)
      PROVE  IdsOK'
  <2> DEFINE n == req[r].name
             i == req[r].id
  <2>1. n \in Usernames /\ i \in 1..MaxId /\ [id |-> i, role |-> req[r].role] \in Copies
    BY <1>4 DEF AdminSaves, TypesOK, Idle, Lookups, Created, Acting, Loaded, Copies
  <2>2. Owns(n, i)
    BY <1>4 DEF AdminSaves, Owns
  <2>3. /\ account'[n] # None /\ account'[n].id = i
        /\ \A m \in Usernames : m # n => account'[m] = account[m]
        /\ account[n] # None => account[n].id = i
    BY <1>4, <2>1 DEF AdminSaves, TypesOK, ConstantsOK
  <2>4. \A s \in Requests : req'[s].at = "loaded" => req'[s] = req[s]
    BY <1>4 DEF AdminSaves, TypesOK, Idle
  <2>5. \A m \in Usernames, j \in 1..MaxId : Owns(m, j)' => Owns(m, j)
    BY <2>2, <2>3, <2>4 DEF Owns
  <2>6. CASE account[n] # None
    <3>1. AccountIds' = AccountIds
      BY <2>1, <2>3, <2>6 DEF AccountIds, Existing
    <3>2. SettingsComplete'
      BY <1>4, <2>6, <3>1 DEF SettingsComplete, AccountIds, AdminSaves
    <3> QED BY <1>4, <2>5, <3>2 DEF AdminSaves
  <2>7. CASE account[n] = None
    <3>1. AccountIds' = AccountIds \cup {i}
      BY <2>1, <2>3, <2>7 DEF AccountIds, Existing
    <3>2. SettingsComplete'
      BY <1>4, <2>7, <3>1 DEF SettingsComplete, AccountIds, AdminSaves
    <3> QED BY <1>4, <2>5, <3>2 DEF AdminSaves
  <2> QED BY <2>6, <2>7
<1>5. ASSUME NEW r \in Requests, NEW n \in Usernames, AdminDeletes(r, n)
      PROVE  IdsOK'
  <2>1. /\ account[n] # None /\ account'[n] = None
        /\ \A m \in Usernames : m # n => account'[m] = account[m]
    BY <1>5 DEF AdminDeletes, TypesOK
  <2>2. \A s \in Requests : req'[s].at = "loaded" => req'[s] = req[s]
    BY <1>5 DEF AdminDeletes, TypesOK, Idle
  <2>3. \A m \in Usernames, j \in 1..MaxId : Owns(m, j)' => Owns(m, j)
    BY <2>1, <2>2 DEF Owns
  <2>4. \A m \in Usernames : account[m] # None => account[m].id \in 1..MaxId /\ Owns(m, account[m].id)
    BY DEF TypesOK, Copies, Owns
  <2>5. \A m \in Usernames : m # n /\ account[m] # None => account[m].id # account[n].id
    BY <2>1, <2>4
  <2>6. AccountIds' = AccountIds \ {account[n].id}
    BY <2>1, <2>5 DEF AccountIds, Existing
  <2>7. SettingsComplete'
    BY <1>5, <2>6 DEF SettingsComplete, AccountIds, AdminDeletes
  <2> QED BY <1>5, <2>3, <2>7 DEF AdminDeletes
<1>6. ASSUME NEW r \in Requests,
             \/ \E n \in Usernames, strategy \in {"jwt", "test"} : Authenticate(r, n, strategy)
             \/ Found(r) \/ Reject(r) \/ Done(r) \/ AdminSaveFails(r)
      PROVE  IdsOK'
  <2>1. Kept
    BY <1>6 DEF Authenticate, Attach, Found, Reject, Done, AdminSaveFails, Owns, TypesOK, Idle
  <2> QED BY <1>1, <2>1
<1>7. ASSUME NEW r \in Requests, CreateUser(r)
      PROVE  IdsOK'
  <2>1. req[r].name \in Usernames /\ "USER" \in Roles
    BY <1>7 DEF CreateUser, TypesOK, Idle, Lookups, Created, Acting, Loaded, Roles
  <2>2. CASE Free(req[r].name)
    <3>1. [id |-> lastId + 1, role |-> "USER"] \in Copies /\ 0 \in 0..Latency
      BY <1>7, <2>1, <2>2, CreateTyped DEF CreateUser, ConstantsOK
    <3>2. req' \in {[req EXCEPT ![r] = q] : q \in {Idle} \cup Created}
      BY <1>7, <2>1, <2>2, <3>1 DEF CreateUser, Created
    <3> QED BY <1>2, <1>7, <2>1, <2>2, <3>2 DEF CreateUser
  <2>3. CASE ~Free(req[r].name)
    <3>1. Kept
      BY <1>7, <2>3 DEF CreateUser, Owns, TypesOK, Idle
    <3> QED BY <1>1, <3>1
  <2> QED BY <2>2, <2>3
<1>8. ASSUME NEW r \in Requests, NEW n \in Usernames, NEW role \in Roles, AdminCreates(r, n, role)
      PROVE  IdsOK'
  <2>1. req' \in {[req EXCEPT ![r] = q] : q \in {Idle} \cup Created}
    BY <1>8 DEF AdminCreates
  <2> QED BY <1>2, <1>8, <2>1 DEF AdminCreates
<1>9. CASE Restart
  <2>1. Kept
    BY <1>9 DEF Restart, Owns, Idle
  <2> QED BY <1>1, <2>1
<1>10. CASE Tick
  <2>1. Kept
    BY <1>10 DEF Tick, Owns, TypesOK, Waiting
  <2> QED BY <1>1, <2>1
<1>11. CASE UNCHANGED vars
  <2>1. Kept
    BY <1>11 DEF vars, Owns
  <2> QED BY <1>1, <2>1
<1> HIDE DEF IdsOK
<1> QED BY <1>3, <1>4, <1>5, <1>6, <1>7, <1>8, <1>9, <1>10, <1>11 DEF Next, Operation

(* Accounts are created, deleted and inserted again with the settings that belong to
   them, by any number of requests. *)
THEOREM SettingsBelong == ASSUME ConstantsOK PROVE Spec => []SettingsComplete
<1>1. IdsOK => SettingsComplete
  BY DEF IdsOK
<1> QED BY <1>1, IdsInit, IdsStep, TypesInit, TypesStep, PTL DEF Spec

(* An account is only created for a name without one. *)
LEMMA CreateKeeps ==
  ASSUME TypesOK, NEW n \in Usernames, account[n] # None,
         NEW m, NEW role, Free(m), Create(m, role)
  PROVE  account'[n] = account[n]
BY DEF TypesOK, Free, Create

(* A step does not exchange an account for another. *)
LEMMA AccountsKept == ASSUME TypesOK, [Next]_vars PROVE KeepsId
<1> SUFFICES ASSUME NEW n \in Usernames, account[n] # None, account'[n] # None
             PROVE  account'[n].id = account[n].id
  BY DEF KeepsId
<1> USE DEF TypesOK
<1>1. ASSUME NEW r \in Requests, AdminSaves(r)
      PROVE  account'[n].id = account[n].id
  BY <1>1 DEF AdminSaves
<1>2. ASSUME NEW r \in Requests, CreateUser(r)
      PROVE  account'[n].id = account[n].id
  <2>1. CASE Free(req[r].name)
    <3>1. Create(req[r].name, "USER")
      BY <1>2, <2>1 DEF CreateUser
    <3> HIDE DEF TypesOK
    <3> QED BY <2>1, <3>1, CreateKeeps
  <2>2. CASE ~Free(req[r].name)
    BY <1>2, <2>2 DEF CreateUser
  <2> QED BY <2>1, <2>2
<1>3. ASSUME NEW r \in Requests, NEW m \in Usernames, NEW role \in Roles,
             AdminCreates(r, m, role)
      PROVE  account'[n].id = account[n].id
  <2>1. Free(m) /\ Create(m, role)
    BY <1>3 DEF AdminCreates
  <2> HIDE DEF TypesOK
  <2> QED BY <2>1, CreateKeeps
<1>4. ASSUME NEW r \in Requests, NEW m \in Usernames, AdminDeletes(r, m)
      PROVE  account'[n].id = account[n].id
  BY <1>4 DEF AdminDeletes
<1>5. CASE UNCHANGED account
  BY <1>5
<1>6. ASSUME NEW r \in Requests,
             \/ \E m \in Usernames, strategy \in {"jwt", "test"} : Authenticate(r, m, strategy)
             \/ \E m \in Usernames, role \in Roles : AdminLoads(r, m, role)
             \/ Found(r) \/ Reject(r) \/ Done(r) \/ AdminSaveFails(r)
      PROVE  UNCHANGED account
  BY <1>6 DEF Authenticate, AdminLoads, Found, Reject, Done, AdminSaveFails
<1>7. Restart \/ Tick \/ UNCHANGED vars => UNCHANGED account
  BY DEF Restart, Tick, vars
<1> HIDE DEF TypesOK
<1> QED BY <1>1, <1>2, <1>3, <1>4, <1>5, <1>6, <1>7 DEF Next, Operation

(* However many first requests of a user are served at once, he has one account: a step
   may create or delete an account, but not exchange it for another. *)
THEOREM AccountsStay == ASSUME ConstantsOK PROVE Spec => OneAccount
BY AccountsKept, TypesInit, TypesStep, PTL DEF Spec, OneAccount
==================================================================================
