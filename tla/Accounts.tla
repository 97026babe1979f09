-------------------------------- MODULE Accounts --------------------------------
(****************************************************************************)
(* The accounts of users and how requests get at them: JwtAuthStrategy and  *)
(* TestUserAuthStrategy with their cache (auth/), AuthService, UserService  *)
(* and UserRepository (user/).                                              *)
(*                                                                          *)
(* Every request is authenticated first, by a copy of the account from the  *)
(* cache or from the database; its guards then look at that copy.  Updates  *)
(* and deletions of accounts leave the cache alone.                         *)
(*                                                                          *)
(* setMatrNr is left out: it writes one column of the requester's own row.  *)
(****************************************************************************)
EXTENDS Naturals, FiniteSets

CONSTANTS
  Usernames,      \* names that tokens are issued for
  Initial,        \* the administrators, who have an account when the server starts
  Requests,       \* requests that may be served at the same time
  MaxId,          \* bound: accounts that are ever created
  TTL,            \* stdTTL of the cache
  Latency,        \* an answer of the database takes at most so long
  None            \* undefined

VARIABLES
  account,        \* the row of each username: [id, role]
  settings,       \* ids for which there is a row of user settings
  lastId,         \* the last id that was given away
  cache,          \* for each username its copy in the cache and the time it has left
  req,            \* the requests
  age,            \* how long ago a copy [id, role] was true last (for properties)
  revived         \* ids of accounts that an update has inserted again (for properties)

vars == <<account, settings, lastId, cache, req, age, revived>>

--------------------------------------------------------------------------------

Roles == {"USER", "ADMIN"}

Copies == [id : 1..MaxId, role : Roles]

(* What the constants are assumed to be. *)
ConstantsOK ==
  /\ TTL \in Nat /\ Latency \in Nat /\ MaxId \in Nat
  /\ Initial \subseteq Usernames /\ IsFiniteSet(Initial) /\ Cardinality(Initial) <= MaxId
  /\ None \notin Copies \cup [copy : Copies, left : 0..TTL]

Idle == [at |-> "idle"]

Existing == {n \in Usernames : account[n] # None}

Waiting(r) == req[r].at \in {"lookup", "created"}

--------------------------------------------------------------------------------
(* Authentication *)

(* request.user: of the copy the guards of the routes on accounts look at the role. *)
Attach(r, copy) == req' = [req EXCEPT ![r] = [at |-> "acting", role |-> copy.role]]

(* Mutant of Get: every use of an entry starts its time again. *)
Get_Renews(n) == cache' = [cache EXCEPT ![n].left = TTL]

(* get of node-cache: reading an entry leaves its time alone. *)
Get(n) == UNCHANGED cache

(* A name that is in the cache, or the query for its account. *)
Authenticate(r, n, strategy) ==
  /\ req[r].at = "idle"
  /\ IF cache[n] # None
     THEN Get(n) /\ Attach(r, cache[n].copy)
     ELSE /\ req' = [req EXCEPT ![r] =
                       [at |-> "lookup", name |-> n, found |-> account[n], waited |-> 0,
                        strategy |-> IF account[n] = None THEN strategy ELSE None]]
          /\ UNCHANGED cache
  /\ UNCHANGED <<account, settings, lastId, revived>>

Remember(n, copy) == cache' = [cache EXCEPT ![n] = [copy |-> copy, left |-> TTL]]

(* The answer of the query, or of createUser. *)
Found(r) ==
  /\ Waiting(r) /\ req[r].found # None
  /\ Remember(req[r].name, req[r].found)
  /\ Attach(r, req[r].found)
  /\ UNCHANGED <<account, settings, lastId, revived>>

(* A name that is no test user's. *)
Reject(r) ==
  /\ req[r].at = "lookup" /\ req[r].found = None /\ req[r].strategy = "test"
  /\ req' = [req EXCEPT ![r] = Idle]
  /\ UNCHANGED <<account, settings, lastId, cache, revived>>

(* Mutant of Free: the username is not unique. *)
Free_NoIndex(n) == TRUE

(* The unique column username. *)
Free(n) == account[n] = None

(* createUser of the repository: one transaction for the account and its settings. *)
Create(n, role) ==
  /\ lastId < MaxId
  /\ lastId' = lastId + 1
  /\ account' = [account EXCEPT ![n] = [id |-> lastId + 1, role |-> role]]
  /\ settings' = settings \cup {lastId + 1}

(* A new user, whose roles in the token do not count. *)
CreateUser(r) ==
  LET n == req[r].name
  IN  /\ req[r].at = "lookup" /\ req[r].found = None /\ req[r].strategy = "jwt"
      /\ IF Free(n)
         THEN /\ Create(n, "USER")
              /\ req' = [req EXCEPT ![r] = [at |-> "created", name |-> n, waited |-> 0,
                                            found |-> [id |-> lastId + 1, role |-> "USER"]]]
         ELSE /\ req' = [req EXCEPT ![r] = Idle]
              /\ UNCHANGED <<account, settings, lastId>>
      /\ UNCHANGED <<cache, revived>>

--------------------------------------------------------------------------------
(* What a request does with its account.  The routes that write accounts need an
   administrator (RoleGuard, which looks at the copy). *)

Done(r) ==
  /\ req[r].at = "acting"
  /\ req' = [req EXCEPT ![r] = Idle]
  /\ UNCHANGED <<account, settings, lastId, cache, revived>>

IsAdmin(r) == req[r].at = "acting" /\ req[r].role = "ADMIN"

AdminCreates(r, n, role) ==
  /\ IsAdmin(r)
  /\ Free(n) /\ Create(n, role)
  /\ req' = [req EXCEPT ![r] = Idle]
  /\ UNCHANGED <<cache, revived>>

(* updateUser reads the row, with the courses of the user. *)
AdminLoads(r, n, role) ==
  /\ IsAdmin(r)
  /\ account[n] # None
  /\ req' = [req EXCEPT ![r] = [at |-> "loaded", name |-> n, id |-> account[n].id,
                                role |-> role]]
  /\ UNCHANGED <<account, settings, lastId, cache, revived>>

(* save: an account that is gone is inserted again under its old id, without settings,
   unless the name is taken. *)
AdminSaves(r) ==
  LET n == req[r].name
      i == req[r].id
  IN  /\ req[r].at = "loaded"
      /\ account[n] # None => account[n].id = i
      /\ account' = [account EXCEPT ![n] = [id |-> i, role |-> req[r].role]]
      /\ revived' = IF account[n] = None THEN revived \cup {i} ELSE revived
      /\ req' = [req EXCEPT ![r] = Idle]
      /\ UNCHANGED <<settings, lastId, cache>>

(* The name is taken, the display name of an account to insert is missing, or the user
   has joined a course since the row was read (the save would take the course away
   from the participation). *)
AdminSaveFails(r) ==
  /\ req[r].at = "loaded"
  /\ req' = [req EXCEPT ![r] = Idle]
  /\ UNCHANGED <<account, settings, lastId, cache, revived>>

(* Mutant of AdminDeletes: the settings stay. *)
AdminDeletes_NoCascade(r, n) ==
  /\ IsAdmin(r)
  /\ account[n] # None
  /\ account' = [account EXCEPT ![n] = None]
  /\ revived' = revived \ {account[n].id}
  /\ req' = [req EXCEPT ![r] = Idle]
  /\ UNCHANGED <<settings, lastId, cache>>

(* The settings are deleted with the account. *)
AdminDeletes(r, n) ==
  /\ IsAdmin(r)
  /\ account[n] # None
  /\ account' = [account EXCEPT ![n] = None]
  /\ settings' = settings \ {account[n].id}
  /\ revived' = revived \ {account[n].id}
  /\ req' = [req EXCEPT ![r] = Idle]
  /\ UNCHANGED <<lastId, cache>>

(* The process exits and starts again. *)
Restart ==
  /\ cache' = [n \in Usernames |-> None]
  /\ req' = [r \in Requests |-> Idle]
  /\ UNCHANGED <<account, settings, lastId, revived>>

--------------------------------------------------------------------------------
(* Time *)

(* An entry without time left is gone; no answer of the database takes longer than
   Latency. *)
Tick ==
  /\ \A r \in Requests : Waiting(r) => req[r].waited < Latency
  /\ req' = [r \in Requests |-> IF Waiting(r) THEN [req[r] EXCEPT !.waited = @ + 1] ELSE req[r]]
  /\ cache' = [n \in Usernames |->
                 IF cache[n] = None THEN None
                 ELSE IF cache[n].left = 0 THEN None ELSE [cache[n] EXCEPT !.left = @ - 1]]
  /\ UNCHANGED <<account, settings, lastId, revived>>

(* The copies somebody may still attach to a request. *)
Held == {cache[n].copy : n \in {m \in Usernames : cache[m] # None}}
          \cup {req[r].found : r \in {q \in Requests : Waiting(q)}}

(* Copies that are true, or that nobody holds, have no age. *)
SetAge(ticks) ==
  age' = [c \in Copies |->
            IF c \in {account'[n] : n \in Usernames} \/ c \notin Held' THEN 0
            ELSE age[c] + ticks]

Init ==
  /\ \E ids \in [Initial -> 1..Cardinality(Initial)] :
       /\ \A a, b \in Initial : ids[a] = ids[b] => a = b
       /\ account = [n \in Usernames |->
                       IF n \in Initial THEN [id |-> ids[n], role |-> "ADMIN"] ELSE None]
  /\ lastId = Cardinality(Initial)
  /\ settings = 1..Cardinality(Initial)
  /\ cache = [n \in Usernames |-> None]
  /\ req = [r \in Requests |-> Idle]
  /\ age = [c \in Copies |-> 0]
  /\ revived = {}

Operation ==
  \/ \E r \in Requests :
       \/ \E n \in Usernames, strategy \in {"jwt", "test"} : Authenticate(r, n, strategy)
       \/ Found(r) \/ Reject(r) \/ CreateUser(r) \/ Done(r)
       \/ \E n \in Usernames, role \in Roles : AdminCreates(r, n, role)
       \/ \E n \in Usernames, role \in Roles : AdminLoads(r, n, role)
       \/ AdminSaves(r) \/ AdminSaveFails(r)
       \/ \E n \in Usernames : AdminDeletes(r, n)
  \/ Restart

Next == (Operation /\ SetAge(0)) \/ (Tick /\ SetAge(1))

Spec == Init /\ [][Next]_vars

--------------------------------------------------------------------------------
(* Properties *)

(* No request is let in with an identity and a role that ceased to be those of an
   account longer ago than the cache's hour and one answer of the database, whatever is
   cached, deleted, created again or updated meanwhile. *)
BoundedStaleness == \A c \in Copies : age[c] <= TTL + Latency

(* Accounts and settings belong together: settings exist only for accounts, and an
   account is without settings only if an update has inserted it again after it was
   deleted. *)
SettingsComplete ==
  LET ids == {account[n].id : n \in Existing}
  IN  settings \subseteq ids /\ ids \ settings \subseteq revived

(* First requests of one user that are served at the same time create one account:
   the account of a name never changes its id while it exists. *)
KeepsId ==
  \A n \in Usernames :
    account[n] # None /\ account'[n] # None => account'[n].id = account[n].id

OneAccount == [][KeepsId]_vars
================================================================================
