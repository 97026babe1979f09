------------------------- MODULE AssignmentRegistration -------------------------
(****************************************************************************)
(* The registrations of one assignment                                      *)
(* (course/services/assignment-registration.service.ts), and the updates    *)
(* that start the assignment and thereby register the course's groups.      *)
(*                                                                          *)
(* The course's groups change meanwhile as GroupRoster allows, which is     *)
(* what GroupMembership implements.  Registrations refer to groups and      *)
(* participants by foreign keys that cascade.                               *)
(*                                                                          *)
(* A start saves the state first, then checks whether there are             *)
(* registrations, reads the groups, merges the small ones if the course     *)
(* wants that, and inserts all registrations in one transaction.  Each of   *)
(* these steps is awaited; another start, staff or a student may come in    *)
(* between, and nothing is rolled back when a step fails.                   *)
(****************************************************************************)
EXTENDS MergeContract

CONSTANTS
  InitialGroups,  \* the groups that exist at the start
  Calls,          \* slots for calls that are being served at the same time
  Wanted,         \* the states that staff and the scheduler may set
  MayHappen,      \* what else may happen: staff may "edit" single registrations or
                  \* "remove" all or the assignment, the process may "exit"
  None            \* null or undefined

VARIABLES
  open,           \* table groups: the groups that exist
  seat,           \* table user_group_relations: the groups of each participant
  usedIds,        \* ids that have been given to some group
  enrolled,       \* table participants
  state,          \* the assignment's state, or None when there is no assignment
  registered,     \* table assignment_registration: the registered groups
  relations,      \* table group_registration_relation: pairs
                  \* <<participant, group>>
  call,           \* what each call is doing
  merge,          \* groupSettings.mergeGroupsOnAssignmentStarted
  edited,         \* history: staff has registered or unregistered single groups or
                  \* participants
  revived         \* history: the groups that were deleted and have come back

vars == <<open, seat, usedIds, enrolled, state, registered, relations, call,
          merge, edited, revived>>

roster == <<open, seat, usedIds, enrolled, revived>>

--------------------------------------------------------------------------------

States == {"INVISIBLE", "CLOSED", "IN_PROGRESS", "IN_REVIEW", "EVALUATED"}

(* Some groups and the members each of them shall be registered with. *)
Snapshot == UNION {[G -> SUBSET Participants] : G \in SUBSET GroupIds}

(* The awaits at which a call can be suspended: updateAssignment is about to save,
   to check for registrations, to read the groups, to merge them or to insert;
   registerGroup is about to insert. *)
Stages == {"idle", "save", "check", "read", "merge", "insert", "insertGroup"}

Call == [at : Stages, old : States \cup {None}, new : States \cup {None},
         groups : Snapshot \cup {None}]

Idle == [at |-> "idle", old |-> None, new |-> None, groups |-> None]

Suspended(stage) == [at |-> stage, old |-> None, new |-> None, groups |-> None]

Holding(stage, groups) ==
  [at |-> stage, old |-> None, new |-> None, groups |-> groups]

ASSUME ConstantsOK ==
  /\ InitialGroups \subseteq GroupIds
  /\ IsFiniteSet(Participants)
  /\ SizeMin \in Nat
  /\ Wanted \subseteq States
  /\ None \notin States /\ None \notin Snapshot

--------------------------------------------------------------------------------
(* Queries *)

Members(g) == {p \in Participants : g \in seat[p]}

(* getGroupsOfCourse: all groups, also empty ones, with their members. *)
CurrentGroups == [g \in open |-> Members(g)]

IsRegistered(p) == \E e \in relations : e[1] = p

(* Mutant of Insertable: the index IDX_ASSIGNMENT_GROUP is missing. *)
Insertable_NoGroupIndex(groups) ==
  /\ state # None
  /\ DOMAIN groups \subseteq open
  /\ \A g \in DOMAIN groups : groups[g] \subseteq enrolled
  /\ \A g \in DOMAIN groups : \A p \in groups[g] : ~IsRegistered(p)
  /\ \A g, h \in DOMAIN groups : g # h => groups[g] \cap groups[h] = {}

(* What the foreign keys and the unique indexes on (assignment, group) and
   (assignment, participant) demand of an insert. *)
Insertable(groups) ==
  /\ state # None
  /\ DOMAIN groups \subseteq open \ registered
  /\ \A g \in DOMAIN groups : groups[g] \subseteq enrolled
  /\ \A g \in DOMAIN groups : \A p \in groups[g] : ~IsRegistered(p)
  /\ \A g, h \in DOMAIN groups : g # h => groups[g] \cap groups[h] = {}

Pairs(groups) ==
  {e \in Participants \X GroupIds : e[2] \in DOMAIN groups /\ e[1] \in groups[e[2]]}

--------------------------------------------------------------------------------
(* updateAssignment *)

Goto(s, next) == call' = [call EXCEPT ![s] = next]

(* AssignmentGuard or the scheduler has read the assignment. *)
RequestUpdate(s, new) ==
  /\ call[s] = Idle /\ state # None
  /\ Goto(s, [at |-> "save", old |-> state, new |-> new, groups |-> None])
  /\ UNCHANGED <<roster, state, registered, relations, merge, edited>>

(* The repository saves the state.  If the assignment has been deleted, that fails
   or, when it was read before, inserts it again. *)
SaveState(s) ==
  LET c == call[s]
      wasStarted == c.new = "IN_PROGRESS" /\ c.old # "IN_PROGRESS"
  IN  /\ c.at = "save"
      /\ \/ /\ state' = c.new
            /\ Goto(s, IF wasStarted THEN Suspended("check") ELSE Idle)
         \/ /\ state = None
            /\ Goto(s, Idle)
            /\ UNCHANGED state
      /\ UNCHANGED <<roster, registered, relations, merge, edited>>

(* Mutant of CheckFirstStart: the groups are not read before they are inserted. *)
CheckFirstStart_NoRead(s) ==
  /\ call[s].at = "check"
  /\ Goto(s, IF registered = {} THEN Suspended("insert") ELSE Idle)
  /\ UNCHANGED <<roster, state, registered, relations, merge, edited>>

(* hasRegistrations *)
CheckFirstStart(s) ==
  /\ call[s].at = "check"
  /\ Goto(s, IF registered = {} THEN Suspended("read") ELSE Idle)
  /\ UNCHANGED <<roster, state, registered, relations, merge, edited>>

(* registerGroupsForAssignment, which staff may also call directly. *)
RequestRegisterAll(s) ==
  /\ call[s] = Idle /\ state # None
  /\ Goto(s, Suspended("read"))
  /\ UNCHANGED <<roster, state, registered, relations, merge, edited>>

ReadGroups(s) ==
  /\ call[s].at = "read"
  /\ Goto(s, Holding(IF merge THEN "merge" ELSE "insert", CurrentGroups))
  /\ UNCHANGED <<roster, state, registered, relations, merge, edited>>

(* The participants are read again to find their ids; a member who is no longer
   among them makes the call fail. *)
MergeGroups(s) ==
  LET groups == call[s].groups
  IN  /\ call[s].at = "merge"
      /\ \/ \E f \in MergeResults(groups) :
              /\ \A g \in DOMAIN f : f[g] \subseteq enrolled
              /\ Goto(s, Holding("insert", f))
         \/ /\ \E g \in DOMAIN groups : ~(groups[g] \subseteq enrolled)
            /\ Goto(s, Idle)
      /\ UNCHANGED <<roster, state, registered, relations, merge, edited>>

Register(groups) ==
  /\ registered' = registered \cup DOMAIN groups
  /\ relations' = relations \cup Pairs(groups)

(* createRegistrations: one transaction.  If it fails the call ends with an error;
   the state remains saved. *)
CreateRegistrations(s) ==
  /\ call[s].at = "insert"
  /\ IF Insertable(call[s].groups)
     THEN Register(call[s].groups)
     ELSE UNCHANGED <<registered, relations>>
  /\ Goto(s, Idle)
  /\ UNCHANGED <<roster, state, merge, edited>>

--------------------------------------------------------------------------------
(* Registering and unregistering one by one.  Where a handler checks before it
   writes, the unique indexes repeat the check: a stale one only ends the call, so
   the check and the write are one step. *)

(* registerGroup reads the members first. *)
RequestRegisterGroup(s, g) ==
  /\ "edit" \in MayHappen
  /\ call[s] = Idle /\ state # None /\ g \in open
  /\ Goto(s, Holding("insertGroup", [h \in {g} |-> Members(h)]))
  /\ edited' = TRUE
  /\ UNCHANGED <<roster, state, registered, relations, merge>>

(* createGroupRegistration also ends quietly on any error but a unique violation. *)
CreateGroupRegistration(s) ==
  /\ call[s].at = "insertGroup"
  /\ IF Insertable(call[s].groups)
     THEN Register(call[s].groups)
     ELSE UNCHANGED <<registered, relations>>
  /\ Goto(s, Idle)
  /\ UNCHANGED <<roster, state, merge, edited>>

(* registerUserToGroup: registers the group as well, unless it is registered. *)
RegisterUser(p, g) ==
  /\ "edit" \in MayHappen
  /\ state # None /\ p \in enrolled /\ g \in open
  /\ ~IsRegistered(p)
  /\ registered' = registered \cup {g}
  /\ relations' = relations \cup {<<p, g>>}
  /\ edited' = TRUE
  /\ UNCHANGED <<roster, state, call, merge>>

(* unregisterUser leaves the registration of the group in place. *)
UnregisterUser(p) ==
  /\ "edit" \in MayHappen
  /\ IsRegistered(p)
  /\ relations' = {e \in relations : e[1] # p}
  /\ edited' = TRUE
  /\ UNCHANGED <<roster, state, registered, call, merge>>

UnregisterGroup(g) ==
  /\ "edit" \in MayHappen
  /\ g \in registered
  /\ registered' = registered \ {g}
  /\ relations' = {e \in relations : e[2] # g}
  /\ edited' = TRUE
  /\ UNCHANGED <<roster, state, call, merge>>

RemoveAllRegistrations ==
  /\ "remove" \in MayHappen
  /\ state # None
  /\ registered' = {} /\ relations' = {}
  /\ UNCHANGED <<roster, state, call, merge, edited>>

--------------------------------------------------------------------------------
(* What happens around the registrations *)

Course == INSTANCE GroupRoster

(* Mutant of ChangeRoster: the registrations of a deleted group stay. *)
ChangeRoster_NoCascade ==
  /\ Course!Next
  /\ \A p \in Participants \ enrolled : seat'[p] = {}
  /\ usedIds' = usedIds \cup open'
  /\ revived' = revived \cup ((open' \ open) \cap usedIds)
  /\ UNCHANGED <<enrolled, state, registered, relations, call, merge, edited>>

(* Groups are created, joined, left and deleted, and a deleted one comes back under
   its id when a save that has loaded it before inserts it again.  The registrations
   of a deleted group cascade. *)
ChangeRoster ==
  /\ Course!Next
  /\ \A p \in Participants \ enrolled : seat'[p] = {}
  /\ usedIds' = usedIds \cup open'
  /\ revived' = revived \cup ((open' \ open) \cap usedIds)
  /\ registered' = registered \cap open'
  /\ relations' = {e \in relations : e[2] \in open'}
  /\ UNCHANGED <<enrolled, state, call, merge, edited>>

RemoveParticipant(p) ==
  /\ p \in enrolled
  /\ enrolled' = enrolled \ {p}
  /\ seat' = [seat EXCEPT ![p] = {}]
  /\ relations' = {e \in relations : e[1] # p}
  /\ UNCHANGED <<open, usedIds, revived, state, registered, call, merge, edited>>

DeleteAssignment ==
  /\ "remove" \in MayHappen
  /\ state # None
  /\ state' = None
  /\ registered' = {} /\ relations' = {}
  /\ UNCHANGED <<roster, call, merge, edited>>

(* The process ends and is started again: calls are gone, the tables stay. *)
Exit ==
  /\ "exit" \in MayHappen
  /\ call' = [s \in Calls |-> Idle]
  /\ UNCHANGED <<roster, state, registered, relations, merge, edited>>

--------------------------------------------------------------------------------

(* The assignment has just been created; createAssignment registers the groups
   of one that is IN_PROGRESS from the beginning, without a check. *)
Init ==
  /\ open = InitialGroups
  /\ usedIds = InitialGroups
  /\ enrolled = Participants
  /\ seat \in [Participants -> {{}} \cup {{g} : g \in InitialGroups}]
  /\ registered = {} /\ relations = {}
  /\ merge \in BOOLEAN
  /\ edited = FALSE
  /\ revived = {}
  /\ \/ /\ state = "INVISIBLE"
        /\ call = [s \in Calls |-> Idle]
     \/ /\ state = "IN_PROGRESS"
        /\ \E s \in Calls :
             call = [t \in Calls |-> IF t = s THEN Suspended("read") ELSE Idle]

Arrive(s) ==
  \/ \E new \in Wanted : RequestUpdate(s, new)
  \/ RequestRegisterAll(s)
  \/ \E g \in GroupIds : RequestRegisterGroup(s, g)

Proceed(s) ==
  \/ SaveState(s)
  \/ CheckFirstStart(s)
  \/ ReadGroups(s)
  \/ MergeGroups(s)
  \/ CreateRegistrations(s)
  \/ CreateGroupRegistration(s)

EditRegistrations ==
  \/ \E p \in Participants, g \in GroupIds : RegisterUser(p, g)
  \/ \E p \in Participants : UnregisterUser(p)
  \/ \E g \in GroupIds : UnregisterGroup(g)
  \/ RemoveAllRegistrations

Next ==
  \/ \E s \in Calls : Arrive(s) \/ Proceed(s)
  \/ EditRegistrations
  \/ ChangeRoster
  \/ \E p \in Participants : RemoveParticipant(p)
  \/ DeleteAssignment
  \/ Exit

Spec == Init /\ [][Next]_vars

--------------------------------------------------------------------------------
(* Properties *)

(* Every variable has its type, and a suspended call holds what its next step
   reads. *)
CallOK(c) ==
  /\ c.at = "save" => c.new \in States
  /\ c.at \in {"merge", "insert", "insertGroup"} => c.groups \in Snapshot

TypeOK ==
  /\ open \subseteq GroupIds
  /\ seat \in [Participants -> SUBSET GroupIds]
  /\ usedIds \subseteq GroupIds
  /\ enrolled \subseteq Participants
  /\ state \in States \cup {None}
  /\ registered \subseteq GroupIds
  /\ relations \subseteq Participants \X GroupIds
  /\ call \in [Calls -> Call]
  /\ \A s \in Calls : CallOK(call[s])
  /\ merge \in BOOLEAN
  /\ edited \in BOOLEAN
  /\ revived \subseteq GroupIds

(* Whatever starts, edits and changes of the groups interleave, a student is
   registered with at most one group, and every registration belongs to an existing
   group and assignment, every registered student to a registered group and to the
   course. *)
RegistrationIntegrity ==
  /\ \A e \in relations : e[1] \in enrolled /\ e[2] \in registered
  /\ \A e, f \in relations : e[1] = f[1] => e = f
  /\ registered \subseteq open
  /\ registered # {} => state # None
  /\ open \subseteq usedIds

(* Two starts (or a start and registerAll) may both find no registrations, yet
   only one of them registers the groups: as long as staff edits no registrations
   one by one and groups are not merged, a start adds no group to one that another
   start has registered, unless one of these two groups had been deleted and was
   inserted again by a save that was still pending.  hasRegistrations does not ensure
   this; that every start reads all groups and the index on (assignment, group) do. *)
StartsRegisterOnce ==
  [][~merge /\ ~edited' =>
       \A g \in registered' \ registered, h \in registered :
         g \in revived \/ h \in revived]_vars

================================================================================
