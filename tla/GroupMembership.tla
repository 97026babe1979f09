---------------------------- MODULE GroupMembership ----------------------------
(****************************************************************************)
(* The groups of one course and the requests that change them               *)
(* (course/services/group.service.ts and what it calls).                    *)
(*                                                                          *)
(* A request of the REST API first runs its guards, which load participants *)
(* and groups, then the checks of the service on those snapshots; each      *)
(* database write that follows is awaited on its own, without a             *)
(* transaction around the whole.  So a request is modelled as one step that *)
(* passes every guard and check (Accept...), and one step for each awaited  *)
(* read or write after it.  Between any two steps any other request, event  *)
(* handler or process exit may come.  A request that is refused changes     *)
(* nothing and is not modelled.                                             *)
(*                                                                          *)
(* Database tables are functions and sets; what PostgreSQL enforces on a    *)
(* write (unique indexes, foreign keys, cascades) is part of the write.     *)
(****************************************************************************)
EXTENDS Naturals, FiniteSets

CONSTANTS
  Participants,   \* users enrolled in the course at the start
  Students,       \* those of them with the role STUDENT; the others are staff
  GroupIds,       \* uuids of groups
  Names,          \* group names, numbered in the order of the name schema
  Passwords,      \* group passwords
  Updates,        \* the GroupUpdateDtos that may be sent
  Settings,       \* the GroupSettings the course may have
  Requests,       \* slots for requests being served at the same time
  MaxHandlers,    \* bound: event handler runs in progress at the same time
  None,           \* null or undefined
  Clear           \* the empty string, which removes a password

VARIABLES
  enrolled,       \* table participants: who still is in the course
  groups,         \* table groups: id -> row, or None
  relations,      \* table user_group_relations: pairs <<participant, group>>
  history,        \* table group_event: pairs whose joining has been recorded
  settings,       \* the course's GroupSettings
  req,            \* what each request slot is doing
  joinedEvents,   \* UserJoinedGroupEvents whose handler has not inserted yet
  closers,        \* runs of CloseEmptyGroupsHandler in progress
  usedIds,        \* ids that have been given to some group
  staffAdded,     \* groups that staff has added someone to (for properties)
  exited          \* the server process has exited at least once (for properties)

vars == <<enrolled, groups, relations, history, settings, req, joinedEvents,
          closers, usedIds, staffAdded, exited>>

--------------------------------------------------------------------------------
(* Rows, dtos and the state of a request *)

Row == [name : Names, password : Passwords \cup {None}, closed : BOOLEAN]

UpdateDto == [name     : Names \cup {None},
              password : Passwords \cup {None, Clear},
              closed   : BOOLEAN \cup {None}]

GroupSettings == [allowGroups : BOOLEAN, selfmanaged : BOOLEAN,
                  nameSchema : BOOLEAN, sizeMin : Nat, sizeMax : Nat]

(* The awaits at which a request can be suspended. *)
Stages == {"idle", "insertGroup", "addUser", "userAdded", "loadGroup",
           "saveGroup", "removeUser", "userRemoved", "deleteGroup"}

Request == [at : Stages, who : Participants \cup {None},
            gid : GroupIds \cup {None}, row : Row \cup {None},
            dto : Updates \cup {None}]

Idle == [at |-> "idle", who |-> None, gid |-> None, row |-> None, dto |-> None]

At(stage, p, g) == [at |-> stage, who |-> p, gid |-> g, row |-> None, dto |-> None]

(* A handler run has read nothing yet ("check"), found the group empty
   ("load"), or holds the row it is about to save ("save"). *)
Closer == [gid : GroupIds, at : {"check", "load", "save"}, row : Row \cup {None}]

Run(g, stage, row) == [gid |-> g, at |-> stage, row |-> row]

ASSUME ConstantsOK ==
  /\ Students \subseteq Participants
  /\ Names \subseteq Nat
  /\ None \notin Participants /\ None \notin GroupIds /\ None \notin Names
  /\ None \notin Passwords /\ Clear \notin Passwords /\ None # Clear
  /\ None \notin BOOLEAN /\ None \notin Row /\ None \notin Updates
  /\ Updates \subseteq UpdateDto
  /\ Settings \subseteq GroupSettings
  /\ IsFiniteSet(Participants) /\ IsFiniteSet(Requests)
  /\ MaxHandlers \in Nat \ {0}

--------------------------------------------------------------------------------
(* Queries *)

Existing == {g \in GroupIds : groups[g] # None}

Members(g) == {p \in Participants : <<p, g>> \in relations}

GroupsOf(p) == {g \in GroupIds : <<p, g>> \in relations}

hasNoGroup(p) == GroupsOf(p) = {}

TakenNames == {groups[g].name : g \in Existing}

isStudent(p) == p \in Students

(* tryFindAvailableName: the first number of the schema that no group has. *)
AvailableNames ==
  {n \in Names \ TakenNames : \A m \in Names \ TakenNames : n <= m}

(* determineName: the schema decides the name, or else the student does. *)
StudentNames == IF settings.nameSchema THEN AvailableNames ELSE Names

(* Mutant of OpenGroups: off by one at the maximum size. *)
OpenGroups_OffByOne ==
  {g \in Existing : /\ ~groups[g].closed
                    /\ groups[g].password = None
                    /\ Cardinality(Members(g)) <= settings.sizeMax}

(* The groups joinOrCreateGroup may choose from: no password, not closed, and
   below the maximum size. *)
OpenGroups ==
  {g \in Existing : /\ ~groups[g].closed
                    /\ groups[g].password = None
                    /\ Cardinality(Members(g)) < settings.sizeMax}

(* The largest group under the minimum size, else the smallest group.  Which of
   several groups of that size is taken depends on their names: any may be. *)
JoinableGroups ==
  LET size(g)  == Cardinality(Members(g))
      tooSmall == {g \in OpenGroups : size(g) < settings.sizeMin}
  IN  IF tooSmall # {}
      THEN {g \in tooSmall : \A h \in tooSmall : size(h) <= size(g)}
      ELSE {g \in OpenGroups : \A h \in OpenGroups : size(g) <= size(h)}

(* The row a student's createGroup inserts: a group that still lacks members is
   created open. *)
NewRow(byStudent, name, password, closed) ==
  [name |-> name, password |-> password,
   closed |-> closed /\ ~(byStudent /\ settings.sizeMin > 1)]

(* Mutant of Updated: a name the dto leaves out is not kept. *)
Updated_NoDefault(row, dto) ==
  [name |-> dto.name, password |-> row.password,
   closed |-> IF dto.closed = None THEN row.closed ELSE dto.closed]

(* GroupRepository.updateGroup: the row as read, with the dto's fields. *)
Updated(row, dto) ==
  [name     |-> IF dto.name = None THEN row.name ELSE dto.name,
   password |-> IF dto.password = Clear THEN None
                ELSE IF dto.password = None THEN row.password ELSE dto.password,
   closed   |-> IF dto.closed = None THEN row.closed ELSE dto.closed]

CloseDto == [name |-> None, password |-> None, closed |-> TRUE]

--------------------------------------------------------------------------------
(* Guards and checks of the models Group, Participant and Course *)

isNotClosed(g) == ~groups[g].closed

hasCapacity(g) == Cardinality(Members(g)) < settings.sizeMax

acceptsPassword(g, password) == groups[g].password \in {None, password}

allowsGroupToClose(g) == settings.sizeMin <= Cardinality(Members(g))

wantsToChangeName(g, dto) == dto.name # None /\ dto.name # groups[g].name

wantsToClose(g, dto) == dto.closed = TRUE /\ isNotClosed(g)

(* GroupMemberGuard: teaching staff, or a member of the group. *)
GroupMember(p, g) == isStudent(p) => p \in Members(g)

--------------------------------------------------------------------------------
(* Creating a group *)

Accept(r, request) ==
  /\ req[r] = Idle
  /\ req' = [req EXCEPT ![r] = request]

tables == <<enrolled, groups, relations, history, settings, usedIds>>

(* createGroup up to its first write; a student's name is determined from the
   groups read here. *)
CreateRequest(by, name, password, closed) ==
  [at  |-> "insertGroup", who |-> IF isStudent(by) THEN by ELSE None,
   gid |-> None, row |-> NewRow(isStudent(by), name, password, closed),
   dto |-> None]

AcceptCreateGroup(r, by, name, password, closed) ==
  /\ by \in enrolled
  /\ settings.allowGroups
  /\ isStudent(by) => hasNoGroup(by) /\ name \in StudentNames
  /\ Accept(r, CreateRequest(by, name, password, closed))
  /\ UNCHANGED <<tables, joinedEvents, closers, staffAdded, exited>>

(* GroupRepository.createGroup.  A name taken in the meantime violates the
   unique index and ends the request. *)
InsertGroup(r) ==
  /\ req[r].at = "insertGroup"
  /\ \/ /\ req[r].row.name \in TakenNames
        /\ req' = [req EXCEPT ![r] = Idle]
        /\ UNCHANGED <<groups, usedIds>>
     \/ /\ req[r].row.name \notin TakenNames
        /\ \E g \in GroupIds \ usedIds :
             /\ groups' = [groups EXCEPT ![g] = req[r].row]
             /\ usedIds' = usedIds \cup {g}
             /\ req' = [req EXCEPT ![r] = IF req[r].who = None THEN Idle
                                          ELSE At("addUser", req[r].who, g)]
  /\ UNCHANGED <<enrolled, relations, history, settings, joinedEvents, closers,
                 staffAdded, exited>>

(* createMultipleGroups: staff insert several open groups in one transaction,
   which fails as a whole when a name is taken. *)
CreateMultipleGroups(by, name) ==
  LET ids == DOMAIN name
  IN  /\ by \in enrolled /\ ~isStudent(by)
      /\ ids # {} /\ ids \cap usedIds = {}
      /\ \A g \in ids : name[g] \notin TakenNames
      /\ \A g, h \in ids : name[g] = name[h] => g = h
      /\ groups' = [g \in GroupIds |->
                      IF g \in ids THEN NewRow(FALSE, name[g], None, FALSE)
                                   ELSE groups[g]]
      /\ usedIds' = usedIds \cup ids
      /\ UNCHANGED <<enrolled, relations, history, settings, req, joinedEvents,
                     closers, staffAdded, exited>>

--------------------------------------------------------------------------------
(* Joining a group *)

(* addUserToGroup: staff may add anyone who has no group to any group; the
   limits bind students only. *)
AcceptAddUser(r, by, sel, g, password) ==
  /\ by \in enrolled /\ sel \in enrolled /\ g \in Existing
  /\ hasNoGroup(sel)
  /\ isStudent(by) => /\ isNotClosed(g)
                      /\ hasCapacity(g)
                      /\ acceptsPassword(g, password)
  /\ Accept(r, At("addUser", sel, g))
  /\ staffAdded' = IF isStudent(by) THEN staffAdded ELSE staffAdded \cup {g}
  /\ UNCHANGED <<tables, joinedEvents, closers, exited>>

(* JoinRandomGroupHandler: picks a group from the list it read, or creates one. *)
AcceptJoinRandom(r, by, name) ==
  /\ by \in enrolled
  /\ settings.allowGroups
  /\ \/ \E g \in JoinableGroups : Accept(r, At("addUser", by, g))
     \/ /\ JoinableGroups = {}
        /\ isStudent(by) => hasNoGroup(by) /\ name \in StudentNames
        /\ Accept(r, CreateRequest(by, name, None, FALSE))
  /\ UNCHANGED <<tables, joinedEvents, closers, staffAdded, exited>>

(* Mutant of ViolatesUnique: the index on participantId is missing. *)
ViolatesUnique_NoIndex(p) == FALSE

(* The index on participantId lets a participant have one row only. *)
ViolatesUnique(p) == ~hasNoGroup(p)

(* GroupRepository.addUserToGroup loads the participant and inserts the row.
   A unique violation ends the request with a conflict.  Any other error of the
   insert is swallowed: when the group (or, after it was loaded, the
   participant) has been removed, the request goes on as if it had been added. *)
AddUser(r) ==
  LET p == req[r].who
      g == req[r].gid
      inserts == p \in enrolled /\ g \in Existing /\ ~ViolatesUnique(p)
  IN  /\ req[r].at = "addUser"
      /\ \/ /\ inserts
            /\ relations' = relations \cup {<<p, g>>}
            /\ req' = [req EXCEPT ![r] = At("userAdded", p, g)]
         \/ /\ ~inserts /\ ~ViolatesUnique(p)
            /\ req' = [req EXCEPT ![r] = At("userAdded", p, g)]
            /\ UNCHANGED relations
         \/ /\ p \notin enrolled \/ ViolatesUnique(p)
            /\ req' = [req EXCEPT ![r] = Idle]
            /\ UNCHANGED relations
      /\ UNCHANGED <<enrolled, groups, history, settings, joinedEvents, closers,
                     usedIds, staffAdded, exited>>

(* The bound MaxHandlers delays the publishing of an event, and with it the
   end of the request, while that many handlers are in progress. *)
HandlerFree == Cardinality(joinedEvents) + Cardinality(closers) < MaxHandlers

(* Mutant of PublishUserJoined: the request ends without its event. *)
PublishUserJoined_Forgotten(r) ==
  /\ req[r].at = "userAdded" /\ HandlerFree
  /\ req' = [req EXCEPT ![r] = Idle]
  /\ UNCHANGED <<tables, joinedEvents, closers, staffAdded, exited>>

PublishUserJoined(r) ==
  /\ req[r].at = "userAdded" /\ HandlerFree
  /\ joinedEvents' = joinedEvents \cup {<<req[r].who, req[r].gid>>}
  /\ req' = [req EXCEPT ![r] = Idle]
  /\ UNCHANGED <<tables, closers, staffAdded, exited>>

(* The process ends: requests being served, published events and handlers in
   progress are gone, the tables stay.  It is started again at once. *)
Exit ==
  /\ req' = [r \in Requests |-> Idle]
  /\ joinedEvents' = {}
  /\ closers' = {}
  /\ exited' = TRUE
  /\ UNCHANGED <<tables, staffAdded>>

(* UserJoinedGroupHandler.  Nobody awaits its insert: when the group is gone, the
   foreign key makes it fail and the unhandled rejection ends the process. *)
HandleUserJoined(e) ==
  /\ e \in joinedEvents
  /\ \/ /\ e[2] \in Existing
        /\ history' = history \cup {e}
        /\ joinedEvents' = joinedEvents \ {e}
        /\ UNCHANGED <<enrolled, groups, relations, settings, req, closers,
                       usedIds, staffAdded, exited>>
     \/ /\ e[2] \notin Existing
        /\ Exit

--------------------------------------------------------------------------------
(* Updating a group *)

AcceptUpdateGroup(r, by, g, dto) ==
  /\ by \in enrolled /\ g \in Existing
  /\ GroupMember(by, g)
  /\ wantsToChangeName(g, dto) => settings.selfmanaged /\ ~settings.nameSchema
  /\ wantsToClose(g, dto) => allowsGroupToClose(g)
  /\ Accept(r, [at |-> "loadGroup", who |-> None, gid |-> g,
                row |-> None, dto |-> dto])
  /\ UNCHANGED <<tables, joinedEvents, closers, staffAdded, exited>>

(* GroupRepository.updateGroup reads the row again ... *)
LoadGroup(r) ==
  LET g == req[r].gid
  IN  /\ req[r].at = "loadGroup"
      /\ req' = [req EXCEPT ![r] =
                   IF g \notin Existing THEN Idle
                   ELSE [at |-> "saveGroup", who |-> None, gid |-> g,
                         row |-> Updated(groups[g], req[r].dto), dto |-> req[r].dto]]
      /\ UNCHANGED <<tables, joinedEvents, closers, staffAdded, exited>>

(* ... and saves it as a whole.  Repository.save inserts a row that is no longer
   there under its old id; a name another group has meanwhile violates the index. *)
SaveRow(g, row) ==
  groups' = IF \E h \in Existing \ {g} : groups[h].name = row.name
            THEN groups
            ELSE [groups EXCEPT ![g] = row]

SaveGroup(r) ==
  /\ req[r].at = "saveGroup"
  /\ SaveRow(req[r].gid, req[r].row)
  /\ req' = [req EXCEPT ![r] = Idle]
  /\ UNCHANGED <<enrolled, relations, history, settings, joinedEvents, closers,
                 usedIds, staffAdded, exited>>

--------------------------------------------------------------------------------
(* Leaving a group, and closing it when nobody is left *)

(* removeUser: students remove nobody but themselves, from their own group. *)
AcceptRemoveUser(r, by, sel, g) ==
  /\ by \in enrolled /\ sel \in enrolled /\ g \in Existing
  /\ isStudent(by) => by \in Members(g) /\ by = sel /\ settings.selfmanaged
  /\ Accept(r, At("removeUser", sel, g))
  /\ UNCHANGED <<tables, joinedEvents, closers, staffAdded, exited>>

RemoveUser(r) ==
  LET pair == <<req[r].who, req[r].gid>>
  IN  /\ req[r].at = "removeUser"
      /\ relations' = relations \ {pair}
      /\ req' = [req EXCEPT ![r] = IF pair \in relations
                                   THEN At("userRemoved", req[r].who, req[r].gid)
                                   ELSE Idle]
      /\ UNCHANGED <<enrolled, groups, history, settings, joinedEvents, closers,
                     usedIds, staffAdded, exited>>

(* UserLeftGroupEvent starts CloseEmptyGroupsHandler.  UserLeftGroupHandler only
   builds its insert and never executes it, so nothing is recorded. *)
PublishUserLeft(r) ==
  /\ req[r].at = "userRemoved" /\ HandlerFree
  /\ closers' = closers \cup {Run(req[r].gid, "check", None)}
  /\ req' = [req EXCEPT ![r] = Idle]
  /\ UNCHANGED <<tables, joinedEvents, staffAdded, exited>>

(* Mutant of CheckEmpty: gives up on the groups it should close. *)
CheckEmpty_Inverted(c) ==
  /\ c \in closers /\ c.at = "check"
  /\ closers' = (closers \ {c}) \cup
                (IF c.gid \in Existing /\ Members(c.gid) # {}
                 THEN {Run(c.gid, "load", None)} ELSE {})
  /\ UNCHANGED <<tables, req, joinedEvents, staffAdded, exited>>

(* CloseEmptyGroupsHandler reads the group with its members; it is done when the
   group is gone or has members. *)
CheckEmpty(c) ==
  /\ c \in closers /\ c.at = "check"
  /\ closers' = (closers \ {c}) \cup
                (IF c.gid \in Existing /\ Members(c.gid) = {}
                 THEN {Run(c.gid, "load", None)} ELSE {})
  /\ UNCHANGED <<tables, req, joinedEvents, staffAdded, exited>>

LoadEmpty(c) ==
  /\ c \in closers /\ c.at = "load"
  /\ closers' = (closers \ {c}) \cup
                (IF c.gid \in Existing
                 THEN {Run(c.gid, "save", Updated(groups[c.gid], CloseDto))}
                 ELSE {})
  /\ UNCHANGED <<tables, req, joinedEvents, staffAdded, exited>>

CloseEmpty(c) ==
  /\ c \in closers /\ c.at = "save"
  /\ SaveRow(c.gid, c.row)
  /\ closers' = closers \ {c}
  /\ UNCHANGED <<enrolled, relations, history, settings, req, joinedEvents,
                 usedIds, staffAdded, exited>>

--------------------------------------------------------------------------------
(* Deleting a group, removing a participant *)

AcceptDeleteGroup(r, by, g) ==
  /\ by \in enrolled /\ g \in Existing
  /\ GroupMember(by, g)
  /\ isStudent(by) => settings.selfmanaged
  /\ Accept(r, At("deleteGroup", None, g))
  /\ UNCHANGED <<tables, joinedEvents, closers, staffAdded, exited>>

(* Mutant of DeleteGroup: the members of a deleted group stay. *)
DeleteGroup_NoCascade(r) ==
  LET g == req[r].gid
  IN  /\ req[r].at = "deleteGroup"
      /\ groups' = [groups EXCEPT ![g] = None]
      /\ history' = {e \in history : e[2] # g}
      /\ req' = [req EXCEPT ![r] = Idle]
      /\ UNCHANGED <<enrolled, relations, settings, joinedEvents, closers, usedIds,
                     staffAdded, exited>>

(* The foreign keys of user_group_relations and group_event cascade. *)
DeleteGroup(r) ==
  LET g == req[r].gid
  IN  /\ req[r].at = "deleteGroup"
      /\ groups' = [groups EXCEPT ![g] = None]
      /\ relations' = {e \in relations : e[2] # g}
      /\ history' = {e \in history : e[2] # g}
      /\ req' = [req EXCEPT ![r] = Idle]
      /\ UNCHANGED <<enrolled, settings, joinedEvents, closers, usedIds,
                     staffAdded, exited>>

(* CourseParticipantsService.removeUser: the relation cascades, and no
   UserLeftGroupEvent is published. *)
RemoveParticipant(p) ==
  /\ p \in enrolled
  /\ enrolled' = enrolled \ {p}
  /\ relations' = {e \in relations : e[1] # p}
  /\ UNCHANGED <<groups, history, settings, req, joinedEvents, closers, usedIds,
                 staffAdded, exited>>

--------------------------------------------------------------------------------

Init ==
  /\ enrolled = Participants
  /\ groups = [g \in GroupIds |-> None]
  /\ relations = {}
  /\ history = {}
  /\ settings \in Settings
  /\ req = [r \in Requests |-> Idle]
  /\ joinedEvents = {}
  /\ closers = {}
  /\ usedIds = {}
  /\ staffAdded = {}
  /\ exited = FALSE

(* A new request passes its guards and checks. *)
Arrive(r) ==
  \E by \in Participants :
    \/ \E name \in Names, password \in Passwords \cup {None}, closed \in BOOLEAN :
         AcceptCreateGroup(r, by, name, password, closed)
    \/ \E sel \in Participants, g \in GroupIds, password \in Passwords \cup {None} :
         AcceptAddUser(r, by, sel, g, password)
    \/ \E name \in Names : AcceptJoinRandom(r, by, name)
    \/ \E g \in GroupIds, dto \in Updates : AcceptUpdateGroup(r, by, g, dto)
    \/ \E sel \in Participants, g \in GroupIds : AcceptRemoveUser(r, by, sel, g)
    \/ \E g \in GroupIds : AcceptDeleteGroup(r, by, g)

(* An accepted request takes its next step. *)
Proceed(r) ==
  \/ InsertGroup(r)
  \/ AddUser(r)
  \/ PublishUserJoined(r)
  \/ LoadGroup(r)
  \/ SaveGroup(r)
  \/ RemoveUser(r)
  \/ PublishUserLeft(r)
  \/ DeleteGroup(r)

Handle(c) == CheckEmpty(c) \/ LoadEmpty(c) \/ CloseEmpty(c)

Next ==
  \/ \E r \in Requests : Arrive(r) \/ Proceed(r)
  \/ \E e \in joinedEvents : HandleUserJoined(e)
  \/ \E c \in closers : Handle(c)
  \/ \E by \in Participants, ids \in SUBSET GroupIds :
       \E name \in [ids -> Names] : CreateMultipleGroups(by, name)
  \/ \E p \in Participants : RemoveParticipant(p)
  \/ Exit

Spec == Init /\ [][Next]_vars

--------------------------------------------------------------------------------
(* Properties *)

(* Every variable has its type, and a suspended request or handler holds what
   its next step reads. *)
RequestOK(q) ==
  /\ q.at \in {"addUser", "userAdded", "removeUser", "userRemoved"} =>
       q.who \in Participants
  /\ q.at \notin {"idle", "insertGroup"} => q.gid \in GroupIds
  /\ q.at \in {"insertGroup", "saveGroup"} => q.row \in Row
  /\ q.at = "loadGroup" => q.dto \in Updates

TypeOK ==
  /\ enrolled \subseteq Participants
  /\ groups \in [GroupIds -> Row \cup {None}]
  /\ relations \subseteq Participants \X GroupIds
  /\ history \subseteq Participants \X GroupIds
  /\ settings \in Settings
  /\ req \in [Requests -> Request]
  /\ \A r \in Requests : RequestOK(req[r])
  /\ joinedEvents \subseteq Participants \X GroupIds
  /\ closers \subseteq Closer
  /\ \A c \in closers : c.at = "save" => c.row \in Row
  /\ usedIds \subseteq GroupIds
  /\ staffAdded \subseteq GroupIds
  /\ exited \in BOOLEAN

(* Whatever requests interleave, no member and no history entry outlives its
   group, no member its participant, nobody is in two groups, and no two groups
   share a name: also when a group is saved, joined or left while another request
   deletes it.  Ids are never reused: an id that a request or a handler still
   holds comes back only as the group it meant. *)
RosterIntegrity ==
  /\ \A e \in relations : e[1] \in enrolled /\ e[2] \in Existing
  /\ \A e, f \in relations : e[1] = f[1] => e = f
  /\ \A g, h \in Existing : groups[g].name = groups[h].name => g = h
  /\ \A e \in history : e[2] \in Existing
  /\ Existing \subseteq usedIds
  /\ \A r \in Requests : req[r].gid \in usedIds \cup {None}
  /\ \A c \in closers : c.gid \in usedIds

(* The requests that have passed their checks and are about to insert a member
   of g. *)
Joining(g) == {r \in Requests : req[r].at = "addUser" /\ req[r].gid = g}

(* hasCapacity is checked on a snapshot, so a group may overshoot sizeMax; but by
   fewer members than requests are served at once, and only staff can go beyond
   that. *)
OvershootBounded ==
  settings.sizeMax > 0 =>
    \A g \in GroupIds \ staffAdded :
      Cardinality(Members(g)) + Cardinality(Joining(g))
        < settings.sizeMax + Cardinality(Requests)

(* As long as the process does not exit, each membership is in the history, or
   the event that will put it there is on its way. *)
JoinRecorded ==
  ~exited =>
    \A e \in relations :
      \/ e \in history \cup joinedEvents
      \/ \E r \in Requests :
           req[r].at = "userAdded" /\ req[r].who = e[1] /\ req[r].gid = e[2]

(* The roster that readers see changes only as GroupRoster allows. *)
Roster == INSTANCE GroupRoster
            WITH open <- Existing,
                 seat <- [p \in Participants |-> GroupsOf(p)]

ImplementsRoster == Roster!Spec

(* The event loop runs every handler that has something to do. *)
FairSpec == Spec /\ \A c \in Closer : WF_vars(Handle(c))

(* The row a handler is about to save has a name that another group has got
   since: this group was renamed after the handler had read it. *)
NameLost(g) ==
  \E c \in closers : /\ c.gid = g /\ c.at = "save"
                     /\ \E h \in Existing \ {g} : groups[h].name = c.row.name

(* CloseEmptyGroupsHandler: a group whose last member left is closed in the end,
   unless somebody joins it, it is deleted or the process exits before that, or
   the handler cannot save the row because the name is no longer free. *)
EmptyGroupsClosed ==
  \A g \in GroupIds :
    (\E c \in closers : c.gid = g)
      ~> \/ g \notin Existing \/ groups[g].closed
         \/ Members(g) # {} \/ NameLost(g) \/ exited

================================================================================
