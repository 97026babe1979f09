------------------------ MODULE GroupMembershipProofs ------------------------
(****************************************************************************)
(* Theorems about GroupMembership, for every number of participants,        *)
(* groups, names and simultaneous requests.                                 *)
(****************************************************************************)
EXTENDS GroupMembership, FiniteSetTheorems, TLAPS

--------------------------------------------------------------------------------
(* Types of the values that steps put into the tables and into req *)

(* A row read from the table and merged with an UpdateDto is a row again: a dto
   cannot make a name or a flag undefined, and clears the password at most. *)
LEMMA UpdatedIsRow ==
  ASSUME NEW row \in Row, NEW dto \in UpdateDto
  PROVE  Updated(row, dto) \in Row
BY ConstantsOK DEF Updated, Row, UpdateDto

(* The dto of CloseEmptyGroupsHandler is one. *)
LEMMA CloseDtoIsUpdateDto == CloseDto \in UpdateDto
BY DEF CloseDto, UpdateDto

(* What createGroup inserts is a row, whoever creates it. *)
LEMMA NewRowIsRow ==
  ASSUME NEW b \in BOOLEAN, NEW name \in Names,
         NEW password \in Passwords \cup {None}, NEW closed \in BOOLEAN
  PROVE  NewRow(b, name, password, closed) \in Row
BY DEF NewRow, Row

(* A request slot set by At(...) is a request. *)
LEMMA AtIsRequest ==
  ASSUME NEW stage \in Stages, NEW p \in Participants \cup {None},
         NEW g \in GroupIds \cup {None}
  PROVE  /\ At(stage, p, g) \in Request
         /\ At(stage, p, g).at = stage
         /\ At(stage, p, g).who = p
         /\ At(stage, p, g).gid = g
BY DEF At, Idle, Request

LEMMA IdleIsRequest == Idle \in Request /\ Idle.at = "idle" /\ RequestOK(Idle)
BY DEF Idle, Request, Stages, RequestOK

--------------------------------------------------------------------------------
(* Type correctness *)

(* Changing one slot of req keeps the type of req. *)
LEMMA SlotTyped ==
  ASSUME TypeOK, NEW r \in Requests, NEW q \in Request, RequestOK(q),
         req' = [req EXCEPT ![r] = q]
  PROVE  /\ req' \in [Requests -> Request]
         /\ \A x \in Requests : RequestOK(req'[x])
         /\ req'[r] = q
         /\ \A x \in Requests \ {r} : req'[x] = req[x]
<1>1. req \in [Requests -> Request] /\ \A x \in Requests : RequestOK(req[x])
  BY DEF TypeOK
<1>2. req' \in [Requests -> Request] /\ req'[r] = q
  BY <1>1
<1>3. \A x \in Requests \ {r} : req'[x] = req[x]
  BY <1>1
<1> QED
  BY <1>1, <1>2, <1>3

(* The step that a request takes after its checks does not touch the others:
   what Accept puts into a free slot is a well-formed request. *)
LEMMA CreateRequestTyped ==
  ASSUME NEW by \in Participants, NEW name \in Names,
         NEW password \in Passwords \cup {None}, NEW closed \in BOOLEAN
  PROVE  LET q == CreateRequest(by, name, password, closed)
         IN  q \in Request /\ RequestOK(q)
<1>1. isStudent(by) \in BOOLEAN
  BY DEF isStudent
<1>2. NewRow(isStudent(by), name, password, closed) \in Row
  BY <1>1, NewRowIsRow
<1> QED
  BY <1>2 DEF CreateRequest, Request, Stages, RequestOK

(* In every reachable state every table, request and handler has its type: the
   uuids, rows and dtos that survive an await are still what the code after it
   expects. *)
THEOREM TypeCorrect == Spec => []TypeOK
<1>1. Init => TypeOK
  <2> SUFFICES ASSUME Init PROVE TypeOK
    OBVIOUS
  <2>1. req \in [Requests -> Request] /\ \A r \in Requests : RequestOK(req[r])
    BY IdleIsRequest DEF Init
  <2> QED
    BY <2>1 DEF Init, TypeOK
<1>2. TypeOK /\ [Next]_vars => TypeOK'
  <2> SUFFICES ASSUME TypeOK, [Next]_vars PROVE TypeOK'
    OBVIOUS
  <2> USE DEF tables
  <2>1. ASSUME NEW r \in Requests, Arrive(r) PROVE TypeOK'
    <3>1. ASSUME NEW q \in Request, RequestOK(q), Accept(r, q),
                 UNCHANGED <<tables, joinedEvents, closers, exited>>,
                 staffAdded' \subseteq GroupIds
          PROVE  TypeOK'
      BY <3>1, SlotTyped DEF Accept, TypeOK
    <3>2. ASSUME NEW by \in Participants, NEW name \in Names,
                 NEW password \in Passwords \cup {None}, NEW closed \in BOOLEAN,
                 AcceptCreateGroup(r, by, name, password, closed)
          PROVE  TypeOK'
      BY <3>1, <3>2, CreateRequestTyped DEF AcceptCreateGroup, TypeOK
    <3>3. ASSUME NEW by \in Participants, NEW sel \in Participants,
                 NEW g \in GroupIds, NEW password \in Passwords \cup {None},
                 AcceptAddUser(r, by, sel, g, password)
          PROVE  TypeOK'
      <4>1. At("addUser", sel, g) \in Request /\ RequestOK(At("addUser", sel, g))
        BY AtIsRequest DEF RequestOK, Stages
      <4> QED
        BY <3>1, <3>3, <4>1 DEF AcceptAddUser, TypeOK
    <3>4. ASSUME NEW by \in Participants, NEW name \in Names,
                 AcceptJoinRandom(r, by, name)
          PROVE  TypeOK'
      <4>1. ASSUME NEW g \in JoinableGroups
            PROVE  At("addUser", by, g) \in Request /\ RequestOK(At("addUser", by, g))
        <5>1. g \in GroupIds
          BY DEF JoinableGroups, OpenGroups, Existing
        <5> QED
          BY <5>1, AtIsRequest DEF RequestOK, Stages
      <4>2. /\ CreateRequest(by, name, None, FALSE) \in Request
            /\ RequestOK(CreateRequest(by, name, None, FALSE))
        BY CreateRequestTyped
      <4> QED
        BY <3>1, <3>4, <4>1, <4>2 DEF AcceptJoinRandom, TypeOK
    <3>5. ASSUME NEW by \in Participants, NEW g \in GroupIds, NEW dto \in Updates,
                 AcceptUpdateGroup(r, by, g, dto)
          PROVE  TypeOK'
      <4> DEFINE q == [at |-> "loadGroup", who |-> None, gid |-> g,
                       row |-> None, dto |-> dto]
      <4>1. q \in Request /\ RequestOK(q)
        BY DEF Request, RequestOK, Stages
      <4>2. Accept(r, q) /\ UNCHANGED <<tables, joinedEvents, closers, staffAdded, exited>>
        BY <3>5 DEF AcceptUpdateGroup
      <4> QED
        BY <3>1, <4>1, <4>2 DEF TypeOK
    <3>6. ASSUME NEW by \in Participants, NEW sel \in Participants,
                 NEW g \in GroupIds, AcceptRemoveUser(r, by, sel, g)
          PROVE  TypeOK'
      <4>1. At("removeUser", sel, g) \in Request /\ RequestOK(At("removeUser", sel, g))
        BY AtIsRequest DEF RequestOK, Stages
      <4> QED
        BY <3>1, <3>6, <4>1 DEF AcceptRemoveUser, TypeOK
    <3>7. ASSUME NEW by \in Participants, NEW g \in GroupIds,
                 AcceptDeleteGroup(r, by, g)
          PROVE  TypeOK'
      <4>1. At("deleteGroup", None, g) \in Request /\ RequestOK(At("deleteGroup", None, g))
        BY AtIsRequest DEF RequestOK, Stages
      <4> QED
        BY <3>1, <3>7, <4>1 DEF AcceptDeleteGroup, TypeOK
    <3> QED
      BY <2>1, <3>2, <3>3, <3>4, <3>5, <3>6, <3>7 DEF Arrive
  <2>2. ASSUME NEW r \in Requests, InsertGroup(r) PROVE TypeOK'
    <3>1. /\ req[r] \in Request /\ req[r].row \in Row
          /\ req[r].who \in Participants \cup {None}
      BY <2>2 DEF InsertGroup, TypeOK, RequestOK, Request
    <3>2. CASE req[r].row.name \in TakenNames /\ UNCHANGED <<groups, usedIds>>
                 /\ req' = [req EXCEPT ![r] = Idle]
      BY <2>2, <3>2, IdleIsRequest, SlotTyped DEF InsertGroup, TypeOK
    <3>3. ASSUME NEW g \in GroupIds \ usedIds,
                 groups' = [groups EXCEPT ![g] = req[r].row],
                 usedIds' = usedIds \cup {g},
                 req' = [req EXCEPT ![r] = IF req[r].who = None THEN Idle
                                           ELSE At("addUser", req[r].who, g)]
          PROVE  TypeOK'
      <4> DEFINE q == IF req[r].who = None THEN Idle ELSE At("addUser", req[r].who, g)
      <4>1. q \in Request /\ RequestOK(q)
        BY <3>1, IdleIsRequest, AtIsRequest DEF RequestOK, Stages
      <4>2. /\ req' \in [Requests -> Request]
            /\ \A x \in Requests : RequestOK(req'[x])
        BY <3>3, <4>1, SlotTyped
      <4>3. groups' \in [GroupIds -> Row \cup {None}]
        BY <3>1, <3>3 DEF TypeOK
      <4> QED
        BY <2>2, <3>3, <4>2, <4>3 DEF InsertGroup, TypeOK
    <3> QED
      BY <2>2, <3>2, <3>3 DEF InsertGroup
  <2>3. ASSUME NEW r \in Requests, AddUser(r) PROVE TypeOK'
    <3>1. /\ req[r].who \in Participants /\ req[r].gid \in GroupIds
          /\ req[r] \in Request
      BY <2>3 DEF AddUser, TypeOK, RequestOK
    <3> DEFINE q == At("userAdded", req[r].who, req[r].gid)
    <3>2. q \in Request /\ RequestOK(q)
      BY <3>1, AtIsRequest DEF RequestOK, Stages
    <3>3. /\ req' = [req EXCEPT ![r] = q] \/ req' = [req EXCEPT ![r] = Idle]
          /\ relations' \subseteq Participants \X GroupIds
          /\ UNCHANGED <<enrolled, groups, history, settings, joinedEvents, closers,
                         usedIds, staffAdded, exited>>
      BY <2>3, <3>1 DEF AddUser, TypeOK
    <3>4. /\ req' \in [Requests -> Request]
          /\ \A x \in Requests : RequestOK(req'[x])
      BY <3>2, <3>3, IdleIsRequest, SlotTyped
    <3> QED
      BY <3>3, <3>4 DEF TypeOK
  <2>4. ASSUME NEW r \in Requests, PublishUserJoined(r) PROVE TypeOK'
    <3>1. req[r].who \in Participants /\ req[r].gid \in GroupIds
      BY <2>4 DEF PublishUserJoined, TypeOK, RequestOK
    <3> QED
      BY <2>4, <3>1, IdleIsRequest, SlotTyped DEF PublishUserJoined, TypeOK
  <2>5. ASSUME Exit PROVE TypeOK'
    BY <2>5, IdleIsRequest DEF Exit, TypeOK
  <2>6. ASSUME NEW e \in joinedEvents, HandleUserJoined(e) PROVE TypeOK'
    BY <2>5, <2>6 DEF HandleUserJoined, TypeOK
  <2>7. ASSUME NEW r \in Requests, LoadGroup(r) PROVE TypeOK'
    <3>1. req[r].gid \in GroupIds /\ req[r].dto \in Updates
      BY <2>7 DEF LoadGroup, TypeOK, RequestOK
    <3> DEFINE g == req[r].gid
               q == [at |-> "saveGroup", who |-> None, gid |-> g,
                     row |-> Updated(groups[g], req[r].dto), dto |-> req[r].dto]
    <3>2. CASE g \notin Existing
      BY <2>7, <3>2, IdleIsRequest, SlotTyped DEF LoadGroup, TypeOK
    <3>3. CASE g \in Existing
      <4>1. groups[g] \in Row /\ req[r].dto \in UpdateDto
        BY <3>1, <3>3, ConstantsOK DEF TypeOK, Existing
      <4>2. Updated(groups[g], req[r].dto) \in Row
        BY <4>1, UpdatedIsRow
      <4>3. q \in Request /\ RequestOK(q)
        BY <3>1, <4>2 DEF Request, RequestOK, Stages
      <4>4. req' = [req EXCEPT ![r] = q]
        BY <2>7, <3>3 DEF LoadGroup
      <4>5. UNCHANGED <<tables, joinedEvents, closers, staffAdded, exited>>
        BY <2>7 DEF LoadGroup
      <4> HIDE DEF q
      <4> QED
        BY <4>3, <4>4, <4>5, SlotTyped DEF TypeOK
    <3> QED
      BY <3>2, <3>3
  <2>8. ASSUME NEW r \in Requests, SaveGroup(r) PROVE TypeOK'
    <3>1. req[r].row \in Row
      BY <2>8 DEF SaveGroup, TypeOK, RequestOK
    <3>2. groups' \in [GroupIds -> Row \cup {None}]
      BY <2>8, <3>1 DEF SaveGroup, SaveRow, TypeOK
    <3> QED
      BY <2>8, <3>2, IdleIsRequest, SlotTyped DEF SaveGroup, TypeOK
  <2>9. ASSUME NEW r \in Requests, RemoveUser(r) PROVE TypeOK'
    <3>1. req[r].who \in Participants /\ req[r].gid \in GroupIds
      BY <2>9 DEF RemoveUser, TypeOK, RequestOK
    <3> DEFINE q == At("userRemoved", req[r].who, req[r].gid)
    <3>2. q \in Request /\ RequestOK(q)
      BY <3>1, AtIsRequest DEF RequestOK, Stages
    <3>3. req' = [req EXCEPT ![r] = q] \/ req' = [req EXCEPT ![r] = Idle]
      BY <2>9 DEF RemoveUser
    <3>4. /\ req' \in [Requests -> Request]
          /\ \A x \in Requests : RequestOK(req'[x])
      BY <3>2, <3>3, IdleIsRequest, SlotTyped
    <3> QED
      BY <2>9, <3>4 DEF RemoveUser, TypeOK
  <2>10. ASSUME NEW r \in Requests, PublishUserLeft(r) PROVE TypeOK'
    <3>1. Run(req[r].gid, "check", None) \in Closer
      BY <2>10 DEF PublishUserLeft, TypeOK, RequestOK, Run, Closer
    <3>2. \A c \in closers' : c.at = "save" => c.row \in Row
      BY <2>10 DEF PublishUserLeft, TypeOK, Run
    <3> QED
      BY <2>10, <3>1, <3>2, IdleIsRequest, SlotTyped DEF PublishUserLeft, TypeOK
  <2>11. ASSUME NEW c \in closers, CheckEmpty(c) PROVE TypeOK'
    BY <2>11 DEF CheckEmpty, TypeOK, Run, Closer
  <2>12. ASSUME NEW c \in closers, LoadEmpty(c) PROVE TypeOK'
    <3>1. c.gid \in GroupIds
      BY DEF TypeOK, Closer
    <3>2. ASSUME c.gid \in Existing PROVE Updated(groups[c.gid], CloseDto) \in Row
      BY <3>1, <3>2, UpdatedIsRow, CloseDtoIsUpdateDto DEF TypeOK, Existing
    <3>3. closers' \subseteq Closer /\ \A d \in closers' : d.at = "save" => d.row \in Row
      BY <2>12, <3>1, <3>2 DEF LoadEmpty, TypeOK, Run, Closer
    <3> QED
      BY <2>12, <3>3 DEF LoadEmpty, TypeOK
  <2>13. ASSUME NEW c \in closers, CloseEmpty(c) PROVE TypeOK'
    <3>1. c.gid \in GroupIds /\ c.row \in Row
      BY <2>13 DEF CloseEmpty, TypeOK, Closer
    <3>2. groups' \in [GroupIds -> Row \cup {None}]
      BY <2>13, <3>1 DEF CloseEmpty, SaveRow, TypeOK
    <3> QED
      BY <2>13, <3>2 DEF CloseEmpty, TypeOK
  <2>14. ASSUME NEW r \in Requests, DeleteGroup(r) PROVE TypeOK'
    BY <2>14, IdleIsRequest, SlotTyped DEF DeleteGroup, TypeOK
  <2>15. ASSUME NEW p \in Participants, RemoveParticipant(p) PROVE TypeOK'
    BY <2>15 DEF RemoveParticipant, TypeOK
  <2>16. ASSUME NEW by \in Participants, NEW ids \in SUBSET GroupIds,
                NEW name \in [ids -> Names], CreateMultipleGroups(by, name)
         PROVE  TypeOK'
    <3>1. \A g \in ids : NewRow(FALSE, name[g], None, FALSE) \in Row
      BY NewRowIsRow
    <3>2. /\ groups' = [g \in GroupIds |->
                          IF g \in ids THEN NewRow(FALSE, name[g], None, FALSE)
                                       ELSE groups[g]]
          /\ usedIds' = usedIds \cup ids
      BY <2>16 DEF CreateMultipleGroups
    <3>3. groups' \in [GroupIds -> Row \cup {None}]
      BY <3>1, <3>2 DEF TypeOK
    <3> QED
      BY <2>16, <3>2, <3>3 DEF CreateMultipleGroups, TypeOK
  <2>17. CASE UNCHANGED vars
    BY <2>17 DEF vars, TypeOK
  <2> QED
    BY <2>1, <2>2, <2>3, <2>4, <2>5, <2>6, <2>7, <2>8, <2>9, <2>10, <2>11, <2>12,
       <2>13, <2>14, <2>15, <2>16, <2>17 DEF Next, Proceed, Handle
<1> QED
  BY <1>1, <1>2, PTL DEF Spec

--------------------------------------------------------------------------------
(* The roster *)

(* The part of RosterIntegrity about the tables alone. *)
TablesOK ==
  /\ \A e \in relations : e[1] \in enrolled /\ e[2] \in Existing
  /\ \A e, f \in relations : e[1] = f[1] => e = f
  /\ \A g, h \in Existing : groups[g].name = groups[h].name => g = h
  /\ \A e \in history : e[2] \in Existing
  /\ Existing \subseteq usedIds

(* The part about the ids that requests and handlers hold. *)
IdsOK ==
  /\ \A r \in Requests : req[r].gid \in usedIds \cup {None}
  /\ \A c \in closers : c.gid \in usedIds

LEMMA RosterParts == RosterIntegrity <=> TablesOK /\ IdsOK
BY DEF RosterIntegrity, TablesOK, IdsOK

(* A step that leaves the tables alone. *)
LEMMA QuietStep ==
  ASSUME TablesOK, UNCHANGED tables
  PROVE  TablesOK'
BY DEF TablesOK, tables, Existing

(* A request slot gets an id that has been given out, or none. *)
LEMMA SlotIdsOK ==
  ASSUME TypeOK, IdsOK, NEW r \in Requests, NEW q,
         q.gid \in usedIds' \cup {None},
         req' = [req EXCEPT ![r] = q],
         usedIds \subseteq usedIds', closers' \subseteq closers
  PROVE  IdsOK'
BY DEF IdsOK, TypeOK

(* Repository.save either changes nothing or writes a row whose name is free:
   the groups that exist keep distinct names, and a deleted group that the write
   brings back is one whose id was given out. *)
LEMMA SaveRowTables ==
  ASSUME TypeOK, TablesOK, NEW g \in GroupIds, g \in usedIds, NEW row \in Row,
         SaveRow(g, row), UNCHANGED <<enrolled, relations, history, usedIds>>
  PROVE  TablesOK'
<1>1. CASE groups' = groups
  BY <1>1 DEF TablesOK, Existing
<1>2. CASE groups' = [groups EXCEPT ![g] = row]
           /\ ~\E h \in Existing \ {g} : groups[h].name = row.name
  <2>1. /\ groups'[g] = row /\ row # None
        /\ \A h \in GroupIds \ {g} : groups'[h] = groups[h]
    BY <1>2, ConstantsOK DEF TypeOK
  <2>2. Existing' = Existing \cup {g}
    BY <2>1 DEF Existing
  <2>3. \A h, k \in Existing' : groups'[h].name = groups'[k].name => h = k
    <3> SUFFICES ASSUME NEW h \in Existing', NEW k \in Existing',
                        groups'[h].name = groups'[k].name, h # k
                 PROVE  FALSE
      OBVIOUS
    <3>1. CASE h = g
      BY <1>2, <2>1, <2>2, <3>1 DEF Existing
    <3>2. CASE k = g
      BY <1>2, <2>1, <2>2, <3>2 DEF Existing
    <3>3. CASE h # g /\ k # g
      BY <2>1, <2>2, <3>3 DEF TablesOK, Existing
    <3> QED
      BY <3>1, <3>2, <3>3
  <2> QED
    BY <2>2, <2>3 DEF TablesOK
<1> QED
  BY <1>1, <1>2 DEF SaveRow

LEMMA RosterInit == Init => RosterIntegrity
BY DEF Init, RosterIntegrity, Existing, Idle

LEMMA RosterStep == TypeOK /\ RosterIntegrity /\ [Next]_vars => RosterIntegrity'
<1> SUFFICES ASSUME TypeOK, TablesOK, IdsOK, [Next]_vars PROVE TablesOK' /\ IdsOK'
  BY RosterParts DEF RosterIntegrity, TablesOK, IdsOK
<1>0. Idle.gid = None
  BY DEF Idle
<1>1. ASSUME NEW r \in Requests, Arrive(r) PROVE TablesOK' /\ IdsOK'
  <2>1. ASSUME NEW q, q.gid \in Existing \cup {None}, Accept(r, q),
               UNCHANGED <<tables, closers>>
        PROVE  TablesOK' /\ IdsOK'
    <3>1. q.gid \in usedIds' \cup {None}
      BY <2>1 DEF TablesOK, tables
    <3> QED
      BY <2>1, <3>1, QuietStep, SlotIdsOK DEF Accept, tables
  <2>2. \A by, name, password, closed : CreateRequest(by, name, password, closed).gid = None
    BY DEF CreateRequest
  <2>3. \A stage, p, g : At(stage, p, g).gid = g
    BY DEF At
  <2>4. JoinableGroups \subseteq Existing
    BY DEF JoinableGroups, OpenGroups
  <2>5. ASSUME NEW by \in Participants, NEW g \in GroupIds, NEW dto \in Updates,
               AcceptUpdateGroup(r, by, g, dto)
        PROVE  TablesOK' /\ IdsOK'
    <3> DEFINE q == [at |-> "loadGroup", who |-> None, gid |-> g,
                     row |-> None, dto |-> dto]
    <3>1. q.gid \in Existing
      BY <2>5 DEF AcceptUpdateGroup
    <3>2. Accept(r, q) /\ UNCHANGED <<tables, closers>>
      BY <2>5 DEF AcceptUpdateGroup
    <3> HIDE DEF q
    <3> QED
      BY <2>1, <3>1, <3>2
  <2>6. ASSUME NEW by \in Participants, NEW name, NEW password, NEW closed,
               AcceptCreateGroup(r, by, name, password, closed)
        PROVE  TablesOK' /\ IdsOK'
    BY <2>1, <2>2, <2>6 DEF AcceptCreateGroup
  <2>7. ASSUME NEW by \in Participants, NEW sel, NEW g, NEW password,
               AcceptAddUser(r, by, sel, g, password)
        PROVE  TablesOK' /\ IdsOK'
    BY <2>1, <2>3, <2>7 DEF AcceptAddUser
  <2>8. ASSUME NEW by \in Participants, NEW name, AcceptJoinRandom(r, by, name)
        PROVE  TablesOK' /\ IdsOK'
    <3>1. UNCHANGED <<tables, closers>>
      BY <2>8 DEF AcceptJoinRandom
    <3>2. CASE \E g \in JoinableGroups : Accept(r, At("addUser", by, g))
      <4>1. PICK g \in JoinableGroups : Accept(r, At("addUser", by, g))
        BY <3>2
      <4> QED
        BY <2>1, <2>3, <2>4, <3>1, <4>1
    <3>3. CASE Accept(r, CreateRequest(by, name, None, FALSE))
      BY <2>1, <2>2, <3>1, <3>3
    <3> QED
      BY <2>8, <3>2, <3>3 DEF AcceptJoinRandom
  <2>9. ASSUME NEW by \in Participants, NEW sel, NEW g, AcceptRemoveUser(r, by, sel, g)
        PROVE  TablesOK' /\ IdsOK'
    BY <2>1, <2>3, <2>9 DEF AcceptRemoveUser
  <2>10. ASSUME NEW by \in Participants, NEW g, AcceptDeleteGroup(r, by, g)
         PROVE  TablesOK' /\ IdsOK'
    BY <2>1, <2>3, <2>10 DEF AcceptDeleteGroup
  <2> QED
    BY <1>1, <2>5, <2>6, <2>7, <2>8, <2>9, <2>10 DEF Arrive
<1>2. ASSUME NEW r \in Requests, InsertGroup(r) PROVE TablesOK' /\ IdsOK'
  <2>1. CASE req' = [req EXCEPT ![r] = Idle] /\ UNCHANGED <<groups, usedIds>>
    BY <1>2, <1>0, <2>1, QuietStep, SlotIdsOK DEF InsertGroup, tables
  <2>2. ASSUME NEW g \in GroupIds \ usedIds,
               groups' = [groups EXCEPT ![g] = req[r].row],
               usedIds' = usedIds \cup {g},
               req' = [req EXCEPT ![r] = IF req[r].who = None THEN Idle
                                         ELSE At("addUser", req[r].who, g)],
               req[r].row.name \notin TakenNames
        PROVE  TablesOK' /\ IdsOK'
    <3> DEFINE q == IF req[r].who = None THEN Idle ELSE At("addUser", req[r].who, g)
    <3>1. q.gid \in usedIds' \cup {None}
      BY <1>0, <2>2 DEF At
    <3>2. IdsOK'
      BY <1>2, <2>2, <3>1, SlotIdsOK DEF InsertGroup
    <3>3. req[r].row \in Row /\ g \notin Existing
      BY <1>2, <2>2 DEF InsertGroup, TypeOK, RequestOK, TablesOK
    <3>4. /\ groups'[g] = req[r].row /\ req[r].row # None
          /\ \A h \in GroupIds \ {g} : groups'[h] = groups[h]
      BY <2>2, <3>3, ConstantsOK DEF TypeOK
    <3>5. Existing' = Existing \cup {g}
      BY <3>4 DEF Existing
    <3>6. \A h \in Existing : groups'[h].name # groups'[g].name
      BY <2>2, <3>3, <3>4 DEF TakenNames, Existing
    <3>7. \A h \in Existing : groups'[h] = groups[h]
      BY <3>3, <3>4 DEF Existing
    <3> QED
      BY <1>2, <2>2, <3>2, <3>5, <3>6, <3>7 DEF InsertGroup, TablesOK
  <2> QED
    BY <1>2, <2>1, <2>2 DEF InsertGroup
<1>3. ASSUME NEW r \in Requests, AddUser(r) PROVE TablesOK' /\ IdsOK'
  <2> DEFINE p == req[r].who
             g == req[r].gid
  <2>1. g \in usedIds \cup {None} /\ p \in Participants /\ g \in GroupIds
    BY <1>3 DEF AddUser, IdsOK, TypeOK, RequestOK
  <2>2. IdsOK'
    BY <1>0, <1>3, <2>1, SlotIdsOK DEF AddUser, At
  <2>3. CASE UNCHANGED relations
    BY <1>3, <2>2, <2>3, QuietStep DEF AddUser, tables
  <2>4. CASE /\ p \in enrolled /\ g \in Existing /\ ~ViolatesUnique(p)
             /\ relations' = relations \cup {<<p, g>>}
    <3>1. \A e \in relations : e[1] # p
      BY <2>4 DEF ViolatesUnique, hasNoGroup, GroupsOf, TypeOK
    <3> QED
      BY <1>3, <2>2, <2>4, <3>1 DEF AddUser, TablesOK, Existing
  <2> QED
    BY <1>3, <2>3, <2>4 DEF AddUser
<1>4. ASSUME NEW r \in Requests, PublishUserJoined(r) PROVE TablesOK' /\ IdsOK'
  BY <1>0, <1>4, QuietStep, SlotIdsOK DEF PublishUserJoined, tables
<1>5. ASSUME Exit PROVE TablesOK' /\ IdsOK'
  BY <1>0, <1>5, QuietStep DEF Exit, IdsOK
<1>6. ASSUME NEW e \in joinedEvents, HandleUserJoined(e) PROVE TablesOK' /\ IdsOK'
  BY <1>5, <1>6 DEF HandleUserJoined, TablesOK, IdsOK, Existing
<1>7. ASSUME NEW r \in Requests, LoadGroup(r) PROVE TablesOK' /\ IdsOK'
  <2> DEFINE g == req[r].gid
             q == IF g \notin Existing THEN Idle
                  ELSE [at |-> "saveGroup", who |-> None, gid |-> g,
                        row |-> Updated(groups[g], req[r].dto), dto |-> req[r].dto]
  <2>1. q.gid \in usedIds \cup {None}
    BY <1>0 DEF IdsOK
  <2>2. req' = [req EXCEPT ![r] = q] /\ UNCHANGED <<tables, closers>>
    BY <1>7 DEF LoadGroup
  <2> HIDE DEF q
  <2> QED
    BY <2>1, <2>2, QuietStep, SlotIdsOK DEF tables
<1>8. ASSUME NEW r \in Requests, SaveGroup(r) PROVE TablesOK' /\ IdsOK'
  <2>1. req[r].gid \in GroupIds /\ req[r].gid \in usedIds /\ req[r].row \in Row
    BY <1>8, ConstantsOK DEF SaveGroup, IdsOK, TypeOK, RequestOK
  <2> QED
    BY <1>0, <1>8, <2>1, SaveRowTables, SlotIdsOK DEF SaveGroup
<1>9. ASSUME NEW r \in Requests, RemoveUser(r) PROVE TablesOK' /\ IdsOK'
  <2>1. IdsOK'
    BY <1>0, <1>9, SlotIdsOK DEF RemoveUser, At, IdsOK
  <2> QED
    BY <1>9, <2>1 DEF RemoveUser, TablesOK, Existing
<1>10. ASSUME NEW r \in Requests, PublishUserLeft(r) PROVE TablesOK' /\ IdsOK'
  <2>1. req[r].gid \in usedIds
    BY <1>10, ConstantsOK DEF PublishUserLeft, IdsOK, TypeOK, RequestOK
  <2>2. \A c \in closers' : c.gid \in usedIds
    BY <1>10, <2>1 DEF PublishUserLeft, IdsOK, Run
  <2>3. \A x \in Requests : req'[x].gid \in usedIds \cup {None}
    BY <1>0, <1>10 DEF PublishUserLeft, IdsOK, TypeOK
  <2> QED
    BY <1>10, <2>2, <2>3, QuietStep DEF PublishUserLeft, IdsOK, tables
<1>11. ASSUME NEW c \in closers, Handle(c) PROVE TablesOK' /\ IdsOK'
  <2>1. c.gid \in usedIds /\ c.gid \in GroupIds
    BY DEF IdsOK, TypeOK, Closer
  <2>2. CASE CheckEmpty(c)
    BY <2>1, <2>2, QuietStep DEF CheckEmpty, IdsOK, Run, tables
  <2>3. CASE LoadEmpty(c)
    BY <2>1, <2>3, QuietStep DEF LoadEmpty, IdsOK, Run, tables
  <2>4. CASE CloseEmpty(c)
    <3>1. c.row \in Row
      BY <2>4 DEF CloseEmpty, TypeOK
    <3> QED
      BY <2>1, <2>4, <3>1, SaveRowTables DEF CloseEmpty, IdsOK
  <2> QED
    BY <1>11, <2>2, <2>3, <2>4 DEF Handle
<1>12. ASSUME NEW r \in Requests, DeleteGroup(r) PROVE TablesOK' /\ IdsOK'
  <2>1. req[r].gid \in GroupIds
    BY <1>12 DEF DeleteGroup, TypeOK, RequestOK
  <2>2. /\ Existing' = Existing \ {req[r].gid}
        /\ \A h \in Existing' : groups'[h] = groups[h]
    BY <1>12, <2>1 DEF DeleteGroup, Existing, TypeOK
  <2>3. IdsOK'
    BY <1>0, <1>12, SlotIdsOK DEF DeleteGroup
  <2> QED
    BY <1>12, <2>2, <2>3 DEF DeleteGroup, TablesOK
<1>13. ASSUME NEW p \in Participants, RemoveParticipant(p) PROVE TablesOK' /\ IdsOK'
  BY <1>13 DEF RemoveParticipant, TablesOK, IdsOK, Existing
<1>14. ASSUME NEW by \in Participants, NEW ids \in SUBSET GroupIds,
              NEW name \in [ids -> Names], CreateMultipleGroups(by, name)
       PROVE  TablesOK' /\ IdsOK'
  <2>0. /\ ids \cap usedIds = {}
        /\ \A g \in ids : name[g] \notin TakenNames
        /\ \A g, h \in ids : name[g] = name[h] => g = h
        /\ groups' = [g \in GroupIds |->
                        IF g \in ids THEN NewRow(FALSE, name[g], None, FALSE)
                                     ELSE groups[g]]
        /\ usedIds' = usedIds \cup ids
        /\ UNCHANGED <<enrolled, relations, history, req, closers>>
    BY <1>14 DEF CreateMultipleGroups
  <2>1. \A g \in ids : /\ groups'[g] \in Row /\ groups'[g] # None
                       /\ groups'[g].name = name[g]
    <3> SUFFICES ASSUME NEW g \in ids
                 PROVE  /\ groups'[g] \in Row /\ groups'[g] # None
                        /\ groups'[g].name = name[g]
      OBVIOUS
    <3>1. name[g] \in Names /\ groups'[g] = NewRow(FALSE, name[g], None, FALSE)
      BY <2>0
    <3>2. groups'[g] \in Row
      BY <3>1, NewRowIsRow
    <3>3. groups'[g].name = name[g]
      BY <3>1 DEF NewRow
    <3> QED
      BY <3>2, <3>3, ConstantsOK
  <2>2. /\ Existing' = Existing \cup ids
        /\ \A h \in Existing : h \notin ids /\ groups'[h] = groups[h]
    BY <2>0, <2>1 DEF Existing, TablesOK
  <2>3. \A h, k \in Existing' : groups'[h].name = groups'[k].name => h = k
    <3> SUFFICES ASSUME NEW h \in Existing', NEW k \in Existing',
                        groups'[h].name = groups'[k].name
                 PROVE  h = k
      OBVIOUS
    <3>1. \A x \in Existing, y \in ids : groups'[x].name # groups'[y].name
      <4> SUFFICES ASSUME NEW x \in Existing, NEW y \in ids
                   PROVE  groups'[x].name # groups'[y].name
        OBVIOUS
      <4>1. groups[x].name \in TakenNames
        BY DEF TakenNames
      <4>2. groups'[x] = groups[x]
        BY <2>2
      <4>3. groups'[y].name = name[y]
        BY <2>1
      <4>4. name[y] \notin TakenNames
        BY <2>0
      <4> QED
        BY <4>1, <4>2, <4>3, <4>4
    <3>2. CASE h \in ids /\ k \in ids
      BY <2>0, <2>1, <3>2
    <3>3. CASE h \in Existing /\ k \in Existing
      BY <2>2, <3>3 DEF TablesOK
    <3> QED
      BY <2>2, <3>1, <3>2, <3>3
  <2>4. TablesOK'
    BY <2>0, <2>2, <2>3 DEF TablesOK
  <2>5. IdsOK'
    BY <2>0 DEF IdsOK
  <2> QED
    BY <2>4, <2>5
<1>15. CASE UNCHANGED vars
  BY <1>15 DEF vars, TablesOK, IdsOK, Existing
<1> QED
  BY <1>1, <1>2, <1>3, <1>4, <1>5, <1>6, <1>7, <1>8, <1>9, <1>10, <1>11, <1>12,
     <1>13, <1>14, <1>15 DEF Next, Proceed

(* However requests, handlers and exits interleave, the unique indexes, foreign
   keys and cascades keep the group tables of a course consistent, also across
   the writes that bring a deleted group back. *)
THEOREM RosterCorrect == Spec => []RosterIntegrity
<1>1. TypeOK /\ RosterIntegrity /\ [Next]_vars => RosterIntegrity'
  BY RosterStep
<1> QED
  BY RosterInit, <1>1, TypeCorrect, PTL DEF Spec

--------------------------------------------------------------------------------
(* The history *)

(* e is recorded, or the step that records it is under way. *)
Recorded(e) ==
  \/ e \in history \cup joinedEvents
  \/ \E r \in Requests :
       req[r].at = "userAdded" /\ req[r].who = e[1] /\ req[r].gid = e[2]

LEMMA JoinRecordedAlt == JoinRecorded <=> (~exited => \A e \in relations : Recorded(e))
BY DEF JoinRecorded, Recorded

(* A step of a slot that is not about to publish a joining, which adds no member
   and takes away no record of a member that stays. *)
LEMMA RecordsKept ==
  ASSUME TypeOK, JoinRecorded, NEW r \in Requests, NEW q,
         req[r].at # "userAdded", req' = [req EXCEPT ![r] = q],
         relations' \subseteq relations, exited' = exited,
         joinedEvents \subseteq joinedEvents',
         \A e \in relations' : e \in history => e \in history'
  PROVE  JoinRecorded'
<1> SUFFICES ASSUME ~exited, NEW e \in relations' PROVE Recorded(e)'
  BY JoinRecordedAlt DEF JoinRecorded, Recorded
<1>1. Recorded(e)
  BY JoinRecordedAlt
<1>2. CASE e \in history \cup joinedEvents
  BY <1>2 DEF Recorded
<1>3. CASE \E x \in Requests :
             req[x].at = "userAdded" /\ req[x].who = e[1] /\ req[x].gid = e[2]
  <2>1. PICK x \in Requests :
               req[x].at = "userAdded" /\ req[x].who = e[1] /\ req[x].gid = e[2]
    BY <1>3
  <2>2. x # r /\ req'[x] = req[x]
    BY <2>1 DEF TypeOK
  <2> QED
    BY <2>1, <2>2 DEF Recorded
<1> QED
  BY <1>1, <1>2, <1>3 DEF Recorded

(* A step that changes neither members, records nor requests. *)
LEMMA RecordsUntouched ==
  ASSUME JoinRecorded, UNCHANGED <<relations, history, joinedEvents, req, exited>>
  PROVE  JoinRecorded'
BY DEF JoinRecorded

LEMMA JoinRecordedStep == TypeOK /\ JoinRecorded /\ [Next]_vars => JoinRecorded'
<1> SUFFICES ASSUME TypeOK, JoinRecorded, [Next]_vars PROVE JoinRecorded'
  OBVIOUS
<1> USE DEF tables
<1>0. Idle.at = "idle"
  BY DEF Idle
<1>1. ASSUME NEW r \in Requests, Arrive(r) PROVE JoinRecorded'
  <2>1. ASSUME NEW q, Accept(r, q), UNCHANGED <<tables, joinedEvents, exited>>
        PROVE  JoinRecorded'
    BY <1>0, <2>1, RecordsKept DEF Accept
  <2>2. ASSUME NEW by, NEW name, NEW password, NEW closed,
               AcceptCreateGroup(r, by, name, password, closed)
        PROVE  JoinRecorded'
    BY <2>1, <2>2 DEF AcceptCreateGroup
  <2>3. ASSUME NEW by, NEW sel, NEW g, NEW password,
               AcceptAddUser(r, by, sel, g, password)
        PROVE  JoinRecorded'
    BY <2>1, <2>3 DEF AcceptAddUser
  <2>4. ASSUME NEW by, NEW name, AcceptJoinRandom(r, by, name) PROVE JoinRecorded'
    BY <2>1, <2>4 DEF AcceptJoinRandom
  <2>5. ASSUME NEW by, NEW g, NEW dto, AcceptUpdateGroup(r, by, g, dto)
        PROVE  JoinRecorded'
    BY <2>1, <2>5 DEF AcceptUpdateGroup
  <2>6. ASSUME NEW by, NEW sel, NEW g, AcceptRemoveUser(r, by, sel, g)
        PROVE  JoinRecorded'
    BY <2>1, <2>6 DEF AcceptRemoveUser
  <2>7. ASSUME NEW by, NEW g, AcceptDeleteGroup(r, by, g) PROVE JoinRecorded'
    BY <2>1, <2>7 DEF AcceptDeleteGroup
  <2> QED
    BY <1>1, <2>2, <2>3, <2>4, <2>5, <2>6, <2>7 DEF Arrive
<1>2. ASSUME NEW r \in Requests, InsertGroup(r) PROVE JoinRecorded'
  BY <1>2, RecordsKept DEF InsertGroup
<1>3. ASSUME NEW r \in Requests, AddUser(r) PROVE JoinRecorded'
  <2> DEFINE p == req[r].who
             g == req[r].gid
  <2>1. CASE UNCHANGED relations
    BY <1>3, <2>1, RecordsKept DEF AddUser
  <2>2. CASE /\ relations' = relations \cup {<<p, g>>}
             /\ req' = [req EXCEPT ![r] = At("userAdded", p, g)]
    <3>1. /\ req[r].at = "addUser" /\ req[r] \in Request
          /\ UNCHANGED <<history, joinedEvents, exited>>
      BY <1>3 DEF AddUser, TypeOK
    <3>2. /\ req'[r] = At("userAdded", p, g)
          /\ \A x \in Requests \ {r} : req'[x] = req[x]
      BY <2>2 DEF TypeOK
    <3>4. ASSUME NEW e \in relations, Recorded(e) PROVE Recorded(e)'
      BY <3>1, <3>2, <3>4 DEF Recorded
    <3> QED
      <4>1. ~exited => \A e \in relations : Recorded(e)
        BY JoinRecordedAlt
      <4>2. ~exited => \A e \in relations' : Recorded(e)'
        <5> SUFFICES ASSUME ~exited, NEW e \in relations' PROVE Recorded(e)'
          OBVIOUS
        <5>1. CASE e \in relations
          BY <3>4, <4>1, <5>1
        <5>2. CASE e = <<p, g>>
          BY <3>2, <5>2 DEF Recorded, At
        <5> QED
          BY <2>2, <5>1, <5>2
      <4> QED
        BY <3>1, <4>2 DEF JoinRecorded, Recorded
  <2> QED
    BY <1>3, <2>1, <2>2 DEF AddUser
<1>4. ASSUME NEW r \in Requests, PublishUserJoined(r) PROVE JoinRecorded'
  <2>1. /\ joinedEvents' = joinedEvents \cup {<<req[r].who, req[r].gid>>}
        /\ UNCHANGED <<relations, history, exited>>
        /\ \A x \in Requests \ {r} : req'[x] = req[x]
    BY <1>4 DEF PublishUserJoined, TypeOK
  <2>2. ASSUME NEW e \in relations, Recorded(e) PROVE Recorded(e)'
    <3>1. e = <<e[1], e[2]>>
      BY DEF TypeOK
    <3> QED
      <4>1. CASE e \in history \cup joinedEvents
        BY <2>1, <4>1 DEF Recorded
      <4>2. ASSUME NEW x \in Requests, req[x].at = "userAdded",
                   req[x].who = e[1], req[x].gid = e[2]
            PROVE  Recorded(e)'
        <5>1. CASE x = r
          BY <2>1, <3>1, <4>2, <5>1 DEF Recorded
        <5>2. CASE x # r
          BY <2>1, <4>2, <5>2 DEF Recorded
        <5> QED
          BY <5>1, <5>2
      <4> QED
        BY <2>2, <4>1, <4>2 DEF Recorded
  <2> QED
    BY <2>1, <2>2, JoinRecordedAlt DEF JoinRecorded, Recorded
<1>5. ASSUME Exit PROVE JoinRecorded'
  BY <1>5 DEF Exit, JoinRecorded
<1>6. ASSUME NEW e \in joinedEvents, HandleUserJoined(e) PROVE JoinRecorded'
  BY <1>5, <1>6 DEF HandleUserJoined, JoinRecorded
<1>7. ASSUME NEW r \in Requests, LoadGroup(r) \/ SaveGroup(r) PROVE JoinRecorded'
  BY <1>7, RecordsKept DEF LoadGroup, SaveGroup
<1>8. ASSUME NEW r \in Requests, RemoveUser(r) PROVE JoinRecorded'
  BY <1>8, RecordsKept DEF RemoveUser
<1>9. ASSUME NEW r \in Requests, PublishUserLeft(r) PROVE JoinRecorded'
  BY <1>9, RecordsKept DEF PublishUserLeft
<1>10. ASSUME NEW c \in closers, Handle(c) PROVE JoinRecorded'
  BY <1>10, RecordsUntouched DEF Handle, CheckEmpty, LoadEmpty, CloseEmpty
<1>11. ASSUME NEW r \in Requests, DeleteGroup(r) PROVE JoinRecorded'
  BY <1>11, RecordsKept DEF DeleteGroup
<1>12. ASSUME NEW p \in Participants, RemoveParticipant(p) PROVE JoinRecorded'
  BY <1>12 DEF RemoveParticipant, JoinRecorded
<1>13. ASSUME NEW by, NEW name, CreateMultipleGroups(by, name) PROVE JoinRecorded'
  BY <1>13, RecordsUntouched DEF CreateMultipleGroups
<1>14. CASE UNCHANGED vars
  BY <1>14, RecordsUntouched DEF vars
<1> QED
  BY <1>1, <1>2, <1>3, <1>4, <1>5, <1>6, <1>7, <1>8, <1>9, <1>10, <1>11, <1>12,
     <1>13, <1>14 DEF Next, Proceed

(* The insert of a membership and the insert of its history entry are separate,
   unawaited writes; still no interleaving loses the entry of a membership that
   lasts, only an exit of the process can. *)
THEOREM JoinsRecorded == Spec => []JoinRecorded
<1>1. Init => JoinRecorded
  BY DEF Init, JoinRecorded
<1>2. TypeOK /\ JoinRecorded /\ [Next]_vars => JoinRecorded'
  BY JoinRecordedStep
<1> QED
  BY <1>1, <1>2, TypeCorrect, PTL DEF Spec

--------------------------------------------------------------------------------
(* The size of a group *)

(* Sizes are numbers: members are participants, and joining requests are slots. *)
LEMMA SizesAreNat ==
  ASSUME NEW g
  PROVE  /\ IsFiniteSet(Members(g)) /\ Cardinality(Members(g)) \in Nat
         /\ IsFiniteSet(Joining(g)) /\ Cardinality(Joining(g)) \in Nat
         /\ Cardinality(Joining(g)) <= Cardinality(Requests)
         /\ Cardinality(Requests) \in Nat
<1>1. Members(g) \in SUBSET Participants /\ Joining(g) \in SUBSET Requests
  BY DEF Members, Joining
<1>2. IsFiniteSet(Participants) /\ IsFiniteSet(Requests)
  BY ConstantsOK
<1> QED
  BY <1>1, <1>2, FS_Subset, FS_CardinalityType

(* The bound for one group. *)
Bounded(g) ==
  Cardinality(Members(g)) + Cardinality(Joining(g))
    < settings.sizeMax + Cardinality(Requests)

(* A step that brings g neither a member nor a joining request. *)
LEMMA NotGrowing ==
  ASSUME NEW g, Bounded(g), settings.sizeMax \in Nat, settings' = settings,
         Members(g)' \subseteq Members(g), Joining(g)' \subseteq Joining(g)
  PROVE  Bounded(g)'
<1>1. /\ IsFiniteSet(Members(g)) /\ Cardinality(Members(g)) \in Nat
      /\ IsFiniteSet(Joining(g)) /\ Cardinality(Joining(g)) \in Nat
      /\ Cardinality(Requests) \in Nat
  BY SizesAreNat
<1>2. /\ Cardinality(Members(g)') <= Cardinality(Members(g))
      /\ Cardinality(Members(g)') \in Nat
  BY <1>1, FS_Subset, FS_CardinalityType
<1>3. /\ Cardinality(Joining(g)') <= Cardinality(Joining(g))
      /\ Cardinality(Joining(g)') \in Nat
  BY <1>1, FS_Subset, FS_CardinalityType
<1> QED
  BY <1>1, <1>2, <1>3 DEF Bounded

(* Below the maximum the bound holds whatever the number of joining requests. *)
LEMMA BoundedBelowMax ==
  ASSUME NEW g, settings.sizeMax \in Nat, settings' = settings,
         Members(g)' = Members(g), Cardinality(Members(g)) < settings.sizeMax
  PROVE  Bounded(g)'
<1>1. /\ Cardinality(Members(g)) \in Nat
      /\ Cardinality(Requests) \in Nat
  BY SizesAreNat
<1>2. Joining(g)' \in SUBSET Requests
  BY DEF Joining
<1>3. /\ Cardinality(Joining(g)') <= Cardinality(Requests)
      /\ Cardinality(Joining(g)') \in Nat
  BY <1>2, ConstantsOK, FS_Subset, FS_CardinalityType
<1> QED
  BY <1>1, <1>3 DEF Bounded

(* A request slot set to q, which is not about to add a member to g. *)
LEMMA JoiningAfter ==
  ASSUME TypeOK, NEW r \in Requests, NEW q, req' = [req EXCEPT ![r] = q], NEW g,
         ~(q.at = "addUser" /\ q.gid = g)
  PROVE  Joining(g)' = Joining(g) \ {r} /\ Joining(g)' \subseteq Joining(g)
<1>1. req'[r] = q /\ \A x \in Requests \ {r} : req'[x] = req[x]
  BY DEF TypeOK
<1> QED
  BY <1>1 DEF Joining

(* Nobody changes the settings of the course. *)
LEMMA SettingsConstant ==
  ASSUME [Next]_vars
  PROVE  settings' = settings
<1> USE DEF tables
<1>1. ASSUME NEW r \in Requests, Arrive(r) PROVE settings' = settings
  BY <1>1 DEF Arrive, AcceptCreateGroup, AcceptAddUser, AcceptJoinRandom,
     AcceptUpdateGroup, AcceptRemoveUser, AcceptDeleteGroup
<1>2. ASSUME NEW r \in Requests, Proceed(r) PROVE settings' = settings
  <2>1. CASE InsertGroup(r) \/ AddUser(r) \/ PublishUserJoined(r)
    BY <2>1 DEF InsertGroup, AddUser, PublishUserJoined
  <2>2. CASE LoadGroup(r) \/ SaveGroup(r) \/ RemoveUser(r)
    BY <2>2 DEF LoadGroup, SaveGroup, RemoveUser
  <2>3. CASE PublishUserLeft(r) \/ DeleteGroup(r)
    BY <2>3 DEF PublishUserLeft, DeleteGroup
  <2> QED
    BY <1>2, <2>1, <2>2, <2>3 DEF Proceed
<1>3. ASSUME NEW e \in joinedEvents, HandleUserJoined(e) PROVE settings' = settings
  BY <1>3 DEF HandleUserJoined, Exit
<1>4. ASSUME NEW c \in closers, Handle(c) PROVE settings' = settings
  BY <1>4 DEF Handle, CheckEmpty, LoadEmpty, CloseEmpty
<1>5. ASSUME NEW by, NEW name, CreateMultipleGroups(by, name) PROVE settings' = settings
  BY <1>5 DEF CreateMultipleGroups
<1>6. ASSUME NEW p, RemoveParticipant(p) PROVE settings' = settings
  BY <1>6 DEF RemoveParticipant
<1>7. CASE Exit
  BY <1>7 DEF Exit
<1>8. CASE UNCHANGED vars
  BY <1>8 DEF vars
<1> QED
  BY <1>1, <1>2, <1>3, <1>4, <1>5, <1>6, <1>7, <1>8 DEF Next

LEMMA OvershootStep ==
  ASSUME TypeOK, RosterIntegrity, OvershootBounded, [Next]_vars
  PROVE  OvershootBounded'
<1>1. settings \in GroupSettings /\ settings' = settings /\ settings.sizeMax \in Nat
  <2>1. settings \in GroupSettings /\ settings.sizeMax \in Nat
    BY ConstantsOK DEF TypeOK, GroupSettings
  <2>2. settings' = settings
    BY SettingsConstant
  <2> QED
    BY <2>1, <2>2
<1> SUFFICES ASSUME settings.sizeMax > 0, NEW g \in GroupIds, g \notin staffAdded'
             PROVE  Bounded(g)'
  BY <1>1 DEF OvershootBounded, Bounded
<1>2. ASSUME g \notin staffAdded PROVE Bounded(g)
  BY <1>2 DEF OvershootBounded, Bounded
<1>3. Idle.at = "idle"
  BY DEF Idle
<1>4. ASSUME NEW r \in Requests, Arrive(r) PROVE Bounded(g)'
  <2>1. ASSUME NEW q, Accept(r, q), UNCHANGED relations, g \notin staffAdded,
               ~(q.at = "addUser" /\ q.gid = g)
        PROVE  Bounded(g)'
    <3>0. req' = [req EXCEPT ![r] = q]
      BY <2>1 DEF Accept
    <3>1. Joining(g)' \subseteq Joining(g)
      BY <2>1, <3>0, JoiningAfter
    <3>2. Members(g)' = Members(g)
      BY <2>1 DEF Members
    <3> QED
      BY <1>1, <1>2, <2>1, <3>1, <3>2, NotGrowing
  <2>2. \A by, name, password, closed :
          CreateRequest(by, name, password, closed).at = "insertGroup"
    BY DEF CreateRequest
  <2>3. \A stage, p, h : At(stage, p, h).at = stage /\ At(stage, p, h).gid = h
    BY DEF At
  <2>4. ASSUME NEW by, NEW name, NEW password, NEW closed,
               AcceptCreateGroup(r, by, name, password, closed)
        PROVE  Bounded(g)'
    BY <2>1, <2>2, <2>4 DEF AcceptCreateGroup, tables
  <2>5. ASSUME NEW by, NEW sel, NEW h, NEW password,
               AcceptAddUser(r, by, sel, h, password)
        PROVE  Bounded(g)'
    <3>1. /\ Accept(r, At("addUser", sel, h)) /\ UNCHANGED relations
          /\ staffAdded' = IF isStudent(by) THEN staffAdded ELSE staffAdded \cup {h}
          /\ isStudent(by) => hasCapacity(h)
      BY <2>5 DEF AcceptAddUser, tables
    <3>2. CASE h # g
      BY <2>1, <2>3, <3>1, <3>2
    <3>3. CASE h = g
      <4>1. Members(g)' = Members(g)
        BY <3>1 DEF Members
      <4>2. Cardinality(Members(g)) < settings.sizeMax
        BY <3>1, <3>3 DEF hasCapacity
      <4> QED
        BY <1>1, <4>1, <4>2, BoundedBelowMax
    <3> QED
      BY <3>2, <3>3
  <2>6. ASSUME NEW by, NEW name, AcceptJoinRandom(r, by, name) PROVE Bounded(g)'
    <3>1. UNCHANGED <<relations, staffAdded>>
      BY <2>6 DEF AcceptJoinRandom, tables
    <3>2. CASE Accept(r, CreateRequest(by, name, None, FALSE))
      BY <2>1, <2>2, <3>1, <3>2
    <3>3. ASSUME NEW h \in JoinableGroups, Accept(r, At("addUser", by, h))
          PROVE  Bounded(g)'
      <4>1. CASE h # g
        BY <2>1, <2>3, <3>1, <3>3, <4>1
      <4>2. CASE h = g
        <5>1. Members(g)' = Members(g)
          BY <3>1 DEF Members
        <5>2. Cardinality(Members(g)) < settings.sizeMax
          BY <3>3, <4>2 DEF JoinableGroups, OpenGroups
        <5> QED
          BY <1>1, <5>1, <5>2, BoundedBelowMax
      <4> QED
        BY <4>1, <4>2
    <3> QED
      BY <2>6, <3>2, <3>3 DEF AcceptJoinRandom
  <2>7. ASSUME NEW by, NEW h, NEW dto, AcceptUpdateGroup(r, by, h, dto)
        PROVE  Bounded(g)'
    <3> DEFINE q == [at |-> "loadGroup", who |-> None, gid |-> h,
                     row |-> None, dto |-> dto]
    <3>1. q.at = "loadGroup" /\ Accept(r, q) /\ UNCHANGED <<relations, staffAdded>>
      BY <2>7 DEF AcceptUpdateGroup, tables
    <3> HIDE DEF q
    <3> QED
      BY <2>1, <3>1
  <2>8. ASSUME NEW by, NEW sel, NEW h, AcceptRemoveUser(r, by, sel, h)
        PROVE  Bounded(g)'
    BY <2>1, <2>3, <2>8 DEF AcceptRemoveUser, tables
  <2>9. ASSUME NEW by, NEW h, AcceptDeleteGroup(r, by, h) PROVE Bounded(g)'
    BY <2>1, <2>3, <2>9 DEF AcceptDeleteGroup, tables
  <2> QED
    BY <1>4, <2>4, <2>5, <2>6, <2>7, <2>8, <2>9 DEF Arrive
<1>5. ASSUME NEW r \in Requests, NEW q, req' = [req EXCEPT ![r] = q],
             q.at # "addUser", relations' \subseteq relations, staffAdded' = staffAdded
      PROVE  Bounded(g)'
  <2>1. Joining(g)' \subseteq Joining(g)
    <3>1. ~(q.at = "addUser" /\ q.gid = g)
      BY <1>5
    <3> QED
      BY <1>5, <3>1, JoiningAfter
  <2>2. Members(g)' \subseteq Members(g)
    BY <1>5 DEF Members
  <2> QED
    BY <1>1, <1>2, <1>5, <2>1, <2>2, NotGrowing
<1>6. ASSUME UNCHANGED <<req, staffAdded>>, relations' \subseteq relations
      PROVE  Bounded(g)'
  <2>1. Joining(g)' \subseteq Joining(g) /\ Members(g)' \subseteq Members(g)
    BY <1>6 DEF Joining, Members
  <2> QED
    BY <1>1, <1>2, <1>6, <2>1, NotGrowing
<1>7. ASSUME NEW r \in Requests, InsertGroup(r) PROVE Bounded(g)'
  <2>1. CASE req' = [req EXCEPT ![r] = Idle]
    BY <1>3, <1>5, <1>7, <2>1 DEF InsertGroup
  <2>2. ASSUME NEW h \in GroupIds \ usedIds,
               req' = [req EXCEPT ![r] = At("addUser", req[r].who, h)]
        PROVE  Bounded(g)'
    <3>1. UNCHANGED <<relations, staffAdded>>
      BY <1>7 DEF InsertGroup
    <3>2. CASE g = h
      <4>1. Members(g) = {}
        BY <2>2, <3>2 DEF Members, RosterIntegrity
      <4>2. Members(g)' = Members(g)
        BY <3>1 DEF Members
      <4>3. Cardinality(Members(g)) < settings.sizeMax
        BY <1>1, <4>1, FS_EmptySet
      <4> QED
        BY <1>1, <4>2, <4>3, BoundedBelowMax
    <3>3. CASE g # h
      <4>1. Joining(g)' \subseteq Joining(g)
        <5> DEFINE q == At("addUser", req[r].who, h)
        <5>1. ~(q.at = "addUser" /\ q.gid = g)
          BY <3>3 DEF At
        <5> HIDE DEF q
        <5> QED
          BY <2>2, <5>1, JoiningAfter DEF q
      <4>2. Members(g)' = Members(g)
        BY <3>1 DEF Members
      <4> QED
        BY <1>1, <1>2, <3>1, <4>1, <4>2, NotGrowing
    <3> QED
      BY <3>2, <3>3
  <2> QED
    BY <1>7, <2>1, <2>2 DEF InsertGroup
<1>8. ASSUME NEW r \in Requests, AddUser(r) PROVE Bounded(g)'
  <2> DEFINE p == req[r].who
             h == req[r].gid
  <2>1. \A s, x, y : At(s, x, y).at = s
    BY DEF At
  <2>2. CASE UNCHANGED relations
    BY <1>3, <1>5, <1>8, <2>1, <2>2 DEF AddUser
  <2>3. CASE /\ relations' = relations \cup {<<p, h>>}
             /\ req' = [req EXCEPT ![r] = At("userAdded", p, h)]
    <3>1. req[r].at = "addUser" /\ staffAdded' = staffAdded
      BY <1>8 DEF AddUser
    <3>2. Joining(g)' = Joining(g) \ {r}
      <4> DEFINE q == At("userAdded", p, h)
      <4>1. ~(q.at = "addUser" /\ q.gid = g)
        BY <2>1
      <4> HIDE DEF q
      <4> QED
        BY <2>3, <4>1, JoiningAfter DEF q
    <3>3. CASE g # h
      <4>1. Members(g)' = Members(g)
        BY <2>3, <3>3 DEF Members
      <4> QED
        BY <1>1, <1>2, <3>1, <3>2, <4>1, NotGrowing
    <3>4. CASE g = h
      <4>1. r \in Joining(g)
        BY <3>1, <3>4 DEF Joining
      <4>2. Members(g)' \subseteq Members(g) \cup {p}
        BY <2>3 DEF Members
      <4>3. /\ IsFiniteSet(Members(g)) /\ Cardinality(Members(g)) \in Nat
            /\ IsFiniteSet(Joining(g)) /\ Cardinality(Joining(g)) \in Nat
            /\ Cardinality(Requests) \in Nat
        BY SizesAreNat
      <4>4. /\ IsFiniteSet(Members(g) \cup {p})
            /\ Cardinality(Members(g) \cup {p}) <= Cardinality(Members(g)) + 1
            /\ Cardinality(Members(g) \cup {p}) \in Nat
        <5>1. IsFiniteSet(Members(g) \cup {p})
          BY <4>3, FS_AddElement
        <5>2. Cardinality(Members(g) \cup {p}) =
                IF p \in Members(g) THEN Cardinality(Members(g))
                                    ELSE Cardinality(Members(g)) + 1
          BY <4>3, FS_AddElement
        <5> QED
          BY <4>3, <5>1, <5>2
      <4>5. /\ Cardinality(Members(g)') <= Cardinality(Members(g) \cup {p})
            /\ Cardinality(Members(g)') \in Nat
        BY <4>2, <4>4, FS_Subset, FS_CardinalityType
      <4>6. Cardinality(Joining(g)') = Cardinality(Joining(g)) - 1
        BY <3>2, <4>1, <4>3, FS_RemoveElement
      <4> QED
        BY <1>1, <1>2, <3>1, <4>3, <4>4, <4>5, <4>6 DEF Bounded
    <3> QED
      BY <3>3, <3>4
  <2> QED
    BY <1>8, <2>2, <2>3 DEF AddUser
<1>9. ASSUME Exit PROVE Bounded(g)'
  <2>1. Joining(g)' = {} /\ Members(g)' = Members(g) /\ staffAdded' = staffAdded
    BY <1>3, <1>9 DEF Exit, Joining, Members, tables
  <2> QED
    BY <1>1, <1>2, <2>1, NotGrowing
<1>10. ASSUME NEW r \in Requests,
              \/ PublishUserJoined(r) \/ SaveGroup(r)
              \/ RemoveUser(r) \/ PublishUserLeft(r) \/ DeleteGroup(r)
       PROVE  Bounded(g)'
  <2>1. \A s, x, y : At(s, x, y).at = s
    BY DEF At
  <2> QED
    BY <1>3, <1>5, <1>10, <2>1 DEF PublishUserJoined, SaveGroup, RemoveUser,
       PublishUserLeft, DeleteGroup, tables
<1>11. ASSUME NEW r \in Requests, LoadGroup(r) PROVE Bounded(g)'
  <2> DEFINE q == IF req[r].gid \notin Existing THEN Idle
                  ELSE [at |-> "saveGroup", who |-> None, gid |-> req[r].gid,
                        row |-> Updated(groups[req[r].gid], req[r].dto),
                        dto |-> req[r].dto]
  <2>1. q.at # "addUser"
    BY <1>3
  <2>2. req' = [req EXCEPT ![r] = q] /\ UNCHANGED <<relations, staffAdded>>
    BY <1>11 DEF LoadGroup, tables
  <2> HIDE DEF q
  <2> QED
    BY <1>5, <2>1, <2>2
<1>12. ASSUME NEW e \in joinedEvents, HandleUserJoined(e) PROVE Bounded(g)'
  BY <1>6, <1>9, <1>12 DEF HandleUserJoined
<1>13. ASSUME NEW c \in closers, Handle(c) PROVE Bounded(g)'
  BY <1>6, <1>13 DEF Handle, CheckEmpty, LoadEmpty, CloseEmpty, tables
<1>14. ASSUME NEW p \in Participants, RemoveParticipant(p) PROVE Bounded(g)'
  BY <1>6, <1>14 DEF RemoveParticipant
<1>15. ASSUME NEW by, NEW name, CreateMultipleGroups(by, name) PROVE Bounded(g)'
  BY <1>6, <1>15 DEF CreateMultipleGroups
<1>16. CASE UNCHANGED vars
  BY <1>6, <1>16 DEF vars
<1> QED
  BY <1>4, <1>7, <1>8, <1>9, <1>10, <1>11, <1>12, <1>13, <1>14, <1>15, <1>16
     DEF Next, Proceed

(* For any number of simultaneous requests N, a group that staff has not filled
   has fewer than sizeMax + N members: the check-then-insert race of students is
   bounded by the concurrency and cannot build up over time. *)
THEOREM OvershootIsBounded == Spec => []OvershootBounded
<1>1. Init => OvershootBounded
  <2> SUFFICES ASSUME Init, settings.sizeMax > 0, NEW g \in GroupIds PROVE Bounded(g)
    BY DEF OvershootBounded, Bounded
  <2>1. Members(g) = {} /\ Joining(g) = {}
    BY DEF Init, Members, Joining, Idle
  <2>2. settings.sizeMax \in Nat
    BY ConstantsOK DEF Init, GroupSettings
  <2> QED
    BY <2>1, <2>2, SizesAreNat, FS_EmptySet DEF Bounded
<1>2. TypeOK /\ RosterIntegrity /\ OvershootBounded /\ [Next]_vars => OvershootBounded'
  BY OvershootStep
<1> QED
  BY <1>1, <1>2, TypeCorrect, RosterCorrect, PTL DEF Spec

--------------------------------------------------------------------------------
(* The roster is the one GroupRoster promises *)

(* What readers see of the members: for each participant their groups. *)
Seats == [p \in Participants |-> GroupsOf(p)]

(* A step that changes neither the set of groups nor the members. *)
LEMMA RosterStutter ==
  ASSUME Existing' = Existing, relations' = relations
  PROVE  UNCHANGED Roster!vars
BY DEF Roster!vars, GroupsOf

(* Saving a row is invisible, or the group comes back empty. *)
LEMMA SaveRowRefines ==
  ASSUME TypeOK, RosterIntegrity, NEW g \in GroupIds, NEW row \in Row,
         SaveRow(g, row), relations' = relations
  PROVE  [Roster!Next]_(Roster!vars)
<1>1. CASE groups' = groups
  <2>1. Existing' = Existing
    BY <1>1 DEF Existing
  <2> QED
    BY <2>1, RosterStutter
<1>2. CASE groups' = [groups EXCEPT ![g] = row]
  <2>1. /\ groups'[g] = row /\ row # None
        /\ \A h \in GroupIds \ {g} : groups'[h] = groups[h]
    BY <1>2, ConstantsOK DEF TypeOK
  <2>2. Existing' = Existing \cup {g}
    BY <2>1 DEF Existing
  <2>3. CASE g \in Existing
    BY <2>2, <2>3, RosterStutter
  <2>4. CASE g \notin Existing
    <3>1. Roster!Found({g})
      BY <2>2, <2>4 DEF Roster!Found, GroupsOf
    <3> QED
      BY <3>1 DEF Roster!Next
  <2> QED
    BY <2>3, <2>4
<1> QED
  BY <1>1, <1>2 DEF SaveRow

LEMMA RosterRefinementStep ==
  ASSUME TypeOK, RosterIntegrity, [Next]_vars
  PROVE  [Roster!Next]_(Roster!vars)
<1> USE DEF tables
<1>1. ASSUME UNCHANGED <<groups, relations>> PROVE [Roster!Next]_(Roster!vars)
  <2>1. Existing' = Existing
    BY <1>1 DEF Existing
  <2> QED
    BY <1>1, <2>1, RosterStutter
<1>2. ASSUME NEW r \in Requests, Arrive(r) PROVE [Roster!Next]_(Roster!vars)
  BY <1>1, <1>2 DEF Arrive, AcceptCreateGroup, AcceptAddUser, AcceptJoinRandom,
     AcceptUpdateGroup, AcceptRemoveUser, AcceptDeleteGroup
<1>3. ASSUME NEW r \in Requests, InsertGroup(r) PROVE [Roster!Next]_(Roster!vars)
  <2>1. CASE groups' = groups
    BY <1>1, <1>3, <2>1 DEF InsertGroup
  <2>2. ASSUME NEW g \in GroupIds \ usedIds, groups' = [groups EXCEPT ![g] = req[r].row]
        PROVE  [Roster!Next]_(Roster!vars)
    <3>1. req[r].row \in Row /\ g \notin Existing
      BY <1>3, <2>2 DEF InsertGroup, TypeOK, RequestOK, RosterIntegrity
    <3>2. /\ groups'[g] = req[r].row /\ req[r].row # None
          /\ \A h \in GroupIds \ {g} : groups'[h] = groups[h]
      BY <2>2, <3>1, ConstantsOK DEF TypeOK
    <3>3. Existing' = Existing \cup {g}
      BY <3>2 DEF Existing
    <3>4. Roster!Found({g})
      BY <1>3, <3>1, <3>3 DEF Roster!Found, GroupsOf, InsertGroup
    <3> QED
      BY <3>4 DEF Roster!Next
  <2> QED
    BY <1>3, <2>1, <2>2 DEF InsertGroup
<1>4. ASSUME NEW r \in Requests, AddUser(r) PROVE [Roster!Next]_(Roster!vars)
  <2> DEFINE p == req[r].who
             g == req[r].gid
  <2>1. groups' = groups /\ p \in Participants /\ g \in GroupIds
    BY <1>4 DEF AddUser, TypeOK, RequestOK
  <2>2. CASE relations' = relations
    BY <1>1, <2>1, <2>2
  <2>3. CASE /\ p \in enrolled /\ g \in Existing /\ ~ViolatesUnique(p)
             /\ relations' = relations \cup {<<p, g>>}
    <3>1. Existing' = Existing
      BY <2>1 DEF Existing
    <3>2. GroupsOf(p) = {}
      BY <2>3 DEF ViolatesUnique, hasNoGroup
    <3>3. \A x \in Participants : GroupsOf(x)' = IF x = p THEN {g} ELSE GroupsOf(x)
      BY <2>1, <2>3, <3>2 DEF GroupsOf
    <3>4. Seats' = [Seats EXCEPT ![p] = {g}]
      BY <2>1, <3>3 DEF Seats
    <3>5. Roster!Sit(p, g)
      BY <2>1, <2>3, <3>1, <3>2, <3>4 DEF Roster!Sit, Seats
    <3> QED
      BY <2>1, <3>5 DEF Roster!Next
  <2> QED
    BY <1>4, <2>2, <2>3 DEF AddUser
<1>5. ASSUME NEW r \in Requests, RemoveUser(r) PROVE [Roster!Next]_(Roster!vars)
  <2> DEFINE p == req[r].who
             g == req[r].gid
  <2>1. /\ groups' = groups /\ p \in Participants /\ g \in GroupIds
        /\ relations' = relations \ {<<p, g>>}
    BY <1>5 DEF RemoveUser, TypeOK, RequestOK
  <2>2. CASE <<p, g>> \notin relations
    BY <1>1, <2>1, <2>2
  <2>3. CASE <<p, g>> \in relations
    <3>1. Existing' = Existing
      BY <2>1 DEF Existing
    <3>2. GroupsOf(p) = {g}
      BY <2>1, <2>3 DEF GroupsOf, RosterIntegrity
    <3>3. \A x \in Participants : GroupsOf(x)' = IF x = p THEN {} ELSE GroupsOf(x)
      BY <2>1, <3>2 DEF GroupsOf
    <3>4. Seats' = [Seats EXCEPT ![p] = {}]
      BY <2>1, <3>3 DEF Seats
    <3>5. Roster!Leave(p)
      BY <2>1, <3>1, <3>2, <3>4 DEF Roster!Leave, Seats
    <3> QED
      BY <2>1, <3>5 DEF Roster!Next
  <2> QED
    BY <2>2, <2>3
<1>6. ASSUME NEW r \in Requests, SaveGroup(r) PROVE [Roster!Next]_(Roster!vars)
  <2>1. req[r].gid \in GroupIds /\ req[r].row \in Row
    BY <1>6 DEF SaveGroup, TypeOK, RequestOK
  <2> QED
    BY <1>6, <2>1, SaveRowRefines DEF SaveGroup
<1>7. ASSUME NEW c \in closers, CloseEmpty(c) PROVE [Roster!Next]_(Roster!vars)
  <2>1. c.gid \in GroupIds /\ c.row \in Row
    BY <1>7 DEF CloseEmpty, TypeOK, Closer
  <2> QED
    BY <1>7, <2>1, SaveRowRefines DEF CloseEmpty
<1>8. ASSUME NEW r \in Requests, DeleteGroup(r) PROVE [Roster!Next]_(Roster!vars)
  <2> DEFINE g == req[r].gid
  <2>1. /\ g \in GroupIds /\ groups' = [groups EXCEPT ![g] = None]
        /\ relations' = {e \in relations : e[2] # g}
    BY <1>8 DEF DeleteGroup, TypeOK, RequestOK
  <2>2. Existing' = Existing \ {g}
    BY <2>1 DEF Existing, TypeOK
  <2>3. \A x \in Participants : GroupsOf(x)' = GroupsOf(x) \ {g}
    BY <2>1 DEF GroupsOf
  <2>4. CASE g \in Existing
    <3>1. Roster!Dissolve(g)
      BY <2>2, <2>3, <2>4 DEF Roster!Dissolve
    <3> QED
      BY <2>1, <3>1 DEF Roster!Next
  <2>5. CASE g \notin Existing
    <3>1. relations' = relations
      BY <2>1, <2>5 DEF RosterIntegrity
    <3> QED
      BY <2>2, <2>5, <3>1, RosterStutter
  <2> QED
    BY <2>4, <2>5
<1>9. ASSUME NEW p \in Participants, RemoveParticipant(p)
      PROVE  [Roster!Next]_(Roster!vars)
  <2>1. groups' = groups /\ relations' = {e \in relations : e[1] # p}
    BY <1>9 DEF RemoveParticipant
  <2>2. Existing' = Existing
    BY <2>1 DEF Existing
  <2>3. \A x \in Participants : GroupsOf(x)' = IF x = p THEN {} ELSE GroupsOf(x)
    BY <2>1 DEF GroupsOf
  <2>4. CASE GroupsOf(p) = {}
    <3>1. Seats' = Seats
      BY <2>3, <2>4 DEF Seats
    <3> QED
      BY <2>2, <3>1 DEF Roster!vars, Seats
  <2>5. CASE GroupsOf(p) # {}
    <3>1. Seats' = [Seats EXCEPT ![p] = {}]
      BY <2>3 DEF Seats
    <3>2. Roster!Leave(p)
      BY <2>2, <2>5, <3>1 DEF Roster!Leave, Seats
    <3> QED
      BY <3>2 DEF Roster!Next
  <2> QED
    BY <2>4, <2>5
<1>10. ASSUME NEW by \in Participants, NEW ids \in SUBSET GroupIds,
              NEW name \in [ids -> Names], CreateMultipleGroups(by, name)
       PROVE  [Roster!Next]_(Roster!vars)
  <2>1. /\ ids # {} /\ ids \cap usedIds = {} /\ relations' = relations
        /\ groups' = [g \in GroupIds |->
                        IF g \in ids THEN NewRow(FALSE, name[g], None, FALSE)
                                     ELSE groups[g]]
    BY <1>10 DEF CreateMultipleGroups
  <2>2. \A g \in ids : groups'[g] # None
    <3> SUFFICES ASSUME NEW g \in ids PROVE groups'[g] # None
      OBVIOUS
    <3>1. groups'[g] = NewRow(FALSE, name[g], None, FALSE) /\ name[g] \in Names
      BY <2>1
    <3> QED
      BY <3>1, NewRowIsRow, ConstantsOK
  <2>3. Existing' = Existing \cup ids
    BY <2>1, <2>2 DEF Existing
  <2>4. ids \cap Existing = {}
    BY <2>1 DEF RosterIntegrity
  <2>5. Roster!Found(ids)
    BY <2>1, <2>3, <2>4 DEF Roster!Found, GroupsOf
  <2> QED
    BY <2>5 DEF Roster!Next
<1>11. ASSUME NEW r \in Requests,
              \/ PublishUserJoined(r) \/ LoadGroup(r) \/ PublishUserLeft(r)
       PROVE  [Roster!Next]_(Roster!vars)
  BY <1>1, <1>11 DEF PublishUserJoined, LoadGroup, PublishUserLeft
<1>12. CASE Exit
  BY <1>1, <1>12 DEF Exit
<1>13. ASSUME NEW e \in joinedEvents, HandleUserJoined(e)
       PROVE  [Roster!Next]_(Roster!vars)
  BY <1>1, <1>13 DEF HandleUserJoined, Exit
<1>14. ASSUME NEW c \in closers, CheckEmpty(c) \/ LoadEmpty(c)
       PROVE  [Roster!Next]_(Roster!vars)
  BY <1>1, <1>14 DEF CheckEmpty, LoadEmpty
<1>15. CASE UNCHANGED vars
  BY <1>1, <1>15 DEF vars
<1> QED
  BY <1>2, <1>3, <1>4, <1>5, <1>6, <1>7, <1>8, <1>9, <1>10, <1>11, <1>12, <1>13,
     <1>14, <1>15 DEF Next, Proceed, Handle

(* Readers of the group tables see a GroupRoster at all times: each write of a
   request, a handler or a cascade is one step of that roster, or invisible. *)
THEOREM RosterRefinement == Spec => ImplementsRoster
<1>1. Init => Roster!Init
  BY DEF Init, Roster!Init, Existing, GroupsOf
<1>2. TypeOK /\ RosterIntegrity /\ [Next]_vars => [Roster!Next]_(Roster!vars)
  BY RosterRefinementStep
<1> QED
  BY <1>1, <1>2, TypeCorrect, RosterCorrect, PTL DEF Spec, ImplementsRoster, Roster!Spec
================================================================================
