---------------------- MODULE AssignmentRegistrationProofs ----------------------
(****************************************************************************)
(* Proofs about AssignmentRegistration: its types, the integrity of the     *)
(* registrations, and that only one start registers the groups.             *)
(****************************************************************************)
EXTENDS AssignmentRegistration, TLAPS

--------------------------------------------------------------------------------
(* Type correctness *)

(* What one query over the roster tables returns is a snapshot. *)
LEMMA CurrentGroupsTyped ==
  ASSUME TypeOK
  PROVE  CurrentGroups \in Snapshot /\ DOMAIN CurrentGroups = open
BY DEF CurrentGroups, Members, Snapshot, TypeOK

(* A snapshot gives a set of participants to each of some groups. *)
LEMMA SnapshotTyped ==
  ASSUME NEW groups \in Snapshot
  PROVE  /\ DOMAIN groups \subseteq GroupIds
         /\ \A g \in DOMAIN groups : groups[g] \subseteq Participants
BY DEF Snapshot

(* Merging makes a snapshot of a snapshot. *)
LEMMA MergeTyped ==
  ASSUME NEW groups \in Snapshot, NEW f \in MergeResults(groups)
  PROVE  f \in Snapshot
BY DEF MergeResults, Snapshot

(* What a step leaves in a slot is a call. *)
LEMMA CallsTyped ==
  /\ Idle \in Call /\ CallOK(Idle) /\ Idle.at = "idle"
  /\ \A stage \in {"check", "read"} :
       /\ Suspended(stage) \in Call /\ CallOK(Suspended(stage))
       /\ Suspended(stage).at = stage
  /\ \A stage \in {"merge", "insert", "insertGroup"}, groups \in Snapshot :
       /\ Holding(stage, groups) \in Call /\ CallOK(Holding(stage, groups))
       /\ Holding(stage, groups).at = stage
       /\ Holding(stage, groups).groups = groups
BY DEF Idle, Suspended, Holding, Call, CallOK, Stages

(* Changing one slot keeps the type of call and the other slots. *)
LEMMA GotoTyped ==
  ASSUME TypeOK, NEW s \in Calls, NEW c \in Call, CallOK(c), Goto(s, c)
  PROVE  /\ call' \in [Calls -> Call]
         /\ \A t \in Calls : CallOK(call'[t])
         /\ call'[s] = c
         /\ \A t \in Calls \ {s} : call'[t] = call[t]
<1>1. call \in [Calls -> Call] /\ \A t \in Calls : CallOK(call[t])
  BY DEF TypeOK
<1>2. call' \in [Calls -> Call] /\ call'[s] = c
  BY <1>1 DEF Goto
<1>3. \A t \in Calls \ {s} : call'[t] = call[t]
  BY <1>1 DEF Goto
<1> QED
  BY <1>1, <1>2, <1>3

(* A step of GroupRoster keeps the types of its tables. *)
LEMMA RosterTyped ==
  ASSUME TypeOK, Course!Next
  PROVE  open' \subseteq GroupIds /\ seat' \in [Participants -> SUBSET GroupIds]
<1> USE DEF TypeOK
<1>1. ASSUME NEW G \in SUBSET GroupIds, Course!Found(G)
      PROVE  open' \subseteq GroupIds /\ seat' \in [Participants -> SUBSET GroupIds]
  BY <1>1 DEF Course!Found
<1>2. ASSUME NEW p \in Participants, NEW g \in GroupIds, Course!Sit(p, g)
      PROVE  open' \subseteq GroupIds /\ seat' \in [Participants -> SUBSET GroupIds]
  BY <1>2 DEF Course!Sit
<1>3. ASSUME NEW p \in Participants, Course!Leave(p)
      PROVE  open' \subseteq GroupIds /\ seat' \in [Participants -> SUBSET GroupIds]
  BY <1>3 DEF Course!Leave
<1>4. ASSUME NEW g \in GroupIds, Course!Dissolve(g)
      PROVE  open' \subseteq GroupIds /\ seat' \in [Participants -> SUBSET GroupIds]
  BY <1>4 DEF Course!Dissolve
<1> QED
  BY <1>1, <1>2, <1>3, <1>4 DEF Course!Next

(* Registering a snapshot keeps the types of the registration tables. *)
LEMMA RegisterTyped ==
  ASSUME TypeOK, NEW groups \in Snapshot, Register(groups)
  PROVE  registered' \subseteq GroupIds /\ relations' \subseteq Participants \X GroupIds
BY SnapshotTyped DEF Register, Pairs, TypeOK

(* In every reachable state the tables and the calls have their types: what a call
   has read before an await is still what the code after it expects. *)
THEOREM TypeCorrect == Spec => []TypeOK
<1>1. Init => TypeOK
  <2> SUFFICES ASSUME Init PROVE TypeOK
    OBVIOUS
  <2>1. call \in [Calls -> Call] /\ \A s \in Calls : CallOK(call[s])
    BY CallsTyped DEF Init
  <2>2. seat \in [Participants -> SUBSET GroupIds]
    BY ConstantsOK DEF Init
  <2>3. state \in States \cup {None}
    BY DEF Init, States
  <2> QED
    BY <2>1, <2>2, <2>3, ConstantsOK DEF Init, TypeOK
<1>2. TypeOK /\ [Next]_vars => TypeOK'
  <2> SUFFICES ASSUME TypeOK, [Next]_vars PROVE TypeOK'
    OBVIOUS
  <2> USE DEF roster
  <2>1. ASSUME NEW s \in Calls, NEW c \in Call, CallOK(c), Goto(s, c),
               UNCHANGED <<roster, state, registered, relations, merge>>,
               edited' \in BOOLEAN
        PROVE  TypeOK'
    BY <2>1, GotoTyped DEF TypeOK
  <2>2. ASSUME NEW s \in Calls, Arrive(s) PROVE TypeOK'
    <3>1. ASSUME NEW new \in Wanted, RequestUpdate(s, new) PROVE TypeOK'
      <4> DEFINE c == [at |-> "save", old |-> state, new |-> new, groups |-> None]
      <4>1. c \in Call /\ CallOK(c)
        BY ConstantsOK DEF Call, CallOK, Stages, TypeOK
      <4> QED
        BY <2>1, <3>1, <4>1 DEF RequestUpdate, TypeOK
    <3>2. CASE RequestRegisterAll(s)
      BY <2>1, <3>2, CallsTyped DEF RequestRegisterAll, TypeOK
    <3>3. ASSUME NEW g \in GroupIds, RequestRegisterGroup(s, g) PROVE TypeOK'
      <4>1. [h \in {g} |-> Members(h)] \in Snapshot
        <5>1. [h \in {g} |-> Members(h)] \in [{g} -> SUBSET Participants]
          BY DEF Members
        <5> QED
          BY <5>1 DEF Snapshot
      <4> QED
        BY <2>1, <3>3, <4>1, CallsTyped DEF RequestRegisterGroup
    <3> QED
      BY <2>2, <3>1, <3>2, <3>3 DEF Arrive
  <2>3. ASSUME NEW s \in Calls, Proceed(s) PROVE TypeOK'
    <3>1. CASE SaveState(s)
      <4>1. PICK c \in {Suspended("check"), Idle} : Goto(s, c)
        BY <3>1 DEF SaveState
      <4>2. c \in Call /\ CallOK(c)
        BY CallsTyped
      <4>3. call[s].at = "save" => call[s].new \in States
        BY DEF TypeOK, CallOK
      <4> QED
        BY <3>1, <4>1, <4>2, <4>3, GotoTyped DEF SaveState, TypeOK
    <3>2. CASE CheckFirstStart(s)
      BY <2>1, <3>2, CallsTyped DEF CheckFirstStart, TypeOK
    <3>3. CASE ReadGroups(s)
      BY <2>1, <3>3, CallsTyped, CurrentGroupsTyped DEF ReadGroups, TypeOK
    <3>4. CASE MergeGroups(s)
      <4>1. call[s].groups \in Snapshot
        BY <3>4 DEF MergeGroups, TypeOK, CallOK
      <4>2. PICK c \in Call : CallOK(c) /\ Goto(s, c)
        BY <3>4, <4>1, MergeTyped, CallsTyped DEF MergeGroups
      <4> QED
        BY <2>1, <3>4, <4>2 DEF MergeGroups, TypeOK
    <3>5. CASE CreateRegistrations(s) \/ CreateGroupRegistration(s)
      <4>1. call[s].groups \in Snapshot
        BY <3>5 DEF CreateRegistrations, CreateGroupRegistration, TypeOK, CallOK
      <4>2. registered' \subseteq GroupIds /\ relations' \subseteq Participants \X GroupIds
        BY <3>5, <4>1, RegisterTyped
           DEF CreateRegistrations, CreateGroupRegistration, TypeOK
      <4> QED
        BY <3>5, <4>2, GotoTyped, CallsTyped
           DEF CreateRegistrations, CreateGroupRegistration, TypeOK
    <3> QED
      BY <2>3, <3>1, <3>2, <3>3, <3>4, <3>5 DEF Proceed
  <2>4. CASE EditRegistrations
    <3>1. ASSUME NEW p \in Participants, NEW g \in GroupIds, RegisterUser(p, g)
          PROVE  TypeOK'
      BY <3>1 DEF RegisterUser, TypeOK
    <3>2. ASSUME NEW p \in Participants, UnregisterUser(p) PROVE TypeOK'
      BY <3>2 DEF UnregisterUser, TypeOK
    <3>3. ASSUME NEW g \in GroupIds, UnregisterGroup(g) PROVE TypeOK'
      BY <3>3 DEF UnregisterGroup, TypeOK
    <3>4. CASE RemoveAllRegistrations
      BY <3>4 DEF RemoveAllRegistrations, TypeOK
    <3> QED
      BY <2>4, <3>1, <3>2, <3>3, <3>4 DEF EditRegistrations
  <2>5. CASE ChangeRoster
    BY <2>5, RosterTyped DEF ChangeRoster, TypeOK
  <2>6. ASSUME NEW p \in Participants, RemoveParticipant(p) PROVE TypeOK'
    BY <2>6 DEF RemoveParticipant, TypeOK
  <2>7. CASE DeleteAssignment
    BY <2>7 DEF DeleteAssignment, TypeOK
  <2>8. CASE Exit
    BY <2>8, CallsTyped DEF Exit, TypeOK
  <2>9. CASE UNCHANGED vars
    BY <2>9 DEF vars, TypeOK
  <2> QED
    BY <2>2, <2>3, <2>4, <2>5, <2>6, <2>7, <2>8, <2>9 DEF Next
<1> QED
  BY <1>1, <1>2, PTL DEF Spec

--------------------------------------------------------------------------------
(* Integrity of the registrations *)

(* Inserting what the indexes and foreign keys admit keeps the tables intact. *)
LEMMA RegisterIntact ==
  ASSUME TypeOK, RegistrationIntegrity,
         NEW groups \in Snapshot, Insertable(groups), Register(groups),
         UNCHANGED <<roster, state>>
  PROVE  RegistrationIntegrity'
<1> USE DEF roster
<1>1. DOMAIN groups \subseteq open /\ state # None
  BY DEF Insertable
<1>2. ASSUME NEW e \in relations' PROVE e[1] \in enrolled' /\ e[2] \in registered'
  <2>1. CASE e \in relations
    BY <2>1 DEF RegistrationIntegrity, Register
  <2>2. CASE e \in Pairs(groups)
    BY <2>2 DEF Insertable, Register, Pairs
  <2> QED
    BY <1>2, <2>1, <2>2 DEF Register
<1>3. ASSUME NEW e \in relations', NEW f \in relations', e[1] = f[1] PROVE e = f
  <2>1. ASSUME NEW a \in relations, NEW b \in Pairs(groups) PROVE a[1] # b[1]
    BY <2>1 DEF Insertable, Pairs, IsRegistered
  <2>2. ASSUME NEW a \in Pairs(groups), NEW b \in Pairs(groups), a[1] = b[1]
        PROVE  a = b
    <3>1. /\ a \in Participants \X GroupIds /\ b \in Participants \X GroupIds
          /\ a[2] \in DOMAIN groups /\ b[2] \in DOMAIN groups
          /\ a[1] \in groups[a[2]] \cap groups[b[2]]
      BY <2>2 DEF Pairs
    <3>2. a[2] = b[2]
      BY <3>1 DEF Insertable
    <3> QED
      BY <2>2, <3>1, <3>2
  <2> QED
    BY <1>3, <2>1, <2>2 DEF Register, RegistrationIntegrity
<1> QED
  BY <1>1, <1>2, <1>3 DEF RegistrationIntegrity, Register

(* A course that founds and dissolves groups keeps the ids it has used. *)
LEMMA ChangeRosterIntact ==
  ASSUME TypeOK, RegistrationIntegrity, ChangeRoster
  PROVE  RegistrationIntegrity'
BY DEF ChangeRoster, RegistrationIntegrity, TypeOK

(* Whatever interleaves, nobody is registered twice and no registration outlives
   its group, its assignment or its participant. *)
THEOREM IntegrityKept == Spec => []RegistrationIntegrity
<1>1. Init => RegistrationIntegrity
  BY DEF Init, RegistrationIntegrity
<1>2. TypeOK /\ RegistrationIntegrity /\ [Next]_vars => RegistrationIntegrity'
  <2> SUFFICES ASSUME TypeOK, RegistrationIntegrity, [Next]_vars
               PROVE  RegistrationIntegrity'
    OBVIOUS
  <2> USE DEF roster
  <2>1. ASSUME UNCHANGED <<roster, registered, relations>>,
               state' # None \/ state' = state
        PROVE  RegistrationIntegrity'
    BY <2>1 DEF RegistrationIntegrity
  <2>2. ASSUME NEW s \in Calls, Arrive(s) PROVE RegistrationIntegrity'
    BY <2>1, <2>2 DEF Arrive, RequestUpdate, RequestRegisterAll, RequestRegisterGroup
  <2>3. ASSUME NEW s \in Calls, Proceed(s) PROVE RegistrationIntegrity'
    <3>1. CASE SaveState(s)
      <4>1. call[s].at = "save" => call[s].new \in States
        BY DEF TypeOK, CallOK
      <4> QED
        BY <2>1, <3>1, <4>1, ConstantsOK DEF SaveState
    <3>2. CASE CheckFirstStart(s) \/ ReadGroups(s) \/ MergeGroups(s)
      BY <2>1, <3>2 DEF CheckFirstStart, ReadGroups, MergeGroups
    <3>3. CASE CreateRegistrations(s) \/ CreateGroupRegistration(s)
      <4>1. call[s].groups \in Snapshot
        BY <3>3 DEF CreateRegistrations, CreateGroupRegistration, TypeOK, CallOK
      <4>2. CASE Insertable(call[s].groups)
        BY <3>3, <4>1, <4>2, RegisterIntact
           DEF CreateRegistrations, CreateGroupRegistration
      <4>3. CASE ~Insertable(call[s].groups)
        BY <2>1, <3>3, <4>3 DEF CreateRegistrations, CreateGroupRegistration
      <4> QED
        BY <4>2, <4>3
    <3> QED
      BY <2>3, <3>1, <3>2, <3>3 DEF Proceed
  <2>4. CASE EditRegistrations
    <3>1. ASSUME NEW p \in Participants, NEW g \in GroupIds, RegisterUser(p, g)
          PROVE  RegistrationIntegrity'
      BY <3>1 DEF RegisterUser, IsRegistered, RegistrationIntegrity
    <3>2. ASSUME NEW p \in Participants, UnregisterUser(p)
          PROVE  RegistrationIntegrity'
      BY <3>2 DEF UnregisterUser, RegistrationIntegrity
    <3>3. ASSUME NEW g \in GroupIds, UnregisterGroup(g)
          PROVE  RegistrationIntegrity'
      BY <3>3 DEF UnregisterGroup, RegistrationIntegrity
    <3>4. CASE RemoveAllRegistrations
      BY <3>4 DEF RemoveAllRegistrations, RegistrationIntegrity
    <3> QED
      BY <2>4, <3>1, <3>2, <3>3, <3>4 DEF EditRegistrations
  <2>5. CASE ChangeRoster
    BY <2>5, ChangeRosterIntact
  <2>6. ASSUME NEW p \in Participants, RemoveParticipant(p)
        PROVE  RegistrationIntegrity'
    BY <2>6 DEF RemoveParticipant, RegistrationIntegrity
  <2>7. CASE DeleteAssignment
    BY <2>7 DEF DeleteAssignment, RegistrationIntegrity
  <2>8. CASE Exit \/ UNCHANGED vars
    BY <2>1, <2>8 DEF Exit, vars
  <2> QED
    BY <2>2, <2>3, <2>4, <2>5, <2>6, <2>7, <2>8 DEF Next
<1> QED
  BY <1>1, <1>2, TypeCorrect, PTL DEF Spec

--------------------------------------------------------------------------------
(* Only one start registers the groups *)

Inserting(s) == call[s].at = "insert"

Inserted(s) == DOMAIN call[s].groups

(* The groups that have existed all the time since they were created. *)
Lasting == open \ revived

Nested(A, B) == A \cap Lasting \subseteq B \/ B \cap Lasting \subseteq A

(* Why only one start succeeds.  A call that is about to insert holds all groups there
   were when it read them, so of those that have lasted since, a later reader holds
   these and perhaps more; and so do the registrations, which one such call has made. *)
StartsOrdered ==
  /\ \A s \in Calls : call[s].at = "merge" => merge
  /\ \A s \in Calls : call[s].at = "insertGroup" => edited
  /\ ~merge =>
       /\ \A s \in Calls : Inserting(s) => Inserted(s) \subseteq usedIds
       /\ \A s, t \in Calls :
            Inserting(s) /\ Inserting(t) => Nested(Inserted(s), Inserted(t))
       /\ ~edited => \A s \in Calls : Inserting(s) => Nested(Inserted(s), registered)

(* What a step may do that inserts nothing: groups may disappear and appear, under new
   ids or as revived ones, registrations may go with their groups or all together, and
   slots may change to where they hold no groups for an insert. *)
LEMMA StaysOrdered ==
  ASSUME TypeOK, RegistrationIntegrity, StartsOrdered, merge' = merge,
         usedIds \subseteq usedIds',
         revived \subseteq revived',
         (open' \ open) \cap usedIds \subseteq revived',
         edited => edited',
         ~edited' => registered' \in {{}, registered, registered \cap open'},
         \A s \in Calls :
           \/ call'[s] = call[s]
           \/ /\ call'[s].at \notin {"merge", "insert"}
              /\ call'[s].at = "insertGroup" => edited'
  PROVE  StartsOrdered'
<1>1. \A s \in Calls : Inserting(s)' => Inserting(s) /\ Inserted(s)' = Inserted(s)
  BY DEF Inserting, Inserted
<1>2. /\ \A s \in Calls : call'[s].at = "merge" => merge'
      /\ \A s \in Calls : call'[s].at = "insertGroup" => edited'
  BY DEF StartsOrdered
<1>3. Lasting' \cap usedIds \subseteq Lasting
  BY DEF Lasting
<1>4. ASSUME ~merge', NEW s \in Calls, Inserting(s)'
      PROVE  Inserted(s)' = Inserted(s) /\ Inserted(s) \subseteq usedIds
  BY <1>1, <1>4 DEF StartsOrdered
<1>5. ASSUME NEW A \in SUBSET usedIds, NEW B \in SUBSET usedIds, Nested(A, B)
      PROVE  A \cap Lasting' \subseteq B \/ B \cap Lasting' \subseteq A
  BY <1>3, <1>5 DEF Nested
<1>6. ASSUME ~merge', NEW s \in Calls, NEW t \in Calls, Inserting(s)', Inserting(t)'
      PROVE  Nested(Inserted(s), Inserted(t))'
  BY <1>1, <1>4, <1>5, <1>6 DEF StartsOrdered, Nested
<1>7. ASSUME ~merge', ~edited', NEW s \in Calls, Inserting(s)'
      PROVE  Nested(Inserted(s), registered)'
  <2>1. registered \subseteq usedIds
    BY DEF RegistrationIntegrity
  <2>2. Nested(Inserted(s), registered)
    BY <1>1, <1>7 DEF StartsOrdered
  <2>3. \/ Inserted(s) \cap Lasting' \subseteq registered
        \/ registered \cap Lasting' \subseteq Inserted(s)
    BY <1>4, <1>5, <1>7, <2>1, <2>2
  <2>4. Lasting' \subseteq open'
    BY DEF Lasting
  <2>5. registered' = {} \/ registered' \cap Lasting' = registered \cap Lasting'
    BY <1>7, <2>4
  <2> QED
    BY <1>4, <1>7, <2>3, <2>5 DEF Nested
<1> QED
  BY <1>2, <1>4, <1>6, <1>7 DEF StartsOrdered

(* A call that reads the groups holds all there are. *)
LEMMA ReadStaysOrdered ==
  ASSUME TypeOK, RegistrationIntegrity, StartsOrdered,
         NEW s \in Calls, ReadGroups(s)
  PROVE  StartsOrdered'
<1> DEFINE c == Holding(IF merge THEN "merge" ELSE "insert", CurrentGroups)
<1>1. /\ c.at = IF merge THEN "merge" ELSE "insert"
      /\ c.groups = CurrentGroups
      /\ c \in Call /\ CallOK(c)
  BY CallsTyped, CurrentGroupsTyped
<1>2. /\ call'[s] = c
      /\ \A t \in Calls \ {s} : call'[t] = call[t]
      /\ UNCHANGED <<roster, registered, merge, edited>>
  BY <1>1, GotoTyped DEF ReadGroups
<1>3. CASE merge
  BY <1>1, <1>2, <1>3 DEF StartsOrdered, Inserting, Inserted
<1>4. CASE ~merge
  <2>1. Inserting(s)' /\ Inserted(s)' = open
    BY <1>1, <1>2, <1>4, CurrentGroupsTyped DEF Inserting, Inserted
  <2>2. \A t \in Calls \ {s} :
          (Inserting(t)' <=> Inserting(t)) /\ Inserted(t)' = Inserted(t)
    BY <1>2 DEF Inserting, Inserted
  <2>3. open \subseteq usedIds /\ Lasting \subseteq open
    BY DEF RegistrationIntegrity, Lasting
  <2>4. Lasting' = Lasting /\ usedIds' = usedIds
    BY <1>2 DEF Lasting, roster
  <2>5. /\ \A t \in Calls : call'[t].at = "merge" => merge'
        /\ \A t \in Calls : call'[t].at = "insertGroup" => edited'
    BY <1>1, <1>2, <1>4 DEF StartsOrdered
  <2>6. \A t \in Calls : Inserting(t)' => Inserted(t)' \subseteq usedIds'
    BY <1>2, <1>4, <2>1, <2>2, <2>3, <2>4 DEF StartsOrdered
  <2>7. ASSUME NEW t \in Calls, NEW u \in Calls, Inserting(t)', Inserting(u)'
        PROVE  Nested(Inserted(t), Inserted(u))'
    <3>1. CASE t = s \/ u = s
      BY <2>1, <2>3, <2>4, <3>1 DEF Nested
    <3>2. CASE t # s /\ u # s
      BY <1>2, <1>4, <2>2, <2>4, <2>7, <3>2 DEF StartsOrdered, Nested
    <3> QED
      BY <3>1, <3>2
  <2>8. ASSUME ~edited', NEW t \in Calls, Inserting(t)'
        PROVE  Nested(Inserted(t), registered)'
    <3>1. CASE t = s
      BY <2>1, <2>3, <2>4, <3>1 DEF Nested
    <3>2. CASE t # s
      BY <1>2, <1>4, <2>2, <2>4, <2>8, <3>2 DEF StartsOrdered, Nested
    <3> QED
      BY <3>1, <3>2
  <2> QED
    BY <2>5, <2>6, <2>7, <2>8 DEF StartsOrdered
<1> QED
  BY <1>3, <1>4

(* What a start inserts is not nested with what is registered, unless one of the two is
   empty as far as lasting groups go. *)
LEMMA FirstInsert ==
  ASSUME RegistrationIntegrity, StartsOrdered, ~merge, ~edited, NEW s \in Calls,
         Inserting(s), Insertable(call[s].groups)
  PROVE  /\ Inserted(s) \subseteq open
         /\ Inserted(s) \cap Lasting = {} \/ registered \cap Lasting = {}
<1>1. Inserted(s) \subseteq open /\ Inserted(s) \cap registered = {}
  BY DEF Insertable, Inserted
<1>2. Nested(Inserted(s), registered)
  BY DEF StartsOrdered
<1> QED
  BY <1>1, <1>2 DEF Nested

(* The first insert keeps the order of the others. *)
LEMMA InsertStaysOrdered ==
  ASSUME TypeOK, RegistrationIntegrity, StartsOrdered, NEW s \in Calls,
         CreateRegistrations(s)
  PROVE  StartsOrdered'
<1>1. /\ Inserting(s)
      /\ call'[s].at = "idle"
      /\ \A t \in Calls \ {s} : call'[t] = call[t]
      /\ UNCHANGED <<roster, merge, edited>>
  BY CallsTyped, GotoTyped DEF CreateRegistrations, Inserting
<1> USE DEF roster
<1>2. CASE edited \/ ~Insertable(call[s].groups)
  <2>1. ~edited' => registered' = registered
    BY <1>1, <1>2 DEF CreateRegistrations
  <2>2. (open' \ open) \cap usedIds \subseteq revived'
    BY <1>1
  <2> QED
    BY <1>1, <2>1, <2>2, StaysOrdered
<1>3. CASE merge
  BY <1>1, <1>3 DEF StartsOrdered
<1>4. CASE ~merge /\ ~edited /\ Insertable(call[s].groups)
  <2>1. /\ registered' = registered \cup Inserted(s)
        /\ Inserted(s) \cap Lasting = {} \/ registered \cap Lasting = {}
    BY <1>1, <1>4, FirstInsert DEF CreateRegistrations, Register, Inserted
  <2>2. \A t \in Calls : Inserting(t)' => Inserting(t) /\ Inserted(t)' = Inserted(t)
    BY <1>1 DEF Inserting, Inserted
  <2>3. /\ \A t \in Calls : call'[t].at = "merge" => merge'
        /\ \A t \in Calls : call'[t].at = "insertGroup" => edited'
    BY <1>1 DEF StartsOrdered
  <2>4. Lasting' = Lasting /\ usedIds' = usedIds
    BY <1>1 DEF Lasting
  <2>5. /\ \A t \in Calls : Inserting(t)' => Inserted(t)' \subseteq usedIds'
        /\ \A t, u \in Calls :
             Inserting(t)' /\ Inserting(u)' => Nested(Inserted(t), Inserted(u))'
    BY <1>4, <2>2, <2>4 DEF StartsOrdered, Nested
  <2>6. ASSUME NEW t \in Calls, Inserting(t)' PROVE Nested(Inserted(t), registered)'
    <3>1. Nested(Inserted(t), registered) /\ Nested(Inserted(t), Inserted(s))
      BY <1>1, <1>4, <2>2, <2>6 DEF StartsOrdered
    <3> QED
      BY <2>1, <2>2, <2>4, <2>6, <3>1 DEF Nested
  <2> QED
    BY <2>3, <2>5, <2>6 DEF StartsOrdered
<1> QED
  BY <1>2, <1>3, <1>4

(* Every step keeps the order of the starts. *)
LEMMA OrderKept ==
  ASSUME TypeOK, RegistrationIntegrity, StartsOrdered, [Next]_vars
  PROVE  StartsOrdered'
<1> USE DEF roster
<1>1. ASSUME NEW s \in Calls, NEW c \in Call, CallOK(c), Goto(s, c),
             c.at \notin {"merge", "insert"}, c.at = "insertGroup" => edited',
             edited => edited', registered' = registered, merge' = merge,
             UNCHANGED roster
      PROVE  StartsOrdered'
  BY <1>1, GotoTyped, StaysOrdered
<1>2. ASSUME UNCHANGED <<call, merge>>, usedIds \subseteq usedIds',
             revived \subseteq revived', (open' \ open) \cap usedIds \subseteq revived',
             edited => edited',
             ~edited' => registered' \in {{}, registered, registered \cap open'}
      PROVE  StartsOrdered'
  BY <1>2, StaysOrdered
<1>3. ASSUME NEW s \in Calls, Arrive(s) PROVE StartsOrdered'
  <2>1. ASSUME NEW new \in Wanted, RequestUpdate(s, new) PROVE StartsOrdered'
    <3> DEFINE c == [at |-> "save", old |-> state, new |-> new, groups |-> None]
    <3>1. c \in Call /\ CallOK(c) /\ c.at = "save"
      BY ConstantsOK DEF Call, CallOK, Stages, TypeOK
    <3> QED
      BY <1>1, <2>1, <3>1 DEF RequestUpdate
  <2>2. CASE RequestRegisterAll(s)
    BY <1>1, <2>2, CallsTyped DEF RequestRegisterAll
  <2>3. ASSUME NEW g \in GroupIds, RequestRegisterGroup(s, g) PROVE StartsOrdered'
    <3>1. [h \in {g} |-> Members(h)] \in Snapshot
      <4>1. [h \in {g} |-> Members(h)] \in [{g} -> SUBSET Participants]
        BY DEF Members
      <4> QED
        BY <4>1 DEF Snapshot
    <3> QED
      BY <1>1, <2>3, <3>1, CallsTyped DEF RequestRegisterGroup
  <2> QED
    BY <1>3, <2>1, <2>2, <2>3 DEF Arrive
<1>4. ASSUME NEW s \in Calls, Proceed(s) PROVE StartsOrdered'
  <2>1. CASE SaveState(s)
    BY <1>1, <2>1, CallsTyped DEF SaveState
  <2>2. CASE CheckFirstStart(s)
    BY <1>1, <2>2, CallsTyped DEF CheckFirstStart
  <2>3. CASE ReadGroups(s)
    BY <2>3, ReadStaysOrdered
  <2>4. CASE MergeGroups(s)
    <3>1. merge /\ merge' = merge /\ call[s].groups \in Snapshot
      BY <2>4 DEF MergeGroups, StartsOrdered, TypeOK, CallOK
    <3>2. PICK c \in Call : CallOK(c) /\ Goto(s, c) /\ c.at \in {"idle", "insert"}
      BY <2>4, <3>1, MergeTyped, CallsTyped DEF MergeGroups
    <3>3. \A t \in Calls : call'[t].at = "insertGroup" => edited'
      BY <2>4, <3>2, GotoTyped DEF MergeGroups, StartsOrdered
    <3> QED
      BY <3>1, <3>3 DEF StartsOrdered
  <2>5. CASE CreateRegistrations(s)
    BY <2>5, InsertStaysOrdered
  <2>6. CASE CreateGroupRegistration(s)
    <3>1. edited'
      BY <2>6 DEF CreateGroupRegistration, StartsOrdered
    <3>2. /\ call'[s].at = "idle"
          /\ \A t \in Calls \ {s} : call'[t] = call[t]
          /\ UNCHANGED <<roster, merge>>
      BY <2>6, CallsTyped, GotoTyped DEF CreateGroupRegistration
    <3> QED
      BY <3>1, <3>2, StaysOrdered
  <2> QED
    BY <1>4, <2>1, <2>2, <2>3, <2>4, <2>5, <2>6 DEF Proceed
<1>5. CASE EditRegistrations
  <2>1. ASSUME NEW p \in Participants, NEW g \in GroupIds, RegisterUser(p, g)
        PROVE  StartsOrdered'
    BY <1>2, <2>1 DEF RegisterUser
  <2>2. ASSUME NEW p \in Participants, UnregisterUser(p) PROVE StartsOrdered'
    BY <1>2, <2>2 DEF UnregisterUser
  <2>3. ASSUME NEW g \in GroupIds, UnregisterGroup(g) PROVE StartsOrdered'
    BY <1>2, <2>3 DEF UnregisterGroup
  <2>4. CASE RemoveAllRegistrations
    BY <1>2, <2>4 DEF RemoveAllRegistrations
  <2> QED
    BY <1>5, <2>1, <2>2, <2>3, <2>4 DEF EditRegistrations
<1>6. CASE ChangeRoster
  BY <1>2, <1>6 DEF ChangeRoster
<1>7. ASSUME NEW p \in Participants, RemoveParticipant(p) PROVE StartsOrdered'
  BY <1>2, <1>7 DEF RemoveParticipant
<1>8. CASE DeleteAssignment
  BY <1>2, <1>8 DEF DeleteAssignment
<1>9. CASE Exit
  <2>1. \A s \in Calls : call'[s].at = "idle"
    BY <1>9, CallsTyped DEF Exit
  <2> QED
    BY <1>9, <2>1, StaysOrdered DEF Exit
<1>10. CASE UNCHANGED vars
  BY <1>2, <1>10 DEF vars
<1> QED
  BY <1>3, <1>4, <1>5, <1>6, <1>7, <1>8, <1>9, <1>10 DEF Next

(* In no reachable state can a second start, or a start and registerAll, add a group to
   one that an earlier one has registered, unless one of the two has been deleted and
   inserted again. *)
THEOREM OneStartRegisters == Spec => StartsRegisterOnce
<1>1. Init => StartsOrdered
  <2> SUFFICES ASSUME Init PROVE StartsOrdered
    OBVIOUS
  <2>1. \A s \in Calls : call[s].at \in {"idle", "read"}
    BY CallsTyped DEF Init
  <2> QED
    BY <2>1 DEF StartsOrdered, Inserting
<1>2. TypeOK /\ RegistrationIntegrity /\ StartsOrdered /\ [Next]_vars => StartsOrdered'
  BY OrderKept
<1>3. TypeOK /\ RegistrationIntegrity /\ StartsOrdered /\ [Next]_vars =>
        [~merge /\ ~edited' =>
           \A g \in registered' \ registered, h \in registered :
             g \in revived \/ h \in revived]_vars
  <2> SUFFICES ASSUME TypeOK, RegistrationIntegrity, StartsOrdered, Next, ~merge, ~edited',
                      NEW g \in registered' \ registered, NEW h \in registered,
                      g \notin revived, h \notin revived
               PROVE  registered' \subseteq registered
    BY DEF vars
  <2>1. ASSUME NEW s \in Calls, Arrive(s) PROVE registered' \subseteq registered
    BY <2>1 DEF Arrive, RequestUpdate, RequestRegisterAll, RequestRegisterGroup
  <2>2. ASSUME NEW s \in Calls, Proceed(s) PROVE registered' \subseteq registered
    <3>1. CASE SaveState(s) \/ CheckFirstStart(s) \/ ReadGroups(s) \/ MergeGroups(s)
      BY <3>1 DEF SaveState, CheckFirstStart, ReadGroups, MergeGroups
    <3>2. CASE CreateRegistrations(s)
      <4>1. Inserting(s) /\ ~edited
        BY <3>2 DEF CreateRegistrations, Inserting
      <4>2. CASE Insertable(call[s].groups)
        <5>1. g \in Inserted(s)
          BY <3>2, <4>2 DEF CreateRegistrations, Register, Inserted
        <5>2. g \in Lasting /\ h \in Lasting
          BY <4>1, <4>2, <5>1, FirstInsert DEF Lasting, RegistrationIntegrity
        <5> QED
          BY <4>1, <4>2, <5>1, <5>2, FirstInsert
      <4>3. CASE ~Insertable(call[s].groups)
        BY <3>2, <4>3 DEF CreateRegistrations
      <4> QED
        BY <4>2, <4>3
    <3>3. CASE CreateGroupRegistration(s)
      BY <3>3 DEF CreateGroupRegistration, StartsOrdered
    <3> QED
      BY <2>2, <3>1, <3>2, <3>3 DEF Proceed
  <2>3. CASE EditRegistrations
    BY <2>3 DEF EditRegistrations, RegisterUser, UnregisterUser, UnregisterGroup,
                RemoveAllRegistrations
  <2>4. CASE ChangeRoster
    BY <2>4 DEF ChangeRoster
  <2>5. CASE DeleteAssignment \/ Exit \/ \E p \in Participants : RemoveParticipant(p)
    BY <2>5 DEF DeleteAssignment, Exit, RemoveParticipant
  <2> QED
    BY <2>1, <2>2, <2>3, <2>4, <2>5 DEF Next
<1> QED
  BY <1>1, <1>2, <1>3, TypeCorrect, IntegrityKept, PTL DEF Spec, StartsRegisterOnce
================================================================================
