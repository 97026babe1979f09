--------------------------- MODULE AssessmentsProofs ---------------------------
(****************************************************************************)
(* Proofs about Assessments, for any number of students, assessments and    *)
(* concurrent requests: its types, the integrity of the grades, that nobody *)
(* loses an assessment or a partial assessment, and that the scores can be  *)
(* traced.                                                                  *)
(****************************************************************************)
EXTENDS Assessments, TLAPS

--------------------------------------------------------------------------------
(* Type correctness *)

(* What a suspended request holds. *)
LEMMA RequestHolds ==
  ASSUME NEW q \in Request
  PROVE  /\ q.at # "idle" => q.of \in Ids
         /\ q.at \in {"load", "save"} => q.dto \in UpdateDto
         /\ q.at \in {"load", "save", "reread"} => q.original \in Scores
         /\ q.at \in {"save", "replace"} => q.row \in Scores
         /\ q.at = "save" => q.parts \in SUBSET Partial
         /\ q.at = "replace" => q.keys \in SUBSET Keys /\ q.seats \in SUBSET Users
         /\ q.at = "put" => q.key \in Keys /\ q.found \in PartialIds \cup {None}
BY DEF Request

(* The rows inserted for a set of keys are partials, one for each key. *)
LEMMA NewPartsTyped ==
  ASSUME NEW keys \in SUBSET Keys, NEW parts \in NewParts(keys)
  PROVE  /\ parts \in SUBSET Partial
         /\ KeysOf(parts) = keys
         /\ \A p, q \in parts : p.key = q.key => p = q
<1>1. PICK f \in [keys -> FreshParts] : parts = {[id |-> f[k], key |-> k] : k \in keys}
  BY DEF NewParts
<1>2. FreshParts \subseteq PartialIds
  BY DEF FreshParts
<1>3. \A k \in keys : [id |-> f[k], key |-> k] \in Partial
  BY <1>1, <1>2 DEF Partial
<1>4. KeysOf(parts) = keys
  <2>1. \A k \in keys : [id |-> f[k], key |-> k] \in parts
    BY <1>1
  <2>2. \A p \in parts : p.key \in keys
    BY <1>1
  <2>3. \A k \in keys : \E p \in parts : p.key = k
    BY <2>1
  <2>4. QED
    BY <2>2, <2>3 DEF KeysOf
<1>5. \A p \in parts : p = [id |-> f[p.key], key |-> p.key]
  BY <1>1
<1>6. QED
  BY <1>1, <1>3, <1>4, <1>5

(* The copies that a conversion inserts: one for each seat, with the old score. *)
LEMMA CopiesTyped ==
  ASSUME NEW q \in Request, q.at = "replace", NEW f \in Copies(q),
         NEW parts \in CopiedParts(f)
  PROVE  /\ DOMAIN f \subseteq FreshIds
         /\ \A a \in DOMAIN f : /\ f[a].score = q.row /\ f[a].keys = q.keys
                                /\ f[a].users \in {{u} : u \in q.seats}
         /\ UNION {f[a].users : a \in DOMAIN f} = q.seats
         /\ \A a, b \in DOMAIN f : a # b => f[a].users # f[b].users
         /\ \A a \in DOMAIN f : /\ parts[a] \in SUBSET Partial
                                /\ \A x, y \in parts[a] : x.key = y.key => x = y
<1>1. PICK A \in SUBSET FreshIds :
        f \in [A -> [users : {{u} : u \in q.seats}, score : {q.row}, keys : {q.keys}]]
  BY DEF Copies
<1>2. \A a \in DOMAIN f : /\ f[a].score = q.row /\ f[a].keys = q.keys
                          /\ f[a].users \in {{u} : u \in q.seats}
  BY <1>1
<1>3. /\ UNION {f[a].users : a \in DOMAIN f} = q.seats
      /\ \A a, b \in DOMAIN f : a # b => f[a].users # f[b].users
  BY DEF Copies
<1>4. ASSUME NEW a \in DOMAIN f
      PROVE  /\ parts[a] \in SUBSET Partial
             /\ \A x, y \in parts[a] : x.key = y.key => x = y
  <2>1. PICK b \in DOMAIN f : parts[a] \in NewParts(f[b].keys)
    BY DEF CopiedParts
  <2>2. f[b].keys \in SUBSET Keys
    BY <1>2, RequestHolds
  <2>3. QED
    BY <2>1, <2>2, NewPartsTyped
<1>5. QED
  BY <1>1, <1>2, <1>3, <1>4

(* Moving a request to a state of the right type keeps the types of all. *)
LEMMA GotoTyped ==
  ASSUME TypeOK, NEW r \in Requests, NEW next \in Request, Goto(r, next)
  PROVE  req' \in [Requests -> Request]
BY DEF Goto, TypeOK

LEMMA IdleTyped == Idle \in Request
BY DEF Idle, Request

(* The assessments f are inserted, with these partials. *)
Creates(f, parts) ==
  /\ DOMAIN f \subseteq FreshIds
  /\ \A a \in DOMAIN f : /\ f[a].score \in Scores
                         /\ parts[a] \in SUBSET Partial
                         /\ \A p, q \in parts[a] : p.key = q.key => p = q
  /\ Unassessed(f)
  /\ Insert(f, relations, parts)
  /\ UNCHANGED <<released, users, req, pending, excused>>

(* Creating one assessment or many inserts what is new. *)
LEMMA CreationCreates ==
  ASSUME CreateAssessment \/ CreateAssessments
  PROVE  \E f, parts : Creates(f, parts)
<1>1. CASE CreateAssessment
  <2>1. PICK a \in FreshIds, new \in New :
          /\ Unassessed([b \in {a} |-> new])
          /\ \E parts \in NewParts(new.keys) :
               Insert([b \in {a} |-> new], relations, [b \in {a} |-> parts])
    BY <1>1 DEF CreateAssessment
  <2>2. PICK parts \in NewParts(new.keys) :
          Insert([b \in {a} |-> new], relations, [b \in {a} |-> parts])
    BY <2>1
  <2>3. new.score \in Scores /\ new.keys \in SUBSET Keys
    BY ConstantsOK DEF New
  <2>4. /\ parts \in SUBSET Partial
        /\ \A p, q \in parts : p.key = q.key => p = q
    BY <2>2, <2>3, NewPartsTyped
  <2>5. Creates([b \in {a} |-> new], [b \in {a} |-> parts])
    BY <1>1, <2>1, <2>2, <2>3, <2>4 DEF Creates, CreateAssessment
  <2>6. QED
    BY <2>5
<1>2. CASE CreateAssessments
  <2>1. PICK A \in SUBSET FreshIds :
          \E f \in [A -> {new \in New : new.keys = {}}] :
            Unassessed(f) /\ Insert(f, relations, [a \in A |-> {}])
    BY <1>2 DEF CreateAssessments
  <2>2. PICK f \in [A -> {new \in New : new.keys = {}}] :
          Unassessed(f) /\ Insert(f, relations, [a \in A |-> {}])
    BY <2>1
  <2>3. \A a \in DOMAIN f : f[a].score \in Scores
    BY DEF New
  <2>4. Creates(f, [a \in A |-> {}])
    BY <1>2, <2>2, <2>3 DEF Creates, CreateAssessments
  <2>5. QED
    BY <2>4
<1>3. QED
  BY <1>1, <1>2

(* The assessment of q is replaced by the copies f, with these partials. *)
Replaces(q, f, parts) ==
  /\ score' = [a \in Ids |-> IF a \in DOMAIN f THEN f[a].score
                             ELSE IF a = q.of THEN None ELSE score[a]]
  /\ Tell([a \in Ids |-> IF a \in DOMAIN f THEN f[a].score
                         ELSE IF a = q.of THEN None ELSE told[a]])
  /\ relations' = Without(q.of)
                    \cup {e \in Users \X Ids : e[2] \in DOMAIN f /\ e[1] \in f[e[2]].users}
  /\ partials' = [a \in Ids |-> IF a \in DOMAIN f THEN parts[a]
                                ELSE IF a = q.of THEN {} ELSE partials[a]]

(* A conversion does that. *)
LEMMA ConversionReplaces ==
  ASSUME NEW r \in Requests, Replace(r)
  PROVE  \E f \in Copies(req[r]) : \E parts \in CopiedParts(f) : Replaces(req[r], f, parts)
BY DEF Replace, Replaces

(* What a suspended request holds is what its next step reads. *)
LEMMA TypeStep ==
  ASSUME TypeOK, [Next]_vars
  PROVE  TypeOK'
<1> USE DEF TypeOK
<1>1. CASE CreateAssessment \/ CreateAssessments
  <2>1. PICK f, parts : Creates(f, parts)
    BY <1>1, CreationCreates
  <2>2. /\ score' \in [Ids -> Scores \cup {None}]
        /\ told' \in [Ids -> Scores \cup {None}]
        /\ relations' \subseteq Users \X Ids
        /\ partials' \in [Ids -> SUBSET Partial]
    BY <2>1 DEF Creates, Insert, Tell
  <2>3. QED
    BY <2>1, <2>2 DEF Creates
<1>3. ASSUME NEW r \in Requests, NEW a \in Ids, NEW dto \in Updates,
             RequestUpdate(r, a, dto)
      PROVE  TypeOK'
  <2>1. score[a] \in Scores /\ dto \in UpdateDto
    BY <1>3, ConstantsOK DEF RequestUpdate, Existing
  <2>2. [at |-> "load", of |-> a, dto |-> dto, original |-> score[a]] \in Request
    BY <2>1 DEF Request
  <2>3. req' \in [Requests -> Request]
    BY <1>3, <2>2, GotoTyped DEF RequestUpdate
  <2>4. excused' \subseteq Ids
    BY <1>3 DEF RequestUpdate
  <2>5. QED
    BY <1>3, <2>3, <2>4 DEF RequestUpdate, tables
<1>4. ASSUME NEW r \in Requests, NEW a \in Ids, NEW k \in Keys, RequestPartial(r, a, k)
      PROVE  TypeOK'
  <2> DEFINE found == {p.id : p \in {q \in partials[a] : q.key = k}}
             i == IF found = {} THEN None ELSE CHOOSE j \in found : TRUE
  <2>1. found \subseteq PartialIds
    BY DEF Partial
  <2>2. i \in PartialIds \cup {None}
    BY <2>1
  <2>3. [at |-> "put", of |-> a, key |-> k, found |-> i] \in Request
    BY <2>2 DEF Request
  <2>4. Goto(r, [at |-> "put", of |-> a, key |-> k, found |-> i])
    BY <1>4 DEF RequestPartial
  <2>5. req' \in [Requests -> Request]
    BY <2>3, <2>4, GotoTyped
  <2>6. QED
    BY <1>4, <2>5 DEF RequestPartial, tables
<1>5. ASSUME NEW r \in Requests, NEW a \in Ids, RequestConvert(r, a)
      PROVE  TypeOK'
  <2>1. score[a] \in Scores /\ KeysOf(partials[a]) \subseteq Keys
        /\ SeatsOf(a) \subseteq Users
    BY <1>5 DEF RequestConvert, Existing, KeysOf, Partial, SeatsOf
  <2>2. [at |-> "replace", of |-> a, row |-> score[a], keys |-> KeysOf(partials[a]),
         seats |-> SeatsOf(a)] \in Request
    BY <2>1 DEF Request
  <2>3. req' \in [Requests -> Request]
    BY <1>5, <2>2, GotoTyped DEF RequestConvert
  <2>4. QED
    BY <1>5, <2>3 DEF RequestConvert, tables
<1>6. ASSUME NEW r \in Requests, LoadRow(r) PROVE TypeOK'
  <2> DEFINE q == req[r]
             next == [at |-> "save", of |-> q.of, dto |-> q.dto, original |-> q.original,
                      row |-> IF q.dto.score = None THEN score[q.of] ELSE q.dto.score,
                      parts |-> partials[q.of]]
  <2>1. q \in Request /\ q.at = "load"
    BY <1>6 DEF LoadRow
  <2>2. CASE q.of \in Existing
    <3>1. q.of \in Ids /\ q.dto \in UpdateDto /\ q.original \in Scores
      BY <2>1, RequestHolds
    <3>2. score[q.of] \in Scores /\ partials[q.of] \in SUBSET Partial
      BY <2>2, <3>1 DEF Existing
    <3>3. next.row \in Scores
      BY <3>1, <3>2 DEF UpdateDto
    <3>4. next \in Request
      BY <3>1, <3>2, <3>3 DEF Request
    <3>5. Goto(r, next)
      BY <1>6, <2>2 DEF LoadRow
    <3>6. req' \in [Requests -> Request]
      <4> HIDE DEF next
      <4> QED BY <3>4, <3>5, GotoTyped
    <3>7. QED
      BY <1>6, <3>6 DEF LoadRow, tables
  <2>3. CASE q.of \notin Existing
    <3>1. req' \in [Requests -> Request]
      BY <1>6, <2>3, IdleTyped, GotoTyped DEF LoadRow
    <3>2. QED
      BY <1>6, <3>1 DEF LoadRow, tables
  <2>4. QED
    BY <2>2, <2>3
<1>7. ASSUME NEW r \in Requests, SaveUpdate(r) PROVE TypeOK'
  <2> DEFINE q == req[r]
  <2>1. /\ q \in Request /\ q.at = "save" /\ q.of \in Ids /\ q.dto \in UpdateDto
        /\ q.original \in Scores /\ q.row \in Scores /\ q.parts \in SUBSET Partial
    BY <1>7, RequestHolds DEF SaveUpdate
  <2>2. score' \in [Ids -> Scores \cup {None}]
    BY <1>7, <2>1 DEF SaveUpdate
  <2>3. told' \in [Ids -> Scores \cup {None}]
    BY <1>7, <2>1 DEF SaveUpdate, Tell
  <2>4. PICK parts \in IF q.dto.keys = None THEN {q.parts} ELSE NewParts(q.dto.keys) :
          partials' = [partials EXCEPT ![q.of] = parts]
    BY <1>7 DEF SaveUpdate
  <2>5. parts \in SUBSET Partial
    <3>1. CASE q.dto.keys = None
      BY <2>1, <2>4, <3>1
    <3>2. CASE q.dto.keys # None
      <4>1. q.dto.keys \in SUBSET Keys
        BY <2>1, <3>2 DEF UpdateDto
      <4>2. QED
        BY <2>4, <3>2, <4>1, NewPartsTyped
    <3>3. QED
      BY <3>1, <3>2
  <2>6. partials' \in [Ids -> SUBSET Partial]
    BY <2>4, <2>5
  <2>7. [at |-> "reread", of |-> q.of, original |-> q.original] \in Request
    BY <2>1 DEF Request
  <2>8. req' \in [Requests -> Request]
    BY <1>7, <2>7, GotoTyped DEF SaveUpdate
  <2>9. QED
    BY <1>7, <2>2, <2>3, <2>6, <2>8 DEF SaveUpdate
<1>8. ASSUME NEW r \in Requests, FailUpdate(r) \/ FailReplace(r) PROVE TypeOK'
  <2>1. req' \in [Requests -> Request]
    BY <1>8, IdleTyped, GotoTyped DEF FailUpdate, FailReplace
  <2>2. QED
    BY <1>8, <2>1 DEF FailUpdate, FailReplace, tables
<1>9. ASSUME NEW r \in Requests, Reread(r) PROVE TypeOK'
  <2>1. req' \in [Requests -> Request]
    BY <1>9, IdleTyped, GotoTyped DEF Reread
  <2>2. req[r].of \in Ids
    BY <1>9, RequestHolds DEF Reread
  <2>3. pending' \subseteq Event
    BY <1>9, <2>2 DEF Reread, Event, Existing
  <2>4. QED
    BY <1>9, <2>1, <2>3 DEF Reread, tables
<1>10. ASSUME NEW r \in Requests, SavePartial(r) PROVE TypeOK'
  <2> DEFINE q == req[r]
  <2>1. q \in Request /\ q.at = "put" /\ q.of \in Ids /\ q.key \in Keys
        /\ q.found \in PartialIds \cup {None}
    BY <1>10, RequestHolds DEF SavePartial
  <2>2. FreshParts \subseteq PartialIds
    BY DEF FreshParts
  <2>3. partials' \in [Ids -> SUBSET Partial]
    <3>1. ASSUME NEW i \in IF q.found = None THEN FreshParts ELSE {q.found}
          PROVE  [id |-> i, key |-> q.key] \in Partial
      BY <2>1, <2>2 DEF Partial
    <3>2. QED
      BY <1>10, <2>1, <3>1 DEF SavePartial
  <2>4. req' \in [Requests -> Request]
    BY <1>10, IdleTyped, GotoTyped DEF SavePartial
  <2>5. QED
    BY <1>10, <2>3, <2>4 DEF SavePartial
<1>11. ASSUME NEW r \in Requests, Replace(r) PROVE TypeOK'
  <2> DEFINE q == req[r]
  <2>1. q \in Request /\ q.at = "replace" /\ q.row \in Scores
    BY <1>11, RequestHolds DEF Replace
  <2>2. PICK f \in Copies(q) : \E parts \in CopiedParts(f) : Replaces(q, f, parts)
    BY <1>11, ConversionReplaces
  <2> PICK parts \in CopiedParts(f) : Replaces(q, f, parts)
    BY <2>2
  <2>3. \A a \in DOMAIN f : f[a].score \in Scores /\ parts[a] \in SUBSET Partial
    BY <2>1, CopiesTyped
  <2>4. score' \in [Ids -> Scores \cup {None}] /\ told' \in [Ids -> Scores \cup {None}]
    BY <2>3 DEF Replaces, Tell
  <2>5. relations' \subseteq Users \X Ids
    BY DEF Replaces, Without
  <2>6. partials' \in [Ids -> SUBSET Partial]
    BY <2>3 DEF Replaces
  <2>7. req' \in [Requests -> Request]
    BY <1>11, IdleTyped, GotoTyped DEF Replace
  <2>8. QED
    BY <1>11, <2>4, <2>5, <2>6, <2>7 DEF Replace
<1>12. CASE Exit
  BY <1>12, IdleTyped DEF Exit, tables
<1>13. ASSUME NEW e \in pending, RecordEvent(e) PROVE TypeOK'
  <2>1. e.of \in Ids /\ e.new \in Scores
    BY DEF Event
  <2>2. QED
    BY <1>12, <1>13, <2>1 DEF RecordEvent, Tell, tables
<1>14. ASSUME NEW a \in Ids, DeleteAssessment(a) PROVE TypeOK'
  BY <1>14 DEF DeleteAssessment, Without, Tell
<1>15. CASE Release \/ Withdraw
  BY <1>15 DEF Release, Withdraw
<1>16. ASSUME NEW u \in Users, DeleteUser(u) PROVE TypeOK'
  BY <1>16 DEF DeleteUser
<1>17. CASE UNCHANGED vars
  BY <1>17 DEF vars, tables
<1>18. QED
  BY <1>1, <1>3, <1>4, <1>5, <1>6, <1>7, <1>8, <1>9, <1>10, <1>11, <1>12, <1>13,
     <1>14, <1>15, <1>16, <1>17 DEF Next, Arrive, Proceed

(* Between two queries a request holds only what it has read, with its type. *)
THEOREM TypeCorrect == Spec => []TypeOK
<1>1. Init => TypeOK
  BY IdleTyped DEF Init, TypeOK
<1>2. TypeOK /\ [Next]_vars => TypeOK'
  BY TypeStep
<1>3. QED
  BY <1>1, <1>2, PTL DEF Spec

--------------------------------------------------------------------------------
(* The integrity of the grades *)

(* An update that is about to save holds partials with different keys, as it has
   read them, and a conversion holds every student of the assessment it is about to
   replace: students are added to an assessment only when it is created, and an id in
   use is not given to a new one. *)
HeldOK ==
  \A r \in Requests :
    /\ req[r].at = "save" =>
         \A p, q \in req[r].parts : p.key = q.key => p = q
    /\ req[r].at = "replace" => SeatsOf(req[r].of) \subseteq req[r].seats

(* The students of assessments in use do not grow. *)
LEMMA HeldStep ==
  ASSUME TypeOK, GradeIntegrity, [Next]_vars, HeldOK
  PROVE  HeldOK'
<1> USE DEF TypeOK, HeldOK
<1> DEFINE InUse(a) == \E r \in Requests : req[r].at # "idle" /\ req[r].of = a
<1>0. \A r \in Requests : req[r].at = "replace" => req[r].of \in Ids /\ InUse(req[r].of)
  <2> SUFFICES ASSUME NEW r \in Requests, req[r].at = "replace"
               PROVE  req[r].of \in Ids /\ InUse(req[r].of)
    OBVIOUS
  <2>1. req[r].of \in Ids
    BY RequestHolds
  <2>2. QED
    BY <2>1
<1>1. ASSUME \A r \in Requests : req'[r] = req[r] \/ req'[r] = Idle,
             \A a \in Ids : InUse(a) => SeatsOf(a)' \subseteq SeatsOf(a)
      PROVE  HeldOK'
  <2> SUFFICES ASSUME NEW r \in Requests
               PROVE  /\ req'[r].at = "save" =>
                           \A p, q \in req'[r].parts : p.key = q.key => p = q
                      /\ req'[r].at = "replace" =>
                           {u \in Users : <<u, req'[r].of>> \in relations'} \subseteq req'[r].seats
    BY DEF SeatsOf
  <2>1. CASE req'[r] = Idle
    BY <2>1 DEF Idle
  <2>2. CASE req'[r] = req[r]
    <3>1. req[r].at = "replace" =>
            {u \in Users : <<u, req[r].of>> \in relations'} \subseteq SeatsOf(req[r].of)
      BY <1>0, <1>1 DEF SeatsOf
    <3>2. QED
      BY <2>2, <3>1
  <2>3. QED
    BY <1>1, <2>1, <2>2
<1>2. ASSUME NEW r \in Requests, NEW next, Goto(r, next), relations' = relations,
             next.at = "save" => \A p, q \in next.parts : p.key = q.key => p = q,
             next.at = "replace" => SeatsOf(next.of) \subseteq next.seats
      PROVE  HeldOK'
  <2>1. \A x \in Requests : req'[x] = IF x = r THEN next ELSE req[x]
    BY <1>2 DEF Goto
  <2>2. QED
    BY <1>2, <2>1 DEF SeatsOf
<1>3. CASE CreateAssessment \/ CreateAssessments
  <2>1. PICK f, parts : Creates(f, parts)
    BY <1>3, CreationCreates
  <2>2. ASSUME NEW a \in Ids, InUse(a) PROVE SeatsOf(a)' \subseteq SeatsOf(a)
    <3>1. a \notin DOMAIN f
      BY <2>1, <2>2 DEF Creates, FreshIds
    <3>2. QED
      BY <2>1, <3>1 DEF Creates, Insert, SeatsOf
  <2>3. QED
    BY <1>1, <2>1, <2>2 DEF Creates
<1>4. ASSUME NEW r \in Requests, Replace(r) PROVE HeldOK'
  <2>1. PICK f \in Copies(req[r]) : \E parts \in CopiedParts(f) : Replaces(req[r], f, parts)
    BY <1>4, ConversionReplaces
  <2>2. DOMAIN f \subseteq FreshIds
    BY DEF Copies
  <2>3. ASSUME NEW a \in Ids, InUse(a) PROVE SeatsOf(a)' \subseteq SeatsOf(a)
    <3>1. a \notin DOMAIN f
      BY <2>2, <2>3 DEF FreshIds
    <3>2. QED
      BY <2>1, <3>1 DEF Replaces, Without, SeatsOf
  <2>4. \A x \in Requests : req'[x] = req[x] \/ req'[x] = Idle
    BY <1>4 DEF Replace, Goto
  <2>5. QED
    BY <1>1, <2>3, <2>4
<1>5. ASSUME NEW r \in Requests, NEW a \in Ids, NEW dto \in Updates,
             RequestUpdate(r, a, dto)
      PROVE  HeldOK'
  BY <1>2, <1>5 DEF RequestUpdate, tables
<1>6. ASSUME NEW r \in Requests, NEW a \in Ids, NEW k \in Keys, RequestPartial(r, a, k)
      PROVE  HeldOK'
  <2> DEFINE found == {p.id : p \in {q \in partials[a] : q.key = k}}
             i == IF found = {} THEN None ELSE CHOOSE j \in found : TRUE
             next == [at |-> "put", of |-> a, key |-> k, found |-> i]
  <2>1. Goto(r, next) /\ relations' = relations
    BY <1>6 DEF RequestPartial, tables
  <2>2. next.at = "put"
    OBVIOUS
  <2>3. QED
    <3> HIDE DEF next
    <3> QED BY <1>2, <2>1, <2>2
<1>7. ASSUME NEW r \in Requests, NEW a \in Ids, RequestConvert(r, a) PROVE HeldOK'
  BY <1>2, <1>7 DEF RequestConvert, tables
<1>8. ASSUME NEW r \in Requests, LoadRow(r) PROVE HeldOK'
  <2> DEFINE q == req[r]
             next == [at |-> "save", of |-> q.of, dto |-> q.dto, original |-> q.original,
                      row |-> IF q.dto.score = None THEN score[q.of] ELSE q.dto.score,
                      parts |-> partials[q.of]]
  <2>1. CASE q.of \in Existing
    <3>1. \A x, y \in partials[q.of] : x.key = y.key => x = y
      BY <2>1 DEF GradeIntegrity, Existing
    <3>2. Goto(r, next) /\ relations' = relations
      BY <1>8, <2>1 DEF LoadRow, tables
    <3>3. next.at = "save" /\ next.parts = partials[q.of]
      OBVIOUS
    <3>4. QED
      <4> HIDE DEF next
      <4> QED BY <1>2, <3>1, <3>2, <3>3
  <2>2. CASE q.of \notin Existing
    BY <1>2, <1>8, <2>2 DEF LoadRow, tables, Idle
  <2>3. QED
    BY <2>1, <2>2
<1>9. ASSUME NEW r \in Requests,
             \/ SaveUpdate(r) \/ FailUpdate(r) \/ Reread(r)
             \/ SavePartial(r) \/ FailReplace(r)
      PROVE  HeldOK'
  <2>1. relations' = relations
    BY <1>9 DEF SaveUpdate, FailUpdate, Reread, SavePartial, FailReplace, tables
  <2>2. \/ Goto(r, Idle)
        \/ Goto(r, [at |-> "reread", of |-> req[r].of, original |-> req[r].original])
    BY <1>9 DEF SaveUpdate, FailUpdate, Reread, SavePartial, FailReplace
  <2>3. QED
    BY <1>2, <2>1, <2>2 DEF Idle
<1>10. CASE Exit
  BY <1>10 DEF Exit, Idle
<1>11. ASSUME NEW e \in pending, RecordEvent(e) PROVE HeldOK'
  BY <1>1, <1>10, <1>11 DEF RecordEvent, tables, SeatsOf
<1>12. ASSUME NEW a \in Ids, DeleteAssessment(a) PROVE HeldOK'
  BY <1>1, <1>12 DEF DeleteAssessment, Without, SeatsOf
<1>13. CASE Release \/ Withdraw
  BY <1>1, <1>13 DEF Release, Withdraw, SeatsOf
<1>14. ASSUME NEW u \in Users, DeleteUser(u) PROVE HeldOK'
  BY <1>1, <1>14 DEF DeleteUser, SeatsOf
<1>15. CASE UNCHANGED vars
  BY <1>1, <1>15 DEF vars, tables, SeatsOf
<1>16. QED
  BY <1>3, <1>4, <1>5, <1>6, <1>7, <1>8, <1>9, <1>10, <1>11, <1>12, <1>13, <1>14, <1>15
     DEF Next, Arrive, Proceed

(* Every write leaves the tables consistent: the index and the foreign keys when rows
   are inserted, the cascades when they are removed; a save that inserts a row again
   finds no relations to it. *)
LEMMA IntegrityStep ==
  ASSUME TypeOK, GradeIntegrity, HeldOK, [Next]_vars
  PROVE  GradeIntegrity'
<1> USE DEF TypeOK
<1>1. ASSUME UNCHANGED <<users, score, relations, partials>> PROVE GradeIntegrity'
  BY <1>1 DEF GradeIntegrity, Existing
<1>2. CASE CreateAssessment \/ CreateAssessments
  <2>1. PICK f, parts : Creates(f, parts)
    BY <1>2, CreationCreates
  <2>2. /\ DOMAIN f \subseteq Ids /\ users' = users
        /\ \A a \in DOMAIN f : a \notin Existing
        /\ \A a \in Ids : score'[a] = IF a \in DOMAIN f THEN f[a].score ELSE score[a]
        /\ \A a \in Ids : partials'[a] = IF a \in DOMAIN f THEN parts[a] ELSE partials[a]
        /\ relations' = relations \cup {e \in Users \X Ids : /\ e[2] \in DOMAIN f
                                                            /\ e[1] \in f[e[2]].users}
    BY <2>1 DEF Creates, Insert, FreshIds
  <2>3. \A a \in Ids : a \in Existing' <=> a \in Existing \/ a \in DOMAIN f
    BY <2>1, <2>2, ConstantsOK DEF Creates, Existing
  <2>4. \A a \in DOMAIN f : \A u \in f[a].users : u \in users /\ ~Assessed(u)
    BY <2>1 DEF Creates, Unassessed
  <2>5. \A e \in relations' : e[1] \in users' /\ e[2] \in Existing'
    BY <2>2, <2>3, <2>4 DEF GradeIntegrity
  <2>6. \A e, g \in relations' : e[1] = g[1] => e = g
    <3> SUFFICES ASSUME NEW e \in relations', NEW g \in relations', e[1] = g[1]
                 PROVE  e = g
      OBVIOUS
    <3>1. CASE e \in relations /\ g \in relations
      BY <3>1 DEF GradeIntegrity
    <3>2. CASE e \in relations /\ g \notin relations
      BY <2>2, <2>4, <3>2 DEF Assessed
    <3>3. CASE e \notin relations /\ g \in relations
      BY <2>2, <2>4, <3>3 DEF Assessed
    <3>4. CASE e \notin relations /\ g \notin relations
      <4>1. /\ e \in Users \X Ids /\ e[2] \in DOMAIN f /\ e[1] \in f[e[2]].users
            /\ g \in Users \X Ids /\ g[2] \in DOMAIN f /\ g[1] \in f[g[2]].users
        BY <2>2, <3>4
      <4>2. e[2] = g[2]
        BY <2>1, <4>1 DEF Creates, Unassessed
      <4>3. QED
        BY <4>1, <4>2
    <3>5. QED
      BY <3>1, <3>2, <3>3, <3>4
  <2>7. \A a \in Ids : /\ partials'[a] # {} => a \in Existing'
                       /\ \A p, q \in partials'[a] : p.key = q.key => p = q
    BY <2>1, <2>2, <2>3 DEF GradeIntegrity, Creates
  <2>8. QED
    BY <2>5, <2>6, <2>7 DEF GradeIntegrity
<1>3. ASSUME NEW r \in Requests, SaveUpdate(r) PROVE GradeIntegrity'
  <2> DEFINE q == req[r]
  <2>1. /\ q.at = "save" /\ q.of \in Ids /\ q.dto \in UpdateDto /\ q.row \in Scores
    BY <1>3, RequestHolds DEF SaveUpdate
  <2>2. PICK parts \in IF q.dto.keys = None THEN {q.parts} ELSE NewParts(q.dto.keys) :
          partials' = [partials EXCEPT ![q.of] = parts]
    BY <1>3 DEF SaveUpdate
  <2>3. \A x, y \in parts : x.key = y.key => x = y
    <3>1. CASE q.dto.keys = None
      BY <2>1, <2>2, <3>1 DEF HeldOK
    <3>2. CASE q.dto.keys # None
      <4>1. q.dto.keys \in SUBSET Keys
        BY <2>1, <3>2 DEF UpdateDto
      <4>2. QED
        BY <2>2, <3>2, <4>1, NewPartsTyped
    <3>3. QED
      BY <3>1, <3>2
  <2>4. /\ users' = users /\ relations' = relations
        /\ score' = [score EXCEPT ![q.of] = q.row] /\ q.row # None
    BY <1>3, <2>1, ConstantsOK DEF SaveUpdate
  <2>5. \A a \in Ids : a \in Existing' <=> a \in Existing \/ a = q.of
    BY <2>1, <2>4 DEF Existing
  <2>6. \A a \in Ids : partials'[a] = IF a = q.of THEN parts ELSE partials[a]
    BY <2>1, <2>2
  <2>7. \A a \in Ids : /\ partials'[a] # {} => a \in Existing'
                       /\ \A x, y \in partials'[a] : x.key = y.key => x = y
    BY <2>3, <2>5, <2>6 DEF GradeIntegrity
  <2>8. \A e \in relations' : e[1] \in users' /\ e[2] \in Existing'
    BY <2>4, <2>5 DEF GradeIntegrity
  <2>9. QED
    BY <2>4, <2>7, <2>8 DEF GradeIntegrity
<1>4. ASSUME NEW r \in Requests, SavePartial(r) PROVE GradeIntegrity'
  <2> DEFINE q == req[r]
  <2>1. q.of \in Ids /\ UNCHANGED <<users, score, relations>>
    BY <1>4, RequestHolds DEF SavePartial
  <2>2. CASE q.of \in Existing /\ q.key \notin KeysOf(partials[q.of])
    <3>1. PICK i : partials' = [partials EXCEPT ![q.of] = @ \cup {[id |-> i, key |-> q.key]}]
      BY <1>4, <2>2 DEF SavePartial
    <3>2. \A a \in Ids : partials'[a] = IF a = q.of
                                       THEN partials[a] \cup {[id |-> i, key |-> q.key]}
                                       ELSE partials[a]
      BY <2>1, <3>1
    <3>3. \A p \in partials[q.of] : p.key # q.key
      BY <2>2 DEF KeysOf
    <3>4. \A a \in Ids : \A x, y \in partials'[a] : x.key = y.key => x = y
      <4> SUFFICES ASSUME NEW a \in Ids, NEW x \in partials'[a], NEW y \in partials'[a],
                          x.key = y.key
                   PROVE  x = y
        OBVIOUS
      <4>1. CASE x \in partials[a] /\ y \in partials[a]
        BY <4>1 DEF GradeIntegrity
      <4>2. CASE x \notin partials[a] \/ y \notin partials[a]
        <5>1. a = q.of
          BY <3>2, <4>2
        <5>2. \A z \in partials'[a] \ partials[a] : z = [id |-> i, key |-> q.key]
          BY <3>2
        <5>3. \A z \in partials'[a] \ partials[a] : z.key = q.key
          BY <5>2
        <5>4. QED
          BY <3>3, <4>2, <5>1, <5>2, <5>3
      <4>3. QED
        BY <4>1, <4>2
    <3>5. \A a \in Ids : partials'[a] # {} => a \in Existing'
      BY <2>1, <2>2, <3>2 DEF GradeIntegrity, Existing
    <3>6. QED
      BY <2>1, <3>4, <3>5 DEF GradeIntegrity, Existing
  <2>3. CASE ~(q.of \in Existing /\ q.key \notin KeysOf(partials[q.of]))
    BY <1>1, <1>4, <2>1, <2>3 DEF SavePartial
  <2>4. QED
    BY <2>2, <2>3
<1>5. ASSUME NEW r \in Requests, Replace(r) PROVE GradeIntegrity'
  <2> DEFINE q == req[r]
  <2>1. /\ q \in Request /\ q.at = "replace" /\ q.of \in Ids /\ q.row \in Scores
        /\ q.seats \subseteq users
        /\ \A e \in Without(q.of) : e[1] \notin q.seats
    BY <1>5, RequestHolds DEF Replace, Convertible
  <2>2. PICK f \in Copies(q) : \E parts \in CopiedParts(f) : Replaces(q, f, parts)
    BY <1>5, ConversionReplaces
  <2> PICK parts \in CopiedParts(f) : Replaces(q, f, parts)
    BY <2>2
  <2>3. /\ DOMAIN f \subseteq FreshIds
        /\ \A a \in DOMAIN f : f[a].score = q.row /\ f[a].users \in {{u} : u \in q.seats}
        /\ \A a, b \in DOMAIN f : a # b => f[a].users # f[b].users
        /\ \A a \in DOMAIN f : \A x, y \in parts[a] : x.key = y.key => x = y
    BY <2>1, CopiesTyped
  <2>4. /\ users' = users /\ q.row # None
        /\ \A a \in Ids : score'[a] = IF a \in DOMAIN f THEN f[a].score
                                      ELSE IF a = q.of THEN None ELSE score[a]
        /\ \A a \in Ids : partials'[a] = IF a \in DOMAIN f THEN parts[a]
                                         ELSE IF a = q.of THEN {} ELSE partials[a]
        /\ relations' = Without(q.of) \cup {e \in Users \X Ids : /\ e[2] \in DOMAIN f
                                                                 /\ e[1] \in f[e[2]].users}
    BY <1>5, <2>1, ConstantsOK DEF Replaces, Replace
  <2>5. \A a \in Ids : a \in Existing' <=> a \in DOMAIN f \/ (a \in Existing /\ a # q.of)
    BY <2>3, <2>4 DEF Existing
  <2>6. \A e \in relations' : e[1] \in users' /\ e[2] \in Existing'
    <3> SUFFICES ASSUME NEW e \in relations' PROVE e[1] \in users' /\ e[2] \in Existing'
      OBVIOUS
    <3>1. CASE e \in Without(q.of)
      <4>1. e \in relations /\ e[2] # q.of /\ e[2] \in Ids
        BY <3>1 DEF Without
      <4>2. QED
        BY <2>4, <2>5, <4>1 DEF GradeIntegrity
    <3>2. CASE e \notin Without(q.of)
      <4>1. e[2] \in Ids /\ e[2] \in DOMAIN f /\ e[1] \in f[e[2]].users
        BY <2>4, <3>2
      <4>2. e[1] \in q.seats
        BY <2>3, <4>1
      <4>3. QED
        BY <2>1, <2>4, <2>5, <4>1, <4>2
    <3>3. QED
      BY <3>1, <3>2
  <2>7. \A e, g \in relations' : e[1] = g[1] => e = g
    <3> SUFFICES ASSUME NEW e \in relations', NEW g \in relations', e[1] = g[1]
                 PROVE  e = g
      OBVIOUS
    <3>1. \A h \in relations' : h \notin Without(q.of) =>
            /\ h \in Users \X Ids /\ h[2] \in DOMAIN f
            /\ f[h[2]].users = {h[1]} /\ h[1] \in q.seats
      BY <2>3, <2>4
    <3>2. CASE e \in Without(q.of) /\ g \in Without(q.of)
      BY <3>2 DEF Without, GradeIntegrity
    <3>3. CASE e \notin Without(q.of) /\ g \notin Without(q.of)
      <4>0. /\ e[2] \in DOMAIN f /\ g[2] \in DOMAIN f
            /\ f[e[2]].users = f[g[2]].users
        BY <3>1, <3>3
      <4>1. e[2] = g[2]
        BY <2>3, <4>0
      <4>2. QED
        BY <3>1, <3>3, <4>1
    <3>4. QED
      BY <2>1, <3>1, <3>2, <3>3
  <2>8. \A a \in Ids : /\ partials'[a] # {} => a \in Existing'
                       /\ \A x, y \in partials'[a] : x.key = y.key => x = y
    BY <2>3, <2>4, <2>5 DEF GradeIntegrity
  <2>9. QED
    BY <2>6, <2>7, <2>8 DEF GradeIntegrity
<1>6. ASSUME NEW a \in Ids, DeleteAssessment(a) PROVE GradeIntegrity'
  <2>1. \A b \in Ids : b \in Existing' <=> b \in Existing /\ b # a
    BY <1>6 DEF DeleteAssessment, Existing
  <2>2. \A e \in relations' : e \in relations /\ e[2] # a /\ e[2] \in Ids
    BY <1>6 DEF DeleteAssessment, Without
  <2>3. \A b \in Ids : partials'[b] = IF b = a THEN {} ELSE partials[b]
    BY <1>6 DEF DeleteAssessment
  <2>4. users' = users
    BY <1>6 DEF DeleteAssessment
  <2>5. QED
    BY <2>1, <2>2, <2>3, <2>4 DEF GradeIntegrity
<1>7. ASSUME NEW u \in Users, DeleteUser(u) PROVE GradeIntegrity'
  BY <1>7 DEF DeleteUser, GradeIntegrity, Existing
<1>8. ASSUME NEW r \in Requests, NEW a \in Ids,
             \/ \E dto \in Updates : RequestUpdate(r, a, dto)
             \/ \E k \in Keys : RequestPartial(r, a, k)
             \/ RequestConvert(r, a)
      PROVE  GradeIntegrity'
  BY <1>1, <1>8 DEF RequestUpdate, RequestPartial, RequestConvert, tables
<1>9. ASSUME NEW r \in Requests,
             LoadRow(r) \/ FailUpdate(r) \/ Reread(r) \/ FailReplace(r)
      PROVE  GradeIntegrity'
  BY <1>1, <1>9 DEF LoadRow, FailUpdate, Reread, FailReplace, tables
<1>10. CASE Exit \/ Release \/ Withdraw \/ UNCHANGED vars
  BY <1>1, <1>10 DEF Exit, Release, Withdraw, vars, tables
<1>11. ASSUME NEW e \in pending, RecordEvent(e) PROVE GradeIntegrity'
  BY <1>1, <1>11 DEF RecordEvent, Exit, tables
<1>12. QED
  BY <1>2, <1>3, <1>4, <1>5, <1>6, <1>7, <1>8, <1>9, <1>10, <1>11
     DEF Next, Arrive, Proceed

(* Both facts hold in every state. *)
LEMMA IntegrityHeld == Spec => [](GradeIntegrity /\ HeldOK)
<1>1. Init => GradeIntegrity /\ HeldOK
  BY DEF Init, GradeIntegrity, HeldOK, Idle
<1>2. TypeOK /\ GradeIntegrity /\ HeldOK /\ [Next]_vars => GradeIntegrity' /\ HeldOK'
  BY IntegrityStep, HeldStep
<1>3. QED
  BY <1>1, <1>2, TypeCorrect, PTL DEF Spec

(* However creations, stale updates, conversions and deletions interleave, a student
   has at most one assessment and nothing dangles. *)
THEOREM GradesCorrect == Spec => []GradeIntegrity
BY IntegrityHeld, PTL

--------------------------------------------------------------------------------
(* Nothing is lost *)

(* A step that takes a student's only assessment away is that of a request to delete
   it, or the student.  A conversion gives each student whom it takes the group
   assessment from one of his own, since it holds all of them. *)
LEMMA AssessedStep ==
  ASSUME TypeOK, GradeIntegrity, HeldOK, [Next]_vars,
         NEW u \in Users, Assessed(u), ~Assessed(u)'
  PROVE  \/ u \notin users'
         \/ \E a \in Ids : <<u, a>> \in relations /\ DeleteAssessment(a)
<1> USE DEF TypeOK
<1>1. ASSUME relations \subseteq relations' PROVE FALSE
  BY <1>1 DEF Assessed
<1>2. PICK a \in Ids : <<u, a>> \in relations
  <2>1. PICK e \in relations : e[1] = u
    BY DEF Assessed
  <2>2. e[2] \in Ids /\ e = <<u, e[2]>>
    BY <2>1
  <2>3. QED
    BY <2>1, <2>2
<1>3. ASSUME CreateAssessment \/ CreateAssessments PROVE FALSE
  BY <1>1, <1>3, CreationCreates DEF Creates, Insert
<1>4. ASSUME NEW r \in Requests, Replace(r) PROVE FALSE
  <2> DEFINE q == req[r]
  <2>1. q \in Request /\ q.at = "replace" /\ SeatsOf(q.of) \subseteq q.seats
    BY <1>4 DEF Replace, HeldOK
  <2>2. PICK f \in Copies(q) : \E parts \in CopiedParts(f) : Replaces(q, f, parts)
    BY <1>4, ConversionReplaces
  <2> PICK parts \in CopiedParts(f) : Replaces(q, f, parts)
    BY <2>2
  <2>3. DOMAIN f \subseteq FreshIds /\ UNION {f[b].users : b \in DOMAIN f} = q.seats
    BY <2>1, CopiesTyped
  <2>4. relations' = Without(q.of) \cup {e \in Users \X Ids : /\ e[2] \in DOMAIN f
                                                             /\ e[1] \in f[e[2]].users}
    BY DEF Replaces
  <2>5. a = q.of
    BY <1>2, <2>4 DEF Without, Assessed
  <2>6. u \in q.seats
    BY <1>2, <2>1, <2>5 DEF SeatsOf
  <2>7. PICK b \in DOMAIN f : u \in f[b].users
    BY <2>3, <2>6
  <2>8. <<u, b>> \in relations'
    BY <2>3, <2>4, <2>7 DEF FreshIds
  <2>9. QED
    BY <2>8 DEF Assessed
<1>5. ASSUME NEW b \in Ids, DeleteAssessment(b)
      PROVE  <<u, b>> \in relations /\ DeleteAssessment(b)
  BY <1>2, <1>5 DEF DeleteAssessment, Without, Assessed
<1>6. ASSUME NEW v \in Users, DeleteUser(v) PROVE u \notin users'
  BY <1>2, <1>6 DEF DeleteUser, Assessed
<1>7. ASSUME NEW r \in Requests, NEW b \in Ids,
             \/ \E dto \in Updates : RequestUpdate(r, b, dto)
             \/ \E k \in Keys : RequestPartial(r, b, k)
             \/ RequestConvert(r, b)
      PROVE  FALSE
  BY <1>1, <1>7 DEF RequestUpdate, RequestPartial, RequestConvert, tables
<1>8. ASSUME NEW r \in Requests,
             \/ LoadRow(r) \/ SaveUpdate(r) \/ FailUpdate(r) \/ Reread(r)
             \/ SavePartial(r) \/ FailReplace(r)
      PROVE  FALSE
  BY <1>1, <1>8 DEF LoadRow, SaveUpdate, FailUpdate, Reread, SavePartial, FailReplace, tables
<1>9. ASSUME Exit \/ Release \/ Withdraw \/ UNCHANGED vars PROVE FALSE
  BY <1>1, <1>9 DEF Exit, Release, Withdraw, vars, tables
<1>10. ASSUME NEW e \in pending, RecordEvent(e) PROVE FALSE
  BY <1>1, <1>10 DEF RecordEvent, Exit, tables
<1>11. QED
  BY <1>3, <1>4, <1>5, <1>6, <1>7, <1>8, <1>9, <1>10 DEF Next, Arrive, Proceed

(* A student who has an assessment keeps one until somebody deletes it, or him. *)
THEOREM NobodyLosesAssessment == Spec => AssessedStay
<1>1. TypeOK /\ GradeIntegrity /\ HeldOK /\ [Next]_vars =>
        [\A u \in Users : Assessed(u) /\ ~Assessed(u)' =>
           \/ u \notin users'
           \/ \E a \in Ids : <<u, a>> \in relations /\ DeleteAssessment(a)]_vars
  BY AssessedStep
<1>2. QED
  BY <1>1, TypeCorrect, IntegrityHeld, PTL DEF Spec, AssessedStay

(* A step that takes a key away removes the assessment, or is an update that lists
   all partials.  An update that leaves them out fails when it has not read all. *)
LEMMA PartialsStep ==
  ASSUME TypeOK, GradeIntegrity, [Next]_vars,
         NEW a \in Ids, NEW k \in KeysOf(partials[a]) \ KeysOf(partials'[a])
  PROVE  \/ score'[a] = None
         \/ \E r \in Requests : /\ req[r].at = "save" /\ req[r].of = a
                                /\ req[r].dto.keys # None /\ SaveUpdate(r)
<1> USE DEF TypeOK
<1>1. ASSUME partials[a] \subseteq partials'[a] PROVE FALSE
  BY <1>1 DEF KeysOf
<1>2. a \in Existing
  BY DEF KeysOf, GradeIntegrity
<1>3. ASSUME CreateAssessment \/ CreateAssessments PROVE FALSE
  BY <1>1, <1>2, <1>3, CreationCreates DEF Creates, Insert, FreshIds
<1>4. ASSUME NEW r \in Requests, Replace(r) PROVE score'[a] = None
  <2>1. PICK f \in Copies(req[r]) : \E parts \in CopiedParts(f) : Replaces(req[r], f, parts)
    BY <1>4, ConversionReplaces
  <2>2. DOMAIN f \subseteq FreshIds
    BY DEF Copies
  <2>3. a \notin DOMAIN f
    BY <1>2, <2>2 DEF FreshIds
  <2>4. CASE a = req[r].of
    BY <2>1, <2>3, <2>4 DEF Replaces
  <2>5. CASE a # req[r].of
    BY <1>1, <2>1, <2>3, <2>5 DEF Replaces
  <2>6. QED
    BY <2>4, <2>5
<1>5. ASSUME NEW b \in Ids, DeleteAssessment(b) PROVE score'[a] = None
  BY <1>1, <1>5 DEF DeleteAssessment
<1>6. ASSUME NEW r \in Requests, SaveUpdate(r)
      PROVE  req[r].at = "save" /\ req[r].of = a /\ req[r].dto.keys # None
  <2>1. /\ req[r].at = "save" /\ req[r].of \in Ids
        /\ partials[req[r].of] \subseteq req[r].parts
    BY <1>6, RequestHolds DEF SaveUpdate, Saveable
  <2>2. CASE req[r].of # a
    BY <1>1, <1>6, <2>1, <2>2 DEF SaveUpdate
  <2>3. CASE req[r].of = a /\ req[r].dto.keys = None
    <3>1. partials' = [partials EXCEPT ![req[r].of] = req[r].parts]
      BY <1>6, <2>3 DEF SaveUpdate
    <3>2. QED
      BY <1>1, <2>1, <2>3, <3>1
  <2>4. QED
    BY <2>1, <2>2, <2>3
<1>7. ASSUME NEW r \in Requests, SavePartial(r) PROVE FALSE
  <2>1. req[r].of \in Ids
    BY <1>7, RequestHolds DEF SavePartial
  <2>2. QED
    BY <1>1, <1>7, <2>1 DEF SavePartial
<1>8. ASSUME partials' = partials PROVE FALSE
  BY <1>1, <1>8
<1>9. ASSUME NEW r \in Requests, NEW b \in Ids,
             \/ \E dto \in Updates : RequestUpdate(r, b, dto)
             \/ \E key \in Keys : RequestPartial(r, b, key)
             \/ RequestConvert(r, b)
      PROVE  FALSE
  BY <1>8, <1>9 DEF RequestUpdate, RequestPartial, RequestConvert, tables
<1>10. ASSUME NEW r \in Requests,
              LoadRow(r) \/ FailUpdate(r) \/ Reread(r) \/ FailReplace(r)
       PROVE  FALSE
  BY <1>8, <1>10 DEF LoadRow, FailUpdate, Reread, FailReplace, tables
<1>11. ASSUME Exit \/ Release \/ Withdraw \/ UNCHANGED vars PROVE FALSE
  BY <1>8, <1>11 DEF Exit, Release, Withdraw, vars, tables
<1>12. ASSUME NEW u \in Users, DeleteUser(u) PROVE FALSE
  BY <1>8, <1>12 DEF DeleteUser
<1>13. ASSUME NEW e \in pending, RecordEvent(e) PROVE FALSE
  BY <1>8, <1>13 DEF RecordEvent, Exit, tables
<1>14. QED
  BY <1>3, <1>4, <1>5, <1>6, <1>7, <1>9, <1>10, <1>11, <1>12, <1>13
     DEF Next, Arrive, Proceed

(* Only removing the assessment or listing all its partials loses a partial. *)
THEOREM NoPartialLost == Spec => PartialsStay
<1>1. TypeOK /\ GradeIntegrity /\ [Next]_vars =>
        [\A a \in Ids : \A k \in KeysOf(partials[a]) \ KeysOf(partials'[a]) :
           \/ score'[a] = None
           \/ \E r \in Requests : /\ req[r].at = "save" /\ req[r].of = a
                                  /\ req[r].dto.keys # None /\ SaveUpdate(r)]_vars
  BY PartialsStep
<1>2. QED
  BY <1>1, TypeCorrect, GradesCorrect, PTL DEF Spec, PartialsStay

--------------------------------------------------------------------------------
(* Scores can be traced *)

(* A request that is updating a, from reading the original to reading it again. *)
UpdatesOf(r, a) == req[r].at \in {"load", "save", "reread"} /\ req[r].of = a

(* One update or one log entry of a is under way at most. *)
OneUpdate(a) ==
  /\ \A r, s \in Requests : UpdatesOf(r, a) /\ UpdatesOf(s, a) => r = s
  /\ \A d, e \in pending : d.of = a /\ e.of = a => d = e
  /\ \A r \in Requests, e \in pending : ~(UpdatesOf(r, a) /\ e.of = a)

(* Until it saves, an update knows the score of a; a log entry has it. *)
ScoreKnown(a) ==
  /\ \A r \in Requests :
       UpdatesOf(r, a) /\ req[r].at # "reread" => score[a] = req[r].original
  /\ \A e \in pending : e.of = a => score[a] = e.new

(* What is told of a is its score, or still the original of the update that is about
   to tell. *)
ToldKnown(a) ==
  (\A e \in pending : e.of # a) =>
    \/ told[a] = score[a]
    \/ \E r \in Requests : /\ UpdatesOf(r, a) /\ req[r].at = "reread"
                           /\ told[a] = req[r].original

(* What holds of an assessment that is not excused. *)
Accounted(a) ==
  /\ OneUpdate(a)
  /\ a \in Existing => ScoreKnown(a)
  /\ a \in Existing /\ released => ToldKnown(a)

Traced == \A a \in Ids : a \notin excused => Accounted(a)

(* Without an update or log entry under way, told and score agree. *)
LEMMA TracedSuffices ==
  ASSUME Traced
  PROVE  ScoreTraced
<1> SUFFICES ASSUME NEW a \in Existing, released, ~Updating(a), a \notin excused
             PROVE  told[a] = score[a]
  BY DEF ScoreTraced
<1>1. ToldKnown(a)
  BY DEF Traced, Accounted, Existing
<1>2. \A e \in pending : e.of # a
  BY DEF Updating
<1>3. \A r \in Requests : ~UpdatesOf(r, a)
  BY DEF Updating, UpdatesOf
<1>4. QED
  BY <1>1, <1>2, <1>3 DEF ToldKnown

(* An assessment stays accounted for when no request that updates it changes, and its
   score and what is told of it neither. *)
LEMMA AccountedFrame ==
  ASSUME NEW a \in Ids, Accounted(a),
         \A r \in Requests : UpdatesOf(r, a) => req'[r] = req[r],
         \A r \in Requests : UpdatesOf(r, a)' => req'[r] = req[r],
         \A e \in pending' \cup pending : e.of = a => e \in pending' \cap pending,
         a \in Existing' => score'[a] = score[a],
         a \in Existing' /\ released' => released /\ told'[a] = told[a]
  PROVE  Accounted(a)'
<1>1. \A r \in Requests : UpdatesOf(r, a)' <=> UpdatesOf(r, a)
  BY DEF UpdatesOf
<1>2. OneUpdate(a)'
  BY <1>1 DEF Accounted, OneUpdate, UpdatesOf
<1>3. a \in Existing' => a \in Existing
  BY DEF Existing
<1>4. a \in Existing' => ScoreKnown(a)'
  BY <1>1, <1>3 DEF Accounted, ScoreKnown, UpdatesOf
<1>5. a \in Existing' /\ released' => ToldKnown(a)'
  <2> SUFFICES ASSUME a \in Existing', released' PROVE ToldKnown(a)'
    OBVIOUS
  <2>1. ToldKnown(a)
    BY <1>3 DEF Accounted
  <2>2. CASE \E e \in pending : e.of = a
    BY <2>2 DEF ToldKnown
  <2>3. CASE told[a] = score[a]
    BY <2>3 DEF ToldKnown
  <2>4. CASE \E r \in Requests : /\ UpdatesOf(r, a) /\ req[r].at = "reread"
                                 /\ told[a] = req[r].original
    <3>1. PICK r \in Requests : /\ UpdatesOf(r, a) /\ req[r].at = "reread"
                                /\ told[a] = req[r].original
      BY <2>4
    <3>2. /\ UpdatesOf(r, a)' /\ req'[r].at = "reread"
          /\ told'[a] = req'[r].original
      BY <1>1, <3>1
    <3>3. QED
      BY <3>2 DEF ToldKnown
  <2>5. QED
    BY <2>1, <2>2, <2>3, <2>4 DEF ToldKnown
<1>6. QED
  BY <1>2, <1>4, <1>5 DEF Accounted

(* A new assessment, one without updates and log entries, is accounted for when what
   is told of it is its score. *)
LEMMA AccountedFresh ==
  ASSUME NEW a \in Ids,
         \A r \in Requests : ~UpdatesOf(r, a)',
         \A e \in pending' : e.of # a,
         a \in Existing' /\ released' => told'[a] = score'[a]
  PROVE  Accounted(a)'
BY DEF Accounted, OneUpdate, ScoreKnown, ToldKnown

(* Nothing happens to an assessment that is not excused without its update, or its log
   entry, knowing. *)
LEMMA TracedStep ==
  ASSUME TypeOK, Traced, [Next]_vars
  PROVE  Traced'
<1> USE DEF TypeOK
<1> SUFFICES ASSUME NEW a \in Ids, a \notin excused' PROVE Accounted(a)'
  BY DEF Traced
<1>0. ASSUME a \notin excused PROVE Accounted(a)
  BY <1>0 DEF Traced
<1>1. CASE CreateAssessment \/ CreateAssessments
  <2>1. PICK f, parts : Creates(f, parts)
    BY <1>1, CreationCreates
  <2>2. /\ a \notin excused /\ req' = req /\ pending' = pending /\ released' = released
        /\ score'[a] = IF a \in DOMAIN f THEN f[a].score ELSE score[a]
        /\ released => told'[a] = IF a \in DOMAIN f THEN f[a].score ELSE told[a]
    BY <2>1 DEF Creates, Insert, Tell
  <2>3. CASE a \in DOMAIN f
    <3>1. /\ \A r \in Requests : req[r].at # "idle" => req[r].of # a
          /\ \A e \in pending : e.of # a
      BY <2>1, <2>3 DEF Creates, FreshIds
    <3>2. \A r \in Requests : ~UpdatesOf(r, a)'
      BY <2>2, <3>1 DEF UpdatesOf
    <3>3. QED
      BY <2>2, <2>3, <3>1, <3>2, AccountedFresh
  <2>4. CASE a \notin DOMAIN f
    BY <1>0, <2>2, <2>4, AccountedFrame
  <2>5. QED
    BY <2>3, <2>4
<1>2. ASSUME NEW r \in Requests, NEW b \in Ids, NEW dto \in Updates,
             RequestUpdate(r, b, dto)
      PROVE  Accounted(a)'
  <2> DEFINE next == [at |-> "load", of |-> b, dto |-> dto, original |-> score[b]]
  <2>1. /\ req[r] = Idle /\ score' = score /\ told' = told /\ released' = released
        /\ pending' = pending /\ req' = [req EXCEPT ![r] = next]
        /\ excused' = IF Updating(b) THEN excused \cup {b} ELSE excused
    BY <1>2 DEF RequestUpdate, Goto, tables
  <2>2. a \notin excused /\ Accounted(a)
    BY <1>0, <2>1
  <2>3. ~UpdatesOf(r, a)
    BY <2>1 DEF Idle, UpdatesOf
  <2>4. CASE a # b
    <3>1. ~UpdatesOf(r, a)'
      BY <2>1, <2>4 DEF UpdatesOf
    <3>2. \A x \in Requests : UpdatesOf(x, a)' => req'[x] = req[x]
      BY <2>1, <3>1
    <3>3. \A x \in Requests : UpdatesOf(x, a) => req'[x] = req[x]
      BY <2>1, <2>3
    <3>4. QED
      BY <2>1, <2>2, <3>2, <3>3, AccountedFrame
  <2>5. CASE a = b
    <3>1. ~Updating(a)
      BY <2>1, <2>5
    <3>2. /\ \A x \in Requests : ~UpdatesOf(x, a)
          /\ \A e \in pending : e.of # a
      BY <3>1 DEF Updating, UpdatesOf
    <3>3. \A x \in Requests : UpdatesOf(x, a)' => x = r
      BY <2>1, <3>2 DEF UpdatesOf
    <3>4. OneUpdate(a)'
      BY <2>1, <3>2, <3>3 DEF OneUpdate
    <3>5. ScoreKnown(a)'
      BY <2>1, <2>5, <3>2, <3>3 DEF ScoreKnown
    <3>6. a \in Existing' /\ released' => told'[a] = score'[a]
      <4>1. a \in Existing' => a \in Existing
        BY <2>1 DEF Existing
      <4>2. QED
        BY <2>1, <2>2, <3>2, <4>1 DEF Accounted, ToldKnown
    <3>7. QED
      BY <3>4, <3>5, <3>6 DEF Accounted, ToldKnown
  <2>6. QED
    BY <2>4, <2>5
<1>3. ASSUME NEW r \in Requests, NEW next, req[r].at # "load", req[r].at # "save",
             req[r].at # "reread", next.at \notin {"load", "save", "reread"},
             Goto(r, next), UNCHANGED <<released, pending, excused>>,
             a \in Existing' => score'[a] = score[a],
             released => told'[a] = told[a]
      PROVE  Accounted(a)'
  <2>1. ~UpdatesOf(r, a) /\ ~UpdatesOf(r, a)'
    BY <1>3 DEF UpdatesOf, Goto
  <2>2. \A x \in Requests : x # r => req'[x] = req[x]
    BY <1>3 DEF Goto
  <2>3. /\ \A x \in Requests : UpdatesOf(x, a)' => req'[x] = req[x]
        /\ \A x \in Requests : UpdatesOf(x, a) => req'[x] = req[x]
    BY <2>1, <2>2
  <2>4. Accounted(a)
    BY <1>0, <1>3
  <2>5. QED
    BY <1>3, <2>3, <2>4, AccountedFrame
<1>4. ASSUME NEW r \in Requests, NEW b \in Ids, NEW k \in Keys, RequestPartial(r, b, k)
      PROVE  Accounted(a)'
  <2> DEFINE found == {p.id : p \in {q \in partials[b] : q.key = k}}
             i == IF found = {} THEN None ELSE CHOOSE j \in found : TRUE
             next == [at |-> "put", of |-> b, key |-> k, found |-> i]
  <2>1. Goto(r, next) /\ req[r] = Idle /\ UNCHANGED <<released, pending, excused, score, told>>
    BY <1>4 DEF RequestPartial, tables
  <2>2. next.at = "put" /\ req[r].at = "idle"
    BY <2>1 DEF Idle
  <2>3. QED
    <3> HIDE DEF next
    <3> QED BY <1>3, <2>1, <2>2
<1>5. ASSUME NEW r \in Requests, NEW b \in Ids, RequestConvert(r, b) PROVE Accounted(a)'
  <2> DEFINE next == [at |-> "replace", of |-> b, row |-> score[b],
                      keys |-> KeysOf(partials[b]), seats |-> SeatsOf(b)]
  <2>1. Goto(r, next) /\ req[r] = Idle /\ UNCHANGED <<released, pending, excused, score, told>>
    BY <1>5 DEF RequestConvert, tables
  <2>2. next.at = "replace" /\ req[r].at = "idle"
    BY <2>1 DEF Idle
  <2>3. QED
    <3> HIDE DEF next
    <3> QED BY <1>3, <2>1, <2>2
<1>6. ASSUME NEW r \in Requests, SavePartial(r) \/ FailReplace(r) PROVE Accounted(a)'
  <2>1. /\ Goto(r, Idle) /\ req[r].at \in {"put", "replace"}
        /\ UNCHANGED <<released, pending, excused, score, told>>
    BY <1>6 DEF SavePartial, FailReplace, tables
  <2>2. QED
    BY <1>3, <2>1 DEF Idle
<1>7. ASSUME NEW r \in Requests, Replace(r) PROVE Accounted(a)'
  <2>1. PICK f \in Copies(req[r]) : \E parts \in CopiedParts(f) : Replaces(req[r], f, parts)
    BY <1>7, ConversionReplaces
  <2>2. /\ score'[a] = IF a \in DOMAIN f THEN f[a].score
                       ELSE IF a = req[r].of THEN None ELSE score[a]
        /\ released => told'[a] = IF a \in DOMAIN f THEN f[a].score
                                  ELSE IF a = req[r].of THEN None ELSE told[a]
    BY <2>1 DEF Replaces, Tell
  <2>3. /\ Goto(r, Idle) /\ req[r].at = "replace"
        /\ UNCHANGED <<released, pending, excused>>
    BY <1>7 DEF Replace
  <2>4. CASE a \in DOMAIN f
    <3>1. a \in FreshIds
      BY <2>4 DEF Copies
    <3>2. /\ \A x \in Requests : req[x].at # "idle" => req[x].of # a
          /\ \A e \in pending : e.of # a
      BY <3>1 DEF FreshIds
    <3>3. \A x \in Requests : ~UpdatesOf(x, a)'
      BY <2>3, <3>2 DEF UpdatesOf, Goto, Idle
    <3>4. QED
      BY <2>2, <2>3, <2>4, <3>2, <3>3, AccountedFresh
  <2>5. CASE a \notin DOMAIN f /\ a # req[r].of
    BY <1>3, <2>2, <2>3, <2>5 DEF Idle
  <2>6. CASE a \notin DOMAIN f /\ a = req[r].of
    <3>1. a \notin Existing'
      BY <2>2, <2>6 DEF Existing
    <3>2. /\ \A x \in Requests : x # r => req'[x] = req[x]
          /\ ~UpdatesOf(r, a) /\ ~UpdatesOf(r, a)'
      BY <2>3 DEF Goto, UpdatesOf, Idle
    <3>3. /\ \A x \in Requests : UpdatesOf(x, a)' => req'[x] = req[x]
          /\ \A x \in Requests : UpdatesOf(x, a) => req'[x] = req[x]
      BY <3>2
    <3>4. QED
      BY <1>0, <2>3, <3>1, <3>3, AccountedFrame
  <2>7. QED
    BY <2>4, <2>5, <2>6
<1>8. ASSUME NEW r \in Requests, LoadRow(r) PROVE Accounted(a)'
  <2> DEFINE q == req[r]
             next == [at |-> "save", of |-> q.of, dto |-> q.dto, original |-> q.original,
                      row |-> IF q.dto.score = None THEN score[q.of] ELSE q.dto.score,
                      parts |-> partials[q.of]]
  <2>1. /\ q.at = "load" /\ UNCHANGED <<released, score, pending, told, excused>>
        /\ \A x \in Requests : x # r => req'[x] = req[x]
        /\ req'[r] = IF q.of \in Existing THEN next ELSE Idle
    BY <1>8 DEF LoadRow, Goto, tables
  <2>2. next.at = "save" /\ next.of = q.of /\ next.original = q.original
    OBVIOUS
  <2>3. Accounted(a)
    BY <1>0, <2>1
  <2> HIDE DEF next
  <2>4. CASE a # q.of
    <3>1. ~UpdatesOf(r, a) /\ ~UpdatesOf(r, a)'
      BY <2>1, <2>2, <2>4 DEF UpdatesOf, Idle
    <3>2. /\ \A x \in Requests : UpdatesOf(x, a)' => req'[x] = req[x]
          /\ \A x \in Requests : UpdatesOf(x, a) => req'[x] = req[x]
      BY <2>1, <3>1
    <3>3. QED
      BY <2>1, <2>3, <3>2, AccountedFrame
  <2>5. CASE a = q.of
    <3>1. UpdatesOf(r, a)
      BY <2>1, <2>5 DEF UpdatesOf
    <3>2. \A x \in Requests : UpdatesOf(x, a)' => x = r /\ req'[r] = next
      BY <2>1, <2>3, <3>1 DEF UpdatesOf, Accounted, OneUpdate, Idle
    <3>3. OneUpdate(a)'
      BY <2>1, <2>3, <3>1, <3>2 DEF Accounted, OneUpdate
    <3>4. ASSUME a \in Existing' PROVE ScoreKnown(a)' /\ (released' => ToldKnown(a)')
      <4>1. a \in Existing
        BY <2>1, <3>4 DEF Existing
      <4>2. ScoreKnown(a)'
        BY <2>1, <2>2, <2>3, <3>1, <3>2, <4>1 DEF Accounted, ScoreKnown
      <4>3. \A x \in Requests : UpdatesOf(x, a) => x = r
        BY <2>3, <3>1 DEF Accounted, OneUpdate
      <4>4. released' => ToldKnown(a)'
        BY <2>1, <2>3, <4>1, <4>3 DEF Accounted, ToldKnown
      <4>5. QED
        BY <4>2, <4>4
    <3>5. QED
      BY <3>3, <3>4 DEF Accounted
  <2>6. QED
    BY <2>4, <2>5
<1>9. ASSUME NEW r \in Requests, SaveUpdate(r) PROVE Accounted(a)'
  <2> DEFINE q == req[r]
             next == [at |-> "reread", of |-> q.of, original |-> q.original]
  <2>1. /\ q.at = "save" /\ UNCHANGED <<released, pending, excused>>
        /\ \A x \in Requests : x # r => req'[x] = req[x]
        /\ req'[r] = next
        /\ score' = [score EXCEPT ![q.of] = q.row]
        /\ released => told' = IF q.of \in Existing THEN told
                              ELSE [told EXCEPT ![q.of] = q.row]
    BY <1>9 DEF SaveUpdate, Goto, Tell
  <2>2. next.at = "reread" /\ next.of = q.of /\ next.original = q.original
    OBVIOUS
  <2>3. Accounted(a) /\ q.of \in Ids
    BY <1>0, <2>1, RequestHolds
  <2> HIDE DEF next
  <2>4. CASE a # q.of
    <3>1. ~UpdatesOf(r, a) /\ ~UpdatesOf(r, a)'
      BY <2>1, <2>2, <2>4 DEF UpdatesOf
    <3>2. /\ \A x \in Requests : UpdatesOf(x, a)' => req'[x] = req[x]
          /\ \A x \in Requests : UpdatesOf(x, a) => req'[x] = req[x]
      BY <2>1, <3>1
    <3>3. score'[a] = score[a] /\ (released => told'[a] = told[a])
      BY <2>1, <2>3, <2>4
    <3>4. QED
      BY <2>1, <2>3, <3>2, <3>3, AccountedFrame
  <2>5. CASE a = q.of
    <3>1. UpdatesOf(r, a)
      BY <2>1, <2>5 DEF UpdatesOf
    <3>2. /\ \A x \in Requests : UpdatesOf(x, a)' => x = r
          /\ \A x \in Requests : UpdatesOf(x, a) => x = r
          /\ UpdatesOf(r, a)'
      BY <2>1, <2>2, <2>3, <2>5, <3>1 DEF UpdatesOf, Accounted, OneUpdate
    <3>3. \A e \in pending' : e.of # a
      BY <2>1, <2>3, <3>1 DEF Accounted, OneUpdate
    <3>4. OneUpdate(a)' /\ ScoreKnown(a)'
      BY <2>1, <2>2, <3>2, <3>3 DEF OneUpdate, ScoreKnown
    <3>5. ASSUME released' PROVE ToldKnown(a)'
      <4>1. CASE a \in Existing
        <5>1. score[a] = q.original /\ told' = told
          BY <2>1, <2>3, <2>5, <3>1, <3>5, <4>1 DEF Accounted, ScoreKnown
        <5>2. told[a] = score[a]
          BY <2>1, <2>3, <3>2, <3>3, <3>5, <4>1 DEF Accounted, ToldKnown
        <5>3. UpdatesOf(r, a)' /\ req'[r].at = "reread" /\ told'[a] = req'[r].original
          BY <2>1, <2>2, <3>2, <5>1, <5>2
        <5>4. QED
          BY <5>3 DEF ToldKnown
      <4>2. CASE a \notin Existing
        <5>1. told'[a] = score'[a]
          BY <2>1, <2>5, <3>5, <4>2
        <5>2. QED
          BY <5>1 DEF ToldKnown
      <4>3. QED
        BY <4>1, <4>2
    <3>6. QED
      BY <3>4, <3>5 DEF Accounted
  <2>6. QED
    BY <2>4, <2>5
<1>10. ASSUME NEW r \in Requests, FailUpdate(r) \/ Reread(r) PROVE Accounted(a)'
  <2> DEFINE q == req[r]
  <2>1. /\ q.at \in {"save", "reread"} /\ UNCHANGED <<released, score, told, excused>>
        /\ \A x \in Requests : x # r => req'[x] = req[x]
        /\ req'[r] = Idle
        /\ \/ pending' = pending
           \/ /\ q.at = "reread" /\ q.of \in Existing
              /\ scoreChangedAfterRelease(q.original, score[q.of])
              /\ pending' = pending \cup {[of |-> q.of, new |-> score[q.of]]}
        /\ q.at = "reread" /\ q.of \in Existing /\ pending' = pending =>
             \/ ~scoreChangedAfterRelease(q.original, score[q.of])
             \/ [of |-> q.of, new |-> score[q.of]] \in pending
    <3>1. CASE FailUpdate(r)
      BY <3>1 DEF FailUpdate, Goto, tables
    <3>2. CASE Reread(r)
      BY <3>2 DEF Reread, Goto, tables
    <3>3. QED
      BY <1>10, <3>1, <3>2
  <2>2. Accounted(a)
    BY <1>0, <2>1
  <2>3. ~UpdatesOf(r, a)'
    BY <2>1 DEF UpdatesOf, Idle
  <2>4. CASE a # q.of
    <3>1. ~UpdatesOf(r, a)
      BY <2>4 DEF UpdatesOf
    <3>2. /\ \A x \in Requests : UpdatesOf(x, a)' => req'[x] = req[x]
          /\ \A x \in Requests : UpdatesOf(x, a) => req'[x] = req[x]
      BY <2>1, <2>3, <3>1
    <3>3. \A e \in pending' \cup pending : e.of = a => e \in pending' \cap pending
      BY <2>1, <2>4
    <3>4. QED
      BY <2>1, <2>2, <3>2, <3>3, AccountedFrame
  <2>5. CASE a = q.of
    <3>1. UpdatesOf(r, a)
      BY <2>1, <2>5 DEF UpdatesOf
    <3>2. \A e \in pending : e.of # a
      BY <2>2, <3>1 DEF Accounted, OneUpdate
    <3>3. \A x \in Requests : UpdatesOf(x, a) => x = r
      BY <2>2, <3>1 DEF Accounted, OneUpdate
    <3>4. \A x \in Requests : ~UpdatesOf(x, a)'
      BY <2>1, <2>3, <3>3 DEF UpdatesOf
    <3>5. CASE pending' = pending
      <4>1. ASSUME a \in Existing', released' PROVE told'[a] = score'[a]
        <5>1. a \in Existing /\ released
          BY <2>1, <4>1 DEF Existing
        <5>2. ToldKnown(a)
          BY <2>2, <5>1 DEF Accounted
        <5>3. CASE told[a] = score[a]
          BY <2>1, <5>3
        <5>4. CASE told[a] = q.original /\ q.at = "reread"
          <6>1. [of |-> q.of, new |-> score[q.of]] \notin pending
            BY <2>5, <3>2
          <6>2. q.original = score[a]
            BY <2>1, <2>5, <3>5, <5>1, <5>4, <6>1 DEF scoreChangedAfterRelease
          <6>3. QED
            BY <2>1, <5>4, <6>2
        <5>5. QED
          BY <3>2, <3>3, <5>2, <5>3, <5>4 DEF ToldKnown
      <4>2. QED
        BY <3>2, <3>4, <3>5, <4>1, AccountedFresh
    <3>6. CASE pending' # pending
      <4>1. pending' = pending \cup {[of |-> a, new |-> score[a]]}
        BY <2>1, <2>5, <3>6
      <4>2. \A e \in pending' : e.of = a => e = [of |-> a, new |-> score[a]]
        BY <3>2, <4>1
      <4>3. [of |-> a, new |-> score[a]] \in pending' /\ [of |-> a, new |-> score[a]].of = a
        BY <4>1
      <4>4. OneUpdate(a)'
        BY <3>4, <4>2 DEF OneUpdate
      <4>5. ScoreKnown(a)'
        BY <2>1, <3>4, <4>2 DEF ScoreKnown
      <4>6. ToldKnown(a)'
        BY <4>3 DEF ToldKnown
      <4>7. QED
        BY <4>4, <4>5, <4>6 DEF Accounted
    <3>7. QED
      BY <3>5, <3>6
  <2>6. QED
    BY <2>4, <2>5
<1>11. CASE Exit
  <2>1. /\ ~Updating(a) /\ a \notin excused /\ UNCHANGED <<released, score, told>>
        /\ pending' = {} /\ \A x \in Requests : req'[x] = Idle
    BY <1>11 DEF Exit, tables
  <2>2. \A x \in Requests : ~UpdatesOf(x, a) /\ ~UpdatesOf(x, a)'
    BY <2>1 DEF Updating, UpdatesOf, Idle
  <2>3. \A e \in pending : e.of # a
    BY <2>1 DEF Updating
  <2>4. QED
    BY <1>0, <2>1, <2>2, <2>3, AccountedFrame
<1>12. ASSUME NEW e \in pending, RecordEvent(e) PROVE Accounted(a)'
  <2>1. CASE e.of \notin Existing
    BY <1>11, <1>12, <2>1 DEF RecordEvent
  <2>2. CASE e.of \in Existing
    <3>1. /\ UNCHANGED <<released, score, req, excused>> /\ pending' = pending \ {e}
          /\ released => told' = [told EXCEPT ![e.of] = e.new]
      BY <1>12, <2>2 DEF RecordEvent, Tell, tables
    <3>2. Accounted(a)
      BY <1>0, <3>1
    <3>3. CASE a # e.of
      BY <3>1, <3>2, <3>3, AccountedFrame
    <3>4. CASE a = e.of
      <4>1. \A x \in Requests : ~UpdatesOf(x, a)
        BY <3>2, <3>4 DEF Accounted, OneUpdate
      <4>2. \A x \in Requests : ~UpdatesOf(x, a)'
        BY <3>1, <4>1 DEF UpdatesOf
      <4>3. \A d \in pending' : d.of # a
        BY <3>1, <3>2, <3>4 DEF Accounted, OneUpdate
      <4>4. score[a] = e.new
        BY <2>2, <3>2, <3>4 DEF Accounted, ScoreKnown
      <4>5. released => told'[a] = score'[a]
        BY <3>1, <3>4, <4>4
      <4>6. QED
        BY <3>1, <4>2, <4>3, <4>5, AccountedFresh
    <3>5. QED
      BY <3>3, <3>4
  <2>3. QED
    BY <2>1, <2>2
<1>13. ASSUME NEW b \in Ids, DeleteAssessment(b) PROVE Accounted(a)'
  <2>1. /\ UNCHANGED <<released, req, pending, excused>>
        /\ score' = [score EXCEPT ![b] = None]
        /\ released => told' = [told EXCEPT ![b] = None]
    BY <1>13 DEF DeleteAssessment, Tell
  <2>2. a \in Existing' => score'[a] = score[a] /\ (released => told'[a] = told[a])
    BY <2>1 DEF Existing
  <2>3. QED
    BY <1>0, <2>1, <2>2, AccountedFrame
<1>14. CASE Release \/ Withdraw
  <2>1. /\ UNCHANGED <<score, req, pending>>
        /\ excused' = {b \in excused : Updating(b)}
        /\ released' => told' = score
    BY <1>14 DEF Release, Withdraw
  <2>2. CASE a \in excused
    <3>1. ~Updating(a)
      BY <2>1, <2>2
    <3>2. /\ \A x \in Requests : ~UpdatesOf(x, a)'
          /\ \A e \in pending' : e.of # a
      BY <2>1, <3>1 DEF Updating, UpdatesOf
    <3>3. QED
      BY <2>1, <3>2, AccountedFresh
  <2>3. CASE a \notin excused
    <3>1. Accounted(a)
      BY <1>0, <2>3
    <3>2. OneUpdate(a)' /\ (a \in Existing' => ScoreKnown(a)')
      BY <2>1, <3>1 DEF Accounted, OneUpdate, ScoreKnown, UpdatesOf, Existing
    <3>3. released' => ToldKnown(a)'
      BY <2>1 DEF ToldKnown
    <3>4. QED
      BY <3>2, <3>3 DEF Accounted
  <2>4. QED
    BY <2>2, <2>3
<1>15. ASSUME NEW u \in Users, DeleteUser(u) PROVE Accounted(a)'
  <2>1. UNCHANGED <<released, score, req, pending, told, excused>>
    BY <1>15 DEF DeleteUser
  <2>2. QED
    BY <1>0, <2>1, AccountedFrame
<1>16. CASE UNCHANGED vars
  <2>1. UNCHANGED <<released, score, req, pending, told, excused>>
    BY <1>16 DEF vars, tables
  <2>2. QED
    BY <1>0, <2>1, AccountedFrame
<1>17. QED
  BY <1>1, <1>2, <1>4, <1>5, <1>6, <1>7, <1>8, <1>9, <1>10, <1>11, <1>12, <1>13,
     <1>14, <1>15, <1>16 DEF Next, Arrive, Proceed

(* After the release, what a student was told and the log lead to the present score,
   unless two updates overlapped or the process ended in one. *)
THEOREM ScoresTraced == Spec => []ScoreTraced
<1>1. Init => Traced
  BY DEF Init, Traced, Accounted, OneUpdate, ScoreKnown, ToldKnown, UpdatesOf, Idle, Existing
<1>2. TypeOK /\ Traced /\ [Next]_vars => Traced'
  BY TracedStep
<1>3. Traced => ScoreTraced
  BY TracedSuffices
<1>4. QED
  BY <1>1, <1>2, <1>3, TypeCorrect, PTL DEF Spec
================================================================================
