---------------------------------- MODULE Notices ----------------------------------
(****************************************************************************)
(* The subscribers of a course and what is posted to them: the              *)
(* SubscriberRepository, NotificationSaga and NotificationService           *)
(* (notification/).  One course.                                            *)
(****************************************************************************)
EXTENDS Naturals, FiniteSets

CONSTANTS
  Names,          \* names of subscribers
  Events,         \* events that are notified
  Requests,       \* requests that may be served at the same time
  None            \* undefined

VARIABLES
  subscribers,    \* rows: [id, name, events]
  req,            \* the requests
  event,          \* the event that is being notified
  posts           \* what has been posted for it: [id, name]

vars == <<subscribers, req, event, posts>>

--------------------------------------------------------------------------------

(* SubscribedEvents of a subscriber *)
Choices == (SUBSET Events \ {{}}) \cup {{"ALL"}}

Idle == [at |-> "idle"]

Move(r, state) == req' = [req EXCEPT ![r] = state]

(* An id that no row of the name has and no request. *)
FreshId(name) ==
  LET used == {s.id : s \in {t \in subscribers : t.name = name}} \cup
              {req[r].id : r \in {q \in Requests : req[q].at # "idle" /\ req[q].name = name}}
      ids == 1..(Cardinality(Requests) + 2) \ used
  IN  CHOOSE i \in ids : \A j \in ids : i <= j

(* findOne, or findOneOrFail, for the name *)
Find(r, name, events, at) ==
  /\ req[r].at = "idle"
  /\ \/ \E s \in subscribers :
          s.name = name /\ Move(r, [at |-> at, name |-> name, id |-> s.id, events |-> events])
     \/ /\ \A s \in subscribers : s.name # name
        /\ at = "saving"
        /\ Move(r, [at |-> at, name |-> name, id |-> None, events |-> events])
  /\ UNCHANGED <<subscribers, event, posts>>

(* Mutant of NameTaken: the names are not unique. *)
NameTaken_NoIndex(rows, name) == FALSE

(* The index on name and course. *)
NameTaken(rows, name) == \E s \in rows : s.name = name

(* save of addOrUpdate: a subscriber that was removed since it was found is inserted
   again, as long as its name is free. *)
Save(r) ==
  LET id == IF req[r].id = None THEN FreshId(req[r].name) ELSE req[r].id
      others == {s \in subscribers : ~(s.name = req[r].name /\ s.id = id)}
      row == [id |-> id, name |-> req[r].name, events |-> req[r].events]
  IN  /\ req[r].at = "saving"
      /\ subscribers' = IF NameTaken(others, req[r].name) THEN subscribers
                        ELSE others \cup {row}
      /\ Move(r, Idle)
      /\ UNCHANGED <<event, posts>>

(* removeSubscriber *)
Remove(r) ==
  /\ req[r].at = "removing"
  /\ subscribers' = {s \in subscribers : ~(s.name = req[r].name /\ s.id = req[r].id)}
  /\ Move(r, Idle)
  /\ UNCHANGED <<event, posts>>

(* NotificationSaga *)
Publish(e) ==
  /\ event = None
  /\ event' = e /\ posts' = {}
  /\ UNCHANGED <<subscribers, req>>

(* notifySubscribers: one query, then a post to each. *)
notifySubscribers ==
  /\ event # None
  /\ posts' = {[id |-> s.id, name |-> s.name] :
                 s \in {t \in subscribers : "ALL" \in t.events \/ event \in t.events}}
  /\ event' = None
  /\ UNCHANGED <<subscribers, req>>

Init ==
  /\ subscribers = {}
  /\ req = [r \in Requests |-> Idle]
  /\ event = None
  /\ posts = {}

Next ==
  \/ \E r \in Requests, name \in Names :
       \/ \E events \in Choices : Find(r, name, events, "saving")
       \/ Find(r, name, {}, "removing")
  \/ \E r \in Requests : Save(r) \/ Remove(r)
  \/ \E e \in Events : Publish(e)
  \/ notifySubscribers

Spec == Init /\ [][Next]_vars

--------------------------------------------------------------------------------
(* Properties *)

(* A notification is posted once to every subscriber who has subscribed to its event and
   to nobody else, also when a subscriber is being added, changed and removed by several
   requests at once. *)
PostsOnce ==
  event # None /\ event' = None =>
    \A name \in Names :
      Cardinality({p \in posts' : p.name = name}) =
        IF \E s \in subscribers : s.name = name /\ s.events \cap {"ALL", event} # {}
        THEN 1 ELSE 0

NotifiedOnce == [][PostsOnce]_vars
====================================================================================
