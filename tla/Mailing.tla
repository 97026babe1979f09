--------------------------------- MODULE Mailing ---------------------------------
(****************************************************************************)
(* The mails of MailingListener (mailing/).  An event starts a handler that *)
(* nobody waits for; it reads groups, assessments and participants with     *)
(* their settings in several queries, while all of these change, and then   *)
(* hands mails to the MailingService.  A handler that throws rejects a      *)
(* promise without a handler, which ends the process.                       *)
(*                                                                          *)
(* Handlers only read, so one of them stands for all, and the tables are    *)
(* what it may read of them.  Mails are what matters of them: receiver and  *)
(* language.                                                                *)
(****************************************************************************)
EXTENDS Naturals, Sequences

CONSTANTS
  Users,
  Profiles,       \* what matters of users: [email, allow, blacklist, language], see below
  MaxChanges,     \* bound: changes while the handler works
  None            \* undefined

VARIABLES
  profile,        \* the profile of each user; without settings, language is None
  participants,   \* participants of the course
  members,        \* the users of the row that the event is about: the members of the
                  \* group, those registered with it, the users of the assessment or of
                  \* all assessments; None when the row is missing
  handler,        \* the handler
  mails,          \* the languages of the mails to each user
  changes,        \* changes so far
  past            \* what was true since the event (for properties)

world == <<profile, participants, members>>

vars == <<world, handler, mails, changes, past>>

--------------------------------------------------------------------------------

Languages == {"DE", "EN"}

MailEvents ==
  {"ASSIGNMENT_STARTED", "ASSIGNMENT_EVALUATED", "ASSESSMENT_SCORE_CHANGED",
   "PARTICIPANT_JOINED_GROUP", "PARTICIPANT_LEFT_GROUP", "SUBMISSION_CREATED"}

(* What the constants are assumed to be.  blacklist holds keys of blacklistedEvents. *)
ConstantsOK ==
  \A p \in Profiles :
    /\ p.email \in BOOLEAN /\ p.allow \in BOOLEAN
    /\ p.language \in Languages \cup {None}

(* getPreferredLanguage and splitRecipientsByLanguage *)
Preferred(p) == IF p.language = None THEN "DE" ELSE p.language

(* Mutant of Receives: the blacklist is forgotten. *)
Receives_AllowOnly(p, event) == p.email /\ p.allow

(* Mutant of Receives: who has no settings is left out. *)
Receives_NeedsSettings(p, event) ==
  p.email /\ p.allow /\ event \notin p.blacklist /\ p.language # None

(* filterReceivers: who has no settings is allowed everything.  The blacklist is asked
   for the name of the mail.  The settings are declared with the names of Event, none of
   which is the name of a mail, but no name that a user sends is refused. *)
Receives(p, event) == p.email /\ p.allow /\ event \notin p.blacklist

(* The templates: the language of the text, None for an empty mail. *)
StartedContent(language) == IF language = "DE" THEN "DE" ELSE "EN"

OtherContent(language) == IF language \in Languages THEN language ELSE None

Content(event, language) ==
  IF event = "ASSIGNMENT_STARTED" THEN StartedContent(language) ELSE OtherContent(language)

--------------------------------------------------------------------------------
(* Events *)

Event(event) == handler.event = event

(* Groups and registrations have participants as members; assessments have users. *)
OfGroup(event, forGroup) ==
  \/ event \in {"PARTICIPANT_JOINED_GROUP", "PARTICIPANT_LEFT_GROUP"}
  \/ event = "SUBMISSION_CREATED" /\ forGroup

Grouped == OfGroup(handler.event, handler.forGroup)

(* The subject is the user whom the event names, if any. *)
Start(event, subject, forGroup) ==
  /\ handler.at = "idle"
  /\ OfGroup(event, forGroup) => members \in {None} \cup SUBSET participants
  /\ handler' = [at |-> "started", event |-> event, subject |-> subject,
                 forGroup |-> forGroup, concerned |-> None, people |-> None]
  /\ UNCHANGED <<world, mails, changes>>

AssignmentStateChanged ==
  \E event \in {"ASSIGNMENT_STARTED", "ASSIGNMENT_EVALUATED"} : Start(event, None, FALSE)

AssessmentScoreChanged == Start("ASSESSMENT_SCORE_CHANGED", None, FALSE)

(* When it is published, the user may have left again, or joined. *)
UserJoinedGroup == \E u \in Users : Start("PARTICIPANT_JOINED_GROUP", u, FALSE)

UserLeftGroup == \E u \in Users : Start("PARTICIPANT_LEFT_GROUP", u, FALSE)

(* A submission of a user alone, or for his group. *)
SubmissionCreated ==
  \E u \in Users, forGroup \in BOOLEAN : Start("SUBMISSION_CREATED", u, forGroup)

--------------------------------------------------------------------------------
(* The queries of the handler *)

(* The handler throws, which ends the process. *)
Reject == handler' = [handler EXCEPT !.at = "rejected"]

(* Mutant of MissingRegistration: the error is not caught. *)
MissingRegistration_Thrown == Reject

(* The error of onSubmissionCreated is caught and logged. *)
MissingRegistration == handler' = [handler EXCEPT !.at = "logged"]

Concern(users) == handler' = [handler EXCEPT !.concerned = users]

(* The query for whom the event is about; a missing row is an EntityNotFoundError, also
   that of the participant who has left. *)
ReadConcerned ==
  /\ handler.at = "started" /\ handler.concerned = None
  /\ \/ Event("ASSIGNMENT_STARTED") /\ Concern(Users)
     \/ Event("ASSIGNMENT_EVALUATED") /\ Concern(IF members = None THEN {} ELSE members)
     \/ handler.event \in {"ASSESSMENT_SCORE_CHANGED", "PARTICIPANT_JOINED_GROUP"}
        /\ IF members = None THEN Reject ELSE Concern(members)
     \/ Event("PARTICIPANT_LEFT_GROUP")
        /\ IF members = None \/ handler.subject \notin participants
           THEN Reject ELSE Concern(members)
     \/ Event("SUBMISSION_CREATED") /\ ~handler.forGroup /\ Concern({handler.subject})
     \/ Event("SUBMISSION_CREATED") /\ handler.forGroup
        /\ IF members = None THEN MissingRegistration ELSE Concern(members)
  /\ UNCHANGED <<world, mails, changes>>

(* getParticipantsWithUserSettings: after the first query, or while it is running. *)
ReadParticipants ==
  /\ handler.at = "started" /\ handler.people = None
  /\ handler.concerned # None \/ Event("ASSIGNMENT_EVALUATED")
  /\ handler' = [handler EXCEPT !.people = [u \in participants |-> profile[u]]]
  /\ UNCHANGED <<world, mails, changes>>

(* Leaving a group is told to everybody; joining it not to the one who joins. *)
Recipients ==
  {u \in DOMAIN handler.people \cap handler.concerned :
     /\ Event("PARTICIPANT_LEFT_GROUP") \/ Receives(handler.people[u], handler.event)
     /\ Event("PARTICIPANT_JOINED_GROUP") => u # handler.subject}

(* The mails; send catches all errors.  The mail about a new member needs him to be one
   of the members that were read. *)
Send ==
  /\ handler.at = "started" /\ handler.concerned # None /\ handler.people # None
  /\ IF /\ Event("PARTICIPANT_JOINED_GROUP") /\ Recipients # {}
        /\ handler.subject \notin handler.concerned
     THEN Reject /\ UNCHANGED mails
     ELSE /\ mails' = [u \in Users |->
                         IF u \in Recipients
                         THEN Append(mails[u],
                                     Content(handler.event, Preferred(handler.people[u])))
                         ELSE mails[u]]
          /\ handler' = [handler EXCEPT !.at = "done"]
  /\ UNCHANGED <<world, changes>>

--------------------------------------------------------------------------------
(* What others do meanwhile *)

Change(newProfile, newParticipants, newMembers) ==
  /\ handler.at = "started" /\ changes < MaxChanges
  /\ profile' = newProfile
  /\ participants' = newParticipants
  /\ members' = newMembers
  /\ changes' = changes + 1
  /\ UNCHANGED <<handler, mails>>

Without(set, u) == IF set = None THEN None ELSE set \ {u}

UpdateSettings ==
  \E u \in Users, p \in Profiles :
    Change([profile EXCEPT ![u] = p], participants, members)

AddParticipant == \E u \in Users : Change(profile, participants \cup {u}, members)

(* A user leaves the course and with it his group and the registration with it. *)
RemoveParticipant ==
  \E u \in Users : Change(profile, participants \ {u},
                          IF Grouped THEN Without(members, u) ELSE members)

(* An account is deleted, with everything that refers to it. *)
DeleteUser == \E u \in Users : Change(profile, participants \ {u}, Without(members, u))

(* Joining a group, perhaps again, or being registered with it, and the opposite. *)
JoinGroup ==
  /\ handler.at = "started" /\ Grouped /\ members # None
  /\ \E u \in participants : Change(profile, participants, members \cup {u})

LeaveGroup ==
  /\ handler.at = "started" /\ Grouped
  /\ \E u \in Users : Change(profile, participants, Without(members, u))

(* The group, the registration or the assessment is deleted, an assessment perhaps to
   make room for those of other users. *)
DeleteRow == Change(profile, participants, None)

(* A save inserts a group or an assessment again, nobody belongs to it any more; or the
   group is registered again, with the members it has now. *)
InsertAgain ==
  /\ handler.at = "started" /\ members = None /\ ~Event("ASSIGNMENT_EVALUATED")
  /\ \E set \in SUBSET participants :
       /\ set # {} => Event("SUBMISSION_CREATED")
       /\ Change(profile, participants, set)

(* There are as many assessments of an assignment as there are groups or users. *)
ChangeAssessments ==
  /\ handler.at = "started" /\ Event("ASSIGNMENT_EVALUATED")
  /\ \E set \in SUBSET Users : Change(profile, participants, set)

--------------------------------------------------------------------------------

(* Whom the event is about at this moment, participant or not (for properties).  Who has
   left a group and has joined it again is told about himself like the others. *)
Concerned(u) ==
  \/ Event("ASSIGNMENT_STARTED")
  \/ Event("SUBMISSION_CREATED") /\ ~handler.forGroup /\ u = handler.subject
  \/ /\ Grouped \/ handler.event \in {"ASSIGNMENT_EVALUATED", "ASSESSMENT_SCORE_CHANGED"}
     /\ members # None /\ u \in members
     /\ Event("PARTICIPANT_JOINED_GROUP") => u # handler.subject

Enrolled(u) == u \in participants

(* What the event is about is missing at this moment. *)
Missing ==
  \/ Event("ASSESSMENT_SCORE_CHANGED") /\ members = None
  \/ Event("PARTICIPANT_JOINED_GROUP") /\ (members = None \/ handler.subject \notin members)
  \/ Event("PARTICIPANT_LEFT_GROUP")
     /\ (members = None \/ handler.subject \notin participants)

Observe ==
  past' = IF handler'.at # "started" THEN past
          ELSE [concerned |-> [u \in Users |-> past.concerned[u] \cup {Concerned(u)'}],
                enrolled |-> [u \in Users |-> past.enrolled[u] \cup {Enrolled(u)'}],
                profiles |-> [u \in Users |-> past.profiles[u] \cup {profile'[u]}],
                missing |-> past.missing \/ Missing']

Init ==
  /\ profile \in [Users -> Profiles]
  /\ participants \in SUBSET Users
  /\ members \in {None} \cup SUBSET Users
  /\ handler = [at |-> "idle"]
  /\ mails = [u \in Users |-> <<>>]
  /\ changes = 0
  /\ past = [concerned |-> [u \in Users |-> {}], enrolled |-> [u \in Users |-> {}],
             profiles |-> [u \in Users |-> {}], missing |-> FALSE]

Operation ==
  \/ AssignmentStateChanged \/ AssessmentScoreChanged \/ UserJoinedGroup \/ UserLeftGroup
  \/ SubmissionCreated
  \/ ReadConcerned \/ ReadParticipants \/ Send
  \/ UpdateSettings \/ AddParticipant \/ RemoveParticipant \/ DeleteUser
  \/ JoinGroup \/ LeaveGroup \/ DeleteRow \/ InsertAgain \/ ChangeAssessments

Next == Operation /\ Observe

Spec == Init /\ [][Next]_vars

--------------------------------------------------------------------------------
(* Properties *)

(* Nobody gets mail about what never concerned him since the event, or without having
   been a participant since, or that his settings excluded all the time by the name of
   the mail, or in a language he never chose; the only mail that ignores the settings
   is the one about a member who has left.  That he was concerned and a participant at
   the same moment is not said: two queries read the one and the other. *)
OnlyWantedMails ==
  \A u \in Users : mails[u] # <<>> =>
    /\ TRUE \in past.concerned[u] /\ TRUE \in past.enrolled[u]
    /\ \E p \in past.profiles[u] :
         /\ \/ p.email /\ p.allow /\ handler.event \notin p.blacklist
            \/ Event("PARTICIPANT_LEFT_GROUP")
         /\ mails[u][1] = Preferred(p)

(* Once the handler has sent, whoever was a participant, concerned by the event and
   wanting mail all the time has got one mail, whatever changed for others. *)
EverybodyTold ==
  handler.at = "done" =>
    \A u \in Users :
      /\ past.concerned[u] = {TRUE} /\ past.enrolled[u] = {TRUE}
      /\ \A p \in past.profiles[u] :
           p.email /\ p.allow /\ handler.event \notin p.blacklist
      => Len(mails[u]) = 1

(* No event ends the process, unless the assessment, the group or the member it is about
   was removed before the handler had read it; submissions never do. *)
EndsOnlyWhenMissing == handler.at = "rejected" => past.missing
================================================================================
