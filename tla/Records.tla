--------------------------------- MODULE Records ---------------------------------
(****************************************************************************)
(* The smaller parts of the service that share no state in the models, side *)
(* by side: each behaviour is that of one of them, the part.                *)
(****************************************************************************)
CONSTANTS
  Parts,          \* the parts that behaviours are about
  Requests,       \* requests that may be served at the same time
  None,           \* undefined
  Usernames, Initial, MaxId, TTL, Latency,              \* see Accounts
  Users, Admins, Lecturer, Passwords, NoPassword,       \* see Enrolment
  Groups, Students, Evaluators, Old, New, Joined,       \* see Allocations
  Receivers,      \* the users of Mailing
  Profiles, MaxChanges,                                 \* see Mailing
  Visits,         \* the requests of Activity
  MaxDay, MonthLength, MaxStored,                       \* see Activity
  Names, Events                                         \* see Notices

VARIABLES
  part,
  account, settings, lastId, cache, request, age, revived,
  users, course, password, participation, change, entitled, absent,
  rows, present, allocating,
  profile, participants, members, handler, mails, changes, past,
  today, stored, visit, known,
  subscribers, subscribing, event, posts

accountVars == <<account, settings, lastId, cache, request, age, revived>>
enrolmentVars == <<users, course, password, participation, change, entitled, absent>>
allocationVars == <<rows, present, allocating>>
mailingVars == <<profile, participants, members, handler, mails, changes, past>>
activityVars == <<today, stored, visit, known>>
noticeVars == <<subscribers, subscribing, event, posts>>

Accounts == INSTANCE Accounts WITH req <- request

Enrolment == INSTANCE Enrolment WITH req <- change

Allocations == INSTANCE Allocations WITH req <- allocating

Mailing == INSTANCE Mailing WITH Users <- Receivers

Activity == INSTANCE Activity WITH Requests <- Visits, handler <- visit

Notices == INSTANCE Notices WITH req <- subscribing

ASSUME PartsOK ==
  /\ Parts \subseteq {"accounts", "enrolment", "allocations", "mailing", "activity", "notices"}
  /\ Accounts!ConstantsOK /\ Enrolment!ConstantsOK
  /\ Mailing!ConstantsOK /\ Activity!ConstantsOK

--------------------------------------------------------------------------------
(* The state of a part that the behaviour is not about. *)

NoAccounts ==
  /\ account = None /\ settings = None /\ lastId = None /\ cache = None
  /\ request = None /\ age = None /\ revived = None

NoEnrolment ==
  /\ users = None /\ course = None /\ password = None /\ participation = None
  /\ change = None /\ entitled = None /\ absent = None

NoAllocations == rows = None /\ present = None /\ allocating = None

NoMailing ==
  /\ profile = None /\ participants = None /\ members = None
  /\ handler = None /\ mails = None /\ changes = None /\ past = None

NoActivity == today = None /\ stored = None /\ visit = None /\ known = None

NoNotices == subscribers = None /\ subscribing = None /\ event = None /\ posts = None

Init ==
  /\ part \in Parts
  /\ IF part = "accounts" THEN Accounts!Init ELSE NoAccounts
  /\ IF part = "enrolment" THEN Enrolment!Init ELSE NoEnrolment
  /\ IF part = "allocations" THEN Allocations!Init ELSE NoAllocations
  /\ IF part = "mailing" THEN Mailing!Init ELSE NoMailing
  /\ IF part = "activity" THEN Activity!Init ELSE NoActivity
  /\ IF part = "notices" THEN Notices!Init ELSE NoNotices

Next ==
  /\ UNCHANGED part
  /\ \/ /\ part = "accounts" /\ Accounts!Next
        /\ UNCHANGED <<enrolmentVars, allocationVars, mailingVars, activityVars,
                       noticeVars>>
     \/ /\ part = "enrolment" /\ Enrolment!Next
        /\ UNCHANGED <<accountVars, allocationVars, mailingVars, activityVars,
                       noticeVars>>
     \/ /\ part = "allocations" /\ Allocations!Next
        /\ UNCHANGED <<accountVars, enrolmentVars, mailingVars, activityVars,
                       noticeVars>>
     \/ /\ part = "mailing" /\ Mailing!Next
        /\ UNCHANGED <<accountVars, enrolmentVars, allocationVars, activityVars,
                       noticeVars>>
     \/ /\ part = "activity" /\ Activity!Next
        /\ UNCHANGED <<accountVars, enrolmentVars, allocationVars, mailingVars,
                       noticeVars>>
     \/ /\ part = "notices" /\ Notices!Next
        /\ UNCHANGED <<accountVars, enrolmentVars, allocationVars, mailingVars,
                       activityVars>>

recordVars == <<part, accountVars, enrolmentVars, allocationVars, mailingVars,
            activityVars, noticeVars>>

Spec == Init /\ [][Next]_recordVars

--------------------------------------------------------------------------------
(* The properties of each part, see there. *)

BoundedStaleness    == part = "accounts" => Accounts!BoundedStaleness
SettingsComplete    == part = "accounts" => Accounts!SettingsComplete
OneAccount          == [][part = "accounts" => Accounts!KeepsId]_recordVars
ChangesEntitled     == [][part = "enrolment" => Enrolment!EntitledStep]_recordVars
ParticipantsBelong  == part = "enrolment" => Enrolment!ParticipantsBelong
OnlyJoinersAnnounced == part = "enrolment" => Enrolment!OnlyJoinersAnnounced
WorkSplit           == part = "allocations" => Allocations!WorkSplit
OnlyWantedMails     == part = "mailing" => Mailing!OnlyWantedMails
EverybodyTold       == part = "mailing" => Mailing!EverybodyTold
EndsOnlyWhenMissing == part = "mailing" => Mailing!EndsOnlyWhenMissing
VisitRecorded       == part = "activity" => Activity!VisitRecorded
StoredOnce          == [][part = "activity" => Activity!AddsToNewDay]_recordVars
NotifiedOnce        == [][part = "notices" => Notices!PostsOnce]_recordVars
==================================================================================
