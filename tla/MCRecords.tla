-------------------------------- MODULE MCRecords --------------------------------
(****************************************************************************)
(* Records on small instances.                                              *)
(****************************************************************************)
EXTENDS Records, TLC

Profile(email, allow, blacklist, language) ==
  [email |-> email, allow |-> allow, blacklist |-> blacklist, language |-> language]

(* A blacklist with names that the listener looks up, and with the names of Event, which
   exclude nothing. *)
SomeNames ==
  {"ASSIGNMENT_STARTED", "PARTICIPANT_JOINED_GROUP", "SUBMISSION_CREATED"} \cup
  {"ASSIGNMENT_STATE_CHANGED", "USER_JOINED_GROUP", "USER_LEFT_GROUP"}

(* A user without settings, and one with other settings for each reason to get no mail. *)
SomeProfiles ==
  {Profile(TRUE, TRUE, {}, None), Profile(TRUE, FALSE, {}, "DE"),
   Profile(FALSE, TRUE, {}, "DE"), Profile(TRUE, TRUE, SomeNames, "EN")}

(* The joined tables hold all that the queries look for; or the group is not registered,
   and everything has been assessed; or they hold registrations only. *)
SomeTables ==
  LET pairs(targets) == {Old, New} \X targets
      all == [registered |-> pairs(Groups), populated |-> Groups, enrolled |-> Students,
              reviewed |-> {}]
  IN  {all,
       [all EXCEPT !.registered = {}, !.reviewed = pairs(Groups \cup Students)],
       [all EXCEPT !.populated = {}, !.enrolled = {}]}

Interchangeable ==
  Permutations(Requests) \cup Permutations(Receivers) \cup Permutations(Evaluators)
==================================================================================
