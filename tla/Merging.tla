--------------------------------- MODULE Merging --------------------------------
(****************************************************************************)
(* The two strategies for small groups: each behaviour is that of one of    *)
(* them.                                                                    *)
(****************************************************************************)
EXTENDS GroupMerge

VARIABLES strategy, given, invalid, openGroups, newOpenGroups, remaining,
          i, into, currentSize

onlyActivity == <<activity, ranked, sizes, firstMemberIndex, availableIds, merged>>
onlySimple == <<given, invalid, openGroups, newOpenGroups, remaining, i, into,
                currentSize>>

Simple == INSTANCE SimpleMerge

MergingInit ==
  \/ /\ strategy = "activity"
     /\ Init
     /\ given = << >> /\ invalid = << >> /\ openGroups = {}
     /\ newOpenGroups = {} /\ remaining = {}
     /\ i = 0 /\ into = 0 /\ currentSize = 0
  \/ /\ strategy = "simple"
     /\ Simple!Init
     /\ activity = None
     /\ ranked = << >> /\ sizes = << >>
     /\ firstMemberIndex = 1 /\ availableIds = {} /\ merged = << >>

MergingNext ==
  \/ /\ strategy = "activity"
     /\ Next
     /\ UNCHANGED <<strategy, onlySimple>>
  \/ /\ strategy = "simple"
     /\ Simple!Next
     /\ UNCHANGED <<strategy, onlyActivity>>

mergingVars == <<vars, strategy, onlySimple>>

MergingSpec == MergingInit /\ [][MergingNext]_mergingVars

--------------------------------------------------------------------------------
(* The properties of each strategy, see there. *)

ActivityContract == strategy = "activity" => MeetsContract
ActivitySizes    == strategy = "activity" => SizesAreBest
ActivityRanking  == strategy = "activity" => ActiveTogether
SimpleTogether   == strategy = "simple" => Simple!KeptTogether
SimpleRoom       == strategy = "simple" => Simple!RoomKept
================================================================================
