------------------------------ MODULE GroupRoster ------------------------------
(****************************************************************************)
(* What the group tables of one course promise to every reader, whatever    *)
(* requests are running: a roster in which each participant sits in at most *)
(* one group, each occupied group exists, a participant changes groups only *)
(* by leaving first, and dissolving a group empties it in the same step.    *)
(* GroupMembership implements this specification.                           *)
(****************************************************************************)
CONSTANTS
  Participants,   \* the people of the course
  GroupIds        \* the identifiers a group can have

VARIABLES
  open,           \* the groups that exist
  seat            \* seat[p]: the groups participant p is a member of

vars == <<open, seat>>

Init ==
  /\ open = {}
  /\ seat = [p \in Participants |-> {}]

(* Some groups come into being, all of them empty. *)
Found(G) ==
  /\ G # {}
  /\ G \cap open = {}
  /\ open' = open \cup G
  /\ UNCHANGED seat

Sit(p, g) ==
  /\ g \in open
  /\ seat[p] = {}
  /\ seat' = [seat EXCEPT ![p] = {g}]
  /\ UNCHANGED open

Leave(p) ==
  /\ seat[p] # {}
  /\ seat' = [seat EXCEPT ![p] = {}]
  /\ UNCHANGED open

Dissolve(g) ==
  /\ g \in open
  /\ open' = open \ {g}
  /\ seat' = [p \in Participants |-> seat[p] \ {g}]

Next ==
  \/ \E G \in SUBSET GroupIds : Found(G)
  \/ \E p \in Participants, g \in GroupIds : Sit(p, g)
  \/ \E p \in Participants : Leave(p)
  \/ \E g \in GroupIds : Dissolve(g)

Spec == Init /\ [][Next]_vars
================================================================================
