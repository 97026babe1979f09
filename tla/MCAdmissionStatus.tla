--------------------------- MODULE MCAdmissionStatus ----------------------------
(****************************************************************************)
(* AdmissionStatus on small instances.                                      *)
(****************************************************************************)
EXTENDS AdmissionStatus, TLC

CONSTANTS s1, a1, a2

(* Two assignments of one type, in one of which there may be only bonus points. *)
SameType == [a \in {a1, a2} |-> "HOMEWORK"]

FiftyAndMore == {a1 :> 50 @@ a2 :> 25, a1 :> 50 @@ a2 :> 0}

(* The sums of 7 and 29 over 50, 25 and 75 whose percentage is an integer that the
   double misses: 57.99999999999999 for instance. *)
TooLow == {<<29, 50>>, <<58, 50>>, <<29, 25>>, <<58, 25>>, <<87, 75>>}

TooHigh == {<<7, 50>>, <<14, 50>>, <<7, 25>>, <<14, 25>>, <<21, 75>>}

Single(required, rounding, decimals, allowed) ==
  [kind |-> "INDIVIDUAL_PERCENT_WITH_ALLOWED_FAILURES", type |-> "HOMEWORK",
   requiredPercent |-> required, rounding |-> rounding, decimals |-> decimals,
   allowedFailures |-> allowed]

Overall(required, rounding, decimals) ==
  [kind |-> "REQUIRED_PERCENT_OVERALL", type |-> "HOMEWORK",
   requiredPercent |-> required, rounding |-> rounding, decimals |-> decimals,
   allowedFailures |-> 0]

(* Requirements that are just met, or just missed, by some of the sums. *)
Rulings ==
  {{}, {Single(58, "NONE", None, 1)}, {Single(29, "UP_NEAREST_INTEGER", None, 0)},
   {Overall(58, "DOWN_NEAREST_INTEGER", None)}, {Overall(39, "DECIMALS", 1)},
   {Overall(28, "NONE", None), Single(14, "DECIMALS", 0, 1)}}

================================================================================
