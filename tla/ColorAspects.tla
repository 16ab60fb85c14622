---------------------------- MODULE ColorAspects ----------------------------
(***************************************************************************)
(* Colour aspects as both codecs' interfaces keep them: 0 is unspecified,  *)
(* 255 (OTHER) is the last value of every field.                           *)
(***************************************************************************)
EXTENDS Naturals

Field == {"range", "primaries", "transfer", "matrix"}
Unspecified == [f \in Field |-> 0]
OTHER_VALUE == 255
Specified(range, primaries, transfer, matrix) ==
    [f \in Field |-> CASE f = "range" -> range   [] f = "primaries" -> primaries
                       [] f = "transfer" -> transfer [] f = "matrix" -> matrix]
Bounded(a) == [f \in Field |-> IF a[f] > OTHER_VALUE THEN OTHER_VALUE ELSE a[f]]
=============================================================================
