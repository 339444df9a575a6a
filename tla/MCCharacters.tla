---------------------------- MODULE MCCharacters ----------------------------
(***************************************************************************)
(* For TLC: of the code points the ones where a range begins or ends, and  *)
(* their neighbours.                                                       *)
(***************************************************************************)
EXTENDS Characters

Ends == {9, 32, 33, 35, 45, 46, 48, 57, 58, 65, 90, 91, 93, 95, 97, 122, 124, 126,
         128, 55295, 57344, 65533, 65536, 1114111}

Boundaries == {e + d : e \in Ends, d \in {-1, 0, 1}} \intersect CodePoints
=============================================================================
