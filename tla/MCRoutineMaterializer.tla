----------------------- MODULE MCRoutineMaterializer -----------------------
(* Small instances of RoutineMaterializer: two keys of one routine on one   *)
(* date (an edit of the routine replaces one by the other).                 *)
EXTENDS RoutineMaterializer

CONSTANTS old, new, day, h1, h2, none, nobody

OneDate == [o \in Occurrences |-> day]

AllRequests == Ops

=============================================================================
