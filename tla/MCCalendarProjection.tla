----------------------- MODULE MCCalendarProjection ------------------------
(* Small instances of CalendarProjection: Tasks authored in UbU, meetings of *)
(* the owner, and two windows.                                               *)
EXTENDS CalendarProjection

CONSTANTS work, meeting, early, late, none

SameLength  == [w \in {early, late} |-> 1]
OtherLength == [w \in {early, late} |-> IF w = early THEN 1 ELSE 2]

=============================================================================
