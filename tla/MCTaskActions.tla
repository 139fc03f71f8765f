--------------------------- MODULE MCTaskActions ---------------------------
(* Small instances of TaskActions: one ordinary Task with effects, one      *)
(* routine occurrence with effects, and two request slots.                  *)
EXTENDS TaskActions, TLC

CONSTANTS plain, captured, occurrence, h1, h2, none

AllRequests == Ops

SlotSymmetry == Permutations({h1, h2})

=============================================================================
