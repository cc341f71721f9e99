------------------------- MODULE MCRecordingManager -------------------------
(* RecordingManager with two programs of two services of different types.   *)
EXTENDS RecordingManager

CONSTANTS p1, p2

MCServiceOf == [p \in Programs |-> IF p = p1 THEN "s1" ELSE "s2"]
MCTypeOf == [p \in Programs |-> IF p = p1 THEN "GR" ELSE "BS"]

(* Bound: a save fails only until the second schedule is booked or the      *)
(* process dies.                                                            *)
SavesFailEarly == disk'.stale => bookings' <= 1 /\ restarts' = 0
=============================================================================
