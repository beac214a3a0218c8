---------------------------- MODULE MCAttendance ----------------------------
(* Instances of Attendance for TLC. *)
EXTENDS Attendance, TLC

CONSTANTS p1, p2

OnePage == {p1}
TwoPages == {p1, p2}
PageSymmetry == Permutations(TwoPages)

(* A disposed state object that no timer, request or answer refers to is   *)
(* garbage: Open overwrites every field of its slot, so states that differ *)
(* only in such fields are the same state.                                 *)
LiveView ==
  <<clock, table, dbq, results, taps,
    [p \in Page |-> IF Mounted(p) \/ Referenced(p)
                    THEN page[p] ELSE [life |-> "disposed"]]>>
=============================================================================
