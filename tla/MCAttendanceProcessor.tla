----------------------- MODULE MCAttendanceProcessor -----------------------
(***************************************************************************)
(* A small instance of AttendanceProcessor for TLC.                        *)
(***************************************************************************)
EXTENDS AttendanceProcessor, TLC

CONSTANTS t1, t2, alice

MCTwoTracks == {t1, t2}

MCOneIdentity == {alice}

\* Tracks are interchangeable.
MCSymmetry == Permutations(MCTwoTracks)
=============================================================================
