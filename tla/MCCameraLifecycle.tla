------------------------- MODULE MCCameraLifecycle -------------------------
(***************************************************************************)
(* Small instances of CameraLifecycle for TLC.                             *)
(***************************************************************************)
EXTENDS CameraLifecycle

CONSTANTS c1, c2

MCOneCallback == {c1}

MCTwoCallbacks == {c1, c2}

MCValues == 0..2
=============================================================================
