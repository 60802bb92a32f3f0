------------------------ MODULE MCAttendanceDelivery ------------------------
(***************************************************************************)
(* Small instances of AttendanceDelivery for TLC.                          *)
(***************************************************************************)
EXTENDS AttendanceDelivery

\* Retry-After absent, two time units, and a date in the past or the future.
MCHeaders == {NoHeader, [kind |-> "seconds", value |-> 2],
              [kind |-> "date", value |-> 3]}

\* No Retry-After, or one longer than the exponential delay.
MCTwoHeaders == {NoHeader, [kind |-> "seconds", value |-> 2]}
=============================================================================
