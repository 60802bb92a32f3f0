----------------------------- MODULE RetryPolicy -----------------------------
(***************************************************************************)
(* edge_app/sync/retry_policy: when a failed request may be repeated.      *)
(* Times are in an arbitrary unit; the code's milliseconds are the         *)
(* instance BaseDelay = 1000, MaxDelay = 300000, MaxJitter = 500.          *)
(***************************************************************************)
EXTENDS Integers

CONSTANTS
    BaseDelay,   \* 1000 ms, the delay after the first failure
    MaxDelay,    \* 300000 ms, the cap of the exponential delay
    MaxJitter    \* 500 ms, the cap of the random addition

ASSUME RetryAssumption ==
    /\ BaseDelay \in Nat
    /\ MaxDelay \in Nat
    /\ MaxJitter \in Nat

Lesser(a, b) == IF a <= b THEN a ELSE b
Larger(a, b) == IF a >= b THEN a ELSE b

\* std::clamp(n, lo, hi)
Clamp(n, lo, hi) == IF n < lo THEN lo ELSE IF n > hi THEN hi ELSE n

\* 1 << k for the shifts k in 0..9 that the clamp lets through.
Shifted == <<1, 2, 4, 8, 16, 32, 64, 128, 256, 512>>

\* The exponential delay after a row has already failed `attempts' times.
Backoff(attempts) ==
    Lesser(MaxDelay, BaseDelay * Shifted[Clamp(attempts, 0, 9) + 1])

(***************************************************************************)
(* A Retry-After header: absent, a number of seconds (already in the unit  *)
(* of the clock), an HTTP date (an instant of the clock), or text that is  *)
(* neither and is ignored.                                                 *)
(***************************************************************************)
Header == [kind : {"none", "seconds", "date", "malformed"}, value : Nat]

NoHeader == [kind |-> "none", value |-> 0]

ServerDelay(header, now) ==
    CASE header.kind = "seconds" -> header.value
      [] header.kind = "date"    -> Larger(0, header.value - now)
      [] OTHER                   -> 0

\* retry_at: the instant before which the request is not repeated.
RetryAt(now, attempts, header, jitter) ==
    now + Larger(Backoff(attempts), ServerDelay(header, now))
        + Lesser(jitter, MaxJitter)
=============================================================================
