---------------------------- MODULE HttpRequest ----------------------------
(***************************************************************************)
(* One request of the HTTP transport (edge_app/sync/http_client.cpp): the  *)
(* request is sent, the status and headers come, and the body is read in   *)
(* buffers, all of it under one deadline.  The backend's answer and what   *)
(* the network does to it are external.                                    *)
(***************************************************************************)
EXTENDS Naturals, Sequences

CONSTANTS
    Timeout,   \* timeout_, in ticks
    Limit,     \* bytes a body may have, in units
    MaxBuffer, \* bytes one read may return
    Statuses, RetryAfters, Bodies,  \* answers of the backend
    None       \* no header, no answer

RequestAssumption ==
    /\ Timeout \in Nat \ {0} /\ MaxBuffer \in Nat \ {0} /\ Limit \in Nat
    /\ Statuses \subseteq Nat /\ Bodies \subseteq Seq(Nat)

VARIABLES
    token,     \* token_ is set
    pc,        \* "idle", "send", "headers", "read", "done" or "threw"
    now, deadline,
    until,     \* when the wait of the operation at hand ends
    answer,    \* external: what the backend answers
    sent,      \* external: bytes of its body that have arrived
    cut,       \* external: the connection has broken
    out        \* the HttpResponse being filled

vars == <<token, pc, now, deadline, until, answer, sent, cut, out>>

NoResponse == [status |-> 0, retry_after |-> None, body |-> <<>>]

Init ==
    /\ token \in BOOLEAN /\ pc = "idle" /\ now = 0 /\ deadline = 0
    /\ until = 0
    /\ answer \in [status : Statuses, retry_after : RetryAfters, body : Bodies]
    /\ sent = 0 /\ cut = FALSE /\ out = NoResponse

\* External: time passes, bytes arrive, the connection breaks.  A request is
\* never left waiting past the time its operation has: wait_for returns there.
Tick ==
    /\ pc \in {"send", "read"} /\ now < until
    /\ now' = now + 1
    /\ UNCHANGED <<token, pc, deadline, until, answer, sent, cut, out>>

Arrives ==
    /\ pc \in {"send", "headers", "read"} /\ ~ cut /\ sent < Len(answer.body)
    /\ sent' = sent + 1 /\ UNCHANGED <<token, pc, now, deadline, until, answer, cut, out>>

Breaks ==
    /\ pc \in {"send", "headers", "read"} /\ ~ cut /\ cut' = TRUE
    /\ UNCHANGED <<token, pc, now, deadline, until, answer, sent, out>>

Throw == pc' = "threw" /\ UNCHANGED <<token, now, deadline, until, answer, sent, cut, out>>

\* Mutant: every operation gets the whole timeout.
Remaining_PerStage(t) == Timeout
\* finish(): an operation may wait for what is left until the deadline t.
Remaining(t) == IF t > now THEN t - now ELSE 0

\* The first check of request(); the send operation begins.
Request ==
    /\ pc = "idle"
    /\ IF token THEN /\ pc' = "send" /\ deadline' = now + Timeout
                     /\ until' = now + Remaining(now + Timeout)
                     /\ UNCHANGED <<token, now, answer, sent, cut, out>>
                ELSE Throw

\* Mutant: an operation that has used its time is waited for again.
DeadlineExceeded_Again ==
    pc \in {"send", "read"} /\ now = until /\ UNCHANGED vars
\* finish() cancels the operation and throws when nothing is left.
DeadlineExceeded ==
    /\ pc \in {"send", "read"} /\ now = until /\ Throw

\* SendRequestAsync: the status and headers are there, or the operation
\* fails.
Headers ==
    /\ pc = "send" /\ now < until
    /\ \/ /\ pc' = "headers"
          /\ out' = [out EXCEPT !.status = answer.status,
                                !.retry_after = answer.retry_after]
          /\ UNCHANGED <<token, now, deadline, until, answer, sent, cut>>
       \/ cut /\ Throw

\* Mutant: the body of an error answer is read too.
ErrorAnswer_Read == FALSE
\* An error answer needs no body.
ErrorAnswer == out.status < 200 \/ out.status >= 300

HeadersDone ==
    /\ pc = "headers" /\ pc' = IF ErrorAnswer THEN "done" ELSE "read"
    /\ until' = now + Remaining(deadline)
    /\ UNCHANGED <<token, now, deadline, answer, sent, cut, out>>

Pending == sent - Len(out.body)

\* Mutant: the limit is looked at before the buffer is counted.
TooLong_Before(n) == Len(out.body) > Limit
TooLong(n) == Len(out.body) + n > Limit

\* ReadAsync returns a part of what has arrived.
ReadBuffer ==
    /\ pc = "read" /\ now < until
    /\ \E n \in 1..MaxBuffer :
         /\ n <= Pending
         /\ IF TooLong(n) THEN Throw
            ELSE /\ out' = [out EXCEPT !.body = @ \o
                              SubSeq(answer.body, Len(@) + 1, Len(@) + n)]
                 /\ until' = now + Remaining(deadline)
                 /\ UNCHANGED <<token, pc, now, deadline, answer, sent, cut>>

AtEnd == Pending = 0 /\ sent = Len(answer.body)

\* An empty buffer ends the body; a broken connection fails the read.
EndOfBody ==
    /\ pc = "read" /\ now < until /\ AtEnd
    /\ pc' = "done" /\ UNCHANGED <<token, now, deadline, until, answer, sent, cut, out>>

ReadFails ==
    /\ pc = "read" /\ cut /\ sent < Len(answer.body) /\ Throw

Ended == pc \in {"done", "threw"} /\ UNCHANGED vars

Client == Request \/ DeadlineExceeded \/ Headers \/ HeadersDone \/ ReadBuffer
          \/ EndOfBody \/ ReadFails

Next == Client \/ Tick \/ Arrives \/ Breaks \/ Ended

Spec == Init /\ [][Next]_vars

\* Time passes while an operation is waited for, and the client goes on.
FairSpec == Spec /\ WF_vars(Client) /\ WF_vars(Tick)

-----------------------------------------------------------------------------
TypeOK ==
    /\ token \in BOOLEAN /\ cut \in BOOLEAN
    /\ pc \in {"idle", "send", "headers", "read", "done", "threw"}
    /\ now \in Nat /\ deadline \in Nat /\ until \in Nat
    /\ answer \in [status : Statuses, retry_after : RetryAfters, body : Bodies]
    /\ sent \in 0..Len(answer.body)
    /\ out \in [status : Statuses \union {0}, retry_after : RetryAfters \union {None},
                body : Seq(Nat)]

\* "A truncated error page must not turn 401 or 429 into a generic transport
\* failure": once the headers of an error are there, the caller gets them.
ErrorPolicyKept ==
    out.status # 0 /\ (out.status < 200 \/ out.status >= 300) =>
        /\ pc # "threw"
        /\ out.retry_after = answer.retry_after

\* A success hands over the whole body as it was sent, and no more than the
\* limit; a body cut short is never taken for a whole one.
WholeBodyOrThrow ==
    pc = "done" /\ out.status \in 200..299 =>
        out.body = answer.body /\ Len(out.body) <= Limit

\* The stages share one deadline: no request ends after it.
OneDeadline == pc # "idle" => now <= Timeout

\* What makes them inductive.  Every wait is until the one deadline; what
\* was read is the beginning of what was sent; the status is there once the
\* headers are, and the body is read only of a success.
ClocksAgree ==
    /\ now <= Timeout /\ (pc = "idle" => now = 0)
    /\ pc \in {"send", "headers", "read"} => deadline = Timeout /\ until = Timeout

ReadSoFar ==
    /\ Len(out.body) <= sent /\ Len(out.body) <= Limit
    /\ \A n \in 1..Len(out.body) : out.body[n] = answer.body[n]

AnswerSoFar ==
    /\ pc \in {"idle", "send"} => out = NoResponse
    /\ pc \in {"headers", "read", "done"} =>
         out.status = answer.status /\ out.retry_after = answer.retry_after
    /\ pc = "read" => ~ ErrorAnswer
    /\ pc = "threw" => out.status = 0 \/ ~ ErrorAnswer
    /\ pc = "done" => ErrorAnswer \/ Len(out.body) = Len(answer.body)

RequestInvariant == TypeOK /\ ClocksAgree /\ ReadSoFar /\ AnswerSoFar

\* A request ends, whatever the network does.
RequestEnds == pc = "send" ~> pc \in {"done", "threw"}
=============================================================================
