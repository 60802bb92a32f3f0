---------------------------- MODULE DeviceChannel ----------------------------
(***************************************************************************)
(* The clocks of the operational device channel                            *)
(* (edge_app/sync/device_channel.cpp): when its thread gives a connection  *)
(* up, how long it then waits, and what a status report says of the queue. *)
(* Module SyncThreads has the threads around it and their end; here the    *)
(* process does not end.                                                   *)
(*                                                                         *)
(* Time is counted in ticks.  A step takes none, except an operation of    *)
(* the socket, which ends by its deadline, and the waits.                  *)
(***************************************************************************)
EXTENDS Naturals, FiniteSets, FiniteSetsExt

CONSTANTS
    Tokens,          \* the credentials an operator rotates
    Events,          \* the events of the outbox
    ConnectTimeout,  \* finish(ConnectAsync, 10s)
    SendTimeout,     \* finish(StoreAsync, 5s)
    AckLimit,        \* 35 s without a message of the server
    ReportEvery,     \* 10 s
    StableAfter,     \* 30 s
    BaseDelay,       \* 1000 ms
    MaxShift,        \* 5 doublings
    MaxFlaps         \* bound: disconnections in a row that are counted

ChannelAssumption ==
    /\ {ConnectTimeout, SendTimeout, AckLimit, ReportEvery, StableAfter,
        MaxShift, MaxFlaps} \subseteq Nat
    /\ BaseDelay \in Nat \ {0} /\ Tokens # {} /\ IsFiniteSet(Events)
    /\ ConnectTimeout <= StableAfter /\ ConnectTimeout <= AckLimit
    /\ SendTimeout < ReportEvery /\ MaxShift <= 5 /\ MaxShift <= MaxFlaps

VARIABLES
    pc,        \* "connect", "poll", "dead", "send", "idle", "close", "backoff"
    current,   \* the token in the credential file
    token,     \* the token the connection was opened with
    closed,    \* Connection::closed
    silent,    \* time since last_server
    up,        \* time since connected_at
    due,       \* time left until the next report
    left,      \* time left of a socket operation or of the reconnect delay
    failures,  \* failures, up to MaxFlaps
    pending,   \* the outbox
    dead,      \* the dead-letter table
    report,    \* the two counts of the report under way
    old,       \* history: time since token stopped being current
    flaps,     \* history: disconnections since a stable connection
    waited,    \* history: the last reconnect delay, without its jitter
    kept       \* history: events that were unresolved all through the counts

clocks  == <<silent, up, due, left, old>>
queue   == <<pending, dead, kept>>
vars == <<pc, current, token, closed, clocks, failures, queue, report, flaps,
          waited>>

\* 1u << k for the shifts the code makes.
Shifted == <<1, 2, 4, 8, 16, 32>>
Reconnect(n) == BaseDelay * Shifted[Min({n, MaxShift}) + 1]

Connected == pc \in {"poll", "dead", "send", "idle"}

Init ==
    /\ pc = "connect" /\ current \in Tokens /\ token = current
    /\ closed = FALSE /\ silent = 0 /\ up = 0 /\ due = 0
    /\ left = ConnectTimeout /\ failures = 0
    /\ pending = {} /\ dead = {} /\ report = [pending |-> 0, dead |-> 0]
    /\ old = 0 /\ flaps = 0 /\ waited = 0 /\ kept = {}

-----------------------------------------------------------------------------
(* The thread of the channel.                                              *)

\* Mutant: a connection that was accepted ends the backoff.
ConnectOk_Forgives ==
    /\ pc = "connect" /\ pc' = "poll"
    /\ up' = 0 /\ due' = 0 /\ left' = 0 /\ failures' = 0
    /\ UNCHANGED <<current, token, closed, silent, queue, report, old, flaps,
                   waited>>
\* ConnectAsync is done: connected_at and due are now.
ConnectOk ==
    /\ pc = "connect" /\ pc' = "poll"
    /\ up' = 0 /\ due' = 0 /\ left' = 0
    /\ UNCHANGED <<current, token, closed, silent, failures, queue, report,
                   old, flaps, waited>>

\* The connection ends with the exception handler or by leaving the loop; a
\* long one only counts when the loop was left.
Stable == up > StableAfter
Ended(byException) ==
    /\ pc' = "close" /\ left' = 0
    /\ failures' = IF ~ byException /\ Stable THEN 0 ELSE failures
    /\ flaps' = IF Stable THEN 0 ELSE flaps
    /\ UNCHANGED <<current, token, closed, silent, up, due, queue, report,
                   old, waited>>

\* The credential cannot be read, the socket fails or its deadline passes,
\* the database cannot be read.
Throws ==
    /\ pc \in {"connect", "poll", "dead", "send"}
    /\ pc = "poll" => ~ closed /\ due = 0
    /\ Ended(TRUE)

\* Mutant: the silence of the server is looked at when a report is due.
Expired_WhenDue == silent > AckLimit /\ due = 0
Expired == silent > AckLimit

\* Mutant: the credential is read once per connection.
Rotated_Never == FALSE
\* DPAPI credential rotation, looked at when a report is due.
Rotated == token # current /\ due = 0

\* The head of the inner loop, after the hint (module GallerySync): the
\* server's silence, then a report if it is due, starting with pending_count.
PollEnds ==
    /\ pc = "poll"
    /\ \/ closed /\ Ended(FALSE)
       \/ ~ closed /\ Expired /\ Ended(TRUE)
       \/ ~ closed /\ ~ Expired /\ Rotated /\ Ended(FALSE)
PollWaits ==
    /\ pc = "poll" /\ ~ closed /\ ~ Expired /\ ~ Rotated /\ due > 0
    /\ pc' = "idle"
    /\ UNCHANGED <<current, token, closed, clocks, failures, queue, report,
                   flaps, waited>>

\* Mutant: the dead letters are counted first.
Counted_DeadFirst(turn) ==
    report' = IF turn = 2 THEN [report EXCEPT !.pending = Cardinality(pending)]
                          ELSE [report EXCEPT !.dead = Cardinality(dead)]
\* pending_count first, dead_count second, each a transaction of its own.
Counted(turn) ==
    report' = IF turn = 1 THEN [report EXCEPT !.pending = Cardinality(pending)]
                          ELSE [report EXCEPT !.dead = Cardinality(dead)]

CountPending ==
    /\ pc = "poll" /\ ~ closed /\ ~ Expired /\ ~ Rotated /\ due = 0
    /\ pc' = "dead" /\ Counted(1)
    /\ kept' = pending \cup dead
    /\ UNCHANGED <<current, token, closed, clocks, failures, pending, dead,
                   flaps, waited>>

\* The second count; then the report is sent.
CountDead ==
    /\ pc = "dead" /\ pc' = "send" /\ left' = SendTimeout
    /\ Counted(2)
    /\ due' = ReportEvery      \* counted from the head of the loop
    /\ UNCHANGED <<current, token, closed, silent, up, old, failures, queue,
                   flaps, waited>>

SendDone ==
    /\ pc = "send" /\ pc' = "idle" /\ left' = 0
    /\ UNCHANGED <<current, token, closed, silent, up, due, old, failures,
                   queue, report, flaps, waited>>

\* wait_for(100ms) is over.
Wake ==
    /\ pc = "idle" /\ pc' = "poll"
    /\ UNCHANGED <<current, token, closed, clocks, failures, queue, report,
                   flaps, waited>>

\* The socket is closed and the delay drawn; the jitter is below one tick.
BackOff ==
    /\ pc = "close" /\ pc' = "backoff"
    /\ waited' = Reconnect(failures)
    /\ left' \in {Reconnect(failures), Reconnect(failures) + 1}
    /\ failures' = Min({failures + 1, MaxFlaps})
    /\ flaps' = Min({flaps + 1, MaxFlaps})
    /\ UNCHANGED <<current, token, closed, silent, up, due, old, queue,
                   report>>

\* The next turn: the credential is read again, Connection is a new object
\* and ConnectAsync begins.
Redial ==
    /\ pc = "backoff" /\ left = 0 /\ pc' = "connect"
    /\ token' = current /\ closed' = FALSE /\ silent' = 0 /\ old' = 0
    /\ up' = 0 /\ left' = ConnectTimeout
    /\ UNCHANGED <<current, due, failures, queue, report, flaps, waited>>

Channel == \/ ConnectOk \/ Throws \/ PollEnds \/ PollWaits \/ CountPending
           \/ CountDead \/ SendDone \/ Wake \/ BackOff \/ Redial

-----------------------------------------------------------------------------
(* What happens around it.                                                 *)

\* MessageReceived: an acknowledgement or a reconcile message; anything else,
\* like the Closed handler, closes the connection.
ServerSpeaks ==
    /\ Connected /\ ~ closed
    /\ \/ silent' = 0 /\ UNCHANGED closed
       \/ closed' = TRUE /\ UNCHANGED silent
    /\ UNCHANGED <<pc, current, token, up, due, left, old, failures, queue,
                   report, flaps, waited>>

Rotate ==
    /\ current' \in Tokens \ {current}
    /\ old' = 0
    /\ UNCHANGED <<pc, token, closed, silent, up, due, left, failures, queue,
                   report, flaps, waited>>

\* The owner stores an event; the upload is confirmed or refused.
QueueMoves ==
    /\ \/ \E e \in Events \ (pending \cup dead) :
            pending' = pending \cup {e} /\ UNCHANGED <<dead, kept>>
       \/ \E e \in pending :
            /\ pending' = pending \ {e}
            /\ \/ dead' = dead \cup {e} /\ UNCHANGED kept
               \/ kept' = kept \ {e} /\ UNCHANGED dead
    /\ UNCHANGED <<pc, current, token, closed, clocks, failures, report,
                   flaps, waited>>

\* Time passes where the thread waits, up to the end of the wait: 100 ms are
\* less than a tick, so every tick of an idle thread ends its wait.
After(t)  == IF t = 0 THEN 0 ELSE t - 1
Longest   == AckLimit + SendTimeout + 2
Older(t)  == Min({t + 1, Longest})
Tick ==
    /\ \/ pc \in {"connect", "send", "backoff"} /\ left > 0 /\ UNCHANGED pc
       \/ pc = "idle" /\ pc' = "poll"
    /\ left' = After(left) /\ due' = After(due)
    /\ silent' = Older(silent)
    /\ up' = Min({up + 1, StableAfter + 1})
    /\ old' = IF token = current THEN 0 ELSE Older(old)
    /\ UNCHANGED <<current, token, closed, failures, queue, report, flaps,
                   waited>>

Around == ServerSpeaks \/ Rotate \/ QueueMoves

Next == Channel \/ Around \/ Tick
Spec == Init /\ [][Next]_vars

-----------------------------------------------------------------------------
LongestLeft == Max({ConnectTimeout, SendTimeout, Reconnect(MaxShift) + 1})

TypeOK ==
    /\ pc \in {"connect", "poll", "dead", "send", "idle", "close", "backoff"}
    /\ current \in Tokens /\ token \in Tokens /\ closed \in BOOLEAN
    /\ silent \in 0..Longest /\ old \in 0..Longest
    /\ up \in 0..(StableAfter + 1) /\ due \in 0..ReportEvery
    /\ failures \in 0..MaxFlaps /\ flaps \in 0..MaxFlaps
    /\ left \in 0..LongestLeft
    /\ pending \subseteq Events /\ dead \subseteq Events
    /\ pending \cap dead = {} /\ kept \subseteq pending \cup dead

\* A server that stopped answering is noticed: no connection goes on for more
\* than the 35 seconds, one report and one turn of the loop without a message,
\* however slowly the reports are sent.
SilenceNoticed == Connected => silent <= AckLimit + SendTimeout + 1

\* A connection opened with a credential that has been replaced since ends
\* within one report period, or, if the replacement fell into a longer
\* connecting, as soon as it is connected.
RotationNoticed ==
    Connected => old <= Max({ConnectTimeout, ReportEvery})

\* A server that accepts connections and drops them is not hammered: the
\* n-th disconnection since the last stable connection is followed by at
\* least the n-th delay.
FlappingBacksOff ==
    pc \in {"backoff", "connect"} /\ flaps > 0 => waited >= Reconnect(flaps - 1)

\* The two counts of a report are read in two transactions while the worker
\* moves rows from one table to the other: an event that stayed unresolved
\* meanwhile is counted at least once.
NothingUncounted == pc = "send" =>
    Cardinality(kept) <= report.pending + report.dead

-----------------------------------------------------------------------------
(* What makes these properties inductive.                                  *)

\* How long the server can have been silent where the thread is.
SilenceSoFar ==
    /\ pc = "connect" => silent + left <= ConnectTimeout
    /\ pc \in {"poll", "idle"} => silent <= AckLimit + SendTimeout + 1
    /\ pc = "idle" => silent <= AckLimit + SendTimeout
    /\ pc = "dead" => silent <= AckLimit
    /\ pc = "send" => silent + left <= AckLimit + SendTimeout

\* How long ago the credential can have been replaced: since the last report
\* began, or since the connecting did; while the thread waits the next
\* report is ahead.
RotationSoFar ==
    /\ token = current => old = 0
    /\ pc = "connect" => old + left <= ConnectTimeout
    /\ pc = "poll" => \/ old + due <= ReportEvery
                      \/ due = 0 /\ old <= ConnectTimeout
    /\ pc = "dead" => old = 0
    /\ pc = "send" => due > left
    /\ pc = "idle" => due > 0
    /\ pc \in {"send", "idle"} => old + due <= ReportEvery

\* The delay grows with the disconnections: failures are never forgotten
\* before they are.
DelayGrows == flaps <= failures

\* What was there all through the counts was pending at the first of them,
\* or is dead at the second.
CountedOnce == pc = "dead" => Cardinality(kept \ dead) <= report.pending

ChannelInvariant ==
    /\ TypeOK /\ report \in [pending : Nat, dead : Nat]
    /\ SilenceSoFar /\ RotationSoFar
    /\ DelayGrows /\ FlappingBacksOff /\ CountedOnce /\ NothingUncounted
=============================================================================
