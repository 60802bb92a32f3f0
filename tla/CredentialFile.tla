--------------------------- MODULE CredentialFile ---------------------------
(***************************************************************************)
(* The protected credential on disk: protect_token and unprotect_token of  *)
(* edge_app/security/device_credential.cpp, and prepare_private_file of    *)
(* edge_app/security/local_data.cpp.  Writers are runs of the credential   *)
(* command, readers the sync worker and the device channel; they are       *)
(* processes and threads without a lock between them, and a writer may be  *)
(* killed between any two calls.                                           *)
(*                                                                         *)
(* Every call of a writer stores a new token.  A file is absent, empty, a  *)
(* whole protected token, or torn: DPAPI refuses a torn one.               *)
(***************************************************************************)
EXTENDS Naturals

CONSTANTS
    Writers, Readers,   \* processes that store, threads that read
    MaxCalls            \* calls of protect_token

CallsAssumption == MaxCalls \in Nat

VARIABLES
    file, temp,   \* the credential and its ".new"
    private,      \* what has the restrictive ACL: "parent", "file", "temp"
    linked,       \* the credential is a file with more than one link
    w,            \* the writers: where they are and their token
    calls,        \* calls of protect_token so far
    r,            \* the readers: where they are, the size they saw
    installed,    \* history: some token has been stored
    overlap,      \* history: two writers were at work at once
    seen          \* history: what the file held during a reader's call

writerVars == <<temp, private, w, calls, installed, overlap>>
vars == <<file, linked, writerVars, r, seen>>

Absent == [kind |-> "absent", token |-> 0]
Empty  == [kind |-> "empty", token |-> 0]
Torn   == [kind |-> "torn", token |-> 0]
Whole(t) == [kind |-> "whole", token |-> t]
Content == {Absent, Empty, Torn} \union {Whole(t) : t \in 1..MaxCalls}

\* Protected tokens have one of two lengths here; a torn file has neither.
Size(c) == CASE c.kind = "empty" -> 0 [] c.kind = "torn" -> 3
             [] c.kind = "whole" -> 1 + (c.token % 2) [] OTHER -> 0

Init ==
    /\ linked \in BOOLEAN
    /\ file \in (IF linked THEN {Empty} ELSE {Absent, Empty})
    /\ temp = Absent /\ private = {}
    /\ w = [p \in Writers |-> [pc |-> "idle", token |-> 0]] /\ calls = 0
    /\ r = [p \in Readers |-> [pc |-> "idle", size |-> 0, got |-> Absent]]
    /\ installed = FALSE /\ overlap = FALSE
    /\ seen = [p \in Readers |-> {}]

-----------------------------------------------------------------------------
(* protect_token                                                           *)

To(p, pc) == w' = [w EXCEPT ![p].pc = pc]
HoldsTemp(p) == w[p].pc \in {"write", "written"}
HoldsFile(p) == r[p].pc = "open"

\* What the readers at work have had before them.
Observed(c) == seen' = [p \in Readers |-> IF r[p].pc = "idle" THEN seen[p]
                                         ELSE seen[p] \union {c}]

\* validate_token and CryptProtectData have succeeded.
BeginProtect(p) ==
    /\ w[p].pc = "idle" /\ calls < MaxCalls
    /\ calls' = calls + 1
    /\ w' = [w EXCEPT ![p] = [pc |-> "prepareFile", token |-> calls + 1]]
    /\ overlap' = (overlap \/ \E q \in Writers : w[q].pc # "idle")
    /\ UNCHANGED <<file, linked, temp, private, r, installed, seen>>

\* Mutant: the target is looked at after the directory was changed.
PrepareFile_CheckLast(p) ==
    /\ w[p].pc = "prepareFile" /\ private' = private \union {"parent", "file"}
    /\ file' = (IF file = Absent THEN Empty ELSE file) /\ Observed(file')
    /\ To(p, IF linked THEN "idle" ELSE "prepareTemp")
    /\ UNCHANGED <<linked, temp, calls, r, installed, overlap>>
\* Mutant: the file is created anew.
PrepareFile_Truncates(p) ==
    /\ w[p].pc = "prepareFile" /\ ~ linked
    /\ private' = private \union {"parent", "file"}
    /\ file' = Empty /\ Observed(file') /\ To(p, "prepareTemp")
    /\ UNCHANGED <<linked, temp, calls, r, installed, overlap>>
\* prepare_private_file(file): a target with several links is refused before
\* anything is changed; then the directory is restricted, the file created
\* with the same restriction unless it exists, and restricted.
PrepareFile(p) ==
    /\ w[p].pc = "prepareFile" /\ ~ linked
    /\ private' = private \union {"parent", "file"}
    /\ file' = (IF file = Absent THEN Empty ELSE file) /\ Observed(file')
    /\ To(p, "prepareTemp")
    /\ UNCHANGED <<linked, temp, calls, r, installed, overlap>>

Refused(p) ==
    /\ w[p].pc = "prepareFile" /\ linked /\ To(p, "idle")
    /\ UNCHANGED <<file, linked, temp, private, calls, r, installed, overlap,
                   seen>>

\* prepare_private_file(temporary)
PrepareTemp(p) ==
    /\ w[p].pc = "prepareTemp"
    /\ private' = private \union {"parent", "temp"}
    /\ temp' = (IF temp = Absent THEN Empty ELSE temp) /\ To(p, "truncate")
    /\ UNCHANGED <<file, linked, calls, r, installed, overlap, seen>>

\* The stream opens with trunc; a temporary that is gone is created again,
\* inheriting the restriction of the directory.
Truncate(p) ==
    /\ w[p].pc = "truncate" /\ temp' = Empty /\ To(p, "write")
    /\ UNCHANGED <<file, linked, private, calls, r, installed, overlap, seen>>

\* write and flush; two writers may have the temporary open at once.
Write(p) ==
    /\ w[p].pc = "write"
    /\ temp' \in {Whole(w[p].token)} \union
                 {c \in {Torn} : \E q \in Writers \ {p} : HoldsTemp(q)}
    /\ To(p, "written")
    /\ UNCHANGED <<file, linked, private, calls, r, installed, overlap, seen>>

\* Mutant: the state of the stream is not looked at after the flush.
WriteFails_Ignored(p) ==
    /\ w[p].pc = "write" /\ temp' \in {temp, Torn} /\ To(p, "written")
    /\ UNCHANGED <<file, linked, private, calls, r, installed, overlap, seen>>
\* The disk is full: the stream is closed and the call throws.
WriteFails(p) ==
    /\ w[p].pc = "write" /\ temp' \in {temp, Torn} /\ To(p, "idle")
    /\ UNCHANGED <<file, linked, private, calls, r, installed, overlap, seen>>

CloseTemp(p) ==
    /\ w[p].pc = "written" /\ To(p, "move")
    /\ UNCHANGED <<file, linked, temp, private, calls, r, installed, overlap,
                   seen>>

\* MoveFileEx: nobody may have either file open, since neither stream shares
\* deletion.
Move(p) ==
    /\ w[p].pc = "move" /\ temp # Absent
    /\ \A q \in Writers : ~ HoldsTemp(q)
    /\ \A q \in Readers : ~ HoldsFile(q)
    /\ file' = temp /\ temp' = Absent /\ Observed(file') /\ To(p, "idle")
    /\ private' = private \ {"temp"}
    /\ installed' = (installed \/ file'.kind = "whole")
    /\ UNCHANGED <<linked, calls, r, overlap>>

MoveFails(p) ==
    /\ w[p].pc = "move" /\ To(p, "idle")
    /\ UNCHANGED <<file, linked, temp, private, calls, r, installed, overlap,
                   seen>>

\* The process ends, or another call of prepare_private_file throws.
Killed(p) ==
    /\ w[p].pc \notin {"idle", "write"} /\ To(p, "idle")
    /\ UNCHANGED <<file, linked, temp, private, calls, r, installed, overlap,
                   seen>>

\* EdgeApplication prepares the credential that exists when it starts.
ApplicationStarts ==
    /\ file # Absent /\ ~ linked /\ private' = private \union {"parent", "file"}
    /\ UNCHANGED <<file, linked, temp, w, calls, r, installed, overlap, seen>>

ProtectToken(p) ==
    \/ BeginProtect(p) \/ PrepareFile(p) \/ Refused(p) \/ PrepareTemp(p)
    \/ Truncate(p) \/ Write(p) \/ WriteFails(p) \/ CloseTemp(p) \/ Move(p)
    \/ MoveFails(p) \/ Killed(p)

-----------------------------------------------------------------------------
(* unprotect_token                                                         *)

Reader(p, pc, size, got) ==
    /\ r' = [r EXCEPT ![p] = [pc |-> pc, size |-> size, got |-> got]]
    /\ UNCHANGED <<file, linked, writerVars>>

\* file_size throws for a file that is not there; 0 is refused.
ReadSize(p) ==
    /\ r[p].pc = "idle" /\ seen' = [seen EXCEPT ![p] = {file}]
    /\ IF Size(file) = 0 THEN Reader(p, "idle", 0, Absent)
                         ELSE Reader(p, "sized", Size(file), Absent)

OpenFile(p) ==
    /\ r[p].pc = "sized" /\ Reader(p, "open", r[p].size, Absent)
    /\ UNCHANGED seen

\* Mutant: what was read is not checked.
ReadToken_Unchecked(p) ==
    /\ r[p].pc = "open" /\ Reader(p, "idle", Size(file), file) /\ UNCHANGED seen
\* Another size than before throws, and so does CryptUnprotectData on a torn
\* file.
ReadToken(p) ==
    /\ r[p].pc = "open"
    /\ Reader(p, "idle", r[p].size,
              IF Size(file) = r[p].size /\ file.kind = "whole" THEN file
                                                              ELSE Absent)
    /\ UNCHANGED seen

UnprotectToken(p) == ReadSize(p) \/ OpenFile(p) \/ ReadToken(p)

Next == \/ \E p \in Writers : ProtectToken(p)
        \/ \E p \in Readers : UnprotectToken(p)
        \/ ApplicationStarts

Spec == Init /\ [][Next]_vars

-----------------------------------------------------------------------------
TypeOK ==
    /\ {file, temp} \subseteq Content /\ calls \in 0..MaxCalls
    /\ private \subseteq {"parent", "file", "temp"}
    /\ w \in [Writers -> [pc : {"idle", "prepareFile", "prepareTemp", "truncate",
                             "write", "written", "move"}, token : 0..calls]]
    /\ \A p \in Writers : w[p].pc = "idle" \/ w[p].token > 0
    /\ linked \in BOOLEAN /\ installed \in BOOLEAN /\ overlap \in BOOLEAN
    /\ r \in [Readers -> [pc : {"idle", "sized", "open"}, size : 0..3, got : Content]]
    /\ seen \in [Readers -> SUBSET Content]

\* Once a credential is stored there always is one, whatever call fails and
\* wherever a later writer is killed; only writers that overlap, and share
\* the temporary file, can spoil it.
NeverLost == installed /\ ~ overlap => file.kind = "whole"

\* A torn credential is the work of overlapping writers.
TornOnlyByOverlap == file.kind = "torn" => overlap

\* A reader returns a whole token that was the credential during its call,
\* and comes back without one only if there was none, or it was replaced.
ReaderSound ==
    \A p \in Readers : r[p].pc = "idle" /\ seen[p] # {} =>
        /\ r[p].got # Absent => r[p].got \in seen[p] /\ r[p].got.kind = "whole"
        /\ \A c \in seen[p] : seen[p] = {c} /\ c.kind = "whole" => r[p].got = c

\* The bytes of a token are only ever in files with the restrictive ACL, in
\* a directory that has it; a file that is refused changes nothing.
SecretsPrivate ==
    /\ Size(file) > 0 => {"parent", "file"} \subseteq private
    /\ Size(temp) > 0 => "parent" \in private
    /\ linked => private = {}

-----------------------------------------------------------------------------
(* What makes these properties inductive.                                  *)

\* As long as writers have not overlapped at most one is at work, and what it
\* has written to the temporary file is still there when it moves it.
OneWriter ==
    ~ overlap =>
        /\ \A p, q \in Writers : w[p].pc # "idle" /\ w[q].pc # "idle" => p = q
        /\ \A p \in Writers : w[p].pc \in {"written", "move"} => temp.kind = "whole"

\* Whoever is past prepare_private_file(file) has restricted the file.
FilePrepared ==
    \A p \in Writers : w[p].pc \notin {"idle", "prepareFile"} =>
        ~ linked /\ {"parent", "file"} \subseteq private

\* A reader at work has seen what the file holds, and the size it remembers
\* is that of something it has seen.
ReaderAtWork ==
    \A p \in Readers : r[p].pc # "idle" =>
        /\ file \in seen[p]
        /\ \E c \in seen[p] : r[p].size = Size(c)

CredentialInvariant ==
    /\ TypeOK /\ OneWriter /\ FilePrepared /\ ReaderAtWork
    /\ NeverLost /\ TornOnlyByOverlap /\ ReaderSound /\ SecretsPrivate
=============================================================================
