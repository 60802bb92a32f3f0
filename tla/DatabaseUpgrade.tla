-------------------------- MODULE DatabaseUpgrade --------------------------
(***************************************************************************)
(* Opening the database: the constructor of edge_app/storage/database.cpp, *)
(* with the statements of storage/schema.hpp and the Transaction of        *)
(* storage/database_internal.hpp.  The client and a gallery import are     *)
(* processes that may open the same file at once, and each may die between *)
(* two statements.                                                         *)
(*                                                                         *)
(* A row of the outbox is its next_ms.  A transaction works on a copy of   *)
(* the tables; COMMIT makes it the database.                               *)
(***************************************************************************)
EXTENDS Naturals, FiniteSets, FiniteSetsExt

CONSTANTS
    Openers,   \* processes
    Rows,      \* event ids of an older database
    LastTime,  \* the largest next_ms, an int64
    NoRow      \* the event is not in the outbox

Times == 1..LastTime
UpgradeAssumption == LastTime \in Nat /\ NoRow \notin Times /\ "free" \notin Openers

schema_version == 2
V1Tables == {"attendance_outbox", "dead_letter", "gallery_state",
             "gallery_template"}

VARIABLES
    disk,     \* the committed database
    work,     \* the copy of the open transaction
    lock,     \* who has it, or "free"
    pc,       \* where each opener is
    v,        \* the version each opener has read
    first     \* history: the rows before any opening

vars == <<disk, work, lock, pc, v, first>>

Database == [user_version : 0..3, tables : SUBSET (V1Tables \union {"delivery_state"}),
             next_ms : [Rows -> Times \union {NoRow}],
             retry_not_before_ms : {0} \union Times]

Queued(d) == {d.next_ms[e] : e \in {x \in Rows : d.next_ms[x] # NoRow}}

\* A new file, a database of version 1 with its rows, or one that is newer
\* than the program.
Init ==
    /\ disk \in {d \in Database :
         /\ d.retry_not_before_ms = 0
         /\ d.user_version \in {0, 1, 3}
         /\ d.tables = IF d.user_version = 0 THEN {} ELSE V1Tables
         /\ d.user_version = 0 => Queued(d) = {}}
    /\ work = disk /\ lock = "free" /\ first = disk.next_ms
    /\ pc = [p \in Openers |-> "closed"] /\ v = [p \in Openers |-> 0]

At(p, from, to) == pc[p] = from /\ pc' = [pc EXCEPT ![p] = to]

\* Mutant: a newer version is not refused.
ReadVersion_Newer(p) ==
    /\ At(p, "closed", IF disk.user_version < schema_version THEN "begin"
                       ELSE "open")
    /\ v' = [v EXCEPT ![p] = disk.user_version]
    /\ UNCHANGED <<disk, work, lock, first>>
\* sqlite3_open_v2 and the pragmas, then PRAGMA user_version.
ReadVersion(p) ==
    /\ At(p, "closed", IF disk.user_version > schema_version THEN "failed"
                       ELSE IF disk.user_version < schema_version THEN "begin"
                       ELSE "open")
    /\ v' = [v EXCEPT ![p] = disk.user_version]
    /\ UNCHANGED <<disk, work, lock, first>>

\* BEGIN IMMEDIATE takes the write lock.
Begin(p) ==
    /\ lock = "free" /\ At(p, "begin", IF v[p] = 0 THEN "create" ELSE "migrate")
    /\ lock' = p /\ work' = disk /\ UNCHANGED <<disk, v, first>>

\* A failed statement throws, and the transaction rolls back.
RollBack(p) ==
    /\ lock' = "free" /\ pc' = [pc EXCEPT ![p] = "failed"]
    /\ UNCHANGED <<disk, work, v, first>>

\* Mutant: every statement commits by itself.
Statement_Autocommit(d) == work' = d /\ disk' = d
\* A statement of the transaction.
Statement(d) == work' = d /\ UNCHANGED disk

CreateSchema(p) ==
    /\ pc[p] = "create"
    /\ IF work.tables \intersect V1Tables # {} THEN RollBack(p)
       ELSE /\ At(p, "create", "migrate")
            /\ Statement([work EXCEPT !.tables = @ \union V1Tables,
                                      !.user_version = 1])
            /\ UNCHANGED <<lock, v, first>>

MigrateTable(p) ==
    /\ pc[p] = "migrate"
    /\ IF "delivery_state" \in work.tables THEN RollBack(p)
       ELSE /\ At(p, "migrate", "carry")
            /\ Statement([work EXCEPT !.tables = @ \union {"delivery_state"}])
            /\ UNCHANGED <<lock, v, first>>

\* Mutant: the pause starts at zero.
Carried_Zero(d) == 0
\* COALESCE(MAX(next_ms), 0)
Carried(d) == IF Queued(d) = {} THEN 0 ELSE Max(Queued(d))

CarryPauses(p) ==
    /\ At(p, "carry", "commit")
    /\ Statement([work EXCEPT !.retry_not_before_ms = Carried(work),
                              !.user_version = 2])
    /\ UNCHANGED <<lock, v, first>>

Commit(p) ==
    /\ At(p, "commit", "open") /\ disk' = work /\ lock' = "free"
    /\ UNCHANGED <<work, v, first>>

\* Busy for longer than the busy timeout, a full disk, a read error.
Fails(p) ==
    /\ pc[p] \in {"closed", "begin", "create", "migrate", "carry", "commit"}
    /\ pc' = [pc EXCEPT ![p] = "failed"]
    /\ lock' = IF lock = p THEN "free" ELSE lock
    /\ UNCHANGED <<disk, work, v, first>>

\* The process dies or closes the database; the journal rolls an open
\* transaction back.  It may open the file again.
Close(p) ==
    /\ pc' = [pc EXCEPT ![p] = "closed"]
    /\ lock' = IF lock = p THEN "free" ELSE lock
    /\ UNCHANGED <<disk, work, v, first>>

Next == \E p \in Openers :
    \/ ReadVersion(p) \/ Begin(p) \/ CreateSchema(p) \/ MigrateTable(p)
    \/ CarryPauses(p) \/ Commit(p) \/ Fails(p) \/ Close(p)

Spec == Init /\ [][Next]_vars

-----------------------------------------------------------------------------
TypeOK ==
    /\ {disk, work} \subseteq Database /\ lock \in Openers \union {"free"}
    /\ pc \in [Openers -> {"closed", "begin", "create", "migrate", "carry",
                           "commit", "open", "failed"}]
    /\ v \in [Openers -> 0..3]

\* The version on disk tells which tables are there, whoever died where.
VersionMatchesTables ==
    /\ disk.user_version = 0 => disk.tables = {}
    /\ disk.user_version \in {1, 3} => disk.tables = V1Tables
    /\ disk.user_version = 2 => disk.tables = V1Tables \union {"delivery_state"}

\* "Preserve pending retries when upgrading": after the upgrade the endpoint
\* waits as long as any row did, and the rows are as they were.
PausesCarried ==
    /\ disk.next_ms = first
    /\ disk.user_version = 2 =>
         \A t \in Queued(disk) : t <= disk.retry_not_before_ms

\* Nobody works with a database of another version, and no two openers
\* change it at once.
OpenMeansCurrent ==
    /\ \A p \in Openers : pc[p] = "open" => disk.user_version = schema_version
    /\ Cardinality({p \in Openers :
         pc[p] \in {"create", "migrate", "carry", "commit"}}) <= 1

-----------------------------------------------------------------------------
(* What makes these properties inductive.                                  *)

Changing == {"create", "migrate", "carry", "commit"}

\* Who is in a transaction has the lock, and its copy is the database with
\* the statements of the transaction so far.
TransactionSoFar ==
    \A p \in Openers :
        /\ pc[p] \in Changing => lock = p /\ work.next_ms = disk.next_ms
        /\ pc[p] = "create" => v[p] = 0 /\ work = disk
        /\ pc[p] = "migrate" => \/ work = disk /\ v[p] = 1
                                \/ work.tables = V1Tables
        /\ pc[p] \in {"carry", "commit"}
              => work.tables = V1Tables \union {"delivery_state"}
        /\ pc[p] = "commit"
              => /\ work.user_version = 2
                 /\ \A t \in Queued(work) : t <= work.retry_not_before_ms

\* The version an opener has read is that of the database, unless another
\* opener has upgraded it since.
VersionRead ==
    \A p \in Openers : pc[p] \in {"begin"} \union Changing =>
        v[p] \in {0, 1} /\ disk.user_version \in {v[p], 2}

UpgradeInvariant ==
    /\ TypeOK /\ TransactionSoFar /\ VersionRead
    /\ VersionMatchesTables /\ PausesCarried
    /\ \A p \in Openers : pc[p] = "open" => disk.user_version = schema_version
=============================================================================
