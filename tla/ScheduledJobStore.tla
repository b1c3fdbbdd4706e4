-------------------------- MODULE ScheduledJobStore --------------------------
(***************************************************************************)
(* The rows of scheduled_job, the occurrences recorded for them, and the   *)
(* statements the materializer and the provisioner run on both.            *)
(*                                                                         *)
(* A transaction of either is two or more actions: it locks the rows it    *)
(* will write, keeps what it read, and takes effect as a whole when it     *)
(* commits.  Names are unique, so a lock is kept per name: it also stands  *)
(* for the unique index on a name whose row is being inserted.             *)
(***************************************************************************)
EXTENDS Recurrence

CONSTANTS
    Names,        \* names of the rules a trigger node may register
    ScheduleOf,   \* the schedule of a rule: its name holds the fingerprint
    Passes,       \* materializer passes that may run at once
    Mains,        \* mains that may register the node at once
    Lookahead,    \* lookaheadSeconds
    BatchSize,    \* claim limit of a pass
    MaxNow,       \* bound on the database clock
    MaxJobs,      \* bound on the ids the database hands out
    MaxRegistrations, \* bound on the registrations begun
    MaxFaults     \* bound on lost transactions and failed plannings

ASSUME JobStoreAssumption ==
    /\ {Lookahead, MaxNow, MaxRegistrations, MaxFaults} \subseteq Nat
    /\ {BatchSize, MaxJobs} \subseteq Nat \ {0}

\* A trigger node has finitely many rules, each of a schedule it may register.
ASSUME NamesAssumption ==
    /\ IsFiniteSet(Names)
    /\ ScheduleOf \in [Names -> TriggerSchedules]

\* A lock tells its holder.
ASSUME HoldersAssumption ==
    /\ Passes \cap Mains = {}
    /\ Null \notin Passes \cup Mains

VARIABLES
    now,      \* the clock of the database
    job,      \* scheduled_job by name, Null when there is no row
    task,     \* scheduled_task: the recorded occurrences
    lock,     \* who holds the row lock of a name, Null when nobody
    lastId,   \* the id sequence of scheduled_job
    faults    \* faults so far

storeVars == <<now, job, task, lock, lastId, faults>>

\* since and def are history: the instant the clock was last set to by hand
\* (first run, or retry after a deferral), and how often the rule was redefined.
Row == [id : Nat, def : Nat, clock : Nat \cup {Null}, since : Nat, intact : BOOLEAN]

ASSUME RowAssumption == Null \notin Row

Occurrence == [name : Names, id : Nat, at : Nat, def : Nat,
               status : {"pending", "started"}]

JobStoreTypeOK ==
    /\ now \in 0..MaxNow
    /\ job \in [Names -> Row \cup {Null}]
    /\ task \subseteq Occurrence
    /\ lock \in [Names -> Passes \cup Mains \cup {Null}]
    /\ lastId \in 0..MaxJobs
    /\ faults \in 0..MaxFaults

JobStoreInit ==
    /\ now = 0
    /\ job = [n \in Names |-> Null]
    /\ task = {}
    /\ lock = [n \in Names |-> Null]
    /\ lastId = 0
    /\ faults = 0

Exists(n) == job[n] # Null

Fault == /\ faults < MaxFaults
         /\ faults' = faults + 1

Held(who) == {n \in Names : lock[n] = who}

Free(S, who) == \A n \in S : lock[n] \in {Null, who}

Lock(S, who) == lock' = [n \in Names |-> IF n \in S THEN who ELSE lock[n]]

Unlock(who) == lock' = [n \in Names |-> IF lock[n] = who THEN Null ELSE lock[n]]

-----------------------------------------------------------------------------
\* claimDue: FOR UPDATE SKIP LOCKED over the rows whose next run is within the
\* lookahead, oldest first, at most BatchSize of them.
Due == {n \in Names : Exists(n) /\ job[n].clock # Null
                        /\ job[n].clock <= now + Lookahead}

Claimable == {n \in Due : lock[n] = Null}

\* A bug to detect: the batch is not ordered by the next run.
AnyBatches ==
    {S \in SUBSET Claimable : Cardinality(S) = Min({BatchSize, Cardinality(Claimable)})}

ClaimBatches ==
    {S \in SUBSET Claimable :
       /\ Cardinality(S) = Min({BatchSize, Cardinality(Claimable)})
       /\ \A n \in S, k \in Claimable \ S : job[n].clock <= job[k].clock}

\* insertIgnoringDuplicates: (jobId, scheduledFor) is unique.
insertIgnoringDuplicates(tasks, rows) ==
    tasks \cup {r \in rows : ~ \E k \in tasks : k.id = r.id /\ k.at = r.at}

\* deletePendingByJobIds: what already runs is left alone.
deletePendingByJobIds(tasks, ids) ==
    {k \in tasks : ~(k.id \in ids /\ k.status = "pending")}

\* Deleting a job deletes its tasks with it, whatever their state.
Cascade(tasks, ids) == {k \in tasks : k.id \notin ids}

IdsOf(S) == {job[n].id : n \in {m \in S : Exists(m)}}

=============================================================================
