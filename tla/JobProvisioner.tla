--------------------------- MODULE JobProvisioner ---------------------------
(***************************************************************************)
(* Registration of a trigger node's rules as durable jobs: the registrar   *)
(* collects the rules while the node's trigger runs, the provisioner makes *)
(* the stored jobs match them, by name, and seeds the first window of what *)
(* it wrote, in one transaction.  Two mains may register a node at once.   *)
(*                                                                         *)
(*   collected  the rules are known, each with a first run                 *)
(*   found      findExisting read the stored rows, without a lock          *)
(*   written    every row to write is locked, the rows to seed are read    *)
(***************************************************************************)
EXTENDS Materializer, Functions

CONSTANTS
    RuleSets,    \* what the versions of the node's workflow register
    Degenerate,  \* the rules whose recurrence interval is not positive
    MaxSkew      \* how far the clock of an instance may be off the database's

ASSUME RuleSetsAssumption ==
    /\ RuleSets \subseteq (SUBSET Names) \ {{}}
    /\ Degenerate \subseteq Names

\* A retry is put off beyond what the clocks differ by.
ASSUME SkewAssumption == MaxSkew \in Nat /\ MaxSkew < PlanRetry

VARIABLES
    registration,  \* per main: the registration under way, or Null
    begun,         \* registrations begun so far
    raced          \* history: rules removed while a registration was under way

\* A registration that wrote the rows of D and will seed those of E.
Written(D, E) ==
    [step : {"written"}, rows : [D -> Row], removed : SUBSET Names,
     seed : [now : Nat, rows : [E -> Row]]]

\* Null stands for no registration.
ASSUME RegistrationAssumption == \A D, E \in SUBSET Names : Null \notin Written(D, E)

ProvisionerTypeOK ==
    /\ DOMAIN registration = Mains
    /\ \A m \in Mains : registration[m] # Null =>
         registration[m].step \in {"collected", "found", "written"}
    /\ begun \in 0..MaxRegistrations
    /\ raced \subseteq Names

ProvisionerInit ==
    /\ registration = [m \in Mains |-> Null]
    /\ begun = 0
    /\ raced = {}

Registering == {m \in Mains : registration[m] # Null}

\* S is removed by m (Null: by no registration).
Race(S, m) == raced' = raced \cup (IF Registering \ {m} = {} THEN {} ELSE S)

-----------------------------------------------------------------------------
\* What the clock of an instance may show.
ClockReadings == {r \in 0..(now + MaxSkew) : now <= r + MaxSkew}

\* A bug to detect: the instant the clock shows counts as still to come.
FirstRunAtOnce(n, r) ==
    IF n \in Degenerate THEN Null ELSE computeFirstRunAt(ScheduleOf[n], r - 1)

\* The first run on a clock that shows r; a degenerate rule has none.
FirstRun(n, r) ==
    IF n \in Degenerate THEN Null ELSE computeFirstRunAt(ScheduleOf[n], r)

\* registerCron: first runs are computed on the clock of the main, which shows r.
Collect(m, r) ==
    /\ registration[m] = Null
    /\ begun < MaxRegistrations
    /\ begun' = begun + 1
    /\ \E D \in RuleSets :
         registration' = [registration EXCEPT ![m] =
           [step |-> "collected",
            firstRun |-> [n \in D |-> FirstRun(n, r)]]]
    /\ UNCHANGED <<storeVars, pass, raced>>

FindExisting(m) ==
    /\ registration[m] # Null
    /\ registration[m].step = "collected"
    /\ registration' = [registration EXCEPT ![m] =
         [step |-> "found", firstRun |-> @.firstRun, existing |-> job]]
    /\ UNCHANGED <<storeVars, pass, begun, raced>>

\* A name stands for a schedule, so a row differs in its definition only when
\* its columns were damaged.
holdsDefinition(row, firstRun) ==
    row.intact /\ (row.clock # Null) = (firstRun # Null)

ToInsert(r) == {n \in DOMAIN r.firstRun : r.existing[n] = Null}

ToRedefine(r) ==
    {n \in DOMAIN r.firstRun \ ToInsert(r) :
       ~holdsDefinition(r.existing[n], r.firstRun[n])}

ToRemove(r) == {n \in Names \ DOMAIN r.firstRun : r.existing[n] # Null}

NewIds(S) == CHOOSE f \in Injection(S, (lastId + 1)..(lastId + Cardinality(S))) : TRUE

\* orIgnore: a name another main inserted since is left as it is.
Inserted(r) == {n \in ToInsert(r) : ~Exists(n)}

\* updateDefinition is by id: it misses a row that was deleted since.
Redefined(r) == {n \in ToRedefine(r) : Exists(n) /\ job[n].id = r.existing[n].id}

\* Where the fires of a row are counted from.
Since(firstRun) == IF firstRun = Null THEN 0 ELSE firstRun

WrittenRows(r) ==
    [n \in Inserted(r) \cup Redefined(r) |->
       IF n \in Inserted(r)
       THEN [id |-> NewIds(Inserted(r))[n], def |-> 1, clock |-> r.firstRun[n],
             since |-> Since(r.firstRun[n]), intact |-> TRUE]
       ELSE [job[n] EXCEPT !.def = @ + 1, !.clock = r.firstRun[n],
                           !.since = Since(r.firstRun[n]), !.intact = TRUE]]

\* The rows to seed are those written and, unlocked, those another main had
\* inserted first.
RowsToSeed(r) ==
    LET S == DOMAIN WrittenRows(r) \cup ToInsert(r)
    IN  [n \in S |-> IF n \in DOMAIN WrittenRows(r) THEN WrittenRows(r)[n] ELSE job[n]]

Live(rows) == Restrict(rows, {n \in DOMAIN rows : rows[n].clock # Null})

\* redefine, withdrawPendingTasks, deleteJobs and insert, up to the read-back
\* of the rows to seed.  Each write waits for the row's lock.
Write(m) ==
    LET r == registration[m]
        rows == WrittenRows(r)
        removed == {n \in ToRemove(r) : Exists(n) /\ job[n].id = r.existing[n].id}
    IN  /\ r # Null
        /\ r.step = "found"
        /\ Free(ToInsert(r) \cup ToRedefine(r) \cup ToRemove(r), m)
        /\ lastId + Cardinality(Inserted(r)) <= MaxJobs
        /\ lastId' = lastId + Cardinality(Inserted(r))
        /\ Lock(DOMAIN rows \cup removed, m)
        /\ registration' = [registration EXCEPT ![m] =
             [step |-> "written", rows |-> rows, removed |-> removed,
              seed |-> [now |-> now, rows |-> Live(RowsToSeed(r))]]]
        /\ UNCHANGED <<now, job, task, faults, pass, begun, raced>>

\* The rows to seed that another transaction has deleted since.
Gone(r) ==
    {n \in DOMAIN r.seed.rows \ DOMAIN r.rows : ~(Exists(n) /\ job[n].id = r.seed.rows[n].id)}

\* seedInitialOccurrences and the commit: the rows written replace the stored
\* ones, then one materializer pass over the rows to seed, on the time and the
\* rows read before.
CommitRegistration(m) ==
    LET r == registration[m]
        stored == [n \in Names |-> IF n \in r.removed THEN Null
                                   ELSE IF n \in DOMAIN r.rows THEN r.rows[n]
                                   ELSE job[n]]
        withdrawn == {r.rows[n].id : n \in DOMAIN r.rows}
        kept == Cascade(deletePendingByJobIds(task, withdrawn), IdsOf(r.removed))
    IN  /\ r # Null
        /\ r.step = "written"
        /\ Free(DOMAIN r.seed.rows, m)
        /\ \E failing \in SUBSET DOMAIN r.seed.rows :
            LET plans == planOrDeferJobs(r.seed, failing)
            IN  /\ \A n \in Gone(r) : plans[n].occurrences = {}
                /\ IF failing = {} THEN UNCHANGED faults ELSE Fault
                /\ task' = insertIgnoringDuplicates(kept, toNewOccurrences(r.seed, plans))
                /\ job' = advanceMany(stored, r.seed, plans, failing)
        /\ Race(r.removed, m)
        /\ Unlock(m)
        /\ registration' = [registration EXCEPT ![m] = Null]
        /\ UNCHANGED <<now, lastId, pass, begun>>

\* The insert of an occurrence violates the foreign key: its job is gone.
SeedFails(m) ==
    LET r == registration[m]
    IN  /\ r # Null
        /\ r.step = "written"
        /\ \E n \in Gone(r) : planOrDeferJobs(r.seed, {})[n].occurrences # {}
        /\ Unlock(m)
        /\ registration' = [registration EXCEPT ![m] = Null]
        /\ UNCHANGED <<now, job, task, lastId, faults, pass, begun, raced>>

\* discard, a failed statement or a crash: nothing is stored.
AbandonRegistration(m) ==
    /\ registration[m] # Null
    /\ Unlock(m)
    /\ registration' = [registration EXCEPT ![m] = Null]
    /\ Fault
    /\ UNCHANGED <<now, job, task, lastId, pass, begun, raced>>

\* removeWorkflow: one DELETE, which waits for the locks of the rows it sees.
RemoveWorkflow ==
    LET S == {n \in Names : Exists(n)}
    IN  /\ S # {}
        /\ \A n \in S : lock[n] = Null
        /\ job' = [n \in Names |-> Null]
        /\ task' = Cascade(task, IdsOf(S))
        /\ Race(S, Null)
        /\ UNCHANGED <<now, lock, lastId, faults, pass, registration, begun>>
=============================================================================
