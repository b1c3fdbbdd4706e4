---------------------------- MODULE JobScheduling ----------------------------
(***************************************************************************)
(* From a trigger node's rules to the occurrences the executor finds: the  *)
(* materializer and the provisioner over one database, with time passing,  *)
(* rows damaged by hand, and an executor reduced to what it does to an     *)
(* occurrence here, which is to start it once it is due.                   *)
(***************************************************************************)
EXTENDS JobProvisioner

CONSTANT PlannedSchedules    \* schedules whose plans are compared with a reference

VARIABLES
    ran,     \* history: the occurrences that were started
    behind   \* history: rules registered on a clock that had yet to reach a fire of theirs

vars == <<storeVars, pass, registration, begun, raced, ran, behind>>

Init ==
    /\ JobStoreInit
    /\ MaterializerInit
    /\ ProvisionerInit
    /\ ran = {}
    /\ behind = {}

\* The timer of the executor, on the clock of its instance, which may be ahead,
\* and beginDispatch.  A task about to be withdrawn or deleted is
\* locked by the transaction that does so.
Start(k) ==
    /\ k.status = "pending"
    /\ k.at <= now + MaxSkew
    /\ lock[k.name] \notin Mains
    /\ task' = (task \ {k}) \cup {[k EXCEPT !.status = "started"]}
    /\ ran' = ran \cup {[name |-> k.name, id |-> k.id, at |-> k.at]}
    /\ UNCHANGED <<now, job, lock, lastId, faults, pass, registration, begun, raced, behind>>

\* A column the schedule needs is lost from a row nobody works on.
Corrupt(n) ==
    /\ Exists(n)
    /\ job[n].intact
    /\ lock[n] = Null
    /\ Registering = {}
    /\ job' = [job EXCEPT ![n].intact = FALSE]
    /\ Fault
    /\ UNCHANGED <<now, task, lock, lastId, pass, registration, begun, raced, ran, behind>>

Tick ==
    /\ now < MaxNow
    /\ now' = now + 1
    /\ UNCHANGED <<job, task, lock, lastId, faults, pass, registration, begun, raced, ran, behind>>

MaterializerStep(p) ==
    /\ ClaimDueJobs(p) \/ RecordAndAdvance(p) \/ AbandonPass(p)
    /\ UNCHANGED <<registration, begun, raced, ran, behind>>

\* The rules that fired at an instant the clock of the registering main, which
\* shows r, has not reached.
Overtaken(r) == {x.name : x \in {y \in ran : y.at > r}}

StartRegistration(m) ==
    \E r \in ClockReadings :
        /\ Collect(m, r)
        /\ behind' = behind \cup (DOMAIN registration'[m].firstRun \cap Overtaken(r))
        /\ UNCHANGED ran

RegistrationStep(m) ==
    /\ \/ FindExisting(m)
       \/ Write(m)
       \/ CommitRegistration(m)
       \/ SeedFails(m)
       \/ AbandonRegistration(m)
    /\ UNCHANGED <<ran, behind>>

Next ==
    \/ \E p \in Passes : MaterializerStep(p)
    \/ \E m \in Mains : StartRegistration(m) \/ RegistrationStep(m)
    \/ RemoveWorkflow /\ UNCHANGED <<ran, behind>>
    \/ \E k \in task : Start(k)
    \/ \E n \in Names : Corrupt(n)
    \/ Tick

Spec == Init /\ [][Next]_vars

\* A transaction ends, by a commit or a rollback.
PassEnds(p) ==
    /\ pass[p] # Null
    /\ pass' = [pass EXCEPT ![p] = Null]

\* One that waits for no lock.
RegistrationEnds(m) ==
    /\ registration[m] # Null
    /\ registration[m].step = "written"
    /\ Free(DOMAIN registration[m].seed.rows, m)
    /\ registration' = [registration EXCEPT ![m] = Null]

\* The loop starts passes for ever; a transaction that holds locks ends.
Fairness ==
    /\ WF_vars(\E p \in Passes : ClaimDueJobs(p) /\ UNCHANGED <<registration, begun, raced, ran, behind>>)
    /\ \A p \in Passes : WF_pass(PassEnds(p))
    /\ \A m \in Mains : WF_registration(RegistrationEnds(m))

FairSpec == Spec /\ Fairness

-----------------------------------------------------------------------------
TypeOK ==
    /\ JobStoreTypeOK
    /\ MaterializerTypeOK
    /\ ProvisionerTypeOK
    /\ behind \subseteq Names

\* A plan records the first fires of its schedule and leaves the clock on the
\* next one: for every schedule, first fire, time and batch size in the bounds,
\* the fires up to the new clock are those recorded and the new clock itself
\* (planOccurrences, and the every-N rule across periods in recurring_cron).
\* No variable matters to it: it is evaluated before the first registration.
PlansMatchReference ==
    begun = 0 => \A s \in PlannedSchedules, first \in 0..5, at \in 0..9, max \in 1..4 :
        LET plan == planOccurrences(s, first, at, Window, max)
            upTo == IF plan.nextRunAt = Null THEN at + Window ELSE plan.nextRunAt
        IN  /\ plan.occurrences \cup ({plan.nextRunAt} \ {Null})
                 = ReferenceFires(s, first, upTo)
            /\ \A t \in plan.occurrences : t <= at + Window
            /\ Cardinality(plan.occurrences) = max \/ upTo >= at + Window

\* What the rule fires at, counted from `since`; a degenerate one never does.
FiresOf(n, since, upTo) ==
    IF n \in Degenerate THEN {} ELSE ReferenceFires(ScheduleOf[n], since, upTo)

\* No occurrence falls through: every instant the schedule fires at, from the
\* one the clock was last set to by hand up to the clock, has its task - over
\* aborted passes, downtime longer than a window, re-registrations, and a seed
\* that sets the clock back (materialize: "every due occurrence is recorded").
NothingSkipped ==
    \A n \in Names : Exists(n) =>
        LET upTo == IF job[n].clock = Null THEN MaxNow + Window ELSE job[n].clock - 1
        IN  \A t \in FiresOf(n, job[n].since, upTo) :
                \E k \in task : k.id = job[n].id /\ k.at = t

\* A task still waiting belongs to the definition its job has now: a redefined
\* rule's queued fires are withdrawn, and no pass that planned the old
\* definition records any after that (provision).
PendingIsCurrent ==
    \A k \in task : k.status = "pending" =>
        Exists(k.name) /\ job[k.name].id = k.id /\ job[k.name].def = k.def

\* A rule does not fire twice for one instant: registering it again, on this
\* main or another, keeps the id its occurrences are known by, and registering
\* it anew after a removal starts after what it fired (provision).  The code
\* does not close two exceptions: a removal while a registration is under way,
\* and a registration on a clock that is behind the one the rule fired on.
NoDoubleFire ==
    \A x, y \in ran :
        x.name = y.name /\ x.at = y.at /\ x.name \notin raced \cup behind => x.id = y.id

\* A job that is due is planned or put off, whatever the other jobs of its batch
\* do: one broken job does not wedge the rest (materialize), and jobs that are
\* claimed early with nothing to record yet do not crowd out the due ones, even
\* where the lookahead exceeds the window (createScheduler only warns of it).
EventuallyRecorded ==
    \A n \in Names :
        []<>~(Exists(n) /\ job[n].clock # Null /\ job[n].clock <= now)
=============================================================================
