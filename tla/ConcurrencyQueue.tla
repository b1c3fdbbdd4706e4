--------------------------- MODULE ConcurrencyQueue ---------------------------
(***************************************************************************)
(* The queue that limits how many production executions run at once in a   *)
(* main in regular mode: a counter that goes below zero as executions      *)
(* wait, and the line of those that wait.                                  *)
(*                                                                         *)
(* A call of ActiveExecutions.add is a call here.  A waiting call is woken *)
(* by resolving its promise; from then on its reservation is held, until   *)
(* somebody releases it.                                                   *)
(***************************************************************************)
EXTENDS Integers, FiniteSets, SequencesExt

CONSTANTS
    Calls,    \* calls of ActiveExecutions.add a behaviour may make
    Limit     \* N8N_CONCURRENCY_PRODUCTION_LIMIT

ASSUME LimitAssumption ==
    /\ Limit \in Nat \ {0}    \* 0 is refused at startup
    /\ IsFiniteSet(Calls)

VARIABLES
    capacity,   \* slots left, minus the calls that wait
    queue,      \* the calls that wait, longest first
    isEnabled,  \* until disable() at shutdown
    held        \* the calls with a reservation (acquiredReservation)

queueVars == <<capacity, queue, isEnabled, held>>

QueueTypeOK ==
    /\ capacity \in Int /\ capacity <= Limit
    /\ queue \in Seq(Calls)
    /\ isEnabled \in BOOLEAN
    /\ held \subseteq Calls

QueueInit ==
    /\ capacity = Limit
    /\ queue = <<>>
    /\ isEnabled = TRUE
    /\ held = {}

Line == {queue[i] : i \in DOMAIN queue}

-----------------------------------------------------------------------------
\* A bug to detect: the counter is looked at before it is lowered.
enqueueLate(c) ==
    /\ IF isEnabled
       THEN /\ capacity' = capacity - 1
            /\ IF capacity < 0
               THEN queue' = Append(queue, c) /\ UNCHANGED held
               ELSE UNCHANGED queue /\ held' = held \cup {c}
       ELSE UNCHANGED <<capacity, queue>> /\ held' = held \cup {c}
    /\ UNCHANGED isEnabled

\* throttle and enqueue.  A disabled queue lets everything through.
enqueue(c) ==
    /\ IF isEnabled
       THEN /\ capacity' = capacity - 1
            /\ IF capacity' < 0
               THEN queue' = Append(queue, c) /\ UNCHANGED held
               ELSE UNCHANGED queue /\ held' = held \cup {c}
       ELSE UNCHANGED <<capacity, queue>> /\ held' = held \cup {c}
    /\ UNCHANGED isEnabled

\* resolveNext on the line q, with the reservations h.
resolveNext(q, h) ==
    IF q = <<>>
    THEN queue' = q /\ held' = h
    ELSE queue' = Tail(q) /\ held' = h \cup {Head(q)}

\* A bug to detect: the slot is given back, and nobody is woken.
dequeueSilently(c) ==
    /\ held' = held \ {c}
    /\ capacity' = IF c \in held /\ isEnabled THEN capacity + 1 ELSE capacity
    /\ UNCHANGED <<queue, isEnabled>>

\* A bug to detect: a reservation is not forgotten as it is released.
dequeueAgain(c) ==
    /\ IF isEnabled
       THEN capacity' = capacity + 1 /\ resolveNext(queue, held \ {c})
       ELSE UNCHANGED <<capacity, queue>> /\ held' = held \ {c}
    /\ UNCHANGED isEnabled

\* A bug to detect: the call that came last is woken.
dequeueLast(c) ==
    /\ IF c \in held /\ isEnabled
       THEN /\ capacity' = capacity + 1
            /\ IF queue = <<>>
               THEN UNCHANGED queue /\ held' = held \ {c}
               ELSE /\ queue' = SubSeq(queue, 1, Len(queue) - 1)
                    /\ held' = (held \ {c}) \cup {queue[Len(queue)]}
       ELSE UNCHANGED <<capacity, queue>> /\ held' = held \ {c}
    /\ UNCHANGED isEnabled

\* release and dequeue: c gives its slot back, if it has one.
dequeue(c) ==
    /\ IF c \in held /\ isEnabled
       THEN capacity' = capacity + 1 /\ resolveNext(queue, held \ {c})
       ELSE UNCHANGED <<capacity, queue>> /\ held' = held \ {c}
    /\ UNCHANGED isEnabled

\* remove: the call at position i leaves the line, and the next one is woken
\* although no slot has become free.
remove(i) ==
    /\ capacity' = capacity + 1
    /\ resolveNext(RemoveAt(queue, i), held)
    /\ UNCHANGED isEnabled

\* No capacity is given back from here on.
disable == /\ isEnabled' = FALSE
           /\ UNCHANGED <<capacity, queue, held>>
=============================================================================
