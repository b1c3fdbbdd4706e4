---------------------------- MODULE LeaderElection ----------------------------
(***************************************************************************)
(* Leadership among the mains of a multi-main setup: a key in Redis with a *)
(* time to live, which the leader renews and the others try to set.        *)
(*                                                                         *)
(* Each command is two steps, its effect in Redis and the handling of its  *)
(* reply, and either may be lost.  Redis is modelled from how              *)
(* LeaderElectionClient uses it.                                           *)
(***************************************************************************)
EXTENDS Naturals, FiniteSets

CONSTANTS
    Mains,
    Nobody,         \* the key is absent
    Gone,           \* the key names a process that no longer exists
    Ttl,            \* N8N_MULTI_MAIN_SETUP_KEY_TTL, in check intervals
    MaxFaults,      \* lost commands, lost replies and slow ticks
    MaxRestarts     \* shutdowns and crashes

ASSUME NamesAssumption == {Nobody, Gone} \cap Mains = {} /\ Nobody # Gone
ASSUME TtlAssumption == Ttl \in Nat /\ Ttl > 1    \* longer than a check interval
ASSUME FaultBoundsAssumption == {MaxFaults, MaxRestarts} \subseteq Nat

VARIABLES
    key, ttl,           \* in Redis: who leads, and for how long yet
    role,               \* instanceRole of each main
    command, reply,     \* per main, the command under way and what it returned
    timer,              \* per main, intervals until its next check
    lease,              \* per main, what is left of its last set or renewal
    cleared,            \* the mains whose key another main's shutdown deleted
    faults, restarts    \* so far, for the bounds

redis == <<key, ttl>>
bounds == <<faults, restarts>>
vars == <<redis, role, command, reply, timer, lease, cleared, bounds>>

\* leaving: shut down as a leader, its key not deleted yet
Roles == {"down", "unset", "follower", "leader", "leaving"}
\* clearFirst: a clear that a reclaim goes after; late: that reclaim
Commands == {"none", "init", "renew", "reclaim", "get", "claim", "clear", "clearFirst", "late"}
Replies == {"none", "ok", "mine", "other", "missing", "error"}

TypeOK ==
    /\ key \in Mains \cup {Nobody, Gone}
    /\ ttl \in 0..Ttl
    /\ (key = Nobody) = (ttl = 0)
    /\ role \in [Mains -> Roles]
    /\ command \in [Mains -> Commands]
    /\ reply \in [Mains -> Replies]
    /\ timer \in [Mains -> 0..1]
    /\ lease \in [Mains -> 0..Ttl]
    /\ cleared \subseteq Mains
    /\ faults \in 0..MaxFaults
    /\ restarts \in 0..MaxRestarts

Init ==
    /\ key = Nobody
    /\ ttl = 0
    /\ role = [m \in Mains |-> "down"]
    /\ command = [m \in Mains |-> "none"]
    /\ reply = [m \in Mains |-> "none"]
    /\ timer = [m \in Mains |-> 0]
    /\ lease = [m \in Mains |-> 0]
    /\ cleared = {}
    /\ faults = 0
    /\ restarts = 0

-----------------------------------------------------------------------------
Sends(m, c) == command' = [command EXCEPT ![m] = c]
Answers(m, r) == reply' = [reply EXCEPT ![m] = r]
MarkAs(m, r) == role' = [role EXCEPT ![m] = r]

Quiet(m) == command[m] = "none"
Up(m) == role[m] \in {"follower", "leader"}

\* init of the main; the check interval begins when it is done.
Start(m) ==
    /\ role[m] = "down"
    /\ MarkAs(m, "unset")
    /\ Sends(m, "init")
    /\ UNCHANGED <<redis, reply, timer, lease, cleared, bounds>>

\* checkLeader, unless the previous check is still in progress.
checkLeader(m) ==
    /\ Up(m) /\ timer[m] = 0
    /\ timer' = [timer EXCEPT ![m] = 1]
    /\ IF Quiet(m)
       THEN Sends(m, IF role[m] = "leader" THEN "renew" ELSE "get")
       ELSE UNCHANGED command
    /\ UNCHANGED <<redis, role, reply, lease, cleared, bounds>>

\* What each command does to the key.
Acquire(m) == /\ key' = m
              /\ ttl' = Ttl
              /\ lease' = [lease EXCEPT ![m] = Ttl]
              /\ cleared' = cleared \ {m}
              /\ Answers(m, "ok")

Refuse(m, r) == Answers(m, r) /\ UNCHANGED <<redis, lease, cleared>>

\* A bug to detect: SET NX leaves out the expiry.
setLeaderForGood(m) ==
    IF key = Nobody
    THEN /\ key' = m /\ Answers(m, "ok")
         /\ UNCHANGED <<ttl, lease, cleared>>
    ELSE Refuse(m, "other")

setLeaderIfNotExists(m) == IF key = Nobody THEN Acquire(m) ELSE Refuse(m, "other")

\* A bug to detect: the lifetime is extended whoever the key names.
renewAnyLeader(m) ==
    IF key = Nobody
    THEN Refuse(m, "missing")
    ELSE /\ ttl' = Ttl
         /\ lease' = [lease EXCEPT ![m] = Ttl]
         /\ Answers(m, "ok")
         /\ UNCHANGED <<key, cleared>>

tryRenewLeaderTtl(m) ==
    CASE key = m      -> Acquire(m)
      [] key = Nobody -> Refuse(m, "missing")
      [] OTHER        -> Refuse(m, "other")

getLeader(m) ==
    Refuse(m, CASE key = m -> "mine" [] key = Nobody -> "missing" [] OTHER -> "other")

\* Whoever the key names: the code has yet to guard this.
clearLeader(m) ==
    /\ key' = Nobody
    /\ ttl' = 0
    /\ cleared' = IF key \in Mains \ {m} THEN cleared \cup {key} ELSE cleared
    /\ Answers(m, "ok")
    /\ UNCHANGED lease

Effect(m) ==
    CASE command[m] \in {"init", "reclaim", "claim", "late"} -> setLeaderIfNotExists(m)
      [] command[m] = "renew" -> tryRenewLeaderTtl(m)
      [] command[m] = "get"   -> getLeader(m)
      [] command[m] \in {"clear", "clearFirst"} -> clearLeader(m)

Waits(m) == ~Quiet(m) /\ reply[m] = "none"

Execute(m) ==
    /\ Waits(m)
    /\ Effect(m)
    /\ UNCHANGED <<role, command, timer, bounds>>

\* The command never reaches Redis, or its reply is lost once it took effect.
LoseCommand(m) ==
    /\ Waits(m)
    /\ faults < MaxFaults
    /\ faults' = faults + 1
    /\ Answers(m, "error")
    /\ UNCHANGED <<redis, role, command, timer, lease, cleared, restarts>>

LoseReply(m) ==
    /\ ~Quiet(m) /\ reply[m] \notin {"none", "error"}
    /\ faults < MaxFaults
    /\ faults' = faults + 1
    /\ Answers(m, "error")
    /\ UNCHANGED <<redis, role, command, timer, lease, cleared, restarts>>

-----------------------------------------------------------------------------
\* The check is over, and m has the role r.
Settle(m, r) == MarkAs(m, r) /\ Sends(m, "none")

GoesOnTo(m, c) == Sends(m, c) /\ UNCHANGED role

HandleInit(m) ==
    /\ command[m] = "init"
    /\ Settle(m, IF reply[m] = "ok" THEN "leader" ELSE "follower")

\* A bug to detect: a leader that lost the key to another keeps leading.
stillLeaderAnyway(m) ==
    /\ command[m] = "renew"
    /\ IF reply[m] = "missing" THEN GoesOnTo(m, "reclaim") ELSE Settle(m, "leader")

\* checkAreWeStillLeader, up to the reply of the renewal; an error changes nothing.
HandleRenewal(m) ==
    /\ command[m] = "renew"
    /\ CASE reply[m] = "missing" -> GoesOnTo(m, "reclaim")
         [] reply[m] = "other"   -> Settle(m, "follower")
         [] OTHER                -> Settle(m, "leader")

HandleReclaim(m) ==
    /\ command[m] = "reclaim"
    /\ Settle(m, IF reply[m] = "ok" THEN "leader" ELSE "follower")

\* checkCanBecomeLeader: a main that finds its own name takes over.
HandleGet(m) ==
    /\ command[m] = "get"
    /\ CASE reply[m] = "missing" -> GoesOnTo(m, "claim")
         [] reply[m] = "mine"    -> Settle(m, "leader")
         [] OTHER                -> Settle(m, "follower")

HandleClaim(m) ==
    /\ command[m] = "claim"
    /\ Settle(m, IF reply[m] = "ok" THEN "leader" ELSE "follower")

Handle(m) ==
    /\ reply[m] # "none"
    /\ \/ HandleInit(m)
       \/ HandleRenewal(m)
       \/ HandleReclaim(m)
       \/ HandleGet(m)
       \/ HandleClaim(m)
    /\ Answers(m, "none")
    /\ timer' = [timer EXCEPT ![m] = IF command[m] = "init" THEN 1 ELSE @]
    /\ UNCHANGED <<redis, lease, cleared, bounds>>

-----------------------------------------------------------------------------
\* The process is gone.  Its next incarnation has the same name in a container,
\* where the name is that of the host, and a new one elsewhere.
Ends(m) ==
    /\ MarkAs(m, "down")
    /\ Sends(m, "none")
    /\ Answers(m, "none")
    /\ lease' = [lease EXCEPT ![m] = 0]
    /\ cleared' = cleared \ {m}
    /\ timer' = [timer EXCEPT ![m] = 0]
    /\ UNCHANGED ttl
    /\ key' \in {key, IF key = m THEN Gone ELSE key}

\* shutdown: no check is begun any more, and a leader deletes the key.  A renewal
\* under way is answered before the deletion, and if it found no key the check
\* goes on to its reclaim.
Shutdown(m) ==
    /\ Up(m)
    /\ restarts < MaxRestarts
    /\ restarts' = restarts + 1
    /\ IF role[m] = "leader"
       THEN /\ MarkAs(m, "leaving")
            /\ Sends(m, IF command[m] = "renew" /\ reply[m] = "missing"
                        THEN "clearFirst" ELSE "clear")
            /\ Answers(m, "none")
            /\ UNCHANGED <<redis, timer, lease, cleared>>
       ELSE Ends(m)
    /\ UNCHANGED faults

\* The reclaim of the last check reaches Redis behind the deletion.
ReclaimLate(m) ==
    /\ command[m] = "clearFirst" /\ reply[m] # "none"
    /\ Sends(m, "late")
    /\ Answers(m, "none")
    /\ UNCHANGED <<redis, role, timer, lease, cleared, bounds>>

\* Whether the key was deleted or not.
Leave(m) ==
    /\ role[m] = "leaving" /\ (reply[m] # "none" \/ command[m] = "late")
    /\ Ends(m)
    /\ UNCHANGED bounds

Crash(m) ==
    /\ role[m] # "down"
    /\ restarts < MaxRestarts
    /\ restarts' = restarts + 1
    /\ Ends(m)
    /\ UNCHANGED faults

\* A check interval goes by.  Commands are answered well within one, unless
\* Redis is slow, which counts as a fault.
Tick ==
    /\ \A m \in Mains : Up(m) => timer[m] > 0
    /\ IF \A m \in Mains : Quiet(m)
       THEN UNCHANGED faults
       ELSE faults < MaxFaults /\ faults' = faults + 1
    /\ timer' = [m \in Mains |-> 0]
    /\ lease' = [m \in Mains |-> IF lease[m] = 0 THEN 0 ELSE lease[m] - 1]
    /\ ttl' = IF ttl = 0 THEN 0 ELSE ttl - 1
    /\ key' = IF ttl <= 1 THEN Nobody ELSE key
    /\ UNCHANGED <<role, command, reply, cleared, restarts>>

Next ==
    \/ \E m \in Mains :
         \/ Start(m)
         \/ checkLeader(m)
         \/ Execute(m)
         \/ LoseCommand(m)
         \/ LoseReply(m)
         \/ Handle(m)
         \/ Shutdown(m)
         \/ ReclaimLate(m)
         \/ Leave(m)
         \/ Crash(m)
    \/ Tick

Spec == Init /\ [][Next]_vars

\* Mains are started and started again, check in every interval and get answers.
Fairness ==
    /\ WF_vars(Tick)
    /\ \A m \in Mains :
         WF_vars(Start(m) \/ checkLeader(m) \/ Execute(m) \/ Handle(m) \/ Leave(m))

FairSpec == Spec /\ Fairness

-----------------------------------------------------------------------------
\* A leader whose last set or renewal is younger than the time to live has the
\* key, so that two mains lead at once only where one is past it - whatever
\* commands and replies are lost or late.  A key deleted by another main's
\* shutdown is the exception the code names and leaves open.
FreshLeaderHoldsKey ==
    \A m \in Mains :
        role[m] = "leader" /\ lease[m] > 0 /\ m \notin cleared => key = m

\* Leadership settles on one main and stays there once Redis answers and mains
\* stay up: "eventually the system will recover once Redis is available again"
\* (checkAreWeStillLeader).
EventuallyOneLeader ==
    <>[](\E m \in Mains : key = m /\ {n \in Mains : role[n] = "leader"} = {m})
=============================================================================
