------------------------- MODULE LeaderElectionProofs -------------------------
(***************************************************************************)
(* Proofs about LeaderElection, for any number of mains, any time to live  *)
(* and any number of faults and restarts.                                  *)
(***************************************************************************)
EXTENDS LeaderElection, TLAPS

-----------------------------------------------------------------------------
(* The inductive invariant.                                                *)

\* A set or renewal that has not run out still stands in Redis, whatever the
\* main has heard of it, unless somebody's shutdown deleted the key.
LeaseIsBacked ==
    \A m \in Mains :
        lease[m] > 0 /\ m \notin cleared /\ role[m] # "leaving"
        => key = m /\ lease[m] <= ttl

\* A main on its way out deletes the key and may set it once more, and no other
\* main deletes it.
LeavingClears ==
    \A m \in Mains : command[m] \in {"clear", "clearFirst", "late"} <=> role[m] = "leaving"

LeaderInv == TypeOK /\ LeaseIsBacked /\ LeavingClears

\* What a main keeps for itself.
OwnTypes ==
    /\ role \in [Mains -> Roles]
    /\ command \in [Mains -> Commands]
    /\ reply \in [Mains -> Replies]
    /\ timer \in [Mains -> 0..1]
    /\ faults \in 0..MaxFaults
    /\ restarts \in 0..MaxRestarts

RedisTypes ==
    /\ key \in Mains \cup {Nobody, Gone}
    /\ ttl \in 0..Ttl
    /\ (key = Nobody) = (ttl = 0)
    /\ lease \in [Mains -> 0..Ttl]
    /\ cleared \subseteq Mains

LEMMA TypesSplit == TypeOK <=> OwnTypes /\ RedisTypes
BY DEF TypeOK, OwnTypes, RedisTypes

-----------------------------------------------------------------------------
(* What the commands do to the key.                                        *)

LEMMA AcquireKeeps ==
    ASSUME RedisTypes, LeaseIsBacked, NEW m \in Mains, Acquire(m), key \in {m, Nobody},
           role' = role
    PROVE  RedisTypes' /\ LeaseIsBacked'
<1>1. /\ key' = m /\ ttl' = Ttl /\ lease' = [lease EXCEPT ![m] = Ttl]
      /\ cleared' = cleared \ {m}
  BY DEF Acquire
<1>2. Ttl \in 0..Ttl /\ Ttl > 0 /\ m # Nobody /\ Ttl \in Nat
  BY TtlAssumption, NamesAssumption
<1>3. RedisTypes'
  BY <1>1, <1>2 DEF RedisTypes
<1>4. \A n \in Mains \ {m} : lease'[n] = lease[n] /\ (n \notin cleared' => n \notin cleared)
  BY <1>1 DEF RedisTypes
<1>5. \A n \in Mains \ {m} : lease[n] > 0 /\ role[n] # "leaving" => n \in cleared
  BY NamesAssumption DEF LeaseIsBacked
<1>6. lease'[m] = Ttl
  BY <1>1 DEF RedisTypes
<1>7. QED
  BY <1>1, <1>2, <1>3, <1>4, <1>5, <1>6 DEF LeaseIsBacked

LEMMA RedisUnchanged ==
    ASSUME RedisTypes, LeaseIsBacked, UNCHANGED <<redis, lease, cleared>>,
           \A m \in Mains : role[m] = "leaving" => role'[m] = "leaving"
    PROVE  RedisTypes' /\ LeaseIsBacked'
BY DEF RedisTypes, LeaseIsBacked, redis

LEMMA ClearKeeps ==
    ASSUME RedisTypes, LeaseIsBacked, NEW m \in Mains, clearLeader(m), role[m] = "leaving",
           role' = role
    PROVE  RedisTypes' /\ LeaseIsBacked'
<1>1. /\ key' = Nobody /\ ttl' = 0 /\ lease' = lease
      /\ cleared' = IF key \in Mains \ {m} THEN cleared \cup {key} ELSE cleared
  BY DEF clearLeader
<1>2. RedisTypes'
  BY <1>1, TtlAssumption DEF RedisTypes
<1>3. \A n \in Mains : lease[n] > 0 /\ role[n] # "leaving" => n \in cleared'
  BY <1>1 DEF LeaseIsBacked
<1>4. QED
  BY <1>1, <1>2, <1>3 DEF LeaseIsBacked

LEMMA ExecuteKeeps ==
    ASSUME LeaderInv, NEW m \in Mains, Execute(m)
    PROVE  LeaderInv'
<1>1. /\ OwnTypes /\ RedisTypes /\ LeaseIsBacked /\ LeavingClears
      /\ role' = role /\ command' = command /\ timer' = timer
      /\ faults' = faults /\ restarts' = restarts
  BY TypesSplit DEF LeaderInv, Execute, bounds
<1>2. /\ Effect(m)
      /\ command[m] \in Commands \ {"none"}
  BY <1>1 DEF Execute, Waits, Quiet, OwnTypes
<1>3. ASSUME NEW r \in Replies, Refuse(m, r) PROVE RedisTypes' /\ LeaseIsBacked' /\ reply' \in [Mains -> Replies]
  <2>1. UNCHANGED <<redis, lease, cleared>> /\ reply' \in [Mains -> Replies]
    BY <1>1, <1>3 DEF Refuse, Answers, OwnTypes
  <2>2. QED
    BY <1>1, <2>1, RedisUnchanged
<1>4. ASSUME Acquire(m), key \in {m, Nobody} PROVE RedisTypes' /\ LeaseIsBacked' /\ reply' \in [Mains -> Replies]
  <2>1. reply' \in [Mains -> Replies]
    BY <1>1, <1>4 DEF Acquire, Answers, OwnTypes, Replies
  <2>2. QED
    BY <1>1, <1>4, <2>1, AcquireKeeps
<1>5. {"other", "missing", "mine"} \subseteq Replies
  BY DEF Replies
<1>6. CASE command[m] \in {"init", "reclaim", "claim", "late"}
  <2>1. setLeaderIfNotExists(m)
    BY <1>2, <1>6 DEF Effect
  <2>2. QED
    BY <1>1, <1>3, <1>4, <1>5, <2>1 DEF setLeaderIfNotExists, LeaderInv, TypeOK, OwnTypes,
       RedisTypes, LeavingClears
<1>7. CASE command[m] = "renew"
  <2>1. tryRenewLeaderTtl(m)
    BY <1>2, <1>7 DEF Effect
  <2>2. \/ key = m /\ Acquire(m)
        \/ Refuse(m, "missing")
        \/ Refuse(m, "other")
    BY <2>1 DEF tryRenewLeaderTtl
  <2>3. QED
    BY <1>1, <1>3, <1>4, <1>5, <2>2 DEF LeaderInv, TypeOK, OwnTypes, RedisTypes, LeavingClears
<1>8. CASE command[m] = "get"
  <2>1. getLeader(m)
    BY <1>2, <1>8 DEF Effect
  <2>2. Refuse(m, "mine") \/ Refuse(m, "missing") \/ Refuse(m, "other")
    BY <2>1 DEF getLeader
  <2>3. QED
    BY <1>1, <1>3, <1>5, <2>2 DEF LeaderInv, TypeOK, OwnTypes, RedisTypes, LeavingClears
<1>9. CASE command[m] \in {"clear", "clearFirst"}
  <2>1. clearLeader(m) /\ role[m] = "leaving"
    BY <1>1, <1>2, <1>9 DEF Effect, LeavingClears
  <2>2. reply' \in [Mains -> Replies]
    BY <1>1, <2>1 DEF clearLeader, Answers, OwnTypes, Replies
  <2>3. RedisTypes' /\ LeaseIsBacked'
    BY <1>1, <2>1, ClearKeeps
  <2>4. QED
    BY <1>1, <2>2, <2>3 DEF LeaderInv, TypeOK, OwnTypes, RedisTypes, LeavingClears
<1>10. QED
  BY <1>2, <1>6, <1>7, <1>8, <1>9 DEF Commands

-----------------------------------------------------------------------------
(* The steps of a main.                                                    *)

\* A step that leaves Redis alone and moves the main between roles it has
\* while it is up.
LEMMA LocalKeeps ==
    ASSUME LeaderInv, UNCHANGED <<redis, lease, cleared>>, OwnTypes', LeavingClears',
           \A n \in Mains : role[n] = "leaving" => role'[n] = "leaving"
    PROVE  LeaderInv'
<1>1. RedisTypes' /\ LeaseIsBacked'
  BY RedisUnchanged, TypesSplit DEF LeaderInv
<1>2. TypeOK'
  BY <1>1 DEF TypeOK, OwnTypes, RedisTypes
<1>3. QED
  BY <1>1, <1>2 DEF LeaderInv

LEMMA CheckKeeps ==
    ASSUME LeaderInv, NEW m \in Mains, Start(m) \/ checkLeader(m)
    PROVE  LeaderInv'
<1>1. OwnTypes /\ LeavingClears
  BY TypesSplit DEF LeaderInv
<1>. USE DEF Roles, Commands, Replies
<1>2. CASE Start(m)
  <2>1. /\ role' = [role EXCEPT ![m] = "unset"] /\ command' = [command EXCEPT ![m] = "init"]
        /\ role[m] = "down" /\ reply' = reply /\ timer' = timer /\ bounds' = bounds
        /\ UNCHANGED <<redis, lease, cleared>>
    BY <1>2 DEF Start, MarkAs, Sends
  <2>2. OwnTypes'
    BY <1>1, <2>1 DEF OwnTypes, bounds
  <2>3. LeavingClears' /\ \A n \in Mains : role[n] = "leaving" => role'[n] = "leaving"
    BY <1>1, <2>1 DEF OwnTypes, LeavingClears
  <2>4. QED
    BY <2>1, <2>2, <2>3, LocalKeeps
<1>3. CASE checkLeader(m)
  <2>1. /\ timer' = [timer EXCEPT ![m] = 1] /\ role' = role /\ reply' = reply
        /\ bounds' = bounds /\ UNCHANGED <<redis, lease, cleared>> /\ role[m] # "leaving"
        /\ \/ command' = command
           \/ \E c \in {"renew", "get"} : command' = [command EXCEPT ![m] = c]
    BY <1>3 DEF checkLeader, Sends, Up
  <2>2. OwnTypes'
    BY <1>1, <2>1 DEF OwnTypes, bounds
  <2>3. LeavingClears'
    BY <1>1, <2>1 DEF OwnTypes, LeavingClears
  <2>4. QED
    BY <2>1, <2>2, <2>3, LocalKeeps
<1>4. QED
  BY <1>2, <1>3

LEMMA LossKeeps ==
    ASSUME LeaderInv, NEW m \in Mains, LoseCommand(m) \/ LoseReply(m)
    PROVE  LeaderInv'
<1>1. OwnTypes /\ LeavingClears
  BY TypesSplit DEF LeaderInv
<1>2. /\ role' = role /\ command' = command /\ timer' = timer /\ restarts' = restarts
      /\ faults < MaxFaults /\ faults' = faults + 1
      /\ reply' = [reply EXCEPT ![m] = "error"]
      /\ UNCHANGED <<redis, lease, cleared>>
  BY DEF LoseCommand, LoseReply, Answers
<1>3. OwnTypes'
  BY <1>1, <1>2, FaultBoundsAssumption DEF OwnTypes, Replies
<1>4. LeavingClears'
  BY <1>1, <1>2 DEF LeavingClears
<1>5. QED
  BY <1>2, <1>3, <1>4, LocalKeeps

LEMMA HandleKeeps ==
    ASSUME LeaderInv, NEW m \in Mains, Handle(m)
    PROVE  LeaderInv'
<1>1. OwnTypes /\ LeavingClears
  BY TypesSplit DEF LeaderInv
<1>. USE DEF Roles, Commands, Replies
<1>2. /\ reply' = [reply EXCEPT ![m] = "none"]
      /\ UNCHANGED <<redis, lease, cleared, bounds>>
      /\ timer' \in [Mains -> 0..1]
  BY <1>1 DEF Handle, Answers, OwnTypes
<1>3. /\ command[m] \in {"init", "renew", "reclaim", "get", "claim"}
      /\ role[m] # "leaving"
  BY <1>1 DEF Handle, HandleInit, HandleRenewal, HandleReclaim, HandleGet, HandleClaim,
              LeavingClears
<1>4. \/ \E r \in {"leader", "follower"} : Settle(m, r)
      \/ \E c \in {"reclaim", "claim"} : GoesOnTo(m, c)
  BY DEF Handle, HandleInit, HandleRenewal, HandleReclaim, HandleGet, HandleClaim
<1>5. CASE \E c \in {"reclaim", "claim"} : GoesOnTo(m, c)
  <2>1. PICK c \in {"reclaim", "claim"} : command' = [command EXCEPT ![m] = c] /\ role' = role
    BY <1>5 DEF GoesOnTo, Sends
  <2>2. OwnTypes' /\ LeavingClears'
    BY <1>1, <1>2, <1>3, <2>1 DEF OwnTypes, LeavingClears, bounds
  <2>3. QED
    BY <1>2, <2>1, <2>2, LocalKeeps
<1>6. CASE \E r \in {"leader", "follower"} : Settle(m, r)
  <2>1. PICK r \in {"leader", "follower"} :
          command' = [command EXCEPT ![m] = "none"] /\ role' = [role EXCEPT ![m] = r]
    BY <1>6 DEF Settle, MarkAs, Sends
  <2>2. OwnTypes' /\ LeavingClears'
    BY <1>1, <1>2, <1>3, <2>1 DEF OwnTypes, LeavingClears, bounds
  <2>3. \A n \in Mains : role[n] = "leaving" => role'[n] = "leaving"
    BY <1>1, <1>3, <2>1 DEF OwnTypes
  <2>4. QED
    BY <1>2, <2>2, <2>3, LocalKeeps
<1>7. QED
  BY <1>4, <1>5, <1>6

\* The process is gone, and the lease with it.
LEMMA EndsKeeps ==
    ASSUME LeaderInv, NEW m \in Mains, Ends(m), faults' = faults, restarts' \in 0..MaxRestarts
    PROVE  LeaderInv'
<1>1. OwnTypes /\ RedisTypes /\ LeaseIsBacked /\ LeavingClears
  BY TypesSplit DEF LeaderInv
<1>2. /\ role' = [role EXCEPT ![m] = "down"] /\ command' = [command EXCEPT ![m] = "none"]
      /\ reply' = [reply EXCEPT ![m] = "none"] /\ timer' = [timer EXCEPT ![m] = 0]
      /\ lease' = [lease EXCEPT ![m] = 0] /\ cleared' = cleared \ {m} /\ ttl' = ttl
      /\ key' = key \/ (key = m /\ key' = Gone)
  BY DEF Ends, MarkAs, Sends, Answers
<1>3. OwnTypes'
  BY <1>1, <1>2 DEF OwnTypes, Roles, Commands, Replies
<1>4. RedisTypes'
  BY <1>1, <1>2, NamesAssumption, TtlAssumption DEF RedisTypes
<1>5. LeaseIsBacked'
  BY <1>1, <1>2 DEF OwnTypes, RedisTypes, LeaseIsBacked
<1>6. LeavingClears'
  BY <1>1, <1>2 DEF OwnTypes, LeavingClears
<1>7. QED
  BY <1>3, <1>4, <1>5, <1>6 DEF LeaderInv, TypeOK, OwnTypes, RedisTypes

LEMMA ShutdownKeeps ==
    ASSUME LeaderInv, NEW m \in Mains, Shutdown(m)
    PROVE  LeaderInv'
<1>1. OwnTypes /\ LeavingClears
  BY TypesSplit DEF LeaderInv
<1>2. restarts' \in 0..MaxRestarts /\ faults' = faults
  BY <1>1, FaultBoundsAssumption DEF Shutdown, OwnTypes
<1>3. CASE role[m] = "leader"
  <2>1. /\ role' = [role EXCEPT ![m] = "leaving"]
        /\ \E c \in {"clear", "clearFirst"} : command' = [command EXCEPT ![m] = c]
        /\ reply' = [reply EXCEPT ![m] = "none"] /\ timer' = timer
        /\ UNCHANGED <<redis, lease, cleared>>
    BY <1>3 DEF Shutdown, MarkAs, Sends, Answers
  <2>2. OwnTypes' /\ LeavingClears'
    BY <1>1, <1>2, <2>1 DEF OwnTypes, LeavingClears, Roles, Commands, Replies
  <2>3. \A n \in Mains : role[n] = "leaving" => role'[n] = "leaving"
    BY <1>1, <2>1 DEF OwnTypes
  <2>4. QED
    BY <2>1, <2>2, <2>3, LocalKeeps
<1>4. CASE role[m] # "leader"
  BY <1>2, <1>4, EndsKeeps DEF Shutdown
<1>5. QED
  BY <1>3, <1>4

LEMMA LateKeeps ==
    ASSUME LeaderInv, NEW m \in Mains, ReclaimLate(m)
    PROVE  LeaderInv'
<1>1. OwnTypes /\ LeavingClears
  BY TypesSplit DEF LeaderInv
<1>2. /\ command[m] = "clearFirst" /\ command' = [command EXCEPT ![m] = "late"]
      /\ reply' = [reply EXCEPT ![m] = "none"]
      /\ UNCHANGED <<redis, role, timer, lease, cleared, bounds>>
  BY DEF ReclaimLate, Sends, Answers
<1>3. OwnTypes' /\ LeavingClears'
  BY <1>1, <1>2 DEF OwnTypes, LeavingClears, Commands, Replies, bounds
<1>4. QED
  BY <1>2, <1>3, LocalKeeps

\* The lease of a main runs down no slower than the key does.
LEMMA TickKeeps ==
    ASSUME LeaderInv, Tick
    PROVE  LeaderInv'
<1>1. OwnTypes /\ RedisTypes /\ LeaseIsBacked /\ LeavingClears
  BY TypesSplit DEF LeaderInv
<1>2. /\ timer' = [m \in Mains |-> 0]
      /\ lease' = [m \in Mains |-> IF lease[m] = 0 THEN 0 ELSE lease[m] - 1]
      /\ ttl' = IF ttl = 0 THEN 0 ELSE ttl - 1
      /\ key' = IF ttl <= 1 THEN Nobody ELSE key
      /\ UNCHANGED <<role, command, reply, cleared, restarts>>
  BY DEF Tick
<1>3. faults' \in 0..MaxFaults
  BY <1>1, FaultBoundsAssumption DEF Tick, OwnTypes
<1>4. OwnTypes' /\ LeavingClears'
  BY <1>1, <1>2, <1>3 DEF OwnTypes, LeavingClears
<1>5. RedisTypes'
  BY <1>1, <1>2, TtlAssumption, NamesAssumption DEF RedisTypes
<1>6. LeaseIsBacked'
  <2>1. SUFFICES ASSUME NEW m \in Mains, lease'[m] > 0, m \notin cleared, role[m] # "leaving"
                 PROVE  key' = m /\ lease'[m] <= ttl'
    BY <1>2 DEF LeaseIsBacked
  <2>2. lease[m] \in 0..Ttl /\ ttl \in 0..Ttl /\ Ttl \in Nat
    BY <1>1, TtlAssumption DEF RedisTypes
  <2>3. lease[m] > 0 /\ lease'[m] = lease[m] - 1
    BY <1>2, <2>1, <2>2
  <2>4. key = m /\ lease[m] <= ttl
    BY <1>1, <2>1, <2>3 DEF LeaseIsBacked
  <2>5. ttl > 1
    BY <2>1, <2>2, <2>3, <2>4
  <2>6. QED
    BY <1>2, <2>2, <2>3, <2>4, <2>5
<1>7. QED
  BY <1>4, <1>5, <1>6 DEF LeaderInv, TypeOK, OwnTypes, RedisTypes

-----------------------------------------------------------------------------
(* The theorems.                                                           *)

LEMMA InitLeaderInv == Init => LeaderInv
<1>. SUFFICES ASSUME Init PROVE LeaderInv
  OBVIOUS
<1>1. TypeOK
  BY TtlAssumption, FaultBoundsAssumption DEF Init, TypeOK, Roles, Commands, Replies
<1>2. LeaseIsBacked /\ LeavingClears
  BY DEF Init, LeaseIsBacked, LeavingClears
<1>3. QED
  BY <1>1, <1>2 DEF LeaderInv

LEMMA NextLeaderInv == LeaderInv /\ [Next]_vars => LeaderInv'
<1>. SUFFICES ASSUME LeaderInv, [Next]_vars PROVE LeaderInv'
  OBVIOUS
<1>1. ASSUME NEW m \in Mains, Start(m) \/ checkLeader(m) PROVE LeaderInv'
  BY <1>1, CheckKeeps
<1>2. ASSUME NEW m \in Mains, Execute(m) PROVE LeaderInv'
  BY <1>2, ExecuteKeeps
<1>3. ASSUME NEW m \in Mains, LoseCommand(m) \/ LoseReply(m) PROVE LeaderInv'
  BY <1>3, LossKeeps
<1>4. ASSUME NEW m \in Mains, Handle(m) PROVE LeaderInv'
  BY <1>4, HandleKeeps
<1>5. ASSUME NEW m \in Mains, Shutdown(m) PROVE LeaderInv'
  BY <1>5, ShutdownKeeps
<1>6. ASSUME NEW m \in Mains, Leave(m) \/ Crash(m) PROVE LeaderInv'
  <2>1. Ends(m) /\ faults' = faults /\ restarts' \in 0..MaxRestarts
    BY <1>6, FaultBoundsAssumption DEF Leave, Crash, bounds, LeaderInv, TypeOK
  <2>2. QED
    BY <2>1, EndsKeeps
<1>7. ASSUME NEW m \in Mains, ReclaimLate(m) PROVE LeaderInv'
  BY <1>7, LateKeeps
<1>8. CASE UNCHANGED vars
  BY <1>8 DEF vars, redis, bounds, LeaderInv, TypeOK, LeaseIsBacked, LeavingClears
<1>9. QED
  BY <1>1, <1>2, <1>3, <1>4, <1>5, <1>6, <1>7, <1>8, TickKeeps DEF Next

\* What a set or a renewal of the key leaves behind, at every moment: however
\* commands and replies are lost or late, the key stands for as long as the
\* main may count on it (setLeaderIfNotExists, tryRenewLeaderTtl).
THEOREM LeadershipInvariance == Spec => []LeaderInv
BY InitLeaderInv, NextLeaderInv, PTL DEF Spec

\* Every variable keeps its type; the key is absent exactly when its time to
\* live has run out.
THEOREM ElectionTypeCorrect == Spec => []TypeOK
<1>1. LeaderInv => TypeOK
  BY DEF LeaderInv
<1>2. QED
  BY <1>1, LeadershipInvariance, PTL

\* A leader within its time to live holds the key, unless another main's
\* shutdown deleted it (checkLeader, clearLeader).
THEOREM LeadersHoldTheKey == Spec => []FreshLeaderHoldsKey
<1>1. LeaderInv => FreshLeaderHoldsKey
  BY DEF LeaderInv, LeaseIsBacked, FreshLeaderHoldsKey
<1>2. QED
  BY <1>1, LeadershipInvariance, PTL

\* Two mains that both count on the key: leaders within their time to live that
\* no shutdown of another main has cut off (checkLeader, clearLeader).
OneFreshLeader ==
    \A m, n \in Mains :
        /\ role[m] = "leader" /\ lease[m] > 0 /\ m \notin cleared
        /\ role[n] = "leader" /\ lease[n] > 0 /\ n \notin cleared
        => m = n

\* Two mains lead at once only where one of them is past its time to live, or
\* has lost the key to another main's shutdown (checkLeader).
THEOREM OneLeaderAtATime == Spec => []OneFreshLeader
<1>1. FreshLeaderHoldsKey => OneFreshLeader
  BY DEF FreshLeaderHoldsKey, OneFreshLeader
<1>2. QED
  BY <1>1, LeadersHoldTheKey, PTL
===============================================================================
