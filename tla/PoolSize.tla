------------------------------ MODULE PoolSize ------------------------------
(***************************************************************************)
(* The size of an upstream's pool of SSH connections                       *)
(* (internal/upstream/pool.go): the first connections, the maintenance     *)
(* loop that removes dead ones and replenishes, scale-up by dials, the     *)
(* failover between instances, and Close.                                  *)
(*                                                                         *)
(* Each critical section is a step; what it read may be stale at the next. *)
(* Time is an event: a tick, a backoff that ends, a tick so late that the  *)
(* system must have slept.  As ticks come at any time, notifyMaintain,     *)
(* which only asks for the next, is left out; the signals to waiting dials *)
(* are in PoolDial.                                                        *)
(***************************************************************************)
EXTENDS Integers, FiniteSets

CONSTANTS
    Conns, NoConn,         \* names of sshConns; one that is gone is used again
    Workers,               \* names of goroutines that connect
    Instances,             \* len(g.instances)
    DeadInstances,         \* instances on which every attempt fails
    Target,                \* defaultPoolSize
    MaxPool,               \* maxPoolSize
    ScaleParallelism,      \* scaleParallelism
    ReplenishParallelism,  \* replenishParallelism
    MaxFailures,           \* bound: attempts that fail on an instance that is not dead
    MaxDeaths,             \* bound: connections that die or are evicted by a dial
    MaxWakes,              \* bound: system sleeps detected
    MaxScales              \* bound: scale-ups started

ASSUME NameAssumption ==
    NoConn \notin Conns /\ IsFiniteSet(Conns) /\ IsFiniteSet(Workers)
ASSUME SizeAssumption ==
    /\ {Instances, Target, MaxPool, ScaleParallelism, ReplenishParallelism} \subseteq Nat \ {0}
    /\ DeadInstances \subseteq 0..(Instances - 1)
    /\ Target - 1 + ScaleParallelism <= MaxPool
    /\ Target <= Cardinality(Conns)
ASSUME BoundAssumption ==
    MaxFailures \in Nat /\ MaxDeaths \in Nat /\ MaxWakes \in Nat /\ MaxScales \in Nat

VARIABLES
    phase, tried,     \* Connect, then the life of the group; instances tried by connect
    conns,            \* g.conns
    up,               \* connections that are open, in the pool or not
    maint,            \* control point of the maintenance loop
    batch,            \* the connections it probes, then those it closes
    count,            \* the pool's size it saw, then the attempts it starts
    inFlight,         \* g.replenishInFlight
    backoff,          \* g.replenishNextAttempt is in the future
    advanced,         \* g.replenishRoundAdvanced
    current,          \* g.current
    scaleInFlight,    \* g.scaleInFlight
    scaling,          \* a dial is in startScale, past its checks, with scaleMu
    worker,           \* the goroutines of replenishOnce and startScale
    failures, deaths, wakes, scales  \* what is left of the bounds

lifeVars == <<phase, tried>>
poolVars == <<conns, up>>
maintVars == <<maint, batch, count>>
replenishVars == <<inFlight, backoff>>
instanceVars == <<advanced, current>>
scaleVars == <<scaleInFlight, scaling>>
boundVars == <<failures, deaths, wakes, scales>>
vars == <<lifeVars, poolVars, maintVars, replenishVars, instanceVars, scaleVars,
          worker, boundVars>>

Idle == [kind |-> "none", step |-> "idle", conn |-> NoConn, instance |-> 0]
Attempt(kind) == [kind |-> kind, step |-> "session", conn |-> NoConn, instance |-> current]

Running(kind) == {w \in Workers : worker[w].kind = kind}
Open == phase = "open"
Dialing == phase \in {"open", "canceled", "cleaned", "closed"}

\* Names for a new sshConn: nothing is left of an earlier one.
Unused == {c \in Conns : /\ c \notin conns \cup up \cup batch
                         /\ \A w \in Workers : worker[w].conn # c}

Init ==
    /\ phase = "connecting" /\ tried = 0
    /\ conns = {} /\ up = {}
    /\ maint = "none" /\ batch = {} /\ count = 0
    /\ inFlight = 0 /\ backoff = FALSE
    /\ advanced = FALSE /\ current = 0
    /\ scaleInFlight = 0 /\ scaling = FALSE
    /\ worker = [w \in Workers |-> Idle]
    /\ failures = MaxFailures /\ deaths = MaxDeaths
    /\ wakes = MaxWakes /\ scales = MaxScales

\* n of S; which of the names are taken makes no difference.
Some(n, S) == CHOOSE T \in SUBSET S : Cardinality(T) = n

AdvanceInstance == current' = (current + 1) % Instances

-----------------------------------------------------------------------------
(***************************************************************************)
(* Connect: an instance after the other until one gives a connection, then *)
(* the wait for the other groups, one of which may have failed.            *)
(***************************************************************************)
ConnectPool ==
    /\ phase = "connecting" /\ tried < Instances
    /\ current \notin DeadInstances
    /\ \E n \in 1..Target :
          /\ conns' = Some(n, Conns) /\ up' = conns'
    /\ phase' = "connected"
    /\ UNCHANGED <<tried, maintVars, replenishVars, instanceVars, scaleVars, worker,
                   boundVars>>

InstanceFails ==
    /\ phase = "connecting" /\ tried < Instances
    /\ \/ current \in DeadInstances /\ UNCHANGED failures
       \/ current \notin DeadInstances /\ failures > 0 /\ failures' = failures - 1
    /\ tried' = tried + 1 /\ AdvanceInstance
    /\ UNCHANGED <<phase, poolVars, maintVars, replenishVars, advanced, scaleVars, worker,
                   deaths, wakes, scales>>

AllInstancesFailed ==
    /\ phase = "connecting" /\ tried = Instances /\ phase' = "failed"
    /\ UNCHANGED <<tried, poolVars, maintVars, replenishVars, instanceVars, scaleVars,
                   worker, boundVars>>

\* The first maintainOnce has just set the time it would compare with.
Connected ==
    /\ phase = "connected" /\ phase' = "open" /\ maint' = "sweep"
    /\ UNCHANGED <<tried, poolVars, batch, count, replenishVars, instanceVars, scaleVars,
                   worker, boundVars>>

\* cleanup: close what is in the pool.
Cleanup == conns' = {} /\ up' = up \ conns

OtherGroupFailed ==
    /\ phase = "connected" /\ phase' = "failed" /\ Cleanup
    /\ UNCHANGED <<tried, maintVars, replenishVars, instanceVars, scaleVars, worker,
                   boundVars>>

(***************************************************************************)
(* Connections end: the adapter or a keepalive closes one, which stays in  *)
(* the pool, or a dial evicts it (removeConn).                             *)
(***************************************************************************)
ConnDies == \E c \in conns \cap up :
    /\ deaths > 0 /\ deaths' = deaths - 1
    /\ up' = up \ {c}
    /\ UNCHANGED <<lifeVars, conns, maintVars, replenishVars, instanceVars, scaleVars,
                   worker, failures, wakes, scales>>

RemoveConn == \E c \in conns :
    /\ Dialing /\ deaths > 0 /\ deaths' = deaths - 1
    /\ conns' = conns \ {c} /\ up' = up \ {c}
    /\ UNCHANGED <<lifeVars, maintVars, replenishVars, instanceVars, scaleVars, worker,
                   failures, wakes, scales>>

(***************************************************************************)
(* maintain and maintainOnce                                               *)
(***************************************************************************)
\* A tick in time.
MaintainTick ==
    /\ maint = "wait" /\ maint' = "sweep"
    /\ UNCHANGED <<lifeVars, poolVars, batch, count, replenishVars, instanceVars,
                   scaleVars, worker, boundVars>>

\* A late one: resetReplenishBackoff, and the connections to probe.
DetectWake ==
    /\ maint = "wait" /\ wakes > 0 /\ wakes' = wakes - 1
    /\ inFlight' = 0 /\ backoff' = FALSE
    /\ batch' = conns /\ maint' = "probing"
    /\ UNCHANGED <<lifeVars, poolVars, count, instanceVars, scaleVars, worker,
                   failures, deaths, scales>>

MaintainEnds ==
    /\ maint = "wait" /\ phase \in {"canceled", "cleaned"} /\ maint' = "done"
    /\ UNCHANGED <<lifeVars, poolVars, batch, count, replenishVars, instanceVars,
                   scaleVars, worker, boundVars>>

\* Mutant: the pool becomes what answered of the connections probed.
KeepAnswered == \E failed \in SUBSET batch :
    /\ maint = "probing" /\ maint' = "close"
    /\ conns' = batch \ failed /\ batch' = conns \cap failed
    /\ UNCHANGED <<lifeVars, up, count, replenishVars, instanceVars, scaleVars,
                   worker, boundVars>>

\* Any of the probes may fail, and recent inbound traffic excuses any.
EvictFailed == \E failed \in SUBSET batch :
    /\ maint = "probing" /\ maint' = "close"
    /\ conns' = conns \ failed /\ batch' = conns \cap failed
    /\ UNCHANGED <<lifeVars, up, count, replenishVars, instanceVars, scaleVars,
                   worker, boundVars>>

CloseFailed ==
    /\ maint = "close" /\ maint' = "sweep"
    /\ up' = up \ batch /\ batch' = {}
    /\ UNCHANGED <<lifeVars, conns, count, replenishVars, instanceVars, scaleVars,
                   worker, boundVars>>

\* Remove what is dead, and count what is left.
Sweep ==
    /\ maint = "sweep" /\ conns' = conns \cap up
    /\ \/ Cardinality(conns') < Target /\ maint' = "reserve" /\ count' = Cardinality(conns')
       \/ Cardinality(conns') >= Target /\ maint' = "wait" /\ UNCHANGED count
    /\ UNCHANGED <<lifeVars, up, batch, replenishVars, instanceVars, scaleVars,
                   worker, boundVars>>

\* Mutant: attempts of earlier rounds are not counted.
AvailableAnew == ReplenishParallelism

Available == ReplenishParallelism - inFlight

\* reserveReplenish
Reserve ==
    /\ maint = "reserve"
    /\ \/ /\ ~backoff /\ Available > 0 /\ maint' = "round"
          /\ count' = IF Target - count > Available THEN Available ELSE Target - count
          /\ inFlight' = inFlight + count'
       \/ (backoff \/ Available <= 0) /\ maint' = "wait" /\ count' = 0 /\ UNCHANGED inFlight
    /\ UNCHANGED <<lifeVars, poolVars, batch, backoff, instanceVars, scaleVars, worker,
                   boundVars>>

\* Mutant: a new round does not rotate again.
NewRoundRotated ==
    /\ maint = "round" /\ maint' = "spawn"
    /\ UNCHANGED <<lifeVars, poolVars, batch, count, replenishVars, instanceVars, scaleVars,
                   worker, boundVars>>

NewRound ==
    /\ maint = "round" /\ maint' = "spawn" /\ advanced' = FALSE
    /\ UNCHANGED <<lifeVars, poolVars, batch, count, replenishVars, current, scaleVars,
                   worker, boundVars>>

Spawn(kind, n) ==
    /\ Cardinality(Running("none")) >= n
    /\ worker' = [w \in Workers |-> IF w \in Some(n, Running("none")) THEN Attempt(kind) ELSE worker[w]]

\* The attempts of a round go to one instance.
SpawnReplenish ==
    /\ maint = "spawn" /\ maint' = "wait" /\ count' = 0
    /\ Spawn("replenish", count)
    /\ UNCHANGED <<lifeVars, poolVars, batch, replenishVars, instanceVars, scaleVars,
                   boundVars>>

BackoffEnds ==
    /\ backoff /\ backoff' = FALSE
    /\ UNCHANGED <<lifeVars, poolVars, maintVars, inFlight, instanceVars, scaleVars,
                   worker, boundVars>>

(***************************************************************************)
(* startScale, called by a dial, which may be past its checks when Close   *)
(* is called.  The pool's size is read before the attempt is counted.      *)
(***************************************************************************)
StartScale ==
    /\ Dialing /\ ~scaling /\ scales > 0
    /\ Cardinality(conns) + scaleInFlight < MaxPool /\ scaleInFlight < ScaleParallelism
    /\ scaling' = TRUE /\ scales' = scales - 1
    /\ UNCHANGED <<lifeVars, poolVars, maintVars, replenishVars, instanceVars,
                   scaleInFlight, worker, failures, deaths, wakes>>

SpawnScale ==
    /\ scaling /\ scaling' = FALSE
    /\ scaleInFlight' = scaleInFlight + 1 /\ Spawn("scale", 1)
    /\ UNCHANGED <<lifeVars, poolVars, maintVars, replenishVars, instanceVars, boundVars>>

(***************************************************************************)
(* The goroutines.  connectSingle: the session, the WebSocket and its      *)
(* handshake end with the context, the SSH handshake does not; a failure   *)
(* closes what was opened.                                                 *)
(***************************************************************************)
At(w, step) == worker[w].step = step
Goto(w, step) == worker' = [worker EXCEPT ![w].step = step]

SessionReady(w) ==
    /\ At(w, "session") /\ Open /\ worker[w].instance \notin DeadInstances
    /\ Goto(w, "ssh")
    /\ UNCHANGED <<lifeVars, poolVars, maintVars, replenishVars, instanceVars, scaleVars,
                   boundVars>>

SSHReady(w) ==
    /\ At(w, "ssh") /\ Unused # {}
    /\ LET c == CHOOSE c \in Unused : TRUE IN
       /\ up' = up \cup {c}
       /\ worker' = [worker EXCEPT ![w].step = "connected", ![w].conn = c]
    /\ UNCHANGED <<lifeVars, conns, maintVars, replenishVars, instanceVars, scaleVars,
                   boundVars>>

\* Mutant: connecting does not heed the end of the group.
ConnectFailsOpen(w) ==
    /\ At(w, "session") \/ At(w, "ssh")
    /\ \/ worker[w].instance \in DeadInstances /\ UNCHANGED failures
       \/ Open /\ failures > 0 /\ failures' = failures - 1
    /\ \/ worker[w].kind = "replenish" /\ Goto(w, "rotate") /\ backoff' = TRUE
       \/ worker[w].kind = "scale" /\ Goto(w, "finish") /\ UNCHANGED backoff
    /\ UNCHANGED <<lifeVars, poolVars, maintVars, inFlight, instanceVars, scaleVars,
                   deaths, wakes, scales>>

\* For a replenishment recordReplenishFailure starts the backoff.
ConnectFails(w) ==
    /\ At(w, "session") \/ At(w, "ssh")
    /\ \/ (~Open \/ worker[w].instance \in DeadInstances) /\ UNCHANGED failures
       \/ Open /\ failures > 0 /\ failures' = failures - 1
    /\ \/ worker[w].kind = "replenish" /\ Goto(w, "rotate") /\ backoff' = TRUE
       \/ worker[w].kind = "scale" /\ Goto(w, "finish") /\ UNCHANGED backoff
    /\ UNCHANGED <<lifeVars, poolVars, maintVars, inFlight, instanceVars, scaleVars,
                   deaths, wakes, scales>>

\* Of the attempts that fail, the first to set the flag takes the next instance.
Rotate(w) ==
    /\ At(w, "rotate") /\ Goto(w, "finish")
    /\ \/ Instances > 1 /\ ~advanced /\ advanced' = TRUE /\ AdvanceInstance
       \/ (Instances = 1 \/ advanced) /\ UNCHANGED instanceVars
    /\ UNCHANGED <<lifeVars, poolVars, maintVars, replenishVars, scaleVars, boundVars>>

AppendConn(w) ==
    /\ At(w, "connected") /\ conns' = conns \cup {worker[w].conn}
    /\ worker' = [worker EXCEPT ![w].conn = NoConn,
                      ![w].step = IF worker[w].kind = "replenish"
                                  THEN "record" ELSE "finish"]
    /\ UNCHANGED <<lifeVars, up, maintVars, replenishVars, instanceVars, scaleVars,
                   boundVars>>

RecordSuccess(w) ==
    /\ At(w, "record") /\ Goto(w, "finish") /\ backoff' = FALSE
    /\ UNCHANGED <<lifeVars, poolVars, maintVars, inFlight, instanceVars, scaleVars,
                   boundVars>>

EndWorker(w, kind) ==
    /\ At(w, "finish") /\ worker[w].kind = kind
    /\ worker' = [worker EXCEPT ![w] = Idle]
    /\ UNCHANGED <<lifeVars, poolVars, maintVars, backoff, instanceVars, scaling, boundVars>>

\* Mutant: the reset of a wake is not allowed for.
FinishUnguarded(w) ==
    EndWorker(w, "replenish") /\ inFlight' = inFlight - 1 /\ UNCHANGED scaleInFlight

\* Mutant: an attempt that failed keeps its place.
FinishSuccessful(w) ==
    /\ EndWorker(w, "replenish") /\ UNCHANGED scaleInFlight
    /\ inFlight' = IF inFlight > 0 /\ ~backoff THEN inFlight - 1 ELSE inFlight

FinishReplenish(w) ==
    /\ EndWorker(w, "replenish") /\ UNCHANGED scaleInFlight
    /\ inFlight' = IF inFlight > 0 THEN inFlight - 1 ELSE inFlight

FinishScale(w) ==
    /\ EndWorker(w, "scale") /\ UNCHANGED inFlight
    /\ ~scaling /\ scaleInFlight' = scaleInFlight - 1

(***************************************************************************)
(* Close: cancel, clean up, wait for the goroutines.                       *)
(***************************************************************************)
CallClose ==
    /\ Open /\ phase' = "canceled"
    /\ UNCHANGED <<tried, poolVars, maintVars, replenishVars, instanceVars, scaleVars,
                   worker, boundVars>>

CleanupPool ==
    /\ phase = "canceled" /\ phase' = "cleaned" /\ Cleanup
    /\ UNCHANGED <<tried, maintVars, replenishVars, instanceVars, scaleVars, worker,
                   boundVars>>

CloseReturns ==
    /\ phase = "cleaned" /\ maint = "done" /\ Running("none") = Workers
    /\ phase' = "closed"
    /\ UNCHANGED <<tried, poolVars, maintVars, replenishVars, instanceVars, scaleVars,
                   worker, boundVars>>

-----------------------------------------------------------------------------
ConnectStep == ConnectPool \/ InstanceFails \/ AllInstancesFailed \/ Connected
MaintainStep ==
    \/ MaintainTick \/ EvictFailed \/ CloseFailed \/ Sweep
    \/ Reserve \/ NewRound \/ SpawnReplenish
WorkerStep(w) ==
    \/ SessionReady(w) \/ SSHReady(w) \/ ConnectFails(w) \/ Rotate(w) \/ AppendConn(w)
    \/ RecordSuccess(w) \/ FinishReplenish(w) \/ FinishScale(w)
CloseStep == CleanupPool \/ CloseReturns

Next ==
    \/ ConnectStep \/ OtherGroupFailed \/ ConnDies \/ RemoveConn
    \/ MaintainStep \/ DetectWake \/ MaintainEnds \/ BackoffEnds
    \/ StartScale \/ SpawnScale \/ \E w \in Workers : WorkerStep(w)
    \/ CallClose \/ CloseStep

Spec == Init /\ [][Next]_vars

\* The ticker ticks, every step of an attempt has a timeout, a backoff ends;
\* select takes the closed context sooner or later although ticks go on.
Fairness ==
    /\ WF_vars(ConnectStep) /\ WF_vars(MaintainStep) /\ SF_vars(MaintainEnds)
    /\ WF_vars(BackoffEnds) /\ WF_vars(SpawnScale) /\ WF_vars(CloseStep)
    /\ \A w \in Workers : WF_vars(WorkerStep(w))

LiveSpec == Spec /\ Fairness

-----------------------------------------------------------------------------
\* Every variable keeps its type (pool.go:399-463); no count of attempts in
\* flight goes below zero.
TypeOK ==
    /\ phase \in {"connecting", "connected", "open", "canceled", "cleaned", "closed", "failed"}
    /\ tried \in 0..Instances
    /\ conns \subseteq Conns /\ up \subseteq Conns
    /\ maint \in {"none", "probing", "close", "sweep", "reserve", "round", "spawn",
                  "wait", "done"}
    /\ batch \subseteq Conns /\ count \in Nat
    /\ inFlight \in Nat /\ backoff \in BOOLEAN
    /\ advanced \in BOOLEAN /\ current \in 0..(Instances - 1)
    /\ scaleInFlight \in Nat /\ scaling \in BOOLEAN
    /\ worker \in [Workers -> [kind : {"none", "replenish", "scale"},
                     step : {"idle", "session", "ssh", "connected", "rotate", "record",
                             "finish"},
                     conn : Conns \cup {NoConn}, instance : 0..(Instances - 1)]]
    /\ failures \in 0..MaxFailures /\ deaths \in 0..MaxDeaths
    /\ wakes \in 0..MaxWakes /\ scales \in 0..MaxScales

\* Attempts a reservation was made for that have not started.
Reserved == IF maint \in {"round", "spawn"} THEN count ELSE 0
Attempts == Cardinality(Running("replenish")) + Reserved
MissedByWakes == ReplenishParallelism * (MaxWakes - wakes)

\* replenishInFlight never counts an attempt that is gone, so it cannot block
\* replenishment for good, and it misses at most replenishParallelism of them
\* for each system sleep (pool.go:1449-1455, 1489).
AttemptsCounted ==
    /\ inFlight <= Attempts
    /\ Attempts <= inFlight + MissedByWakes

\* The goroutines that still may add a connection to the pool.
Connecting == {w \in Workers : worker[w].step \in {"session", "ssh", "connected"}}
Size == Cardinality(conns) + Reserved + Cardinality(Connecting)

\* Scale-up does not see replenishment, and each acts on a count that may be
\* stale; still the pool outgrows maxPoolSize by no more than two rounds of
\* replenishment, and one more for each sleep (pool.go:927, 1646).
GrowthBounded == Size <= MaxPool + 2 * ReplenishParallelism + MissedByWakes

\* An open SSH connection is in the pool, in the hands of the goroutine that
\* will put it there, or about to be closed: none is lost while probes, dials,
\* attempts and Close change the pool (pool.go:1597-1611, 1524, 1699).
OpenIsPooled == \A c \in up :
    \/ c \in conns
    \/ maint = "close" /\ c \in batch
    \/ \E w \in Workers : worker[w].conn = c

\* Below its target the pool is filled again, whatever failed before and
\* although an instance is dead, as long as attempts do not overlap, which
\* makes the rotation between the instances uncertain (pool.go:1511-1520,
\* 1644-1673).
PoolRefills ==
    (Open /\ Cardinality(conns \cap up) < Target) ~>
        \/ ~Open \/ Cardinality(conns \cap up) >= Target
        \/ Cardinality(Running("replenish")) > 1

\* Close comes back: the goroutines it waits for all end (pool.go:1704-1708).
CloseEnds == (phase = "canceled") ~> (phase = "closed")
=============================================================================
