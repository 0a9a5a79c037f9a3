------------------------------ MODULE PoolDial ------------------------------
(***************************************************************************)
(* Dialing through an upstream's pool of SSH connections                   *)
(* (internal/upstream/pool.go): the choice and reservation of a slot, the  *)
(* wait for capacity, the goroutine that opens the SSH channel racing the  *)
(* caller's context, the tracked connection, and what changes the pool     *)
(* meanwhile: scale-up, eviction, draining and its probe, maintenance.     *)
(*                                                                         *)
(* A dialer is a call of dial with its goroutine and the connection it     *)
(* returned; it dials again when all three are finished.  Counters are     *)
(* atomics: each update and each signal is a step of its own.  Reads that  *)
(* only decide whether to start a scale-up share a step.                   *)
(***************************************************************************)
EXTENDS Integers, FiniteSets, FiniteSetsExt

CONSTANTS
    Dialers,
    Conns, NoConn,      \* names of sshConns; one that is gone is used again
    MaxChannels,        \* maxChannelsPerConn
    MaxPool,            \* maxPoolSize
    ScaleParallelism,   \* scaleParallelism
    Headroom,           \* proactiveScaleHeadroom
    TimeoutLimit,       \* dialTimeoutsBeforeReconnect
    MaxDials,           \* bound: calls of dial
    MaxChanges          \* bound: connections evicted or added by maintenance

ASSUME ConstantsAssumption ==
    /\ Conns # {} /\ NoConn \notin Conns /\ IsFiniteSet(Conns) /\ IsFiniteSet(Dialers)
    /\ {MaxChannels, MaxPool, ScaleParallelism, TimeoutLimit} \subseteq Nat \ {0}
    /\ {Headroom, MaxDials, MaxChanges} \subseteq Nat

VARIABLES
    conns,              \* g.conns
    ssh,                \* activeChannels, inflightDials, draining, dialTimeoutCount
    connecting,         \* scale-up goroutines connecting
    announcing,         \* those that appended a connection and will signal
    maintain, changes,  \* maintenance changed the pool and will signal; changes left
    probe, probed,      \* goroutine of a forced reconnect, and its sshConn
    listening,          \* dialers with a waitCh that is not closed
    pc, go,             \* control points of dial and of its goroutine
    call,               \* their variables
    pending,            \* g.pendingAbandonedDials
    dials               \* calls of dial left

connVars == <<conns, ssh>>
scaleVars == <<connecting, announcing>>
upkeepVars == <<maintain, changes>>
probeVars == <<probe, probed>>
poolVars == <<connVars, scaleVars, upkeepVars, probeVars>>
vars == <<poolVars, listening, pc, go, call, pending, dials>>

NewSSH == [active |-> 0, inflight |-> 0, draining |-> FALSE, timeouts |-> 0]

\* sc; inflight as returned by the reservation; the result and whether its SSH
\* channel is open; whether the context is done; abandoned and cleanupDone.
NewCall == [sc |-> NoConn, got |-> 0, res |-> "none", open |-> FALSE,
            expired |-> FALSE, abandoned |-> FALSE, cleanup |-> FALSE]

ScaleInFlight == connecting + announcing

\* selectConnWithCapacity: the least active, then the least in flight.
Candidates ==
    LET able == {c \in conns : /\ ~ssh[c].draining
                               /\ ssh[c].active + ssh[c].inflight < MaxChannels}
        Lighter(c, e) == \/ ssh[c].active < ssh[e].active
                         \/ /\ ssh[c].active = ssh[e].active
                            /\ ssh[c].inflight < ssh[e].inflight
    IN  {c \in able : \A e \in able : ~Lighter(e, c)}

\* Names for a new sshConn: nothing is left of an earlier one.
Unused == {c \in Conns \ conns : probed # c /\ \A d \in Dialers : call[d].sc # c}

Init ==
    /\ \E c \in Conns : conns = {c}
    /\ ssh = [c \in Conns |-> NewSSH]
    /\ connecting = 0 /\ announcing = 0 /\ maintain = "idle" /\ changes = MaxChanges
    /\ probe = "none" /\ probed = NoConn /\ listening = {}
    /\ pc = [d \in Dialers |-> "idle"] /\ go = [d \in Dialers |-> "none"]
    /\ call = [d \in Dialers |-> NewCall]
    /\ pending = 0 /\ dials = MaxDials

-----------------------------------------------------------------------------
Goto(d, q) == pc' = [pc EXCEPT ![d] = q]
GoGoto(d, q) == go' = [go EXCEPT ![d] = q]
Set(d, field, v) == call' = [call EXCEPT ![d][field] = v]
Count(c, field, n) == ssh' = [ssh EXCEPT ![c][field] = @ + n]
AddInflight(c, n) == Count(c, "inflight", n)

\* signalCapacityChange closes the channel everybody who waits holds.
Signal == listening' = {}

\* dial returns; its goroutine may go on.
Return(d) ==
    /\ Goto(d, "idle")
    /\ call' = IF go[d] = "none" THEN [call EXCEPT ![d] = NewCall] ELSE call

\* removeConn: nothing if it is not in the pool any more.
RemoveConn(c) ==
    /\ conns' = conns \ {c}
    /\ IF c \in conns THEN Signal ELSE UNCHANGED listening

StartScale ==
    connecting' = IF /\ Cardinality(conns) + ScaleInFlight < MaxPool
                     /\ ScaleInFlight < ScaleParallelism
                  THEN connecting + 1 ELSE connecting

FreeSlots == Cardinality(conns) * MaxChannels
             - MapThenSumSet(LAMBDA c : ssh[c].active + ssh[c].inflight, conns)

(***************************************************************************)
(* dial: waitChannel, selectConnWithCapacity, and the reservation.         *)
(***************************************************************************)
Dial(d) ==
    /\ pc[d] = "idle" /\ go[d] = "none" /\ dials > 0
    /\ Goto(d, "loop") /\ dials' = dials - 1
    /\ UNCHANGED <<poolVars, listening, go, call, pending>>

WaitChannel(d) ==
    /\ pc[d] = "loop" /\ Goto(d, "select")
    /\ listening' = listening \cup {d}
    /\ UNCHANGED <<poolVars, go, call, pending, dials>>

Select(d) ==
    /\ pc[d] = "select"
    /\ \/ /\ \E c \in Candidates : Set(d, "sc", c)
          /\ Goto(d, "reserve") /\ listening' = listening \ {d}
       \/ Candidates = {} /\ Goto(d, "starved") /\ UNCHANGED <<call, listening>>
    /\ UNCHANGED <<poolVars, go, pending, dials>>

Reserve(d) ==
    LET c == call[d].sc IN
    /\ pc[d] = "reserve" /\ Goto(d, "recheck")
    /\ AddInflight(c, 1) /\ Set(d, "got", ssh[c].inflight + 1)
    /\ UNCHANGED <<conns, scaleVars, upkeepVars, probeVars, listening, go, pending, dials>>

OverLimit(d) == ssh[call[d].sc].active + call[d].got > MaxChannels

\* Mutant: the reservation is not given back.
RecheckKeeps(d) ==
    /\ pc[d] = "recheck"
    /\ Goto(d, IF OverLimit(d) THEN "loop" ELSE "headroom")
    /\ call' = [call EXCEPT ![d].got = 0, ![d].sc = IF OverLimit(d) THEN NoConn ELSE @]
    /\ UNCHANGED <<poolVars, listening, go, pending, dials>>

Recheck(d) ==
    /\ pc[d] = "recheck"
    /\ \/ /\ OverLimit(d) /\ Goto(d, "unreserved")
          /\ AddInflight(call[d].sc, -1)
          /\ call' = [call EXCEPT ![d].got = 0, ![d].sc = NoConn]
       \/ ~OverLimit(d) /\ Goto(d, "headroom") /\ Set(d, "got", 0) /\ UNCHANGED ssh
    /\ UNCHANGED <<conns, scaleVars, upkeepVars, probeVars, listening, go, pending, dials>>

\* The signal of releaseInflight, and the next attempt.
SignalUnreserved(d) ==
    /\ pc[d] = "unreserved" /\ Goto(d, "loop") /\ Signal
    /\ UNCHANGED <<poolVars, go, call, pending, dials>>

(***************************************************************************)
(* dial: no capacity.                                                      *)
(***************************************************************************)
Starved(d) ==
    /\ pc[d] = "starved"
    /\ \/ /\ conns = {} /\ Return(d) /\ listening' = listening \ {d}
          /\ UNCHANGED connecting
       \/ /\ conns # {} /\ Goto(d, "again") /\ UNCHANGED <<call, listening>>
          /\ IF Candidates = {} THEN StartScale ELSE UNCHANGED connecting
    /\ UNCHANGED <<connVars, announcing, upkeepVars, probeVars, go, pending, dials>>

SelectAgain(d) ==
    /\ pc[d] = "again"
    /\ \/ /\ Candidates = {} /\ conns # {} /\ Goto(d, "wait")
          /\ UNCHANGED <<call, listening>>
       \/ /\ Candidates # {} /\ Goto(d, "loop") /\ UNCHANGED <<call, listening>>
       \/ conns = {} /\ Return(d) /\ listening' = listening \ {d}
    /\ UNCHANGED <<poolVars, go, pending, dials>>

Wait(d) ==
    /\ pc[d] = "wait" /\ listening' = listening \ {d}
    /\ \/ d \notin listening /\ Goto(d, "loop") /\ UNCHANGED call
       \/ call[d].expired /\ Return(d)
    /\ UNCHANGED <<poolVars, go, pending, dials>>

\* The caller's context: canceled or past its deadline.
ContextEnds(d) ==
    /\ pc[d] \in {"wait", "dialing"} /\ ~call[d].expired
    /\ Set(d, "expired", TRUE)
    /\ UNCHANGED <<poolVars, listening, pc, go, pending, dials>>

(***************************************************************************)
(* dial: the goroutine that opens the SSH channel, and its caller.         *)
(***************************************************************************)
SpawnDial(d) ==
    /\ pc[d] = "headroom" /\ Goto(d, "dialing") /\ GoGoto(d, "dial")
    /\ IF FreeSlots > Headroom THEN UNCHANGED connecting ELSE StartScale
    /\ UNCHANGED <<connVars, announcing, upkeepVars, probeVars, listening, call, pending,
                   dials>>

ChannelOpens(d) == \E r \in {"ok", "refused", "broken"} :
    /\ go[d] = "dial" /\ GoGoto(d, "opened")
    /\ call' = [call EXCEPT ![d].res = r, ![d].open = (r = "ok")]
    /\ UNCHANGED <<poolVars, listening, pc, pending, dials>>

CheckAbandoned(d) ==
    /\ go[d] = "opened"
    /\ GoGoto(d, IF call[d].abandoned THEN "late" ELSE "offer")
    /\ UNCHANGED <<poolVars, listening, pc, call, pending, dials>>

\* Mutant: the goroutine releases the slot it hands over.
DeliverAndRelease(d) ==
    /\ go[d] = "offer" /\ pc[d] = "dialing"
    /\ GoGoto(d, "none") /\ Goto(d, "delivered")
    /\ AddInflight(call[d].sc, -1) /\ Signal
    /\ UNCHANGED <<conns, scaleVars, upkeepVars, probeVars, call, pending, dials>>

\* Both ends of resultCh, which is unbuffered.
Deliver(d) ==
    /\ go[d] = "offer" /\ pc[d] = "dialing"
    /\ GoGoto(d, "none") /\ Goto(d, "delivered")
    /\ UNCHANGED <<poolVars, listening, call, pending, dials>>

\* The goroutine sees the context end first.
GiveUpOffer(d) ==
    /\ go[d] = "offer" /\ call[d].expired
    /\ GoGoto(d, "late") /\ Set(d, "cleanup", TRUE)
    /\ UNCHANGED <<poolVars, listening, pc, pending, dials>>

\* Mutant: a channel that opened late is forgotten.
ForgetLate(d) ==
    /\ go[d] = "late" /\ GoGoto(d, "released")
    /\ AddInflight(call[d].sc, -1)
    /\ pending' = IF call[d].abandoned THEN pending - 1 ELSE pending
    /\ UNCHANGED <<conns, scaleVars, upkeepVars, probeVars, listening, pc, call, dials>>

\* A late result: close the channel, uncount the abandoned dial, free the slot.
\* Once cleanup is set abandoned no longer changes.
CloseLate(d) ==
    /\ go[d] = "late" /\ GoGoto(d, "released")
    /\ Set(d, "open", FALSE) /\ AddInflight(call[d].sc, -1)
    /\ pending' = IF call[d].abandoned THEN pending - 1 ELSE pending
    /\ UNCHANGED <<conns, scaleVars, upkeepVars, probeVars, listening, pc, dials>>

SignalLate(d) ==
    /\ go[d] = "released" /\ GoGoto(d, "none") /\ Signal
    /\ call' = IF pc[d] = "idle" THEN [call EXCEPT ![d] = NewCall] ELSE call
    /\ UNCHANGED <<poolVars, pc, pending, dials>>

\* A deadline is counted by recordDialTimeout, a cancel is not.
LeaveDial(d, marked) ==
    \/ Goto(d, "timedOut") /\ call' = marked
    \/ /\ Goto(d, "idle")
       /\ call' = IF go[d] = "none" THEN [call EXCEPT ![d] = NewCall] ELSE marked

\* Mutant: cleanupDone is not checked.
AbandonAlways(d) ==
    /\ pc[d] = "dialing" /\ call[d].expired
    /\ LeaveDial(d, [call EXCEPT ![d].abandoned = TRUE]) /\ pending' = pending + 1
    /\ UNCHANGED <<poolVars, listening, go, dials>>

\* The caller sees its context end.
Abandon(d) ==
    /\ pc[d] = "dialing" /\ call[d].expired
    /\ LeaveDial(d, [call EXCEPT ![d].abandoned = ~call[d].cleanup])
    /\ pending' = IF call[d].cleanup THEN pending ELSE pending + 1
    /\ UNCHANGED <<poolVars, listening, go, dials>>

\* recordDialTimeout: the count starts again when the window has passed.
RecordDialTimeout(d) ==
    LET c == call[d].sc IN
    /\ pc[d] = "timedOut"
    /\ \E n \in {1, Min({ssh[c].timeouts + 1, TimeoutLimit})} :
          /\ ssh' = [ssh EXCEPT ![c].timeouts = n]
          /\ IF n = TimeoutLimit THEN Goto(d, "force") /\ UNCHANGED call ELSE Return(d)
    /\ UNCHANGED <<conns, scaleVars, upkeepVars, probeVars, listening, go, pending, dials>>

(***************************************************************************)
(* maybeForceReconnect: nothing within the cooldown or while another one   *)
(* is in progress; otherwise the sshConn is drained, probed, and restored  *)
(* or evicted.                                                             *)
(***************************************************************************)
ForceReconnect(d) ==
    /\ pc[d] = "force" /\ Return(d)
    /\ \/ /\ probe = "none" /\ probe' = "probing" /\ probed' = call[d].sc
          /\ ssh' = [ssh EXCEPT ![call[d].sc].draining = TRUE] /\ Signal
       \/ UNCHANGED <<ssh, probeVars, listening>>
    /\ UNCHANGED <<conns, scaleVars, upkeepVars, go, pending, dials>>

ProbeFails ==
    /\ probe = "probing" /\ probe' = "none" /\ probed' = NoConn
    /\ RemoveConn(probed)
    /\ UNCHANGED <<ssh, scaleVars, upkeepVars, pc, go, call, pending, dials>>

\* Mutant: a restored connection is not announced.
RestoreSilently ==
    /\ probe = "probing" /\ probe' = "none" /\ probed' = NoConn
    /\ ssh' = [ssh EXCEPT ![probed].draining = FALSE, ![probed].timeouts = 0]
    /\ UNCHANGED <<conns, scaleVars, upkeepVars, listening, pc, go, call, pending, dials>>

ProbeSucceeds ==
    /\ probe = "probing" /\ probe' = "restored" /\ UNCHANGED probed
    /\ ssh' = [ssh EXCEPT ![probed].draining = FALSE, ![probed].timeouts = 0]
    /\ UNCHANGED <<conns, scaleVars, upkeepVars, listening, pc, go, call, pending, dials>>

SignalRestored ==
    /\ probe = "restored" /\ probe' = "none" /\ probed' = NoConn /\ Signal
    /\ UNCHANGED <<connVars, scaleVars, upkeepVars, pc, go, call, pending, dials>>

(***************************************************************************)
(* dial: the result, and trackedConn.                                      *)
(***************************************************************************)
ReleaseInflight(d) ==
    /\ pc[d] = "delivered" /\ Goto(d, "freed")
    /\ AddInflight(call[d].sc, -1)
    /\ UNCHANGED <<conns, scaleVars, upkeepVars, probeVars, listening, go, call, pending,
                   dials>>

SignalFreed(d) ==
    /\ pc[d] = "freed" /\ Goto(d, "outcome") /\ Signal
    /\ UNCHANGED <<poolVars, go, call, pending, dials>>

\* A transport error evicts the sshConn; any other error keeps it.
Outcome(d) ==
    LET c == call[d].sc IN
    /\ pc[d] = "outcome"
    /\ \/ /\ call[d].res = "ok" /\ Goto(d, "held") /\ Count(c, "active", 1)
          /\ UNCHANGED <<conns, call, listening>>
       \/ call[d].res = "refused" /\ Return(d) /\ UNCHANGED <<connVars, listening>>
       \/ call[d].res = "broken" /\ Return(d) /\ RemoveConn(c) /\ UNCHANGED ssh
    /\ UNCHANGED <<scaleVars, upkeepVars, probeVars, go, pending, dials>>

\* trackedConn.Close: the channel and the count, then the signal.
CloseConn(d) ==
    /\ pc[d] = "held" /\ Goto(d, "closed")
    /\ Set(d, "open", FALSE) /\ Count(call[d].sc, "active", -1)
    /\ UNCHANGED <<conns, scaleVars, upkeepVars, probeVars, listening, go, pending, dials>>

SignalClosed(d) ==
    /\ pc[d] = "closed" /\ Return(d) /\ Signal
    /\ UNCHANGED <<poolVars, go, pending, dials>>

(***************************************************************************)
(* The pool's background: scale-up and maintenance.                        *)
(***************************************************************************)
Append == \E c \in Unused :
    conns' = conns \cup {c} /\ ssh' = [ssh EXCEPT ![c] = NewSSH]

ScaleConnects ==
    /\ connecting > 0 /\ connecting' = connecting - 1
    /\ \/ Append /\ announcing' = announcing + 1
       \/ UNCHANGED <<connVars, announcing>>
    /\ UNCHANGED <<upkeepVars, probeVars, listening, pc, go, call, pending, dials>>

AnnounceScale ==
    /\ announcing > 0 /\ announcing' = announcing - 1 /\ Signal
    /\ UNCHANGED <<connVars, connecting, upkeepVars, probeVars, pc, go, call, pending,
                   dials>>

\* maintainOnce and the keepalives evict a dead sshConn, replenishOnce adds one.
Maintain ==
    /\ maintain = "idle" /\ maintain' = "changed"
    /\ changes > 0 /\ changes' = changes - 1
    /\ \/ \E c \in conns : conns' = conns \ {c} /\ UNCHANGED ssh
       \/ Append
    /\ UNCHANGED <<scaleVars, probeVars, listening, pc, go, call, pending, dials>>

SignalMaintained ==
    /\ maintain = "changed" /\ maintain' = "idle" /\ Signal
    /\ UNCHANGED <<connVars, scaleVars, changes, probeVars, pc, go, call, pending, dials>>

-----------------------------------------------------------------------------
CallerStep(d) ==
    \/ WaitChannel(d) \/ Select(d) \/ Reserve(d) \/ Recheck(d) \/ SignalUnreserved(d)
    \/ Starved(d) \/ SelectAgain(d) \/ Wait(d) \/ SpawnDial(d) \/ Deliver(d) \/ Abandon(d)
    \/ RecordDialTimeout(d) \/ ForceReconnect(d) \/ ReleaseInflight(d) \/ SignalFreed(d)
    \/ Outcome(d) \/ SignalClosed(d)
GoroutineStep(d) == CheckAbandoned(d) \/ GiveUpOffer(d) \/ CloseLate(d) \/ SignalLate(d)
ProbeStep == ProbeFails \/ ProbeSucceeds \/ SignalRestored
PoolStep == ScaleConnects \/ AnnounceScale \/ SignalMaintained

Next ==
    \/ \E d \in Dialers : \/ Dial(d) \/ CallerStep(d) \/ GoroutineStep(d)
                          \/ ContextEnds(d) \/ ChannelOpens(d) \/ CloseConn(d)
    \/ ProbeStep \/ PoolStep \/ Maintain

Spec == Init /\ [][Next]_vars

-----------------------------------------------------------------------------
CallerPoints == {"idle", "loop", "select", "reserve", "recheck", "unreserved", "starved",
                 "again", "wait", "headroom", "dialing", "timedOut", "force", "delivered",
                 "freed", "outcome", "held", "closed"}

\* Every variable keeps its type; no counter of an sshConn goes below zero
\* (pool.go:135-136).
TypeOK ==
    /\ conns \subseteq Conns
    /\ ssh \in [Conns -> [active : Nat, inflight : Nat, draining : BOOLEAN,
                          timeouts : 0..TimeoutLimit]]
    /\ connecting \in 0..ScaleParallelism /\ announcing \in 0..ScaleParallelism
    /\ maintain \in {"idle", "changed"} /\ changes \in 0..MaxChanges
    /\ probe \in {"none", "probing", "restored"} /\ probed \in Conns \cup {NoConn}
    /\ listening \subseteq Dialers /\ pc \in [Dialers -> CallerPoints]
    /\ go \in [Dialers -> {"none", "dial", "opened", "offer", "late", "released"}]
    /\ call \in [Dialers -> [sc : Conns \cup {NoConn}, got : Nat,
                             res : {"none", "ok", "refused", "broken"}, open : BOOLEAN,
                             expired : BOOLEAN, abandoned : BOOLEAN, cleanup : BOOLEAN]]
    /\ pending \in Nat /\ dials \in 0..MaxDials

Working(d) == go[d] \in {"dial", "opened", "offer", "late"}

\* Whatever races with it, a dial in progress holds exactly one slot of its
\* sshConn, until the SSH library's Dial returns, and a connection handed out
\* counts once: no slot is leaked or given back twice (pool.go:994-996).
SlotsAccounted == \A c \in Conns :
    LET on(S) == Cardinality({d \in S : call[d].sc = c})
    IN  /\ ssh[c].inflight = on({d \in Dialers : pc[d] \in {"recheck", "headroom", "delivered"}
                                                 \/ Working(d)})
        /\ ssh[c].active = on({d \in Dialers : pc[d] = "held"})

\* pendingAbandonedDials counts the dials whose caller left and whose goroutine
\* has not cleaned up, whichever of them saw the context end first
\* (pool.go:1063-1128).
PendingExact == pending = Cardinality({d \in Dialers : call[d].abandoned /\ Working(d)})

\* An SSH channel that opened is on its way to the caller, held by it, or about
\* to be closed: none is left behind by a caller that gave up (pool.go:1079-1115).
ChannelsOwned == \A d \in Dialers : call[d].open =>
    go[d] \in {"opened", "offer", "late"} \/ pc[d] \in {"delivered", "freed", "outcome", "held"}

\* A dial blocked on a channel nobody closed while there is capacity, or no
\* connection left, has a signal coming: no wakeup is lost (pool.go:1003-1044).
WakeupComing == \A d \in Dialers :
    pc[d] = "wait" /\ d \in listening /\ (Candidates # {} \/ conns = {}) =>
        \/ \E e \in Dialers : pc[e] \in {"unreserved", "freed", "closed"} \/ go[e] = "released"
        \/ probe = "restored" \/ announcing > 0 \/ maintain = "changed"
=============================================================================
