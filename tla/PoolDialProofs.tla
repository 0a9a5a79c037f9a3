--------------------------- MODULE PoolDialProofs ---------------------------
(***************************************************************************)
(* Proofs about PoolDial for any number of dialers and sshConns, any       *)
(* limits, and any number of dials and changes of the pool.                *)
(***************************************************************************)
EXTENDS PoolDial, FiniteSetTheorems, NaturalsInduction, TLAPS

\* scaleInFlight is bounded as a whole: a goroutine that connected becomes one
\* that will signal.
ScaleBounded == ScaleInFlight <= ScaleParallelism

\* A dial has chosen its sshConn, and may still need it.
HasConn(d) ==
    \/ pc[d] \in {"reserve", "recheck", "headroom", "dialing", "timedOut", "force",
                  "delivered", "freed", "outcome", "held", "closed"}
    \/ go[d] # "none"

\* Where the goroutine of a dial can be while its caller is at some point, and
\* which of the two has seen the context end first.
CallShape(d) ==
    /\ go[d] # "none" => pc[d] \in {"dialing", "timedOut", "force", "idle"}
    /\ HasConn(d) => call[d].sc \in Conns
    /\ pc[d] = "idle" /\ go[d] = "none" => call[d] = NewCall
    /\ call[d].abandoned => pc[d] \in {"timedOut", "force", "idle"}
    /\ call[d].cleanup => /\ pc[d] \in {"dialing", "timedOut", "force", "idle"}
                          /\ go[d] \in {"late", "released", "none"}
    /\ pc[d] = "dialing" => go[d] \in {"dial", "opened", "offer"} \/ call[d].cleanup
CallsShaped == \A d \in Dialers : CallShape(d)

\* The inductive invariant.  The counters stay natural numbers only because
\* each slot has a holder; and who holds it takes the shape of the calls.
Typed == TypeOK /\ ScaleBounded /\ CallsShaped
IInv == Typed /\ SlotsAccounted /\ PendingExact /\ ChannelsOwned /\ WakeupComing

\* The dials that hold a slot of c, the connections handed out on it, and the
\* dials that are abandoned.
Holding(d) == pc[d] \in {"recheck", "headroom", "delivered"} \/ Working(d)
InflightOn(c) == {d \in Dialers : Holding(d) /\ call[d].sc = c}
ActiveOn(c) == {d \in Dialers : pc[d] = "held" /\ call[d].sc = c}
Abandoned == {d \in Dialers : call[d].abandoned /\ Working(d)}

\* The part of one dial in each of them, and in ChannelsOwned.
Bit(b) == IF b THEN 1 ELSE 0
Holds(d, c) == Bit(Holding(d) /\ call[d].sc = c)
Uses(d, c) == Bit(pc[d] = "held" /\ call[d].sc = c)
Left(d) == Bit(call[d].abandoned /\ Working(d))
Owned(d) == call[d].open => \/ go[d] \in {"opened", "offer", "late"}
                            \/ pc[d] \in {"delivered", "freed", "outcome", "held"}

\* The record of an sshConn and the variables of a call.
SSHType == [active : Nat, inflight : Nat, draining : BOOLEAN, timeouts : 0..TimeoutLimit]
CallType == [sc : Conns \cup {NoConn}, got : Nat,
             res : {"none", "ok", "refused", "broken"}, open : BOOLEAN,
             expired : BOOLEAN, abandoned : BOOLEAN, cleanup : BOOLEAN]
GoPoints == {"none", "dial", "opened", "offer", "late", "released"}

-----------------------------------------------------------------------------
\* Sets of dialers are finite; one more or one less dialer changes their
\* cardinality by one.
LEMMA DialerSets ==
  ASSUME NEW S \in SUBSET Dialers
  PROVE  /\ IsFiniteSet(S) /\ Cardinality(S) \in Nat
         /\ \A d \in Dialers :
              /\ d \notin S => Cardinality(S \cup {d}) = Cardinality(S) + 1
              /\ d \in S => /\ Cardinality(S \ {d}) = Cardinality(S) - 1
                            /\ Cardinality(S) >= 1
<1>1. IsFiniteSet(S)  BY ConstantsAssumption, FS_Subset
<1>2. Cardinality(S) \in Nat  BY <1>1, FS_CardinalityType
<1>3. ASSUME NEW d \in Dialers, d \notin S
      PROVE  Cardinality(S \cup {d}) = Cardinality(S) + 1
  BY <1>1, <1>3, FS_AddElement
<1>4. ASSUME NEW d \in Dialers, d \in S
      PROVE  Cardinality(S \ {d}) = Cardinality(S) - 1 /\ Cardinality(S) >= 1
  <2>1. Cardinality(S \ {d}) = Cardinality(S) - 1  BY <1>1, <1>4, FS_RemoveElement
  <2>2. Cardinality(S) # 0  BY <1>1, <1>4, FS_EmptySet
  <2> QED  BY <1>2, <2>1, <2>2
<1> QED  BY <1>1, <1>2, <1>3, <1>4

\* SlotsAccounted and PendingExact in terms of the sets above.
LEMMA SlotsRestated ==
  SlotsAccounted <=> \A c \in Conns : /\ ssh[c].inflight = Cardinality(InflightOn(c))
                                      /\ ssh[c].active = Cardinality(ActiveOn(c))
<1> DEFINE on(S, c) == {d \in S : call[d].sc = c}
           H == {d \in Dialers : pc[d] \in {"recheck", "headroom", "delivered"} \/ Working(d)}
           A == {d \in Dialers : pc[d] = "held"}
<1>1. \A c \in Conns : on(H, c) = InflightOn(c) /\ on(A, c) = ActiveOn(c)
  BY DEF InflightOn, ActiveOn, Holding
<1> QED  BY <1>1 DEF SlotsAccounted

\* The same after a step.
LEMMA SlotsRestatedNext ==
  SlotsAccounted' <=> \A c \in Conns : /\ ssh'[c].inflight = Cardinality(InflightOn(c)')
                                       /\ ssh'[c].active = Cardinality(ActiveOn(c)')
<1> DEFINE on(S, c) == {d \in S : call'[d].sc = c}
           H == {d \in Dialers : pc'[d] \in {"recheck", "headroom", "delivered"} \/ Working(d)'}
           A == {d \in Dialers : pc'[d] = "held"}
<1>1. \A c \in Conns : on(H, c) = InflightOn(c)' /\ on(A, c) = ActiveOn(c)'
  BY DEF InflightOn, ActiveOn, Holding
<1> QED  BY <1>1 DEF SlotsAccounted

\* The lesser of two naturals.
LEMMA MinOfTwo ==
  ASSUME NEW a \in Nat, NEW b \in Nat
  PROVE  Min({a, b}) \in {a, b} /\ Min({a, b}) <= a /\ Min({a, b}) <= b
BY DEF Min
-----------------------------------------------------------------------------
\* What the types say of the variables that a dial changes.
LEMMA DialTypes ==
  TypeOK <=> /\ conns \subseteq Conns /\ ssh \in [Conns -> SSHType]
             /\ connecting \in 0..ScaleParallelism /\ announcing \in 0..ScaleParallelism
             /\ maintain \in {"idle", "changed"} /\ changes \in 0..MaxChanges
             /\ probe \in {"none", "probing", "restored"} /\ probed \in Conns \cup {NoConn}
             /\ listening \subseteq Dialers /\ pc \in [Dialers -> CallerPoints]
             /\ go \in [Dialers -> GoPoints] /\ call \in [Dialers -> CallType]
             /\ pending \in Nat /\ dials \in 0..MaxDials
BY DEF TypeOK, SSHType, CallType, GoPoints

\* Updates of the flags of a call.
LEMMA CallUpdate ==
  ASSUME call \in [Dialers -> CallType], NEW d \in Dialers, NEW b \in BOOLEAN
  PROVE  /\ [call EXCEPT ![d].open = b] \in [Dialers -> CallType]
         /\ [call EXCEPT ![d].expired = b] \in [Dialers -> CallType]
         /\ [call EXCEPT ![d].cleanup = b] \in [Dialers -> CallType]
         /\ [call EXCEPT ![d] = NewCall] \in [Dialers -> CallType]
<1>1. NewCall \in CallType  BY DEF NewCall, CallType
<1> QED  BY <1>1 DEF CallType

\* A slot that is given back was held, and so was a connection, and an abandoned
\* dial that is cleaned up was counted.
LEMMA HeldSlot ==
  ASSUME IInv, NEW d \in Dialers, call[d].sc \in Conns
  PROVE  /\ Holding(d) => ssh[call[d].sc].inflight >= 1
         /\ pc[d] = "held" => ssh[call[d].sc].active >= 1
<1> DEFINE c == call[d].sc
<1>1. /\ ssh[c].inflight = Cardinality(InflightOn(c))
      /\ ssh[c].active = Cardinality(ActiveOn(c))
  BY SlotsRestated DEF IInv
<1>2. Holding(d) => d \in InflightOn(c)  BY DEF InflightOn
<1>3. pc[d] = "held" => d \in ActiveOn(c)  BY DEF ActiveOn
<1>4. InflightOn(c) \in SUBSET Dialers /\ ActiveOn(c) \in SUBSET Dialers
  BY DEF InflightOn, ActiveOn
<1> HIDE DEF c
<1> QED  BY <1>1, <1>2, <1>3, <1>4, DialerSets DEF c

\* An abandoned dial that still works is counted in pendingAbandonedDials.
LEMMA CountedAbandoned ==
  ASSUME IInv, NEW d \in Dialers, call[d].abandoned, Working(d)
  PROVE  pending >= 1
<1>1. d \in Abandoned /\ Abandoned \in SUBSET Dialers  BY DEF Abandoned
<1> QED  BY <1>1, DialerSets DEF IInv, PendingExact, Abandoned

\* Every step of a dial keeps the types.
LEMMA DialerTyped ==
  ASSUME IInv, NEW d \in Dialers,
         Dial(d) \/ CallerStep(d) \/ GoroutineStep(d) \/ ContextEnds(d) \/ ChannelOpens(d)
         \/ CloseConn(d)
  PROVE  TypeOK' /\ ScaleBounded'
<1> DEFINE
      Kept == /\ conns' \subseteq Conns /\ ssh' \in [Conns -> SSHType]
              /\ connecting' \in 0..ScaleParallelism /\ announcing' \in 0..ScaleParallelism
              /\ connecting' + announcing' <= ScaleParallelism
              /\ maintain' \in {"idle", "changed"} /\ changes' \in 0..MaxChanges
              /\ probe' \in {"none", "probing", "restored"} /\ probed' \in Conns \cup {NoConn}
              /\ listening' \subseteq Dialers /\ pc' \in [Dialers -> CallerPoints]
              /\ go' \in [Dialers -> GoPoints] /\ call' \in [Dialers -> CallType]
              /\ pending' \in Nat /\ dials' \in 0..MaxDials
<1> SUFFICES Kept
  BY DEF TypeOK, SSHType, CallType, GoPoints, ScaleBounded, ScaleInFlight
<1>1. /\ conns \subseteq Conns /\ ssh \in [Conns -> SSHType]
      /\ connecting \in 0..ScaleParallelism /\ announcing \in 0..ScaleParallelism
      /\ connecting + announcing <= ScaleParallelism
      /\ maintain \in {"idle", "changed"} /\ changes \in 0..MaxChanges
      /\ probe \in {"none", "probing", "restored"} /\ probed \in Conns \cup {NoConn}
      /\ listening \subseteq Dialers /\ pc \in [Dialers -> CallerPoints]
      /\ go \in [Dialers -> GoPoints] /\ call \in [Dialers -> CallType]
      /\ pending \in Nat /\ dials \in 0..MaxDials
  BY DialTypes DEF IInv, Typed, ScaleBounded, ScaleInFlight
<1>2. CallShape(d)  BY DEF IInv, Typed, CallsShaped
<1>3. HasConn(d) => call[d].sc \in Conns  BY <1>2 DEF CallShape
<1>4. /\ call[d].abandoned \in BOOLEAN /\ call[d].cleanup \in BOOLEAN
      /\ \A c \in Conns : ssh[c].inflight \in Nat /\ ssh[c].active \in Nat
                          /\ ssh[c].timeouts \in Nat
  BY <1>1, ConstantsAssumption DEF CallType, SSHType
<1> USE ConstantsAssumption
    DEF connVars, scaleVars, upkeepVars, probeVars, poolVars, CallerPoints, GoPoints,
        Goto, GoGoto, Set, Count, AddInflight, Signal, Return
<1>5. \A q \in CallerPoints : [pc EXCEPT ![d] = q] \in [Dialers -> CallerPoints]
  BY <1>1
<1>6. \A q \in GoPoints : [go EXCEPT ![d] = q] \in [Dialers -> GoPoints]
  BY <1>1
<1>7. Return(d) => pc' \in [Dialers -> CallerPoints] /\ call' \in [Dialers -> CallType]
  <2>1. NewCall \in CallType  BY DEF NewCall, CallType
  <2> QED  BY <1>1, <2>1
<1>8. CASE Dial(d)
  BY <1>1, <1>8 DEF Dial
<1>9. CASE WaitChannel(d) \/ SignalUnreserved(d)
  BY <1>1, <1>9 DEF WaitChannel, SignalUnreserved
<1>10. CASE Select(d)
  <2>1. \A c \in Candidates : c \in Conns  BY <1>1 DEF Candidates
  <2>2. CASE \E c \in Candidates : call' = [call EXCEPT ![d].sc = c]
    <3>1. PICK c \in Conns : call' = [call EXCEPT ![d].sc = c]  BY <2>1, <2>2
    <3>2. call' \in [Dialers -> CallType]  BY <1>1, <3>1 DEF CallType
    <3> QED  BY <1>1, <1>10, <3>2 DEF Select
  <2>3. CASE UNCHANGED call
    BY <1>1, <1>10, <2>3 DEF Select
  <2> QED  BY <1>10, <2>2, <2>3 DEF Select
<1>11. CASE Reserve(d)
  <2>1. HasConn(d)  BY <1>11 DEF Reserve, HasConn
  <2>2. ssh' \in [Conns -> SSHType]
    BY <1>1, <1>3, <1>11, <2>1 DEF Reserve, SSHType
  <2>3. call' \in [Dialers -> CallType]
    <3>1. ssh[call[d].sc].inflight + 1 \in Nat  BY <1>3, <1>4, <2>1
    <3>2. call' = [call EXCEPT ![d].got = ssh[call[d].sc].inflight + 1]
      BY <1>11 DEF Reserve
    <3> QED  BY <1>1, <3>1, <3>2 DEF CallType
  <2> QED  BY <1>1, <1>11, <2>2, <2>3 DEF Reserve
<1>12. CASE Recheck(d)
  <2>1. HasConn(d) /\ Holding(d)  BY <1>12 DEF Recheck, HasConn, Holding
  <2>2. ssh' \in [Conns -> SSHType]
    <3>1. ssh[call[d].sc].inflight >= 1  BY <1>3, <2>1, HeldSlot
    <3> QED  BY <1>1, <1>3, <1>12, <2>1, <3>1 DEF Recheck, SSHType
  <2>3. call' \in [Dialers -> CallType]
    <3>1. \/ call' = [call EXCEPT ![d].got = 0, ![d].sc = NoConn]
          \/ call' = [call EXCEPT ![d].got = 0]
      BY <1>12 DEF Recheck
    <3> QED  BY <1>1, <3>1 DEF CallType
  <2> QED  BY <1>1, <1>12, <2>2, <2>3 DEF Recheck
<1>13. CASE Starved(d)
  BY <1>1, <1>7, <1>13 DEF Starved, StartScale, ScaleInFlight
<1>14. CASE SelectAgain(d)
  BY <1>1, <1>7, <1>14 DEF SelectAgain
<1>15. CASE Wait(d)
  BY <1>1, <1>7, <1>15 DEF Wait
<1>16. CASE SpawnDial(d)
  BY <1>1, <1>16 DEF SpawnDial, StartScale, ScaleInFlight
<1>17. CASE Deliver(d) \/ SignalFreed(d) \/ CheckAbandoned(d)
  BY <1>1, <1>17 DEF Deliver, SignalFreed, CheckAbandoned
<1>18. CASE Abandon(d)
  <2>1. call' \in [Dialers -> CallType]
    <3>1. NewCall \in CallType  BY DEF NewCall, CallType
    <3>2. PICK b \in BOOLEAN : \/ call' = [call EXCEPT ![d].abandoned = b]
                               \/ call' = [call EXCEPT ![d] = NewCall]
      BY <1>4, <1>18 DEF Abandon, LeaveDial
    <3> QED  BY <1>1, <3>1, <3>2 DEF CallType
  <2> QED  BY <1>1, <1>18, <2>1 DEF Abandon, LeaveDial
<1>19. CASE RecordDialTimeout(d)
  <2> DEFINE c == call[d].sc
             m == Min({ssh[c].timeouts + 1, TimeoutLimit})
  <2>1. c \in Conns  BY <1>3, <1>19 DEF RecordDialTimeout, HasConn
  <2>2. m \in 0..TimeoutLimit
    <3>1. ssh[c].timeouts + 1 \in Nat /\ TimeoutLimit \in Nat  BY <1>4, <2>1
    <3> HIDE DEF c
    <3>2. m \in {ssh[c].timeouts + 1, TimeoutLimit} /\ m <= TimeoutLimit
      BY <3>1, MinOfTwo
    <3> QED  BY <3>1, <3>2
  <2>3. \E n \in {1, m} : ssh' = [ssh EXCEPT ![c].timeouts = n]
    BY <1>19 DEF RecordDialTimeout
  <2> HIDE DEF m
  <2>4. \A n \in {1, m} : n \in 0..TimeoutLimit  BY <2>2
  <2>5. ssh' \in [Conns -> SSHType]  BY <1>1, <2>1, <2>3, <2>4 DEF SSHType
  <2>6. pc' \in [Dialers -> CallerPoints] /\ call' \in [Dialers -> CallType]
    BY <1>1, <1>7, <1>19 DEF RecordDialTimeout
  <2> QED  BY <1>1, <1>19, <2>5, <2>6 DEF RecordDialTimeout
<1>20. CASE ForceReconnect(d)
  <2>1. HasConn(d)  BY <1>20 DEF ForceReconnect, HasConn
  <2>2. ssh' \in [Conns -> SSHType]
    <3>1. ssh' = [ssh EXCEPT ![call[d].sc].draining = TRUE] \/ ssh' = ssh
      BY <1>20 DEF ForceReconnect
    <3>2. call[d].sc \in Conns  BY <1>3, <2>1
    <3>3. ASSUME NEW c \in Conns PROVE [ssh EXCEPT ![c].draining = TRUE] \in [Conns -> SSHType]
      BY <1>1 DEF SSHType
    <3> QED  BY <1>1, <3>1, <3>2, <3>3
  <2> QED  BY <1>1, <1>3, <1>7, <1>20, <2>1, <2>2 DEF ForceReconnect
<1>21. CASE ReleaseInflight(d)
  <2>1. HasConn(d) /\ Holding(d)  BY <1>21 DEF ReleaseInflight, HasConn, Holding
  <2>2. ssh' \in [Conns -> SSHType]
    <3>1. ssh[call[d].sc].inflight >= 1  BY <1>3, <2>1, HeldSlot
    <3> QED  BY <1>1, <1>3, <1>21, <2>1, <3>1 DEF ReleaseInflight, SSHType
  <2> QED  BY <1>1, <1>21, <2>2 DEF ReleaseInflight
<1>22. CASE Outcome(d)
  <2>1. HasConn(d)  BY <1>22 DEF Outcome, HasConn
  <2>2. ssh' \in [Conns -> SSHType]
    BY <1>1, <1>3, <1>22, <2>1 DEF Outcome, SSHType
  <2> QED  BY <1>1, <1>7, <1>22, <2>2 DEF Outcome, RemoveConn
<1>23. CASE SignalClosed(d)
  BY <1>1, <1>7, <1>23 DEF SignalClosed
<1>24. CASE GiveUpOffer(d)
  BY <1>1, <1>24, CallUpdate DEF GiveUpOffer
<1>25. CASE CloseLate(d)
  <2>1. HasConn(d) /\ Holding(d) /\ Working(d)
    BY <1>25 DEF CloseLate, HasConn, Holding, Working
  <2>2. ssh' \in [Conns -> SSHType]
    <3>1. ssh[call[d].sc].inflight >= 1  BY <1>3, <2>1, HeldSlot
    <3> QED  BY <1>1, <1>3, <1>25, <2>1, <3>1 DEF CloseLate, SSHType
  <2>3. call' \in [Dialers -> CallType]
    BY <1>1, <1>25, CallUpdate DEF CloseLate
  <2>4. pending' \in Nat
    BY <1>1, <1>25, <2>1, CountedAbandoned DEF CloseLate
  <2> QED  BY <1>1, <1>25, <2>2, <2>3, <2>4 DEF CloseLate
<1>26. CASE SignalLate(d)
  BY <1>1, <1>26, CallUpdate DEF SignalLate
<1>27. CASE ContextEnds(d)
  BY <1>1, <1>27, CallUpdate DEF ContextEnds
<1>28. CASE ChannelOpens(d)
  BY <1>1, <1>28 DEF ChannelOpens, CallType
<1>29. CASE CloseConn(d)
  <2>1. HasConn(d)  BY <1>29 DEF CloseConn, HasConn
  <2>2. ssh' \in [Conns -> SSHType]
    <3>1. ssh[call[d].sc].active >= 1  BY <1>3, <1>29, <2>1, HeldSlot DEF CloseConn
    <3> QED  BY <1>1, <1>3, <1>29, <2>1, <3>1 DEF CloseConn, SSHType
  <2>3. call' \in [Dialers -> CallType]
    BY <1>1, <1>29, CallUpdate DEF CloseConn
  <2> QED  BY <1>1, <1>29, <2>2, <2>3 DEF CloseConn
<1> QED
  BY <1>8, <1>9, <1>10, <1>11, <1>12, <1>13, <1>14, <1>15, <1>16, <1>17, <1>18, <1>19,
     <1>20, <1>21, <1>22, <1>23, <1>24, <1>25, <1>26, <1>27, <1>28, <1>29
  DEF CallerStep, GoroutineStep

\* So does every step of the background.
LEMMA PoolTyped ==
  ASSUME IInv, ProbeStep \/ PoolStep \/ Maintain
  PROVE  TypeOK' /\ ScaleBounded'
<1> USE ConstantsAssumption DEF IInv, Typed, TypeOK, ScaleBounded, ScaleInFlight,
        connVars, scaleVars, upkeepVars, probeVars, NewSSH, Signal, RemoveConn
<1>1. CASE ProbeFails \/ SignalRestored
  BY <1>1 DEF ProbeFails, SignalRestored
<1>2. CASE ProbeSucceeds
  <2>1. ssh' \in [Conns -> SSHType]
    <3>1. ssh' = [ssh EXCEPT ![probed].draining = FALSE, ![probed].timeouts = 0]
      BY <1>2 DEF ProbeSucceeds
    <3>2. ssh \in [Conns -> SSHType] /\ 0 \in 0..TimeoutLimit  BY DEF SSHType
    <3> HIDE DEF TypeOK
    <3> QED  BY <3>1, <3>2 DEF SSHType
  <2> QED  BY <1>2, <2>1 DEF ProbeSucceeds, SSHType
<1>3. ASSUME Append
      PROVE  conns' \subseteq Conns /\ ssh' \in [Conns -> SSHType]
  <2>1. PICK c \in Conns : conns' = conns \cup {c} /\ ssh' = [ssh EXCEPT ![c] = NewSSH]
    BY <1>3 DEF Append, Unused
  <2>2. ssh \in [Conns -> SSHType] /\ NewSSH \in SSHType  BY DEF SSHType
  <2>3. conns \subseteq Conns  OBVIOUS
  <2> QED  BY <2>1, <2>2, <2>3
<1>4. CASE ScaleConnects
  <2>1. conns' \subseteq Conns /\ ssh' \in [Conns -> SSHType]
    BY <1>3, <1>4 DEF ScaleConnects, SSHType
  <2> QED  BY <1>4, <2>1 DEF ScaleConnects, SSHType
<1>5. CASE AnnounceScale \/ SignalMaintained
  BY <1>5 DEF AnnounceScale, SignalMaintained
<1>6. CASE Maintain
  <2>1. conns' \subseteq Conns /\ ssh' \in [Conns -> SSHType]
    BY <1>3, <1>6 DEF Maintain, SSHType
  <2> QED  BY <1>6, <2>1 DEF Maintain, SSHType
<1> QED  BY <1>1, <1>2, <1>4, <1>5, <1>6 DEF ProbeStep, PoolStep

\* The control points of a dial and its goroutine fit together after each step.
LEMMA ShapeStep ==
  ASSUME Typed, NEW d \in Dialers,
         Dial(d) \/ CallerStep(d) \/ GoroutineStep(d) \/ ContextEnds(d) \/ ChannelOpens(d)
         \/ CloseConn(d)
  PROVE  CallsShaped'
<1>1. /\ pc \in [Dialers -> CallerPoints] /\ go \in [Dialers -> GoPoints]
      /\ call \in [Dialers -> CallType] /\ call[d] \in CallType
      /\ conns \subseteq Conns
  BY DialTypes DEF Typed
<1>2. CallShape(d)  BY DEF Typed, CallsShaped
<1>3. ASSUME \A e \in Dialers \ {d} :
               pc'[e] = pc[e] /\ go'[e] = go[e] /\ call'[e] = call[e],
             CallShape(d)'
      PROVE  CallsShaped'
  BY <1>3 DEF Typed, CallsShaped, CallShape, HasConn
<1> USE DEF connVars, scaleVars, upkeepVars, probeVars, poolVars, CallShape, HasConn,
        Goto, GoGoto, Set, Count, AddInflight, Signal, Return
<1>4. CASE Dial(d) \/ WaitChannel(d) \/ SignalUnreserved(d)
  BY <1>1, <1>2, <1>3, <1>4 DEF Dial, WaitChannel, SignalUnreserved, NewCall
<1>5. CASE Starved(d) \/ SelectAgain(d) \/ Wait(d)
  BY <1>1, <1>2, <1>3, <1>5 DEF Starved, SelectAgain, Wait, NewCall
<1>6. CASE Select(d)
  <2>1. \A c \in Candidates : c \in Conns  BY <1>1 DEF Candidates
  <2> QED  BY <1>1, <1>2, <1>3, <1>6, <2>1 DEF Select, CallType
<1>7. CASE Reserve(d)
  BY <1>1, <1>2, <1>3, <1>7 DEF Reserve, CallType
<1>8. CASE Recheck(d)
  BY <1>1, <1>2, <1>3, <1>8 DEF Recheck, CallType
<1>9. CASE SpawnDial(d) \/ Deliver(d) \/ ReleaseInflight(d) \/ SignalFreed(d)
  BY <1>1, <1>2, <1>3, <1>9 DEF SpawnDial, Deliver, ReleaseInflight, SignalFreed
<1>10. CASE Outcome(d) \/ SignalClosed(d)
  BY <1>1, <1>2, <1>3, <1>10 DEF Outcome, SignalClosed, NewCall
<1>11. CASE CloseConn(d)
  BY <1>1, <1>2, <1>3, <1>11 DEF CloseConn, CallType
<1>12. CASE Abandon(d)
  <2>1. pc[d] = "dialing"  BY <1>12 DEF Abandon
  <2>2. CASE go[d] = "none" /\ pc' = [pc EXCEPT ![d] = "idle"] /\ call' = [call EXCEPT ![d] = NewCall]
    BY <1>1, <1>2, <1>3, <1>12, <2>1, <2>2 DEF Abandon, NewCall
  <2>3. CASE \E q \in {"idle", "timedOut"} :
               /\ pc' = [pc EXCEPT ![d] = q] /\ (q = "idle" => go[d] # "none")
               /\ call' = [call EXCEPT ![d].abandoned = ~call[d].cleanup]
    <3>1. call[d].cleanup \in BOOLEAN  BY <1>1 DEF CallType
    <3>2. PICK b \in BOOLEAN : call' = [call EXCEPT ![d].abandoned = b]
      BY <2>3, <3>1
    <3>3. /\ call'[d].sc = call[d].sc /\ call'[d].cleanup = call[d].cleanup
          /\ \A e \in Dialers \ {d} : call'[e] = call[e]
      BY <1>1, <3>2 DEF CallType
    <3>4. go' = go  BY <1>12 DEF Abandon
    <3> QED  BY <1>1, <1>2, <1>3, <2>1, <2>3, <3>3, <3>4
  <2> QED  BY <1>12, <2>2, <2>3 DEF Abandon, LeaveDial
<1>13. CASE RecordDialTimeout(d) \/ ForceReconnect(d)
  BY <1>1, <1>2, <1>3, <1>13 DEF RecordDialTimeout, ForceReconnect, NewCall
<1>14. CASE ContextEnds(d)
  BY <1>1, <1>2, <1>3, <1>14 DEF ContextEnds, CallType
<1>15. CASE ChannelOpens(d)
  BY <1>1, <1>2, <1>3, <1>15 DEF ChannelOpens, CallType
<1>16. CASE CheckAbandoned(d)
  BY <1>1, <1>2, <1>3, <1>16 DEF CheckAbandoned
<1>17. CASE GiveUpOffer(d)
  BY <1>1, <1>2, <1>3, <1>17 DEF GiveUpOffer, CallType
<1>18. CASE CloseLate(d)
  BY <1>1, <1>2, <1>3, <1>18 DEF CloseLate, CallType
<1>19. CASE SignalLate(d)
  BY <1>1, <1>2, <1>3, <1>19 DEF SignalLate, NewCall
<1> QED
  BY <1>4, <1>5, <1>6, <1>7, <1>8, <1>9, <1>10, <1>11, <1>12, <1>13, <1>14, <1>15, <1>16,
     <1>17, <1>18, <1>19
  DEF CallerStep, GoroutineStep

-----------------------------------------------------------------------------
\* Nothing but dial d, its goroutine and its connection moved.
OnlyMoves(d) == \A e \in Dialers \ {d} :
    pc'[e] = pc[e] /\ go'[e] = go[e] /\ call'[e] = call[e]

\* Whether an element is in a set decides its share of the cardinality.
LEMMA ShareOfOne ==
  ASSUME NEW S \in SUBSET Dialers, NEW T \in SUBSET Dialers, NEW d \in Dialers,
         \A e \in Dialers \ {d} : e \in T <=> e \in S
  PROVE  Cardinality(T) = Cardinality(S) - Bit(d \in S) + Bit(d \in T)
<1>1. CASE d \in S /\ d \notin T
  <2>1. T = S \ {d}  BY <1>1
  <2> QED  BY <1>1, <2>1, DialerSets DEF Bit
<1>2. CASE d \notin S /\ d \in T
  <2>1. T = S \cup {d}  BY <1>2
  <2> QED  BY <1>2, <2>1, DialerSets DEF Bit
<1>3. CASE d \in S <=> d \in T
  <2>1. T = S  BY <1>3
  <2> QED  BY <1>3, <2>1, DialerSets DEF Bit
<1> QED  BY <1>1, <1>2, <1>3

\* A step of one dial changes the two counts of an sshConn by that dial's part.
LEMMA SlotShares ==
  ASSUME NEW d \in Dialers, OnlyMoves(d), NEW c \in Conns
  PROVE  /\ Cardinality(InflightOn(c)') = Cardinality(InflightOn(c)) - Holds(d, c) + Holds(d, c)'
         /\ Cardinality(ActiveOn(c)') = Cardinality(ActiveOn(c)) - Uses(d, c) + Uses(d, c)'
<1>1. /\ InflightOn(c) \in SUBSET Dialers /\ InflightOn(c)' \in SUBSET Dialers
      /\ ActiveOn(c) \in SUBSET Dialers /\ ActiveOn(c)' \in SUBSET Dialers
  BY DEF InflightOn, ActiveOn
<1>2. \A e \in Dialers \ {d} : /\ e \in InflightOn(c)' <=> e \in InflightOn(c)
                               /\ e \in ActiveOn(c)' <=> e \in ActiveOn(c)
  BY DEF OnlyMoves, InflightOn, ActiveOn, Holding, Working
<1>3. /\ d \in InflightOn(c) <=> Holding(d) /\ call[d].sc = c
      /\ d \in InflightOn(c)' <=> (Holding(d) /\ call[d].sc = c)'
      /\ d \in ActiveOn(c) <=> pc[d] = "held" /\ call[d].sc = c
      /\ d \in ActiveOn(c)' <=> (pc[d] = "held" /\ call[d].sc = c)'
  BY DEF InflightOn, ActiveOn
<1>4. Cardinality(InflightOn(c)')
        = Cardinality(InflightOn(c)) - Bit(d \in InflightOn(c)) + Bit(d \in InflightOn(c)')
  BY <1>1, <1>2, ShareOfOne
<1>5. Cardinality(ActiveOn(c)')
        = Cardinality(ActiveOn(c)) - Bit(d \in ActiveOn(c)) + Bit(d \in ActiveOn(c)')
  BY <1>1, <1>2, ShareOfOne
<1> QED  BY <1>3, <1>4, <1>5 DEF Holds, Uses, Bit

\* And the abandoned dials.
LEMMA LeftShare ==
  ASSUME NEW d \in Dialers, OnlyMoves(d)
  PROVE  Cardinality(Abandoned') = Cardinality(Abandoned) - Left(d) + Left(d)'
<1>1. Abandoned \in SUBSET Dialers /\ Abandoned' \in SUBSET Dialers  BY DEF Abandoned
<1>2. \A e \in Dialers \ {d} : e \in Abandoned' <=> e \in Abandoned
  BY DEF OnlyMoves, Abandoned, Working
<1>3. /\ d \in Abandoned <=> call[d].abandoned /\ Working(d)
      /\ d \in Abandoned' <=> (call[d].abandoned /\ Working(d))'
  BY DEF Abandoned
<1>4. Cardinality(Abandoned') = Cardinality(Abandoned) - Bit(d \in Abandoned) + Bit(d \in Abandoned')
  BY <1>1, <1>2, ShareOfOne
<1> QED  BY <1>3, <1>4 DEF Left, Bit

\* What a step of dial d does to the counters is what it does to the dial's part
\* in them.
Balanced(d) ==
    /\ OnlyMoves(d)
    /\ \A c \in Conns : /\ ssh'[c].inflight = ssh[c].inflight - Holds(d, c) + Holds(d, c)'
                        /\ ssh'[c].active = ssh[c].active - Uses(d, c) + Uses(d, c)'
    /\ pending' = pending - Left(d) + Left(d)'
    /\ Owned(d)'

\* A step whose counters move with the dial's part keeps the three invariants.
LEMMA BalancedKeeps ==
  ASSUME IInv, NEW d \in Dialers, Balanced(d)
  PROVE  SlotsAccounted' /\ PendingExact' /\ ChannelsOwned'
<1>1. SlotsAccounted'
  <2> SUFFICES ASSUME NEW c \in Conns
               PROVE  /\ ssh'[c].inflight = Cardinality(InflightOn(c)')
                      /\ ssh'[c].active = Cardinality(ActiveOn(c)')
    BY SlotsRestatedNext
  <2>1. /\ ssh[c].inflight = Cardinality(InflightOn(c))
        /\ ssh[c].active = Cardinality(ActiveOn(c))
    BY SlotsRestated DEF IInv
  <2> QED  BY <2>1, SlotShares DEF Balanced
<1>2. PendingExact'
  BY LeftShare DEF IInv, Balanced, PendingExact, Abandoned
<1>3. ChannelsOwned'
  BY DEF IInv, Balanced, OnlyMoves, ChannelsOwned, Owned
<1> QED  BY <1>1, <1>2, <1>3

\* Every step of a dial is balanced.
LEMMA DialerBalanced ==
  ASSUME IInv, NEW d \in Dialers,
         Dial(d) \/ CallerStep(d) \/ GoroutineStep(d) \/ ContextEnds(d) \/ ChannelOpens(d)
         \/ CloseConn(d)
  PROVE  Balanced(d)
<1>1. /\ pc \in [Dialers -> CallerPoints] /\ go \in [Dialers -> GoPoints]
      /\ call \in [Dialers -> CallType] /\ call[d] \in CallType
      /\ ssh \in [Conns -> SSHType] /\ pending \in Nat
  BY DialTypes DEF IInv, Typed
<1>2. /\ \A c \in Conns : ssh[c].inflight \in Nat /\ ssh[c].active \in Nat
      /\ call[d].abandoned \in BOOLEAN /\ call[d].cleanup \in BOOLEAN
      /\ call[d].open \in BOOLEAN
  BY <1>1 DEF SSHType, CallType
<1>3. CallShape(d) /\ Owned(d)
  BY DEF IInv, Typed, CallsShaped, ChannelsOwned, Owned
<1>4. HasConn(d) => call[d].sc \in Conns  BY <1>3 DEF CallShape
<1> USE DEF connVars, scaleVars, upkeepVars, probeVars, poolVars,
        Goto, GoGoto, Set, Count, AddInflight, Signal, Return
<1> DEFINE Same == UNCHANGED ssh /\ UNCHANGED pending
           Shares == /\ \A c \in Conns : Holds(d, c)' = Holds(d, c) /\ Uses(d, c)' = Uses(d, c)
                     /\ Left(d)' = Left(d)
\* The steps that leave the counters alone.
<1>5. ASSUME OnlyMoves(d), Same, Shares, Owned(d)' PROVE Balanced(d)
  BY <1>1, <1>2, <1>5 DEF Balanced, Holds, Uses, Left, Bit
<1> USE DEF OnlyMoves, Holding, Working, Holds, Uses, Left, Owned, CallShape, HasConn
<1>6. CASE Dial(d) \/ WaitChannel(d) \/ SignalUnreserved(d) \/ SpawnDial(d)
  BY <1>1, <1>3, <1>5, <1>6 DEF Dial, WaitChannel, SignalUnreserved, SpawnDial
<1>7. CASE Select(d)
  BY <1>1, <1>3, <1>5, <1>7 DEF Select, CallType
<1>8. CASE Starved(d) \/ SelectAgain(d) \/ Wait(d)
  BY <1>1, <1>3, <1>5, <1>8 DEF Starved, SelectAgain, Wait, NewCall
<1>9. CASE Deliver(d) \/ SignalFreed(d) \/ CheckAbandoned(d)
  BY <1>1, <1>3, <1>5, <1>9 DEF Deliver, SignalFreed, CheckAbandoned
<1>10. CASE RecordDialTimeout(d) \/ ForceReconnect(d)
  BY <1>1, <1>2, <1>3, <1>10 DEF RecordDialTimeout, ForceReconnect, NewCall, Balanced, SSHType, Bit
<1>11. CASE SignalClosed(d) \/ SignalLate(d)
  BY <1>1, <1>3, <1>5, <1>11 DEF SignalClosed, SignalLate, NewCall
<1>12. CASE GiveUpOffer(d)
  BY <1>1, <1>3, <1>5, <1>12 DEF GiveUpOffer, CallType
<1>13. CASE ContextEnds(d)
  BY <1>1, <1>3, <1>5, <1>13 DEF ContextEnds, CallType
<1>14. CASE ChannelOpens(d)
  BY <1>1, <1>3, <1>5, <1>14 DEF ChannelOpens, CallType
\* The steps that change them.
<1>15. CASE Reserve(d)
  BY <1>1, <1>2, <1>3, <1>4, <1>15 DEF Reserve, Balanced, CallType, SSHType, Bit
<1>16. CASE Recheck(d)
  BY <1>1, <1>2, <1>3, <1>4, <1>16 DEF Recheck, Balanced, CallType, SSHType, Bit
<1>17. CASE ReleaseInflight(d)
  BY <1>1, <1>2, <1>3, <1>4, <1>17 DEF ReleaseInflight, Balanced, SSHType, Bit
<1>18. CASE Outcome(d)
  BY <1>1, <1>2, <1>3, <1>4, <1>18 DEF Outcome, Balanced, SSHType, Bit, NewCall
<1>19. CASE CloseConn(d)
  BY <1>1, <1>2, <1>3, <1>4, <1>19 DEF CloseConn, Balanced, CallType, SSHType, Bit
<1>20. CASE CloseLate(d)
  BY <1>1, <1>2, <1>3, <1>4, <1>20 DEF CloseLate, Balanced, CallType, SSHType, Bit
<1>21. CASE Abandon(d)
  <2>1. /\ pc[d] = "dialing" /\ UNCHANGED <<ssh, go>>
        /\ pending' = IF call[d].cleanup THEN pending ELSE pending + 1
    BY <1>21 DEF Abandon
  <2>2. ~call[d].abandoned /\ (~call[d].cleanup => Working(d))
    BY <1>3, <2>1
  <2>3. CASE go[d] = "none" /\ pc' = [pc EXCEPT ![d] = "idle"] /\ call' = [call EXCEPT ![d] = NewCall]
    BY <1>1, <1>2, <1>3, <2>1, <2>2, <2>3 DEF Balanced, Bit, NewCall
  <2>4. CASE \E q \in {"idle", "timedOut"} :
               /\ pc' = [pc EXCEPT ![d] = q]
               /\ call' = [call EXCEPT ![d].abandoned = ~call[d].cleanup]
    <3>1. PICK b \in BOOLEAN : /\ call' = [call EXCEPT ![d].abandoned = b]
                               /\ b <=> ~call[d].cleanup
      BY <1>2, <2>4
    <3>2. /\ call'[d].sc = call[d].sc /\ call'[d].open = call[d].open
          /\ call'[d].abandoned = b
          /\ \A e \in Dialers \ {d} : call'[e] = call[e]
      BY <1>1, <3>1 DEF CallType
    <3>3. Left(d)' = IF call[d].cleanup THEN 0 ELSE 1
      BY <2>1, <2>2, <3>1, <3>2 DEF Bit
    <3> QED  BY <1>1, <1>2, <1>3, <2>1, <2>2, <2>4, <3>2, <3>3 DEF Balanced, Bit
  <2> QED  BY <1>21, <2>3, <2>4 DEF Abandon, LeaveDial
<1> QED
  BY <1>6, <1>7, <1>8, <1>9, <1>10, <1>11, <1>12, <1>13, <1>14, <1>15, <1>16, <1>17, <1>18,
     <1>19, <1>20, <1>21
  DEF CallerStep, GoroutineStep

\* The background changes no dial, and the slots only of an sshConn that none
\* refers to.
LEMMA PoolBalanced ==
  ASSUME IInv, ProbeStep \/ PoolStep \/ Maintain \/ UNCHANGED vars
  PROVE  CallsShaped' /\ SlotsAccounted' /\ PendingExact' /\ ChannelsOwned'
<1>1. UNCHANGED <<pc, go, call, pending>>
  BY DEF ProbeStep, ProbeFails, ProbeSucceeds, SignalRestored, PoolStep, ScaleConnects,
     AnnounceScale, SignalMaintained, Maintain, vars
<1>2. CallsShaped' /\ PendingExact' /\ ChannelsOwned'
  BY <1>1 DEF IInv, Typed, CallsShaped, CallShape, HasConn, PendingExact, ChannelsOwned, Working
<1>3. \A c \in Conns : InflightOn(c)' = InflightOn(c) /\ ActiveOn(c)' = ActiveOn(c)
  BY <1>1 DEF InflightOn, ActiveOn, Holding, Working
<1>4. \A c \in Conns : /\ ssh[c].inflight = Cardinality(InflightOn(c))
                       /\ ssh[c].active = Cardinality(ActiveOn(c))
  BY SlotsRestated DEF IInv
<1>5. ssh \in [Conns -> SSHType]  BY DialTypes DEF IInv, Typed
<1>6. CASE \A c \in Conns : ssh'[c].inflight = ssh[c].inflight /\ ssh'[c].active = ssh[c].active
  <2>1. SlotsAccounted'  BY <1>3, <1>4, <1>6, SlotsRestatedNext
  <2> QED  BY <1>2, <2>1
<1>7. CASE Append
  <2>1. PICK u \in Unused : ssh' = [ssh EXCEPT ![u] = NewSSH]  BY <1>7 DEF Append
  <2>2. u \in Conns /\ \A d \in Dialers : call[d].sc # u  BY DEF Unused
  <2>3. InflightOn(u) = {} /\ ActiveOn(u) = {}  BY <2>2 DEF InflightOn, ActiveOn
  <2>4. ssh'[u].inflight = 0 /\ ssh'[u].active = 0  BY <1>5, <2>1, <2>2 DEF NewSSH
  <2>5. \A c \in Conns \ {u} : ssh'[c] = ssh[c]  BY <1>5, <2>1
  <2>6. SlotsAccounted'
    <3>1. Cardinality({}) = 0  BY FS_EmptySet
    <3> SUFFICES ASSUME NEW c \in Conns
                 PROVE  /\ ssh'[c].inflight = Cardinality(InflightOn(c)')
                        /\ ssh'[c].active = Cardinality(ActiveOn(c)')
      BY SlotsRestatedNext
    <3>2. CASE c = u  BY <1>3, <2>3, <2>4, <3>1, <3>2
    <3>3. CASE c # u  BY <1>3, <1>4, <2>5, <3>3
    <3> QED  BY <3>2, <3>3
  <2> QED  BY <1>2, <2>6
<1>8. CASE ProbeSucceeds
  <2>1. ssh' = [ssh EXCEPT ![probed].draining = FALSE, ![probed].timeouts = 0]
    BY <1>8 DEF ProbeSucceeds
  <2> QED  BY <1>5, <1>6, <2>1 DEF SSHType
<1>9. CASE ssh' = ssh
  BY <1>6, <1>9
<1> QED
  BY <1>7, <1>8, <1>9
  DEF ProbeStep, ProbeFails, SignalRestored, PoolStep, ScaleConnects, AnnounceScale,
      SignalMaintained, Maintain, vars, poolVars, connVars

-----------------------------------------------------------------------------
\* The sshConns with a free slot.
Able == {c \in conns : /\ ~ssh[c].draining
                       /\ ssh[c].active + ssh[c].inflight < MaxChannels}

\* Of natural numbers there is a least.
LEMMA LeastNumber ==
  ASSUME NEW S, S \subseteq Nat, S # {}
  PROVE  \E x \in S : \A y \in S : ~(y < x)
<1> DEFINE R == OpToRel(<, Nat)
<1>1. PICK x \in S : \A y \in S : ~(<<y, x>> \in R)
  BY NatLessThanWellFounded, WFMin
<1>2. \A a, b \in Nat : a < b => <<a, b>> \in R
  BY DEF OpToRel
<1> HIDE DEF R
<1>3. ASSUME NEW y \in S PROVE ~(y < x)
  BY <1>1, <1>2
<1> QED  BY <1>3

\* selectConnWithCapacity finds one whenever there is one.
LEMMA CandidateExists ==
  ASSUME TypeOK
  PROVE  Candidates # {} <=> Able # {}
<1>1. \A c \in conns : ssh[c].active \in Nat /\ ssh[c].inflight \in Nat
  <2>1. ssh \in [Conns -> SSHType] /\ conns \subseteq Conns  BY DialTypes
  <2> QED  BY <2>1 DEF SSHType
<1>2. ASSUME Able # {} PROVE Candidates # {}
  <2> DEFINE A == {ssh[c].active : c \in Able}
  <2>1. PICK a \in A : \A y \in A : ~(y < a)
    <3>1. A \subseteq Nat /\ A # {}  BY <1>1, <1>2 DEF Able
    <3> QED  BY <3>1, LeastNumber
  <2> DEFINE Least == {c \in Able : ssh[c].active = a}
             B == {ssh[c].inflight : c \in Least}
  <2>2. PICK b \in B : \A y \in B : ~(y < b)
    <3>1. B \subseteq Nat /\ B # {}  BY <1>1, <2>1 DEF Able
    <3> QED  BY <3>1, LeastNumber
  <2>3. PICK c \in Able : ssh[c].active = a /\ ssh[c].inflight = b  BY <2>2
  <2>4. ASSUME NEW e \in Able
        PROVE  ~(\/ ssh[e].active < ssh[c].active
                 \/ ssh[e].active = ssh[c].active /\ ssh[e].inflight < ssh[c].inflight)
    BY <2>1, <2>2, <2>3
  <2> QED  BY <2>3, <2>4 DEF Candidates, Able
<1> QED  BY <1>2 DEF Candidates, Able

\* There is something to wake up for; and a signal is coming.
Capacity == Candidates # {} \/ conns = {}
SignalDue ==
    \/ \E e \in Dialers : pc[e] \in {"unreserved", "freed", "closed"} \/ go[e] = "released"
    \/ probe = "restored" \/ announcing > 0 \/ maintain = "changed"
Blocked(d) == pc[d] = "wait" /\ d \in listening

\* A step wakes everybody; or leaves a signal that is coming; or it gives no
\* slot, takes no signal, and blocks a dial only if there is none.
Announced ==
    \/ listening' = {}
    \/ SignalDue'
    \/ /\ SignalDue => SignalDue'
       /\ Capacity' => Capacity
       /\ \A d \in Dialers : Blocked(d)' => Blocked(d) \/ ~Capacity'

\* An announced step keeps WakeupComing.
LEMMA AnnouncedKeeps ==
  ASSUME WakeupComing, Announced
  PROVE  WakeupComing'
BY DEF WakeupComing, Announced, Capacity, SignalDue, Blocked

\* Where no slot comes free there is capacity afterwards only if there was.
LEMMA NoNewCapacity ==
  ASSUME TypeOK, conns' = conns,
         \A c \in Conns : /\ ssh'[c].draining = ssh[c].draining
                          /\ ssh'[c].active >= ssh[c].active /\ ssh'[c].active \in Nat
                          /\ ssh'[c].inflight >= ssh[c].inflight /\ ssh'[c].inflight \in Nat
  PROVE  Capacity' => Capacity
<1>1. \A c \in Conns : ssh[c].active \in Nat /\ ssh[c].inflight \in Nat
  BY DialTypes DEF SSHType
<1>2. conns \subseteq Conns /\ MaxChannels \in Nat  BY ConstantsAssumption DEF TypeOK
<1>3. Able' \subseteq Able  BY <1>1, <1>2 DEF Able
<1>4. Candidates' \subseteq Able'  BY DEF Candidates, Able
<1> QED  BY <1>3, <1>4, CandidateExists DEF Capacity

\* Every step of a dial, of its goroutine and of a connection is announced.
LEMMA DialerAnnounced ==
  ASSUME IInv, NEW d \in Dialers,
         Dial(d) \/ CallerStep(d) \/ GoroutineStep(d) \/ ContextEnds(d) \/ ChannelOpens(d)
         \/ CloseConn(d)
  PROVE  Announced
<1>1. /\ pc \in [Dialers -> CallerPoints] /\ go \in [Dialers -> GoPoints]
      /\ call \in [Dialers -> CallType] /\ ssh \in [Conns -> SSHType]
      /\ TypeOK
  BY DialTypes DEF IInv, Typed
<1>2. \A c \in Conns : ssh[c].inflight \in Nat /\ ssh[c].active \in Nat
  BY <1>1 DEF SSHType
<1>3. HasConn(d) => call[d].sc \in Conns
  BY DEF IInv, Typed, CallsShaped, CallShape
<1>4. go[d] # "none" => pc[d] \in {"dialing", "timedOut", "force", "idle"}
  BY DEF IInv, Typed, CallsShaped, CallShape
<1> USE DEF connVars, scaleVars, upkeepVars, probeVars, poolVars,
        Goto, GoGoto, Set, Count, AddInflight, Signal, Return
<1>5. CASE SignalUnreserved(d) \/ SignalLate(d) \/ SignalFreed(d) \/ SignalClosed(d)
  BY <1>5 DEF SignalUnreserved, SignalLate, SignalFreed, SignalClosed, Announced
<1>6. CASE ReleaseInflight(d) \/ CloseLate(d) \/ CloseConn(d)
  BY <1>1, <1>6 DEF ReleaseInflight, CloseLate, CloseConn, Announced, SignalDue
\* Every other step keeps a signal that is coming.
<1>7. ASSUME \A e \in Dialers \ {d} : pc'[e] = pc[e] /\ go'[e] = go[e],
             pc[d] \notin {"unreserved", "freed", "closed"}, go'[d] = "released" <=> go[d] = "released",
             UNCHANGED <<probe, announcing, maintain>>
      PROVE  SignalDue => SignalDue'
  BY <1>7 DEF SignalDue
<1>8. ASSUME UNCHANGED <<conns, ssh>>
      PROVE  Candidates' = Candidates /\ (Capacity' <=> Capacity)
  BY <1>8 DEF Capacity, Candidates
<1> USE DEF Announced, Blocked
<1>9. CASE Dial(d) \/ WaitChannel(d) \/ Select(d) \/ Starved(d) \/ Wait(d) \/ SpawnDial(d)
           \/ Deliver(d) \/ Abandon(d) \/ CheckAbandoned(d) \/ GiveUpOffer(d)
           \/ ContextEnds(d) \/ ChannelOpens(d)
  <2>1. UNCHANGED <<conns, ssh, probe, announcing, maintain>>
    BY <1>9 DEF Dial, WaitChannel, Select, Starved, Wait, SpawnDial, Deliver, Abandon,
       CheckAbandoned, GiveUpOffer, ContextEnds, ChannelOpens
  <2>2. /\ \A e \in Dialers \ {d} : pc'[e] = pc[e] /\ go'[e] = go[e]
        /\ pc[d] \notin {"unreserved", "freed", "closed"}
        /\ go'[d] = "released" <=> go[d] = "released"
    <3>1. CASE Dial(d) \/ WaitChannel(d) \/ Select(d) \/ Starved(d) \/ Wait(d) \/ Abandon(d)
               \/ ContextEnds(d)
      BY <1>1, <3>1 DEF Dial, WaitChannel, Select, Starved, Wait, Abandon, LeaveDial, ContextEnds
    <3>2. CASE SpawnDial(d) \/ Deliver(d)
      BY <1>1, <1>4, <3>2 DEF SpawnDial, Deliver
    <3>3. CASE CheckAbandoned(d) \/ GiveUpOffer(d) \/ ChannelOpens(d)
      BY <1>1, <1>4, <3>3 DEF CheckAbandoned, GiveUpOffer, ChannelOpens
    <3> QED  BY <1>9, <3>1, <3>2, <3>3
  <2>3. \A e \in Dialers : Blocked(e)' => Blocked(e)
    BY <1>1, <1>9 DEF Dial, WaitChannel, Select, Starved, Wait, SpawnDial, Deliver, Abandon,
       LeaveDial, CheckAbandoned, GiveUpOffer, ContextEnds, ChannelOpens
  <2> QED  BY <1>7, <1>8, <2>1, <2>2, <2>3
<1>10. CASE SelectAgain(d)
  <2>1. /\ \A e \in Dialers \ {d} : pc'[e] = pc[e] /\ go'[e] = go[e]
        /\ pc[d] \notin {"unreserved", "freed", "closed"} /\ go'[d] = go[d]
        /\ UNCHANGED <<conns, ssh, probe, announcing, maintain>>
    BY <1>1, <1>10 DEF SelectAgain
  <2>2. \A e \in Dialers : Blocked(e)' => Blocked(e) \/ ~Capacity
    BY <1>1, <1>10 DEF SelectAgain, Capacity
  <2> QED  BY <1>7, <1>8, <2>1, <2>2
<1>11. CASE Recheck(d)
  <2>1. CASE OverLimit(d)
    BY <1>1, <1>11, <2>1 DEF Recheck, SignalDue
  <2>2. CASE ~OverLimit(d)
    <3>1. /\ \A e \in Dialers \ {d} : pc'[e] = pc[e] /\ go'[e] = go[e]
          /\ pc[d] \notin {"unreserved", "freed", "closed"} /\ go'[d] = go[d]
          /\ UNCHANGED <<conns, ssh, probe, announcing, maintain>>
          /\ \A e \in Dialers : Blocked(e)' => Blocked(e)
      BY <1>1, <1>11, <2>2 DEF Recheck
    <3> QED  BY <1>7, <1>8, <3>1
  <2> QED  BY <2>1, <2>2
\* Those that change an sshConn without giving a slot.
<1>12. CASE Reserve(d)
  <2>1. /\ \A e \in Dialers \ {d} : pc'[e] = pc[e] /\ go'[e] = go[e]
        /\ pc[d] \notin {"unreserved", "freed", "closed"} /\ go'[d] = go[d]
        /\ UNCHANGED <<conns, probe, announcing, maintain>>
        /\ \A e \in Dialers : Blocked(e)' => Blocked(e)
    BY <1>1, <1>12 DEF Reserve
  <2>2. Capacity' => Capacity
    BY <1>1, <1>2, <1>3, <1>12, NoNewCapacity DEF Reserve, SSHType, HasConn
  <2> QED  BY <1>7, <2>1, <2>2
<1>13. CASE RecordDialTimeout(d)
  <2>1. /\ \A e \in Dialers \ {d} : pc'[e] = pc[e] /\ go'[e] = go[e]
        /\ pc[d] \notin {"unreserved", "freed", "closed"} /\ go'[d] = go[d]
        /\ UNCHANGED <<conns, probe, announcing, maintain>>
        /\ \A e \in Dialers : Blocked(e)' => Blocked(e)
    BY <1>1, <1>13 DEF RecordDialTimeout
  <2>2. Capacity' => Capacity
    <3>1. PICK n : ssh' = [ssh EXCEPT ![call[d].sc].timeouts = n]
      BY <1>13 DEF RecordDialTimeout
    <3> QED  BY <1>1, <1>2, <2>1, <3>1, NoNewCapacity DEF SSHType
  <2> QED  BY <1>7, <2>1, <2>2
<1>14. CASE ForceReconnect(d)
  <2>1. CASE listening' = {}  BY <2>1
  <2>2. CASE UNCHANGED <<ssh, probe, listening>>
    <3>1. /\ \A e \in Dialers \ {d} : pc'[e] = pc[e] /\ go'[e] = go[e]
          /\ pc[d] \notin {"unreserved", "freed", "closed"} /\ go'[d] = go[d]
          /\ UNCHANGED <<conns, ssh, probe, announcing, maintain>>
          /\ \A e \in Dialers : Blocked(e)' => Blocked(e)
      BY <1>1, <1>14, <2>2 DEF ForceReconnect
    <3> QED  BY <1>7, <1>8, <3>1
  <2> QED  BY <1>14, <2>1, <2>2 DEF ForceReconnect
<1>15. CASE Outcome(d)
  <2>1. CASE listening' = {}  BY <2>1
  <2>2. CASE listening' # {}
    <3>1. /\ \A e \in Dialers \ {d} : pc'[e] = pc[e] /\ go'[e] = go[e]
          /\ pc[d] \notin {"unreserved", "freed", "closed"} /\ go'[d] = go[d]
          /\ UNCHANGED <<conns, probe, announcing, maintain>>
          /\ \A e \in Dialers : Blocked(e)' => Blocked(e)
      BY <1>1, <1>15, <2>2 DEF Outcome, RemoveConn
    <3>2. Capacity' => Capacity
      <4>1. CASE ssh' = ssh  BY <1>8, <3>1, <4>1
      <4>2. CASE ssh' = [ssh EXCEPT ![call[d].sc].active = @ + 1]
        BY <1>1, <1>2, <1>3, <1>15, <3>1, <4>2, NoNewCapacity DEF Outcome, SSHType, HasConn
      <4> QED  BY <1>15, <4>1, <4>2 DEF Outcome
    <3> QED  BY <1>7, <3>1, <3>2
  <2> QED  BY <2>1, <2>2
<1> QED
  BY <1>5, <1>6, <1>9, <1>10, <1>11, <1>12, <1>13, <1>14, <1>15 DEF CallerStep, GoroutineStep

\* Every step of the probe, of scaling and of maintenance is announced.
LEMMA PoolAnnounced ==
  ASSUME IInv, ProbeStep \/ PoolStep \/ Maintain \/ UNCHANGED vars
  PROVE  Announced
<1> USE DEF Announced, Signal, RemoveConn, scaleVars, upkeepVars, probeVars, connVars
<1>1. ASSUME UNCHANGED <<conns, ssh, pc, go, listening, announcing, maintain>>,
             probe = "restored" => probe' = "restored"
      PROVE  Announced
  BY <1>1 DEF SignalDue, Capacity, Candidates, Blocked
<1>2. CASE ProbeFails
  <2>1. CASE probed \in conns  BY <1>2, <2>1 DEF ProbeFails
  <2>2. CASE probed \notin conns
    <3>1. conns' = conns  BY <1>2, <2>2 DEF ProbeFails
    <3> QED  BY <1>1, <1>2, <2>2, <3>1 DEF ProbeFails
  <2> QED  BY <2>1, <2>2
<1>3. CASE ProbeSucceeds
  BY <1>3 DEF ProbeSucceeds, SignalDue
<1>4. CASE SignalRestored \/ AnnounceScale \/ SignalMaintained
  BY <1>4 DEF SignalRestored, AnnounceScale, SignalMaintained
<1>5. CASE ScaleConnects
  <2>1. CASE announcing' = announcing + 1
    <3>1. announcing \in Nat
      BY ConstantsAssumption DEF IInv, Typed, TypeOK
    <3> QED  BY <2>1, <3>1 DEF SignalDue
  <2>2. CASE UNCHANGED <<conns, ssh, announcing>>
    BY <1>1, <1>5, <2>2 DEF ScaleConnects
  <2> QED  BY <1>5, <2>1, <2>2 DEF ScaleConnects
<1>6. CASE Maintain
  BY <1>6 DEF Maintain, SignalDue
<1>7. CASE UNCHANGED vars
  BY <1>1, <1>7 DEF vars, poolVars
<1> QED  BY <1>2, <1>3, <1>4, <1>5, <1>6, <1>7 DEF ProbeStep, PoolStep

-----------------------------------------------------------------------------
\* The invariant holds of a pool that has just connected.
LEMMA InitInvariant == Init => IInv
<1> SUFFICES ASSUME Init PROVE IInv  OBVIOUS
<1>1. TypeOK
  BY ConstantsAssumption DEF Init, TypeOK, NewSSH, NewCall, CallerPoints
<1>2. ScaleBounded /\ CallsShaped
  BY ConstantsAssumption DEF Init, ScaleBounded, ScaleInFlight, CallsShaped, CallShape,
     HasConn, NewCall
<1>3. SlotsAccounted
  <2>1. \A c \in Conns : InflightOn(c) = {} /\ ActiveOn(c) = {}
    BY DEF Init, InflightOn, ActiveOn, Holding, Working
  <2> QED  BY <2>1, FS_EmptySet, SlotsRestated DEF Init, NewSSH
<1>4. PendingExact
  <2>1. Abandoned = {}  BY DEF Init, Abandoned, Working
  <2> QED  BY <2>1, FS_EmptySet DEF Init, PendingExact, Abandoned
<1>5. ChannelsOwned /\ WakeupComing
  BY DEF Init, ChannelsOwned, WakeupComing, NewCall
<1> QED  BY <1>1, <1>2, <1>3, <1>4, <1>5 DEF IInv, Typed

\* Every step keeps it.
LEMMA StepInvariant == IInv /\ [Next]_vars => IInv'
<1> SUFFICES ASSUME IInv, [Next]_vars PROVE IInv'  OBVIOUS
<1>1. ASSUME NEW d \in Dialers,
             Dial(d) \/ CallerStep(d) \/ GoroutineStep(d) \/ ContextEnds(d)
             \/ ChannelOpens(d) \/ CloseConn(d)
      PROVE  IInv'
  <2>1. TypeOK' /\ ScaleBounded'  BY <1>1, DialerTyped
  <2>2. CallsShaped'  BY <1>1, ShapeStep DEF IInv
  <2>3. SlotsAccounted' /\ PendingExact' /\ ChannelsOwned'
    BY <1>1, DialerBalanced, BalancedKeeps
  <2>4. WakeupComing'  BY <1>1, DialerAnnounced, AnnouncedKeeps DEF IInv
  <2> QED  BY <2>1, <2>2, <2>3, <2>4 DEF IInv, Typed
<1>2. CASE ProbeStep \/ PoolStep \/ Maintain
  <2>1. WakeupComing'  BY <1>2, PoolAnnounced, AnnouncedKeeps DEF IInv
  <2> QED  BY <1>2, <2>1, PoolTyped, PoolBalanced DEF IInv, Typed
<1>3. CASE UNCHANGED vars
  <2>1. WakeupComing'  BY <1>3, PoolAnnounced, AnnouncedKeeps DEF IInv
  <2>2. TypeOK' /\ ScaleBounded'
    BY <1>3 DEF IInv, Typed, TypeOK, ScaleBounded, ScaleInFlight, vars, poolVars, connVars,
       scaleVars, upkeepVars, probeVars
  <2> QED  BY <1>3, <2>1, <2>2, PoolBalanced DEF IInv, Typed
<1> QED  BY <1>1, <1>2, <1>3 DEF Next

\* It holds in every behaviour of dial, scale-up, probe and maintenance
\* (pool.go:862-1281).
THEOREM DialInvariance == Spec => []IInv
<1> QED  BY InitInvariant, StepInvariant, PTL DEF Spec

\* No counter of an sshConn goes below zero, whatever races (pool.go:135-136).
THEOREM DialTypesKept == Spec => []TypeOK
<1>1. IInv => TypeOK  BY DEF IInv, Typed
<1> QED  BY <1>1, DialInvariance, PTL

\* No slot is leaked, or given back twice, between the caller of dial, its
\* goroutine and the tracked connection (pool.go:994-996).
THEOREM SlotsAlwaysAccounted == Spec => []SlotsAccounted
<1>1. IInv => SlotsAccounted  BY DEF IInv
<1> QED  BY <1>1, DialInvariance, PTL

\* pendingAbandonedDials is exact, whoever saw the context end first
\* (pool.go:1063-1128).
THEOREM PendingAlwaysExact == Spec => []PendingExact
<1>1. IInv => PendingExact  BY DEF IInv
<1> QED  BY <1>1, DialInvariance, PTL

\* No SSH channel is left open by a caller that gave up (pool.go:1079-1115).
THEOREM ChannelsAlwaysOwned == Spec => []ChannelsOwned
<1>1. IInv => ChannelsOwned  BY DEF IInv
<1> QED  BY <1>1, DialInvariance, PTL

\* No dial stays blocked past a slot that came free (pool.go:1003-1044).
THEOREM NoWakeupLost == Spec => []WakeupComing
<1>1. IInv => WakeupComing  BY DEF IInv
<1> QED  BY <1>1, DialInvariance, PTL
=============================================================================
