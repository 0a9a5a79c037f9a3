-------------------------- MODULE AdapterSendProofs --------------------------
(***************************************************************************)
(* Proofs about AdapterSend for any set of writers, window, frame sizes    *)
(* and bounds.                                                             *)
(***************************************************************************)
EXTENDS AdapterSend, FiniteSetTheorems, TLAPS

\* Where a Write call is: before nextSeq, between nextSeq and addOutgoing,
\* or past addOutgoing with its frame on the way to the WebSocket.
Unnumbered(w) == pc[w] \in {"idle", "publish", "pubWait"}
Tracking(w) == pc[w] \in {"track", "trackWait"}
InFlight(w) == pc[w] \in Sending

\* The frame a Write call holds, by its place in Write: none before nextSeq,
\* an untracked one up to addOutgoing, and one that is tracked, or already
\* acknowledged, until writeRaw returns.
Owned(w) ==
    /\ pc[w] # "idle" => todo[w] # 0
    /\ Unnumbered(w) => cur[w] = 0
    /\ cur[w] # 0 => cur[w] < seqNum /\ cur[w] \notin accepted
    /\ Tracking(w) => cur[w] # 0 /\ need[w] # 0 /\ cur[w] \notin DOMAIN outgoing
    /\ InFlight(w) => cur[w] # 0 /\ cur[w] \in rcvd \cup DOMAIN outgoing

\* nextSeq hands each number out once.
Numbered ==
    /\ \A s \in DOMAIN outgoing \cup accepted : s < seqNum
    /\ \A v, w \in Writers : v # w /\ cur[v] # 0 => cur[v] # cur[w]

Ownership == Numbered /\ \A w \in Writers : Owned(w)

\* The inductive invariant.  resendLoop and the retransmission timeout index
\* outgoing by outgoingOldestSeq, so even the types need OldestIsMinimum; that
\* needs addOutgoing never to overwrite a frame, which is Ownership.
IInv == TypeOK /\ Ownership /\ OldestIsMinimum

-----------------------------------------------------------------------------
\* The minimum of a non-empty set of naturals is its least member.
LEMMA MinIsLeast ==
  ASSUME NEW S, S \subseteq Nat, S # {}
  PROVE  /\ Min(S) \in S
         /\ \A t \in S : Min(S) <= t
<1> DEFINE R == OpToRel(<, Nat)
<1>1. PICK x \in S : \A y \in S : ~ (<<y, x>> \in R)
  BY NatLessThanWellFounded, WFMin
<1>2. \A a, b \in Nat : a < b => <<a, b>> \in R
  BY DEF OpToRel
<1> HIDE DEF R
<1>3. ASSUME NEW y \in S PROVE x <= y
  <2>1. ~(<<y, x>> \in R)  BY <1>1
  <2>2. y \in Nat /\ x \in Nat  OBVIOUS
  <2>3. ~(y < x) BY <2>1, <2>2, <1>2
  <2> QED BY <2>2, <2>3
<1> QED  BY <1>3 DEF Min

\* The oldest pointer computed from any set of keys is an integer
\* (outgoingOldestSeq = -1 stands for an empty map).
LEMMA OldestType ==
  ASSUME NEW keys, keys \subseteq Nat
  PROVE  OldestOf(keys) \in Int
<1>1. CASE keys = {}  BY <1>1 DEF OldestOf
<1>2. CASE keys # {}
  <2>1. Min(keys) \in keys  BY <1>2, MinIsLeast
  <2>2. OldestOf(keys) = Min(keys)  BY <1>2 DEF OldestOf
  <2>3. Min(keys) \in Nat  BY <2>1
  <2> QED  BY <2>2, <2>3
<1> QED  BY <1>1, <1>2

\* delete(a.outgoing, seq) removes that key and leaves the other frames alone.
LEMMA WithoutTable ==
  ASSUME NEW out, NEW s, IsFiniteSet(DOMAIN out), out \in [DOMAIN out -> Frame]
  PROVE  /\ DOMAIN Without(out, s) = DOMAIN out \ {s}
         /\ IsFiniteSet(DOMAIN Without(out, s))
         /\ Without(out, s) \in [DOMAIN Without(out, s) -> Frame]
         /\ \A t \in DOMAIN out \ {s} : Without(out, s)[t] = out[t]
<1>1. DOMAIN Without(out, s) = DOMAIN out \ {s}  BY DEF Without
<1>2. IsFiniteSet(DOMAIN out \ {s})  BY FS_RemoveElement
<1> QED  BY <1>1, <1>2 DEF Without

\* The three updates of a tracked frame keep it a frame: its timeout expiring,
\* resendLoop counting a resend, and markOutgoingForRetransmit.
LEMMA FrameUpdates ==
  ASSUME NEW f \in Frame
  PROVE  /\ [f EXCEPT !.stale = TRUE] \in Frame
         /\ [f EXCEPT !.resends = f.resends + 1, !.stale = FALSE] \in Frame
         /\ [f EXCEPT !.resends = 0, !.stale = TRUE] \in Frame
<1>1. [f EXCEPT !.stale = TRUE] \in Frame  BY DEF Frame
<1>2. ASSUME NEW n \in Nat, NEW b \in BOOLEAN
      PROVE  [f EXCEPT !.resends = n, !.stale = b] \in Frame
  <2>1. [f EXCEPT !.resends = n] \in Frame  BY DEF Frame
  <2>2. \A g \in Frame : [g EXCEPT !.stale = b] \in Frame  BY DEF Frame
  <2> QED  BY <2>1, <2>2
<1>3. f.resends + 1 \in Nat  BY DEF Frame
<1> QED  BY <1>1, <1>2, <1>3

\* Every step of Write, the resend loop, the read loop, reconnectLoop and
\* Close keeps the types.
LEMMA TypeStep ==
  ASSUME IInv, [Next]_vars
  PROVE  TypeOK'
<1> USE ThreadAssumption, SizeAssumption, BoundAssumption
    DEF TypeOK, Threads, Frame, Writing, Sending, Goto, Wake, outVars, chanVars,
        pauseVars, linkVars, timeVars, frameVars, StartClose, AfterError
<1>0. /\ TypeOK
      /\ OldestIsMinimum
      /\ \A w \in Writers : Owned(w)
  BY DEF IInv, Ownership
<1>1. ASSUME NEW w \in Writers, Write(w) PROVE TypeOK'
  BY <1>0, <1>1 DEF Write
<1>2. ASSUME NEW w \in Writers, Publish(w) PROVE TypeOK'
  <2>1. CASE ~paused
    BY <1>0, <1>2, <2>1 DEF Publish
  <2>2. CASE paused /\ deadline = "past"
    BY <1>0, <1>2, <2>2 DEF Publish, ReturnError
  <2>3. CASE paused /\ deadline # "past"
    BY <1>0, <1>2, <2>3 DEF Publish, BlockAt
  <2> QED  BY <2>1, <2>2, <2>3
<1>3. ASSUME NEW w \in Writers, Track(w) PROVE TypeOK'
  <2>1. CASE UNCHANGED outVars
    BY <1>0, <1>3, <2>1 DEF Track, BlockAt, ReturnError, Insert
  <2>2. CASE Insert(w) /\ ~WindowFull(w) /\ ~OutgoingClosed
    <3>1. cur[w] \in Nat \ {0} /\ need[w] \in ChunkSizes
      BY <1>0, <1>3 DEF Track, Owned, Tracking
    <3>2. [size |-> need[w], resends |-> 0, stale |-> FALSE] \in Frame
      BY <3>1
    <3>3. IsFiniteSet(DOMAIN outgoing \cup {cur[w]})
      BY <1>0, FS_AddElement
    <3>4. /\ DOMAIN outgoing' = DOMAIN outgoing \cup {cur[w]}
          /\ outgoing' \in [DOMAIN outgoing \cup {cur[w]} -> Frame]
      BY <1>0, <2>2, <3>2 DEF Insert
    <3>5. outgoingBytes' \in Int /\ outgoingOldestSeq' \in Int
      BY <1>0, <2>2, <3>1 DEF Insert
    <3>6. UNCHANGED <<frameVars, deadline, chanVars, pauseVars, linkVars, closeStep, reader>>
      BY <1>3, <2>2 DEF Track, WindowFull, OutgoingClosed
    <3> QED  BY <1>0, <1>3, <2>2, <3>1, <3>3, <3>4, <3>5, <3>6
         DEF Track, WindowFull, OutgoingClosed
  <2> QED  BY <1>3, <2>1, <2>2 DEF Track
<1>4. ASSUME NEW w \in Writers, Drop(w) PROVE TypeOK'
  <2>1. CASE UNCHANGED outVars
    BY <1>0, <1>4, <2>1 DEF Drop, ReturnError, Remove
  <2>2. CASE cur[w] \in DOMAIN outgoing
    <3>1. outgoing[cur[w]].size \in Int  BY <1>0, <2>2
    <3> DEFINE keys == DOMAIN outgoing \ {cur[w]}
               oldest == IF cur[w] = outgoingOldestSeq THEN OldestOf(keys)
                         ELSE outgoingOldestSeq
    <3>2. Remove(cur[w], oldest, [pc EXCEPT ![w] = "idle"])
      BY <1>4, <2>2 DEF Drop
    <3>3. oldest \in Int  BY <1>0, OldestType
    <3>4. /\ DOMAIN outgoing' \subseteq Nat \ {0} /\ IsFiniteSet(DOMAIN outgoing')
          /\ outgoing' \in [DOMAIN outgoing' -> Frame]
      <4> DEFINE out == outgoing
      <4>1. outgoing' = Without(out, cur[w])  BY <3>2 DEF Remove
      <4>2. IsFiniteSet(DOMAIN out) /\ out \in [DOMAIN out -> Frame]
            /\ DOMAIN out \subseteq Nat \ {0}
        BY <1>0
      <4> HIDE DEF out
      <4> QED  BY <4>1, <4>2, WithoutTable
    <3>5. pc' \in [Threads -> {"idle", "tick", "pick", "stopped"} \cup Writing \cup Sending]
      BY <1>0, <3>2 DEF Remove
    <3>6. outgoingBytes' \in Int /\ outgoingOldestSeq' \in Int
      BY <1>0, <3>1, <3>2, <3>3 DEF Remove
    <3> QED  BY <1>0, <1>4, <3>4, <3>5, <3>6 DEF Drop, ReturnError
  <2> QED  BY <1>4, <2>1, <2>2 DEF Drop
<1>5. ASSUME NEW t \in Threads, Connect(t) PROVE TypeOK'
  BY <1>0, <1>5 DEF Connect, BlockAt
<1>6. ASSUME NEW t \in Threads, Transmit(t) PROVE TypeOK'
  <2>1. CASE reconnecting
    BY <1>0, <1>6, <2>1 DEF Transmit
  <2>2. CASE ~reconnecting /\ conn = "up" /\ deadline # "past" /\ t = Resender
             /\ sent' = sent \cup {cur[t]}
    BY <1>0, <1>6, <2>2 DEF Transmit, Transmitted
  <2>3. CASE ~reconnecting /\ conn = "up" /\ deadline # "past" /\ t \in Writers
             /\ sent' = sent \cup {cur[t]}
    BY <1>0, <1>6, <2>3 DEF Transmit, Transmitted, Owned
  <2>4. CASE ResumeEnabled /\ StartReconnect /\ Goto(t, "connect")
             /\ UNCHANGED <<chanVars, frameVars, closeStep>>
    BY <1>0, <1>6, <2>4 DEF Transmit, StartReconnect
  <2>5. CASE StartClose /\ Goto(t, AfterError(t))
             /\ UNCHANGED <<chanVars, frameVars, linkVars>>
    BY <1>0, <1>6, <2>5 DEF Transmit
  <2>6. CASE Goto(t, AfterError(t))
             /\ UNCHANGED <<chanVars, linkVars, frameVars, closeStep>>
    BY <1>0, <1>6, <2>6 DEF Transmit
  <2> QED  BY <1>6, <2>1, <2>2, <2>3, <2>4, <2>5, <2>6 DEF Transmit
<1>7. ASSUME NEW t \in Threads, WakeOnDone(t) PROVE TypeOK'
  BY <1>0, <1>7 DEF WakeOnDone, ReturnError
<1>8. ASSUME NEW t \in Threads, TimerFires(t) PROVE TypeOK'
  BY <1>0, <1>8 DEF TimerFires
<1>9. ASSUME ResendTick PROVE TypeOK'
  BY <1>0, <1>9 DEF ResendTick
<1>10. ASSUME ResendOldest PROVE TypeOK'
  <2>1. CASE UNCHANGED <<outgoing, cur>>
    BY <1>0, <1>10, <2>1 DEF ResendOldest
  <2>2. CASE outgoing' = Refresh(outgoing, outgoingOldestSeq)
             /\ cur' = [cur EXCEPT ![Resender] = outgoingOldestSeq]
             /\ outgoingOldestSeq # -1 /\ UNCHANGED closeStep
             /\ Goto(Resender, "connect")
    <3>1. outgoingOldestSeq \in DOMAIN outgoing
      BY <1>0, <2>2, MinIsLeast DEF OldestIsMinimum, OldestOf
    <3>2. outgoing' \in [DOMAIN outgoing -> Frame] /\ DOMAIN outgoing' = DOMAIN outgoing
      BY <1>0, <2>2, <3>1, FrameUpdates DEF Refresh
    <3> QED  BY <1>0, <1>10, <2>2, <3>1, <3>2 DEF ResendOldest
  <2> QED  BY <1>10, <2>1, <2>2 DEF ResendOldest
<1>11. ASSUME Resume PROVE TypeOK'
  BY <1>0, <1>11 DEF Resume
<1>12. ASSUME MarkOutgoingForRetransmit PROVE TypeOK'
  BY <1>0, <1>12 DEF MarkOutgoingForRetransmit
<1>13. ASSUME ClearPauseForReconnect PROVE TypeOK'
  BY <1>0, <1>13 DEF ClearPauseForReconnect, ResumePublication
<1>14. ASSUME OpenGate PROVE TypeOK'
  BY <1>0, <1>14 DEF OpenGate
<1>15. ASSUME NoticeFailure PROVE TypeOK'
  <2>1. CASE ResumeEnabled
    BY <1>0, <1>15, <2>1 DEF NoticeFailure, StartReconnect
  <2>2. CASE ~ResumeEnabled
    BY <1>0, <1>15, <2>2 DEF NoticeFailure
  <2> QED  BY <2>1, <2>2
<1>16. ASSUME ReceiveAck PROVE TypeOK'
  <2>1. CASE UNCHANGED <<outVars, pc>>
    BY <1>0, <1>16, <2>1 DEF ReceiveAck
  <2>2. ASSUME NEW s \in DOMAIN outgoing,
               Remove(s, OldestAfterAck(DOMAIN outgoing \ {s}, s), pc)
        PROVE  TypeOK'
    <3>1. outgoing[s].size \in Int  BY <1>0
    <3>2. OldestAfterAck(DOMAIN outgoing \ {s}, s) \in Int
      <4> DEFINE keys == DOMAIN outgoing \ {s}
                 scan == {t \in (s + 1)..(s + MaxScan) : t \in keys}
      <4>0. DOMAIN outgoing \subseteq Nat /\ scan \subseteq DOMAIN outgoing  BY <1>0
      <4>1. ASSUME scan # {} PROVE Min(scan) \in Int
        <5> HIDE DEF scan
        <5>1. Min(scan) \in scan  BY <4>0, <4>1, MinIsLeast
        <5> QED  BY <4>0, <5>1
      <4> QED  BY <1>0, <4>1, OldestType DEF OldestAfterAck
    <3>4. /\ DOMAIN outgoing' \subseteq Nat \ {0} /\ IsFiniteSet(DOMAIN outgoing')
          /\ outgoing' \in [DOMAIN outgoing' -> Frame]
      <4> DEFINE out == outgoing
      <4>1. outgoing' = Without(out, s)  BY <2>2 DEF Remove
      <4>2. IsFiniteSet(DOMAIN out) /\ out \in [DOMAIN out -> Frame]
            /\ DOMAIN out \subseteq Nat \ {0}
        BY <1>0
      <4> HIDE DEF out
      <4> QED  BY <4>1, <4>2, WithoutTable
    <3>5. pc' \in [Threads -> {"idle", "tick", "pick", "stopped"} \cup Writing \cup Sending]
      BY <1>0, <2>2 DEF Remove
    <3>6. outgoingBytes' \in Int /\ outgoingOldestSeq' \in Int
      BY <1>0, <2>2, <3>1, <3>2 DEF Remove
    <3> QED  BY <1>0, <1>16, <3>4, <3>5, <3>6 DEF ReceiveAck
  <2> QED  BY <1>16, <2>1, <2>2 DEF ReceiveAck
<1>17. ASSUME ResumeAfterAck PROVE TypeOK'
  BY <1>0, <1>17 DEF ResumeAfterAck, ResumePublication
<1>18. ASSUME ReceivePause PROVE TypeOK'
  BY <1>0, <1>18 DEF ReceivePause
<1>24. ASSUME ReceiveStart PROVE TypeOK'
  BY <1>0, <1>24 DEF ReceiveStart, ResumePublication
<1>19. ASSUME Age PROVE TypeOK'
  <2>1. \A s \in DOMAIN outgoing : [outgoing[s] EXCEPT !.stale = TRUE] \in Frame
    BY <1>0, FrameUpdates
  <2>2. outgoing' \in [DOMAIN outgoing -> Frame]
    BY <1>0, <1>19, <2>1 DEF Age
  <2>3. DOMAIN outgoing' = DOMAIN outgoing
    BY <1>0, <1>19 DEF Age
  <2> QED  BY <1>0, <1>19, <2>2, <2>3 DEF Age
<1>20. ASSUME PauseExpires PROVE TypeOK'
  BY <1>0, <1>20 DEF PauseExpires
<1>25. ASSUME SetWriteDeadline \/ DeadlinePasses PROVE TypeOK'
  BY <1>0, <1>25 DEF SetWriteDeadline, DeadlinePasses
<1>21. ASSUME CallClose PROVE TypeOK'
  BY <1>0, <1>21 DEF CallClose
<1>26. ASSUME CloseProceeds PROVE TypeOK'
  <2>1. closeStep' \in 0..4  BY <1>0, <1>26 DEF CloseProceeds
  <2>2. CASE closeStep = 1
    <3>1. pc' = Wake(pc, "gateWait", "connect") /\ reconnecting' = FALSE /\ conn' = conn
      BY <1>26, <2>2 DEF CloseProceeds
    <3> QED  BY <1>0, <1>26, <2>1, <3>1 DEF CloseProceeds
  <2>3. CASE closeStep = 2
    BY <1>0, <1>26, <2>1, <2>3 DEF CloseProceeds
  <2>4. CASE closeStep = 3
    BY <1>0, <1>26, <2>1, <2>4 DEF CloseProceeds
  <2> QED  BY <1>26, <2>2, <2>3, <2>4 DEF CloseProceeds
<1>22. ASSUME AgentReceives \/ Disconnect PROVE TypeOK'
  BY <1>0, <1>22 DEF AgentReceives, Disconnect
<1>23. ASSUME UNCHANGED vars PROVE TypeOK'
  BY <1>0, <1>23 DEF vars
<1> QED
  BY <1>1, <1>2, <1>3, <1>4, <1>5, <1>6, <1>7, <1>8, <1>9, <1>10, <1>11,
     <1>12, <1>13, <1>14, <1>15, <1>16, <1>17, <1>18, <1>19, <1>20, <1>21,
     <1>22, <1>23, <1>24, <1>25, <1>26 DEF Next, WriterStep, SendStep, ResendStep, ReconnectStep

-----------------------------------------------------------------------------
\* What no step but Track, Drop and ReceiveAck disturbs.
SameTable ==
    /\ DOMAIN outgoing' = DOMAIN outgoing
    /\ \A s \in DOMAIN outgoing : outgoing'[s].size = outgoing[s].size
    /\ outgoingOldestSeq' = outgoingOldestSeq
    /\ outgoingBytes' = outgoingBytes

\* addOutgoing, dropOutgoing and ackOutgoing when each changes the map.
Added(w) == Track(w) /\ Insert(w) /\ ~WindowFull(w)

Dropped(w) ==
    LET s == cur[w]
    IN  /\ Drop(w) /\ s \in DOMAIN outgoing
        /\ Remove(s, IF s = outgoingOldestSeq THEN OldestOf(DOMAIN outgoing \ {s})
                     ELSE outgoingOldestSeq, [pc EXCEPT ![w] = "idle"])

Acked(s) ==
    /\ ReceiveAck /\ s \in rcvd \cap DOMAIN outgoing
    /\ Remove(s, OldestAfterAck(DOMAIN outgoing \ {s}, s), pc)

\* Every step keeps the keys, sizes, oldest pointer and byte count, or is one
\* addOutgoing, one dropOutgoing or one ackOutgoing that changes the map.
LEMMA TableStep ==
  ASSUME IInv, [Next]_vars
  PROVE  \/ SameTable
         \/ \E w \in Writers : Added(w) \/ Dropped(w)
         \/ \E s \in rcvd \cap DOMAIN outgoing : Acked(s)
<1> USE DEF SameTable, outVars
<1>0. /\ outgoing \in [DOMAIN outgoing -> Frame]
      /\ outgoingOldestSeq # -1 => outgoingOldestSeq \in DOMAIN outgoing
  BY MinIsLeast DEF IInv, TypeOK, OldestIsMinimum, OldestOf
<1>1. ASSUME UNCHANGED outVars PROVE SameTable
  BY <1>1
<1>2. ASSUME NEW w \in Writers, Track(w) PROVE SameTable \/ Added(w)
  BY <1>2, <1>1 DEF Track, Added
<1>3. ASSUME NEW w \in Writers, Drop(w) PROVE SameTable \/ Dropped(w)
  BY <1>3, <1>1 DEF Drop, Dropped
<1>4. ASSUME ReceiveAck
      PROVE  SameTable \/ \E s \in rcvd \cap DOMAIN outgoing : Acked(s)
  BY <1>4, <1>1 DEF ReceiveAck, Acked
<1>5. ASSUME ResendOldest PROVE SameTable
  <2>1. CASE UNCHANGED outgoing
    BY <1>5, <2>1 DEF ResendOldest
  <2>2. CASE /\ outgoingOldestSeq # -1
             /\ outgoing' = Refresh(outgoing, outgoingOldestSeq)
    BY <1>0, <1>5, <2>2 DEF ResendOldest, Refresh, Frame
  <2> QED  BY <1>5, <2>1, <2>2 DEF ResendOldest
<1>6. ASSUME Age PROVE SameTable
  BY <1>0, <1>6 DEF Age, Frame
<1>7. ASSUME MarkOutgoingForRetransmit PROVE SameTable
  BY <1>0, <1>7 DEF MarkOutgoingForRetransmit, Frame
<1>8. ASSUME UNCHANGED vars PROVE SameTable
  BY <1>8 DEF vars
<1>9. CASE \E w \in Writers : Write(w) \/ Publish(w)
  BY <1>9, <1>1 DEF Write, Publish
<1>10. CASE \E t \in Threads : SendStep(t)
  BY <1>10, <1>1 DEF SendStep, Connect, Transmit, WakeOnDone, TimerFires
<1>11. CASE ResendTick \/ Resume \/ ClearPauseForReconnect \/ OpenGate
  BY <1>11, <1>1 DEF ResendTick, Resume, ClearPauseForReconnect, OpenGate
<1>12. CASE NoticeFailure \/ ResumeAfterAck \/ ReceivePause \/ ReceiveStart \/ PauseExpires
  BY <1>12, <1>1 DEF NoticeFailure, ResumeAfterAck, ReceivePause, ReceiveStart, PauseExpires
<1>13. CASE SetWriteDeadline \/ DeadlinePasses \/ CallClose \/ CloseProceeds
            \/ AgentReceives \/ Disconnect
  BY <1>13, <1>1 DEF SetWriteDeadline, DeadlinePasses, CallClose, CloseProceeds,
                     AgentReceives, Disconnect
<1> QED
  BY <1>2, <1>3, <1>4, <1>5, <1>6, <1>7, <1>8, <1>9, <1>10, <1>11, <1>12, <1>13
     DEF Next, WriterStep, ResendStep, ReconnectStep

\* A lower bound of the keys that is itself a key is the oldest.
LEMMA OldestIs ==
  ASSUME NEW keys, keys \subseteq Nat, NEW x \in keys, \A y \in keys : x <= y
  PROVE  OldestOf(keys) = x
<1>1. /\ Min(keys) \in keys
      /\ Min(keys) <= x
  BY MinIsLeast
<1>2. x <= Min(keys)  BY <1>1
<1>3. OldestOf(keys) = Min(keys)  BY DEF OldestOf
<1>4. Min(keys) \in Nat /\ x \in Nat  BY <1>1
<1> QED  BY <1>1, <1>2, <1>3, <1>4

\* The oldest is -1 for an empty map, otherwise a key and a lower bound.
LEMMA OldestMember ==
  ASSUME NEW keys, keys \subseteq Nat
  PROVE  /\ keys = {} => OldestOf(keys) = -1
         /\ keys # {} => /\ OldestOf(keys) \in keys
                         /\ \A y \in keys : OldestOf(keys) <= y
<1>1. CASE keys = {}  BY <1>1 DEF OldestOf
<1>2. CASE keys # {}
  <2>1. OldestOf(keys) = Min(keys)  BY <1>2 DEF OldestOf
  <2> QED  BY <1>2, <2>1, MinIsLeast
<1> QED  BY <1>1, <1>2

\* addOutgoing, dropOutgoing and the bounded scan of ackOutgoing keep the
\* oldest pointer at the minimum.
LEMMA OldestStep ==
  ASSUME IInv, [Next]_vars
  PROVE  OldestIsMinimum'
<1> DEFINE keys == DOMAIN outgoing
           o == outgoingOldestSeq
<1>0. /\ keys \subseteq Nat \ {0}
      /\ o = OldestOf(keys)
      /\ o \in Int
      /\ MaxScan \in Nat
  BY BoundAssumption DEF IInv, TypeOK, OldestIsMinimum
<1>1. CASE SameTable
  BY <1>0, <1>1 DEF SameTable, OldestIsMinimum
<1>2. ASSUME NEW w \in Writers, Added(w) PROVE OldestIsMinimum'
  <2> DEFINE c == cur[w]
  <2>1. DOMAIN outgoing' = keys \cup {c}
    BY <1>2 DEF Added, Insert
  <2>2. outgoingOldestSeq' = IF o = -1 \/ c < o THEN c ELSE o
    BY <1>2 DEF Added, Insert
  <2>3. c \in Nat
    BY <1>2 DEF IInv, TypeOK, Threads
  <2>4. DOMAIN outgoing' \subseteq Nat  BY <1>0, <2>1, <2>3
  <2> HIDE DEF c
  <2>5. CASE keys = {}
    <3>1. o = -1  BY <1>0, <2>5, OldestMember
    <3>2. OldestOf({c}) = c  BY <2>3, OldestIs
    <3> QED  BY <2>1, <2>2, <2>5, <3>1, <3>2 DEF OldestIsMinimum
  <2>6. CASE keys # {}
    <3>1. o \in keys /\ \A y \in keys : o <= y  BY <1>0, <2>6, OldestMember
    <3> DEFINE m == outgoingOldestSeq'
    <3>2. m \in keys \cup {c}  BY <2>2, <3>1
    <3>3. \A y \in keys \cup {c} : m <= y
      BY <1>0, <2>2, <2>3, <3>1
    <3> HIDE DEF m, keys
    <3>4. OldestOf(keys \cup {c}) = m  BY <2>1, <2>4, <3>2, <3>3, OldestIs
    <3> QED  BY <2>1, <3>4 DEF OldestIsMinimum, m
  <2> QED  BY <2>5, <2>6
<1>3. ASSUME NEW w \in Writers, Dropped(w) PROVE OldestIsMinimum'
  <2> DEFINE s == cur[w]
             left == keys \ {s}
  <2>1. s \in keys  BY <1>3 DEF Dropped
  <2>2. DOMAIN outgoing' = left
    BY <1>3 DEF Dropped, Remove, Without
  <2>3. outgoingOldestSeq' = IF s = o THEN OldestOf(left) ELSE o
    BY <1>3 DEF Dropped, Remove
  <2>4. CASE s = o  BY <2>2, <2>3, <2>4 DEF OldestIsMinimum
  <2>5. CASE s # o
    <3>1. o \in keys /\ \A y \in keys : o <= y  BY <1>0, <2>1, OldestMember
    <3>2. o \in left /\ (\A y \in left : o <= y) /\ left \subseteq Nat
      BY <1>0, <2>5, <3>1
    <3> HIDE DEF left, o
    <3>3. OldestOf(left) = o  BY <3>2, OldestIs
    <3> QED  BY <2>2, <2>3, <2>5, <3>3 DEF OldestIsMinimum, o
  <2> QED  BY <2>4, <2>5
<1>4. ASSUME NEW s \in rcvd \cap DOMAIN outgoing, Acked(s) PROVE OldestIsMinimum'
  <2> DEFINE left == keys \ {s}
             scan == {t \in (s + 1)..(s + MaxScan) : t \in left}
  <2>1. o \in keys /\ \A y \in keys : o <= y  BY <1>0, OldestMember
  <2>2. DOMAIN outgoing' = left
    BY <1>4 DEF Acked, Remove, Without
  <2>3. outgoingOldestSeq' = IF left # {} /\ s # o THEN o
                             ELSE IF scan # {} THEN Min(scan) ELSE OldestOf(left)
    BY <1>4 DEF Acked, Remove, OldestAfterAck
  <2>4. left \subseteq Nat  BY <1>0
  <2>5. CASE s # o
    <3>1. left # {} /\ o \in left /\ \A y \in left : o <= y  BY <2>1, <2>5
    <3>2. outgoingOldestSeq' = o  BY <2>3, <2>5, <3>1
    <3> HIDE DEF left, o
    <3>3. OldestOf(left) = o  BY <2>4, <3>1, OldestIs
    <3> QED  BY <2>2, <3>2, <3>3 DEF OldestIsMinimum
  <2>6. CASE s = o /\ scan = {}
    BY <2>2, <2>3, <2>6 DEF OldestIsMinimum
  <2>7. CASE s = o /\ scan # {}
    <3>1. Min(scan) \in scan /\ \A y \in scan : Min(scan) <= y
      <4>1. scan \subseteq Nat  BY <2>4
      <4> QED  BY <2>7, <4>1, MinIsLeast
    <3>2. Min(scan) \in left /\ Min(scan) \in s..(s + MaxScan)
      BY <1>0, <3>1
    <3>3. ASSUME NEW y \in left PROVE Min(scan) <= y
      <4>1. y > s  BY <1>0, <2>1, <2>7
      <4>2. CASE y \in scan  BY <3>1, <4>2
      <4>3. CASE y \notin scan
        <5>1. y > s + MaxScan  BY <1>0, <4>1, <4>3
        <5> QED  BY <1>0, <3>2, <5>1
      <4> QED  BY <4>2, <4>3
    <3>4. outgoingOldestSeq' = Min(scan)  BY <2>3, <2>7
    <3> DEFINE m == Min(scan)
    <3>5. m \in left /\ \A y \in left : m <= y  BY <3>2, <3>3
    <3> HIDE DEF m, left
    <3>6. OldestOf(left) = m  BY <2>4, <3>5, OldestIs
    <3> QED  BY <2>2, <3>4, <3>6 DEF OldestIsMinimum, m
  <2> QED  BY <2>5, <2>6, <2>7
<1> QED  BY <1>1, <1>2, <1>3, <1>4, TableStep

-----------------------------------------------------------------------------
\* Waking the threads parked at p moves no writer out of its part of Write.
LEMMA WakeKeepsPlace ==
  ASSUME NEW f, NEW w \in Threads,
         NEW p, NEW q, <<p, q>> \in {<<"pubWait", "publish">>, <<"trackWait", "track">>,
                                    <<"gateWait", "connect">>}
  PROVE  LET g == Wake(f, p, q)
         IN  /\ (g[w] = "idle") <=> (f[w] = "idle")
             /\ (g[w] \in {"idle", "publish", "pubWait"})
                   <=> (f[w] \in {"idle", "publish", "pubWait"})
             /\ (g[w] \in {"track", "trackWait"}) <=> (f[w] \in {"track", "trackWait"})
             /\ (g[w] \in Sending) <=> (f[w] \in Sending)
  BY DEF Wake, Sending

\* A step that leaves w where it is in Write keeps Owned(w), if it neither
\* tracks, loses nor accepts the frame w holds.
LEMMA OwnedStable ==
  ASSUME NEW w \in Writers, Owned(w), TypeOK,
         (pc[w] = "idle") <=> (pc'[w] = "idle"), Unnumbered(w) <=> Unnumbered(w)',
         Tracking(w) <=> Tracking(w)', InFlight(w) <=> InFlight(w)',
         cur'[w] = cur[w], todo'[w] = todo[w], need'[w] = need[w],
         seqNum <= seqNum', seqNum' \in Nat, rcvd \subseteq rcvd',
         cur[w] # 0 =>
            /\ cur[w] \in accepted' => cur[w] \in accepted
            /\ cur[w] \in DOMAIN outgoing' => cur[w] \in DOMAIN outgoing
            /\ cur[w] \in DOMAIN outgoing => cur[w] \in DOMAIN outgoing' \cup rcvd'
  PROVE  Owned(w)'
<1>1. cur[w] \in Nat /\ seqNum \in Nat  BY DEF TypeOK, Threads
<1> QED  BY <1>1 DEF Owned

\* Every step keeps each Write call in possession of the frame its place in
\* Write says it has.
LEMMA OwnedStep ==
  ASSUME IInv, [Next]_vars, NEW w \in Writers
  PROVE  Owned(w)'
<1> USE ThreadAssumption
    DEF outVars, chanVars, pauseVars, linkVars, timeVars, frameVars, Goto, Threads
<1>0. /\ TypeOK /\ TypeOK'
      /\ Owned(w)
      /\ \A v \in Writers : Owned(v)
      /\ \A v \in Writers : v # w /\ cur[v] # 0 => cur[v] # cur[w]
      /\ \A s \in DOMAIN outgoing \cup accepted : s < seqNum
      /\ w \in Threads /\ w # Resender
  BY TypeStep DEF IInv, Ownership, Numbered
<1> DEFINE Types ==
      /\ pc \in [Threads -> {"idle", "tick", "pick", "stopped"} \cup Writing \cup Sending]
      /\ cur \in [Threads -> Nat] /\ need \in [Writers -> ChunkSizes \cup {0}]
      /\ todo \in [Writers -> Nat] /\ budget \in Nat /\ seqNum \in Nat
<1>t. Types  BY <1>0 DEF TypeOK
<1>1. ASSUME NEW v \in Writers, Write(v) PROVE Owned(w)'
  <2>1. CASE v = w
    BY <1>0, <1>t, <1>1, <2>1 DEF Write, Owned, Unnumbered, Tracking, InFlight, Sending
  <2>2. CASE v # w
    BY <1>0, <1>t, <1>1, <2>2, OwnedStable DEF Write, Unnumbered, Tracking, InFlight
  <2> QED  BY <2>1, <2>2
<1>2. ASSUME NEW v \in Writers, Publish(v) PROVE Owned(w)'
  <2>1. CASE v = w
    <3>1. CASE ~paused
      <4>1. /\ cur'[w] = seqNum /\ seqNum' = seqNum + 1 /\ pc'[w] = "track"
            /\ need'[w] \in ChunkSizes /\ todo' = todo /\ pc[w] = "publish"
            /\ UNCHANGED <<outgoing, accepted, rcvd>>
        BY <1>0, <1>t, <1>2, <2>1, <3>1 DEF Publish
      <4>2. seqNum \in Nat \ {0} /\ 0 \notin ChunkSizes
        BY <1>0, SizeAssumption DEF TypeOK
      <4>3. seqNum \notin DOMAIN outgoing /\ seqNum \notin accepted
        BY <1>0, <4>2
      <4> QED  BY <1>0, <4>1, <4>2, <4>3 DEF Owned, Unnumbered, Tracking, InFlight, Sending
    <3>2. CASE paused
      BY <1>0, <1>t, <1>2, <2>1, <3>2
         DEF Publish, BlockAt, ReturnError, Owned, Unnumbered, Tracking, InFlight,
             Sending
    <3> QED  BY <3>1, <3>2
  <2>2. CASE v # w
    BY <1>0, <1>t, <1>2, <2>2, OwnedStable
       DEF Publish, BlockAt, ReturnError, Unnumbered, Tracking, InFlight
  <2> QED  BY <2>1, <2>2
<1>3. ASSUME NEW v \in Writers, Track(v) PROVE Owned(w)'
  <2>1. CASE v = w
    BY <1>0, <1>t, <1>3, <2>1
       DEF Track, Insert, BlockAt, ReturnError, Owned, Unnumbered, Tracking, InFlight,
           Sending
  <2>2. CASE v # w
    BY <1>0, <1>t, <1>3, <2>2, OwnedStable
       DEF Track, Insert, BlockAt, ReturnError, Unnumbered, Tracking, InFlight
  <2> QED  BY <2>1, <2>2
<1>4. ASSUME NEW v \in Writers, Drop(v) PROVE Owned(w)'
  <2>1. CASE v = w
    BY <1>0, <1>t, <1>4, <2>1
       DEF Drop, Remove, Wake, ReturnError, Owned, Unnumbered, Tracking, InFlight,
           Sending
  <2>2. CASE v # w
    <3> DEFINE f == [pc EXCEPT ![v] = "idle"]
    <3>1. f[w] = pc[w]  BY <1>0, <1>t, <2>2
    <3>2. pc' = f \/ pc' = Wake(f, "trackWait", "track")
      BY <1>4 DEF Drop, Remove
    <3> HIDE DEF f
    <3>3. /\ (pc[w] = "idle") <=> (pc'[w] = "idle")
          /\ Unnumbered(w) <=> Unnumbered(w)'
          /\ Tracking(w) <=> Tracking(w)'
          /\ InFlight(w) <=> InFlight(w)'
      <4>1. CASE pc' = f  BY <3>1, <4>1 DEF Unnumbered, Tracking, InFlight
      <4>2. CASE pc' = Wake(f, "trackWait", "track")
        BY <1>0, <3>1, <4>2, WakeKeepsPlace DEF Unnumbered, Tracking, InFlight
      <4> QED  BY <3>2, <4>1, <4>2
    <3>4. DOMAIN outgoing' = DOMAIN outgoing \/ DOMAIN outgoing' = DOMAIN outgoing \ {cur[v]}
      BY <1>4 DEF Drop, Remove, Without
    <3>5. cur[w] # 0 => cur[v] # cur[w]
      BY <1>0, <2>2
    <3>6. /\ cur'[w] = cur[w] /\ todo'[w] = todo[w] /\ need'[w] = need[w]
          /\ UNCHANGED <<seqNum, accepted, rcvd>>
      BY <1>0, <1>t, <1>4, <2>2 DEF Drop, ReturnError
    <3> QED  BY <1>0, <1>t, <3>3, <3>4, <3>5, <3>6, OwnedStable
  <2> QED  BY <2>1, <2>2
<1>5. ASSUME NEW t \in Threads, Connect(t) PROVE Owned(w)'
  <2>1. CASE t = w
    BY <1>0, <1>t, <1>5, <2>1
       DEF Connect, BlockAt, AfterError, Owned, Unnumbered, Tracking, InFlight, Sending
  <2>2. CASE t # w
    BY <1>0, <1>t, <1>5, <2>2, OwnedStable
       DEF Connect, BlockAt, Unnumbered, Tracking, InFlight
  <2> QED  BY <2>1, <2>2
<1>6. ASSUME NEW t \in Threads, Transmit(t) PROVE Owned(w)'
  <2>1. CASE t = w
    BY <1>0, <1>t, <1>6, <2>1
       DEF Transmit, Transmitted, AfterError, Owned, Unnumbered, Tracking, InFlight,
           Sending
  <2>2. CASE t # w
    BY <1>0, <1>t, <1>6, <2>2, OwnedStable
       DEF Transmit, Transmitted, Unnumbered, Tracking, InFlight
  <2> QED  BY <2>1, <2>2
<1>7. ASSUME NEW t \in Threads, WakeOnDone(t) PROVE Owned(w)'
  <2>1. CASE t = w
    BY <1>0, <1>t, <1>7, <2>1
       DEF WakeOnDone, ReturnError, AfterError, Owned, Unnumbered, Tracking, InFlight,
           Sending
  <2>2. CASE t # w
    BY <1>0, <1>t, <1>7, <2>2, OwnedStable
       DEF WakeOnDone, ReturnError, Unnumbered, Tracking, InFlight
  <2> QED  BY <2>1, <2>2
<1>8. ASSUME NEW t \in Threads, TimerFires(t) PROVE Owned(w)'
  <2>1. CASE pc[t] = "pubWait"
    BY <1>0, <1>t, <1>8, <2>1, OwnedStable
       DEF TimerFires, Owned, Unnumbered, Tracking, InFlight, Sending
  <2>2. CASE pc[t] = "gateWait"
    BY <1>0, <1>t, <1>8, <2>2, OwnedStable
       DEF TimerFires, AfterError, Owned, Unnumbered, Tracking, InFlight, Sending
  <2>3. CASE pc[t] \notin {"pubWait", "gateWait"}
    BY <1>0, <1>t, <1>8, <2>3, OwnedStable, WakeKeepsPlace
       DEF TimerFires, Unnumbered, Tracking, InFlight
  <2> QED  BY <2>1, <2>2, <2>3
<1>9. ASSUME ReceiveAck PROVE Owned(w)'
  BY <1>0, <1>t, <1>9, OwnedStable, WakeKeepsPlace
     DEF ReceiveAck, Remove, Without, Unnumbered, Tracking, InFlight
<1>10. ASSUME ResendTick \/ ResendOldest PROVE Owned(w)'
  BY <1>0, <1>t, <1>10, OwnedStable
     DEF ResendTick, ResendOldest, Refresh, Unnumbered, Tracking, InFlight
<1>11. ASSUME ReconnectStep PROVE Owned(w)'
  <2>1. CASE Resume
    BY <1>0, <1>t, <2>1, OwnedStable DEF Resume, Unnumbered, Tracking, InFlight
  <2>3. CASE MarkOutgoingForRetransmit
    <3>1. DOMAIN outgoing' = DOMAIN outgoing
      BY <2>3 DEF MarkOutgoingForRetransmit
    <3>2. /\ pc' = Wake(pc, "trackWait", "track")
          /\ UNCHANGED <<cur, todo, need, seqNum, rcvd, accepted>>
      BY <2>3 DEF MarkOutgoingForRetransmit
    <3> QED  BY <1>0, <1>t, <3>1, <3>2, OwnedStable, WakeKeepsPlace
         DEF Unnumbered, Tracking, InFlight
  <2>2. CASE ClearPauseForReconnect \/ OpenGate
    BY <1>0, <1>t, <2>2, OwnedStable, WakeKeepsPlace
       DEF ClearPauseForReconnect, ResumePublication, OpenGate, Unnumbered, Tracking,
           InFlight
  <2> QED  BY <1>11, <2>1, <2>2, <2>3 DEF ReconnectStep
<1>12. ASSUME ResumeAfterAck \/ ReceiveStart \/ SetWriteDeadline \/ CloseProceeds
      PROVE Owned(w)'
  BY <1>0, <1>t, <1>12, OwnedStable, WakeKeepsPlace
     DEF ResumeAfterAck, ReceiveStart, ResumePublication, SetWriteDeadline,
         CloseProceeds, Unnumbered, Tracking, InFlight
<1>13. ASSUME NoticeFailure \/ ReceivePause \/ Age \/ PauseExpires \/ DeadlinePasses \/ CallClose
      PROVE Owned(w)'
  BY <1>0, <1>t, <1>13, OwnedStable
     DEF NoticeFailure, StartReconnect, ReceivePause, Age, PauseExpires, DeadlinePasses,
         CallClose, Unnumbered, Tracking, InFlight
<1>14. ASSUME AgentReceives \/ Disconnect \/ UNCHANGED vars PROVE Owned(w)'
  BY <1>0, <1>t, <1>14, OwnedStable
     DEF AgentReceives, Disconnect, vars, Unnumbered, Tracking, InFlight
<1> QED
  BY <1>1, <1>2, <1>3, <1>4, <1>5, <1>6, <1>7, <1>8, <1>9, <1>10, <1>11, <1>12,
     <1>13, <1>14 DEF Next, WriterStep, SendStep, ResendStep

\* Sequence numbers are unique and below seqNum.
LEMMA NumberedStep ==
  ASSUME IInv, [Next]_vars
  PROVE  Numbered'
<1> USE ThreadAssumption
    DEF outVars, chanVars, pauseVars, linkVars, timeVars, frameVars, Threads
<1>0. /\ Numbered /\ TypeOK
      /\ \A v \in Writers : Owned(v)
      /\ cur \in [Threads -> Nat] /\ seqNum \in Nat
      /\ DOMAIN outgoing \subseteq Nat /\ accepted \subseteq Nat
  BY DEF IInv, Ownership, TypeOK
<1> DEFINE SameNumbers ==
      /\ seqNum' = seqNum /\ accepted' = accepted
      /\ DOMAIN outgoing' \subseteq DOMAIN outgoing
      /\ \A v \in Writers : cur'[v] \in {cur[v], 0}
<1>s. ASSUME SameNumbers PROVE Numbered'
  BY <1>0, <1>s DEF Numbered
<1>1. ASSUME NEW v \in Writers, Publish(v), ~paused PROVE Numbered'
  <2>1. /\ cur' = [cur EXCEPT ![v] = seqNum] /\ seqNum' = seqNum + 1
        /\ UNCHANGED <<accepted, outgoing>>
    BY <1>1 DEF Publish
  <2>2. \A u \in Writers : cur[u] # 0 => cur[u] < seqNum
    BY <1>0 DEF Owned
  <2>3. \A s \in DOMAIN outgoing' \cup accepted' : s < seqNum'
    <3>1. \A s \in DOMAIN outgoing \cup accepted : s \in Nat /\ s < seqNum
      BY <1>0 DEF Numbered
    <3>2. \A s \in DOMAIN outgoing \cup accepted : s < seqNum + 1
      BY <1>0, <3>1
    <3> QED  BY <2>1, <3>2
  <2>4. ASSUME NEW a \in Writers, NEW b \in Writers, a # b, cur'[a] # 0
        PROVE  cur'[a] # cur'[b]
    BY <1>0, <2>1, <2>2, <2>4 DEF Numbered
  <2> QED  BY <2>3, <2>4 DEF Numbered
<1>2. ASSUME NEW v \in Writers, Track(v), Insert(v), UNCHANGED <<cur, seqNum>>
      PROVE Numbered'
  <2>1. DOMAIN outgoing' = DOMAIN outgoing \cup {cur[v]} /\ accepted' = accepted
    BY <1>2 DEF Track, Insert
  <2>2. cur[v] < seqNum
    BY <1>0, <1>2 DEF Track, Owned, Tracking
  <2> QED  BY <1>0, <1>2, <2>1, <2>2 DEF Numbered
<1>3. ASSUME NEW t \in Threads, Transmit(t) PROVE Numbered'
  <2>1. CASE SameNumbers  BY <1>s, <2>1
  <2>2. CASE /\ t \in Writers /\ accepted' = accepted \cup {cur[t]}
             /\ cur' = [cur EXCEPT ![t] = 0]
    <3>1. cur[t] < seqNum
      BY <1>0, <1>3, <2>2 DEF Transmit, Owned, InFlight, Sending
    <3>2. UNCHANGED <<seqNum, outgoing>>
      BY <1>3, <2>2 DEF Transmit
    <3> QED  BY <1>0, <2>2, <3>1, <3>2 DEF Numbered
  <2> QED  BY <1>0, <1>3, <2>1, <2>2 DEF Transmit, Transmitted
<1>4. ASSUME NEW v \in Writers, Write(v) \/ (Publish(v) /\ paused)
             \/ (Track(v) /\ UNCHANGED outVars) \/ Drop(v)
      PROVE  Numbered'
  <2>1. SameNumbers
    BY <1>0, <1>4 DEF Write, Publish, Track, Drop, ReturnError, Remove, Without
  <2> QED  BY <2>1, <1>s
<1>5. ASSUME NEW t \in Threads, Connect(t) \/ WakeOnDone(t) \/ TimerFires(t)
      PROVE  Numbered'
  <2>1. SameNumbers
    BY <1>0, <1>5 DEF Connect, WakeOnDone, ReturnError, TimerFires
  <2> QED  BY <2>1, <1>s
<1>6. ASSUME ReceiveAck PROVE SameNumbers
  BY <1>0, <1>6 DEF ReceiveAck, Remove, Without
<1>7. ASSUME ResendStep \/ ReconnectStep \/ NoticeFailure PROVE SameNumbers
  BY <1>0, <1>7 DEF ResendStep, ResendTick, ResendOldest, Refresh, ReconnectStep, Resume,
                    MarkOutgoingForRetransmit, ClearPauseForReconnect, OpenGate, NoticeFailure
<1>8. ASSUME ResumeAfterAck \/ ReceivePause \/ ReceiveStart \/ Age \/ PauseExpires
      PROVE SameNumbers
  BY <1>0, <1>8 DEF ResumeAfterAck, ReceivePause, ReceiveStart, Age, PauseExpires
<1>9. ASSUME SetWriteDeadline \/ DeadlinePasses \/ CallClose \/ CloseProceeds
             \/ AgentReceives \/ Disconnect \/ UNCHANGED vars
      PROVE SameNumbers
  BY <1>0, <1>9 DEF SetWriteDeadline, DeadlinePasses, CallClose, CloseProceeds,
                    AgentReceives, Disconnect, vars
<1> HIDE DEF SameNumbers
<1>10. ASSUME NEW v \in Writers, Track(v) PROVE Numbered'
  BY <1>2, <1>4, <1>10 DEF Track
<1>11. ASSUME NEW v \in Writers, Write(v) \/ WriterStep(v) PROVE Numbered'
  BY <1>1, <1>4, <1>10, <1>11 DEF WriterStep
<1>12. ASSUME NEW t \in Threads, SendStep(t) PROVE Numbered'
  BY <1>3, <1>5, <1>12 DEF SendStep
<1> QED
  BY <1>s, <1>11, <1>12, <1>6, <1>7, <1>8, <1>9 DEF Next

\* The adapter starts, after the handshake, in a state that satisfies IInv.
LEMMA InitIInv ==
  ASSUME Init
  PROVE  IInv
<1> USE ThreadAssumption, BoundAssumption DEF Init, Threads
<1>1. TypeOK
  <2>1. /\ DOMAIN outgoing = {} /\ IsFiniteSet(DOMAIN outgoing)
        /\ outgoing \in [DOMAIN outgoing -> Frame]
    BY FS_EmptySet
  <2>2. pc \in [Threads -> {"idle", "tick", "pick", "stopped"} \cup Writing \cup Sending]
    OBVIOUS
  <2>3. /\ cur \in [Threads -> Nat] /\ need \in [Writers -> ChunkSizes \cup {0}]
        /\ todo \in [Writers -> Nat] /\ budget \in Nat
    OBVIOUS
  <2>4. /\ sent \subseteq Nat /\ rcvd \subseteq Nat /\ accepted \subseteq Nat
        /\ timed \subseteq Threads /\ closeStep \in 0..4
    OBVIOUS
  <2>5. DOMAIN outgoing \subseteq Nat \ {0}  BY <2>1
  <2>6. seqNum \in Nat \ {0} /\ pauses \in Nat /\ drops \in Nat
        /\ outgoingOldestSeq \in Int /\ outgoingBytes \in Int
    OBVIOUS
  <2>7. /\ paused \in BOOLEAN /\ pausedLong \in BOOLEAN /\ reconnecting \in BOOLEAN
        /\ conn \in {"up", "down", "nil"} /\ rc \in {"none", "dial", "mark", "unpause", "gate"}
        /\ reader \in {"read", "resume"} /\ deadline \in {"unset", "armed", "past"}
    OBVIOUS
  <2> HIDE DEF Init
  <2> QED  BY <2>1, <2>2, <2>3, <2>4, <2>5, <2>6, <2>7 DEF TypeOK
<1>2. Ownership
  BY DEF Ownership, Numbered, Owned, Unnumbered, Tracking, InFlight, Sending
<1>3. OldestIsMinimum
  BY DEF OldestIsMinimum, OldestOf
<1> QED  BY <1>1, <1>2, <1>3 DEF IInv

\* IInv is inductive.
LEMMA IInvStep ==
  ASSUME IInv, [Next]_vars
  PROVE  IInv'
  BY TypeStep, OldestStep, NumberedStep, OwnedStep DEF IInv, Ownership

\* IInv holds in every reachable state of the sending half.
THEOREM Invariance == Spec => []IInv
<1>1. Init => IInv  BY InitIInv
<1>2. IInv /\ [Next]_vars => IInv'  BY IInvStep
<1> QED  BY <1>1, <1>2, PTL DEF Spec

\* Every field of Adapter the sending half uses (adapter.go:132-209) keeps its
\* type; in particular resendLoop's outgoing[outgoingOldestSeq] is always a
\* tracked frame when the pointer is not -1.
THEOREM TypeCorrect == Spec => []TypeOK
<1>1. IInv => TypeOK  BY DEF IInv
<1> QED  BY <1>1, Invariance, PTL

\* outgoingOldestSeq is the smallest tracked sequence number, or -1, after any
\* interleaving of addOutgoing, ackOutgoing and dropOutgoing, for any length of
\* the sequential scan (adapter.go:382, 444, 495).
THEOREM OldestCorrect == Spec => []OldestIsMinimum
<1>1. IInv => OldestIsMinimum  BY DEF IInv
<1> QED  BY <1>1, Invariance, PTL

-----------------------------------------------------------------------------
\* ackOutgoing removes only what the agent has, and dropOutgoing only the frame
\* of a Write that fails, which was not counted as written.
LEMMA AcceptedStep ==
  ASSUME IInv, AcceptedNotLost, [Next]_vars
  PROVE  AcceptedNotLost'
<1> USE ThreadAssumption
    DEF outVars, chanVars, pauseVars, linkVars, timeVars, frameVars, Threads
<1> DEFINE Held == rcvd \cup DOMAIN outgoing
<1>0. /\ \A v \in Writers : Owned(v)
      /\ accepted \subseteq Held /\ accepted \subseteq Nat
      /\ DOMAIN outgoing \subseteq Nat \ {0}
  BY DEF IInv, Ownership, TypeOK, AcceptedNotLost
<1>1. CASE Held \subseteq Held' /\ accepted' = accepted
  BY <1>0, <1>1 DEF AcceptedNotLost
<1>2. ASSUME NEW t \in Threads, Transmit(t) PROVE AcceptedNotLost'
  <2>1. UNCHANGED <<rcvd, outgoing>>  BY <1>2 DEF Transmit
  <2>2. CASE accepted' = accepted  BY <1>0, <2>1, <2>2 DEF AcceptedNotLost
  <2>3. CASE t \in Writers /\ accepted' = accepted \cup {cur[t]}
    <3>1. cur[t] \in Held
      BY <1>0, <1>2, <2>3 DEF Transmit, Owned, InFlight, Sending
    <3> QED  BY <1>0, <2>1, <2>3, <3>1 DEF AcceptedNotLost
  <2> QED  BY <1>2, <2>2, <2>3 DEF Transmit, Transmitted
<1>3. ASSUME NEW v \in Writers, Drop(v) PROVE AcceptedNotLost'
  <2>1. UNCHANGED <<rcvd, accepted>>  BY <1>3 DEF Drop
  <2>2. DOMAIN outgoing \subseteq DOMAIN outgoing' \cup {cur[v]}
    BY <1>3 DEF Drop, Remove, Without
  <2>3. cur[v] \in DOMAIN outgoing => cur[v] \notin accepted
    BY <1>0 DEF Owned
  <2> QED  BY <1>0, <2>1, <2>2, <2>3 DEF AcceptedNotLost
<1>4. ASSUME ReceiveAck PROVE AcceptedNotLost'
  BY <1>0, <1>4 DEF ReceiveAck, Remove, Without, AcceptedNotLost
<1>5. ASSUME NEW v \in Writers, Write(v) \/ Publish(v) \/ Track(v) PROVE AcceptedNotLost'
  BY <1>0, <1>5 DEF Write, Publish, Track, Insert, AcceptedNotLost
<1>6. ASSUME NEW t \in Threads, Connect(t) \/ WakeOnDone(t) \/ TimerFires(t)
      PROVE  AcceptedNotLost'
  BY <1>0, <1>6 DEF Connect, WakeOnDone, TimerFires, AcceptedNotLost
<1>7. ASSUME ResendStep \/ ReconnectStep \/ NoticeFailure PROVE AcceptedNotLost'
  BY <1>0, <1>7 DEF ResendStep, ResendTick, ResendOldest, Refresh, ReconnectStep, Resume,
                    MarkOutgoingForRetransmit, ClearPauseForReconnect, OpenGate, NoticeFailure,
                    AcceptedNotLost
<1>8. ASSUME ResumeAfterAck \/ ReceivePause \/ ReceiveStart \/ Age \/ PauseExpires
      PROVE  AcceptedNotLost'
  BY <1>0, <1>8
     DEF ResumeAfterAck, ReceivePause, ReceiveStart, Age, PauseExpires, AcceptedNotLost
<1>9. ASSUME SetWriteDeadline \/ DeadlinePasses \/ CallClose \/ CloseProceeds
             \/ AgentReceives \/ Disconnect \/ UNCHANGED vars
      PROVE AcceptedNotLost'
  BY <1>0, <1>9 DEF SetWriteDeadline, DeadlinePasses, CallClose, CloseProceeds,
                    AgentReceives, Disconnect, vars, AcceptedNotLost
<1> QED
  BY <1>2, <1>3, <1>4, <1>5, <1>6, <1>7, <1>8, <1>9 DEF Next, WriterStep, SendStep

\* A chunk Write counted as written (adapter.go:894) is at the agent or still
\* in outgoing, whatever the order of acknowledgements, failed writes, resumes
\* and Close.
THEOREM AcceptedKept == Spec => []AcceptedNotLost
<1>1. Init => AcceptedNotLost  BY DEF Init, AcceptedNotLost
<1>2. IInv /\ AcceptedNotLost /\ [Next]_vars => AcceptedNotLost'  BY AcceptedStep
<1> QED  BY <1>1, <1>2, Invariance, PTL DEF Spec

-----------------------------------------------------------------------------
\* A finite map holds finitely many bytes.
LEMMA BytesFinite ==
  ASSUME NEW out, IsFiniteSet(DOMAIN out)
  PROVE  IsFiniteSet(UnackedBytes(out))
<1>1. IsFiniteSet(1..Window)  BY SizeAssumption, FS_Interval
<1>2. IsFiniteSet((DOMAIN out) \X (1..Window))  BY <1>1, FS_Product
<1> QED  BY <1>2, FS_Subset DEF UnackedBytes

\* One frame more in the table is its size more in bytes.
LEMMA BytesOfOneMore ==
  ASSUME NEW big, NEW small, NEW s, NEW n \in 1..Window,
         IsFiniteSet(DOMAIN small), s \notin DOMAIN small,
         DOMAIN big = DOMAIN small \cup {s}, big[s].size = n,
         \A t \in DOMAIN small : big[t].size = small[t].size
  PROVE  /\ Cardinality(UnackedBytes(big)) = Cardinality(UnackedBytes(small)) + n
         /\ Cardinality(UnackedBytes(small)) \in Nat
<1> DEFINE new == {s} \X (1..n)
<1>1. UnackedBytes(big) = UnackedBytes(small) \cup new
  <2>1. \A b \in (DOMAIN big) \X (1..Window) :
           b \in UnackedBytes(big) <=> b \in UnackedBytes(small) \cup new
    BY SizeAssumption DEF UnackedBytes
  <2>2. UnackedBytes(big) \subseteq (DOMAIN big) \X (1..Window)  BY DEF UnackedBytes
  <2>3. UnackedBytes(small) \cup new \subseteq (DOMAIN big) \X (1..Window)
    BY SizeAssumption DEF UnackedBytes
  <2> QED  BY <2>1, <2>2, <2>3
<1>2. UnackedBytes(small) \cap new = {}  BY DEF UnackedBytes
<1>3. IsFiniteSet({s}) /\ Cardinality({s}) = 1  BY FS_Singleton
<1>4. IsFiniteSet(1..n) /\ Cardinality(1..n) = n  BY FS_Interval, SizeAssumption
<1>5. IsFiniteSet(new) /\ Cardinality(new) = n
  <2>1. IsFiniteSet(new) /\ Cardinality(new) = Cardinality({s}) * Cardinality(1..n)
    BY <1>3, <1>4, FS_Product
  <2> QED  BY <1>3, <1>4, <2>1, SizeAssumption
<1>6. IsFiniteSet(UnackedBytes(small))  BY BytesFinite
<1>7. Cardinality(UnackedBytes(small)) \in Nat  BY <1>6, FS_CardinalityType
<1>8. Cardinality(UnackedBytes(small) \cup new)
        = Cardinality(UnackedBytes(small)) + Cardinality(new)
          - Cardinality(UnackedBytes(small) \cap new)
  BY <1>5, <1>6, FS_Union
<1>9. Cardinality(UnackedBytes(small) \cap new) = 0  BY <1>2, FS_EmptySet
<1> HIDE DEF new
<1> QED  BY <1>1, <1>5, <1>7, <1>8, <1>9, SizeAssumption

\* addOutgoing adds exactly the bytes of its frame, after its check; ackOutgoing
\* and dropOutgoing subtract exactly those of the frame they remove.
LEMMA WindowStep ==
  ASSUME IInv, WindowAccounted, [Next]_vars
  PROVE  WindowAccounted'
<1>0. /\ outgoing \in [DOMAIN outgoing -> Frame] /\ IsFiniteSet(DOMAIN outgoing)
      /\ outgoingBytes \in Int /\ Window \in Nat /\ ChunkSizes \subseteq 1..Window
      /\ outgoingBytes = Cardinality(UnackedBytes(outgoing)) /\ outgoingBytes <= Window
  BY SizeAssumption DEF IInv, TypeOK, WindowAccounted
<1>1. CASE SameTable
  <2>1. UnackedBytes(outgoing') = UnackedBytes(outgoing)
    BY <1>1 DEF SameTable, UnackedBytes
  <2>2. UnackedBytes(outgoing)' = UnackedBytes(outgoing')  BY DEF UnackedBytes
  <2> QED  BY <1>0, <1>1, <2>1, <2>2 DEF SameTable, WindowAccounted
<1>2. ASSUME NEW w \in Writers, Added(w) PROVE WindowAccounted'
  <2>1. cur[w] \notin DOMAIN outgoing /\ need[w] \in 1..Window
    BY <1>0, <1>2 DEF IInv, Ownership, Owned, Tracking, TypeOK, Added, Track
  <2>2. /\ DOMAIN outgoing' = DOMAIN outgoing \cup {cur[w]}
        /\ outgoing'[cur[w]].size = need[w]
        /\ \A t \in DOMAIN outgoing : outgoing'[t].size = outgoing[t].size
        /\ outgoingBytes' = outgoingBytes + need[w]
    BY <1>2, <2>1 DEF Added, Insert
  <2>3. outgoingBytes + need[w] <= Window
    BY <1>0, <1>2, <2>1 DEF Added, WindowFull
  <2>4. Cardinality(UnackedBytes(outgoing')) = Cardinality(UnackedBytes(outgoing)) + need[w]
    BY <1>0, <2>1, <2>2, BytesOfOneMore
  <2>5. UnackedBytes(outgoing)' = UnackedBytes(outgoing')  BY DEF UnackedBytes
  <2> QED  BY <1>0, <2>1, <2>2, <2>3, <2>4, <2>5 DEF WindowAccounted
<1>3. ASSUME NEW s \in DOMAIN outgoing, outgoing' = Without(outgoing, s),
             outgoingBytes' = outgoingBytes - outgoing[s].size
      PROVE  WindowAccounted'
  <2>1. outgoing[s].size \in 1..Window  BY <1>0 DEF Frame
  <2>2. /\ DOMAIN outgoing' = DOMAIN outgoing \ {s}
        /\ IsFiniteSet(DOMAIN outgoing')
        /\ \A t \in DOMAIN outgoing' : outgoing[t].size = outgoing'[t].size
    <3> DEFINE out == outgoing
    <3>1. IsFiniteSet(DOMAIN out) /\ out \in [DOMAIN out -> Frame]  BY <1>0
    <3>2. outgoing' = Without(out, s)  BY <1>3
    <3> HIDE DEF out
    <3>3. /\ DOMAIN outgoing' = DOMAIN out \ {s}
          /\ IsFiniteSet(DOMAIN outgoing')
          /\ \A t \in DOMAIN outgoing' : outgoing'[t] = out[t]
      BY <3>1, <3>2, WithoutTable
    <3> QED  BY <3>3 DEF out
  <2>3. DOMAIN outgoing = DOMAIN outgoing' \cup {s} /\ s \notin DOMAIN outgoing'
    BY <2>2
  <2>4. /\ Cardinality(UnackedBytes(outgoing)) = Cardinality(UnackedBytes(outgoing')) + outgoing[s].size
        /\ Cardinality(UnackedBytes(outgoing')) \in Nat
    BY <2>1, <2>2, <2>3, BytesOfOneMore
  <2>5. UnackedBytes(outgoing)' = UnackedBytes(outgoing')  BY DEF UnackedBytes
  <2> QED  BY <1>0, <1>3, <2>1, <2>4, <2>5 DEF WindowAccounted
<1>4. ASSUME NEW w \in Writers, Dropped(w) PROVE WindowAccounted'
  BY <1>3, <1>4 DEF Dropped, Remove
<1>5. ASSUME NEW s \in rcvd \cap DOMAIN outgoing, Acked(s) PROVE WindowAccounted'
  BY <1>3, <1>5 DEF Acked, Remove
<1> QED  BY <1>1, <1>2, <1>4, <1>5, TableStep

\* outgoingBytes is the exact size of the tracked frames and never above
\* maxOutgoingUnackedBytes, for any number of concurrent writers and any chunk
\* sizes up to the limit (adapter.go:412, 463, 488, 508).
THEOREM WindowKept == Spec => []WindowAccounted
<1>1. Init => WindowAccounted
  <2>1. ASSUME Init PROVE WindowAccounted
    <3>1. UnackedBytes(outgoing) = {}  BY <2>1 DEF Init, UnackedBytes
    <3>2. Cardinality(UnackedBytes(outgoing)) = 0  BY <3>1, FS_EmptySet
    <3>3. outgoingBytes = 0 /\ Window \in Nat  BY <2>1, SizeAssumption DEF Init
    <3> QED  BY <3>2, <3>3 DEF WindowAccounted
  <2> QED  BY <2>1
<1>2. IInv /\ WindowAccounted /\ [Next]_vars => WindowAccounted'  BY WindowStep
<1> QED  BY <1>1, <1>2, Invariance, PTL DEF Spec

-----------------------------------------------------------------------------
\* No write deadline is set and no deadline timer runs.
NoDeadline == deadline = "unset" /\ timed = {}

\* Every number handed out is at the agent, tracked, or held by a Write call.
NumbersOwned ==
    \A t \in 1..(seqNum - 1) :
        t \in rcvd \cup DOMAIN outgoing \/ \E w \in Writers : cur[w] = t

\* NoSequenceHole is not inductive: a number must be accounted for from the
\* moment nextSeq hands it out, and no open Write may be about to drop one.
HoleInv ==
    /\ NoDeadline
    /\ ~Done => NumbersOwned /\ \A w \in Writers : pc[w] # "drop"

\* Only SetWriteDeadline introduces a deadline.
LEMMA NoDeadlineStep ==
  ASSUME ~UseDeadline, NoDeadline, [Next]_vars
  PROVE  NoDeadline'
<1> USE DEF NoDeadline, timeVars
<1>1. ASSUME NEW w \in Writers, Write(w) \/ WriterStep(w) PROVE NoDeadline'
  BY <1>1 DEF WriterStep, Write, Publish, Track, Drop, ReturnError, BlockAt
<1>2. ASSUME NEW t \in Threads, SendStep(t) PROVE NoDeadline'
  BY <1>2 DEF SendStep, Connect, Transmit, WakeOnDone, TimerFires, ReturnError, BlockAt
<1>3. ASSUME ResendStep \/ ReconnectStep \/ NoticeFailure PROVE NoDeadline'
  BY <1>3 DEF ResendStep, ResendTick, ResendOldest, ReconnectStep, Resume,
              MarkOutgoingForRetransmit, ClearPauseForReconnect, OpenGate, NoticeFailure
<1>4. ASSUME ReceiveAck \/ ResumeAfterAck \/ ReceivePause \/ ReceiveStart \/ Age
             \/ PauseExpires \/ CallClose \/ CloseProceeds
      PROVE  NoDeadline'
  BY <1>4 DEF ReceiveAck, ResumeAfterAck, ReceivePause, ReceiveStart, Age, PauseExpires,
              CallClose, CloseProceeds
<1>5. ASSUME SetWriteDeadline \/ DeadlinePasses \/ AgentReceives \/ Disconnect
             \/ UNCHANGED vars
      PROVE  NoDeadline'
  BY <1>5 DEF SetWriteDeadline, DeadlinePasses, AgentReceives, Disconnect, vars
<1> QED  BY <1>1, <1>2, <1>3, <1>4, <1>5 DEF Next

\* A number stays accounted for while frames only move towards the agent.
LEMMA NumbersStable ==
  ASSUME NumbersOwned, seqNum' = seqNum,
         rcvd \cup DOMAIN outgoing \subseteq rcvd' \cup DOMAIN outgoing',
         \A w \in Writers : \/ cur[w] = 0
                            \/ cur'[w] = cur[w]
                            \/ cur[w] \in rcvd' \cup DOMAIN outgoing'
  PROVE  NumbersOwned'
<1>1. \A t \in 1..(seqNum - 1) : t # 0  OBVIOUS
<1> QED  BY <1>1 DEF NumbersOwned

\* While the adapter is open and has no deadline, every Write that took a
\* number tracks it: addOutgoing only waits, and writeRaw retries.
LEMMA HoleStep ==
  ASSUME ~UseDeadline, IInv, HoleInv, [Next]_vars, ~Done'
  PROVE  NumbersOwned' /\ \A w \in Writers : pc'[w] # "drop"
<1> USE ThreadAssumption
    DEF outVars, chanVars, pauseVars, linkVars, timeVars, frameVars, Threads, Goto
<1> DEFINE Goal == NumbersOwned' /\ \A w \in Writers : pc'[w] # "drop"
<1>0. /\ closeStep \in 0..4 /\ seqNum \in Nat \ {0}
      /\ cur \in [Threads -> Nat] /\ DOMAIN pc = Threads
      /\ \A v \in Writers : Owned(v)
      /\ deadline = "unset" /\ timed = {}
      /\ \A w \in Writers : w \in Threads /\ w # Resender
      /\ closeStep = 0 => NumbersOwned /\ \A w \in Writers : pc[w] # "drop"
  BY DEF IInv, Ownership, TypeOK, HoleInv, NoDeadline, Done
<1>1. ASSUME NEW v \in Writers, Write(v) PROVE Goal
  BY <1>0, <1>1, NumbersStable DEF Write, Done
<1>2. ASSUME NEW v \in Writers, Publish(v) PROVE Goal
  <2>0. closeStep = 0 /\ UNCHANGED <<outgoing, rcvd>>
    BY <1>0, <1>2 DEF Publish, Done
  <2>1. \A w \in Writers : pc'[w] # "drop"
    BY <1>0, <1>2, <2>0 DEF Publish, BlockAt
  <2>2. CASE paused
    BY <1>0, <1>2, <2>0, <2>1, <2>2, NumbersStable DEF Publish, BlockAt
  <2>3. CASE ~paused
    <3>1. cur' = [cur EXCEPT ![v] = seqNum] /\ seqNum' = seqNum + 1
      BY <1>2, <2>3 DEF Publish
    <3>2. cur[v] = 0
      BY <1>0, <1>2 DEF Owned, Unnumbered, Publish
    <3>3. ASSUME NEW t \in 1..(seqNum' - 1)
          PROVE  t \in rcvd' \cup DOMAIN outgoing' \/ \E w \in Writers : cur'[w] = t
      <4>1. CASE t = seqNum  BY <1>0, <3>1, <4>1
      <4>2. CASE t \in 1..(seqNum - 1)
        BY <1>0, <2>0, <3>1, <3>2, <4>2 DEF NumbersOwned
      <4> QED  BY <1>0, <3>1, <4>1, <4>2
    <3> QED  BY <2>1, <3>3 DEF NumbersOwned
  <2> QED  BY <2>2, <2>3
<1>3. ASSUME NEW v \in Writers, Track(v) PROVE Goal
  BY <1>0, <1>3, NumbersStable DEF Track, Insert, BlockAt, OutgoingClosed, Done
<1>4. ASSUME NEW v \in Writers, Drop(v) PROVE Goal
  BY <1>0, <1>4 DEF Drop, Done
<1>5. ASSUME NEW t \in Threads, Connect(t) PROVE Goal
  BY <1>0, <1>5, NumbersStable DEF Connect, BlockAt, Done
<1>6. ASSUME NEW t \in Threads, Transmit(t) PROVE Goal
  <2>1. closeStep = 0 /\ UNCHANGED <<outgoing, rcvd, seqNum>>
    BY <1>0, <1>6 DEF Transmit, StartClose, Done
  <2>2. \A w \in Writers : pc'[w] # "drop"
    BY <1>0, <1>6, <2>1 DEF Transmit, Transmitted, StartClose, Done
  <2>3. \A w \in Writers : cur'[w] = cur[w] \/ (w = t /\ pc[w] = "transmit")
    BY <1>0, <1>6 DEF Transmit
  <2>4. \A w \in Writers : pc[w] = "transmit" => cur[w] \in rcvd \cup DOMAIN outgoing
    BY <1>0 DEF Owned, InFlight, Sending
  <2> QED  BY <1>0, <2>1, <2>2, <2>3, <2>4, NumbersStable
<1>7. ASSUME NEW t \in Threads, WakeOnDone(t) \/ TimerFires(t) PROVE Goal
  BY <1>0, <1>7 DEF WakeOnDone, TimerFires, Done
<1>8. ASSUME ReceiveAck PROVE Goal
  <2>1. closeStep = 0 /\ UNCHANGED <<rcvd, cur, seqNum>>
    BY <1>0, <1>8 DEF ReceiveAck, Done
  <2>2. rcvd \cup DOMAIN outgoing \subseteq rcvd' \cup DOMAIN outgoing'
    BY <1>8 DEF ReceiveAck, Remove, Without
  <2>3. \A w \in Writers : pc'[w] # "drop"
    BY <1>0, <1>8, <2>1 DEF ReceiveAck, Remove, Wake
  <2> QED  BY <1>0, <2>1, <2>2, <2>3, NumbersStable
<1> DEFINE Steady ==
      /\ closeStep = 0 /\ rcvd \subseteq rcvd' /\ seqNum' = seqNum
      /\ DOMAIN outgoing' = DOMAIN outgoing
      /\ \A w \in Writers : cur'[w] = cur[w] /\ pc'[w] # "drop"
<1>9. ASSUME Steady PROVE Goal
  BY <1>0, <1>9, NumbersStable
<1>10. ASSUME ResendStep \/ NoticeFailure PROVE Steady
  BY <1>0, <1>10
     DEF ResendStep, ResendTick, ResendOldest, Refresh, NoticeFailure, StartClose, Done
<1>11. ASSUME ReconnectStep PROVE Steady
  <2>1. CASE Resume
    BY <1>0, <2>1 DEF Resume, StartClose, Done
  <2>2. CASE MarkOutgoingForRetransmit
    <3>1. /\ DOMAIN outgoing' = DOMAIN outgoing
          /\ pc' = Wake(pc, "trackWait", "track")
          /\ UNCHANGED <<rcvd, seqNum, cur, closeStep>>
      BY <2>2 DEF MarkOutgoingForRetransmit
    <3> QED  BY <1>0, <3>1 DEF Wake, Done
  <2>3. CASE ClearPauseForReconnect \/ OpenGate
    BY <1>0, <2>3 DEF ClearPauseForReconnect, ResumePublication, OpenGate, Wake, Done
  <2> QED  BY <1>11, <2>1, <2>2, <2>3 DEF ReconnectStep
<1>12. ASSUME ResumeAfterAck \/ ReceivePause \/ ReceiveStart \/ Age \/ PauseExpires
       PROVE  Steady
  BY <1>0, <1>12
     DEF ResumeAfterAck, ReceivePause, ReceiveStart, ResumePublication, Wake, Age,
     PauseExpires, Done
<1>13. ASSUME SetWriteDeadline \/ DeadlinePasses \/ CallClose \/ CloseProceeds
             \/ AgentReceives \/ Disconnect \/ UNCHANGED vars
      PROVE Steady
  BY <1>0, <1>13 DEF SetWriteDeadline, DeadlinePasses, CallClose, StartClose, CloseProceeds,
                    AgentReceives, Disconnect, vars, Done
<1> HIDE DEF Steady, Goal
<1> QED
  BY <1>1, <1>2, <1>3, <1>4, <1>5, <1>6, <1>7, <1>8, <1>9, <1>10, <1>11, <1>12, <1>13
     DEF Next, WriterStep, SendStep, Goal

\* Without write deadlines no number below a written one is ever given up while
\* the adapter is open: the errors of addOutgoing and writeRaw that follow
\* nextSeq (adapter.go:917-934) then come only from Close.  With deadlines the
\* code does leave holes.
THEOREM NoHole ==
  ASSUME ~UseDeadline
  PROVE  Spec => []NoSequenceHole
<1>1. Init => HoleInv
  BY DEF Init, HoleInv, NoDeadline, NumbersOwned, Threads
<1>2. ASSUME IInv, HoleInv, [Next]_vars PROVE HoleInv'
  BY <1>2, NoDeadlineStep, HoleStep DEF HoleInv
<1>3. ASSUME IInv, HoleInv PROVE NoSequenceHole
  <2>1. \A s \in accepted : s \in Nat /\ s < seqNum /\ seqNum \in Nat
    BY <1>3 DEF IInv, Ownership, Numbered, TypeOK
  <2>2. \A s \in accepted : \A t \in 1..(s - 1) : t \in 1..(seqNum - 1)
    BY <2>1
  <2> QED  BY <1>3, <2>2 DEF HoleInv, NumbersOwned, NoSequenceHole
<1>4. IInv /\ HoleInv /\ [Next]_vars => HoleInv'  BY <1>2
<1>5. IInv /\ HoleInv => NoSequenceHole  BY <1>3
<1> QED  BY <1>1, <1>4, <1>5, Invariance, PTL DEF Spec

-----------------------------------------------------------------------------
\* A step that neither reopens the adapter nor sends resendLoop home leaves it
\* running until Close.
LEMMA ResenderStays ==
  ASSUME ResendLoopRunsUntilClose, Done => Done',
         pc'[Resender] = "stopped" => pc[Resender] = "stopped" \/ Done'
  PROVE  ResendLoopRunsUntilClose'
BY DEF ResendLoopRunsUntilClose

\* Without a deadline every step by which resendLoop stops closes the adapter, or
\* finds it closed.
LEMMA ResenderStep ==
  ASSUME IInv, NoDeadline, ResendLoopRunsUntilClose, [Next]_vars
  PROVE  ResendLoopRunsUntilClose'
<1> USE ThreadAssumption DEF outVars, chanVars, pauseVars, linkVars, timeVars, frameVars, Threads, Goto
<1> DEFINE Home == /\ Done => Done'
                   /\ pc'[Resender] = "stopped" => pc[Resender] = "stopped" \/ Done'
<1>0. /\ closeStep \in 0..4 /\ pc \in [Threads -> {"idle", "tick", "pick", "stopped"}
                                                    \cup Writing \cup Sending]
      /\ Resender \in Threads /\ deadline = "unset" /\ timed = {}
      /\ \A w \in Writers : w \in Threads /\ w # Resender
  BY DEF IInv, TypeOK, NoDeadline
<1>1. ASSUME NEW w \in Writers, Write(w) \/ Publish(w) PROVE Home
  BY <1>0, <1>1 DEF Write, Publish, BlockAt, Done
<1>2. ASSUME NEW w \in Writers, Track(w) PROVE Home
  BY <1>0, <1>2 DEF Track, BlockAt, Done
<1>3. ASSUME NEW w \in Writers, Drop(w) PROVE Home
  BY <1>0, <1>3 DEF Drop, Remove, Wake, Done
<1>4. ASSUME NEW t \in Threads, Connect(t) PROVE Home
  BY <1>0, <1>4 DEF Connect, BlockAt, AfterError, Done
<1>5. ASSUME NEW t \in Threads, Transmit(t) PROVE Home
  BY <1>0, <1>5 DEF Transmit, Transmitted, StartReconnect, StartClose, AfterError, Done
<1>6. ASSUME NEW t \in Threads, WakeOnDone(t) PROVE Home
  BY <1>0, <1>6 DEF WakeOnDone, Done
<1>7. ASSUME NEW t \in Threads, TimerFires(t) PROVE Home
  BY <1>0, <1>7 DEF TimerFires
<1>8. ASSUME ResendTick \/ ResendOldest PROVE Home
  BY <1>0, <1>8 DEF ResendTick, ResendOldest, StartClose, Done
<1>9. ASSUME Resume \/ NoticeFailure PROVE Home
  BY <1>0, <1>9 DEF Resume, NoticeFailure, StartReconnect, StartClose, Done
<1>10. ASSUME MarkOutgoingForRetransmit \/ ClearPauseForReconnect \/ OpenGate PROVE Home
  BY <1>0, <1>10 DEF MarkOutgoingForRetransmit, ClearPauseForReconnect, OpenGate,
                     ResumePublication, Wake, Done
<1>11. ASSUME ReceiveAck PROVE Home
  BY <1>0, <1>11 DEF ReceiveAck, Remove, Wake, Done
<1>12. ASSUME ResumeAfterAck \/ ReceivePause \/ ReceiveStart \/ Age \/ PauseExpires PROVE Home
  BY <1>0, <1>12 DEF ResumeAfterAck, ReceivePause, ReceiveStart, ResumePublication, Wake,
                     Age, PauseExpires, Done
<1>13. ASSUME SetWriteDeadline \/ DeadlinePasses \/ CallClose \/ CloseProceeds PROVE Home
  BY <1>0, <1>13 DEF SetWriteDeadline, DeadlinePasses, CallClose, CloseProceeds, StartClose,
                     Wake, Done
<1>14. ASSUME AgentReceives \/ Disconnect \/ UNCHANGED vars PROVE Home
  BY <1>14 DEF AgentReceives, Disconnect, vars, Done
<1>15. Home
  <2> HIDE DEF Home
  <2> QED  BY <1>1, <1>2, <1>3, <1>4, <1>5, <1>6, <1>7, <1>8, <1>9, <1>10, <1>11, <1>12, <1>13,
              <1>14 DEF Next, WriterStep, SendStep, ResendStep, ReconnectStep
<1> QED  BY <1>15, ResenderStays

\* Without write deadlines resendLoop stops only with the adapter: an open adapter
\* never keeps a frame that nobody will retransmit (adapter.go:527-615).  An
\* expired deadline, which is the writers' and not its own, would end it.
THEOREM ResendLoopRuns ==
  ASSUME ~UseDeadline
  PROVE  Spec => []ResendLoopRunsUntilClose
<1>1. Init => NoDeadline /\ ResendLoopRunsUntilClose
  BY DEF Init, NoDeadline, ResendLoopRunsUntilClose, Threads
<1>2. /\ NoDeadline /\ [Next]_vars => NoDeadline'
      /\ IInv /\ NoDeadline /\ ResendLoopRunsUntilClose /\ [Next]_vars
            => ResendLoopRunsUntilClose'
  BY NoDeadlineStep, ResenderStep
<1> QED  BY <1>1, <1>2, Invariance, PTL DEF Spec
=============================================================================
