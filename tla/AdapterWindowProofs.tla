------------------------ MODULE AdapterWindowProofs ------------------------
(***************************************************************************)
(* Proof that AdapterSend implements SlidingWindow, for any writers,       *)
(* window, frame sizes and bounds, with deadlines, resends, WebSocket      *)
(* failures and Close.                                                     *)
(***************************************************************************)
EXTENDS AdapterSendProofs

\* The numbers of the frames between nextSeq and addOutgoing.
Taken == {cur[w] : w \in {v \in Writers : pc[v] \in {"track", "trackWait"}}}

\* What was put on a WebSocket, and what resendLoop is about to, had entered the
\* window.
Entered ==
    \A s \in sent \cup rcvd \cup {cur[Resender]} : s < seqNum /\ s \notin Taken

WindowInv == IInv /\ WindowAccounted /\ AcceptedNotLost /\ Entered

Sizes(out) == [s \in DOMAIN out |-> out[s].size]

-----------------------------------------------------------------------------
\* A frame that is being tracked has a number, its own.
LEMMA TakenFacts ==
  ASSUME IInv
  PROVE  /\ 0 \notin Taken /\ \A s \in Taken : s < seqNum
         /\ \A w \in Writers : Tracking(w) => cur[w] \in Taken
         /\ \A v, w \in Writers : cur[v] \in Taken /\ cur[w] = cur[v] => v = w
         /\ \A w \in Writers : cur[w] \in Taken => Tracking(w)
         /\ DOMAIN outgoing \cap Taken = {}
BY DEF IInv, Ownership, Owned, Numbered, Taken, Tracking

\* What a step does to the writers that track a frame, as a rule: nothing.
Quiet ==
    /\ \A w \in Writers : /\ Tracking(w)' <=> Tracking(w)
                          /\ Tracking(w) => cur'[w] = cur[w]
    /\ UNCHANGED seqNum

\* The exceptions: nextSeq, and addOutgoing unless it blocks.
LEMMA QuietStep ==
  ASSUME IInv, [Next]_vars
  PROVE  \/ Quiet
         \/ \E w \in Writers : Publish(w) /\ ~paused
         \/ \E w \in Writers : Track(w) /\ pc'[w] \notin {"track", "trackWait"}
<1> USE ThreadAssumption
    DEF outVars, chanVars, pauseVars, linkVars, timeVars, frameVars, Threads, Goto, Quiet, Tracking
<1>0. /\ \A w \in Writers : w \in Threads /\ w # Resender
      /\ pc \in [Threads -> {"idle", "tick", "pick", "stopped"} \cup Writing \cup Sending]
      /\ cur \in [Threads -> Nat]
  BY DEF IInv, TypeOK
<1>1. ASSUME NEW v \in Writers, Write(v) PROVE Quiet
  BY <1>0, <1>1 DEF Write
<1>2. ASSUME NEW v \in Writers, Publish(v), paused PROVE Quiet
  BY <1>0, <1>2 DEF Publish, BlockAt, ReturnError
<1>3. ASSUME NEW v \in Writers, Track(v), pc'[v] \in {"track", "trackWait"} PROVE Quiet
  BY <1>0, <1>3 DEF Track, BlockAt
<1>4. ASSUME NEW v \in Writers, Drop(v) PROVE Quiet
  BY <1>0, <1>4 DEF Drop, Remove, Wake, ReturnError
<1>5. ASSUME NEW t \in Threads, Connect(t) PROVE Quiet
  BY <1>0, <1>5 DEF Connect, BlockAt, AfterError
<1>6. ASSUME NEW t \in Threads, Transmit(t) PROVE Quiet
  BY <1>0, <1>6 DEF Transmit, Transmitted, AfterError
<1>7. ASSUME NEW t \in Threads, WakeOnDone(t) PROVE Quiet
  BY <1>0, <1>7 DEF WakeOnDone, ReturnError, AfterError
<1>8. ASSUME NEW t \in Threads, TimerFires(t) PROVE Quiet
  BY <1>0, <1>8 DEF TimerFires, Wake, AfterError
<1>9. ASSUME ResendStep PROVE Quiet
  BY <1>0, <1>9 DEF ResendStep, ResendTick, ResendOldest
<1>10. ASSUME ReconnectStep PROVE Quiet
  BY <1>0, <1>10 DEF ReconnectStep, Resume, MarkOutgoingForRetransmit, ClearPauseForReconnect,
                     OpenGate, ResumePublication, Wake
<1>11. ASSUME ReceiveAck PROVE Quiet
  BY <1>0, <1>11 DEF ReceiveAck, Remove, Wake
<1>12. ASSUME ResumeAfterAck \/ ReceivePause \/ ReceiveStart \/ Age \/ PauseExpires PROVE Quiet
  BY <1>0, <1>12 DEF ResumeAfterAck, ReceivePause, ReceiveStart, ResumePublication, Wake,
                     Age, PauseExpires
<1>13. ASSUME SetWriteDeadline \/ DeadlinePasses \/ CallClose \/ CloseProceeds PROVE Quiet
  BY <1>0, <1>13 DEF SetWriteDeadline, DeadlinePasses, CallClose, CloseProceeds, Wake
<1>14. ASSUME NoticeFailure \/ AgentReceives \/ Disconnect \/ UNCHANGED vars PROVE Quiet
  BY <1>0, <1>14 DEF NoticeFailure, AgentReceives, Disconnect, vars
<1> HIDE DEF Quiet
<1> QED  BY <1>1, <1>2, <1>3, <1>4, <1>5, <1>6, <1>7, <1>8, <1>9, <1>10, <1>11, <1>12, <1>13,
            <1>14 DEF Next, WriterStep, SendStep

\* After a quiet step the same frames are on their way into the window.
LEMMA QuietTaken ==
  ASSUME Quiet
  PROVE  Taken' = Taken
BY DEF Quiet, Taken, Tracking

\* nextSeq adds a number; addOutgoing, when it does not block, takes it away.
LEMMA TakenChanges ==
  ASSUME IInv, NEW w \in Writers
  PROVE  /\ Publish(w) /\ ~paused =>
               Taken' = Taken \cup {seqNum} /\ seqNum' = seqNum + 1
         /\ Track(w) /\ pc'[w] \notin {"track", "trackWait"} =>
               cur[w] \in Taken /\ Taken' = Taken \ {cur[w]} /\ seqNum' = seqNum
<1> USE ThreadAssumption DEF Threads, Goto, frameVars
<1>0. /\ \A v \in Writers : v \in Threads
      /\ pc \in [Threads -> {"idle", "tick", "pick", "stopped"} \cup Writing \cup Sending]
      /\ cur \in [Threads -> Nat]
  BY DEF IInv, TypeOK
<1>1. ASSUME Publish(w), ~paused
      PROVE  Taken' = Taken \cup {seqNum} /\ seqNum' = seqNum + 1
  <2>1. /\ pc[w] = "publish" /\ pc' = [pc EXCEPT ![w] = "track"]
        /\ cur' = [cur EXCEPT ![w] = seqNum] /\ seqNum' = seqNum + 1
    BY <1>1 DEF Publish
  <2> QED  BY <1>0, <2>1 DEF Taken
<1>2. ASSUME Track(w), pc'[w] \notin {"track", "trackWait"}
      PROVE  cur[w] \in Taken /\ Taken' = Taken \ {cur[w]} /\ seqNum' = seqNum
  <2>1. /\ pc[w] = "track" /\ seqNum' = seqNum
        /\ \A v \in Writers : v # w => pc'[v] = pc[v] /\ cur'[v] = cur[v]
    BY <1>0, <1>2 DEF Track, BlockAt, ReturnError
  <2>2. cur[w] \in Taken  BY <2>1 DEF Taken
  <2>3. \A v \in Writers : v # w => cur[v] # cur[w]
    BY <2>2, TakenFacts
  <2> QED  BY <1>2, <2>1, <2>2, <2>3 DEF Taken
<1> QED  BY <1>1, <1>2

\* Only a step of nextSeq or of addOutgoing changes the frames on their way.
LEMMA Untaken ==
  ASSUME IInv, [Next]_vars, seqNum' = seqNum, ~(DOMAIN outgoing \subseteq DOMAIN outgoing')
  PROVE  Taken' = Taken
<1>1. \A w \in Writers : ~Track(w)
  BY DEF Track, Insert, outVars
<1>2. \A w \in Writers : ~(Publish(w) /\ ~paused)
  BY TakenChanges DEF IInv, TypeOK
<1> QED  BY <1>1, <1>2, QuietStep, QuietTaken

\* A number that has entered the window, or been given up, is not taken again.
LEMMA NeverTakenAgain ==
  ASSUME IInv, [Next]_vars, NEW n \in Nat, n < seqNum, n \notin Taken
  PROVE  n < seqNum' /\ n \notin Taken'
<1>1. seqNum \in Nat  BY DEF IInv, TypeOK
<1>2. CASE Quiet  BY <1>2, QuietTaken DEF Quiet
<1>3. CASE \E w \in Writers : Publish(w) /\ ~paused  BY <1>1, <1>3, TakenChanges
<1>4. CASE \E w \in Writers : Track(w) /\ pc'[w] \notin {"track", "trackWait"}
  BY <1>4, TakenChanges
<1> QED  BY <1>2, <1>3, <1>4, QuietStep

\* What is put on a WebSocket, and what resendLoop picks, is not on its way into
\* the window any more.
LEMMA EnteredStep ==
  ASSUME IInv, Entered, [Next]_vars
  PROVE  Entered'
<1> USE ThreadAssumption
    DEF outVars, chanVars, pauseVars, linkVars, timeVars, frameVars, Threads, Goto
<1> DEFINE Safe(n) == n \in Nat /\ n < seqNum /\ n \notin Taken
           New == \A n \in sent' \cup rcvd' \cup {cur'[Resender]} : Safe(n)
<1>0. /\ \A w \in Writers : w \in Threads /\ w # Resender
      /\ cur \in [Threads -> Nat] /\ sent \subseteq Nat /\ rcvd \subseteq Nat
      /\ DOMAIN outgoing \subseteq Nat /\ \A s \in DOMAIN outgoing : s < seqNum
      /\ outgoingOldestSeq # -1 => outgoingOldestSeq \in DOMAIN outgoing
      /\ seqNum \in Nat \ {0}
  BY MinIsLeast DEF IInv, TypeOK, Ownership, Numbered, OldestIsMinimum, OldestOf
<1>1. Safe(0) /\ \A n \in sent \cup rcvd \cup {cur[Resender]} : Safe(n)
  BY <1>0, TakenFacts DEF Entered
<1>2. \A s \in DOMAIN outgoing : Safe(s)  BY <1>0, TakenFacts
<1>3. ASSUME NEW w \in Writers, pc[w] = "transmit" PROVE Safe(cur[w])
  <2>1. ~Tracking(w) /\ InFlight(w)  BY <1>3 DEF Tracking, InFlight, Sending
  <2>2. cur[w] # 0 /\ cur[w] < seqNum  BY <2>1 DEF IInv, Ownership, Owned
  <2> QED  BY <1>0, <2>1, <2>2, TakenFacts
<1> HIDE DEF Safe
<1>4. ASSUME UNCHANGED <<sent, rcvd>>, cur'[Resender] \in {cur[Resender], 0} PROVE New
  BY <1>1, <1>4
<1>5. ASSUME NEW w \in Writers, Write(w) \/ WriterStep(w) PROVE New
  BY <1>0, <1>4, <1>5 DEF WriterStep, Write, Publish, Track, Drop, ReturnError
<1>6. ASSUME NEW t \in Threads, Connect(t) \/ WakeOnDone(t) \/ TimerFires(t) PROVE New
  BY <1>0, <1>4, <1>6 DEF Connect, WakeOnDone, TimerFires, ReturnError
<1>7. ASSUME NEW t \in Threads, Transmit(t) PROVE New
  <2>1. Safe(cur[t])  BY <1>1, <1>3, <1>7 DEF Transmit
  <2>2. /\ rcvd' = rcvd /\ sent' \subseteq sent \cup {cur[t]}
        /\ cur'[Resender] \in {cur[Resender], 0}
    BY <1>0, <1>7 DEF Transmit
  <2> QED  BY <1>1, <2>1, <2>2
<1>8. ASSUME ResendOldest PROVE New
  <2>1. /\ UNCHANGED <<sent, rcvd>>
        /\ \/ cur'[Resender] = cur[Resender]
           \/ outgoingOldestSeq # -1 /\ cur'[Resender] = outgoingOldestSeq
    BY <1>0, <1>8 DEF ResendOldest
  <2> QED  BY <1>0, <1>1, <1>2, <2>1
<1>9. ASSUME AgentReceives PROVE New
  BY <1>1, <1>9 DEF AgentReceives
<1>10. ASSUME ResendTick \/ ReconnectStep \/ NoticeFailure \/ ReceiveAck \/ ResumeAfterAck
       PROVE  New
  BY <1>4, <1>10 DEF ResendTick, ReconnectStep, Resume, MarkOutgoingForRetransmit,
     ClearPauseForReconnect, OpenGate, NoticeFailure, ReceiveAck, ResumeAfterAck
<1>11. ASSUME ReceivePause \/ ReceiveStart \/ Age \/ PauseExpires \/ SetWriteDeadline PROVE New
  BY <1>4, <1>11 DEF ReceivePause, ReceiveStart, Age, PauseExpires, SetWriteDeadline
<1>12. ASSUME DeadlinePasses \/ CallClose \/ CloseProceeds \/ Disconnect \/ UNCHANGED vars
       PROVE  New
  BY <1>4, <1>12 DEF DeadlinePasses, CallClose, CloseProceeds, Disconnect, vars
<1>13. New
  <2> HIDE DEF New
  <2> QED  BY <1>5, <1>6, <1>7, <1>8, <1>9, <1>10, <1>11, <1>12
              DEF Next, SendStep, ResendStep
<1> QED  BY <1>13, NeverTakenAgain DEF Entered, Safe

-----------------------------------------------------------------------------
\* What of a step the sliding window does not see.
LEMMA Unseen ==
  ASSUME Taken' = Taken, SameTable, UNCHANGED <<seqNum, rcvd, accepted, OutgoingClosed>>
  PROVE  UNCHANGED Sliding!vars
<1>1. UNCHANGED Sizes(outgoing)
  <2>1. Sizes(outgoing)' = [s \in DOMAIN outgoing' |-> outgoing'[s].size]  BY DEF Sizes
  <2>2. Sizes(outgoing) = [s \in DOMAIN outgoing' |-> outgoing'[s].size]
    BY DEF Sizes, SameTable
  <2> QED  BY <2>1, <2>2
<1> QED  BY <1>1 DEF Taken, Sizes, Sliding!vars

\* addOutgoing enters a frame into a window that has room for it: outgoingBytes is
\* the window's load.
LEMMA AddedEnters ==
  ASSUME WindowInv, NEW w \in Writers, Added(w)
  PROVE  Sliding!Next
<1>0. PICK s, n : s = cur[w] /\ n = need[w]  OBVIOUS
<1>1. /\ s \notin DOMAIN outgoing /\ s # 0 /\ n \in ChunkSizes
      /\ outgoingBytes = Cardinality(UnackedBytes(outgoing))
      /\ pc[w] = "track"
  BY <1>0 DEF WindowInv, IInv, TypeOK, Ownership, Owned, Tracking, Added, Track, WindowAccounted
<1>2. /\ DOMAIN outgoing' = DOMAIN outgoing \cup {s}
      /\ \A t \in DOMAIN outgoing' :
            outgoing'[t].size = IF t = s THEN n ELSE outgoing[t].size
  BY <1>0 DEF Added, Insert
<1>3. /\ ~OutgoingClosed /\ pc' = [pc EXCEPT ![w] = "connect"]
      /\ UNCHANGED <<frameVars, chanVars, closeStep>>
  BY <1>1, <1>2 DEF Added, Track, WindowFull, Goto, outVars
<1>4. s \in Taken /\ Taken' = Taken \ {s} /\ seqNum' = seqNum
  <2>1. pc'[w] \notin {"track", "trackWait"}
    BY <1>3, ThreadAssumption DEF WindowInv, IInv, TypeOK, Threads
  <2> QED  BY <1>0, <2>1, TakenChanges DEF WindowInv, Added
<1>5. Sliding!Load(Sizes(outgoing)) + n <= Window
  <2>1. {b \in (DOMAIN Sizes(outgoing)) \X (1..Window) : b[2] <= Sizes(outgoing)[b[1]]}
          = UnackedBytes(outgoing)
    BY DEF Sizes, UnackedBytes
  <2>2. Sliding!Load(Sizes(outgoing)) = Cardinality(UnackedBytes(outgoing))
    BY <2>1 DEF Sliding!Load, Sliding!Cardinality, Cardinality
  <2>3. outgoingBytes \in Int /\ n \in Int /\ Window \in Int
    BY <1>1, SizeAssumption DEF WindowInv, IInv, TypeOK
  <2> QED  BY <1>0, <1>1, <2>2, <2>3 DEF Added, WindowFull
<1>6. Sizes(outgoing)' = [t \in DOMAIN Sizes(outgoing) \cup {s} |->
                            IF t = s THEN n ELSE Sizes(outgoing)[t]]
  <2>1. Sizes(outgoing)' = [t \in DOMAIN outgoing' |-> outgoing'[t].size]  BY DEF Sizes
  <2> QED  BY <1>2, <2>1 DEF Sizes
<1>7. Sliding!Enter(s, n)
  <2>1. s \notin DOMAIN Sizes(outgoing)  BY <1>1 DEF Sizes
  <2> QED  BY <1>3, <1>4, <1>5, <1>6, <2>1
           DEF Sliding!Enter, Taken, Sizes, OutgoingClosed, chanVars
<1>8. \E t \in Taken : \E k \in ChunkSizes : Sliding!Enter(t, k)  BY <1>1, <1>4, <1>7
<1> QED  BY <1>8 DEF Sliding!Next, Taken

\* dropOutgoing and ackOutgoing let a frame leave: its Write failed, or it is at
\* the agent.
LEMMA Leaves ==
  ASSUME NEW s \in DOMAIN outgoing, s \in rcvd \/ s \notin accepted,
         outgoing' = Without(outgoing, s), Taken' = Taken,
         UNCHANGED <<seqNum, rcvd, accepted, OutgoingClosed>>
  PROVE  Sliding!Next
<1>1. Sizes(outgoing)' = [t \in DOMAIN Sizes(outgoing) \ {s} |-> Sizes(outgoing)[t]]
  <2>1. Sizes(outgoing)' = [t \in DOMAIN outgoing' |-> outgoing'[t].size]  BY DEF Sizes
  <2> QED  BY <2>1 DEF Sizes, Without
<1>2. s \in DOMAIN Sizes(outgoing)  BY DEF Sizes
<1>3. Sliding!Leave(s)  BY <1>1, <1>2 DEF Sliding!Leave, Taken, Sizes
<1> QED  BY <1>2, <1>3 DEF Sliding!Next, Sizes

\* The steps that move the table.
LEMMA TableMoves ==
  ASSUME WindowInv, [Next]_vars, ~SameTable
  PROVE  Sliding!Next
<1> USE DEF WindowInv
<1>1. ASSUME NEW w \in Writers, Dropped(w) PROVE Sliding!Next
  <2>1. /\ cur[w] \in DOMAIN outgoing /\ outgoing' = Without(outgoing, cur[w])
        /\ UNCHANGED <<seqNum, rcvd, accepted, closeStep>>
    BY <1>1 DEF Dropped, Drop, Remove, ReturnError, chanVars
  <2>2. cur[w] \notin accepted
    BY <2>1 DEF IInv, TypeOK, Ownership, Owned
  <2>3. Taken' = Taken
    BY <1>1, <2>1, Untaken DEF Dropped, Drop, ReturnError, Remove, Without
  <2> QED  BY <2>1, <2>2, <2>3, Leaves DEF OutgoingClosed
<1>2. ASSUME NEW s \in rcvd \cap DOMAIN outgoing, Acked(s) PROVE Sliding!Next
  <2>1. /\ outgoing' = Without(outgoing, s)
        /\ UNCHANGED <<seqNum, rcvd, accepted, closeStep>>
    BY <1>2 DEF Acked, ReceiveAck, Remove, chanVars, frameVars
  <2>2. Taken' = Taken
    BY <2>1, Untaken DEF Without
  <2> QED  BY <2>1, <2>2, Leaves DEF OutgoingClosed
<1> QED  BY <1>1, <1>2, AddedEnters, TableStep

\* The steps that leave the table alone: nextSeq takes a number, addOutgoing wastes
\* one, a written frame is accepted, the agent takes a frame, Close closes.
LEMMA OtherMoves ==
  ASSUME WindowInv, SameTable, [Next]_vars
  PROVE  [Sliding!Next]_(Sliding!vars)
<1> USE ThreadAssumption
    DEF outVars, chanVars, pauseVars, linkVars, timeVars, frameVars, Threads, Goto
<1> DEFINE Goal == [Sliding!Next]_(Sliding!vars)
<1>0. /\ IInv /\ AcceptedNotLost /\ Entered
      /\ seqNum \in Nat \ {0} /\ sent \subseteq Nat /\ rcvd \subseteq Nat
      /\ \A s \in DOMAIN outgoing \cup accepted : s < seqNum
      /\ Sizes(outgoing)' = Sizes(outgoing)
  <2>1. Sizes(outgoing)' = [s \in DOMAIN outgoing' |-> outgoing'[s].size]  BY DEF Sizes
  <2>2. Sizes(outgoing) = [s \in DOMAIN outgoing' |-> outgoing'[s].size]
    BY DEF Sizes, SameTable
  <2> QED  BY <2>1, <2>2 DEF WindowInv, IInv, TypeOK, Ownership, Numbered
<1>1. CASE \E w \in Writers : Publish(w) /\ ~paused
  <2>1. PICK w \in Writers : Publish(w) /\ ~paused  BY <1>1
  <2>2. Taken' = Taken \cup {seqNum} /\ seqNum' = seqNum + 1  BY <1>0, <2>1, TakenChanges
  <2>3. UNCHANGED <<rcvd, accepted, closeStep>>  BY <2>1 DEF Publish
  <2> QED  BY <1>0, <2>2, <2>3 DEF Sliding!Next, Sliding!Take, Taken, Sizes, OutgoingClosed
<1>2. CASE \E w \in Writers : Track(w) /\ pc'[w] \notin {"track", "trackWait"}
  <2>1. PICK w \in Writers : Track(w) /\ pc'[w] \notin {"track", "trackWait"}  BY <1>2
  <2>2. PICK s : s = cur[w]  OBVIOUS
  <2>3. s \in Taken /\ Taken' = Taken \ {s} /\ seqNum' = seqNum
    BY <1>0, <2>1, <2>2, TakenChanges
  <2>4. UNCHANGED <<rcvd, accepted, closeStep>>  BY <2>1 DEF Track
  <2>5. Sliding!Waste(s)
    BY <1>0, <2>3, <2>4 DEF Sliding!Waste, Taken, Sizes, OutgoingClosed
  <2>6. \E t \in Taken : Sliding!Waste(t)  BY <2>3, <2>5
  <2> QED  BY <2>6 DEF Sliding!Next, Taken
<1>3. ASSUME Quiet, UNCHANGED <<rcvd, accepted>>, UNCHANGED closeStep \/ StartClose
      PROVE  Goal
  <2>1. Taken' = Taken /\ UNCHANGED <<seqNum, OutgoingClosed>>
    BY <1>0, <1>3, QuietTaken DEF Quiet, StartClose, OutgoingClosed
  <2> QED  BY <1>3, <2>1, Unseen
<1>4. ASSUME Quiet, NEW t \in Threads, Transmit(t) PROVE Goal
  <2>1. CASE t \in Writers /\ accepted' = accepted \cup {cur[t]} /\ UNCHANGED <<rcvd, closeStep>>
    <3>1. PICK s : s = cur[t]  OBVIOUS
    <3>2. s \in rcvd \cup DOMAIN outgoing /\ s \in Nat /\ s < seqNum
      BY <1>0, <1>4, <2>1, <3>1 DEF IInv, TypeOK, Ownership, Owned, InFlight, Sending, Transmit
    <3>3. Sliding!Accept(s)
      BY <1>0, <1>4, <2>1, <3>1, <3>2, QuietTaken
         DEF Sliding!Accept, Taken, Sizes, OutgoingClosed, Quiet
    <3>4. \E n \in rcvd \cup DOMAIN Sizes(outgoing) : Sliding!Accept(n)
      BY <3>2, <3>3 DEF Sizes
    <3> QED  BY <3>4 DEF Sliding!Next, Sizes
  <2>2. CASE UNCHANGED <<rcvd, accepted>> /\ (UNCHANGED closeStep \/ StartClose)
    BY <1>3, <1>4, <2>2
  <2> QED  BY <1>4, <2>1, <2>2 DEF Transmit, Transmitted
<1>5. ASSUME Quiet, AgentReceives PROVE Goal
  <2>1. PICK s \in sent \ rcvd : rcvd' = rcvd \cup {s}  BY <1>5 DEF AgentReceives
  <2>2. s < seqNum /\ s \notin Taken /\ s \in Nat  BY <1>0, <2>1 DEF Entered
  <2>3. UNCHANGED <<accepted, closeStep>>  BY <1>5 DEF AgentReceives
  <2>4. Sliding!Arrive(s)
    BY <1>0, <1>5, <2>1, <2>2, <2>3, QuietTaken
       DEF Sliding!Arrive, Taken, Sizes, OutgoingClosed, Quiet
  <2>5. \E n \in 0..seqNum : Sliding!Arrive(n)  BY <1>0, <2>2, <2>4
  <2> QED  BY <2>5 DEF Sliding!Next
<1>6. ASSUME Quiet, CloseProceeds PROVE Goal
  <2>1. /\ UNCHANGED <<rcvd, accepted>> /\ closeStep \in 1..3 /\ closeStep' = closeStep + 1
        /\ Taken' = Taken /\ seqNum' = seqNum
    BY <1>6, QuietTaken DEF CloseProceeds, Quiet
  <2>2. CASE OutgoingClosed' = OutgoingClosed  BY <2>1, <2>2, Unseen
  <2>3. CASE OutgoingClosed' /\ ~OutgoingClosed
    BY <1>0, <2>1, <2>3 DEF Sliding!Next, Sliding!Close, Taken, Sizes
  <2> QED  BY <2>1, <2>2, <2>3 DEF OutgoingClosed
<1>7. ASSUME NEW w \in Writers, Quiet, Write(w) \/ WriterStep(w) PROVE Goal
  BY <1>3, <1>7 DEF WriterStep, Write, Publish, Track, Drop
<1>8. ASSUME NEW t \in Threads, Quiet, Connect(t) \/ WakeOnDone(t) \/ TimerFires(t) PROVE Goal
  BY <1>3, <1>8 DEF Connect, WakeOnDone, TimerFires
<1>9. ASSUME Quiet, ResendTick \/ ResendOldest \/ Resume \/ NoticeFailure PROVE Goal
  BY <1>3, <1>9 DEF ResendTick, ResendOldest, Resume, NoticeFailure
<1>10. ASSUME Quiet, MarkOutgoingForRetransmit \/ ClearPauseForReconnect \/ OpenGate PROVE Goal
  BY <1>3, <1>10 DEF MarkOutgoingForRetransmit, ClearPauseForReconnect, OpenGate
<1>11. ASSUME Quiet, ReceiveAck \/ ResumeAfterAck \/ ReceivePause \/ ReceiveStart PROVE Goal
  BY <1>3, <1>11 DEF ReceiveAck, ResumeAfterAck, ReceivePause, ReceiveStart
<1>12. ASSUME Quiet, Age \/ PauseExpires \/ SetWriteDeadline \/ DeadlinePasses PROVE Goal
  BY <1>3, <1>12 DEF Age, PauseExpires, SetWriteDeadline, DeadlinePasses
<1>13. ASSUME Quiet, CallClose \/ Disconnect \/ UNCHANGED vars PROVE Goal
  BY <1>3, <1>13 DEF CallClose, Disconnect, vars
<1>14. ASSUME Quiet PROVE Goal
  <2> HIDE DEF Goal, Quiet
  <2> QED  BY <1>4, <1>5, <1>6, <1>7, <1>8, <1>9, <1>10, <1>11, <1>12, <1>13, <1>14
              DEF Next, SendStep, ResendStep, ReconnectStep
<1> QED  BY <1>0, <1>1, <1>2, <1>14, QuietStep

-----------------------------------------------------------------------------
\* What the refinement needs is invariant.
THEOREM WindowInvariance == Spec => []WindowInv
<1>1. Init => Entered
  <2>1. ASSUME Init
        PROVE  /\ seqNum = 1 /\ sent = {} /\ rcvd = {} /\ cur[Resender] = 0
               /\ \A w \in Writers : pc[w] = "idle"
    BY <2>1, ThreadAssumption DEF Init, Threads
  <2>2. Init => Taken = {}  BY <2>1 DEF Taken
  <2> QED  BY <2>1, <2>2 DEF Entered
<1>2. IInv /\ Entered /\ [Next]_vars => Entered'  BY EnteredStep
<1>3. Spec => []Entered  BY <1>1, <1>2, Invariance, PTL DEF Spec
<1>4. IInv /\ WindowAccounted /\ AcceptedNotLost /\ Entered => WindowInv  BY DEF WindowInv
<1> QED  BY <1>3, <1>4, Invariance, WindowKept, AcceptedKept, PTL

\* The adapter starts with the empty window, its numbers at 1.
LEMMA InitWindow ==
  ASSUME Init
  PROVE  Sliding!Init
<1>1. /\ seqNum = 1 /\ rcvd = {} /\ accepted = {} /\ closeStep = 0 /\ DOMAIN outgoing = {}
      /\ \A w \in Writers : pc[w] = "idle"
  BY ThreadAssumption DEF Init, Threads
<1>2. Sizes(outgoing) = [s \in {} |-> 0]  BY <1>1 DEF Sizes
<1> QED  BY <1>1, <1>2 DEF Sliding!Init, Sizes, OutgoingClosed

\* Write, the resend loop, the read loop, reconnectLoop and Close implement the
\* sliding window: frames enter within maxOutgoingUnackedBytes and before Close
\* (adapter.go:378-421), and leave because they were acknowledged or their Write
\* failed, never a frame the caller was told is written (adapter.go:894).
THEOREM WindowRefined == Spec => WindowImplemented
<1>1. ASSUME WindowInv, [Next]_vars PROVE [Sliding!Next]_(Sliding!vars)
  BY <1>1, TableMoves, OtherMoves
<1>2. WindowInv /\ [Next]_vars => [Sliding!Next]_(Sliding!vars)  BY <1>1
<1>3. Init => Sliding!Init  BY InitWindow
<1> QED  BY <1>2, <1>3, WindowInvariance, PTL DEF Spec, WindowImplemented, Sliding!Spec
=============================================================================
