---------------------------- MODULE AdapterSend ----------------------------
(***************************************************************************)
(* The sending half of the SSM data-channel adapter                        *)
(* (internal/protocol/adapter.go and adapter_resume.go): concurrent Write  *)
(* calls, the window of unacknowledged frames, the resend loop, pause and  *)
(* start_publication, write deadlines, WebSocket resume and Close.         *)
(*                                                                         *)
(* A step is one critical section or one blocking point of the code.  Time *)
(* is abstracted to events: a retransmission timeout (Age), maxPauseTime   *)
(* (PauseExpires) and a write deadline (DeadlinePasses) may expire at any  *)
(* moment.  Frame sizes are counted in an arbitrary unit.                  *)
(***************************************************************************)
EXTENDS Integers, FiniteSets, FiniteSetsExt

CONSTANTS
    Writers,        \* goroutines that call Write concurrently
    Resender,       \* the resendLoop goroutine
    ChunkSizes,     \* sizes a frame may have
    Window,         \* maxOutgoingUnackedBytes
    MaxScan,        \* maxScan, length of the sequential scan for the oldest
    MaxResend,      \* maxResendAttempts
    ResumeEnabled,  \* resumeEnabled()
    UseDeadline,    \* whether the caller uses SetWriteDeadline
    MaxFrames,      \* bound: frames written in a behaviour
    MaxDrops,       \* bound: WebSocket failures
    MaxPauses       \* bound: pause_publication messages

ASSUME ThreadAssumption == Resender \notin Writers
ASSUME SizeAssumption ==
    /\ Window \in Nat
    /\ ChunkSizes \subseteq 1..Window
ASSUME BoundAssumption ==
    /\ MaxScan \in Nat /\ MaxResend \in Nat
    /\ MaxFrames \in Nat /\ MaxDrops \in Nat /\ MaxPauses \in Nat
    /\ ResumeEnabled \in BOOLEAN /\ UseDeadline \in BOOLEAN

VARIABLES
    seqNum,             \* a.seqNum, the next sequence number
    outgoing,           \* a.outgoing, the unacknowledged frames by sequence number
    outgoingOldestSeq,  \* a.outgoingOldestSeq, -1 when empty
    outgoingBytes,      \* a.outgoingBytes
    paused,             \* a.paused
    pausedLong,         \* time.Since(a.pausedSince) > maxPauseTime
    reconnecting,       \* a.reconnecting
    rc,                 \* control point of reconnectLoop
    conn,               \* a.conn: a working or broken WebSocket, or nil
    closeStep,          \* how far Close has got: 0 not called .. 4 returned
    deadline,           \* a.writeDeadline relative to now
    timed,              \* threads with a deadline timer running
    pc, cur, need, todo,\* control point, frame, its size and chunks left, by thread
    reader,             \* read loop: between messages, or about to resume publication
    sent, rcvd,         \* frames ever put on a WebSocket; frames the agent has
    accepted,           \* frames whose transmission Write counted as written
    budget, drops, pauses \* what is left of the bounds

outVars   == <<outgoing, outgoingOldestSeq, outgoingBytes>>
chanVars  == <<sent, rcvd, accepted>>
pauseVars == <<paused, pausedLong, pauses>>
linkVars  == <<reconnecting, rc, conn, drops>>
timeVars  == <<deadline, timed>>
frameVars == <<seqNum, cur, need, todo, budget>>
vars == <<outVars, chanVars, pauseVars, linkVars, timeVars, frameVars,
          pc, closeStep, reader>>

Threads == Writers \cup {Resender}
Frame == [size: ChunkSizes, resends: Nat, stale: BOOLEAN]

Done == closeStep >= 1              \* a.done is closed
OutgoingClosed == closeStep >= 3    \* a.outgoingClosed
\* A read loop serves the current WebSocket; a new one starts after unpause.
ReaderRuns == conn = "up" /\ rc \notin {"mark", "unpause"} /\ reader = "read"

-----------------------------------------------------------------------------
(***************************************************************************)
(* Pieces of the handlers.                                                 *)
(***************************************************************************)
\* Closing a channel, or Broadcast, lets its waiters continue at q.
Wake(f, p, q) == [t \in Threads |-> IF f[t] = p THEN q ELSE f[t]]

Goto(t, q) == pc' = [pc EXCEPT ![t] = q]

Without(out, s) == [t \in DOMAIN out \ {s} |-> out[t]]

Refresh(out, s) == [out EXCEPT ![s].resends = @ + 1, ![s].stale = FALSE]

OldestOf(keys) == IF keys = {} THEN -1 ELSE Min(keys)

\* Mutant: no search of the map when the scan finds nothing.
OldestByScan(keys, s) ==
    LET scan == {t \in (s + 1)..(s + MaxScan) : t \in keys}
    IN  IF keys # {} /\ s # outgoingOldestSeq THEN outgoingOldestSeq
        ELSE IF scan # {} THEN Min(scan) ELSE -1

\* ackOutgoing's oldest pointer when s leaves keys behind: a bounded
\* sequential scan, then the minimum of the map.
OldestAfterAck(keys, s) ==
    LET scan == {t \in (s + 1)..(s + MaxScan) : t \in keys}
    IN  IF keys # {} /\ s # outgoingOldestSeq THEN outgoingOldestSeq
        ELSE IF scan # {} THEN Min(scan) ELSE OldestOf(keys)

StartClose == closeStep' = IF closeStep = 0 THEN 1 ELSE closeStep

\* startReconnect, called before Close.
StartReconnect ==
    /\ reconnecting' = TRUE
    /\ rc' = IF reconnecting THEN rc ELSE "dial"
    /\ UNCHANGED <<conn, drops>>

ResumePublication ==
    /\ paused' = FALSE /\ pausedLong' = FALSE
    /\ pc' = IF paused THEN Wake(pc, "pubWait", "publish") ELSE pc
    /\ UNCHANGED pauses

\* Where writeRaw's error takes its caller.
AfterError(t) == IF t = Resender THEN "stopped" ELSE "drop"

\* A blocked thread runs a timer only if a deadline was set when it blocked.
BlockAt(t, q) ==
    /\ Goto(t, q)
    /\ timed' = IF deadline = "armed" THEN timed \cup {t} ELSE timed \ {t}

\* Write returns an error.
ReturnError(w) ==
    /\ cur' = [cur EXCEPT ![w] = 0]
    /\ need' = [need EXCEPT ![w] = 0]
    /\ todo' = [todo EXCEPT ![w] = 0]
    /\ timed' = timed \ {w}
    /\ UNCHANGED <<seqNum, budget, deadline>>

-----------------------------------------------------------------------------
Init ==
    /\ seqNum = 1          \* the HandshakeResponse took 0
    /\ outgoing = [s \in {} |-> 0] /\ outgoingOldestSeq = -1 /\ outgoingBytes = 0
    /\ paused = FALSE /\ pausedLong = FALSE /\ pauses = MaxPauses
    /\ reconnecting = FALSE /\ rc = "none" /\ conn = "up" /\ drops = MaxDrops
    /\ closeStep = 0 /\ deadline = "unset" /\ timed = {} /\ reader = "read"
    /\ pc = [t \in Threads |-> IF t = Resender THEN "tick" ELSE "idle"]
    /\ cur = [t \in Threads |-> 0] /\ need = [w \in Writers |-> 0]
    /\ todo = [w \in Writers |-> 0] /\ budget = MaxFrames
    /\ sent = {} /\ rcvd = {} /\ accepted = {}

(***************************************************************************)
(* Write: split the buffer into k chunks, and for each wait for            *)
(* publication, take a sequence number, track the frame and transmit it.   *)
(***************************************************************************)
Write(w) == \E k \in 1..budget :
    /\ pc[w] = "idle"
    /\ Goto(w, "publish")
    /\ todo' = [todo EXCEPT ![w] = k]
    /\ budget' = budget - k
    /\ UNCHANGED <<outVars, chanVars, pauseVars, linkVars, timeVars, seqNum,
                   cur, need, closeStep, reader>>

\* waitForPublication, then nextSeq.
Publish(w) ==
    /\ pc[w] = "publish"
    /\ \/ /\ ~paused
          /\ cur' = [cur EXCEPT ![w] = seqNum]
          /\ seqNum' = seqNum + 1
          /\ \E n \in ChunkSizes : need' = [need EXCEPT ![w] = n]
          /\ timed' = timed \ {w}
          /\ Goto(w, "track")
          /\ UNCHANGED <<todo, budget, deadline>>
       \/ /\ paused /\ deadline = "past"
          /\ ReturnError(w) /\ Goto(w, "idle")
       \/ /\ paused /\ deadline # "past"
          /\ BlockAt(w, "pubWait")
          /\ UNCHANGED <<frameVars, deadline>>
    /\ UNCHANGED <<outVars, chanVars, pauseVars, linkVars, closeStep, reader>>

\* addOutgoing without its limit on the window.
Insert(w) ==
    /\ outgoing' = [s \in DOMAIN outgoing \cup {cur[w]} |->
                        IF s = cur[w]
                        THEN [size |-> need[w], resends |-> 0, stale |-> FALSE]
                        ELSE outgoing[s]]
    /\ outgoingBytes' = outgoingBytes + need[w]
    /\ outgoingOldestSeq' = IF outgoingOldestSeq = -1 \/ cur[w] < outgoingOldestSeq
                             THEN cur[w] ELSE outgoingOldestSeq

\* Mutant: the new frame's size is left out.
WindowFullAlready(w) == outgoingBytes >= Window

WindowFull(w) == outgoingBytes + need[w] > Window

\* Mutant: a frame that finds room is added even after Close.
TrackAfterClose(w) ==
    /\ pc[w] = "track" /\ ~WindowFull(w)
    /\ Insert(w)
    /\ timed' = timed \ {w} /\ Goto(w, "connect")
    /\ UNCHANGED <<frameVars, deadline, chanVars, pauseVars, linkVars, closeStep, reader>>

\* addOutgoing.  An error here leaves the sequence number used and untracked.
Track(w) ==
    /\ pc[w] = "track"
    /\ \/ /\ ~WindowFull(w) /\ ~OutgoingClosed
          /\ Insert(w)
          /\ timed' = timed \ {w}
          /\ Goto(w, "connect")
          /\ UNCHANGED <<frameVars, deadline>>
       \/ /\ OutgoingClosed \/ (WindowFull(w) /\ deadline = "past")
          /\ ReturnError(w) /\ Goto(w, "idle")
          /\ UNCHANGED outVars
       \/ /\ WindowFull(w) /\ ~OutgoingClosed /\ deadline # "past"
          /\ BlockAt(w, "trackWait")
          /\ UNCHANGED <<outVars, frameVars, deadline>>
    /\ UNCHANGED <<chanVars, pauseVars, linkVars, closeStep, reader>>

\* Mutant: a frame that meets a reconnect fails instead of waiting for it.
ConnectOrFail(t) ==
    /\ pc[t] = "connect"
    /\ Goto(t, IF Done \/ reconnecting THEN AfterError(t) ELSE "transmit")
    /\ timed' = timed \ {t}
    /\ UNCHANGED <<outVars, chanVars, pauseVars, linkVars, frameVars, deadline,
                   closeStep, reader>>

\* waitUntilConnected
Connect(t) ==
    /\ pc[t] = "connect"
    /\ \/ /\ Done \/ (reconnecting /\ deadline = "past")
          /\ Goto(t, AfterError(t)) /\ timed' = timed \ {t}
       \/ /\ ~Done /\ reconnecting /\ deadline # "past"
          /\ BlockAt(t, "gateWait")
       \/ /\ ~Done /\ ~reconnecting
          /\ Goto(t, "transmit") /\ timed' = timed \ {t}
    /\ UNCHANGED <<outVars, chanVars, pauseVars, linkVars, frameVars, deadline,
                   closeStep, reader>>

\* Mutant: one chunk too many.
TransmittedOnce(t) ==
    IF t = Resender
    THEN Goto(t, "tick") /\ UNCHANGED <<accepted, todo, need>>
    ELSE /\ Goto(t, IF todo[t] = 0 THEN "idle" ELSE "publish")
         /\ accepted' = accepted \cup {cur[t]}
         /\ todo' = [todo EXCEPT ![t] = @ - 1]
         /\ need' = [need EXCEPT ![t] = 0]

\* A frame is on the WebSocket: Write goes on to its next chunk.
Transmitted(t) ==
    IF t = Resender
    THEN /\ Goto(t, "tick")
         /\ UNCHANGED <<accepted, todo, need>>
    ELSE /\ Goto(t, IF todo[t] = 1 THEN "idle" ELSE "publish")
         /\ accepted' = accepted \cup {cur[t]}
         /\ todo' = [todo EXCEPT ![t] = @ - 1]
         /\ need' = [need EXCEPT ![t] = 0]

\* writeRaw with writeMu held.
Transmit(t) ==
    /\ pc[t] = "transmit"
    /\ \/ /\ reconnecting
          /\ Goto(t, "connect")
          /\ UNCHANGED <<chanVars, linkVars, frameVars, closeStep>>
       \/ /\ ~reconnecting /\ conn = "up" /\ deadline # "past"
          /\ sent' = sent \cup {cur[t]}
          /\ Transmitted(t)
          /\ cur' = [cur EXCEPT ![t] = 0]
          /\ UNCHANGED <<rcvd, linkVars, seqNum, budget, closeStep>>
       \/ \* WriteMessage fails before Close: handleTransportFailure
          /\ ~reconnecting /\ ~Done
          /\ conn = "down" \/ deadline = "past"
          /\ IF ResumeEnabled
             THEN Goto(t, "connect") /\ StartReconnect /\ UNCHANGED closeStep
             ELSE Goto(t, AfterError(t)) /\ StartClose /\ UNCHANGED linkVars
          /\ UNCHANGED <<chanVars, frameVars>>
       \/ /\ ~reconnecting /\ Done
          /\ conn # "up" \/ deadline = "past"
          /\ Goto(t, AfterError(t))
          /\ UNCHANGED <<chanVars, linkVars, frameVars, closeStep>>
    /\ UNCHANGED <<outVars, pauseVars, timeVars, reader>>

\* Mutant: no Broadcast.
RemoveSilently(s, oldest, f) ==
    /\ outgoing' = Without(outgoing, s)
    /\ outgoingBytes' = outgoingBytes - outgoing[s].size
    /\ outgoingOldestSeq' = oldest
    /\ pc' = f

\* What leaves the window wakes every writer blocked on it.
Remove(s, oldest, f) ==
    /\ outgoing' = Without(outgoing, s)
    /\ outgoingBytes' = outgoingBytes - outgoing[s].size
    /\ outgoingOldestSeq' = oldest
    /\ pc' = Wake(f, "trackWait", "track")

\* dropOutgoing after a failed writeRaw, and Write's error.
Drop(w) ==
    /\ pc[w] = "drop"
    /\ LET s == cur[w]
           keys == DOMAIN outgoing \ {s}
           f == [pc EXCEPT ![w] = "idle"]
       IN  IF s \in DOMAIN outgoing
           THEN Remove(s, IF s = outgoingOldestSeq THEN OldestOf(keys)
                          ELSE outgoingOldestSeq, f)
           ELSE pc' = f /\ UNCHANGED outVars
    /\ ReturnError(w)
    /\ UNCHANGED <<chanVars, pauseVars, linkVars, closeStep, reader>>

\* The done arm of waitWithWriteDeadline's select.
WakeOnDone(t) ==
    /\ Done
    /\ \/ pc[t] = "pubWait" /\ ReturnError(t) /\ Goto(t, "idle")
       \/ /\ pc[t] = "gateWait" /\ Goto(t, AfterError(t))
          /\ timed' = timed \ {t}
          /\ UNCHANGED <<frameVars, deadline>>
    /\ UNCHANGED <<outVars, chanVars, pauseVars, linkVars, closeStep, reader>>

(***************************************************************************)
(* Write deadlines.                                                        *)
(***************************************************************************)
SetWriteDeadline ==
    /\ UseDeadline
    /\ deadline' \in {"unset", "armed", "past"}
    /\ pc' = Wake(pc, "trackWait", "track")
    /\ UNCHANGED <<outVars, chanVars, pauseVars, linkVars, frameVars, timed,
                   closeStep, reader>>

DeadlinePasses ==
    /\ deadline = "armed" /\ deadline' = "past"
    /\ UNCHANGED <<outVars, chanVars, pauseVars, linkVars, frameVars, timed, pc,
                   closeStep, reader>>

\* A timer fires when the deadline passes that was set when it was started,
\* wherever SetWriteDeadline has put the deadline since.
TimerFires(t) ==
    /\ t \in timed
    /\ timed' = timed \ {t}
    /\ pc' = CASE pc[t] = "pubWait"  -> [pc EXCEPT ![t] = "idle"]
             [] pc[t] = "gateWait" -> [pc EXCEPT ![t] = AfterError(t)]
             [] OTHER              -> Wake(pc, "trackWait", "track")
    /\ LET fails == pc[t] = "pubWait"
       IN  /\ cur' = [cur EXCEPT ![t] = IF fails THEN 0 ELSE @]
           /\ todo' = IF fails THEN [todo EXCEPT ![t] = 0] ELSE todo
    /\ UNCHANGED <<outVars, chanVars, pauseVars, linkVars, seqNum, need, budget,
                   deadline, closeStep, reader>>

(***************************************************************************)
(* resendLoop                                                              *)
(***************************************************************************)
\* Mutant: a long pause stops the loop without closing the adapter.
ResendTickStops ==
    /\ pc[Resender] = "tick" /\ (Done \/ ~reconnecting)
    /\ Goto(Resender, IF Done \/ (paused /\ pausedLong) THEN "stopped"
                      ELSE IF paused THEN "tick" ELSE "pick")
    /\ UNCHANGED <<outVars, chanVars, pauseVars, linkVars, timeVars, frameVars,
                   closeStep, reader>>

\* Mutant: nothing bounds a pause.
ResendTickWaits ==
    /\ pc[Resender] = "tick" /\ (Done \/ ~(reconnecting \/ paused))
    /\ Goto(Resender, IF Done THEN "stopped" ELSE "pick")
    /\ UNCHANGED <<outVars, chanVars, pauseVars, linkVars, timeVars, frameVars,
                   closeStep, reader>>

ResendTick ==
    /\ pc[Resender] = "tick"
    /\ \/ Done /\ Goto(Resender, "stopped") /\ UNCHANGED closeStep
       \/ /\ ~reconnecting /\ paused /\ pausedLong
          /\ StartClose /\ Goto(Resender, "stopped")
       \/ /\ ~reconnecting /\ ~paused
          /\ Goto(Resender, "pick") /\ UNCHANGED closeStep
    /\ UNCHANGED <<outVars, chanVars, pauseVars, linkVars, timeVars, frameVars,
                   reader>>

\* Mutant: a frame resent too often is left alone.
ResendGivesUp ==
    LET s == outgoingOldestSeq
        again == s # -1 /\ outgoing[s].stale /\ outgoing[s].resends < MaxResend
    IN  /\ pc[Resender] = "pick"
        /\ outgoing' = IF again THEN Refresh(outgoing, s) ELSE outgoing
        /\ cur' = [cur EXCEPT ![Resender] = IF again THEN s ELSE @]
        /\ Goto(Resender, IF again THEN "connect" ELSE "tick")
        /\ UNCHANGED <<outgoingOldestSeq, outgoingBytes, chanVars, pauseVars, linkVars,
                       timeVars, seqNum, need, todo, budget, closeStep, reader>>

ResendOldest ==
    LET s == outgoingOldestSeq
        due == s # -1 /\ outgoing[s].stale
    IN  /\ pc[Resender] = "pick"
        /\ \/ /\ ~due /\ Goto(Resender, "tick")
              /\ UNCHANGED <<outgoing, cur, closeStep>>
           \/ /\ due /\ outgoing[s].resends < MaxResend
              /\ outgoing' = Refresh(outgoing, s)
              /\ cur' = [cur EXCEPT ![Resender] = s]
              /\ Goto(Resender, "connect")
              /\ UNCHANGED closeStep
           \/ /\ due /\ outgoing[s].resends >= MaxResend
              /\ StartClose /\ Goto(Resender, "stopped")
              /\ UNCHANGED <<outgoing, cur>>
        /\ UNCHANGED <<outgoingOldestSeq, outgoingBytes, chanVars, pauseVars,
                       linkVars, timeVars, seqNum, need, todo, budget, reader>>

\* The retransmission timeout of the oldest frame; no other is ever consulted.
Age ==
    /\ outgoingOldestSeq # -1 /\ ~outgoing[outgoingOldestSeq].stale
    /\ outgoing' = [outgoing EXCEPT ![outgoingOldestSeq].stale = TRUE]
    /\ UNCHANGED <<outgoingOldestSeq, outgoingBytes, chanVars, pauseVars,
                   linkVars, timeVars, frameVars, pc, closeStep, reader>>

(***************************************************************************)
(* The read loop: acknowledgements and flow control.                       *)
(***************************************************************************)
\* Mutant: acknowledgements taken to come in order.
AckOldest == \E s \in rcvd :
    /\ ReaderRuns
    /\ IF s \in DOMAIN outgoing
       THEN Remove(outgoingOldestSeq, OldestOf(DOMAIN outgoing \ {outgoingOldestSeq}), pc)
       ELSE UNCHANGED <<outVars, pc>>
    /\ reader' = "resume"
    /\ UNCHANGED <<chanVars, pauseVars, linkVars, timeVars, frameVars, closeStep>>

ReceiveAck == \E s \in rcvd :
    /\ ReaderRuns
    /\ IF s \in DOMAIN outgoing
       THEN Remove(s, OldestAfterAck(DOMAIN outgoing \ {s}, s), pc)
       ELSE UNCHANGED <<outVars, pc>>
    /\ reader' = "resume"
    /\ UNCHANGED <<chanVars, pauseVars, linkVars, timeVars, frameVars, closeStep>>

ResumeAfterAck ==
    /\ reader = "resume" /\ reader' = "read"
    /\ ResumePublication
    /\ UNCHANGED <<outVars, chanVars, linkVars, timeVars, frameVars, closeStep>>

ReceivePause ==
    /\ ReaderRuns /\ pauses > 0
    /\ paused' = TRUE /\ pausedLong' = (paused /\ pausedLong)
    /\ pauses' = pauses - 1
    /\ UNCHANGED <<outVars, chanVars, linkVars, timeVars, frameVars, pc,
                   closeStep, reader>>

ReceiveStart ==
    /\ ReaderRuns /\ paused
    /\ ResumePublication
    /\ UNCHANGED <<outVars, chanVars, linkVars, timeVars, frameVars, closeStep,
                   reader>>

PauseExpires ==
    /\ paused /\ ~pausedLong /\ pausedLong' = TRUE
    /\ UNCHANGED <<outVars, chanVars, paused, pauses, linkVars, timeVars,
                   frameVars, pc, closeStep, reader>>

\* The agent at the far end takes a frame (again); it acknowledges every copy.
AgentReceives == \E s \in sent \ rcvd :
    /\ rcvd' = rcvd \cup {s}
    /\ UNCHANGED <<outVars, sent, accepted, pauseVars, linkVars, timeVars,
                   frameVars, pc, closeStep, reader>>

(***************************************************************************)
(* Transport failure and reconnectLoop.                                    *)
(***************************************************************************)
Disconnect ==
    /\ conn = "up" /\ drops > 0
    /\ conn' = "down" /\ drops' = drops - 1
    /\ UNCHANGED <<outVars, chanVars, pauseVars, timeVars, frameVars,
                   reconnecting, rc, pc, closeStep, reader>>

\* The read or ping loop reports the failure (handleTransportFailure).
NoticeFailure ==
    /\ conn = "down" /\ ~Done /\ ~reconnecting
    /\ IF ResumeEnabled THEN StartReconnect /\ UNCHANGED closeStep
       ELSE StartClose /\ UNCHANGED linkVars
    /\ UNCHANGED <<outVars, chanVars, pauseVars, timeVars, frameVars, pc, reader>>

\* A round of resume attempts ends: a new WebSocket (swapConn), an adapter
\* found closed, or the resume budget used up.
Resume ==
    /\ rc = "dial"
    /\ \/ rc' = "mark" /\ conn' = "up" /\ UNCHANGED closeStep
       \/ Done /\ rc' = "gate" /\ UNCHANGED <<conn, closeStep>>
       \/ ~Done /\ StartClose /\ rc' = "gate" /\ UNCHANGED conn
    /\ UNCHANGED <<outVars, chanVars, pauseVars, timeVars, frameVars, pc,
                   reconnecting, drops, reader>>

MarkOutgoingForRetransmit ==
    /\ rc = "mark" /\ rc' = "unpause"
    /\ outgoing' = [s \in DOMAIN outgoing |->
                        [outgoing[s] EXCEPT !.resends = 0, !.stale = TRUE]]
    /\ pc' = Wake(pc, "trackWait", "track")
    /\ UNCHANGED <<outgoingOldestSeq, outgoingBytes, chanVars, pauseVars,
                   timeVars, frameVars, reconnecting, conn, drops, closeStep, reader>>

ClearPauseForReconnect ==
    /\ rc = "unpause" /\ rc' = "gate"
    /\ ResumePublication
    /\ UNCHANGED <<outVars, chanVars, timeVars, frameVars, reconnecting, conn,
                   drops, closeStep, reader>>

\* reconnectLoop's deferred function.
OpenGate ==
    /\ rc = "gate" /\ rc' = "none" /\ reconnecting' = FALSE
    /\ pc' = Wake(pc, "gateWait", "connect")
    /\ UNCHANGED <<outVars, chanVars, pauseVars, timeVars, frameVars, conn, drops,
                   closeStep, reader>>

(***************************************************************************)
(* Close: called by the owner or on channel_closed, then its steps.        *)
(***************************************************************************)
CallClose ==
    /\ closeStep = 0 /\ StartClose
    /\ UNCHANGED <<outVars, chanVars, pauseVars, linkVars, timeVars, frameVars,
                   pc, reader>>

CloseProceeds ==
    /\ closeStep \in 1..3 /\ closeStep' = closeStep + 1
    /\ \/ /\ closeStep = 1 /\ reconnecting' = FALSE
          /\ pc' = Wake(pc, "gateWait", "connect") /\ UNCHANGED conn
       \/ /\ closeStep = 2
          /\ pc' = Wake(pc, "trackWait", "track")
          /\ UNCHANGED <<reconnecting, conn>>
       \/ /\ closeStep = 3 /\ conn' = "nil" /\ UNCHANGED <<pc, reconnecting>>
    /\ UNCHANGED <<outVars, chanVars, pauseVars, timeVars, frameVars, rc, drops,
                   reader>>

-----------------------------------------------------------------------------
WriterStep(w) == Publish(w) \/ Track(w) \/ Drop(w)
SendStep(t) == Connect(t) \/ Transmit(t) \/ WakeOnDone(t) \/ TimerFires(t)
ResendStep == ResendTick \/ ResendOldest
ReconnectStep == Resume \/ MarkOutgoingForRetransmit \/ ClearPauseForReconnect
                 \/ OpenGate

Next ==
    \/ \E w \in Writers : Write(w) \/ WriterStep(w)
    \/ \E t \in Threads : SendStep(t)
    \/ ResendStep \/ ReconnectStep \/ NoticeFailure
    \/ ReceiveAck \/ ResumeAfterAck \/ ReceivePause \/ ReceiveStart
    \/ Age \/ PauseExpires \/ SetWriteDeadline \/ DeadlinePasses
    \/ CallClose \/ CloseProceeds
    \/ AgentReceives \/ Disconnect

Spec == Init /\ [][Next]_vars

(***************************************************************************)
(* Goroutines run and timers fire; neither the agent, the network nor the  *)
(* callers of Write and Close owe anything.                                *)
(***************************************************************************)
Fairness ==
    /\ \A w \in Writers : WF_vars(WriterStep(w))
    /\ \A t \in Threads : WF_vars(SendStep(t))
    /\ WF_vars(ResendStep) /\ WF_vars(ReconnectStep) /\ WF_vars(NoticeFailure)
    /\ WF_vars(ResumeAfterAck) /\ WF_vars(Age) /\ WF_vars(PauseExpires)
    /\ WF_vars(CloseProceeds)

LiveSpec == Spec /\ Fairness

-----------------------------------------------------------------------------
Writing == {"publish", "pubWait", "track", "trackWait", "drop"}
Sending == {"connect", "gateWait", "transmit"}

\* Every variable keeps its type: adapter.go:132-209.
TypeOK ==
    /\ seqNum \in Nat \ {0}
    /\ DOMAIN outgoing \subseteq Nat \ {0} /\ IsFiniteSet(DOMAIN outgoing)
    /\ outgoing \in [DOMAIN outgoing -> Frame]
    /\ outgoingOldestSeq \in Int /\ outgoingBytes \in Int
    /\ paused \in BOOLEAN /\ pausedLong \in BOOLEAN /\ pauses \in Nat
    /\ reconnecting \in BOOLEAN /\ conn \in {"up", "down", "nil"} /\ drops \in Nat
    /\ rc \in {"none", "dial", "mark", "unpause", "gate"}
    /\ closeStep \in 0..4 /\ reader \in {"read", "resume"}
    /\ deadline \in {"unset", "armed", "past"} /\ timed \subseteq Threads
    /\ pc \in [Threads -> {"idle", "tick", "pick", "stopped"} \cup Writing \cup Sending]
    /\ cur \in [Threads -> Nat] /\ need \in [Writers -> ChunkSizes \cup {0}]
    /\ todo \in [Writers -> Nat] /\ budget \in Nat
    /\ sent \subseteq Nat /\ rcvd \subseteq Nat /\ accepted \subseteq Nat

\* ackOutgoing, addOutgoing and dropOutgoing keep outgoingOldestSeq at the
\* smallest tracked sequence number, whatever order frames are added and
\* acknowledged in: resendLoop finds the frame the agent is waiting for.
OldestIsMinimum == outgoingOldestSeq = OldestOf(DOMAIN outgoing)

\* The bytes held for retransmission, as pairs of a frame and an offset.
UnackedBytes(out) ==
    {b \in (DOMAIN out) \X (1..Window) : b[2] <= out[b[1]].size}

\* outgoingBytes counts exactly the tracked frames (adapter.go:412, 488, 508)
\* and never exceeds maxOutgoingUnackedBytes, with any number of writers.
WindowAccounted ==
    /\ outgoingBytes = Cardinality(UnackedBytes(outgoing))
    /\ outgoingBytes <= Window

\* A chunk that Write counted as written is at the agent or still held for
\* retransmission: no acknowledgement, drop, resume or Close loses it.
AcceptedNotLost == accepted \subseteq rcvd \cup DOMAIN outgoing

\* Write, Close and the agent's acknowledgements implement a sliding window,
\* whatever the resend loop, the WebSockets and the deadlines do.
Sliding == INSTANCE SlidingWindow WITH
    Capacity <- Window,
    Sizes    <- ChunkSizes,
    next     <- seqNum,
    taken    <- {cur[w] : w \in {v \in Writers : pc[v] \in {"track", "trackWait"}}},
    window   <- [s \in DOMAIN outgoing |-> outgoing[s].size],
    arrived  <- rcvd,
    accepted <- accepted,
    closed   <- OutgoingClosed
WindowImplemented == Sliding!Spec

\* While the adapter is open, every sequence number below one that was
\* written is at the agent, held, or still in some Write: the agent, which
\* delivers in sequence, is never left waiting for a number nobody will send.
NoSequenceHole ==
    ~Done => \A s \in accepted : \A t \in 1..(s - 1) :
                t \in rcvd \cup DOMAIN outgoing \/ \E w \in Writers : cur[w] = t

\* resendLoop stops only with the adapter (adapter.go:611).
ResendLoopRunsUntilClose == pc[Resender] = "stopped" => Done

\* A blocked Write always comes back: the window, pause_publication, the
\* reconnect gate and Close cannot strand it, even if the agent never answers.
WriteReturns == \A w \in Writers : (pc[w] # "idle") ~> (pc[w] = "idle")

\* pause_publication ends in a resume or in the adapter closing.
PauseBounded == paused ~> (~paused \/ Done)

\* What Write counted as written reaches the agent or the adapter closes:
\* retransmission does not stop while frames are outstanding.
AcceptedDelivered == \A s \in 1..MaxFrames : (s \in accepted) ~> (s \in rcvd \/ Done)
=============================================================================
