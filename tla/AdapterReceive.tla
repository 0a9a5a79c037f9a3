--------------------------- MODULE AdapterReceive ---------------------------
(***************************************************************************)
(* The receiving half of the SSM data-channel adapter                      *)
(* (internal/protocol/adapter.go): the handshake, acknowledgement of       *)
(* output_stream_data messages, their reordering by expectedSeqNum and     *)
(* incomingMsgBuffer, and one read loop per WebSocket generation.          *)
(*                                                                         *)
(* The agent numbers its messages 0 (HandshakeRequest), 1                  *)
(* (HandshakeComplete), 2, 3, ...; a message is its number.  Whatever was  *)
(* sent may reach the current read loop at any later moment, any number of *)
(* times: reordering, duplication and (by never arriving) loss.            *)
(***************************************************************************)
EXTENDS Integers, Sequences, FiniteSetsExt

CONSTANTS
    Control,            \* numbers of messages whose payload is not Output
    DropInHandshake,    \* the WebSocket may fail during the handshake
    MaxMessages,        \* bound: messages the agent sends
    MaxDrops            \* bound: WebSocket failures

Request == 0
Complete == 1
Messages == 0..(MaxMessages - 1)
DataMessages == 2..(MaxMessages - 1)
Generations == 1..(MaxDrops + 1)

ASSUME ReceiveAssumption ==
    /\ MaxMessages \in Nat \ {0, 1} /\ MaxDrops \in Nat
    /\ Control \subseteq DataMessages
    /\ DropInHandshake \in BOOLEAN

VARIABLES
    agentNext,          \* agent: the next number it will use
    agentAcked,         \* agent: numbers it has acknowledgements for
    expectedSeqNum,     \* a.expectedSeqNum
    buffer,             \* DOMAIN of a.incomingMsgBuffer
    bufMu,              \* a.incomingMsgBufMu: generation of the holder, 0 if free
    delivered,          \* what was written to the stream, in order
    ackSent,            \* numbers acknowledged on some WebSocket
    responded,          \* a.handshakeResponded
    responseSaved,      \* a.lastHandshakeResponse # nil
    responseSent,       \* a HandshakeResponse was put on a WebSocket
    handshakeComplete,  \* a.handshakeComplete
    gen,                \* a.connGen
    connected,          \* the current WebSocket works
    reconnecting,       \* a.reconnecting
    done,               \* a.done is closed
    pc, msg, first      \* of each read loop: control point, message in hand,
                        \* and whether it is the first HandshakeRequest

agentVars == <<agentNext, agentAcked>>
streamVars == <<expectedSeqNum, buffer, delivered>>
shakeVars == <<responded, responseSaved, responseSent, handshakeComplete>>
linkVars == <<gen, connected, reconnecting, done>>
vars == <<agentVars, streamVars, shakeVars, linkVars, bufMu, ackSent, pc, msg, first>>

Init ==
    /\ agentNext = 0 /\ agentAcked = {}
    /\ expectedSeqNum = 0 /\ buffer = {} /\ delivered = <<>> /\ bufMu = 0
    /\ ackSent = {}
    /\ responded = FALSE /\ responseSaved = FALSE /\ responseSent = FALSE
    /\ handshakeComplete = FALSE
    /\ gen = 1 /\ connected = TRUE /\ reconnecting = FALSE /\ done = FALSE
    /\ pc = [g \in Generations |-> IF g = 1 THEN "read" ELSE "none"]
    /\ msg = [g \in Generations |-> 0] /\ first = [g \in Generations |-> FALSE]

Goto(g, q) == pc' = [pc EXCEPT ![g] = q]

\* The numbers from..to-1 whose payload is written to the stream, in their order:
\* the i-th is the one with i of them up to it.
Outputs(from, to) == (from..(to - 1)) \ Control
Output(from, to) == [i \in 1..Cardinality(Outputs(from, to)) |->
    CHOOSE s \in Outputs(from, to) : Cardinality({t \in Outputs(from, to) : t <= s}) = i]

-----------------------------------------------------------------------------
(***************************************************************************)
(* The agent: HandshakeRequest, HandshakeComplete once it has a response,  *)
(* and data without waiting for acknowledgements.                          *)
(***************************************************************************)
AgentSends ==
    /\ agentNext < MaxMessages
    /\ agentNext = Complete => responseSent
    /\ agentNext' = agentNext + 1
    /\ UNCHANGED <<agentAcked, streamVars, shakeVars, linkVars, bufMu, ackSent,
                   pc, msg, first>>

AgentGetsAck(s) ==
    /\ s \in ackSent \ agentAcked
    /\ agentAcked' = agentAcked \cup {s}
    /\ UNCHANGED <<agentNext, streamVars, shakeVars, linkVars, bufMu, ackSent,
                   pc, msg, first>>

(***************************************************************************)
(* The read loop takes a message (dispatchMessage, handleOutputStream).    *)
(***************************************************************************)
Receive(g, s) ==
    /\ g = gen /\ connected /\ ~done /\ pc[g] = "read" /\ s < agentNext
    /\ msg' = [msg EXCEPT ![g] = s]
    /\ first' = [first EXCEPT ![g] = (s = Request /\ ~responded)]
    /\ responded' = (responded \/ s = Request)
    /\ handshakeComplete' = (handshakeComplete \/ s = Complete)
    /\ Goto(g, CASE s = Request -> "reqAck"
                 [] s = Complete -> IF handshakeComplete THEN "completeAck" ELSE "update"
                 [] OTHER -> "lock")
    /\ UNCHANGED <<agentVars, streamVars, responseSaved, responseSent, linkVars,
                   bufMu, ackSent>>

\* writeRaw waits out a reconnection; the message then leaves on the current
\* WebSocket, whichever generation's loop sends it.
CanSend == ~reconnecting /\ ~done /\ connected

\* handleHandshakeRequest, or its duplicate: acknowledge, then respond.
AckRequest(g) ==
    /\ pc[g] = "reqAck" /\ CanSend
    /\ ackSent' = ackSent \cup {Request}
    /\ responseSaved' = (responseSaved \/ first[g])
    /\ Goto(g, IF responseSaved' THEN "respond" ELSE "read")
    /\ UNCHANGED <<agentVars, streamVars, responded, responseSent,
                   handshakeComplete, linkVars, bufMu, msg, first>>

\* Mutant: a duplicate request moves expectedSeqNum too.
RespondAgain(g) ==
    /\ pc[g] = "respond" /\ CanSend
    /\ responseSent' = TRUE
    /\ Goto(g, "update")
    /\ UNCHANGED <<agentVars, streamVars, responded, responseSaved,
                   handshakeComplete, linkVars, bufMu, ackSent, msg, first>>

Respond(g) ==
    /\ pc[g] = "respond" /\ CanSend
    /\ responseSent' = TRUE
    /\ Goto(g, IF first[g] THEN "update" ELSE "read")
    /\ UNCHANGED <<agentVars, streamVars, responded, responseSaved,
                   handshakeComplete, linkVars, bufMu, ackSent, msg, first>>

UpdateExpectedSeqNum(g) ==
    /\ pc[g] = "update" /\ bufMu = 0
    /\ expectedSeqNum' = msg[g] + 1
    /\ Goto(g, IF msg[g] = Complete THEN "completeAck" ELSE "read")
    /\ UNCHANGED <<agentVars, buffer, delivered, shakeVars, linkVars, bufMu,
                   ackSent, msg, first>>

AckComplete(g) ==
    /\ pc[g] = "completeAck" /\ CanSend
    /\ ackSent' = ackSent \cup {Complete}
    /\ Goto(g, "read")
    /\ UNCHANGED <<agentVars, streamVars, shakeVars, linkVars, bufMu, msg, first>>

(***************************************************************************)
(* handleDataMessage: under incomingMsgBufMu, acknowledge, then process,   *)
(* buffer or ignore.                                                       *)
(***************************************************************************)
LockBuffer(g) ==
    /\ pc[g] = "lock" /\ bufMu = 0
    /\ bufMu' = g
    /\ Goto(g, "ack")
    /\ UNCHANGED <<agentVars, streamVars, shakeVars, linkVars, ackSent, msg, first>>

AckData(g) ==
    /\ pc[g] = "ack" /\ CanSend
    /\ ackSent' = ackSent \cup {msg[g]}
    /\ Goto(g, "process")
    /\ UNCHANGED <<agentVars, streamVars, shakeVars, linkVars, bufMu, msg, first>>

\* Mutant: one increment too many.
NextExpectedPast(e, buf) == Min({n \in (e + 1)..(MaxMessages + 1) : n \notin buf}) + 1

\* The first number not available once e has been processed.
NextExpected(e, buf) == Min({n \in (e + 1)..(MaxMessages + 1) : n \notin buf})

\* Mutant: what is out of order is not kept.
ProcessInOrderOnly(g) ==
    /\ pc[g] = "process"
    /\ expectedSeqNum' = expectedSeqNum + (IF msg[g] = expectedSeqNum THEN 1 ELSE 0)
    /\ delivered' = IF msg[g] = expectedSeqNum /\ ~done
                    THEN delivered \o Output(msg[g], msg[g] + 1) ELSE delivered
    /\ bufMu' = 0 /\ Goto(g, "read")
    /\ UNCHANGED <<buffer, agentVars, shakeVars, linkVars, ackSent, msg, first>>

\* Mutant: messages are processed in their order of arrival.
ProcessOnArrival(g) ==
    /\ pc[g] = "process"
    /\ IF msg[g] >= expectedSeqNum
       THEN /\ expectedSeqNum' = msg[g] + 1
            /\ delivered' = IF done THEN delivered
                            ELSE delivered \o Output(msg[g], msg[g] + 1)
       ELSE UNCHANGED <<expectedSeqNum, delivered>>
    /\ bufMu' = 0 /\ Goto(g, "read")
    /\ UNCHANGED <<buffer, agentVars, shakeVars, linkVars, ackSent, msg, first>>

\* processMessage and processBufferedMessages, which takes out of the buffer what
\* follows s and not s; a closed pipe takes nothing.
ProcessData(g) ==
    /\ pc[g] = "process"
    /\ LET s == msg[g]
           next == NextExpected(s, buffer)
       IN \/ /\ s = expectedSeqNum
             /\ expectedSeqNum' = next
             /\ buffer' = buffer \ ((s + 1)..(next - 1))
             /\ delivered' = IF done THEN delivered ELSE delivered \o Output(s, next)
          \/ /\ s > expectedSeqNum
             /\ buffer' = buffer \cup {s}
             /\ UNCHANGED <<expectedSeqNum, delivered>>
          \/ /\ s < expectedSeqNum
             /\ UNCHANGED streamVars
    /\ bufMu' = 0
    /\ Goto(g, "read")
    /\ UNCHANGED <<agentVars, shakeVars, linkVars, ackSent, msg, first>>

\* A send that finds the adapter closed gives up, releasing the mutex.
GiveUp(g) ==
    /\ done /\ pc[g] \in {"reqAck", "respond", "completeAck", "ack"}
    /\ Goto(g, "read")
    /\ bufMu' = IF bufMu = g THEN 0 ELSE bufMu
    /\ UNCHANGED <<agentVars, streamVars, shakeVars, linkVars, ackSent, msg, first>>

(***************************************************************************)
(* Transport failure, and reconnectLoop from swapConn to its deferred      *)
(* opening of the gate.                                                    *)
(***************************************************************************)
Disconnect ==
    /\ connected /\ ~reconnecting /\ ~done /\ gen <= MaxDrops
    /\ DropInHandshake \/ expectedSeqNum > Complete
    /\ connected' = FALSE /\ reconnecting' = TRUE
    /\ UNCHANGED <<agentVars, streamVars, shakeVars, gen, done, bufMu, ackSent,
                   pc, msg, first>>

Resume ==
    /\ ~connected /\ ~done
    /\ connected' = TRUE /\ gen' = gen + 1
    /\ handshakeComplete' = TRUE
    /\ Goto(gen + 1, "read")
    /\ UNCHANGED <<agentVars, streamVars, responded, responseSaved, responseSent,
                   reconnecting, done, bufMu, ackSent, msg, first>>

OpenGate ==
    /\ connected /\ reconnecting
    /\ reconnecting' = FALSE
    /\ UNCHANGED <<agentVars, streamVars, shakeVars, gen, connected, done, bufMu,
                   ackSent, pc, msg, first>>

Close ==
    /\ ~done /\ done' = TRUE
    /\ UNCHANGED <<agentVars, streamVars, shakeVars, gen, connected, reconnecting,
                   bufMu, ackSent, pc, msg, first>>

-----------------------------------------------------------------------------
LoopStep(g) ==
    \/ AckRequest(g) \/ Respond(g) \/ UpdateExpectedSeqNum(g) \/ AckComplete(g)
    \/ LockBuffer(g) \/ AckData(g) \/ ProcessData(g) \/ GiveUp(g)

Next ==
    \/ AgentSends
    \/ \E s \in Messages : AgentGetsAck(s)
    \/ \E g \in Generations : LoopStep(g) \/ \E s \in Messages : Receive(g, s)
    \/ Disconnect \/ Resume \/ OpenGate \/ Close

Spec == Init /\ [][Next]_vars

\* The agent retransmits what it has no acknowledgement for, and some copy
\* arrives whenever a read loop keeps listening.
Retransmit(s) == s \notin agentAcked /\ \E g \in Generations : Receive(g, s)

\* Goroutines run, and a resume ends (or the adapter closes).
Fairness ==
    /\ \A g \in Generations : WF_vars(LoopStep(g))
    /\ \A s \in Messages : SF_vars(Retransmit(s))
    /\ WF_vars(Resume) /\ WF_vars(OpenGate)

LiveSpec == Spec /\ Fairness

-----------------------------------------------------------------------------
LoopPoints == {"none", "read", "reqAck", "respond", "update", "completeAck",
               "lock", "ack", "process"}

\* Every variable keeps its type: adapter.go:132-209.
TypeOK ==
    /\ agentNext \in 0..MaxMessages /\ agentAcked \subseteq Messages
    /\ expectedSeqNum \in 0..MaxMessages /\ buffer \subseteq DataMessages
    /\ bufMu \in 0..(MaxDrops + 1)
    /\ delivered \in Seq(DataMessages) /\ ackSent \subseteq Messages
    /\ responded \in BOOLEAN /\ responseSaved \in BOOLEAN
    /\ responseSent \in BOOLEAN /\ handshakeComplete \in BOOLEAN
    /\ gen \in Generations /\ connected \in BOOLEAN
    /\ reconnecting \in BOOLEAN /\ done \in BOOLEAN
    /\ pc \in [Generations -> LoopPoints] /\ msg \in [Generations -> Messages]
    /\ first \in [Generations -> BOOLEAN]

\* An acknowledged message is one the agent will never send again, so the
\* adapter must have processed it, hold it, or have it in hand
\* (adapter.go:1276-1296), also when two generations' loops overlap.
AckedIsHeld == ~done =>
    \A s \in ackSent : \/ s < expectedSeqNum \/ s \in buffer
                       \/ \E g \in Generations : msg[g] = s /\ pc[g] \notin {"none", "read"}

\* The handshake assigns expectedSeqNum without looking at it (adapter.go:713-718):
\* late or duplicated handshake messages, or a second read loop, never set it back
\* to numbers that SSH has been given.
NeverBack == [][expectedSeqNum' > expectedSeqNum]_expectedSeqNum

\* What SSH reads is a prefix of what the agent sent, nothing twice and nothing
\* skipped, also across resumes (adapter.go:1264-1336).
Stream == INSTANCE OrderedStream WITH
    Data   <- DataMessages,
    source <- Output(2, agentNext),
    sink   <- delivered,
    closed <- done
StreamImplemented == Stream!Spec

\* Again and again all the agent has sent has been processed, unless the adapter is
\* closed: nothing that came out of order is left behind (adapter.go:1263-1265).
DataProcessed == []<>(expectedSeqNum = agentNext \/ done)

\* So it is, whatever else is reordered, repeated or lost, if the first data message
\* does not overtake HandshakeComplete (adapter.go:713-718, 1286-1312).
NotOvertaken == expectedSeqNum <= Complete => Complete + 1 \notin buffer
ProcessedUnlessOvertaken == []NotOvertaken => DataProcessed
=============================================================================
