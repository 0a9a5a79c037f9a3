----------------------- MODULE AdapterReceiveProofs -----------------------
(***************************************************************************)
(* Proofs about AdapterReceive for any number of messages, any of them     *)
(* control messages, and any number of WebSocket failures, none of which   *)
(* falls into the handshake.                                               *)
(***************************************************************************)
EXTENDS AdapterReceive, NaturalsInduction, WellFoundedInduction, TLAPS

\* The types of every variable but delivered, of which AdapterStreamProofs says
\* more.
Typed ==
    /\ agentNext \in 0..MaxMessages
    /\ expectedSeqNum \in 0..MaxMessages /\ buffer \subseteq DataMessages
    /\ bufMu \in 0..(MaxDrops + 1)
    /\ ackSent \subseteq Messages
    /\ responded \in BOOLEAN /\ responseSaved \in BOOLEAN
    /\ responseSent \in BOOLEAN /\ handshakeComplete \in BOOLEAN
    /\ gen \in Generations /\ connected \in BOOLEAN
    /\ reconnecting \in BOOLEAN /\ done \in BOOLEAN
    /\ pc \in [Generations -> LoopPoints] /\ msg \in [Generations -> Messages]
    /\ first \in [Generations -> BOOLEAN]
    /\ ~connected => gen <= MaxDrops

Shaking == expectedSeqNum <= Complete

\* The handshake takes place on the first WebSocket: it has the only read loop.
OneSocket ==
    /\ \A g \in Generations : pc[g] = "none" <=> g > gen
    /\ Shaking => gen = 1 /\ connected

\* What a read loop has in hand at each of its steps.
Consistent(g) ==
    /\ pc[g] \in {"reqAck", "respond"} => msg[g] = Request /\ responded
    /\ pc[g] \in {"reqAck", "respond"} /\ first[g] => expectedSeqNum = 0
    /\ pc[g] = "update" => msg[g] <= Complete /\ expectedSeqNum = msg[g]
    /\ pc[g] = "completeAck" => msg[g] = Complete /\ ~Shaking
    /\ pc[g] \in {"lock", "ack", "process"} => msg[g] \in DataMessages
InHand == \A g \in Generations : Consistent(g)

\* The part of it that the types rest on.
DataInHand == \A g \in Generations :
    pc[g] \in {"lock", "ack", "process"} => msg[g] \in DataMessages

\* How far the first read loop is with the handshake.
FirstRequest == pc[1] \in {"reqAck", "respond", "update"} /\ msg[1] = Request /\ first[1]
Handshaking ==
    /\ ~responded => expectedSeqNum = 0
    /\ responded /\ expectedSeqNum = 0 => done \/ FirstRequest
    /\ responseSent /\ expectedSeqNum = 0 => pc[1] = "update" /\ msg[1] = Request
    /\ agentNext > Complete => responseSent
    /\ ~handshakeComplete => Shaking
    /\ handshakeComplete /\ Shaking => pc[1] = "update" /\ msg[1] = Complete
    /\ pc[1] = "update" => responded /\ (msg[1] = Complete => handshakeComplete)
    /\ Shaking => Complete \notin ackSent

\* What is acknowledged is held.  During the handshake only the order of its
\* steps tells that a duplicate request does not make up for the first.
IInv == Typed /\ OneSocket /\ InHand /\ Handshaking /\ AckedIsHeld

-----------------------------------------------------------------------------
\* Of natural numbers there is a least.
LEMMA LeastExists ==
  ASSUME NEW S, S \subseteq Nat, S # {}
  PROVE  \E x \in S : \A y \in S : x <= y
<1> DEFINE R == OpToRel(<, Nat)
<1>1. PICK x \in S : \A y \in S : ~ (<<y, x>> \in R)
  BY NatLessThanWellFounded, WFMin
<1>2. \A a, b \in Nat : a < b => <<a, b>> \in R
  BY DEF OpToRel
<1> HIDE DEF R
<1>3. ASSUME NEW y \in S PROVE x <= y
  <2>1. ~(<<y, x>> \in R)  BY <1>1
  <2> QED  BY <1>2, <2>1
<1> QED  BY <1>3

\* The number that is waited for after s is not in the buffer, and the one before it
\* is s or in the buffer.
LEMMA NextFacts ==
  ASSUME Typed, NEW s \in DataMessages
  PROVE  /\ NextExpected(s, buffer) \in (s + 1)..MaxMessages
         /\ NextExpected(s, buffer) \notin buffer
         /\ NextExpected(s, buffer) - 1 \in buffer \cup {s}
<1> DEFINE S == {n \in (s + 1)..(MaxMessages + 1) : n \notin buffer}
<1>1. S \subseteq Nat /\ MaxMessages \in S
  BY ReceiveAssumption DEF Typed, DataMessages
<1>2. \E x \in S : \A y \in S : x <= y  BY <1>1, LeastExists
<1>3. NextExpected(s, buffer) = CHOOSE x \in S : \A y \in S : x <= y
  BY DEF NextExpected, Min
<1>4. /\ NextExpected(s, buffer) \in S
      /\ \A y \in S : NextExpected(s, buffer) <= y
  BY <1>2, <1>3
<1>5. NextExpected(s, buffer) - 1 \notin S
  <2> DEFINE N == NextExpected(s, buffer)
  <2>1. N \in Nat /\ \A y \in S : N <= y  BY <1>1, <1>4
  <2> HIDE DEF N, S
  <2>2. ~(N <= N - 1)  BY <2>1
  <2>3. N - 1 \notin S  BY <2>1, <2>2
  <2> QED  BY <2>3 DEF N
<1> QED  BY <1>1, <1>4, <1>5, ReceiveAssumption DEF DataMessages

\* During the handshake only the first read loop runs.
LEMMA ShakingLoop ==
  ASSUME Typed, OneSocket, NEW g \in Generations, pc[g] # "none", Shaking
  PROVE  g = 1
<1>1. gen = 1 /\ ~(g > gen)  BY DEF OneSocket
<1>2. g \in Nat /\ g >= 1  BY DEF Generations
<1> QED  BY <1>1, <1>2

\* Every step keeps the types.
LEMMA TypedStep ==
  ASSUME Typed, DataInHand, [Next]_vars
  PROVE  Typed'
<1> USE ReceiveAssumption DEF Typed, LoopPoints, Goto, agentVars, streamVars, shakeVars, linkVars
<1>0. 1 \in Generations /\ Request \in Messages /\ Complete \in Messages
      /\ DataMessages \subseteq Messages
  BY DEF Generations, Messages, DataMessages, Request, Complete
<1>1. ASSUME NEW g \in Generations, NEW s \in Messages, Receive(g, s) PROVE Typed'
  BY <1>0, <1>1 DEF Receive
<1>2. ASSUME NEW g \in Generations, LoopStep(g) PROVE Typed'
  <2>1. CASE AckRequest(g) \/ Respond(g) \/ AckComplete(g)
    BY <1>0, <2>1 DEF AckRequest, Respond, AckComplete
  <2>2. CASE UpdateExpectedSeqNum(g)
    <3>1. msg[g] + 1 \in 0..MaxMessages  BY DEF Messages
    <3> QED  BY <2>2, <3>1 DEF UpdateExpectedSeqNum
  <2>3. CASE LockBuffer(g) \/ AckData(g) \/ GiveUp(g)
    <3>1. g \in 0..(MaxDrops + 1)  BY DEF Generations
    <3>2. CASE LockBuffer(g)  BY <3>1, <3>2 DEF LockBuffer
    <3>3. CASE AckData(g)  BY <3>3 DEF AckData
    <3>4. CASE GiveUp(g)  BY <3>4 DEF GiveUp
    <3> QED  BY <2>3, <3>2, <3>3, <3>4
  <2>4. CASE ProcessData(g)
    <3>1. msg[g] \in DataMessages  BY <2>4 DEF ProcessData, DataInHand
    <3>2. NextExpected(msg[g], buffer) \in 0..MaxMessages
      BY <3>1, NextFacts DEF DataMessages
    <3>3. expectedSeqNum' \in 0..MaxMessages /\ buffer' \subseteq DataMessages
      BY <2>4, <3>1, <3>2 DEF ProcessData
    <3> QED  BY <2>4, <3>3 DEF ProcessData
  <2> QED  BY <1>2, <2>1, <2>2, <2>3, <2>4 DEF LoopStep
<1>3. CASE AgentSends
  BY <1>3 DEF AgentSends
<1>4. CASE Disconnect \/ OpenGate \/ Close
  BY <1>4 DEF Disconnect, OpenGate, Close
<1>5. CASE Resume
  <2>1. gen + 1 \in Generations  BY <1>5 DEF Resume, Generations
  <2> QED  BY <1>5, <2>1 DEF Resume
<1>6. CASE (\E s \in Messages : AgentGetsAck(s)) \/ UNCHANGED vars
  BY <1>6 DEF AgentGetsAck, vars
<1> QED  BY <1>1, <1>2, <1>3, <1>4, <1>5, <1>6 DEF Next

\* A read loop that has a step to do goes on, and expectedSeqNum never goes back.
LEMMA LoopMoves ==
  ASSUME Typed, InHand, NEW g \in Generations, LoopStep(g)
  PROVE  /\ pc[g] \notin {"none", "read"} /\ pc'[g] # "none"
         /\ \A h \in Generations : h # g => pc'[h] = pc[h]
         /\ UNCHANGED <<agentVars, linkVars, responded, handshakeComplete, msg, first>>
         /\ expectedSeqNum' \in Nat /\ expectedSeqNum' >= expectedSeqNum
         /\ expectedSeqNum' # expectedSeqNum => pc[g] \in {"update", "process"}
<1> USE DEF Typed, Goto, agentVars, linkVars, streamVars, shakeVars
<1>1. CASE AckRequest(g) \/ Respond(g) \/ AckComplete(g)
  BY <1>1 DEF AckRequest, Respond, AckComplete
<1>2. CASE UpdateExpectedSeqNum(g)
  BY <1>2 DEF UpdateExpectedSeqNum, InHand, Consistent
<1>3. CASE LockBuffer(g) \/ AckData(g) \/ GiveUp(g)
  BY <1>3 DEF LockBuffer, AckData, GiveUp
<1>4. CASE ProcessData(g)
  <2>1. msg[g] \in DataMessages  BY <1>4 DEF ProcessData, InHand, Consistent
  <2>2. NextExpected(msg[g], buffer) >= msg[g] + 1 /\ NextExpected(msg[g], buffer) \in Nat
    BY <2>1, NextFacts, ReceiveAssumption DEF DataMessages
  <2>3. msg[g] \in Nat  BY <2>1 DEF DataMessages
  <2>4. expectedSeqNum' \in Nat /\ expectedSeqNum' >= expectedSeqNum
    BY <1>4, <2>2, <2>3 DEF ProcessData
  <2> QED  BY <1>4, <2>4 DEF ProcessData
<1> QED  BY <1>1, <1>2, <1>3, <1>4 DEF LoopStep

\* Every step leaves the handshake to the first WebSocket's read loop.
LEMMA OneSocketStep ==
  ASSUME ~DropInHandshake, Typed, OneSocket, InHand, [Next]_vars
  PROVE  OneSocket'
<1> USE DEF Typed, Goto, Shaking, Complete, agentVars, streamVars, shakeVars, linkVars
<1>1. ASSUME NEW g \in Generations, LoopStep(g) PROVE OneSocket'
  <2>1. UNCHANGED <<gen, connected>>  BY <1>1, LoopMoves
  <2>2. \A h \in Generations : pc'[h] = "none" <=> pc[h] = "none"  BY <1>1, LoopMoves
  <2>3. Shaking' => Shaking  BY <1>1, LoopMoves
  <2> QED  BY <2>1, <2>2, <2>3 DEF OneSocket
<1>2. ASSUME NEW g \in Generations, NEW s \in Messages, Receive(g, s) PROVE OneSocket'
  BY <1>2 DEF OneSocket, Receive
<1>3. CASE Disconnect
  BY <1>3 DEF OneSocket, Disconnect
<1>4. CASE Resume
  BY <1>4 DEF OneSocket, Resume, Generations
<1>5. CASE AgentSends \/ (\E s \in Messages : AgentGetsAck(s)) \/ OpenGate \/ Close \/ UNCHANGED vars
  BY <1>5 DEF OneSocket, AgentSends, AgentGetsAck, OpenGate, Close, vars
<1> QED  BY <1>1, <1>2, <1>3, <1>4, <1>5 DEF Next

\* Where a step leads that takes nothing in hand away.
LEMMA InHandSame ==
  ASSUME Typed, InHand, UNCHANGED <<pc, msg, first, expectedSeqNum>>, responded => responded'
  PROVE  InHand'
BY DEF InHand, Consistent, Shaking

\* Every step leaves what is in hand consistent with expectedSeqNum.
LEMMA InHandStep ==
  ASSUME ~DropInHandshake, Typed, OneSocket, InHand, Handshaking, [Next]_vars
  PROVE  InHand'
<1> USE DEF Typed, Goto, agentVars, streamVars, shakeVars, linkVars
<1>1. ASSUME NEW g \in Generations, LoopStep(g) PROVE InHand'
  <2> DEFINE Others == \A h \in Generations \ {g} : pc'[h] = pc[h]
  <2>0. /\ UNCHANGED <<msg, first, responded>> /\ Others
        /\ ~Shaking => ~Shaking'
    BY <1>1, LoopMoves DEF Shaking, Complete
  <2>1. CASE AckRequest(g)
    BY <2>0, <2>1 DEF InHand, Consistent, AckRequest
  <2>2. CASE Respond(g)
    BY <2>0, <2>2 DEF InHand, Consistent, Respond, Request, Complete
  <2>3. CASE UpdateExpectedSeqNum(g)
    <3>1. msg[g] <= Complete /\ expectedSeqNum = msg[g] /\ Shaking
      BY <2>3 DEF InHand, Consistent, UpdateExpectedSeqNum, Shaking, Complete
    <3>2. \A h \in Generations \ {g} : pc[h] = "none"
      BY <2>3, <3>1, ShakingLoop DEF UpdateExpectedSeqNum, OneSocket
    <3> QED  BY <2>0, <2>3, <3>1, <3>2 DEF InHand, Consistent, UpdateExpectedSeqNum, Shaking, Complete
  <2>4. CASE AckComplete(g) \/ LockBuffer(g) \/ AckData(g) \/ GiveUp(g)
    BY <2>0, <2>4 DEF InHand, Consistent, AckComplete, LockBuffer, AckData, GiveUp, Shaking
  <2>5. CASE ProcessData(g)
    <3>1. msg[g] \in DataMessages /\ pc'[g] = "read"
      BY <2>5 DEF InHand, Consistent, ProcessData
    <3>2. CASE UNCHANGED expectedSeqNum
      BY <2>0, <3>1, <3>2 DEF InHand, Consistent, Shaking
    <3>3. CASE msg[g] = expectedSeqNum
      <4>1. ~Shaking  BY <3>1, <3>3 DEF DataMessages, Shaking, Complete
      <4>2. \A h \in Generations : pc[h] # "update"
        BY <4>1 DEF InHand, Consistent, Shaking
      <4>3. \A h \in Generations : ~(pc[h] \in {"reqAck", "respond"} /\ first[h])
        BY <4>1 DEF InHand, Consistent, Shaking, Complete
      <4> QED  BY <2>0, <3>1, <4>1, <4>2, <4>3 DEF InHand, Consistent
    <3> QED  BY <2>5, <3>2, <3>3 DEF ProcessData
  <2> QED  BY <1>1, <2>1, <2>2, <2>3, <2>4, <2>5 DEF LoopStep
<1>2. ASSUME NEW g \in Generations, NEW s \in Messages, Receive(g, s) PROVE InHand'
  <2>1. UNCHANGED expectedSeqNum /\ pc[g] = "read" /\ g = gen
    BY <1>2 DEF Receive
  <2>2. Shaking => g = 1  BY <2>1, ShakingLoop
  <2>3. s = Complete => ~(responseSent /\ expectedSeqNum = 0) /\ responseSent
    BY <1>2, <2>1, <2>2 DEF Receive, Handshaking, Shaking, Complete
  <2>4. s = Complete /\ ~handshakeComplete => expectedSeqNum = 1
    BY <2>3 DEF Handshaking, Shaking, Complete
  <2>5. s = Complete /\ handshakeComplete => ~Shaking
    BY <2>1, <2>2 DEF Handshaking
  <2>7. /\ msg'[g] = s /\ (first'[g] <=> s = Request /\ ~responded)
        /\ pc'[g] = CASE s = Request -> "reqAck"
                      [] s = Complete -> IF handshakeComplete THEN "completeAck" ELSE "update"
                      [] OTHER -> "lock"
        /\ responded' <=> (responded \/ s = Request)
        /\ \A h \in Generations \ {g} :
              pc'[h] = pc[h] /\ msg'[h] = msg[h] /\ (first'[h] <=> first[h])
    BY <1>2 DEF Receive
  <2>8. Shaking' <=> Shaking  BY <2>1 DEF Shaking
  <2>9. Consistent(g)'
    <3>1. CASE s = Request
      BY <2>1, <2>7, <3>1 DEF Consistent, Handshaking, Request, Complete
    <3>2. CASE s = Complete
      BY <2>1, <2>4, <2>5, <2>7, <2>8, <3>2 DEF Consistent, Request, Complete
    <3>3. CASE s \in DataMessages
      <4>1. pc'[g] = "lock"  BY <2>7, <3>3 DEF DataMessages, Request, Complete
      <4> QED  BY <2>7, <3>3, <4>1 DEF Consistent
    <3> QED  BY <3>1, <3>2, <3>3 DEF Messages, DataMessages, Request, Complete
  <2>10. \A h \in Generations \ {g} : Consistent(h)'
    BY <2>1, <2>7, <2>8 DEF InHand, Consistent
  <2> QED  BY <2>9, <2>10 DEF InHand
<1>3. CASE Resume
  <2>1. \A h \in Generations : pc'[h] = pc[h] \/ pc'[h] = "read"  BY <1>3 DEF Resume
  <2>2. UNCHANGED <<msg, first, responded, expectedSeqNum>>  BY <1>3 DEF Resume
  <2> QED  BY <2>1, <2>2 DEF InHand, Consistent, Shaking
<1>4. CASE AgentSends \/ (\E s \in Messages : AgentGetsAck(s)) \/ Disconnect \/ OpenGate \/ Close
           \/ UNCHANGED vars
  BY <1>4, InHandSame DEF AgentSends, AgentGetsAck, Disconnect, OpenGate, Close, vars
<1> QED  BY <1>1, <1>2, <1>3, <1>4 DEF Next

\* Every step leaves the handshake where the first read loop has taken it.
LEMMA HandshakingStep ==
  ASSUME ~DropInHandshake, Typed, OneSocket, InHand, Handshaking, [Next]_vars
  PROVE  Handshaking'
<1> USE DEF Typed, Goto, Request, Complete, agentVars, streamVars, shakeVars, linkVars
<1>0. 1 \in Generations /\ gen \in Generations  BY ReceiveAssumption DEF Generations
<1>1. ASSUME NEW g \in Generations, LoopStep(g) PROVE Handshaking'
  <2>0. /\ UNCHANGED <<agentNext, gen, done, responded, handshakeComplete, msg, first>>
        /\ expectedSeqNum' \in Nat /\ expectedSeqNum' >= expectedSeqNum
        /\ 1 # g => pc'[1] = pc[1]
        /\ pc[g] # "none" /\ Consistent(g)
    BY <1>0, <1>1, LoopMoves DEF InHand
  <2>1. CASE AckRequest(g)
    <3>1. UNCHANGED <<expectedSeqNum, responseSent>> /\ ackSent' = ackSent \cup {Request} /\ ~done
      BY <2>1 DEF AckRequest, CanSend
    <3>2. g = 1 => pc[1] = "reqAck" /\ (first[1] => pc'[1] = "respond") /\ pc'[1] # "update"
      BY <1>0, <2>1 DEF AckRequest
    <3> QED  BY <2>0, <3>1, <3>2 DEF Handshaking, FirstRequest, Shaking
  <2>2. CASE Respond(g)
    <3>1. /\ UNCHANGED <<expectedSeqNum, ackSent>> /\ responseSent' /\ ~done /\ responded
          /\ pc[g] = "respond" /\ msg[g] = Request /\ pc'[g] = IF first[g] THEN "update" ELSE "read"
      BY <2>0, <2>2 DEF Respond, CanSend, Consistent
    <3>2. Shaking => g = 1  BY <2>0, ShakingLoop
    <3>3. expectedSeqNum = 0 => g = 1 /\ FirstRequest
      BY <3>1, <3>2 DEF Handshaking, Shaking
    <3> QED  BY <2>0, <3>1, <3>2, <3>3 DEF Handshaking, FirstRequest, Shaking
  <2>3. CASE UpdateExpectedSeqNum(g)
    <3>1. /\ UNCHANGED <<ackSent, responseSent>> /\ expectedSeqNum' = msg[g] + 1
          /\ pc[g] = "update" /\ msg[g] <= Complete /\ expectedSeqNum = msg[g] /\ msg[g] \in Nat
          /\ pc'[g] = IF msg[g] = Complete THEN "completeAck" ELSE "read"
      BY <2>0, <2>3 DEF UpdateExpectedSeqNum, Consistent
    <3>2. g = 1 /\ Shaking  BY <2>0, <3>1, ShakingLoop DEF Shaking
    <3>3. pc'[1] # "update" /\ expectedSeqNum' # 0  BY <3>1, <3>2
    <3>4. CASE msg[1] = Request
      <4>1. ~handshakeComplete /\ responded  BY <1>0, <3>1, <3>2, <3>4 DEF Handshaking
      <4> QED  BY <2>0, <3>1, <3>2, <3>3, <3>4, <4>1 DEF Handshaking, Shaking
    <3>5. CASE msg[1] = Complete
      <4>1. handshakeComplete /\ responded /\ ~Shaking'
        BY <2>0, <3>1, <3>2, <3>5 DEF Handshaking, Shaking
      <4> QED  BY <2>0, <3>1, <3>3, <4>1 DEF Handshaking
    <3> QED  BY <3>1, <3>2, <3>4, <3>5
  <2>4. CASE ~Shaking /\ UNCHANGED responseSent /\ pc'[1] # "update"
    BY <2>0, <2>4 DEF Handshaking, Shaking
  <2>5. CASE AckComplete(g)
    <3>1. ~Shaking /\ UNCHANGED responseSent  BY <2>0, <2>5 DEF AckComplete, Consistent
    <3>2. pc[1] # "update"  BY <1>0, <3>1 DEF InHand, Consistent, Shaking
    <3>3. pc'[1] # "update"  BY <1>0, <2>0, <2>5, <3>2 DEF AckComplete
    <3> QED  BY <2>4, <3>1, <3>3
  <2>7. CASE LockBuffer(g) \/ AckData(g) \/ ProcessData(g)
    <3>1. /\ UNCHANGED responseSent /\ msg[g] \in DataMessages
          /\ ackSent' \subseteq ackSent \cup {msg[g]}
          /\ pc[g] \in {"lock", "ack", "process"} /\ pc'[g] \in {"ack", "process", "read"}
          /\ UNCHANGED expectedSeqNum \/ msg[g] = expectedSeqNum
      BY <2>0, <2>7 DEF LockBuffer, AckData, ProcessData, Consistent
    <3>2. 0 \notin DataMessages /\ 1 \notin DataMessages  BY DEF DataMessages
    <3>3. CASE Shaking
      <4>1. g = 1 /\ UNCHANGED expectedSeqNum
        BY <2>0, <3>1, <3>2, <3>3, ShakingLoop DEF Shaking
      <4>2. pc[1] \notin {"reqAck", "respond", "update"} /\ pc'[1] # "update"
        BY <3>1, <4>1
      <4>3. Complete \notin ackSent'  BY <3>1, <3>2, <3>3 DEF Handshaking
      <4>4. ~handshakeComplete /\ (responded /\ expectedSeqNum = 0 => done)
            /\ ~(responseSent /\ expectedSeqNum = 0)
        BY <3>3, <4>2 DEF Handshaking, FirstRequest
      <4> QED  BY <2>0, <3>1, <3>3, <4>1, <4>2, <4>3, <4>4 DEF Handshaking, FirstRequest, Shaking
    <3>4. CASE ~Shaking
      <4>1. pc[1] # "update"  BY <1>0, <3>4 DEF InHand, Consistent, Shaking
      <4>2. pc'[1] # "update"  BY <1>0, <2>0, <3>1, <4>1
      <4> QED  BY <2>4, <3>1, <3>4, <4>2
    <3> QED  BY <3>3, <3>4
  <2>6. CASE GiveUp(g)
    <3>1. /\ UNCHANGED <<expectedSeqNum, ackSent, responseSent>> /\ done
          /\ pc[g] # "update" /\ pc'[g] = "read"
      BY <2>6 DEF GiveUp
    <3> QED  BY <1>0, <2>0, <3>1 DEF Handshaking, Shaking
  <2> QED  BY <1>1, <2>1, <2>2, <2>3, <2>5, <2>6, <2>7 DEF LoopStep
<1>2. ASSUME NEW g \in Generations, NEW s \in Messages, Receive(g, s) PROVE Handshaking'
  <2>1. /\ UNCHANGED <<agentNext, expectedSeqNum, ackSent, responseSent, done>> /\ ~done
        /\ g = gen /\ pc[g] = "read" /\ msg'[g] = s /\ (first'[g] <=> s = Request /\ ~responded)
        /\ pc'[g] = CASE s = Request -> "reqAck"
                      [] s = Complete -> IF handshakeComplete THEN "completeAck" ELSE "update"
                      [] OTHER -> "lock"
        /\ responded' <=> (responded \/ s = Request)
        /\ handshakeComplete' <=> (handshakeComplete \/ s = Complete)
        /\ \A h \in Generations \ {g} : UNCHANGED <<pc[h], msg[h], first[h]>>
        /\ s < agentNext
    BY <1>2 DEF Receive
  <2>2. Shaking => g = 1  BY <2>1, ShakingLoop
  <2>3. Shaking' <=> Shaking  BY <2>1 DEF Shaking
  <2>4. CASE s = Request
    <3>1. responded => expectedSeqNum # 0
      BY <1>0, <2>1, <2>2 DEF Handshaking, FirstRequest, Shaking
    <3>2. ~responded => g = 1 /\ FirstRequest'
      BY <2>1, <2>2, <2>4 DEF Handshaking, FirstRequest, Shaking
    <3>3. ~(responseSent /\ expectedSeqNum = 0)
      BY <2>1, <2>2 DEF Handshaking, Shaking
    <3>4. ~handshakeComplete \/ ~Shaking  BY <2>1, <2>2 DEF Handshaking
    <3>5. pc'[1] = "update" /\ msg'[1] = Complete => pc[1] = "update" /\ msg[1] = Complete
      BY <1>0, <2>1, <2>4
    <3> QED  BY <2>1, <2>3, <2>4, <3>1, <3>2, <3>3, <3>4, <3>5 DEF Handshaking
  <2>5. CASE s = Complete
    <3>1. expectedSeqNum # 0 /\ responded /\ handshakeComplete'
      BY <2>1, <2>2, <2>5 DEF Handshaking, Shaking
    <3>2. Shaking => ~handshakeComplete /\ g = 1  BY <2>1, <2>2 DEF Handshaking
    <3>3. Shaking => pc'[1] = "update" /\ msg'[1] = Complete  BY <2>1, <2>5, <3>2
    <3> QED  BY <2>1, <2>3, <3>1, <3>3 DEF Handshaking
  <2>6. CASE s \in DataMessages
    <3>1. responseSent /\ s # Request /\ s # Complete
      BY <2>1, <2>6 DEF Handshaking, DataMessages
    <3>2. pc'[g] = "lock"  BY <2>1, <3>1
    <3>3. CASE Shaking
      <4>1. g = 1 /\ pc[1] = "read"  BY <2>1, <2>2, <3>3
      <4>2. expectedSeqNum # 0 /\ ~handshakeComplete
        BY <3>1, <3>3, <4>1 DEF Handshaking
      <4> QED  BY <2>1, <2>3, <3>1, <3>2, <3>3, <4>1, <4>2 DEF Handshaking
    <3>4. CASE ~Shaking
      <4>1. pc[1] # "update"  BY <1>0, <3>4 DEF InHand, Consistent, Shaking
      <4>2. pc'[1] # "update"  BY <1>0, <2>1, <3>2, <4>1
      <4> QED  BY <2>1, <2>3, <3>1, <3>4, <4>2 DEF Handshaking, Shaking
    <3> QED  BY <3>3, <3>4
  <2> QED  BY <2>4, <2>5, <2>6 DEF Messages, DataMessages
<1>3. CASE Resume
  <2>1. ~Shaking /\ UNCHANGED <<agentNext, expectedSeqNum, ackSent, responseSent, responded>>
        /\ handshakeComplete'
    BY <1>3 DEF Resume, OneSocket
  <2> QED  BY <2>1 DEF Handshaking, Shaking
<1>4. CASE AgentSends
  BY <1>4 DEF AgentSends, Handshaking, FirstRequest, Shaking
<1>5. CASE (\E s \in Messages : AgentGetsAck(s)) \/ Disconnect \/ OpenGate \/ Close \/ UNCHANGED vars
  BY <1>5 DEF AgentGetsAck, Disconnect, OpenGate, Close, vars, Handshaking, FirstRequest, Shaking
<1> QED  BY <1>1, <1>2, <1>3, <1>4, <1>5 DEF Next

\* Where an acknowledged message may be.
Held(s) == \/ s < expectedSeqNum \/ s \in buffer
           \/ \E g \in Generations : msg[g] = s /\ pc[g] \notin {"none", "read"}

\* Every step leaves what was acknowledged processed, in the buffer or in hand.
LEMMA HeldStep ==
  ASSUME ~DropInHandshake, Typed, OneSocket, InHand, Handshaking, AckedIsHeld, [Next]_vars
  PROVE  AckedIsHeld'
<1> USE DEF Typed, Goto, Request, Complete, agentVars, streamVars, shakeVars, linkVars
<1>0. /\ ~done => \A s \in ackSent : Held(s)
      /\ (~done' => \A s \in ackSent' : Held(s)') => AckedIsHeld'
  BY DEF AckedIsHeld, Held
<1> SUFFICES ASSUME ~done' PROVE \A s \in ackSent' : Held(s)'
  BY <1>0
<1>1. ASSUME NEW g \in Generations, LoopStep(g) PROVE \A s \in ackSent' : Held(s)'
  <2>0. /\ UNCHANGED <<gen, done, msg>> /\ ~done
        /\ expectedSeqNum' \in Nat /\ expectedSeqNum' >= expectedSeqNum
        /\ \A h \in Generations : h # g => pc'[h] = pc[h]
        /\ pc[g] # "none" /\ pc'[g] # "none" /\ Consistent(g)
    BY <1>1, LoopMoves DEF InHand
  <2>1. CASE pc'[g] \notin {"none", "read"} /\ UNCHANGED buffer /\ ackSent' \subseteq ackSent \cup {msg[g]}
    BY <1>0, <2>0, <2>1 DEF Held, Messages, DataMessages
  <2>2. CASE msg[g] < expectedSeqNum' /\ UNCHANGED buffer /\ ackSent' \subseteq ackSent \cup {msg[g]}
    BY <1>0, <2>0, <2>2 DEF Held, Messages, DataMessages
  <2>3. ASSUME AckRequest(g) \/ Respond(g), pc'[g] = "read"
        PROVE  msg[g] < expectedSeqNum'
    <3>1. msg[g] = Request /\ responded /\ ~first[g] /\ UNCHANGED expectedSeqNum
      BY <2>0, <2>3 DEF AckRequest, Respond, Consistent
    <3>2. expectedSeqNum # 0
      BY <2>0, <3>1, ShakingLoop DEF Handshaking, FirstRequest, Shaking
    <3> QED  BY <3>1, <3>2
  <2>4. CASE AckRequest(g) \/ Respond(g)
    <3>1. UNCHANGED buffer /\ ackSent' \subseteq ackSent \cup {msg[g]}
      BY <2>0, <2>4 DEF AckRequest, Respond, Consistent
    <3> QED  BY <2>0, <2>1, <2>2, <2>3, <2>4, <3>1
  <2>5. CASE UpdateExpectedSeqNum(g)
    <3>1. UNCHANGED <<buffer, ackSent>> /\ expectedSeqNum' = msg[g] + 1 /\ msg[g] \in Nat
      BY <2>5 DEF UpdateExpectedSeqNum, Messages
    <3> QED  BY <2>2, <3>1
  <2>6. CASE AckComplete(g)
    <3>1. /\ UNCHANGED <<buffer, expectedSeqNum>> /\ msg[g] = Complete /\ ~Shaking
          /\ ackSent' \subseteq ackSent \cup {msg[g]}
      BY <2>0, <2>6 DEF AckComplete, Consistent
    <3> QED  BY <2>2, <3>1 DEF Shaking
  <2>7. CASE LockBuffer(g) \/ AckData(g)
    BY <2>1, <2>7 DEF LockBuffer, AckData
  <2>8. CASE ProcessData(g)
    <3> DEFINE next == NextExpected(msg[g], buffer)
    <3>1. msg[g] \in DataMessages /\ UNCHANGED ackSent  BY <2>0, <2>8 DEF ProcessData, Consistent
    <3>2. next \in Nat /\ next > msg[g]
      BY <3>1, NextFacts, ReceiveAssumption DEF DataMessages
    <3>3. buffer \subseteq Nat /\ msg[g] \in Nat /\ ackSent \subseteq Nat
      BY <3>1 DEF DataMessages, Messages
    <3> HIDE DEF next
    <3>4. \A s \in buffer : s \in buffer' \/ s < expectedSeqNum'
      BY <2>8, <3>2, <3>3 DEF ProcessData, next
    <3>5. msg[g] \in buffer' \/ msg[g] < expectedSeqNum'
      BY <2>8, <3>2, <3>3 DEF ProcessData, next
    <3>6. SUFFICES ASSUME NEW s \in ackSent PROVE Held(s)'  BY <3>1
    <3>7. CASE s < expectedSeqNum \/ s \in buffer
      BY <2>0, <3>3, <3>4, <3>7 DEF Held
    <3>8. CASE \E h \in Generations : msg[h] = s /\ pc[h] \notin {"none", "read"}
      BY <2>0, <3>5, <3>8 DEF Held
    <3> QED  BY <1>0, <2>0, <3>7, <3>8 DEF Held
  <2>9. ~GiveUp(g)  BY <2>0 DEF GiveUp
  <2> QED  BY <1>1, <2>4, <2>5, <2>6, <2>7, <2>8, <2>9 DEF LoopStep
<1>2. CASE ~done /\ UNCHANGED <<ackSent, expectedSeqNum, buffer, msg, pc>>
  BY <1>0, <1>2 DEF Held
<1>3. ASSUME NEW g \in Generations, NEW m \in Messages, Receive(g, m)
      PROVE  \A s \in ackSent' : Held(s)'
  <2>1. /\ UNCHANGED <<ackSent, expectedSeqNum, buffer, done>> /\ pc[g] = "read"
        /\ \A h \in Generations : h # g => pc'[h] = pc[h] /\ msg'[h] = msg[h]
    BY <1>3 DEF Receive
  <2> QED  BY <1>0, <2>1 DEF Held
<1>4. CASE Resume
  <2>1. /\ UNCHANGED <<ackSent, expectedSeqNum, buffer, done, msg>> /\ ~Shaking
        /\ \A h \in Generations : h # gen + 1 => pc'[h] = pc[h]
    BY <1>4 DEF Resume, OneSocket
  <2>2. gen + 1 \in Generations => pc[gen + 1] = "none"
    BY DEF OneSocket, Generations
  <2> QED  BY <1>0, <2>1, <2>2 DEF Held
<1>5. CASE \/ AgentSends \/ (\E s \in Messages : AgentGetsAck(s)) \/ Disconnect \/ OpenGate \/ Close
           \/ UNCHANGED vars
  BY <1>2, <1>5 DEF AgentSends, AgentGetsAck, Disconnect, OpenGate, Close, vars
<1> QED  BY <1>1, <1>3, <1>4, <1>5 DEF Next

\* The first read loop starts with nothing in hand.
LEMMA InitIInv == Init => IInv
<1> SUFFICES ASSUME Init PROVE IInv  OBVIOUS
<1> USE ReceiveAssumption DEF Init, Request, Complete
<1>1. 1 \in Generations /\ \A g \in Generations : g \in Nat /\ g >= 1 /\ (g > 1 <=> g # 1)
  BY DEF Generations
<1>2. \A g \in Generations : pc[g] \in {"none", "read"} /\ (pc[g] = "none" <=> g # 1)
  BY <1>1
<1>3. Typed
  <2>1. 0 \in Messages  BY DEF Messages
  <2>2. /\ pc \in [Generations -> LoopPoints] /\ msg \in [Generations -> Messages]
        /\ first \in [Generations -> BOOLEAN]
    BY <2>1 DEF LoopPoints
  <2>3. gen \in Generations /\ bufMu \in 0..(MaxDrops + 1)  BY <1>1
  <2>4. /\ responded \in BOOLEAN /\ responseSaved \in BOOLEAN /\ responseSent \in BOOLEAN
        /\ handshakeComplete \in BOOLEAN /\ connected \in BOOLEAN /\ connected
        /\ reconnecting \in BOOLEAN /\ done \in BOOLEAN
    OBVIOUS
  <2>5. /\ agentNext \in 0..MaxMessages /\ expectedSeqNum \in 0..MaxMessages
        /\ buffer \subseteq DataMessages /\ ackSent \subseteq Messages
    OBVIOUS
  <2> QED  BY <2>2, <2>3, <2>4, <2>5 DEF Typed
<1>4. OneSocket  BY <1>1, <1>2 DEF OneSocket
<1>5. InHand  BY <1>2 DEF InHand, Consistent
<1>6. Handshaking  BY <1>1, <1>2 DEF Handshaking, Shaking
<1>7. AckedIsHeld  BY DEF AckedIsHeld
<1> QED  BY <1>3, <1>4, <1>5, <1>6, <1>7 DEF IInv

\* The inductive invariant holds in every behaviour.
THEOREM ReceiveInvariance ==
  ASSUME ~DropInHandshake
  PROVE  Spec => []IInv
<1>0. InHand => DataInHand  BY DEF InHand, Consistent, DataInHand
<1>1. IInv /\ [Next]_vars => IInv'
  BY <1>0, TypedStep, OneSocketStep, InHandStep, HandshakingStep, HeldStep DEF IInv
<1> QED  BY <1>1, InitIInv, PTL DEF Spec

\* What the adapter acknowledged it has processed, buffered or in hand, however
\* messages are reordered and the read loops of WebSockets overlap
\* (adapter.go:1276-1296).
THEOREM AckedAlwaysHeld ==
  ASSUME ~DropInHandshake
  PROVE  Spec => []AckedIsHeld
<1>1. IInv => AckedIsHeld  BY DEF IInv
<1> QED  BY <1>1, ReceiveInvariance, PTL
=============================================================================
