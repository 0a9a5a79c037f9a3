----------------------- MODULE AdapterStreamProofs -----------------------
(***************************************************************************)
(* Proof that AdapterReceive implements OrderedStream, for any number of   *)
(* messages, any of them control messages, and any number of WebSocket     *)
(* failures, those during the handshake included: whatever the network     *)
(* does, SSH reads a prefix of what the agent sent.                        *)
(***************************************************************************)
EXTENDS AdapterReceiveProofs, FiniteSetTheorems, SequenceTheorems

\* A read loop has the first HandshakeRequest in hand; the first HandshakeComplete.
FirstInHand(g) ==
    pc[g] \in {"reqAck", "respond", "update"} /\ msg[g] = Request /\ first[g]
CompleteInHand(g) == pc[g] = "update" /\ msg[g] = Complete

\* What the handshake has come to, whichever WebSockets it has used.
HandshakeSoFar ==
    /\ gen > 1 => handshakeComplete
    /\ responseSaved \/ responseSent => responded
    /\ agentNext > Complete => responseSent
    /\ ~responded => expectedSeqNum = 0
    /\ ~handshakeComplete => expectedSeqNum <= Complete

\* A read loop is about to set expectedSeqNum only as the handshake's next step.
LoopInHandshake(g) ==
    /\ pc[g] # "none" => g <= gen
    /\ pc[g] \in {"reqAck", "respond"} => msg[g] = Request /\ responded
    /\ pc[g] = "update" => FirstInHand(g) \/ CompleteInHand(g)
    /\ FirstInHand(g) => expectedSeqNum = 0 /\ responded
    /\ CompleteInHand(g) => /\ g = 1 /\ expectedSeqNum <= Complete
                            /\ handshakeComplete /\ agentNext > Complete
OneUpdate ==
    /\ \A g \in Generations : LoopInHandshake(g)
    /\ \A g, h \in Generations : FirstInHand(g) => /\ ~CompleteInHand(h)
                                                   /\ FirstInHand(h) => g = h

\* Nothing is processed, buffered or in hand that the agent has not sent.
Sent ==
    /\ expectedSeqNum <= agentNext /\ \A t \in buffer : t < agentNext
    /\ \A g \in Generations : pc[g] \notin {"none", "read"} => msg[g] < agentNext

\* What was written to the stream is what was processed, until the adapter is closed.
Delivered ==
    /\ delivered \in Seq(DataMessages)
    /\ ~done => delivered = Output(2, expectedSeqNum)

StreamInv == Typed /\ DataInHand /\ HandshakeSoFar /\ OneUpdate /\ Sent /\ Delivered

\* The place of s among the members of S.
Rank(S, s) == Cardinality({t \in S : t <= s})

-----------------------------------------------------------------------------
\* The members of a finite set of numbers have ranks from 1 to its size.
LEMMA RankRange ==
  ASSUME NEW S, S \subseteq Nat, IsFiniteSet(S), NEW s \in S
  PROVE  Rank(S, s) \in 1..Cardinality(S) /\ Rank(S, s) \in Nat
<1> DEFINE B == {t \in S : t <= s}
<1>1. B \in SUBSET S /\ s \in B  OBVIOUS
<1>2. IsFiniteSet(B) /\ Cardinality(B) <= Cardinality(S)  BY <1>1, FS_Subset
<1>3. Cardinality(B) \in Nat /\ Cardinality(S) \in Nat  BY <1>2, FS_CardinalityType
<1>4. Cardinality(B) # 0  BY <1>1, <1>2, FS_EmptySet
<1> QED  BY <1>2, <1>3, <1>4 DEF Rank

\* A greater member has a greater rank.
LEMMA RankStrict ==
  ASSUME NEW S, S \subseteq Nat, IsFiniteSet(S), NEW s \in S, NEW t \in S, s < t
  PROVE  Rank(S, s) < Rank(S, t)
<1> DEFINE A == {u \in S : u <= s}
           B == {u \in S : u <= t}
<1>0. \A u \in S : u <= s => u <= t
  <2>1. s \in Nat /\ t \in Nat /\ \A u \in S : u \in Nat  OBVIOUS
  <2> QED  BY <2>1
<1>1. A \in SUBSET B /\ B \in SUBSET S /\ t \in B /\ t \notin A
  <2>1. s \in Nat /\ t \in Nat  OBVIOUS
  <2>2. A \in SUBSET B  BY <1>0
  <2>3. t \in B /\ t \notin A  BY <2>1
  <2> QED  BY <2>2, <2>3
<1>2. IsFiniteSet(B)  BY <1>1, FS_Subset
<1>3. /\ Cardinality(A) <= Cardinality(B) /\ IsFiniteSet(A)
      /\ Cardinality(A) # Cardinality(B)
  BY <1>1, <1>2, FS_Subset
<1>4. Cardinality(A) \in Nat /\ Cardinality(B) \in Nat  BY <1>2, <1>3, FS_CardinalityType
<1> QED  BY <1>3, <1>4 DEF Rank

\* Members of the same rank are the same.
LEMMA RankUnique ==
  ASSUME NEW S, S \subseteq Nat, IsFiniteSet(S), NEW s \in S, NEW t \in S,
         Rank(S, s) = Rank(S, t)
  PROVE  s = t
<1>1. CASE s < t
  <2>1. Rank(S, s) < Rank(S, t)  BY <1>1, RankStrict
  <2>2. Rank(S, s) \in Nat /\ Rank(S, t) \in Nat  BY RankRange
  <2> QED  BY <2>1, <2>2
<1>2. CASE t < s
  <2>1. Rank(S, t) < Rank(S, s)  BY <1>2, RankStrict
  <2>2. Rank(S, s) \in Nat /\ Rank(S, t) \in Nat  BY RankRange
  <2> QED  BY <2>1, <2>2
<1> QED  BY <1>1, <1>2

\* Every rank is some member's.
LEMMA RankExists ==
  ASSUME NEW S, S \subseteq Nat, IsFiniteSet(S), NEW i \in 1..Cardinality(S)
  PROVE  \E s \in S : Rank(S, s) = i
<1> DEFINE n == Cardinality(S)
           r == [s \in S |-> Rank(S, s)]
<1>1. n \in Nat  BY FS_CardinalityType
<1>2. r \in [S -> 1..n]  BY RankRange
<1>3. \A s, t \in S : r[s] = r[t] => s = t  BY RankUnique
<1>4. r \in Injection(S, 1..n)
  <2> HIDE DEF r
  <2> QED  BY <1>2, <1>3 DEF Injection, IsInjective
<1>5. IsFiniteSet(1..n) /\ Cardinality(1..n) = n  BY <1>1, FS_Interval
<1>6. r \in Surjection(S, 1..n)
  <2> HIDE DEF r
  <2> QED  BY <1>4, <1>5, FS_Injection
<1> QED  BY <1>6 DEF Surjection

-----------------------------------------------------------------------------
\* The outputs of a range of numbers.
LEMMA OutputsFinite ==
  ASSUME NEW a \in Nat, NEW b \in Nat
  PROVE  /\ Outputs(a, b) \subseteq Nat /\ IsFiniteSet(Outputs(a, b))
         /\ Cardinality(Outputs(a, b)) \in Nat
<1>1. IsFiniteSet(a..(b - 1))  BY FS_Interval
<1>2. Outputs(a, b) \in SUBSET (a..(b - 1))  BY DEF Outputs
<1>3. IsFiniteSet(Outputs(a, b))  BY <1>1, <1>2, FS_Subset
<1> QED  BY <1>2, <1>3, FS_CardinalityType

\* Output enumerates them in their order.
LEMMA OutputFacts ==
  ASSUME NEW a \in Nat, NEW b \in Nat
  PROVE  /\ Output(a, b) \in Seq(Outputs(a, b))
         /\ Len(Output(a, b)) = Cardinality(Outputs(a, b))
         /\ \A i \in 1..Cardinality(Outputs(a, b)) :
              /\ Output(a, b)[i] \in Outputs(a, b)
              /\ Rank(Outputs(a, b), Output(a, b)[i]) = i
<1> DEFINE S == Outputs(a, b)
           n == Cardinality(S)
           f == [i \in 1..n |-> CHOOSE s \in S : Rank(S, s) = i]
<1>1. S \subseteq Nat /\ IsFiniteSet(S) /\ n \in Nat  BY OutputsFinite
<1>2. Output(a, b) = f  BY DEF Output, Rank
<1> HIDE DEF S
<1>3. \A i \in 1..n : f[i] \in S /\ Rank(S, f[i]) = i  BY <1>1, RankExists
<1>4. f \in [1..n -> S]  BY <1>3
<1> HIDE DEF f, n
<1>5. f \in Seq(S) /\ Len(f) = n
  <2>1. f \in Seq(S)  BY <1>1, <1>4, SeqDef
  <2> QED  BY <1>1, <1>4, <2>1, LenProperties
<1> QED  BY <1>2, <1>3, <1>5 DEF S, n

\* A sequence over a set is one over any larger set.
LEMMA SeqWider ==
  ASSUME NEW A, NEW B, A \subseteq B, NEW q \in Seq(A)
  PROVE  q \in Seq(B)
<1>1. PICK n \in Nat : q \in [1..n -> A]  BY SeqDef
<1>2. q \in [1..n -> B]  BY <1>1
<1> QED  BY <1>2, SeqDef

\* Two sequences are the same if both enumerate the same set in its order.
LEMMA OutputIs ==
  ASSUME NEW a \in Nat, NEW b \in Nat, NEW q \in Seq(Nat),
         Len(q) = Cardinality(Outputs(a, b)),
         \A i \in 1..Len(q) : q[i] \in Outputs(a, b) /\ Rank(Outputs(a, b), q[i]) = i
  PROVE  Output(a, b) = q
<1> DEFINE S == Outputs(a, b)
           p == Output(a, b)
<1>0. S \subseteq Nat /\ IsFiniteSet(S)  BY OutputsFinite
<1>1. /\ p \in Seq(Nat) /\ Len(p) = Len(q)
      /\ \A i \in 1..Len(q) : p[i] \in S /\ Rank(S, p[i]) = i
  <2>1. /\ p \in Seq(S) /\ Len(p) = Cardinality(S)
        /\ \A i \in 1..Cardinality(S) : p[i] \in S /\ Rank(S, p[i]) = i
    BY OutputFacts
  <2>2. p \in Seq(Nat)  BY <1>0, <2>1, SeqWider
  <2> QED  BY <2>1, <2>2
<1>2. \A i \in 1..Len(q) : q[i] \in S /\ Rank(S, q[i]) = i  OBVIOUS
<1> HIDE DEF S, p
<1>3. ASSUME NEW i \in 1..Len(q) PROVE p[i] = q[i]
  <2>1. /\ p[i] \in S /\ q[i] \in S /\ Rank(S, p[i]) = Rank(S, q[i])  BY <1>1, <1>2
  <2> QED  BY <1>0, <2>1, RankUnique
<1>4. p = q  BY <1>1, <1>3, SeqEqual
<1> QED  BY <1>4 DEF p

\* An empty range has no output.
LEMMA OutputEmpty ==
  ASSUME NEW a \in Nat, NEW b \in Nat, b <= a
  PROVE  Output(a, b) = <<>>
<1>1. Outputs(a, b) = {}  BY DEF Outputs
<1>2. Cardinality(Outputs(a, b)) = 0  BY <1>1, FS_EmptySet
<1>3. /\ Output(a, b) \in Seq(Outputs(a, b)) /\ Len(Output(a, b)) = 0
  BY <1>2, OutputFacts
<1> QED  BY <1>3, EmptySeq

\* A single number is its own output, unless it is a control message's.
LEMMA OutputSingle ==
  ASSUME NEW a \in Nat
  PROVE  Output(a, a + 1) = IF a \in Control THEN <<>> ELSE <<a>>
<1> DEFINE S == Outputs(a, a + 1)
<1>1. S = IF a \in Control THEN {} ELSE {a}  BY DEF Outputs
<1>2. CASE a \in Control
  <2>1. Cardinality(S) = 0  BY <1>1, <1>2, FS_EmptySet
  <2>2. Output(a, a + 1) \in Seq(S) /\ Len(Output(a, a + 1)) = 0  BY <2>1, OutputFacts
  <2> QED  BY <1>2, <2>2, EmptySeq
<1>3. CASE a \notin Control
  <2>1. Cardinality(S) = 1  BY <1>1, <1>3, FS_Singleton
  <2> DEFINE p == Output(a, a + 1)
  <2>0. a + 1 \in Nat  OBVIOUS
  <2>2. p \in Seq(S) /\ Len(p) = 1  BY <2>0, <2>1, OutputFacts
  <2>3. p \in Seq(Nat) /\ <<a>> \in Seq(Nat) /\ p[1] = a  BY <1>1, <1>3, <2>2
  <2> HIDE DEF p
  <2>4. p = <<a>>  BY <2>2, <2>3
  <2> QED  BY <1>3, <2>4 DEF p
<1> QED  BY <1>2, <1>3

\* The output of a range is that of its first part followed by that of the rest.
LEMMA OutputSplit ==
  ASSUME NEW a \in Nat, NEW b \in Nat, NEW c \in Nat, a <= b, b <= c
  PROVE  Output(a, c) = Output(a, b) \o Output(b, c)
<1> DEFINE A == Outputs(a, b)
           B == Outputs(b, c)
           S == Outputs(a, c)
           m == Cardinality(A)
           n == Cardinality(B)
           p == Output(a, b)
           r == Output(b, c)
           q == p \o r
<1>1. /\ S = A \cup B /\ A \cap B = {}
      /\ \A x \in A, y \in B : x < y
  BY DEF Outputs
<1>2. /\ A \subseteq Nat /\ IsFiniteSet(A) /\ m \in Nat
      /\ B \subseteq Nat /\ IsFiniteSet(B) /\ n \in Nat
  BY OutputsFinite
<1>3. /\ p \in Seq(A) /\ Len(p) = m
      /\ \A i \in 1..m : p[i] \in A /\ Rank(A, p[i]) = i
  BY OutputFacts
<1>4. /\ r \in Seq(B) /\ Len(r) = n
      /\ \A i \in 1..n : r[i] \in B /\ Rank(B, r[i]) = i
  BY OutputFacts
<1> HIDE DEF A, B, S, p, r
<1>5. Cardinality(S) = m + n
  <2>1. Cardinality(A \cap B) = 0  BY <1>1, FS_EmptySet
  <2>2. Cardinality(A \cup B) = m + n - Cardinality(A \cap B)  BY <1>2, FS_Union
  <2> QED  BY <1>1, <1>2, <2>1, <2>2
<1>6. q \in Seq(Nat) /\ Len(q) = m + n
  <2>1. p \in Seq(Nat) /\ r \in Seq(Nat)  BY <1>2, <1>3, <1>4, SeqWider
  <2> QED  BY <1>3, <1>4, <2>1, ConcatProperties
<1>0. \A x \in A, y \in B : ~(y <= x) /\ x <= y
  <2>1. \A x \in A, y \in B : x \in Nat /\ y \in Nat /\ x < y  BY <1>1, <1>2
  <2> QED  BY <2>1
<1>7. \A x \in A : Rank(S, x) = Rank(A, x)
  <2>1. ASSUME NEW x \in A PROVE {t \in S : t <= x} = {t \in A : t <= x}
    BY <1>0, <1>1
  <2> QED  BY <2>1 DEF Rank
<1>8. ASSUME NEW y \in B PROVE Rank(S, y) = m + Rank(B, y)
  <2> DEFINE T == {t \in B : t <= y}
  <2>1. {t \in S : t <= y} = A \cup T  BY <1>0, <1>1
  <2>2. T \in SUBSET B  OBVIOUS
  <2>3. IsFiniteSet(T) /\ Cardinality(T) \in Nat  BY <1>2, <2>2, FS_Subset, FS_CardinalityType
  <2>4. A \cap T = {}  BY <1>1, <2>2
  <2>5. Cardinality(A \cap T) = 0  BY <2>4, FS_EmptySet
  <2> HIDE DEF T
  <2>6. Cardinality(A \cup T) = m + Cardinality(T) - Cardinality(A \cap T)
    BY <1>2, <2>3, FS_Union
  <2>7. Cardinality(A \cup T) = m + Cardinality(T)  BY <1>2, <2>3, <2>5, <2>6
  <2> QED  BY <2>1, <2>7 DEF Rank, T
<1>9. ASSUME NEW i \in 1..(m + n) PROVE q[i] \in S /\ Rank(S, q[i]) = i
  <2>1. CASE i <= m
    <3>1. i \in 1..m /\ q[i] = p[i]  BY <1>2, <1>3, <1>4, <2>1
    <3> QED  BY <1>1, <1>3, <1>7, <3>1
  <2>2. CASE i > m
    <3>1. i - m \in 1..n /\ q[i] = r[i - m]  BY <1>2, <1>3, <1>4, <2>2
    <3>2. q[i] \in B /\ Rank(B, q[i]) = i - m  BY <1>4, <3>1
    <3>3. Rank(S, q[i]) = m + (i - m)  BY <1>8, <3>2
    <3>4. m + (i - m) = i  BY <1>2
    <3> QED  BY <1>1, <3>2, <3>3, <3>4
  <2>3. i <= m \/ i > m  BY <1>2
  <2> HIDE DEF m, q
  <2> QED  BY <2>1, <2>2, <2>3
<1>10. Output(a, c) = q  BY <1>5, <1>6, <1>9, OutputIs DEF S
<1> QED  BY <1>10 DEF p, r

-----------------------------------------------------------------------------
\* Every step leaves data in the hand of a read loop that processes data.
LEMMA DataInHandStep ==
  ASSUME Typed, DataInHand, [Next]_vars
  PROVE  DataInHand'
<1> USE DEF Typed, Goto
<1>1. ASSUME NEW g \in Generations, LoopStep(g) PROVE DataInHand'
  <2>1. CASE AckRequest(g) \/ Respond(g) \/ AckComplete(g) \/ UpdateExpectedSeqNum(g)
    BY <2>1 DEF DataInHand, AckRequest, Respond, AckComplete, UpdateExpectedSeqNum
  <2>2. CASE LockBuffer(g) \/ AckData(g) \/ ProcessData(g) \/ GiveUp(g)
    BY <2>2 DEF DataInHand, LockBuffer, AckData, ProcessData, GiveUp
  <2> QED  BY <1>1, <2>1, <2>2 DEF LoopStep
<1>2. ASSUME NEW g \in Generations, NEW s \in Messages, Receive(g, s) PROVE DataInHand'
  <2>1. s \in {Request, Complete} \/ s \in DataMessages
    BY DEF Messages, DataMessages, Request, Complete
  <2> QED  BY <1>2, <2>1 DEF DataInHand, Receive
<1>3. CASE Resume
  BY <1>3 DEF DataInHand, Resume
<1>4. CASE UNCHANGED <<pc, msg>>
  BY <1>4 DEF DataInHand
<1> QED  BY <1>1, <1>2, <1>3, <1>4
  DEF Next, AgentSends, AgentGetsAck, Disconnect, OpenGate, Close, vars

\* A step of a read loop other than the two that set expectedSeqNum, in what
\* matters here.
Advances(g) ==
    /\ UNCHANGED <<expectedSeqNum, buffer, delivered, agentNext, gen, done>>
    /\ UNCHANGED <<responded, handshakeComplete, msg, first>>
    /\ \A h \in Generations : h # g => pc'[h] = pc[h]
    /\ pc[g] \notin {"none", "read", "update"}
    /\ responseSaved' => responseSaved \/ pc[g] = "reqAck"
    /\ responseSent => responseSent'
    /\ responseSent' => responseSent \/ pc[g] = "respond"
    /\ \/ pc[g] = "reqAck" /\ pc'[g] \in {"respond", "read"}
       \/ pc[g] = "respond" /\ pc'[g] \in {"update", "read"} /\ (pc'[g] = "update" => first[g])
       \/ pc[g] \in {"completeAck", "lock", "ack", "process"} /\ pc'[g] \in {"ack", "process", "read"}

\* Those are all of them.
LEMMA LoopAdvances ==
  ASSUME Typed, NEW g \in Generations, LoopStep(g)
  PROVE  Advances(g) \/ UpdateExpectedSeqNum(g) \/ ProcessData(g)
<1> USE DEF Typed, Goto, agentVars, linkVars, streamVars, shakeVars
<1>1. CASE AckRequest(g)  BY <1>1 DEF AckRequest, Advances
<1>2. CASE Respond(g)  BY <1>2 DEF Respond, Advances
<1>3. CASE AckComplete(g)  BY <1>3 DEF AckComplete, Advances
<1>4. CASE LockBuffer(g)  BY <1>4 DEF LockBuffer, Advances
<1>5. CASE AckData(g)  BY <1>5 DEF AckData, Advances
<1>6. CASE GiveUp(g)  BY <1>6 DEF GiveUp, Advances
<1> QED  BY <1>1, <1>2, <1>3, <1>4, <1>5, <1>6 DEF LoopStep

\* The number that is waited for when a message is processed is that of a message
\* the agent has sent, or the next it will send.
LEMMA ProcessFacts ==
  ASSUME Typed, DataInHand, OneUpdate, Sent, NEW g \in Generations, ProcessData(g),
         msg[g] = expectedSeqNum
  PROVE  /\ msg[g] \in DataMessages /\ expectedSeqNum > Complete
         /\ NextExpected(msg[g], buffer) \in (expectedSeqNum + 1)..agentNext
         /\ \A h \in Generations : ~FirstInHand(h) /\ ~CompleteInHand(h)
<1>1. msg[g] \in DataMessages /\ pc[g] = "process"  BY DEF ProcessData, DataInHand
<1>2. expectedSeqNum > Complete /\ expectedSeqNum \in Nat
  BY <1>1 DEF DataMessages, Complete
<1>3. msg[g] < agentNext /\ \A t \in buffer : t < agentNext  BY <1>1 DEF Sent
<1> DEFINE next == NextExpected(msg[g], buffer)
<1>4. next \in (msg[g] + 1)..MaxMessages /\ next - 1 \in buffer \cup {msg[g]}
  BY <1>1, NextFacts
<1>5. next \in Int /\ next >= expectedSeqNum + 1  BY <1>2, <1>4, ReceiveAssumption
<1> HIDE DEF next
<1>6. next - 1 < agentNext  BY <1>3, <1>4
<1>7. next \in (expectedSeqNum + 1)..agentNext
  BY <1>2, <1>5, <1>6, ReceiveAssumption DEF Typed
<1>8. \A h \in Generations : ~FirstInHand(h) /\ ~CompleteInHand(h)
  BY <1>2 DEF OneUpdate, LoopInHandshake, Complete
<1> QED  BY <1>1, <1>2, <1>7, <1>8 DEF next

\* A step after which nothing more is in hand leaves one update at most.
LEMMA NoMoreInHand ==
  ASSUME OneUpdate,
         \A h \in Generations : /\ FirstInHand(h)' => FirstInHand(h)
                                /\ CompleteInHand(h)' => CompleteInHand(h)
                                /\ LoopInHandshake(h)'
  PROVE  OneUpdate'
<1>1. \A h \in Generations : LoopInHandshake(h)'  OBVIOUS
<1>2. ASSUME NEW g \in Generations, NEW h \in Generations, FirstInHand(g)'
      PROVE  ~CompleteInHand(h)' /\ (FirstInHand(h)' => g = h)
  BY <1>2 DEF OneUpdate
<1> QED  BY <1>1, <1>2 DEF OneUpdate

\* Every step leaves the handshake where its messages have taken it.
LEMMA HandshakeStep ==
  ASSUME Typed, DataInHand, HandshakeSoFar, OneUpdate, Sent, [Next]_vars
  PROVE  HandshakeSoFar' /\ OneUpdate'
<1> USE DEF Typed, Goto, Request, Complete, agentVars, streamVars, shakeVars, linkVars
<1> DEFINE Goal == HandshakeSoFar' /\ OneUpdate'
<1>1. ASSUME NEW g \in Generations, Advances(g) PROVE Goal
  <2>0. /\ UNCHANGED <<expectedSeqNum, agentNext, gen, responded, handshakeComplete>>
        /\ \A h \in Generations : UNCHANGED <<msg[h], first[h]>> /\ (h # g => pc'[h] = pc[h])
        /\ pc[g] # "none"
    BY <1>1 DEF Advances
  <2>1. HandshakeSoFar'
    BY <1>1 DEF HandshakeSoFar, Advances, OneUpdate, LoopInHandshake
  <2>2. /\ FirstInHand(g)' => FirstInHand(g)
        /\ ~CompleteInHand(g)'
        /\ LoopInHandshake(g)'
    BY <1>1 DEF OneUpdate, LoopInHandshake, Advances, FirstInHand, CompleteInHand
  <2>3. \A h \in Generations : h # g =>
          /\ FirstInHand(h)' <=> FirstInHand(h)
          /\ CompleteInHand(h)' <=> CompleteInHand(h)
          /\ LoopInHandshake(h)'
    BY <2>0 DEF OneUpdate, LoopInHandshake, FirstInHand, CompleteInHand
  <2>4. OneUpdate'  BY <2>2, <2>3, NoMoreInHand
  <2> QED  BY <2>1, <2>4
<1>2. ASSUME NEW g \in Generations, UpdateExpectedSeqNum(g) PROVE Goal
  <2>1. /\ pc[g] = "update" /\ pc'[g] \in {"completeAck", "read"}
        /\ expectedSeqNum' = msg[g] + 1
        /\ UNCHANGED <<agentNext, gen, responded, responseSaved, responseSent, handshakeComplete>>
        /\ \A h \in Generations : UNCHANGED <<msg[h], first[h]>> /\ (h # g => pc'[h] = pc[h])
    BY <1>2 DEF UpdateExpectedSeqNum
  <2>2. FirstInHand(g) \/ CompleteInHand(g)  BY <2>1 DEF OneUpdate, LoopInHandshake
  <2>3. HandshakeSoFar'
    BY <2>1, <2>2 DEF HandshakeSoFar, OneUpdate, LoopInHandshake, FirstInHand, CompleteInHand
  <2>4. \A h \in Generations : h # g => ~FirstInHand(h) /\ ~CompleteInHand(h)
    <3>1. CASE FirstInHand(g)  BY <3>1 DEF OneUpdate
    <3>2. CASE CompleteInHand(g)
      <4>1. \A h \in Generations : ~FirstInHand(h)  BY <3>2 DEF OneUpdate
      <4>2. \A h \in Generations : CompleteInHand(h) => h = 1  BY DEF OneUpdate, LoopInHandshake
      <4> QED  BY <3>2, <4>1, <4>2
    <3> QED  BY <2>2, <3>1, <3>2
  <2>5. \A h \in Generations : ~FirstInHand(h)' /\ ~CompleteInHand(h)'
    BY <2>1, <2>4 DEF FirstInHand, CompleteInHand
  <2>6. \A h \in Generations : LoopInHandshake(h)'
    BY <2>1, <2>4, <2>5 DEF OneUpdate, LoopInHandshake
  <2>7. OneUpdate'  BY <2>5, <2>6, NoMoreInHand
  <2> QED  BY <2>3, <2>7
<1>3. ASSUME NEW g \in Generations, ProcessData(g) PROVE Goal
  <2>1. /\ UNCHANGED <<agentNext, gen, responded, responseSaved, responseSent, handshakeComplete>>
        /\ \A h \in Generations : UNCHANGED <<msg[h], first[h]>> /\ (h # g => pc'[h] = pc[h])
        /\ pc[g] = "process" /\ pc'[g] = "read"
    BY <1>3 DEF ProcessData
  <2>2. \A h \in Generations : /\ FirstInHand(h)' <=> FirstInHand(h)
                               /\ CompleteInHand(h)' <=> CompleteInHand(h)
    BY <2>1 DEF FirstInHand, CompleteInHand
  <2>3. UNCHANGED expectedSeqNum \/ msg[g] = expectedSeqNum  BY <1>3 DEF ProcessData
  <2>4. UNCHANGED expectedSeqNum \/
          /\ expectedSeqNum > Complete
          /\ \A h \in Generations : ~FirstInHand(h) /\ ~CompleteInHand(h)
    BY <1>3, <2>3, ProcessFacts
  <2>5. HandshakeSoFar'  BY <2>1, <2>4 DEF HandshakeSoFar
  <2>6. \A h \in Generations : LoopInHandshake(h)'
    BY <2>1, <2>2, <2>4 DEF OneUpdate, LoopInHandshake
  <2>7. OneUpdate'  BY <2>2, <2>6, NoMoreInHand
  <2> QED  BY <2>5, <2>7
<1>4. ASSUME NEW g \in Generations, NEW s \in Messages, Receive(g, s) PROVE Goal
  <2>1. /\ UNCHANGED <<agentNext, expectedSeqNum, responseSaved, responseSent, gen>>
        /\ g = gen /\ pc[g] = "read" /\ msg'[g] = s /\ (first'[g] <=> s = Request /\ ~responded)
        /\ pc'[g] = CASE s = Request -> "reqAck"
                      [] s = Complete -> IF handshakeComplete THEN "completeAck" ELSE "update"
                      [] OTHER -> "lock"
        /\ responded' <=> (responded \/ s = Request)
        /\ handshakeComplete' <=> (handshakeComplete \/ s = Complete)
        /\ \A h \in Generations : h # g =>
              pc'[h] = pc[h] /\ msg'[h] = msg[h] /\ (first'[h] <=> first[h])
        /\ s < agentNext
    BY <1>4 DEF Receive
  <2> gen \in Nat /\ g <= gen'  BY <2>1, ReceiveAssumption DEF Generations
  <2>2. HandshakeSoFar'  BY <2>1 DEF HandshakeSoFar
  <2>3. \A h \in Generations : h # g =>
          /\ FirstInHand(h)' <=> FirstInHand(h)
          /\ CompleteInHand(h)' <=> CompleteInHand(h)
    BY <2>1 DEF FirstInHand, CompleteInHand
  <2>4. \A h \in Generations : h # g => LoopInHandshake(h)'
    BY <2>1, <2>3 DEF OneUpdate, LoopInHandshake
  <2>5. CASE s = Request
    <3>1. pc'[g] = "reqAck" /\ ~CompleteInHand(g)' /\ (FirstInHand(g)' <=> ~responded)
      BY <2>1, <2>5 DEF FirstInHand, CompleteInHand
    <3>2. LoopInHandshake(g)'
      BY <2>1, <2>5, <3>1 DEF LoopInHandshake, HandshakeSoFar
    <3>3. ~responded => \A h \in Generations : ~FirstInHand(h) /\ ~CompleteInHand(h)
      BY DEF OneUpdate, LoopInHandshake, HandshakeSoFar
    <3> QED  BY <2>2, <2>3, <2>4, <3>1, <3>2, <3>3 DEF OneUpdate
  <2>6. CASE s = Complete
    <3>1. ~FirstInHand(g)' /\ (CompleteInHand(g)' => ~handshakeComplete)
      BY <2>1, <2>6 DEF FirstInHand, CompleteInHand
    <3>2. ~handshakeComplete => g = 1 /\ expectedSeqNum <= Complete
      BY <2>1 DEF HandshakeSoFar, Generations
    <3>3. agentNext > Complete  BY <2>1, <2>6
    <3>4. pc'[g] \in {"completeAck", "update"} /\ (pc'[g] = "update" => CompleteInHand(g)')
      BY <2>1, <2>6 DEF CompleteInHand
    <3>5. LoopInHandshake(g)'
      BY <2>1, <2>6, <3>1, <3>2, <3>3, <3>4 DEF LoopInHandshake
    <3>6. ~handshakeComplete => \A h \in Generations : h # g => pc[h] = "none"
      BY <2>1, <3>2 DEF OneUpdate, LoopInHandshake, Generations
    <3>7. CompleteInHand(g)' => \A h \in Generations : ~FirstInHand(h)'
      BY <2>3, <3>1, <3>6 DEF FirstInHand
    <3> QED  BY <2>2, <2>3, <2>4, <3>1, <3>5, <3>7 DEF OneUpdate
  <2>7. CASE s \notin {Request, Complete}
    <3>1. pc'[g] = "lock"  BY <2>1, <2>7
    <3>2. ~FirstInHand(g)' /\ ~CompleteInHand(g)' /\ LoopInHandshake(g)'
      BY <2>1, <3>1 DEF FirstInHand, CompleteInHand, LoopInHandshake
    <3> QED  BY <2>2, <2>3, <2>4, <3>2 DEF OneUpdate
  <2> QED  BY <2>5, <2>6, <2>7
<1>5. CASE Resume
  <2>1. /\ UNCHANGED <<agentNext, expectedSeqNum, responded, responseSaved, responseSent, msg, first>>
        /\ gen' = gen + 1 /\ handshakeComplete'
        /\ \A h \in Generations : IF h = gen + 1 THEN pc'[h] = "read" ELSE pc'[h] = pc[h]
    BY <1>5 DEF Resume
  <2>2. HandshakeSoFar'  BY <2>1 DEF HandshakeSoFar
  <2>3. \A h \in Generations : /\ FirstInHand(h)' => FirstInHand(h)
                               /\ CompleteInHand(h)' => CompleteInHand(h)
    BY <2>1 DEF FirstInHand, CompleteInHand
  <2>4. \A h \in Generations : h # gen + 1 => LoopInHandshake(h)'
    BY <2>1, <2>3 DEF OneUpdate, LoopInHandshake, FirstInHand, CompleteInHand, Generations
  <2>5. \A h \in Generations : h = gen + 1 => LoopInHandshake(h)'
    BY <2>1 DEF LoopInHandshake, FirstInHand, CompleteInHand, Generations
  <2>6. OneUpdate'  BY <2>3, <2>4, <2>5, NoMoreInHand
  <2> QED  BY <2>2, <2>6
<1>6. CASE /\ UNCHANGED <<pc, msg, first, gen, expectedSeqNum, responded>>
           /\ UNCHANGED <<responseSaved, responseSent, handshakeComplete>>
           /\ agentNext' = agentNext \/ AgentSends
  <2>1. agentNext > Complete => agentNext' > Complete  BY <1>6 DEF AgentSends
  <2>2. HandshakeSoFar'  BY <1>6 DEF HandshakeSoFar, AgentSends
  <2>3. OneUpdate'
    BY <1>6, <2>1 DEF OneUpdate, LoopInHandshake, FirstInHand, CompleteInHand
  <2> QED  BY <2>2, <2>3
<1>7. CASE \/ AgentSends \/ (\E s \in Messages : AgentGetsAck(s)) \/ Disconnect \/ OpenGate \/ Close
           \/ UNCHANGED vars
  BY <1>6, <1>7 DEF AgentSends, AgentGetsAck, Disconnect, OpenGate, Close, vars
<1> QED  BY <1>1, <1>2, <1>3, <1>4, <1>5, <1>7, LoopAdvances DEF Next

\* Every step leaves the adapter with nothing the agent has not sent.
LEMMA SentStep ==
  ASSUME Typed, DataInHand, HandshakeSoFar, OneUpdate, Sent, [Next]_vars
  PROVE  Sent'
<1> USE DEF Typed, Goto, Request, Complete, agentVars, streamVars, shakeVars, linkVars
<1>0. /\ agentNext \in Nat /\ expectedSeqNum \in Nat /\ buffer \subseteq Nat
      /\ \A g \in Generations : msg[g] \in Nat
  BY DEF Messages, DataMessages
<1>1. ASSUME NEW g \in Generations, Advances(g) PROVE Sent'
  BY <1>1 DEF Sent, Advances
<1>2. ASSUME NEW g \in Generations, UpdateExpectedSeqNum(g) PROVE Sent'
  <2>1. /\ pc[g] = "update" /\ expectedSeqNum' = msg[g] + 1
        /\ UNCHANGED <<agentNext, buffer, msg>>
        /\ \A h \in Generations : h # g => pc'[h] = pc[h]
    BY <1>2 DEF UpdateExpectedSeqNum
  <2>2. msg[g] < agentNext  BY <2>1 DEF Sent
  <2>3. expectedSeqNum' <= agentNext  BY <1>0, <2>1, <2>2
  <2> QED  BY <2>1, <2>2, <2>3 DEF Sent
<1>3. ASSUME NEW g \in Generations, ProcessData(g) PROVE Sent'
  <2>1. /\ UNCHANGED <<agentNext, msg>> /\ pc[g] = "process" /\ pc'[g] = "read"
        /\ \A h \in Generations : h # g => pc'[h] = pc[h]
    BY <1>3 DEF ProcessData
  <2>4. buffer' \subseteq buffer \cup {msg[g]}  BY <1>3 DEF ProcessData
  <2>5. \/ UNCHANGED expectedSeqNum
        \/ msg[g] = expectedSeqNum /\ expectedSeqNum' = NextExpected(msg[g], buffer)
    BY <1>3 DEF ProcessData
  <2>2. msg[g] < agentNext  BY <2>1 DEF Sent
  <2>3. expectedSeqNum' <= agentNext
    <3>1. CASE UNCHANGED expectedSeqNum  BY <3>1 DEF Sent
    <3>2. CASE msg[g] = expectedSeqNum /\ expectedSeqNum' = NextExpected(msg[g], buffer)
      <4>1. NextExpected(msg[g], buffer) \in (expectedSeqNum + 1)..agentNext
        BY <1>3, <3>2, ProcessFacts
      <4> QED  BY <3>2, <4>1
    <3> QED  BY <2>5, <3>1, <3>2
  <2> QED  BY <2>1, <2>2, <2>3, <2>4 DEF Sent
<1>4. ASSUME NEW g \in Generations, NEW s \in Messages, Receive(g, s) PROVE Sent'
  BY <1>4 DEF Sent, Receive
<1>5. CASE Resume
  BY <1>5 DEF Sent, Resume
<1>6. CASE AgentSends
  <2>1. agentNext' = agentNext + 1 /\ UNCHANGED <<expectedSeqNum, buffer, msg, pc>>
    BY <1>6 DEF AgentSends
  <2> QED  BY <1>0, <2>1 DEF Sent
<1>7. CASE \/ (\E s \in Messages : AgentGetsAck(s)) \/ Disconnect \/ OpenGate \/ Close
           \/ UNCHANGED vars
  BY <1>7 DEF Sent, AgentGetsAck, Disconnect, OpenGate, Close, vars
<1> QED  BY <1>1, <1>2, <1>3, <1>4, <1>5, <1>6, <1>7, LoopAdvances DEF Next

\* What a message and those buffered behind it add to the stream.
LEMMA OutputTyped ==
  ASSUME NEW a \in DataMessages, NEW b \in 0..MaxMessages
  PROVE  Output(a, b) \in Seq(DataMessages)
<1>1. a \in Nat /\ b \in Nat /\ Outputs(a, b) \subseteq DataMessages
  BY ReceiveAssumption DEF DataMessages, Outputs
<1> QED  BY <1>1, OutputFacts, SeqWider

\* Every step leaves in the stream what was processed, in the agent's order.
LEMMA DeliveredStep ==
  ASSUME Typed, DataInHand, OneUpdate, Sent, Delivered, [Next]_vars
  PROVE  Delivered'
<1> USE DEF Typed, Goto, agentVars, streamVars, shakeVars, linkVars
<1>1. CASE UNCHANGED <<delivered, expectedSeqNum>> /\ (done => done')
  BY <1>1 DEF Delivered
<1>2. ASSUME NEW g \in Generations, UpdateExpectedSeqNum(g) PROVE Delivered'
  <2>1. /\ pc[g] = "update" /\ expectedSeqNum' = msg[g] + 1
        /\ UNCHANGED <<delivered, done>>
    BY <1>2 DEF UpdateExpectedSeqNum
  <2>2. expectedSeqNum <= 1 /\ msg[g] \in {0, 1}
    BY <2>1 DEF OneUpdate, LoopInHandshake, FirstInHand, CompleteInHand, Request, Complete
  <2>3. /\ expectedSeqNum \in Nat /\ expectedSeqNum' \in Nat
        /\ expectedSeqNum <= 2 /\ expectedSeqNum' <= 2
    BY <2>1, <2>2
  <2>4. Output(2, expectedSeqNum) = <<>> /\ Output(2, expectedSeqNum') = <<>>
    BY <2>3, OutputEmpty
  <2> QED  BY <2>1, <2>4 DEF Delivered
<1>3. ASSUME NEW g \in Generations, ProcessData(g) PROVE Delivered'
  <2>1. CASE UNCHANGED <<delivered, expectedSeqNum>>
    BY <1>1, <1>3, <2>1 DEF ProcessData
  <2>2. CASE msg[g] = expectedSeqNum
    <3> DEFINE next == NextExpected(msg[g], buffer)
    <3>1. /\ expectedSeqNum' = next /\ UNCHANGED done
          /\ delivered' = IF done THEN delivered ELSE delivered \o Output(msg[g], next)
      BY <1>3, <2>2 DEF ProcessData
    <3>2. /\ msg[g] \in DataMessages /\ expectedSeqNum > Complete
          /\ next \in (expectedSeqNum + 1)..agentNext
      BY <1>3, <2>2, ProcessFacts
    <3> HIDE DEF next
    <3>3. /\ 2 <= expectedSeqNum /\ expectedSeqNum <= next
          /\ expectedSeqNum \in Nat /\ next \in 0..MaxMessages /\ next \in Nat
      BY <3>2, ReceiveAssumption DEF Complete
    <3>4. Output(2, next) = Output(2, expectedSeqNum) \o Output(expectedSeqNum, next)
      BY <3>3, OutputSplit
    <3>5. Output(msg[g], next) \in Seq(DataMessages)  BY <3>2, <3>3, OutputTyped
    <3>6. delivered' \in Seq(DataMessages)
      BY <3>1, <3>5, ConcatProperties DEF Delivered
    <3> QED  BY <2>2, <3>1, <3>4, <3>6 DEF Delivered
  <2> QED  BY <1>3, <2>1, <2>2 DEF ProcessData
<1>4. ASSUME NEW g \in Generations, LoopStep(g) PROVE Delivered'
  BY <1>1, <1>2, <1>3, <1>4, LoopAdvances DEF Advances
<1>5. CASE \/ AgentSends \/ (\E s \in Messages : AgentGetsAck(s)) \/ Disconnect \/ Resume \/ OpenGate
           \/ Close \/ (\E g \in Generations, s \in Messages : Receive(g, s)) \/ UNCHANGED vars
  BY <1>1, <1>5 DEF AgentSends, AgentGetsAck, Disconnect, Resume, OpenGate, Close, Receive, vars
<1> QED  BY <1>4, <1>5 DEF Next

\* It all holds before the agent sends anything.
LEMMA StreamInit == Init => StreamInv
<1> SUFFICES ASSUME Init PROVE StreamInv  OBVIOUS
<1>1. Typed  BY InitIInv DEF IInv
<1>2. \A g \in Generations : pc[g] \in {"none", "read"} /\ (pc[g] # "none" => g <= gen)
  BY ReceiveAssumption DEF Init, Generations
<1>3. DataInHand  BY <1>2 DEF DataInHand
<1>4. HandshakeSoFar  BY DEF Init, HandshakeSoFar, Request, Complete
<1>5. OneUpdate  BY <1>2 DEF OneUpdate, LoopInHandshake, FirstInHand, CompleteInHand
<1>6. Sent  BY <1>2 DEF Init, Sent
<1>7. Output(2, expectedSeqNum) = <<>>  BY OutputEmpty DEF Init
<1>8. Delivered  BY <1>7 DEF Init, Delivered
<1> QED  BY <1>1, <1>3, <1>4, <1>5, <1>6, <1>8 DEF StreamInv

\* The inductive invariant holds in every behaviour.
THEOREM StreamInvariance == Spec => []StreamInv
<1>1. StreamInv /\ [Next]_vars => StreamInv'
  BY TypedStep, DataInHandStep, HandshakeStep, SentStep, DeliveredStep DEF StreamInv
<1> QED  BY <1>1, StreamInit, PTL DEF Spec

-----------------------------------------------------------------------------
\* What the agent has acknowledgements for are messages.
LEMMA AgentTypedStep ==
  ASSUME agentAcked \subseteq Messages, [Next]_vars
  PROVE  (agentAcked \subseteq Messages)'
BY DEF Next, AgentSends, AgentGetsAck, LoopStep, AckRequest, Respond, UpdateExpectedSeqNum,
       AckComplete, LockBuffer, AckData, ProcessData, GiveUp, Receive, Disconnect, Resume,
       OpenGate, Close, vars, agentVars

\* Every variable keeps its type, what SSH is given included: data messages of
\* the agent and nothing else (adapter.go:132-209, 1310-1336).
THEOREM ReceiveTypes == Spec => []TypeOK
<1>1. Init => agentAcked \subseteq Messages  BY DEF Init
<1>2. Spec => [](agentAcked \subseteq Messages)
  BY <1>1, AgentTypedStep, PTL DEF Spec
<1>3. StreamInv /\ agentAcked \subseteq Messages => TypeOK
  BY DEF StreamInv, Typed, Delivered, TypeOK
<1> QED  BY <1>2, <1>3, StreamInvariance, PTL

-----------------------------------------------------------------------------
\* expectedSeqNum moves only forwards, over any number of overlapping read loops
\* and duplicated, reordered or late messages (adapter.go:713-718, 1286-1312).
THEOREM ExpectedNeverBack == Spec => NeverBack
<1>1. ASSUME StreamInv, [Next]_vars PROVE [expectedSeqNum' > expectedSeqNum]_expectedSeqNum
  <2> USE <1>1 DEF StreamInv, Typed
  <2>1. ASSUME NEW g \in Generations, UpdateExpectedSeqNum(g)
        PROVE  expectedSeqNum' > expectedSeqNum
    <3>1. pc[g] = "update" /\ expectedSeqNum' = msg[g] + 1
      BY <2>1 DEF UpdateExpectedSeqNum
    <3> QED  BY <3>1 DEF OneUpdate, LoopInHandshake, FirstInHand, CompleteInHand,
                         Request, Complete
  <2>2. ASSUME NEW g \in Generations, ProcessData(g), msg[g] = expectedSeqNum
        PROVE  expectedSeqNum' > expectedSeqNum
    <3>1. NextExpected(msg[g], buffer) \in (expectedSeqNum + 1)..agentNext
      BY <2>2, ProcessFacts
    <3>2. expectedSeqNum' = NextExpected(msg[g], buffer)  BY <2>2 DEF ProcessData
    <3> QED  BY <3>1, <3>2
  <2>3. ASSUME NEW g \in Generations, ProcessData(g), msg[g] # expectedSeqNum
        PROVE  UNCHANGED expectedSeqNum
    BY <2>3 DEF ProcessData, streamVars
  <2>4. ASSUME NEW g \in Generations, LoopStep(g)
        PROVE  [expectedSeqNum' > expectedSeqNum]_expectedSeqNum
    BY <2>1, <2>2, <2>3, <2>4, LoopAdvances DEF Advances
  <2>5. CASE \/ AgentSends \/ (\E s \in Messages : AgentGetsAck(s)) \/ Disconnect \/ Resume
             \/ OpenGate \/ Close \/ (\E g \in Generations, s \in Messages : Receive(g, s))
             \/ UNCHANGED vars
    BY <2>5 DEF AgentSends, AgentGetsAck, Disconnect, Resume, OpenGate, Close, Receive,
                streamVars, vars
  <2> QED  BY <1>1, <2>4, <2>5 DEF Next
<1>2. StreamInv /\ [Next]_vars => [expectedSeqNum' > expectedSeqNum]_expectedSeqNum
  BY <1>1
<1> QED  BY <1>2, StreamInvariance, PTL DEF Spec, NeverBack

-----------------------------------------------------------------------------
\* Only the handshake strands a message: if the one that is waited for is in the
\* buffer, it is the first one after HandshakeComplete.
StrandedByHandshake ==
    bufMu = 0 /\ expectedSeqNum \in buffer => expectedSeqNum = Complete + 1

\* The handlers of data leave nothing behind in the buffer.
LEMMA StrandedStep ==
  ASSUME StreamInv, expectedSeqNum \in buffer => expectedSeqNum = Complete + 1, [Next]_vars
  PROVE  (expectedSeqNum \in buffer => expectedSeqNum = Complete + 1)'
<1> DEFINE NoneLeft == expectedSeqNum \in buffer => expectedSeqNum = Complete + 1
<1> USE DEF StreamInv, Typed
<1>1. CASE UNCHANGED <<expectedSeqNum, buffer>>
  BY <1>1
<1>2. ASSUME NEW g \in Generations, UpdateExpectedSeqNum(g) PROVE NoneLeft'
  <2>1. pc[g] = "update" /\ expectedSeqNum' = msg[g] + 1 /\ UNCHANGED buffer
    BY <1>2 DEF UpdateExpectedSeqNum
  <2>2. msg[g] \in {0, 1}
    BY <2>1 DEF OneUpdate, LoopInHandshake, FirstInHand, CompleteInHand, Request, Complete
  <2> QED  BY <2>1, <2>2 DEF DataMessages, Complete
<1>3. ASSUME NEW g \in Generations, ProcessData(g) PROVE NoneLeft'
  <2> DEFINE next == NextExpected(msg[g], buffer)
  <2>1. msg[g] \in DataMessages  BY <1>3 DEF ProcessData, DataInHand
  <2>2. next \notin buffer  BY <2>1, NextFacts
  <2> HIDE DEF next
  <2>3. CASE expectedSeqNum' = next /\ buffer' \subseteq buffer
    BY <2>2, <2>3
  <2>4. CASE msg[g] > expectedSeqNum /\ buffer' = buffer \cup {msg[g]} /\ UNCHANGED expectedSeqNum
    BY <2>1, <2>4 DEF DataMessages
  <2> QED  BY <1>1, <1>3, <2>3, <2>4 DEF ProcessData, streamVars, next
<1>4. ASSUME NEW g \in Generations, LoopStep(g) PROVE NoneLeft'
  BY <1>1, <1>2, <1>3, <1>4, LoopAdvances DEF Advances
<1>5. CASE \/ AgentSends \/ (\E s \in Messages : AgentGetsAck(s)) \/ Disconnect \/ Resume \/ OpenGate
           \/ Close \/ (\E g \in Generations, s \in Messages : Receive(g, s)) \/ UNCHANGED vars
  BY <1>1, <1>5 DEF AgentSends, AgentGetsAck, Disconnect, Resume, OpenGate, Close, Receive,
                    streamVars, vars
<1> QED  BY <1>4, <1>5 DEF Next

\* Data that arrives in any order is processed when its turn comes, with one
\* exception: HandshakeComplete's handler sets expectedSeqNum without a look into
\* the buffer, and if the first data message is there already it stays there
\* (adapter.go:713-718, 1286-1312).
THEOREM HandshakeAloneStrands == Spec => []StrandedByHandshake
<1> DEFINE NoneLeft == expectedSeqNum \in buffer => expectedSeqNum = Complete + 1
<1>1. Init => NoneLeft  BY DEF Init
<1>2. StreamInv /\ StreamInv' /\ NoneLeft /\ [Next]_vars => NoneLeft'  BY StrandedStep
<1>3. NoneLeft => StrandedByHandshake  BY DEF StrandedByHandshake
<1> HIDE DEF NoneLeft
<1> QED  BY <1>1, <1>2, <1>3, StreamInvariance, PTL DEF Spec

-----------------------------------------------------------------------------
\* What the agent sends is put into the stream, unless it is a handshake or a
\* control message.
LEMMA AgentPuts ==
  ASSUME Typed, AgentSends
  PROVE  \/ UNCHANGED Stream!vars
         \/ \E d \in DataMessages : Stream!Put(d)
<1>1. /\ agentNext \in Nat /\ agentNext < MaxMessages /\ agentNext' = agentNext + 1
      /\ agentNext' \in Nat /\ UNCHANGED <<delivered, done>>
  BY ReceiveAssumption DEF Typed, AgentSends, streamVars, linkVars
<1>2. CASE agentNext < 2
  <2>1. agentNext <= 2 /\ agentNext' <= 2  BY <1>1, <1>2
  <2>2. Output(2, agentNext) = <<>> /\ Output(2, agentNext') = <<>>
    BY <1>1, <2>1, OutputEmpty
  <2> QED  BY <1>1, <2>2 DEF Stream!vars
<1>3. CASE agentNext >= 2
  <2>1. agentNext \in DataMessages  BY <1>1, <1>3, ReceiveAssumption DEF DataMessages
  <2>2. 2 <= agentNext /\ agentNext <= agentNext'  BY <1>1, <1>3
  <2>3. Output(2, agentNext') = Output(2, agentNext) \o Output(agentNext, agentNext')
    BY <1>1, <2>2, OutputSplit
  <2>4. Output(2, agentNext) \in Seq(Outputs(2, agentNext))  BY <1>1, OutputFacts
  <2>5. Output(agentNext, agentNext')
          = IF agentNext \in Control THEN <<>> ELSE <<agentNext>>
    BY <1>1, OutputSingle
  <2>6. CASE agentNext \in Control
    <3>1. Output(2, agentNext') = Output(2, agentNext)
      BY <2>3, <2>4, <2>5, <2>6, ConcatEmptySeq
    <3> QED  BY <1>1, <3>1 DEF Stream!vars
  <2>7. CASE agentNext \notin Control
    <3>1. Output(2, agentNext') = Append(Output(2, agentNext), agentNext)
      BY <2>3, <2>4, <2>5, <2>7
    <3>2. Stream!Put(agentNext)  BY <1>1, <3>1 DEF Stream!Put
    <3> QED  BY <2>1, <3>2
  <2> QED  BY <2>6, <2>7
<1> QED  BY <1>1, <1>2, <1>3

\* A message that is processed, with those buffered behind it, comes out of the
\* stream, unless they are all control messages.
LEMMA ProcessDelivers ==
  ASSUME StreamInv, NEW g \in Generations, ProcessData(g)
  PROVE  UNCHANGED Stream!vars \/ Stream!Deliver
<1> USE DEF StreamInv
<1>1. UNCHANGED <<agentNext, done>>  BY DEF ProcessData, agentVars, linkVars
<1>2. UNCHANGED Output(2, agentNext)  BY <1>1
<1>3. CASE UNCHANGED delivered
  BY <1>1, <1>2, <1>3 DEF Stream!vars
<1>4. CASE ~(UNCHANGED delivered)
  <2> DEFINE next == NextExpected(msg[g], buffer)
             source == Output(2, agentNext)
             rest == Output(next, agentNext)
             part == Output(expectedSeqNum, next)
  <2>1. /\ ~done /\ msg[g] = expectedSeqNum
        /\ delivered' = delivered \o Output(msg[g], next)
    BY <1>4 DEF ProcessData, streamVars
  <2>2. delivered = Output(2, expectedSeqNum)  BY <2>1 DEF Delivered
  <2>3. next \in (expectedSeqNum + 1)..agentNext /\ expectedSeqNum > 1
    BY <2>1, ProcessFacts DEF Complete
  <2> HIDE DEF next
  <2>4. /\ expectedSeqNum \in Nat /\ next \in Nat /\ agentNext \in Nat
        /\ 2 <= expectedSeqNum /\ 2 <= next /\ expectedSeqNum <= next /\ next <= agentNext
    BY <2>3 DEF Typed
  <2>5. delivered' = Output(2, next)  BY <2>1, <2>2, <2>4, OutputSplit
  <2>6. source = Output(2, next) \o rest  BY <2>4, OutputSplit
  <2>7. /\ Output(2, next) \in Seq(Nat) /\ rest \in Seq(Nat)
        /\ delivered \in Seq(Nat) /\ part \in Seq(Nat)
    <3>1. \A a, b \in Nat : Output(a, b) \in Seq(Nat)
      BY OutputFacts, OutputsFinite, SeqWider
    <3> QED  BY <2>2, <2>4, <3>1
  <2>8. delivered' = delivered \o part /\ delivered' \in Seq(Nat) /\ source = delivered' \o rest
    BY <2>1, <2>5, <2>6, <2>7
  <2> HIDE DEF source, rest, part
  <2>9. Len(part) # 0
    <3>1. SUFFICES ASSUME part = <<>> PROVE FALSE  BY <2>7, EmptySeq
    <3> QED  BY <1>4, <2>7, <2>8, <3>1, ConcatEmptySeq
  <2>10. Len(delivered') \in (Len(delivered) + 1)..Len(source)
    BY <2>7, <2>8, <2>9, ConcatProperties
  <2>11. delivered' = SubSeq(source, 1, Len(delivered'))
    BY <2>7, <2>8
  <2>12. Stream!Deliver  BY <1>1, <1>2, <2>1, <2>10, <2>11 DEF Stream!Deliver, source
  <2> QED  BY <2>12
<1> QED  BY <1>3, <1>4

\* Every step is one of the stream's, or changes nothing of it.
LEMMA StreamStep ==
  ASSUME StreamInv, [Next]_vars
  PROVE  [Stream!Next]_(Stream!vars)
<1> USE DEF StreamInv, agentVars, streamVars, shakeVars, linkVars
<1>1. CASE UNCHANGED <<agentNext, delivered, done>>
  BY <1>1 DEF Stream!vars
<1>2. ASSUME NEW g \in Generations, LoopStep(g) PROVE [Stream!Next]_(Stream!vars)
  <2>1. CASE ProcessData(g)  BY <2>1, ProcessDelivers DEF Stream!Next
  <2>2. CASE Advances(g) \/ UpdateExpectedSeqNum(g)
    BY <1>1, <2>2 DEF Advances, UpdateExpectedSeqNum
  <2> QED  BY <1>2, <2>1, <2>2, LoopAdvances
<1>3. CASE AgentSends
  BY <1>3, AgentPuts DEF Stream!Next
<1>4. CASE Close
  <2>1. Stream!Close  BY <1>4 DEF Close, Stream!Close
  <2> QED  BY <2>1 DEF Stream!Next
<1>5. CASE \/ (\E s \in Messages : AgentGetsAck(s)) \/ Disconnect \/ Resume \/ OpenGate
           \/ (\E g \in Generations, s \in Messages : Receive(g, s)) \/ UNCHANGED vars
  BY <1>1, <1>5 DEF AgentGetsAck, Disconnect, Resume, OpenGate, Receive, vars
<1> QED  BY <1>2, <1>3, <1>4, <1>5 DEF Next

\* The agent-to-SSH direction implements an ordered stream, also across resumes,
\* when the WebSocket fails during the handshake and when data overtakes
\* HandshakeComplete: what SSH reads is a prefix of what the agent sent, nothing
\* twice and nothing skipped (adapter.go:1264-1336).
THEOREM StreamRefined == Spec => StreamImplemented
<1>1. Init => Stream!Init
  <2>1. Init => Output(2, agentNext) = <<>>  BY OutputEmpty DEF Init
  <2> QED  BY <2>1 DEF Init, Stream!Init
<1>2. StreamInv /\ [Next]_vars => [Stream!Next]_(Stream!vars)  BY StreamStep
<1> QED  BY <1>1, <1>2, StreamInvariance, PTL DEF Spec, StreamImplemented, Stream!Spec
=============================================================================
