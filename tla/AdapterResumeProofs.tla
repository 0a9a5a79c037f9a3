------------------------ MODULE AdapterResumeProofs ------------------------
(***************************************************************************)
(* Proofs about AdapterResume for any number of writers, WebSocket         *)
(* generations, reconnectLoops and failures.                               *)
(***************************************************************************)
EXTENDS AdapterResume, FiniteSetTheorems, TLAPS

\* The generations loops are about to install are within the bound.
Swapping == {l \in Loops : loop[l] = "swap"}
GenerationsBounded == gen + Cardinality(Swapping) <= MaxGen

\* What a reconnectLoop holds: the generation it installed, or the gate it took.
LoopHolds == \A l \in Loops :
    /\ loop[l] = "spawn" => loopVal[l] \in Generations
    /\ loop[l] = "gate" => loopVal[l] \in 0..MaxLoops

Typed == TypeOK /\ GenerationsBounded /\ LoopHolds

\* a.reconnecting and a.reconnectGate change together, under one mutex.
GateWhileReconnecting == reconnecting <=> gate # 0

\* A gate that a reconnectLoop has taken to close is nobody else's.
TakenGates == \A l \in Loops :
    loop[l] = "gate" /\ loopVal[l] # 0 => gate # loopVal[l]

HeldGates == \A w \in Writers : writer[w] = "wait" => held[w] \in Loops

\* Before Close whoever replaces the WebSocket has set a.reconnecting.
ReplacingIsReconnecting == ~Done => \A l \in Loops : Active(l) => reconnecting

\* The inductive invariant.  That loops exclude each other needs a.reconnecting
\* to be set for as long as one is active; that a gate is never closed twice,
\* or left to nobody, needs the gates still to be closed told apart.
Gates == GateWhileReconnecting /\ GateUsable /\ TakenGates /\ HeldGates /\ WaitersHaveOpener
OneLoop == ReplacingIsReconnecting /\ OneReconnectLoop
IInv == Typed /\ Gates /\ OneLoop

-----------------------------------------------------------------------------
\* startReconnect's new gate is one that no goroutine still holds.
LEMMA NewLoopFacts ==
  ASSUME NewLoop
  PROVE  \E l \in FreeLoops :
            /\ reconnecting' = TRUE /\ gate' = l /\ gateClosed' = gateClosed \ {l}
            /\ loop' = [loop EXCEPT ![l] = "top"] /\ loopVal' = loopVal
<1> DEFINE l == CHOOSE l \in FreeLoops : TRUE
<1>1. l \in FreeLoops  BY DEF NewLoop
<1> QED  BY <1>1 DEF NewLoop

\* Unless the set of swapping loops changes, the bound on generations is kept.
LEMMA SwappingSame ==
  ASSUME GenerationsBounded, gen' = gen, Swapping' = Swapping
  PROVE  GenerationsBounded'
BY DEF GenerationsBounded

\* The loops are finitely many, and so are those that swap.
LEMMA SwappingFinite ==
  ASSUME TypeOK
  PROVE  IsFiniteSet(Swapping) /\ Cardinality(Swapping) \in Nat
<1>1. IsFiniteSet(Loops)  BY FS_Interval, BoundAssumption DEF Loops
<1> QED  BY <1>1, FS_Subset, FS_CardinalityType DEF Swapping

\* startReconnect keeps the types.
LEMMA StartTyped ==
  ASSUME Typed, StartReconnect
  PROVE  /\ reconnecting' \in BOOLEAN /\ gate' \in 0..MaxLoops /\ gateClosed' \subseteq Loops
         /\ loop' \in [Loops -> {"none", "top", "swap", "spawn", "closing", "defer",
                                 "gate", "done"}]
         /\ loopVal' \in [Loops -> Nat]
         /\ Swapping' = Swapping /\ LoopHolds'
<1>1. CASE UNCHANGED <<gateVars, loopVars>>
  BY <1>1 DEF Typed, TypeOK, gateVars, loopVars, Swapping, LoopHolds
<1>2. CASE NewLoop
  <2>1. PICK l \in FreeLoops :
            /\ reconnecting' = TRUE /\ gate' = l /\ gateClosed' = gateClosed \ {l}
            /\ loop' = [loop EXCEPT ![l] = "top"] /\ loopVal' = loopVal
    BY <1>2, NewLoopFacts
  <2>2. l \in Loops /\ loop[l] \in {"none", "done"}  BY DEF FreeLoops
  <2>3. l \in 0..MaxLoops  BY <2>2, BoundAssumption DEF Loops
  <2> QED  BY <2>1, <2>2, <2>3 DEF Typed, TypeOK, Swapping, LoopHolds
<1> QED  BY <1>1, <1>2 DEF StartReconnect

\* A gate is nil or has a reconnectLoop's name.
LEMMA GatesInUse ==
  ASSUME NEW v \in 0..MaxLoops
  PROVE  {v} \ {0} \subseteq Loops
BY BoundAssumption DEF Loops

\* Every step keeps the types, the generations within their bound.
LEMMA TypedStep ==
  ASSUME Typed, [Next]_vars
  PROVE  Typed'
<1> USE BoundAssumption DEF Typed, LoopPoints, WriterPoints, connVars, gateVars, loopVars,
        goVars, WriterAt, WriterOnly, LoopAt, StartClose, Done
<1> DEFINE LoopsSame == Swapping' = Swapping /\ LoopHolds'
<1>0. ASSUME UNCHANGED loopVars PROVE LoopsSame
  BY <1>0 DEF Swapping, LoopHolds
<1>1. ASSUME NEW g \in Generations, ReaderStep(g) \/ PingerStep(g) \/ ChannelClosed(g)
      PROVE  Typed'
  <2>1. CASE ReadStartsReconnect(g) \/ PingStartsReconnect(g)
    <3>1. StartReconnect  BY <2>1 DEF ReadStartsReconnect, PingStartsReconnect
    <3>2. TypeOK'
      BY <2>1, <3>1, StartTyped DEF TypeOK, ReadStartsReconnect, PingStartsReconnect
    <3> QED  BY <2>1, <3>1, <3>2, StartTyped, SwappingSame
          DEF ReadStartsReconnect, PingStartsReconnect
  <2>2. CASE ReadFails(g) \/ ReadFailure(g) \/ PingTick(g) \/ PingFailure(g) \/ ChannelClosed(g)
    <3>1. TypeOK'
      BY <2>2 DEF TypeOK, ReadFails, ReadFailure, PingTick, PingFailure, ChannelClosed
    <3>2. gen' = gen /\ UNCHANGED loopVars
      BY <2>2 DEF ReadFails, ReadFailure, PingTick, PingFailure, ChannelClosed
    <3> QED  BY <1>0, <3>1, <3>2, SwappingSame
  <2> QED  BY <1>1, <2>1, <2>2 DEF ReaderStep, PingerStep
<1>2. ASSUME NEW w \in Writers, Write(w) \/ WriterStep(w) PROVE Typed'
  <2>1. CASE WriteStartsReconnect(w)
    <3>1. StartReconnect  BY <2>1 DEF WriteStartsReconnect
    <3>2. TypeOK'
      BY <2>1, <3>1, StartTyped DEF TypeOK, WriteStartsReconnect
    <3> QED  BY <2>1, <3>1, <3>2, StartTyped, SwappingSame DEF WriteStartsReconnect
  <2>2. CASE \/ Write(w) \/ WaitUntilConnected(w) \/ GateOpens(w) \/ LockAndCheck(w)
             \/ WriteMessage(w) \/ WriteFailure(w)
    <3> USE DEF Write, WaitUntilConnected, GateOpens, LockAndCheck, WriteMessage, WriteFailure
    <3>0. Generations \subseteq Nat /\ 0..MaxGen \subseteq Nat /\ 0..MaxLoops \subseteq Nat
      BY DEF Generations
    <3>1. WriterOnly(w)  BY <2>2
    <3>2. /\ writer' \in [Writers -> WriterPoints] /\ held' \in [Writers -> Nat]
          /\ writeMu' \subseteq Writers
      BY <2>2, <3>0 DEF TypeOK
    <3>3. TypeOK'  BY <3>1, <3>2 DEF TypeOK
    <3> QED  BY <1>0, <3>1, <3>3, SwappingSame
  <2> QED  BY <1>2, <2>1, <2>2 DEF WriterStep
<1>3. ASSUME NEW l \in Loops, LoopStep(l) PROVE Typed'
  <2>0. IsFiniteSet(Swapping) /\ Cardinality(Swapping) \in Nat /\ gen \in Nat
    BY SwappingFinite DEF TypeOK, Generations
  <2>1. CASE Attempt(l)
    <3>1. TypeOK' /\ LoopHolds'  BY <2>1 DEF Attempt, TypeOK, LoopHolds
    <3>2. CASE loop'[l] = "swap"
      <4>1. Swapping' = Swapping \cup {l} /\ l \notin Swapping
        BY <2>1, <3>2 DEF Attempt, Swapping, TypeOK
      <4>2. gen + Cardinality(Swapping) < MaxGen /\ gen' = gen
        BY <2>1, <3>2 DEF Attempt, Swapping, TypeOK
      <4> QED  BY <2>0, <3>1, <4>1, <4>2, FS_AddElement DEF GenerationsBounded
    <3>3. CASE loop'[l] # "swap"
      <4>1. Swapping' = Swapping /\ gen' = gen
        BY <2>1, <3>3 DEF Attempt, Swapping, TypeOK
      <4> QED  BY <3>1, <4>1, SwappingSame
    <3> QED  BY <3>2, <3>3
  <2>2. CASE SwapConn(l)
    <3>1. Swapping' = Swapping \ {l} /\ l \in Swapping
      BY <2>2 DEF SwapConn, Swapping, TypeOK
    <3>2. Cardinality(Swapping') = Cardinality(Swapping) - 1 /\ Cardinality(Swapping') \in Nat
      BY <2>0, <3>1, FS_RemoveElement, FS_CardinalityType
    <3>3. gen + 1 \in Generations
      BY <2>0, <3>2 DEF GenerationsBounded, Generations
    <3>4. GenerationsBounded'
      BY <2>0, <2>2, <3>2 DEF GenerationsBounded, SwapConn
    <3>5. ws' \in [Generations -> {"none", "open", "broken", "closed"}]
      BY <2>2 DEF SwapConn, TypeOK
    <3>6. TypeOK' /\ LoopHolds'
      BY <2>2, <3>3, <3>5 DEF SwapConn, TypeOK, LoopHolds, Generations
    <3> QED  BY <3>4, <3>6
  <2>3. CASE SpawnLoops(l) \/ CloseReturned(l) \/ TakeGate(l) \/ OpenGate(l)
    <3> USE DEF SpawnLoops, CloseReturned, TakeGate, OpenGate
    <3>1. LoopsSame /\ gen' = gen  BY <2>3 DEF Swapping, LoopHolds, TypeOK
    <3>2. /\ loop' \in [Loops -> {"none", "top", "swap", "spawn", "closing", "defer",
                                  "gate", "done"}]
          /\ loopVal' \in [Loops -> Nat]
      <4>1. loopVal[l] \in Nat /\ gate \in Nat  BY DEF TypeOK
      <4> QED  BY <2>3, <4>1 DEF TypeOK
    <3>3. gateClosed' \subseteq Loops
      <4>1. CASE OpenGate(l)
        <5>1. {loopVal[l]} \ {0} \subseteq Loops
          BY <4>1, GatesInUse DEF LoopHolds
        <5>2. gateClosed' = gateClosed \cup ({loopVal[l]} \ {0})  BY <4>1
        <5> QED  BY <5>1, <5>2 DEF TypeOK
      <4> QED  BY <2>3, <4>1 DEF TypeOK
    <3>4. /\ reader' \in [Generations -> LoopPoints] /\ pinger' \in [Generations -> LoopPoints]
      BY <2>3 DEF TypeOK
    <3>7. gate' \in 0..MaxLoops /\ reconnecting' \in BOOLEAN
      <4>1. \/ gate' = gate /\ reconnecting' = reconnecting
            \/ gate' = 0 /\ reconnecting' = FALSE
        BY <2>3
      <4>2. 0 \in 0..MaxLoops  OBVIOUS
      <4> QED  BY <4>1, <4>2 DEF TypeOK
    <3>5. UNCHANGED <<connVars, writer, held, writeMu, closeStep, drops>>
      BY <2>3
    <3>6. TypeOK'  BY <3>2, <3>3, <3>4, <3>5, <3>7 DEF TypeOK
    <3> QED  BY <3>1, <3>6, SwappingSame
  <2> QED  BY <1>3, <2>1, <2>2, <2>3 DEF LoopStep
<1>4. CASE Break
  <2>1. gen' = gen /\ UNCHANGED loopVars  BY <1>4 DEF Break
  <2>2. /\ ws' \in [Generations -> {"none", "open", "broken", "closed"}]
        /\ drops' \in 0..MaxDrops
    <3>1. drops - 1 \in 0..MaxDrops  BY <1>4 DEF Break, TypeOK
    <3> QED  BY <1>4, <3>1 DEF Break, TypeOK
  <2>3. TypeOK'  BY <1>4, <2>2 DEF Break, TypeOK
  <2> QED  BY <1>0, <2>1, <2>3, SwappingSame
<1>5. CASE CallClose \/ CloseStep
  <2> USE DEF CallClose, CloseStep, CloseResetsReconnect, CloseDropsConn
  <2>1. gen' = gen /\ UNCHANGED loopVars  BY <1>5
  <2>2. gateClosed' \subseteq Loops /\ gate' \in 0..MaxLoops /\ reconnecting' \in BOOLEAN
    <3>1. {gate} \ {0} \subseteq Loops  BY GatesInUse DEF TypeOK
    <3>2. gateClosed' \subseteq Loops  BY <1>5, <3>1 DEF TypeOK
    <3>3. \/ gate' = gate /\ (reconnecting' = reconnecting \/ reconnecting' = FALSE)
          \/ gate' = 0 /\ reconnecting' = FALSE
      BY <1>5
    <3>4. 0 \in 0..MaxLoops  OBVIOUS
    <3> QED  BY <3>2, <3>3, <3>4 DEF TypeOK
  <2>3. /\ ws' \in [Generations -> {"none", "open", "broken", "closed"}]
        /\ conn' \in 0..MaxGen /\ closeStep' \in 0..3
    BY <1>5 DEF TypeOK
  <2>4. UNCHANGED <<gen, goVars, loopVars, drops>>  BY <1>5
  <2>5. TypeOK'  BY <2>2, <2>3, <2>4 DEF TypeOK
  <2> QED  BY <1>0, <2>1, <2>5, SwappingSame
<1>6. CASE UNCHANGED vars
  <2>1. TypeOK'  BY <1>6 DEF vars, TypeOK
  <2>2. gen' = gen /\ UNCHANGED loopVars  BY <1>6 DEF vars
  <2> QED  BY <1>0, <2>1, <2>2, SwappingSame
<1> QED  BY <1>1, <1>2, <1>3, <1>4, <1>5, <1>6 DEF Next

-----------------------------------------------------------------------------
\* No step opens a closed adapter (closeOnce).
LEMMA DoneStays ==
  ASSUME Typed, [Next]_vars, Done
  PROVE  Done'
<1> USE DEF Done, StartClose
<1>1. closeStep \in Nat  BY DEF Typed, TypeOK
<1>2. CASE CallClose \/ CloseStep
  BY <1>1, <1>2 DEF CallClose, CloseStep, CloseResetsReconnect, CloseDropsConn
<1>3. CASE \E g \in Generations : ReaderStep(g) \/ PingerStep(g) \/ ChannelClosed(g)
  BY <1>1, <1>3 DEF ReaderStep, PingerStep, ChannelClosed, ReadFails, ReadFailure, PingTick,
                    PingFailure, ReadStartsReconnect, PingStartsReconnect
<1>4. CASE \E w \in Writers : Write(w) \/ WriterStep(w)
  BY <1>1, <1>4 DEF WriterStep, Write, WaitUntilConnected, GateOpens, LockAndCheck,
                    WriteMessage, WriteFailure, WriteStartsReconnect, WriterOnly
<1>5. CASE \E l \in Loops : LoopStep(l)
  BY <1>1, <1>5 DEF LoopStep, Attempt, SwapConn, SpawnLoops, CloseReturned, TakeGate, OpenGate
<1>6. CASE Break \/ UNCHANGED vars
  BY <1>6 DEF Break, vars
<1> QED  BY <1>2, <1>3, <1>4, <1>5, <1>6 DEF Next

\* A step that touches neither gate nor loops keeps the invariant of the gates,
\* if no writer starts to wait.
LEMMA GatesSame ==
  ASSUME IInv, UNCHANGED <<gateVars, loopVars>>, Done => Done',
         \A w \in Writers : writer'[w] = "wait" => writer[w] = "wait" /\ held'[w] = held[w]
  PROVE  Gates'
<1>1. GateWhileReconnecting' /\ GateUsable' /\ TakenGates'
  BY DEF IInv, Gates, GateWhileReconnecting, GateUsable, TakenGates, gateVars, loopVars
<1>2. HeldGates'  BY DEF IInv, Gates, HeldGates
<1>3. WaitersHaveOpener'
  BY DEF IInv, Gates, WaitersHaveOpener, gateVars, loopVars
<1> QED  BY <1>1, <1>2, <1>3 DEF Gates

\* startReconnect's new gate leaves every waiter the opener it had: before
\* Close it makes one only when there is none.
LEMMA StartGates ==
  ASSUME IInv, StartReconnect, UNCHANGED closeStep,
         \A w \in Writers : writer'[w] = "wait" => writer[w] = "wait" /\ held'[w] = held[w]
  PROVE  Gates'
<1>1. CASE UNCHANGED <<gateVars, loopVars>>
  BY <1>1, GatesSame DEF Done
<1>2. CASE NewLoop /\ ~reconnecting
  <2>1. PICK l \in FreeLoops :
            /\ reconnecting' = TRUE /\ gate' = l /\ gateClosed' = gateClosed \ {l}
            /\ loop' = [loop EXCEPT ![l] = "top"] /\ loopVal' = loopVal
    BY <1>2, NewLoopFacts
  <2>2. /\ l \in Loops /\ l # 0 /\ loop[l] \in {"none", "done"}
        /\ \A w \in Writers : ~(writer[w] = "wait" /\ held[w] = l)
        /\ \A k \in Loops : ~(loop[k] = "gate" /\ loopVal[k] = l)
    BY DEF FreeLoops, Loops
  <2>3. loop \in [Loops -> {"none", "top", "swap", "spawn", "closing", "defer", "gate", "done"}]
    BY DEF IInv, Typed, TypeOK
  <2>4. GateWhileReconnecting' /\ GateUsable'
    BY <2>1, <2>2 DEF GateWhileReconnecting, GateUsable
  <2>5. TakenGates'
    BY <2>1, <2>2, <2>3 DEF TakenGates
  <2>6. HeldGates'  BY DEF IInv, Gates, HeldGates
  <2>7. WaitersHaveOpener'
    <3> SUFFICES ASSUME NEW w \in Writers, writer'[w] = "wait", held'[w] \notin gateClosed',
                        ~Done'
                 PROVE  \E k \in Loops : loop'[k] = "gate" /\ loopVal'[k] = held'[w]
      BY DEF WaitersHaveOpener
    <3>1. writer[w] = "wait" /\ held'[w] = held[w] /\ held[w] # l
      BY <2>2
    <3>2. held[w] \notin gateClosed /\ ~Done  BY <2>1, <3>1 DEF Done
    <3>3. held[w] # 0 /\ gate = 0
      BY <1>2, <3>1 DEF IInv, Gates, HeldGates, GateWhileReconnecting, Loops
    <3>4. PICK k \in Loops : loop[k] = "gate" /\ loopVal[k] = held[w]
      BY <3>1, <3>2, <3>3 DEF IInv, Gates, WaitersHaveOpener
    <3> QED  BY <2>1, <2>2, <2>3, <3>1, <3>4
  <2> QED  BY <2>4, <2>5, <2>6, <2>7 DEF Gates
<1> QED  BY <1>1, <1>2 DEF StartReconnect

\* startReconnect starts a loop only when none replaces the WebSocket.
LEMMA StartOneLoop ==
  ASSUME IInv, StartReconnect, UNCHANGED closeStep
  PROVE  OneLoop'
<1>1. CASE reconnecting /\ UNCHANGED <<gateVars, loopVars>>
  BY <1>1 DEF IInv, OneLoop, ReplacingIsReconnecting, OneReconnectLoop, Active, Done, gateVars,
              loopVars
<1>2. CASE NewLoop /\ ~reconnecting
  <2>1. PICK l \in FreeLoops :
            /\ reconnecting' = TRUE /\ gate' = l /\ gateClosed' = gateClosed \ {l}
            /\ loop' = [loop EXCEPT ![l] = "top"] /\ loopVal' = loopVal
    BY <1>2, NewLoopFacts
  <2>2. loop \in [Loops -> {"none", "top", "swap", "spawn", "closing", "defer", "gate", "done"}]
    BY DEF IInv, Typed, TypeOK
  <2>3. ~Done => \A k \in Loops : ~Active(k)
    BY <1>2 DEF IInv, OneLoop, ReplacingIsReconnecting
  <2>4. \A k \in Loops : k # l => loop'[k] = loop[k]
    BY <2>1, <2>2
  <2>5. ~Done => \A k \in Loops : k # l => ~Active(k)'
    BY <2>3, <2>4 DEF Active
  <2> QED  BY <2>1, <2>5 DEF OneLoop, ReplacingIsReconnecting, OneReconnectLoop, Done
<1> QED  BY <1>1, <1>2 DEF StartReconnect

\* A step that leaves gates and loops alone leaves them exclusive.
LEMMA OneLoopSame ==
  ASSUME IInv, UNCHANGED <<gateVars, loopVars>>, Done => Done'
  PROVE  OneLoop'
BY DEF IInv, OneLoop, ReplacingIsReconnecting, OneReconnectLoop, Active, gateVars, loopVars

\* Every step keeps what is known of the gates and of the loops.
LEMMA ResumeStep ==
  ASSUME IInv, [Next]_vars
  PROVE  Gates' /\ OneLoop'
<1>0. Typed /\ (Done => Done')  BY DoneStays DEF IInv
<1>1. ASSUME NEW g \in Generations, ReaderStep(g) \/ PingerStep(g) \/ ChannelClosed(g)
      PROVE  Gates' /\ OneLoop'
  <2>1. CASE ReadStartsReconnect(g) \/ PingStartsReconnect(g)
    <3>1. StartReconnect /\ UNCHANGED <<closeStep, writer, held>>
      BY <2>1 DEF ReadStartsReconnect, PingStartsReconnect
    <3> QED  BY <3>1, StartGates, StartOneLoop
  <2>2. CASE ReadFails(g) \/ ReadFailure(g) \/ PingTick(g) \/ PingFailure(g) \/ ChannelClosed(g)
    <3>1. UNCHANGED <<gateVars, loopVars, writer, held>>
      BY <2>2 DEF ReadFails, ReadFailure, PingTick, PingFailure, ChannelClosed
    <3> QED  BY <1>0, <3>1, GatesSame, OneLoopSame
  <2> QED  BY <1>1, <2>1, <2>2 DEF ReaderStep, PingerStep
<1>2. ASSUME NEW w \in Writers, Write(w) \/ WriterStep(w) PROVE Gates' /\ OneLoop'
  <2>0. writer \in [Writers -> WriterPoints] /\ held \in [Writers -> Nat]
    BY <1>0 DEF Typed, TypeOK
  <2>1. CASE WriteStartsReconnect(w)
    <3>1. StartReconnect /\ UNCHANGED closeStep
      BY <2>1 DEF WriteStartsReconnect
    <3>2. \A v \in Writers : writer'[v] = "wait" => writer[v] = "wait" /\ held'[v] = held[v]
      BY <2>0, <2>1 DEF WriteStartsReconnect, WriterAt
    <3> QED  BY <3>1, <3>2, StartGates, StartOneLoop
  <2>2. CASE WaitUntilConnected(w) /\ ~Done /\ reconnecting /\ WriterAt(w, "wait", gate)
    <3>1. UNCHANGED <<gateVars, loopVars>>
      BY <2>2 DEF WaitUntilConnected, WriterOnly
    <3>2. GateWhileReconnecting' /\ GateUsable' /\ TakenGates' /\ OneLoop'
      BY <1>0, <3>1, OneLoopSame DEF IInv, Gates, GateWhileReconnecting, GateUsable, TakenGates,
         gateVars, loopVars
    <3>3. gate \in Loops
      BY <1>0, <2>2, BoundAssumption
         DEF Typed, TypeOK, IInv, Gates, GateWhileReconnecting, Loops
    <3>4. HeldGates'
      BY <2>0, <2>2, <3>3 DEF WriterAt, IInv, Gates, HeldGates
    <3>5. WaitersHaveOpener'
      BY <1>0, <2>0, <2>2, <3>1 DEF WriterAt, IInv, Gates, WaitersHaveOpener, gateVars, loopVars
    <3> QED  BY <3>2, <3>4, <3>5 DEF Gates
  <2>3. CASE /\ UNCHANGED <<gateVars, loopVars>>
             /\ \E q \in WriterPoints \ {"wait"}, h \in Generations \cup {0} : WriterAt(w, q, h)
    <3>1. \A v \in Writers : writer'[v] = "wait" => writer[v] = "wait" /\ held'[v] = held[v]
      BY <2>0, <2>3 DEF WriterAt
    <3> QED  BY <1>0, <2>3, <3>1, GatesSame, OneLoopSame
  <2>4. conn \in Generations \cup {0}
    BY <1>0, BoundAssumption DEF Typed, TypeOK, Generations
  <2>5. CASE \/ Write(w) \/ WaitUntilConnected(w) \/ GateOpens(w) \/ LockAndCheck(w)
             \/ WriteMessage(w) \/ WriteFailure(w)
    BY <2>2, <2>3, <2>4, <2>5 DEF Write, WaitUntilConnected, GateOpens, LockAndCheck,
       WriteMessage, WriteFailure, WriterOnly, WriterPoints
  <2> QED  BY <1>2, <2>1, <2>5 DEF WriterStep
<1>3. ASSUME NEW l \in Loops, LoopStep(l) PROVE Gates' /\ OneLoop'
  <2>0. /\ loop \in [Loops -> {"none", "top", "swap", "spawn", "closing", "defer", "gate", "done"}]
        /\ loopVal \in [Loops -> Nat] /\ gate \in Nat
    BY <1>0 DEF Typed, TypeOK
  <2>1. CASE TakeGate(l)
    <3> USE DEF TakeGate, LoopAt
    <3>1. GateWhileReconnecting' /\ GateUsable' /\ HeldGates' /\ TakenGates'
      BY <2>0, <2>1 DEF IInv, Gates, GateWhileReconnecting, GateUsable, HeldGates, TakenGates,
         goVars
    <3>2. WaitersHaveOpener'
      BY <2>0, <2>1 DEF IInv, Gates, WaitersHaveOpener, goVars, Done
    <3>3. OneLoop'
      BY <2>0, <2>1 DEF IInv, OneLoop, ReplacingIsReconnecting, OneReconnectLoop, Active, Done
    <3> QED  BY <3>1, <3>2, <3>3 DEF Gates
  <2>2. CASE OpenGate(l)
    <3> USE DEF OpenGate, LoopAt
    <3>1. GateWhileReconnecting' /\ GateUsable' /\ HeldGates' /\ TakenGates'
      BY <2>0, <2>2 DEF IInv, Gates, GateWhileReconnecting, GateUsable, HeldGates, TakenGates,
         goVars
    <3>2. WaitersHaveOpener'
      BY <2>0, <2>2 DEF IInv, Gates, WaitersHaveOpener, HeldGates, Loops, goVars, Done
    <3>3. OneLoop'
      BY <2>0, <2>2 DEF IInv, OneLoop, ReplacingIsReconnecting, OneReconnectLoop, Active, Done
    <3> QED  BY <3>1, <3>2, <3>3 DEF Gates
  <2>3. CASE Attempt(l) \/ SwapConn(l) \/ SpawnLoops(l) \/ CloseReturned(l)
    <3> USE DEF Attempt, SwapConn, SpawnLoops, CloseReturned, LoopAt
    <3>1. UNCHANGED <<gateVars, writer, held>>  BY <2>3 DEF goVars
    <3>2. /\ \A k \in Loops : k # l => loop'[k] = loop[k] /\ loopVal'[k] = loopVal[k]
          /\ loop[l] # "gate" /\ loop'[l] # "gate" /\ Active(l)
      BY <2>0, <2>3 DEF Active
    <3>3. GateWhileReconnecting' /\ GateUsable' /\ HeldGates'
      BY <3>1 DEF IInv, Gates, GateWhileReconnecting, GateUsable, HeldGates, gateVars
    <3>4. TakenGates'  BY <3>1, <3>2 DEF IInv, Gates, TakenGates, gateVars
    <3>5. WaitersHaveOpener'
      BY <1>0, <3>1, <3>2 DEF IInv, Gates, WaitersHaveOpener, gateVars
    <3>6. OneLoop'
      BY <1>0, <3>1, <3>2 DEF IInv, OneLoop, ReplacingIsReconnecting, OneReconnectLoop, Active,
         gateVars
    <3> QED  BY <3>3, <3>4, <3>5, <3>6 DEF Gates
  <2> QED  BY <1>3, <2>1, <2>2, <2>3 DEF LoopStep
<1>4. CASE CloseResetsReconnect
  <2>1. closeStep' = 2 /\ reconnecting' = FALSE /\ gate' = 0 /\ UNCHANGED <<loopVars, writer, held>>
    BY <1>4 DEF CloseResetsReconnect, goVars, IInv, Gates, GateWhileReconnecting
  <2>2. GateWhileReconnecting' /\ GateUsable' /\ HeldGates' /\ TakenGates'
    BY <2>1 DEF IInv, Gates, GateWhileReconnecting, GateUsable, HeldGates, TakenGates, loopVars
  <2>3. WaitersHaveOpener' /\ OneLoop'
    BY <2>1 DEF WaitersHaveOpener, OneLoop, ReplacingIsReconnecting, OneReconnectLoop, Done
  <2> QED  BY <2>2, <2>3 DEF Gates
<1>5. CASE Break \/ CallClose \/ CloseDropsConn \/ UNCHANGED vars
  <2>1. UNCHANGED <<gateVars, loopVars, writer, held>>
    BY <1>5 DEF Break, CallClose, CloseDropsConn, vars, goVars
  <2> QED  BY <1>0, <2>1, GatesSame, OneLoopSame
<1> QED  BY <1>1, <1>2, <1>3, <1>4, <1>5 DEF Next, CloseStep

-----------------------------------------------------------------------------
\* A new adapter has a working WebSocket, no gate and no reconnectLoop.
LEMMA InitIInv == Init => IInv
<1> SUFFICES ASSUME Init PROVE IInv  OBVIOUS
<1> USE BoundAssumption DEF Init
<1>1. Swapping = {}  BY DEF Swapping
<1>2. 1 \in Generations /\ MaxGen \in Nat /\ 1 <= MaxGen  BY DEF Generations
<1>3. GenerationsBounded  BY <1>1, <1>2, FS_EmptySet DEF GenerationsBounded
<1>4. TypeOK
  <2>1. /\ conn \in 0..MaxGen /\ gen \in Generations /\ gate \in 0..MaxLoops
        /\ closeStep \in 0..3 /\ drops \in 0..MaxDrops
    BY <1>2
  <2>2. /\ ws \in [Generations -> {"none", "open", "broken", "closed"}]
        /\ reader \in [Generations -> LoopPoints] /\ pinger \in [Generations -> LoopPoints]
    BY DEF LoopPoints
  <2>3. /\ loop \in [Loops -> {"none", "top", "swap", "spawn", "closing", "defer", "gate", "done"}]
        /\ loopVal \in [Loops -> Nat]
        /\ writer \in [Writers -> WriterPoints] /\ held \in [Writers -> Nat]
    BY DEF WriterPoints
  <2> QED  BY <2>1, <2>2, <2>3 DEF TypeOK
<1>5. LoopHolds  BY DEF LoopHolds
<1>6. Gates
  BY DEF Gates, GateWhileReconnecting, GateUsable, TakenGates, HeldGates, WaitersHaveOpener
<1>7. OneLoop  BY DEF OneLoop, ReplacingIsReconnecting, OneReconnectLoop, Active
<1> QED  BY <1>3, <1>4, <1>5, <1>6, <1>7 DEF IInv, Typed

\* The inductive invariant holds in every behaviour.
THEOREM ResumeInvariance == Spec => []IInv
<1>1. IInv /\ [Next]_vars => IInv'  BY TypedStep, ResumeStep DEF IInv
<1> QED  BY <1>1, InitIInv, PTL DEF Spec

\* Every variable keeps its type; the WebSocket's generation stays one that
\* was handed out, however many loops run after Close (adapter.go:132-209).
THEOREM ResumeTypes == Spec => []TypeOK
<1>1. IInv => TypeOK  BY DEF IInv, Typed
<1> QED  BY <1>1, ResumeInvariance, PTL

\* While the adapter reconnects its gate is there and shut, whoever of Close
\* and reconnectLoop's deferred function comes first
\* (adapter.go:1049, adapter_resume.go:214-228).
THEOREM GateAlwaysUsable == Spec => []GateUsable
<1>1. IInv => GateUsable  BY DEF IInv, Gates
<1> QED  BY <1>1, ResumeInvariance, PTL

\* Before Close no two reconnectLoops replace the WebSocket, however many
\* goroutines report its failure and however late (adapter_resume.go:200-207).
THEOREM LoopsExclusive == Spec => []OneReconnectLoop
<1>1. IInv => OneReconnectLoop  BY DEF IInv, OneLoop
<1> QED  BY <1>1, ResumeInvariance, PTL

\* A writer never waits on a gate that nobody is left to open
\* (adapter_resume.go:214-228, adapter.go:1044-1071).
THEOREM NoWaiterForgotten == Spec => []WaitersHaveOpener
<1>1. IInv => WaitersHaveOpener  BY DEF IInv, Gates
<1> QED  BY <1>1, ResumeInvariance, PTL
=============================================================================
