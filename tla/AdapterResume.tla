---------------------------- MODULE AdapterResume ----------------------------
(***************************************************************************)
(* The life of an SSM adapter's WebSocket (internal/protocol/adapter.go    *)
(* and adapter_resume.go): read and ping loops bound to a generation,      *)
(* writers, startReconnect and reconnectLoop, the gate writers wait on,    *)
(* and Close.                                                              *)
(*                                                                         *)
(* WebSocket g is the one of generation g.  Every read of a flag and every *)
(* critical section is a step, so that what was read may be stale when it  *)
(* is used.  Resume is enabled (WithResume, as the pool always does).      *)
(***************************************************************************)
EXTENDS Integers, FiniteSets

CONSTANTS
    Writers,    \* goroutines inside writeRaw: Write callers, the resend loop
    MaxGen,     \* bound: WebSocket generations
    MaxLoops,   \* bound: reconnectLoops at a time
    MaxDrops    \* bound: spontaneous WebSocket failures

ASSUME BoundAssumption ==
    MaxGen \in Nat \ {0} /\ MaxLoops \in Nat \ {0} /\ MaxDrops \in Nat

Generations == 1..MaxGen
Loops == 1..MaxLoops    \* reconnectLoop goroutines, numbered by their gates

VARIABLES
    ws,             \* state of each WebSocket: none, open, broken, closed
    conn,           \* a.conn: a generation, 0 for nil
    gen,            \* a.connGen
    reconnecting,   \* a.reconnecting
    gate,           \* a.reconnectGate, 0 for nil
    gateClosed,     \* the gates that have been closed
    loop, loopVal,  \* control point of each, and the generation or gate it holds
    reader, pinger, \* control points of the loops of each generation
    writer, held,   \* control point of each writer, the WebSocket or gate it holds
    writeMu,        \* the writers holding a.writeMu
    closeStep,      \* 0 open, 1 done closed, 2 reconnect reset, 3 conn nil
    drops           \* failures left

connVars == <<ws, conn, gen>>
gateVars == <<reconnecting, gate, gateClosed>>
loopVars == <<loop, loopVal>>
goVars == <<reader, pinger, writer, held, writeMu>>
vars == <<connVars, gateVars, loopVars, goVars, closeStep, drops>>

Init ==
    /\ ws = [g \in Generations |-> IF g = 1 THEN "open" ELSE "none"]
    /\ conn = 1 /\ gen = 1
    /\ reconnecting = FALSE /\ gate = 0 /\ gateClosed = {}
    /\ loop = [l \in Loops |-> "none"] /\ loopVal = [l \in Loops |-> 0]
    /\ reader = [g \in Generations |-> IF g = 1 THEN "run" ELSE "none"]
    /\ pinger = [g \in Generations |-> IF g = 1 THEN "run" ELSE "none"]
    /\ writer = [w \in Writers |-> "idle"] /\ held = [w \in Writers |-> 0]
    /\ writeMu = {}
    /\ closeStep = 0 /\ drops = MaxDrops

Done == closeStep >= 1
Active(l) == loop[l] \in {"top", "swap", "spawn", "closing", "defer"}

-----------------------------------------------------------------------------
(***************************************************************************)
(* handleTransportFailure and startReconnect: a check of done, then the    *)
(* critical section.  A WebSocket may fail, or break, at any time.         *)
(***************************************************************************)
\* A goroutine and a gate not in use: the names of finished ones are used again.
FreeLoops == {l \in Loops : /\ loop[l] \in {"none", "done"} /\ gate # l
                            /\ \A w \in Writers : ~(writer[w] = "wait" /\ held[w] = l)
                            /\ \A k \in Loops : ~(loop[k] = "gate" /\ loopVal[k] = l)}

NewLoop ==
    LET l == CHOOSE l \in FreeLoops : TRUE IN
    /\ FreeLoops # {}
    /\ reconnecting' = TRUE /\ gate' = l /\ gateClosed' = gateClosed \ {l}
    /\ loop' = [loop EXCEPT ![l] = "top"]
    /\ UNCHANGED loopVal

\* Mutant: a reconnectLoop for every failure reported.
StartAlways == NewLoop

StartReconnect ==
    \/ reconnecting /\ UNCHANGED <<gateVars, loopVars>>
    \/ ~reconnecting /\ NewLoop

\* The network, or ForceCloseTransport.
Break ==
    /\ drops > 0 /\ conn # 0 /\ ws[conn] = "open"
    /\ ws' = [ws EXCEPT ![conn] = "broken"]
    /\ drops' = drops - 1
    /\ UNCHANGED <<conn, gen, gateVars, loopVars, goVars, closeStep>>

(***************************************************************************)
(* readLoopForGen: a read error of a generation that is still current is   *)
(* reported; a loop whose generation is stale ends.                        *)
(***************************************************************************)
ReadFails(g) ==
    /\ reader[g] = "run" /\ (ws[g] # "open" \/ gen # g)
    /\ reader' = [reader EXCEPT ![g] = IF gen = g THEN "failed" ELSE "exited"]
    /\ UNCHANGED <<connVars, gateVars, loopVars, pinger, writer, held, writeMu,
                   closeStep, drops>>

ReadFailure(g) ==
    /\ reader[g] = "failed"
    /\ reader' = [reader EXCEPT ![g] = IF Done THEN "exited" ELSE "start"]
    /\ UNCHANGED <<connVars, gateVars, loopVars, pinger, writer, held, writeMu,
                   closeStep, drops>>

ReadStartsReconnect(g) ==
    /\ reader[g] = "start"
    /\ reader' = [reader EXCEPT ![g] = "exited"]
    /\ StartReconnect
    /\ UNCHANGED <<connVars, pinger, writer, held, writeMu, closeStep, drops>>

(***************************************************************************)
(* pingLoopForGen.  Ticks are PingInterval apart: none falls between the   *)
(* start of the loop and the end of the reconnectLoop that started it.     *)
(***************************************************************************)
PingTick(g) ==
    /\ pinger[g] = "run" /\ \A l \in Loops : ~(loop[l] = "defer" /\ loopVal[l] = g)
    /\ Done \/ gen # g \/ (ws[g] # "open" /\ writeMu = {})
    /\ pinger' = [pinger EXCEPT ![g] = IF Done \/ gen # g THEN "exited" ELSE "failed"]
    /\ UNCHANGED <<connVars, gateVars, loopVars, reader, writer, held, writeMu,
                   closeStep, drops>>

\* Mutant: the ping loop leaves reporting to the read loop.
PingGivesUp(g) ==
    /\ pinger[g] = "failed"
    /\ pinger' = [pinger EXCEPT ![g] = "exited"]
    /\ UNCHANGED <<connVars, gateVars, loopVars, reader, writer, held, writeMu,
                   closeStep, drops>>

PingFailure(g) ==
    /\ pinger[g] = "failed"
    /\ pinger' = [pinger EXCEPT ![g] = IF Done THEN "exited" ELSE "start"]
    /\ UNCHANGED <<connVars, gateVars, loopVars, reader, writer, held, writeMu,
                   closeStep, drops>>

PingStartsReconnect(g) ==
    /\ pinger[g] = "start"
    /\ pinger' = [pinger EXCEPT ![g] = "exited"]
    /\ StartReconnect
    /\ UNCHANGED <<connVars, reader, writer, held, writeMu, closeStep, drops>>

(***************************************************************************)
(* writeRaw and waitUntilConnected                                         *)
(***************************************************************************)
WriterAt(w, q, h) ==
    /\ writer' = [writer EXCEPT ![w] = q]
    /\ held' = [held EXCEPT ![w] = h]

WriterOnly(w) == UNCHANGED <<connVars, gateVars, loopVars, reader, pinger,
                             closeStep, drops>>

Write(w) ==
    /\ writer[w] = "idle" /\ ~Done
    /\ WriterAt(w, "connect", 0) /\ UNCHANGED writeMu /\ WriterOnly(w)

WaitUntilConnected(w) ==
    /\ writer[w] = "connect"
    /\ \/ Done /\ WriterAt(w, "idle", 0)
       \/ ~Done /\ reconnecting /\ WriterAt(w, "wait", gate)
       \/ ~Done /\ ~reconnecting /\ WriterAt(w, "lock", 0)
    /\ UNCHANGED writeMu /\ WriterOnly(w)

GateOpens(w) ==
    /\ writer[w] = "wait" /\ (held[w] \in gateClosed \/ Done)
    /\ WriterAt(w, "connect", 0) /\ UNCHANGED writeMu /\ WriterOnly(w)

LockAndCheck(w) ==
    /\ writer[w] = "lock" /\ writeMu = {}
    /\ \/ reconnecting /\ WriterAt(w, "connect", 0) /\ UNCHANGED writeMu
       \/ ~reconnecting /\ conn = 0 /\ WriterAt(w, "idle", 0) /\ UNCHANGED writeMu
       \/ /\ ~reconnecting /\ conn # 0 /\ WriterAt(w, "write", conn)
          /\ writeMu' = {w}
    /\ WriterOnly(w)

WriteMessage(w) ==
    /\ writer[w] = "write"
    /\ WriterAt(w, IF ws[held[w]] = "open" THEN "idle" ELSE "failed", 0)
    /\ writeMu' = {} /\ WriterOnly(w)

WriteFailure(w) ==
    /\ writer[w] = "failed"
    /\ WriterAt(w, IF Done THEN "idle" ELSE "start", 0)
    /\ UNCHANGED writeMu /\ WriterOnly(w)

WriteStartsReconnect(w) ==
    /\ writer[w] = "start" /\ WriterAt(w, "connect", 0)
    /\ StartReconnect
    /\ UNCHANGED <<connVars, reader, pinger, writeMu, closeStep, drops>>

(***************************************************************************)
(* reconnectLoop                                                           *)
(***************************************************************************)
LoopAt(l, q, v) ==
    /\ loop' = [loop EXCEPT ![l] = q]
    /\ loopVal' = [loopVal EXCEPT ![l] = v]

\* Mutant: no closeOnce.
StartCloseAgain == closeStep' = closeStep + 1

StartClose == closeStep' = IF Done THEN closeStep ELSE 1

\* A round of attempts: done seen at the top of the loop, a new WebSocket, or
\* no more time; the backoff reports done like an expired budget.
Attempt(l) ==
    /\ loop[l] = "top"
    /\ \/ Done /\ LoopAt(l, "defer", 0) /\ UNCHANGED closeStep
       \/ /\ gen + Cardinality({k \in Loops : loop[k] = "swap"}) < MaxGen
          /\ LoopAt(l, "swap", 0) /\ UNCHANGED closeStep
       \/ StartClose /\ LoopAt(l, "closing", 0)
    /\ UNCHANGED <<connVars, gateVars, goVars, drops>>

SwapConn(l) ==
    /\ loop[l] = "swap"
    /\ ws' = [g \in Generations |-> CASE g = gen + 1 -> "open"
                                     [] g = conn -> "closed"
                                     [] OTHER -> ws[g]]
    /\ gen' = gen + 1 /\ conn' = gen + 1
    /\ LoopAt(l, "spawn", gen + 1)
    /\ UNCHANGED <<gateVars, goVars, closeStep, drops>>

SpawnLoops(l) ==
    /\ loop[l] = "spawn"
    /\ reader' = [reader EXCEPT ![loopVal[l]] = "run"]
    /\ pinger' = [pinger EXCEPT ![loopVal[l]] = "run"]
    /\ LoopAt(l, "defer", loopVal[l])
    /\ UNCHANGED <<connVars, gateVars, writer, held, writeMu, closeStep, drops>>

CloseReturned(l) ==
    /\ loop[l] = "closing" /\ closeStep = 3
    /\ LoopAt(l, "defer", 0)
    /\ UNCHANGED <<connVars, gateVars, goVars, closeStep, drops>>

\* Mutant: the gate is read after it was set to nil.
TakeNoGate(l) ==
    /\ loop[l] = "defer"
    /\ reconnecting' = FALSE /\ gate' = 0
    /\ LoopAt(l, "gate", 0)
    /\ UNCHANGED <<connVars, gateClosed, goVars, closeStep, drops>>

\* The deferred function: its critical section, then closing the gate.
TakeGate(l) ==
    /\ loop[l] = "defer"
    /\ reconnecting' = FALSE /\ gate' = 0
    /\ LoopAt(l, "gate", gate)
    /\ UNCHANGED <<connVars, gateClosed, goVars, closeStep, drops>>

\* Mutant: the gate is never closed.
LeaveGate(l) ==
    /\ loop[l] = "gate"
    /\ LoopAt(l, "done", 0)
    /\ UNCHANGED <<connVars, gateVars, goVars, closeStep, drops>>

OpenGate(l) ==
    /\ loop[l] = "gate"
    /\ gateClosed' = gateClosed \cup ({loopVal[l]} \ {0})
    /\ LoopAt(l, "done", 0)
    /\ UNCHANGED <<connVars, reconnecting, gate, goVars, closeStep, drops>>

(***************************************************************************)
(* Close: by the owner, by channel_closed, by an exhausted budget.         *)
(***************************************************************************)
CallClose ==
    /\ ~Done /\ StartClose
    /\ UNCHANGED <<connVars, gateVars, loopVars, goVars, drops>>

ChannelClosed(g) ==
    /\ reader[g] = "run" /\ gen = g /\ ws[g] = "open"
    /\ StartClose
    /\ reader' = [reader EXCEPT ![g] = "exited"]
    /\ UNCHANGED <<connVars, gateVars, loopVars, pinger, writer, held, writeMu, drops>>

\* Mutant: Close opens the gate but stays reconnecting.
CloseKeepsReconnecting ==
    /\ closeStep = 1 /\ closeStep' = 2
    /\ gateClosed' = IF reconnecting THEN gateClosed \cup ({gate} \ {0}) ELSE gateClosed
    /\ UNCHANGED <<reconnecting, gate, connVars, loopVars, goVars, drops>>

CloseResetsReconnect ==
    /\ closeStep = 1 /\ closeStep' = 2
    /\ reconnecting' = FALSE
    /\ IF reconnecting
       THEN gate' = 0 /\ gateClosed' = gateClosed \cup ({gate} \ {0})
       ELSE UNCHANGED <<gate, gateClosed>>
    /\ UNCHANGED <<connVars, loopVars, goVars, drops>>

CloseDropsConn ==
    /\ closeStep = 2 /\ closeStep' = 3
    /\ conn' = 0
    /\ ws' = [g \in Generations |-> IF g = conn THEN "closed" ELSE ws[g]]
    /\ UNCHANGED <<gen, gateVars, loopVars, goVars, drops>>

-----------------------------------------------------------------------------
ReaderStep(g) == ReadFails(g) \/ ReadFailure(g) \/ ReadStartsReconnect(g)
PingerStep(g) == PingTick(g) \/ PingFailure(g) \/ PingStartsReconnect(g)
WriterStep(w) ==
    \/ WaitUntilConnected(w) \/ GateOpens(w) \/ LockAndCheck(w) \/ WriteMessage(w)
    \/ WriteFailure(w) \/ WriteStartsReconnect(w)
LoopStep(l) == Attempt(l) \/ SwapConn(l) \/ SpawnLoops(l) \/ CloseReturned(l)
               \/ TakeGate(l) \/ OpenGate(l)
CloseStep == CloseResetsReconnect \/ CloseDropsConn

Next ==
    \/ \E g \in Generations : ReaderStep(g) \/ PingerStep(g) \/ ChannelClosed(g)
    \/ \E w \in Writers : Write(w) \/ WriterStep(w)
    \/ \E l \in Loops : LoopStep(l)
    \/ Break \/ CallClose \/ CloseStep

Spec == Init /\ [][Next]_vars

\* Goroutines run, reads on a failed WebSocket return, pings tick, and the
\* resume budget ends every reconnectLoop.
Fairness ==
    /\ \A g \in Generations : WF_vars(ReaderStep(g)) /\ WF_vars(PingerStep(g))
    /\ \A w \in Writers : WF_vars(WriterStep(w))
    /\ \A l \in Loops : WF_vars(LoopStep(l))
    /\ WF_vars(CloseStep)

LiveSpec == Spec /\ Fairness

-----------------------------------------------------------------------------
LoopPoints == {"none", "run", "failed", "start", "exited"}
WriterPoints == {"idle", "connect", "wait", "lock", "write", "failed", "start"}

\* Every variable keeps its type: adapter.go:132-209.
TypeOK ==
    /\ ws \in [Generations -> {"none", "open", "broken", "closed"}]
    /\ conn \in 0..MaxGen /\ gen \in Generations
    /\ reconnecting \in BOOLEAN /\ gate \in 0..MaxLoops
    /\ gateClosed \subseteq Loops
    /\ loop \in [Loops -> {"none", "top", "swap", "spawn", "closing", "defer",
                           "gate", "done"}]
    /\ loopVal \in [Loops -> Nat]
    /\ reader \in [Generations -> LoopPoints] /\ pinger \in [Generations -> LoopPoints]
    /\ writer \in [Writers -> WriterPoints] /\ held \in [Writers -> Nat]
    /\ writeMu \subseteq Writers /\ closeStep \in 0..3 /\ drops \in 0..MaxDrops

\* While the adapter reconnects there is a gate to wait on and it is shut:
\* no writer spins, and nobody closes a closed channel (adapter.go:1049,
\* adapter_resume.go:214-228).
GateUsable == reconnecting => gate # 0 /\ gate \notin gateClosed

\* Before Close at most one reconnectLoop replaces the WebSocket
\* (adapter_resume.go:200-207).
OneReconnectLoop ==
    ~Done => \A k, l \in Loops : Active(k) /\ Active(l) => k = l

\* A writer never waits on a gate that nobody is left to open.
WaitersHaveOpener ==
    \A w \in Writers : writer[w] = "wait" /\ held[w] \notin gateClosed =>
        Done \/ gate = held[w] \/ \E l \in Loops : loop[l] = "gate" /\ loopVal[l] = held[w]

\* A broken WebSocket is replaced or the adapter closes, even if the read loop
\* reported the failure while a reconnectLoop was just finishing.
FailureHandled == \A g \in Generations :
    (ws[g] = "broken") ~> (ws[g] = "closed" \/ Done)

\* writeRaw comes back: with the frame written, or with the adapter closed.
WritersReturn == \A w \in Writers : (writer[w] # "idle") ~> (writer[w] = "idle")

\* A closed adapter is not resumed: no WebSocket is installed in it and no
\* loops are started for one.
ClosedGetsNoSocket == [][closeStep = 3 => conn' = 0]_vars
=============================================================================
