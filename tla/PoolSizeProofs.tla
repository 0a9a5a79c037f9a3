--------------------------- MODULE PoolSizeProofs ---------------------------
(***************************************************************************)
(* Proofs about PoolSize for any target, maximum and parallelism, any      *)
(* number of instances, connections, goroutines, failures and sleeps.      *)
(***************************************************************************)
EXTENDS PoolSize, FiniteSetTheorems, TLAPS

\* A goroutine holds a connection exactly between SSH's handshake and the
\* append to the pool, and only a replenishment takes a new instance.
WorkerShape == \A w \in Workers :
    /\ worker[w].step = "connected" <=> worker[w].conn # NoConn
    /\ worker[w].kind = "none" <=> worker[w].step = "idle"
    /\ worker[w].step \in {"rotate", "record"} => worker[w].kind = "replenish"

\* Until Connect is through there are neither attempts nor maintenance.
Starting ==
    phase \in {"connecting", "connected"} =>
        maint = "none" /\ ~scaling /\ \A w \in Workers : worker[w].kind = "none"

\* A round is planned only for a pool below its target.
Planned == maint = "reserve" => count < Target

\* scaleInFlight counts the goroutines that scale up.
ScaleCounted == scaleInFlight = Cardinality(Running("scale"))

Typed == TypeOK /\ WorkerShape /\ Starting /\ Planned /\ ScaleCounted

-----------------------------------------------------------------------------
\* There is a subset of every size up to the set's.
LEMMA SomeFacts ==
  ASSUME NEW S, IsFiniteSet(S), NEW n \in Nat, n <= Cardinality(S)
  PROVE  Some(n, S) \subseteq S /\ Cardinality(Some(n, S)) = n
<1> DEFINE m == Cardinality(S)
<1>1. m \in Nat /\ ExistsBijection(1..m, S)  BY FS_CardinalityType
<1>2. PICK f : f \in Bijection(1..m, S)  BY <1>1 DEF ExistsBijection
<1> DEFINE T == {f[i] : i \in 1..n}
           g == [i \in 1..n |-> f[i]]
<1>3. f \in [1..m -> S] /\ (\A i, j \in 1..m : f[i] = f[j] => i = j)
  BY <1>2 DEF Bijection, Injection, IsInjective, Surjection
<1>4. 1..n \subseteq 1..m  BY <1>1
<1>5. T \subseteq S  BY <1>3, <1>4
<1>6. g \in Bijection(1..n, T)
  <2>1. g \in [1..n -> T] /\ \A i, j \in 1..n : g[i] = g[j] => i = j
    BY <1>3, <1>4
  <2>2. \A t \in T : \E i \in 1..n : g[i] = t  OBVIOUS
  <2> HIDE DEF g, T
  <2> QED  BY <2>1, <2>2 DEF Bijection, Injection, IsInjective, Surjection
<1>7. Cardinality(T) = n
  <2>1. IsFiniteSet(1..n) /\ Cardinality(1..n) = n  BY FS_Interval
  <2>2. ExistsBijection(1..n, T)  BY <1>6 DEF ExistsBijection
  <2> QED  BY <2>1, <2>2, FS_Bijection
<1> HIDE DEF T
<1>8. T \in SUBSET S /\ Cardinality(T) = n  BY <1>5, <1>7
<1> QED  BY <1>8 DEF Some

\* The pool and the sets of goroutines are finite.
LEMMA SizesFinite ==
  ASSUME TypeOK
  PROVE  /\ IsFiniteSet(conns) /\ Cardinality(conns) \in Nat
         /\ IsFiniteSet(Connecting) /\ Cardinality(Connecting) \in Nat
         /\ \A kind : IsFiniteSet(Running(kind)) /\ Cardinality(Running(kind)) \in Nat
<1>1. \A T : T \subseteq Workers => IsFiniteSet(T) /\ Cardinality(T) \in Nat
  BY NameAssumption, FS_Subset, FS_CardinalityType
<1>2. Connecting \subseteq Workers /\ \A kind : Running(kind) \subseteq Workers
  BY DEF Connecting, Running
<1>3. IsFiniteSet(conns) /\ Cardinality(conns) \in Nat
  BY NameAssumption, FS_Subset, FS_CardinalityType DEF TypeOK
<1> QED  BY <1>1, <1>2, <1>3

\* The goroutines that replenishOnce and startScale start were idle.
LEMMA SpawnFacts ==
  ASSUME TypeOK, NEW kind, NEW n \in Nat, Spawn(kind, n)
  PROVE  \E T \in SUBSET Running("none") :
            /\ Cardinality(T) = n
            /\ worker' = [w \in Workers |-> IF w \in T THEN Attempt(kind) ELSE worker[w]]
<1>1. n <= Cardinality(Running("none"))
  BY SizesFinite DEF Spawn
<1>2. Some(n, Running("none")) \subseteq Running("none")
      /\ Cardinality(Some(n, Running("none"))) = n
  BY <1>1, SizesFinite, SomeFacts
<1> QED  BY <1>2 DEF Spawn

WorkerType == [kind : {"none", "replenish", "scale"},
               step : {"idle", "session", "ssh", "connected", "rotate", "record", "finish"},
               conn : Conns \cup {NoConn}, instance : 0..(Instances - 1)]

\* A goroutine that only goes to another step keeps its type.
LEMMA StepTyped ==
  ASSUME Typed, NEW w \in Workers,
         NEW step \in {"session", "ssh", "rotate", "record", "finish"},
         worker[w].conn = NoConn, worker[w].kind # "none",
         step \in {"rotate", "record"} => worker[w].kind = "replenish",
         Goto(w, step)
  PROVE  /\ worker' \in [Workers -> WorkerType] /\ WorkerShape'
         /\ \A kind : Running(kind)' = Running(kind)
<1>1. worker \in [Workers -> WorkerType]  BY DEF Typed, TypeOK, WorkerType
<1>2. worker' = [worker EXCEPT ![w].step = step]  BY DEF Goto
<1>3. worker' \in [Workers -> WorkerType]
  BY <1>1, <1>2 DEF WorkerType
<1>4. /\ worker'[w].step = step /\ worker'[w].conn = NoConn /\ worker'[w].kind = worker[w].kind
      /\ \A v \in Workers : v # w => worker'[v] = worker[v]
  BY <1>1, <1>2 DEF WorkerType
<1>5. WorkerShape'  BY <1>4 DEF Typed, WorkerShape
<1>6. \A kind : Running(kind)' = Running(kind)  BY <1>4 DEF Running
<1> QED  BY <1>3, <1>5, <1>6

\* The goroutines that a round or a dial starts have their types.
LEMMA SpawnTyped ==
  ASSUME Typed, NEW kind \in {"replenish", "scale"}, NEW n \in Nat, Spawn(kind, n)
  PROVE  worker' \in [Workers -> WorkerType] /\ WorkerShape'
<1>1. PICK T \in SUBSET Running("none") :
          worker' = [w \in Workers |-> IF w \in T THEN Attempt(kind) ELSE worker[w]]
  BY SpawnFacts DEF Typed
<1>2. worker \in [Workers -> WorkerType] /\ current \in 0..(Instances - 1)
  BY DEF Typed, TypeOK, WorkerType
<1>3. Attempt(kind) \in WorkerType  BY <1>2 DEF Attempt, WorkerType
<1>4. worker' \in [Workers -> WorkerType]  BY <1>1, <1>2, <1>3
<1>5. WorkerShape'  BY <1>1 DEF Typed, WorkerShape, Attempt
<1> QED  BY <1>4, <1>5

\* advanceInstance leads to one of the group's instances.
LEMMA AdvanceTyped ==
  ASSUME TypeOK, AdvanceInstance
  PROVE  current' \in 0..(Instances - 1)
BY SizeAssumption DEF AdvanceInstance, TypeOK

\* Connect's steps keep the types.
LEMMA ConnectTyped ==
  ASSUME Typed, ConnectStep \/ OtherGroupFailed
  PROVE  Typed'
<1> USE SizeAssumption, BoundAssumption
    DEF Typed, lifeVars, poolVars, maintVars, replenishVars, instanceVars, scaleVars, boundVars
<1>1. CASE ConnectPool
  <2>1. PICK n \in 1..Target : conns' = Some(n, Conns) /\ up' = conns'
    BY <1>1 DEF ConnectPool
  <2>2. Target \in Nat /\ n \in Nat /\ n <= Cardinality(Conns) /\ IsFiniteSet(Conns)
    BY NameAssumption, FS_CardinalityType
  <2>3. conns' \subseteq Conns /\ up' \subseteq Conns
    BY <2>1, <2>2, SomeFacts
  <2>4. TypeOK'  BY <1>1, <2>3 DEF ConnectPool, TypeOK
  <2>5. WorkerShape' /\ Starting' /\ Planned' /\ ScaleCounted'
    BY <1>1 DEF ConnectPool, WorkerShape, Starting, Planned, ScaleCounted, Running
  <2> QED  BY <2>4, <2>5
<1>2. CASE InstanceFails
  <2>1. current' \in 0..(Instances - 1)
    BY <1>2, AdvanceTyped DEF InstanceFails
  <2>2. tried' \in 0..Instances /\ failures' \in 0..MaxFailures
    BY <1>2 DEF InstanceFails, TypeOK
  <2>3. TypeOK'  BY <1>2, <2>1, <2>2 DEF InstanceFails, TypeOK
  <2> QED  BY <1>2, <2>3 DEF InstanceFails, WorkerShape, Starting, Planned, ScaleCounted, Running
<1>3. CASE AllInstancesFailed \/ Connected \/ OtherGroupFailed
  <2> USE DEF AllInstancesFailed, Connected, OtherGroupFailed, Cleanup
  <2>1. conns' \subseteq Conns /\ up' \subseteq Conns  BY <1>3 DEF TypeOK
  <2>2. TypeOK'  BY <1>3, <2>1 DEF TypeOK
  <2> QED  BY <1>3, <2>2 DEF WorkerShape, Starting, Planned, ScaleCounted, Running
<1> QED  BY <1>1, <1>2, <1>3 DEF ConnectStep

\* The steps of the maintenance loop, of dials and of Close keep the types.
LEMMA MaintainTyped ==
  ASSUME Typed,
         \/ MaintainStep \/ DetectWake \/ MaintainEnds \/ BackoffEnds
         \/ ConnDies \/ RemoveConn \/ StartScale \/ SpawnScale
         \/ CallClose \/ CloseStep \/ UNCHANGED vars
  PROVE  Typed'
<1> USE SizeAssumption, BoundAssumption
    DEF Typed, lifeVars, poolVars, maintVars, replenishVars, instanceVars, scaleVars, boundVars
<1>1. CASE ConnDies \/ RemoveConn
  <2> USE DEF ConnDies, RemoveConn
  <2>1. conns' \subseteq Conns /\ up' \subseteq Conns  BY <1>1 DEF TypeOK
  <2>2. deaths' \in 0..MaxDeaths  BY <1>1 DEF TypeOK
  <2>3. TypeOK'  BY <1>1, <2>1, <2>2 DEF TypeOK
  <2> QED  BY <1>1, <2>3 DEF WorkerShape, Starting, Planned, ScaleCounted, Running
<1>2. CASE MaintainTick \/ MaintainEnds \/ EvictFailed \/ CloseFailed \/ NewRound \/ BackoffEnds
  <2> USE DEF MaintainTick, MaintainEnds, EvictFailed, CloseFailed, NewRound, BackoffEnds
  <2>1. conns' \subseteq Conns /\ up' \subseteq Conns /\ batch' \subseteq Conns
    BY <1>2 DEF TypeOK
  <2>2. TypeOK'  BY <1>2, <2>1 DEF TypeOK
  <2>3. Starting' /\ Planned'  BY <1>2 DEF Starting, Planned
  <2> QED  BY <1>2, <2>2, <2>3 DEF WorkerShape, ScaleCounted, Running
<1>3. CASE DetectWake
  <2>1. wakes' \in 0..MaxWakes  BY <1>3 DEF DetectWake, TypeOK
  <2>2. TypeOK'  BY <1>3, <2>1 DEF DetectWake, TypeOK
  <2> QED  BY <1>3, <2>2 DEF DetectWake, WorkerShape, Starting, Planned, ScaleCounted, Running
<1>4. CASE Sweep
  <2>1. conns' \subseteq Conns  BY <1>4 DEF Sweep, TypeOK
  <2>2. Cardinality(conns') \in Nat
    BY <2>1, NameAssumption, FS_Subset, FS_CardinalityType
  <2>3. TypeOK'  BY <1>4, <2>1, <2>2 DEF Sweep, TypeOK
  <2> QED  BY <1>4, <2>3 DEF Sweep, WorkerShape, Starting, Planned, ScaleCounted, Running
<1>5. CASE Reserve
  <2>1. count' \in Nat /\ inFlight' \in Nat
    <3>1. CASE count' = 0 /\ UNCHANGED inFlight  BY <3>1 DEF TypeOK
    <3>2. CASE Available > 0 /\ count' = (IF Target - count > Available THEN Available
                                          ELSE Target - count)
               /\ inFlight' = inFlight + count'
      <4>1. Target - count \in Nat /\ Available \in Nat
        BY <1>5, <3>2 DEF Reserve, Planned, TypeOK, Available
      <4>2. count' \in Nat  BY <3>2, <4>1
      <4> QED  BY <3>2, <4>2 DEF TypeOK
    <3> QED  BY <1>5, <3>1, <3>2 DEF Reserve
  <2>2. maint' \in {"round", "wait"} /\ maint = "reserve"
    BY <1>5 DEF Reserve
  <2>3. TypeOK'  BY <1>5, <2>1, <2>2 DEF Reserve, TypeOK
  <2> QED  BY <1>5, <2>2, <2>3
        DEF Reserve, WorkerShape, Starting, Planned, ScaleCounted, Running
<1>6. CASE SpawnReplenish
  <2>1. count \in Nat /\ Spawn("replenish", count)  BY <1>6 DEF SpawnReplenish, TypeOK
  <2>2. worker' \in [Workers -> WorkerType] /\ WorkerShape'  BY <2>1, SpawnTyped
  <2>3. TypeOK'  BY <1>6, <2>2 DEF SpawnReplenish, TypeOK, WorkerType
  <2>4. Running("scale")' = Running("scale")
    BY <2>1, SpawnFacts DEF Running, Attempt
  <2> QED  BY <1>6, <2>2, <2>3, <2>4 DEF SpawnReplenish, Starting, Planned, ScaleCounted
<1>7. CASE StartScale
  <2>1. scales' \in 0..MaxScales  BY <1>7 DEF StartScale, TypeOK
  <2>2. TypeOK'  BY <1>7, <2>1 DEF StartScale, TypeOK
  <2> QED  BY <1>7, <2>2
        DEF StartScale, Dialing, WorkerShape, Starting, Planned, ScaleCounted, Running
<1>8. CASE SpawnScale
  <2>1. Spawn("scale", 1) /\ 1 \in Nat  BY <1>8 DEF SpawnScale
  <2>2. worker' \in [Workers -> WorkerType] /\ WorkerShape'  BY <2>1, SpawnTyped
  <2>0. scaleInFlight' \in Nat /\ scaling' \in BOOLEAN
    <3>1. scaleInFlight' = scaleInFlight + 1 /\ scaling' = FALSE  BY <1>8 DEF SpawnScale
    <3>2. scaleInFlight \in Nat  BY DEF TypeOK
    <3>3. scaleInFlight' \in Nat  BY <3>1, <3>2
    <3> QED  BY <3>1, <3>3
  <2>3. TypeOK'
    <3>1. UNCHANGED <<phase, tried, conns, up, maint, batch, count, inFlight, backoff, advanced,
                      current, failures, deaths, wakes, scales>>
      BY <1>8 DEF SpawnScale
    <3> QED  BY <2>0, <2>2, <3>1 DEF TypeOK, WorkerType
  <2>4. PICK T \in SUBSET Running("none") : Cardinality(T) = 1 /\
            worker' = [w \in Workers |-> IF w \in T THEN Attempt("scale") ELSE worker[w]]
    BY <2>1, SpawnFacts
  <2>5. Running("scale")' = Running("scale") \cup T /\ Running("scale") \cap T = {}
    BY <2>4 DEF Running, Attempt
  <2>6. IsFiniteSet(T)  BY FS_Subset, SizesFinite
  <2>7. Cardinality(Running("scale") \cup T) = Cardinality(Running("scale")) + 1
    <3>1. IsFiniteSet(Running("scale")) /\ Cardinality(Running("scale")) \in Nat
      BY SizesFinite
    <3>2. Cardinality(Running("scale") \cup T)
            = Cardinality(Running("scale")) + Cardinality(T) - Cardinality(Running("scale") \cap T)
      BY <2>6, <3>1, FS_Union
    <3>3. Cardinality(Running("scale") \cap T) = 0  BY <2>5, FS_EmptySet
    <3> QED  BY <2>4, <3>1, <3>2, <3>3
  <2> QED  BY <1>8, <2>2, <2>3, <2>5, <2>7 DEF SpawnScale, Starting, Planned, ScaleCounted
<1>9. CASE CallClose \/ CloseStep
  <2> USE DEF CallClose, CloseStep, CleanupPool, CloseReturns, Cleanup
  <2>1. conns' \subseteq Conns /\ up' \subseteq Conns  BY <1>9 DEF TypeOK
  <2>2. TypeOK'  BY <1>9, <2>1 DEF TypeOK
  <2> QED  BY <1>9, <2>2 DEF Open, WorkerShape, Starting, Planned, ScaleCounted, Running
<1>10. CASE UNCHANGED vars
  BY <1>10 DEF vars, TypeOK, WorkerShape, Starting, Planned, ScaleCounted, Running
<1> QED  BY <1>1, <1>2, <1>3, <1>4, <1>5, <1>6, <1>7, <1>8, <1>9, <1>10 DEF MaintainStep

\* The steps of the attempts keep the types.
LEMMA WorkerTyped ==
  ASSUME Typed, NEW w \in Workers, WorkerStep(w)
  PROVE  Typed'
<1> USE SizeAssumption, BoundAssumption
    DEF Typed, lifeVars, poolVars, maintVars, replenishVars, instanceVars, scaleVars, boundVars, At
<1>0. worker \in [Workers -> WorkerType]  BY DEF TypeOK, WorkerType
<1>1. CASE SessionReady(w) \/ RecordSuccess(w)
  <2> USE DEF SessionReady, RecordSuccess
  <2>1. worker' \in [Workers -> WorkerType] /\ WorkerShape' /\ Running("scale")' = Running("scale")
    BY <1>1, StepTyped DEF WorkerShape
  <2>2. TypeOK'  BY <1>1, <2>1 DEF TypeOK, WorkerType
  <2> QED  BY <1>1, <2>1, <2>2 DEF Open, Starting, Planned, ScaleCounted, WorkerShape
<1>2. CASE ConnectFails(w)
  <2>0. PICK step \in {"rotate", "finish"} :
            Goto(w, step) /\ (step = "rotate" => worker[w].kind = "replenish")
    BY <1>2 DEF ConnectFails
  <2>1. worker' \in [Workers -> WorkerType] /\ WorkerShape' /\ Running("scale")' = Running("scale")
    BY <1>2, <2>0, StepTyped DEF WorkerShape, ConnectFails
  <2>2. failures' \in 0..MaxFailures  BY <1>2 DEF ConnectFails, TypeOK
  <2>3. backoff' \in BOOLEAN  BY <1>2 DEF ConnectFails, TypeOK
  <2>4. TypeOK'  BY <1>2, <2>1, <2>2, <2>3 DEF ConnectFails, TypeOK, WorkerType
  <2> QED  BY <1>2, <2>1, <2>4 DEF ConnectFails, Starting, Planned, ScaleCounted, WorkerShape
<1>3. CASE Rotate(w)
  <2>1. worker' \in [Workers -> WorkerType] /\ WorkerShape' /\ Running("scale")' = Running("scale")
    BY <1>3, StepTyped DEF WorkerShape, Rotate
  <2>2. current' \in 0..(Instances - 1) /\ advanced' \in BOOLEAN
    BY <1>3, AdvanceTyped DEF Rotate, TypeOK
  <2>3. TypeOK'  BY <1>3, <2>1, <2>2 DEF Rotate, TypeOK, WorkerType
  <2> QED  BY <1>3, <2>1, <2>3 DEF Rotate, Starting, Planned, ScaleCounted, WorkerShape
<1>4. CASE SSHReady(w)
  <2>1. PICK c \in Unused :
            /\ up' = up \cup {c}
            /\ worker' = [worker EXCEPT ![w].step = "connected", ![w].conn = c]
    BY <1>4 DEF SSHReady
  <2>2. c \in Conns /\ c # NoConn  BY NameAssumption DEF Unused
  <2>3. worker' \in [Workers -> WorkerType]
    BY <1>0, <2>1, <2>2 DEF WorkerType
  <2>4. /\ worker'[w].step = "connected" /\ worker'[w].conn = c /\ worker'[w].kind = worker[w].kind
        /\ \A v \in Workers : v # w => worker'[v] = worker[v]
    BY <1>0, <2>1 DEF WorkerType
  <2>7. worker[w].kind # "none"  BY <1>4 DEF WorkerShape, SSHReady
  <2>5. WorkerShape' /\ Running("scale")' = Running("scale")
    <3>1. WorkerShape'  BY <2>2, <2>4, <2>7 DEF WorkerShape
    <3>2. Running("scale")' = Running("scale")  BY <2>4 DEF Running
    <3> QED  BY <3>1, <3>2
  <2>6. TypeOK'  BY <1>4, <2>1, <2>2, <2>3 DEF SSHReady, TypeOK, WorkerType
  <2> QED  BY <1>4, <2>4, <2>5, <2>6 DEF SSHReady, Starting, Planned, ScaleCounted, WorkerShape
<1>5. CASE AppendConn(w)
  <2>0. worker[w].conn \in Conns /\ worker[w].kind # "none"
    BY <1>0, <1>5, NameAssumption DEF AppendConn, WorkerShape, WorkerType
  <2>1. PICK step \in {"record", "finish"} :
            /\ worker' = [worker EXCEPT ![w].conn = NoConn, ![w].step = step]
            /\ step = "record" => worker[w].kind = "replenish"
    BY <1>5 DEF AppendConn
  <2>2. /\ worker'[w].step = step /\ worker'[w].conn = NoConn /\ worker'[w].kind = worker[w].kind
        /\ \A v \in Workers : v # w => worker'[v] = worker[v]
    BY <1>0, <2>1 DEF WorkerType
  <2>3. worker' \in [Workers -> WorkerType]
    BY <1>0, <2>1 DEF WorkerType
  <2>4. WorkerShape' /\ Running("scale")' = Running("scale")
    <3>1. WorkerShape'  BY <2>0, <2>1, <2>2 DEF WorkerShape
    <3>2. Running("scale")' = Running("scale")  BY <2>2 DEF Running
    <3> QED  BY <3>1, <3>2
  <2>5. TypeOK'  BY <1>5, <2>0, <2>3 DEF AppendConn, TypeOK, WorkerType
  <2> QED  BY <1>5, <2>0, <2>4, <2>5 DEF AppendConn, Starting, Planned, ScaleCounted
<1>6. ASSUME NEW kind \in {"replenish", "scale"}, EndWorker(w, kind)
      PROVE  /\ worker' \in [Workers -> WorkerType] /\ WorkerShape' /\ w \in Running(kind)
             /\ Running(kind)' = Running(kind) \ {w}
             /\ \A k \in {"replenish", "scale"} : k # kind => Running(k)' = Running(k)
  <2>1. Idle \in WorkerType  BY DEF Idle, WorkerType
  <2>2. worker' = [worker EXCEPT ![w] = Idle] /\ worker[w].kind = kind
    BY <1>6 DEF EndWorker
  <2>3. worker' \in [Workers -> WorkerType]  BY <1>0, <2>1, <2>2
  <2>4. worker'[w] = Idle /\ \A v \in Workers : v # w => worker'[v] = worker[v]
    BY <1>0, <2>2
  <2> QED  BY <2>2, <2>3, <2>4 DEF WorkerShape, Running, Idle
<1>7. CASE FinishReplenish(w)
  <2>1. EndWorker(w, "replenish")  BY <1>7 DEF FinishReplenish
  <2>2. inFlight' \in Nat  BY <1>7 DEF FinishReplenish, TypeOK
  <2>3. TypeOK'  BY <1>6, <1>7, <2>1, <2>2 DEF FinishReplenish, EndWorker, TypeOK, WorkerType
  <2> QED  BY <1>6, <1>7, <2>1, <2>3
        DEF FinishReplenish, EndWorker, Starting, Planned, ScaleCounted, Running
<1>8. CASE FinishScale(w)
  <2>1. EndWorker(w, "scale") /\ scaleInFlight' = scaleInFlight - 1
    BY <1>8 DEF FinishScale
  <2>2. /\ IsFiniteSet(Running("scale")) /\ Cardinality(Running("scale")) \in Nat
        /\ w \in Running("scale")
    BY <1>6, <2>1, SizesFinite
  <2>3. Cardinality(Running("scale") \ {w}) = Cardinality(Running("scale")) - 1
        /\ Cardinality(Running("scale") \ {w}) \in Nat
    BY <2>2, FS_RemoveElement, FS_CardinalityType
  <2>4. scaleInFlight' \in Nat  BY <2>1, <2>3 DEF ScaleCounted
  <2>5. TypeOK'  BY <1>6, <1>8, <2>1, <2>4 DEF FinishScale, EndWorker, TypeOK, WorkerType
  <2>6. ScaleCounted'  BY <1>6, <2>1, <2>3 DEF ScaleCounted
  <2> QED  BY <1>6, <1>8, <2>1, <2>5, <2>6
        DEF FinishScale, EndWorker, Starting, Planned, Running
<1> QED  BY <1>1, <1>2, <1>3, <1>4, <1>5, <1>7, <1>8 DEF WorkerStep

\* Every step keeps the types.
LEMMA TypedStep ==
  ASSUME Typed, [Next]_vars
  PROVE  Typed'
BY ConnectTyped, MaintainTyped, WorkerTyped DEF Next

\* The pool starts empty, with nothing in flight.
LEMMA TypedInit ==
  ASSUME Init
  PROVE  Typed
<1> USE SizeAssumption, BoundAssumption DEF Init
<1>1. Running("scale") = {}  BY DEF Running, Idle
<1>2. ScaleCounted  BY <1>1, FS_EmptySet DEF ScaleCounted
<1>3. worker \in [Workers -> WorkerType]  BY DEF Idle, WorkerType
<1>4. TypeOK
  <2>1. /\ tried \in 0..Instances /\ current \in 0..(Instances - 1)
        /\ failures \in 0..MaxFailures /\ deaths \in 0..MaxDeaths
        /\ wakes \in 0..MaxWakes /\ scales \in 0..MaxScales
    OBVIOUS
  <2>2. conns \subseteq Conns /\ up \subseteq Conns /\ batch \subseteq Conns  OBVIOUS
  <2> QED  BY <1>3, <2>1, <2>2 DEF TypeOK, WorkerType
<1> QED  BY <1>2, <1>4 DEF Typed, WorkerShape, Starting, Planned, Idle

-----------------------------------------------------------------------------
\* Every step leaves each open connection in the pool, with the goroutine that
\* will put it there, or with the maintenance loop that is about to close it.
LEMMA PooledStep ==
  ASSUME Typed, OpenIsPooled, [Next]_vars
  PROVE  OpenIsPooled'
<1> USE DEF OpenIsPooled, lifeVars, poolVars, maintVars, replenishVars, instanceVars, scaleVars,
        boundVars
<1>0. worker \in [Workers -> WorkerType] /\ WorkerShape
  BY DEF Typed, TypeOK, WorkerType
<1>1. CASE ConnectPool
  <2>1. conns' = up'  BY <1>1 DEF ConnectPool
  <2> QED  BY <2>1
<1>2. CASE InstanceFails \/ AllInstancesFailed \/ Connected
  <2>1. maint # "close"
    BY <1>2 DEF InstanceFails, AllInstancesFailed, Connected, Typed, Starting
  <2> QED  BY <1>2, <2>1 DEF InstanceFails, AllInstancesFailed, Connected
<1>3. CASE OtherGroupFailed \/ CleanupPool
  BY <1>3 DEF OtherGroupFailed, CleanupPool, Cleanup
<1>4. CASE ConnDies \/ RemoveConn
  BY <1>4 DEF ConnDies, RemoveConn
<1>5. CASE \/ MaintainTick \/ DetectWake \/ MaintainEnds \/ BackoffEnds \/ Reserve \/ NewRound
           \/ StartScale \/ CallClose \/ CloseReturns \/ UNCHANGED vars
  BY <1>5 DEF MaintainTick, DetectWake, MaintainEnds, BackoffEnds, Reserve, NewRound, StartScale,
     CallClose, CloseReturns, vars
<1>6. CASE EvictFailed \/ CloseFailed \/ Sweep
  BY <1>6 DEF EvictFailed, CloseFailed, Sweep
<1>7. ASSUME NEW kind, NEW n \in Nat, Spawn(kind, n), UNCHANGED poolVars,
             maint = "close" => UNCHANGED <<maint, batch>>
      PROVE  OpenIsPooled'
  <2>1. PICK T \in SUBSET Running("none") :
            worker' = [w \in Workers |-> IF w \in T THEN Attempt(kind) ELSE worker[w]]
    BY <1>7, SpawnFacts DEF Typed
  <2>2. \A w \in Workers : worker[w].conn # NoConn => w \notin T
    BY <1>0, <2>1 DEF Running, WorkerShape
  <2>3. \A w \in Workers : worker[w].conn # NoConn => worker'[w] = worker[w]
    BY <2>1, <2>2
  <2>4. \A c \in up : c # NoConn  BY NameAssumption DEF Typed, TypeOK
  <2> QED  BY <1>7, <2>3, <2>4
<1>8. CASE SpawnReplenish
  <2>1. Spawn("replenish", count) /\ count \in Nat /\ maint # "close" /\ UNCHANGED poolVars
    BY <1>8 DEF SpawnReplenish, Typed, TypeOK
  <2> QED  BY <1>7, <2>1
<1>9. CASE SpawnScale
  BY <1>7, <1>9 DEF SpawnScale
<1>10. ASSUME NEW w \in Workers, WorkerStep(w) PROVE OpenIsPooled'
  <2>1. CASE SSHReady(w)
    <3>1. PICK c \in Unused :
              /\ up' = up \cup {c}
              /\ worker' = [worker EXCEPT ![w].step = "connected", ![w].conn = c]
      BY <2>1 DEF SSHReady
    <3>2. /\ worker'[w].conn = c
          /\ \A v \in Workers : v # w => worker'[v] = worker[v]
      BY <1>0, <3>1 DEF WorkerType
    <3>3. worker[w].conn = NoConn
      BY <1>0, <2>1 DEF SSHReady, At, WorkerShape
    <3>4. \A d \in up : d # NoConn  BY NameAssumption DEF Typed, TypeOK
    <3> QED  BY <2>1, <3>1, <3>2, <3>3, <3>4 DEF SSHReady
  <2>2. CASE AppendConn(w)
    <3>1. conns' = conns \cup {worker[w].conn} /\ UNCHANGED <<up, maint, batch>>
      BY <2>2 DEF AppendConn
    <3>2. \A v \in Workers : v # w => worker'[v] = worker[v]
      BY <1>0, <2>2 DEF AppendConn
    <3> QED  BY <3>1, <3>2
  <2>3. CASE \/ SessionReady(w) \/ ConnectFails(w) \/ Rotate(w) \/ RecordSuccess(w)
             \/ FinishReplenish(w) \/ FinishScale(w)
    <3> USE DEF SessionReady, ConnectFails, Rotate, RecordSuccess, FinishReplenish, FinishScale,
            EndWorker, Goto
    <3>1. UNCHANGED <<poolVars, maint, batch>>  BY <2>3
    <3>2. \A v \in Workers : v # w => worker'[v] = worker[v]
      BY <1>0, <2>3
    <3>3. worker[w].conn = NoConn
      BY <1>0, <2>3 DEF At, WorkerShape
    <3>4. \A d \in up : d # NoConn  BY NameAssumption DEF Typed, TypeOK
    <3> QED  BY <3>1, <3>2, <3>3, <3>4
  <2> QED  BY <1>10, <2>1, <2>2, <2>3 DEF WorkerStep
<1> QED  BY <1>1, <1>2, <1>3, <1>4, <1>5, <1>6, <1>8, <1>9, <1>10
     DEF Next, ConnectStep, MaintainStep, CloseStep

\* Types and the places of connections hold in every behaviour.
LEMMA PoolInvariance == Spec => [](Typed /\ OpenIsPooled)
<1>1. Init => Typed /\ OpenIsPooled
  <2>1. Init => OpenIsPooled  BY DEF Init, OpenIsPooled
  <2> QED  BY <2>1, TypedInit
<1>2. Typed /\ OpenIsPooled /\ [Next]_vars => (Typed /\ OpenIsPooled)'
  BY TypedStep, PooledStep
<1> QED  BY <1>1, <1>2, PTL DEF Spec

\* Every variable keeps its type; no count of attempts in flight goes below
\* zero (pool.go:399-463, 951, 1449-1455).
THEOREM PoolTypes == Spec => []TypeOK
<1>1. Typed => TypeOK  BY DEF Typed
<1> QED  BY <1>1, PoolInvariance, PTL

\* No open SSH connection is lost while probes, dials, attempts and Close
\* change the pool (pool.go:1597-1611, 1524, 1699).
THEOREM NoConnectionLost == Spec => []OpenIsPooled
BY PoolInvariance, PTL

-----------------------------------------------------------------------------
\* The counts of attempts: what is in flight is at most a round, and
\* AttemptsCounted.
Counted == inFlight <= ReplenishParallelism /\ AttemptsCounted

\* What sleeps may have hidden is a number that only a sleep changes, by a round.
LEMMA MissedFacts ==
  ASSUME TypeOK
  PROVE  /\ MissedByWakes \in Nat
         /\ UNCHANGED wakes => MissedByWakes' = MissedByWakes
         /\ wakes' = wakes - 1 => MissedByWakes' = MissedByWakes + ReplenishParallelism
<1>1. /\ ReplenishParallelism \in Nat /\ MaxWakes - wakes \in Nat
      /\ MaxWakes \in Int /\ wakes \in Int
  BY SizeAssumption, BoundAssumption DEF TypeOK
<1>2. \A a, b \in Int : a * (b + 1) = a * b + a  OBVIOUS
<1>3. \A a, b \in Nat : a * b \in Nat  OBVIOUS
<1>4. wakes' = wakes - 1 => MaxWakes - wakes' = (MaxWakes - wakes) + 1  BY <1>1
<1> QED  BY <1>1, <1>2, <1>3, <1>4 DEF MissedByWakes

\* A step that leaves the attempts and their counts alone leaves them counted.
LEMMA CountedSame ==
  ASSUME Typed, Counted, UNCHANGED <<inFlight, wakes>>,
         Running("replenish")' = Running("replenish"), Reserved' = Reserved
  PROVE  Counted'
BY MissedFacts DEF Counted, AttemptsCounted, Attempts, Typed

\* Every step keeps the counts of attempts.
LEMMA CountedStep ==
  ASSUME Typed, Counted, [Next]_vars
  PROVE  Counted'
<1> USE DEF lifeVars, poolVars, maintVars, replenishVars, instanceVars, scaleVars, boundVars
<1>0. /\ worker \in [Workers -> WorkerType] /\ WorkerShape /\ TypeOK
      /\ count \in Nat /\ inFlight \in Nat /\ ReplenishParallelism \in Nat
  BY SizeAssumption DEF Typed, TypeOK, WorkerType
<1>1. /\ MissedByWakes \in Nat /\ IsFiniteSet(Running("replenish"))
      /\ Cardinality(Running("replenish")) \in Nat
  BY <1>0, MissedFacts, SizesFinite
<1>2. CASE UNCHANGED <<worker, inFlight, wakes, maint, count>>
  BY <1>2, CountedSame DEF Running, Reserved
<1>3. CASE MaintainTick \/ MaintainEnds \/ EvictFailed \/ CloseFailed \/ Sweep \/ NewRound \/ Connected
  <2>1. UNCHANGED <<worker, inFlight, wakes>> /\ Reserved' = Reserved
    BY <1>3 DEF MaintainTick, MaintainEnds, EvictFailed, CloseFailed, Sweep, NewRound, Connected,
       Reserved, Typed, Starting
  <2> QED  BY <2>1, CountedSame DEF Running
<1>4. CASE DetectWake
  <2>1. /\ inFlight' = 0 /\ Reserved = 0 /\ Reserved' = 0 /\ wakes' = wakes - 1
        /\ Running("replenish")' = Running("replenish")
    BY <1>4 DEF DetectWake, Reserved, Running
  <2>2. MissedByWakes' = MissedByWakes + ReplenishParallelism
    BY <1>0, <2>1, MissedFacts
  <2> QED  BY <1>0, <1>1, <2>1, <2>2 DEF Counted, AttemptsCounted, Attempts
<1>5. CASE Reserve
  <2>1. UNCHANGED wakes /\ Running("replenish")' = Running("replenish") /\ Reserved = 0
    BY <1>5 DEF Reserve, Running, Reserved
  <2>2. /\ inFlight' = inFlight + Reserved' /\ Reserved' \in Nat
        /\ inFlight' <= ReplenishParallelism
    <3>1. CASE maint' = "wait" /\ UNCHANGED inFlight
      BY <1>0, <3>1 DEF Reserved, Counted
    <3>2. CASE /\ maint' = "round" /\ Available > 0 /\ inFlight' = inFlight + count'
               /\ count' = IF Target - count > Available THEN Available ELSE Target - count
      <4>1. Target - count \in Nat /\ Available \in Nat
        BY <1>0, <1>5, <3>2, SizeAssumption DEF Reserve, Planned, Typed, Available
      <4>2. count' \in Nat /\ count' <= Available  BY <3>2, <4>1
      <4> QED  BY <1>0, <3>2, <4>2 DEF Reserved, Available
    <3> QED  BY <1>5, <3>1, <3>2 DEF Reserve
  <2>3. MissedByWakes' = MissedByWakes  BY <1>0, <2>1, MissedFacts
  <2>4. Attempts \in Nat /\ Attempts' = Attempts + Reserved'
    BY <1>1, <2>1, <2>2 DEF Attempts
  <2>5. inFlight <= Attempts /\ Attempts <= inFlight + MissedByWakes
    BY DEF Counted, AttemptsCounted
  <2>6. AttemptsCounted'
    <3>1. \A i, a, m, r \in Nat :
              i <= a /\ a <= i + m => i + r <= a + r /\ a + r <= (i + r) + m
      OBVIOUS
    <3>2. inFlight' <= Attempts' /\ Attempts' <= inFlight' + MissedByWakes'
      BY <1>0, <1>1, <2>2, <2>3, <2>4, <2>5, <3>1
    <3> QED  BY <3>2 DEF AttemptsCounted
  <2> QED  BY <2>2, <2>6 DEF Counted
<1>6. CASE SpawnReplenish
  <2>1. Spawn("replenish", count) /\ UNCHANGED <<inFlight, wakes>>
        /\ Reserved = count /\ Reserved' = 0
    BY <1>6 DEF SpawnReplenish, Reserved
  <2>2. PICK T \in SUBSET Running("none") : Cardinality(T) = count /\
            worker' = [w \in Workers |-> IF w \in T THEN Attempt("replenish") ELSE worker[w]]
    BY <1>0, <2>1, SpawnFacts
  <2>3. Running("replenish")' = Running("replenish") \cup T /\ Running("replenish") \cap T = {}
    BY <2>2 DEF Running, Attempt
  <2>4. IsFiniteSet(T)  BY <1>0, FS_Subset, SizesFinite
  <2>5. Cardinality(Running("replenish") \cup T)
          = Cardinality(Running("replenish")) + Cardinality(T) - Cardinality(Running("replenish") \cap T)
    BY <1>1, <2>4, FS_Union
  <2>6. Cardinality(Running("replenish") \cap T) = 0  BY <2>3, FS_EmptySet
  <2>7. Cardinality(Running("replenish")') = Cardinality(Running("replenish")) + count
    BY <1>0, <1>1, <2>2, <2>3, <2>5, <2>6
  <2>8. MissedByWakes' = MissedByWakes  BY <1>0, <2>1, MissedFacts
  <2> QED  BY <1>0, <1>1, <2>1, <2>7, <2>8 DEF Counted, AttemptsCounted, Attempts
<1>7. CASE SpawnScale
  <2>1. UNCHANGED <<inFlight, wakes, maint, count>> /\ Spawn("scale", 1)
    BY <1>7 DEF SpawnScale
  <2>2. Running("replenish")' = Running("replenish")
    BY <1>0, <2>1, SpawnFacts DEF Running, Attempt
  <2> QED  BY <2>1, <2>2, CountedSame DEF Reserved
<1>8. ASSUME NEW w \in Workers, WorkerStep(w) PROVE Counted'
  <2>0. UNCHANGED <<wakes, maint, count>>
    BY <1>8 DEF WorkerStep, SessionReady, SSHReady, ConnectFails, Rotate, AppendConn, RecordSuccess,
       FinishReplenish, FinishScale, EndWorker
  <2>1. CASE \/ SessionReady(w) \/ SSHReady(w) \/ ConnectFails(w) \/ Rotate(w) \/ AppendConn(w)
             \/ RecordSuccess(w)
    <3>1. /\ worker'[w].kind = worker[w].kind /\ UNCHANGED inFlight
          /\ \A v \in Workers : v # w => worker'[v] = worker[v]
      BY <1>0, <2>1 DEF SessionReady, SSHReady, ConnectFails, Rotate, AppendConn, RecordSuccess,
         Goto, WorkerType
    <3>2. Running("replenish")' = Running("replenish")  BY <3>1 DEF Running
    <3> QED  BY <2>0, <3>1, <3>2, CountedSame DEF Reserved
  <2>2. CASE FinishReplenish(w)
    <3>1. w \in Running("replenish") /\ worker' = [worker EXCEPT ![w] = Idle]
          /\ inFlight' = IF inFlight > 0 THEN inFlight - 1 ELSE inFlight
      BY <2>2 DEF FinishReplenish, EndWorker, Running
    <3>2. Running("replenish")' = Running("replenish") \ {w}
      BY <1>0, <3>1 DEF Running, Idle
    <3>3. Cardinality(Running("replenish")') = Cardinality(Running("replenish")) - 1
      BY <1>1, <3>1, <3>2, FS_RemoveElement
    <3>4. MissedByWakes' = MissedByWakes /\ Reserved' = Reserved
      BY <1>0, <2>0, MissedFacts DEF Reserved
    <3>5. Cardinality(Running("replenish")') \in Nat
      BY <1>1, <3>2, FS_RemoveElement, FS_CardinalityType
    <3>6. Reserved \in Nat  BY <1>0 DEF Reserved
    <3> QED  BY <1>0, <1>1, <3>1, <3>3, <3>4, <3>5, <3>6 DEF Counted, AttemptsCounted, Attempts
  <2>3. CASE FinishScale(w)
    <3>1. UNCHANGED inFlight /\ worker[w].kind = "scale" /\ worker' = [worker EXCEPT ![w] = Idle]
      BY <2>3 DEF FinishScale, EndWorker
    <3>2. Running("replenish")' = Running("replenish")
      BY <1>0, <3>1 DEF Running, Idle
    <3> QED  BY <2>0, <3>1, <3>2, CountedSame DEF Reserved
  <2> QED  BY <1>8, <2>1, <2>2, <2>3 DEF WorkerStep
<1>9. CASE \/ ConnectPool \/ InstanceFails \/ AllInstancesFailed \/ OtherGroupFailed \/ ConnDies
           \/ RemoveConn \/ BackoffEnds \/ StartScale \/ CallClose \/ CloseStep \/ UNCHANGED vars
  <2>1. UNCHANGED <<worker, inFlight, wakes, maint, count>>
    BY <1>9 DEF ConnectPool, InstanceFails, AllInstancesFailed, OtherGroupFailed, ConnDies,
       RemoveConn, BackoffEnds, StartScale, CallClose, CloseStep, CleanupPool, CloseReturns, vars
  <2> QED  BY <1>2, <2>1
<1> QED  BY <1>3, <1>4, <1>5, <1>6, <1>7, <1>8, <1>9 DEF Next, ConnectStep, MaintainStep

-----------------------------------------------------------------------------
\* What the pool may grow to before a round of replenishment is reserved.
RoundBound == MaxPool + ReplenishParallelism + MissedByWakes

\* The maintenance loop between its count and its reservation, and a dial
\* between its check and its count, each act on what they saw before: the
\* invariant leaves room for what either is about to add.
Growth ==
    /\ scaleInFlight <= ScaleParallelism
    /\ scaling => scaleInFlight < ScaleParallelism
    /\ Size <= RoundBound + ReplenishParallelism
    /\ maint = "reserve" => Size <= RoundBound
    /\ scaling => Size < RoundBound + ReplenishParallelism
    /\ scaling /\ maint = "reserve" => Size < RoundBound

\* The goroutines connecting are among the attempts and the scale-ups.
LEMMA SizeFacts ==
  ASSUME Typed, Counted
  PROVE  /\ Size \in Nat
         /\ Size <= Cardinality(conns) + scaleInFlight + ReplenishParallelism + MissedByWakes
<1> DEFINE R == Running("replenish")
           S == Running("scale")
<1>0. TypeOK  BY DEF Typed
<1>1. /\ IsFiniteSet(R) /\ Cardinality(R) \in Nat /\ IsFiniteSet(S) /\ Cardinality(S) \in Nat
      /\ Cardinality(conns) \in Nat /\ Cardinality(Connecting) \in Nat
  BY <1>0, SizesFinite
<1>2. Connecting \subseteq R \cup S
  BY DEF Connecting, Running, Typed, TypeOK, WorkerShape
<1>3. IsFiniteSet(R \cup S)
      /\ Cardinality(R \cup S) = Cardinality(R) + Cardinality(S) - Cardinality(R \cap S)
  BY <1>1, FS_Union
<1>4. Cardinality(R \cap S) \in Nat  BY <1>1, FS_Intersection, FS_CardinalityType
<1>5. Cardinality(Connecting) <= Cardinality(R \cup S)  BY <1>2, <1>3, FS_Subset
<1>6. Cardinality(Connecting) <= Cardinality(R) + Cardinality(S)
  BY <1>1, <1>3, <1>4, <1>5
<1>7. Reserved \in Nat /\ inFlight \in Nat /\ MissedByWakes \in Nat
      /\ ReplenishParallelism \in Nat
  BY <1>0, MissedFacts, SizeAssumption DEF Reserved, TypeOK
<1>8. /\ Cardinality(R) + Reserved <= inFlight + MissedByWakes
      /\ inFlight <= ReplenishParallelism
  BY DEF Counted, AttemptsCounted, Attempts
<1>9. scaleInFlight = Cardinality(S)  BY DEF Typed, ScaleCounted
<1> HIDE DEF R, S
<1>10. Size = Cardinality(conns) + Reserved + Cardinality(Connecting)  BY DEF Size
<1> QED  BY <1>1, <1>6, <1>7, <1>8, <1>9, <1>10

\* Nothing that adds nothing disturbs the bounds.
LEMMA NotGrown ==
  ASSUME Typed, Counted, Growth, Size' \in Nat, Size' <= Size,
         scaleInFlight' \in Nat, scaleInFlight' <= scaleInFlight,
         scaling' => scaling, maint' = "reserve" => maint = "reserve",
         wakes' = wakes \/ wakes' = wakes - 1
  PROVE  Growth'
<1>1. /\ {ReplenishParallelism, ScaleParallelism, MaxPool} \subseteq Nat
      /\ MissedByWakes \in Nat /\ Size \in Nat /\ scaleInFlight \in Nat
      /\ (MissedByWakes' = MissedByWakes \/ MissedByWakes' = MissedByWakes + ReplenishParallelism)
  BY SizeAssumption, MissedFacts, SizeFacts DEF Typed, TypeOK
<1>2. /\ RoundBound \in Nat /\ RoundBound' \in Nat /\ RoundBound <= RoundBound'
  BY <1>1 DEF RoundBound
<1>3. scaleInFlight' <= ScaleParallelism /\ (scaling' => scaleInFlight' < ScaleParallelism)
  BY <1>1 DEF Growth
<1>4. /\ Size' <= RoundBound' + ReplenishParallelism
      /\ maint' = "reserve" => Size' <= RoundBound'
  BY <1>1, <1>2 DEF Growth
<1>5. /\ scaling' => Size' < RoundBound' + ReplenishParallelism
      /\ scaling' /\ maint' = "reserve" => Size' < RoundBound'
  BY <1>1, <1>2 DEF Growth
<1> QED  BY <1>3, <1>4, <1>5 DEF Growth

\* Every step keeps the bounds on the size of the pool.
LEMMA GrowthStep ==
  ASSUME Typed, Counted, Growth, [Next]_vars
  PROVE  Growth'
<1> USE DEF lifeVars, poolVars, maintVars, replenishVars, instanceVars, scaleVars, boundVars
<1>0. /\ TypeOK /\ Typed' /\ worker \in [Workers -> WorkerType] /\ WorkerShape
      /\ count \in Nat /\ scaleInFlight \in Nat
      /\ {Target, MaxPool, ScaleParallelism, ReplenishParallelism} \subseteq Nat \ {0}
      /\ Target - 1 + ScaleParallelism <= MaxPool
  BY TypedStep, SizeAssumption DEF Typed, TypeOK, WorkerType
<1>1. /\ Cardinality(conns) \in Nat /\ Cardinality(Connecting) \in Nat /\ Reserved \in Nat
      /\ IsFiniteSet(conns) /\ IsFiniteSet(Connecting)
      /\ Size = Cardinality(conns) + Reserved + Cardinality(Connecting)
      /\ Size' = Cardinality(conns') + Reserved' + Cardinality(Connecting')
      /\ Size \in Nat
      /\ Size <= Cardinality(conns) + scaleInFlight + ReplenishParallelism + MissedByWakes
      /\ MissedByWakes \in Nat /\ RoundBound = MaxPool + ReplenishParallelism + MissedByWakes
  BY <1>0, SizesFinite, SizeFacts, MissedFacts DEF Reserved, Size, RoundBound
<1>2. /\ Cardinality(conns') \in Nat /\ Cardinality(Connecting') \in Nat /\ Reserved' \in Nat
      /\ scaleInFlight' \in Nat
  <2>1. conns' \subseteq Conns /\ count' \in Nat /\ scaleInFlight' \in Nat
    BY <1>0 DEF Typed, TypeOK
  <2>2. Connecting' \subseteq Workers  BY DEF Connecting
  <2> QED  BY <2>1, <2>2, NameAssumption, FS_Subset, FS_CardinalityType DEF Reserved
<1>3. Size' \in Nat  BY <1>1, <1>2
<1>4. ASSUME UNCHANGED <<worker, scaleVars>>, conns' \subseteq conns, Reserved' = Reserved,
             maint' = "reserve" => maint = "reserve", wakes' = wakes \/ wakes' = wakes - 1
      PROVE  Growth'
  <2>1. Cardinality(conns') <= Cardinality(conns)  BY <1>1, <1>4, FS_Subset
  <2>2. Connecting' = Connecting  BY <1>4 DEF Connecting
  <2>3. Size' <= Size  BY <1>1, <1>2, <1>4, <2>1, <2>2
  <2> QED  BY <1>0, <1>2, <1>3, <1>4, <2>3, NotGrown
<1>5. CASE \/ InstanceFails \/ AllInstancesFailed \/ OtherGroupFailed \/ ConnDies \/ RemoveConn
           \/ BackoffEnds \/ CallClose \/ CloseStep \/ UNCHANGED vars \/ EvictFailed
           \/ MaintainTick \/ MaintainEnds \/ CloseFailed \/ NewRound \/ DetectWake \/ Connected
  <2>1. /\ UNCHANGED <<worker, scaleVars>> /\ conns' \subseteq conns
        /\ wakes' = wakes \/ wakes' = wakes - 1
    BY <1>5 DEF InstanceFails, AllInstancesFailed, OtherGroupFailed, ConnDies, RemoveConn,
       BackoffEnds, CallClose, CloseStep, CleanupPool, CloseReturns, Cleanup, vars, EvictFailed,
       MaintainTick, MaintainEnds, CloseFailed, NewRound, DetectWake, Connected
  <2>2. Reserved' = Reserved /\ (maint' = "reserve" => maint = "reserve")
    BY <1>5 DEF InstanceFails, AllInstancesFailed, OtherGroupFailed, ConnDies, RemoveConn,
       BackoffEnds, CallClose, CloseStep, CleanupPool, CloseReturns, vars, EvictFailed,
       MaintainTick, MaintainEnds, CloseFailed, NewRound, DetectWake, Connected, Reserved, Typed,
       Starting
  <2> QED  BY <1>4, <2>1, <2>2
<1>6. CASE ConnectPool
  <2>1. PICK n \in 1..Target : conns' = Some(n, Conns)  BY <1>6 DEF ConnectPool
  <2>2. n \in Nat /\ n <= MaxPool /\ n <= Cardinality(Conns)
    BY <1>0, SizeAssumption, NameAssumption, FS_CardinalityType
  <2>3. Cardinality(conns') = n  BY <2>1, <2>2, NameAssumption, SomeFacts
  <2>4. /\ UNCHANGED <<maint, count, worker, scaleVars, wakes>> /\ maint = "none" /\ ~scaling
        /\ Connecting = {}
    BY <1>6, <1>0 DEF ConnectPool, Typed, Starting, Connecting, WorkerShape
  <2>5. Cardinality(Connecting') = 0 /\ Reserved' = 0
    BY <2>4, FS_EmptySet DEF Connecting, Reserved
  <2>6. MissedByWakes' = MissedByWakes  BY <1>0, <2>4, MissedFacts
  <2>7. RoundBound' = RoundBound  BY <2>6 DEF RoundBound
  <2>8. Size' <= RoundBound  BY <1>0, <1>1, <2>2, <2>3, <2>5
  <2> QED  BY <1>0, <1>1, <1>3, <2>4, <2>7, <2>8 DEF Growth
<1>7. CASE Sweep
  <2>1. /\ UNCHANGED <<worker, scaleVars, wakes>> /\ conns' \subseteq conns
        /\ Reserved' = Reserved /\ Reserved = 0
    BY <1>7 DEF Sweep, Reserved
  <2>2. CASE maint' # "reserve"  BY <1>4, <2>1, <2>2
  <2>3. CASE maint' = "reserve"
    <3>1. Cardinality(conns') < Target  BY <1>7, <2>3 DEF Sweep
    <3>2. Connecting' = Connecting  BY <2>1 DEF Connecting
    <3>3. Cardinality(conns') <= Cardinality(conns)  BY <1>1, <2>1, FS_Subset
    <3>4. Size' <= Size  BY <1>1, <1>2, <2>1, <3>2, <3>3
    <3>5. Size' + Cardinality(conns) = Size + Cardinality(conns')
      BY <1>1, <1>2, <2>1, <3>2
    <3>6. Size' <= Cardinality(conns') + scaleInFlight + ReplenishParallelism + MissedByWakes
      BY <1>0, <1>1, <1>2, <1>3, <3>5
    <3>7. Size' <= RoundBound /\ (scaling => Size' < RoundBound)
      BY <1>0, <1>1, <1>2, <1>3, <3>1, <3>6 DEF Growth
    <3>8. MissedByWakes' = MissedByWakes  BY <1>0, <2>1, MissedFacts
    <3>9. RoundBound' = RoundBound  BY <3>8 DEF RoundBound
    <3> QED  BY <1>0, <1>1, <1>3, <2>1, <3>4, <3>7, <3>9 DEF Growth
  <2> QED  BY <2>2, <2>3
<1>8. CASE Reserve
  <2>1. /\ UNCHANGED <<worker, conns, scaleVars, wakes>> /\ maint = "reserve" /\ Reserved = 0
        /\ maint' # "reserve"
    BY <1>8 DEF Reserve, Reserved
  <2>2. Reserved' <= ReplenishParallelism
    <3>1. CASE maint' = "wait"  BY <1>0, <3>1 DEF Reserved
    <3>2. CASE /\ maint' = "round"
               /\ count' = IF Target - count > Available THEN Available ELSE Target - count
      <4>1. Available \in Int /\ Available <= ReplenishParallelism /\ Target - count \in Int
        BY <1>0 DEF Available, TypeOK
      <4>2. count' <= Available  BY <3>2, <4>1
      <4>3. count' \in Nat  BY <1>0 DEF Typed, TypeOK
      <4> QED  BY <1>0, <3>2, <4>1, <4>2, <4>3 DEF Reserved
    <3> QED  BY <1>8, <3>1, <3>2 DEF Reserve
  <2>3. Connecting' = Connecting  BY <2>1 DEF Connecting
  <2>4. Size' = Size + Reserved'  BY <1>1, <1>2, <2>1, <2>3
  <2>5. MissedByWakes' = MissedByWakes  BY <1>0, <2>1, MissedFacts
  <2>6. RoundBound' = RoundBound  BY <2>5 DEF RoundBound
  <2>7. Size <= RoundBound /\ (scaling => Size < RoundBound)  BY <2>1 DEF Growth
  <2>8. /\ Size' <= RoundBound + ReplenishParallelism
        /\ scaling => Size' < RoundBound + ReplenishParallelism
    BY <1>0, <1>1, <1>2, <2>2, <2>4, <2>7
  <2> QED  BY <2>1, <2>6, <2>8 DEF Growth
<1>9. ASSUME NEW kind \in {"replenish", "scale"}, NEW n \in Nat, Spawn(kind, n)
      PROVE  Cardinality(Connecting') = Cardinality(Connecting) + n
  <2>1. PICK T \in SUBSET Running("none") : Cardinality(T) = n /\
            worker' = [w \in Workers |-> IF w \in T THEN Attempt(kind) ELSE worker[w]]
    BY <1>0, <1>9, SpawnFacts
  <2>2. Connecting' = Connecting \cup T /\ Connecting \cap T = {}
    BY <1>0, <2>1 DEF Connecting, Running, Attempt, WorkerShape
  <2>3. IsFiniteSet(T)  BY <1>0, FS_Subset, SizesFinite
  <2>4. Cardinality(Connecting \cup T)
          = Cardinality(Connecting) + Cardinality(T) - Cardinality(Connecting \cap T)
    BY <1>1, <2>3, FS_Union
  <2>5. Cardinality(Connecting \cap T) = 0  BY <2>2, FS_EmptySet
  <2> QED  BY <1>1, <2>1, <2>2, <2>4, <2>5
<1>10. CASE SpawnReplenish
  <2>1. /\ Spawn("replenish", count) /\ Reserved = count /\ Reserved' = 0
        /\ UNCHANGED <<conns, scaleVars, wakes>> /\ maint' # "reserve"
    BY <1>10 DEF SpawnReplenish, Reserved
  <2>2. Cardinality(Connecting') = Cardinality(Connecting) + count  BY <1>0, <1>9, <2>1
  <2>3. Size' = Size  BY <1>0, <1>1, <1>2, <2>1, <2>2
  <2> QED  BY <1>0, <1>1, <1>2, <1>3, <2>1, <2>3, NotGrown
<1>11. CASE StartScale
  <2>1. /\ UNCHANGED <<worker, conns, maint, count, scaleInFlight, wakes>> /\ scaling' = TRUE
        /\ Cardinality(conns) + scaleInFlight < MaxPool /\ scaleInFlight < ScaleParallelism
    BY <1>11 DEF StartScale
  <2>2. Connecting' = Connecting /\ Reserved' = Reserved  BY <2>1 DEF Connecting, Reserved
  <2>3. Size' = Size  BY <1>1, <2>1, <2>2
  <2>4. Size < RoundBound  BY <1>0, <1>1, <2>1
  <2>5. MissedByWakes' = MissedByWakes  BY <1>0, <2>1, MissedFacts
  <2>6. RoundBound' = RoundBound  BY <2>5 DEF RoundBound
  <2>7. RoundBound \in Nat /\ ReplenishParallelism \in Nat /\ ScaleParallelism \in Nat
    BY <1>0, <1>1
  <2>8. /\ Size' < RoundBound' + ReplenishParallelism /\ Size' < RoundBound'
        /\ scaleInFlight' < ScaleParallelism
    BY <1>1, <2>1, <2>3, <2>4, <2>6, <2>7
  <2> QED  BY <1>0, <1>1, <1>2, <1>3, <2>6, <2>7, <2>8 DEF Growth
<1>12. CASE SpawnScale
  <2>1. /\ Spawn("scale", 1) /\ UNCHANGED <<conns, maint, count, wakes>>
        /\ scaling = TRUE /\ scaling' = FALSE /\ scaleInFlight' = scaleInFlight + 1
    BY <1>0, <1>12 DEF SpawnScale, TypeOK
  <2>2. Cardinality(Connecting') = Cardinality(Connecting) + 1  BY <1>9, <2>1
  <2>3. Reserved' = Reserved  BY <2>1 DEF Reserved
  <2>4. Size' = Size + 1  BY <1>1, <1>2, <2>1, <2>2, <2>3
  <2>5. MissedByWakes' = MissedByWakes  BY <1>0, <2>1, MissedFacts
  <2>6. RoundBound' = RoundBound  BY <2>5 DEF RoundBound
  <2>7. RoundBound \in Nat /\ ReplenishParallelism \in Nat /\ ScaleParallelism \in Nat
    BY <1>0, <1>1
  <2>8. scaleInFlight' <= ScaleParallelism  BY <1>0, <2>1, <2>7 DEF Growth
  <2>9. /\ Size' <= RoundBound + ReplenishParallelism
        /\ maint = "reserve" => Size' <= RoundBound
    BY <1>1, <1>3, <2>1, <2>4, <2>7 DEF Growth
  <2> QED  BY <2>1, <2>6, <2>8, <2>9 DEF Growth
<1>13. ASSUME NEW w \in Workers, WorkerStep(w) PROVE Growth'
  <2>0. UNCHANGED <<scaling, wakes, maint, count>> /\ Reserved' = Reserved
        /\ scaleInFlight' <= scaleInFlight
    BY <1>0, <1>13 DEF WorkerStep, SessionReady, SSHReady, ConnectFails, Rotate, AppendConn,
       RecordSuccess, FinishReplenish, FinishScale, EndWorker, Reserved
  <2>1. CASE AppendConn(w)
    <3>1. conns' = conns \cup {worker[w].conn} /\ w \in Connecting
          /\ worker'[w].step \in {"record", "finish"}
          /\ \A v \in Workers : v # w => worker'[v] = worker[v]
      BY <1>0, <2>1 DEF AppendConn, At, Connecting, WorkerType
    <3>2. Connecting' = Connecting \ {w}  BY <3>1 DEF Connecting
    <3>3. Cardinality(Connecting') = Cardinality(Connecting) - 1
      BY <1>1, <3>1, <3>2, FS_RemoveElement
    <3>4. Cardinality(conns') <= Cardinality(conns) + 1
      <4>1. \/ Cardinality(conns \cup {worker[w].conn}) = Cardinality(conns)
            \/ Cardinality(conns \cup {worker[w].conn}) = Cardinality(conns) + 1
        BY <1>1, FS_AddElement
      <4>2. Cardinality(conns) \in Nat  BY <1>1
      <4> QED  BY <3>1, <4>1, <4>2
    <3>5. Size' <= Size  BY <1>1, <1>2, <2>0, <3>3, <3>4
    <3> QED  BY <1>0, <1>2, <1>3, <2>0, <3>5, NotGrown
  <2>2. CASE \/ SessionReady(w) \/ SSHReady(w) \/ ConnectFails(w) \/ Rotate(w)
             \/ RecordSuccess(w) \/ FinishReplenish(w) \/ FinishScale(w)
    <3> USE DEF SessionReady, SSHReady, ConnectFails, Rotate, RecordSuccess, FinishReplenish,
            FinishScale, EndWorker, Goto, At
    <3>1. UNCHANGED conns  BY <2>2
    <3>2. \A v \in Workers : v # w => worker'[v] = worker[v]  BY <1>0, <2>2
    <3>3. worker'[w].step \in {"session", "ssh", "connected"} =>
              worker[w].step \in {"session", "ssh", "connected"}
      BY <1>0, <2>2 DEF WorkerType, Idle
    <3>4. Connecting' \subseteq Connecting  BY <3>2, <3>3 DEF Connecting
    <3>5. Cardinality(Connecting') <= Cardinality(Connecting)  BY <1>1, <3>4, FS_Subset
    <3>6. Size' <= Size  BY <1>1, <1>2, <2>0, <3>1, <3>5
    <3> QED  BY <1>0, <1>2, <1>3, <2>0, <3>6, NotGrown
  <2> QED  BY <1>13, <2>1, <2>2 DEF WorkerStep
<1> QED  BY <1>5, <1>6, <1>7, <1>8, <1>10, <1>11, <1>12, <1>13
     DEF Next, ConnectStep, MaintainStep

\* An empty pool with nothing in flight is within the bounds.
LEMMA CountsInit ==
  ASSUME Init
  PROVE  Counted /\ Growth
<1>1. Running("replenish") = {} /\ Connecting = {} /\ Reserved = 0
  BY DEF Init, Running, Connecting, Reserved, Idle
<1>2. Typed /\ TypeOK  BY TypedInit DEF Typed
<1>3. MissedByWakes \in Nat /\ ReplenishParallelism \in Nat
      /\ ScaleParallelism \in Nat \ {0} /\ MaxPool \in Nat
  BY <1>2, MissedFacts, SizeAssumption
<1>4. Attempts = 0 /\ Size = 0
  BY <1>1, FS_EmptySet DEF Attempts, Size, Init
<1>5. Counted  BY <1>3, <1>4 DEF Counted, AttemptsCounted, Init
<1>6. scaleInFlight = 0 /\ ~scaling /\ maint # "reserve"  BY DEF Init
<1> QED  BY <1>3, <1>4, <1>5, <1>6 DEF Growth, RoundBound

\* The counts and the bounds hold in every behaviour.
LEMMA CountsInvariance == Spec => [](Typed /\ Counted /\ Growth)
<1>1. Init => Typed /\ Counted /\ Growth  BY TypedInit, CountsInit
<1>2. Typed /\ Counted /\ Growth /\ [Next]_vars => (Typed /\ Counted /\ Growth)'
  BY TypedStep, CountedStep, GrowthStep
<1> QED  BY <1>1, <1>2, PTL DEF Spec

\* replenishInFlight never counts an attempt that is gone, and misses at most
\* a round of those that run for each system sleep (pool.go:1449-1455, 1489).
THEOREM AttemptsAlwaysCounted == Spec => []AttemptsCounted
<1>1. Counted => AttemptsCounted  BY DEF Counted
<1> QED  BY <1>1, CountsInvariance, PTL

\* The pool outgrows maxPoolSize by no more than two rounds of replenishment,
\* and one more for each sleep (pool.go:927, 1646).
THEOREM GrowthAlwaysBounded == Spec => []GrowthBounded
<1>1. Typed /\ Counted /\ Growth => GrowthBounded
  <2> SUFFICES ASSUME Typed, Counted, Growth PROVE GrowthBounded  OBVIOUS
  <2>1. /\ MissedByWakes \in Nat /\ MaxPool \in Nat /\ ReplenishParallelism \in Nat
        /\ Size \in Nat
    BY MissedFacts, SizeFacts, SizeAssumption DEF Typed
  <2>2. Size <= RoundBound + ReplenishParallelism  BY DEF Growth
  <2> QED  BY <2>1, <2>2 DEF GrowthBounded, RoundBound
<1> QED  BY <1>1, CountsInvariance, PTL
=============================================================================
