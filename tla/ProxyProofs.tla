---------------------------- MODULE ProxyProofs ----------------------------
(***************************************************************************)
(* Proofs about Proxy for any clients, connection limit, configuration     *)
(* files and destinations.                                                 *)
(***************************************************************************)
EXTENDS Proxy, FiniteSetTheorems, TLAPS

Known == DOMAIN options \cup {Blank, Direct}

\* A connection, but for where its dial leads.
ConnType ==
    [client : {"away", "open", "ended"},
     data : {"none", "wire", "buffered"},
     deadline : {"none", "later", "passed"},
     handler : {"none", "done"} \cup Served,
     watcher : {"none", "check", "arm", "peek", "end", "done"},
     ctx : {"live", "timeout", "disconnect"},
     via : {Blank, Direct} \cup DOMAIN options,
     remote : {"none", "open", "eof", "closed"},
     up : {"none", "run", "ended"}, down : {"none", "run", "ended"}]

\* The handler passes stopWatch only behind the watcher, and only the relay
\* runs the copies.
Ordered(r) ==
    /\ r.handler \in {"reply", "relay"} => r.watcher = "done"
    /\ r.up = "run" => r.handler = "relay"
    /\ r.client = "away" => r.handler = "none"

\* A file whose routes lead to upstreams the pool was given.
Usable(f) == f \in Files /\ NamesResolve(f) /\ DOMAIN f.upstreams = DOMAIN options

\* What reload checked still holds of what Update installs.
ConfigOK ==
    /\ options = Defaulted(StartFile.upstreams)
    /\ file \in Files /\ loaded \in Files /\ writes \in 0..MaxWrites
    /\ watch \in {"off", "on", "ended"} /\ reload \in {"idle", "read", "update"}
    /\ events \in Nat /\ events + writes <= MaxWrites
    /\ reload = "update" => Usable(loaded)
    /\ \E f \in Files : Usable(f) /\ rules = RulesOf(f)

ConnsOK ==
    /\ conn \in [Clients -> ConnType]
    /\ \A c \in Clients : Ordered(conn[c])
    /\ stopped \in BOOLEAN /\ poolClosed \in BOOLEAN

IInv == ConfigOK /\ ConnsOK /\ TokensHeld

-----------------------------------------------------------------------------
\* Of natural numbers there is a least.
LEMMA LeastExists ==
  ASSUME NEW S, S \subseteq Nat, S # {}
  PROVE  \E x \in S : \A y \in S : x <= y
<1> DEFINE R == OpToRel(<, Nat)
<1>1. PICK x \in S : \A y \in S : ~ (<<y, x>> \in R)
  BY NatLessThanWellFounded, WFMin
<1>2. \A a, b \in Nat : a < b => <<a, b>> \in R
  BY DEF OpToRel
<1> HIDE DEF R
<1>3. ASSUME NEW y \in S PROVE x <= y
  <2>1. ~(<<y, x>> \in R)  BY <1>1
  <2>2. y \in Nat /\ x \in Nat  OBVIOUS
  <2>3. ~(y < x) BY <2>1, <2>2, <1>2
  <2> QED BY <2>2, <2>3
<1> QED  BY <1>3

\* Router.Match answers with a name of the rules, whatever is asked.
LEMMA MatchKnown ==
  ASSUME ConfigOK, NEW dest
  PROVE  Match(dest) \in Known
<1>1. PICK f \in Files : Usable(f) /\ rules = RulesOf(f)
  BY DEF ConfigOK
<1>2. rules.routes = f.routes /\ rules.default = f.default
  BY <1>1 DEF RulesOf
<1>3. /\ rules.default \in Known
      /\ \A i \in DOMAIN rules.routes : rules.routes[i].upstream \in Known
  BY <1>1, <1>2 DEF Usable, NamesResolve, Known, Direct, DirectName
<1>4. CASE Matching(dest) = {}
  BY <1>3, <1>4 DEF Match
<1>5. CASE Matching(dest) # {}
  <2>1. Matching(dest) \subseteq DOMAIN rules.routes /\ Matching(dest) \subseteq Nat
    BY <1>2, FileAssumption DEF Matching
  <2>2. \E i \in Matching(dest) : \A j \in Matching(dest) : i <= j
    BY <1>5, <2>1, LeastExists
  <2> DEFINE first == CHOOSE i \in Matching(dest) : \A j \in Matching(dest) : i <= j
  <2>3. first \in Matching(dest)  BY <2>2
  <2>4. Match(dest) = rules.routes[first].upstream  BY <1>5 DEF Match
  <2> QED  BY <1>3, <2>1, <2>3, <2>4
<1> QED  BY <1>4, <1>5

\* The file, its watcher and the reload keep the rules usable.
LEMMA ConfigKept ==
  ASSUME ConfigOK, [Next]_vars
  PROVE  ConfigOK' /\ options' = options
<1> USE FileAssumption DEF ConfigOK, Usable
<1>1. CASE WriteFile
  <2>1. PICK f \in Files : file' = f  BY <1>1 DEF WriteFile
  <2>2. writes' = writes - 1 /\ writes > 0 /\ (events' = events + 1 \/ events' = events)
    BY <1>1 DEF WriteFile
  <2>3. writes' \in 0..MaxWrites /\ events' \in Nat /\ events' + writes' <= MaxWrites
    BY <2>2
  <2>4. UNCHANGED <<options, watch, reload, loaded, rules>>  BY <1>1 DEF WriteFile
  <2> QED  BY <2>1, <2>3, <2>4 DEF NamesResolve
<1>2. CASE AddWatch \/ EndWatch
  BY <1>2 DEF AddWatch, EndWatch, NamesResolve
<1>3. CASE TakeEvent
  <2>1. events' \in Nat /\ events' + writes' <= MaxWrites  BY <1>3 DEF TakeEvent
  <2> QED  BY <1>3, <2>1 DEF TakeEvent, NamesResolve
<1>4. CASE Reload
  <2>1. UNCHANGED <<file, writes, options, watch, events, rules>>  BY <1>4 DEF Reload
  <2>2. reload' = "update" => loaded' = file /\ NamesResolve(file) /\ file.upstreams = options
    BY <1>4 DEF Reload, UpstreamsUnchanged
  <2>3. loaded' \in Files /\ reload' \in {"idle", "update"}
    BY <1>4 DEF Reload
  <2> QED  BY <2>1, <2>2, <2>3 DEF NamesResolve
<1>5. CASE Update
  <2>1. UNCHANGED <<file, writes, options, watch, events>> /\ reload' = "idle" /\ loaded' = StartFile
    BY <1>5 DEF Update
  <2>2. rules' = rules \/ rules' = RulesOf(loaded)  BY <1>5 DEF Update
  <2>3. Usable(loaded)  BY <1>5 DEF Update
  <2>4. \E f \in Files : Usable(f) /\ rules' = RulesOf(f)  BY <2>2, <2>3
  <2> QED  BY <2>1, <2>4 DEF NamesResolve
<1>6. CASE UNCHANGED configVars
  BY <1>6 DEF configVars, NamesResolve
<1> QED  BY <1>1, <1>2, <1>3, <1>4, <1>5, <1>6
     DEF Next, ConfigStep, Dial, DialReturns, Shutdown, ClosePool, StopWatching, vars

-----------------------------------------------------------------------------
\* A step of connection c changes no other connection and leaves it as it
\* should be; whether it is served does not change.
Inner(c) ==
    /\ conn' \in [Clients -> ConnType]
    /\ \A v \in Clients : v # c => conn'[v] = conn[v]
    /\ Ordered(conn'[c])
    /\ conn'[c].handler \in Served <=> conn[c].handler \in Served

\* What the goroutines of a connection do, but for its acceptance and release.
LEMMA HandlerInner ==
  ASSUME ConnsOK, NEW c \in Clients,
         \/ Handshake(c) \/ ReadRequest(c) \/ CancelWatch(c) \/ ExpireRead(c) \/ AwaitWatch(c)
         \/ Reply(c) \/ RelayEnds(c) \/ DialTimeout(c) \/ DialConnects(c) \/ DialFails(c)
  PROVE  Inner(c) /\ UNCHANGED tokens
<1> USE DEF ConnsOK, Served, HandlerTo
<1>0. conn \in [Clients -> ConnType] /\ Ordered(conn[c]) /\ conn[c] \in ConnType  OBVIOUS
<1>1. ASSUME NEW step \in Served, HandlerTo(c, step), conn[c].handler \in Served,
             step \notin {"reply", "relay"},
             conn[c].handler = "relay" => conn[c].up # "run"
      PROVE  Inner(c)
  <2>1. conn' = [conn EXCEPT ![c].handler = step]  BY <1>1
  <2>2. conn' \in [Clients -> ConnType]  BY <1>0, <2>1 DEF ConnType
  <2>3. /\ conn'[c].handler = step /\ conn'[c].up = conn[c].up
        /\ conn'[c].client = conn[c].client
        /\ \A v \in Clients : v # c => conn'[v] = conn[v]
    BY <1>0, <2>1 DEF ConnType
  <2> QED  BY <1>0, <1>1, <2>2, <2>3 DEF Inner, Ordered
<1>2. CASE Handshake(c) \/ CancelWatch(c) \/ DialFails(c) \/ RelayEnds(c)
  BY <1>1, <1>2 DEF Handshake, CancelWatch, DialFails, RelayEnds
<1>3. CASE ReadRequest(c)
  <2>1. CASE HandlerTo(c, "release")  BY <1>1, <1>3, <2>1 DEF ReadRequest
  <2>2. CASE conn' = [conn EXCEPT ![c].handler = "route", ![c].watcher = "check"]
    <3>3. /\ \A r \in ConnType : [r EXCEPT !.handler = "route"] \in ConnType
          /\ \A r \in ConnType : [r EXCEPT !.watcher = "check"] \in ConnType
      BY DEF ConnType
    <3>4. [[conn[c] EXCEPT !.handler = "route"] EXCEPT !.watcher = "check"] \in ConnType
      BY <1>0, <3>3
    <3>1. conn' \in [Clients -> ConnType]  BY <1>0, <2>2, <3>4
    <3>2. /\ conn'[c].handler = "route" /\ conn'[c].up = conn[c].up
          /\ conn'[c].client = conn[c].client
          /\ \A v \in Clients : v # c => conn'[v] = conn[v]
      BY <1>0, <2>2 DEF ConnType
    <3> QED  BY <1>0, <1>3, <3>1, <3>2 DEF Inner, Ordered, ReadRequest
  <2> QED  BY <1>3, <2>1, <2>2 DEF ReadRequest
<1>4. CASE ExpireRead(c) \/ DialTimeout(c) \/ DialConnects(c)
  <2> USE DEF ExpireRead, DialTimeout, DialConnects
  <2>1. conn' \in [Clients -> ConnType]  BY <1>0, <1>4 DEF ConnType
  <2>2. /\ conn'[c].handler \in {"awaitWatch", "dial", "cancelWatch"} /\ conn'[c].up = conn[c].up
        /\ conn'[c].client = conn[c].client
        /\ \A v \in Clients : v # c => conn'[v] = conn[v]
    BY <1>0, <1>4 DEF ConnType
  <2> QED  BY <1>0, <1>4, <2>1, <2>2 DEF Inner, Ordered
<1>5. CASE AwaitWatch(c)
  <2>1. conn' \in [Clients -> ConnType]  BY <1>0, <1>5 DEF ConnType, AwaitWatch
  <2>2. /\ conn'[c].handler \in {"release", "reply"} /\ conn'[c].up = conn[c].up
        /\ conn'[c].client = conn[c].client /\ conn'[c].watcher = "done"
        /\ \A v \in Clients : v # c => conn'[v] = conn[v]
    BY <1>0, <1>5 DEF ConnType, AwaitWatch
  <2> QED  BY <1>0, <1>5, <2>1, <2>2 DEF Inner, Ordered, AwaitWatch
<1>6. CASE Reply(c)
  <2>1. CASE HandlerTo(c, "release")  BY <1>1, <1>6, <2>1 DEF Reply
  <2>2. CASE conn' = [conn EXCEPT ![c].handler = "relay", ![c].up = "run", ![c].down = "run"]
    <3>3. /\ \A r \in ConnType : [r EXCEPT !.handler = "relay"] \in ConnType
          /\ \A r \in ConnType : [r EXCEPT !.up = "run"] \in ConnType
          /\ \A r \in ConnType : [r EXCEPT !.down = "run"] \in ConnType
      BY DEF ConnType
    <3>4. [[[conn[c] EXCEPT !.handler = "relay"] EXCEPT !.up = "run"] EXCEPT !.down = "run"]
              \in ConnType
      BY <1>0, <3>3
    <3>1. conn' \in [Clients -> ConnType]  BY <1>0, <2>2, <3>4
    <3>2. /\ conn'[c].handler = "relay" /\ conn'[c].watcher = conn[c].watcher
          /\ conn'[c].client = conn[c].client
          /\ \A v \in Clients : v # c => conn'[v] = conn[v]
      BY <1>0, <2>2 DEF ConnType
    <3> QED  BY <1>0, <1>6, <3>1, <3>2 DEF Inner, Ordered, Reply
  <2> QED  BY <1>6, <2>1, <2>2 DEF Reply
<1>7. UNCHANGED tokens
  BY DEF Handshake, ReadRequest, CancelWatch, ExpireRead, AwaitWatch, Reply, RelayEnds,
     DialTimeout, DialConnects, DialFails
<1> QED  BY <1>2, <1>3, <1>4, <1>5, <1>6, <1>7

\* What the watcher, the copies and the client do leaves the handler alone.
LEMMA OthersInner ==
  ASSUME ConnsOK, NEW c \in Clients,
         \/ WatcherStep(c) \/ Send(c) \/ EndStream(c)
         \/ CopyUp(c) \/ CopyUpEnds(c) \/ CopyDownEnds(c) \/ CopyDownFails(c) \/ RemoteCloses(c)
  PROVE  Inner(c) /\ UNCHANGED tokens
<1> USE DEF ConnsOK, Served
<1>0. conn \in [Clients -> ConnType] /\ Ordered(conn[c]) /\ conn[c] \in ConnType  OBVIOUS
<1>1. CASE WatcherStep(c)
  <2> USE DEF WatcherStep, WatchCheck, WatchArm, PeekData, PeekTimeout, PeekEof, WatchEnds, WatcherTo
  <2>1. conn' \in [Clients -> ConnType]  BY <1>0, <1>1 DEF ConnType
  <2>2. /\ conn'[c].handler = conn[c].handler /\ conn'[c].up = conn[c].up
        /\ conn'[c].client = conn[c].client /\ conn[c].watcher # "done"
        /\ \A v \in Clients : v # c => conn'[v] = conn[v]
    BY <1>0, <1>1 DEF ConnType
  <2>3. UNCHANGED tokens  BY <1>1
  <2> QED  BY <1>0, <2>1, <2>2, <2>3 DEF Inner, Ordered
<1>2. CASE \/ Send(c) \/ EndStream(c)
           \/ CopyUp(c) \/ CopyUpEnds(c) \/ CopyDownEnds(c) \/ CopyDownFails(c) \/ RemoteCloses(c)
  <2> USE DEF Send, EndStream, CopyUp, CopyUpEnds, CopyDownEnds, CopyDownFails, RemoteCloses
  <2>1. conn' \in [Clients -> ConnType]  BY <1>0, <1>2 DEF ConnType
  <2>2. /\ conn'[c].handler = conn[c].handler /\ conn'[c].watcher = conn[c].watcher
        /\ conn'[c].up \in {conn[c].up, "ended"}
        /\ conn'[c].client = "away" => conn[c].client = "away"
        /\ \A v \in Clients : v # c => conn'[v] = conn[v]
    BY <1>0, <1>2 DEF ConnType
  <2>3. UNCHANGED tokens  BY <1>2
  <2> QED  BY <1>0, <2>1, <2>2, <2>3 DEF Inner, Ordered
<1> QED  BY <1>1, <1>2

\* Connections as they should be, in terms of the types before the step.
ConnsKept ==
    /\ conn' \in [Clients -> ConnType] /\ \A c \in Clients : Ordered(conn'[c])
    /\ TokensHeld'

\* An inner step takes no place and gives none back.
LEMMA InnerKeeps ==
  ASSUME ConnsOK, TokensHeld, NEW c \in Clients, Inner(c), UNCHANGED tokens
  PROVE  ConnsKept
<1>1. \A v \in Clients : Ordered(conn'[v])  BY DEF ConnsOK, Inner
<1>2. Serving' = Serving  BY DEF Serving, Inner
<1> QED  BY <1>1, <1>2 DEF ConnsKept, Inner, TokensHeld

\* The connections that are served are finitely many.
LEMMA ServingFinite == IsFiniteSet(Serving) /\ Cardinality(Serving) \in Nat
BY LimitAssumption, FS_Subset, FS_CardinalityType DEF Serving

\* A place is taken with a connection that is served from then on.
LEMMA AcceptKeeps ==
  ASSUME ConnsOK, TokensHeld, NEW c \in Clients, Accept(c)
  PROVE  ConnsKept
<1>0. /\ conn \in [Clients -> ConnType] /\ Ordered(conn[c]) /\ conn[c] \in ConnType
      /\ conn[c].client = "away" /\ conn[c].handler = "none"
  BY DEF ConnsOK, Ordered, Accept
<1>1. PICK client \in {"open", "ended"}, handler \in {"handshake", "done"} :
          conn' = [conn EXCEPT ![c].client = client, ![c].handler = handler]
  BY DEF Accept
<1>2. \A r \in ConnType : [r EXCEPT !.client = client] \in ConnType
  BY DEF ConnType
<1>3. \A r \in ConnType : [r EXCEPT !.handler = handler] \in ConnType
  BY DEF ConnType, Served
<1>4. [[conn[c] EXCEPT !.client = client] EXCEPT !.handler = handler] \in ConnType
  BY <1>0, <1>2, <1>3
<1>5. conn' \in [Clients -> ConnType]  BY <1>0, <1>1, <1>4
<1>6. /\ conn'[c].handler = handler /\ conn'[c].client = client /\ conn'[c].up = conn[c].up
      /\ \A v \in Clients : v # c => conn'[v] = conn[v]
  BY <1>0, <1>1 DEF ConnType
<1>7. \A v \in Clients : Ordered(conn'[v])
  BY <1>0, <1>6 DEF ConnsOK, Ordered
<1>8. CASE /\ MaxConns = 0 \/ tokens < MaxConns
           /\ tokens' = tokens + 1
           /\ conn' = [conn EXCEPT ![c].client = "open", ![c].handler = "handshake"]
  <2>1. conn'[c].handler = "handshake"  BY <1>0, <1>8 DEF ConnType
  <2>2. Serving' = Serving \cup {c} /\ c \notin Serving
    BY <1>0, <1>6, <2>1 DEF Serving, Served
  <2>3. Cardinality(Serving') = Cardinality(Serving) + 1
    BY <2>2, ServingFinite, FS_AddElement
  <2>4. TokensHeld'
    BY <1>8, <2>3, ServingFinite, LimitAssumption DEF TokensHeld
  <2> QED  BY <1>5, <1>7, <2>4 DEF ConnsKept
<1>9. CASE /\ UNCHANGED tokens
           /\ conn' = [conn EXCEPT ![c].client = "ended", ![c].handler = "done"]
  <2>1. conn'[c].handler = "done"  BY <1>0, <1>9 DEF ConnType
  <2>2. Serving' = Serving  BY <1>0, <1>6, <2>1 DEF Serving, Served
  <2>3. TokensHeld'  BY <1>9, <2>2 DEF TokensHeld
  <2> QED  BY <1>5, <1>7, <2>3 DEF ConnsKept
<1> QED  BY <1>8, <1>9 DEF Accept

\* A place is given back with a connection that was served until then.
LEMMA ReleaseKeeps ==
  ASSUME ConnsOK, TokensHeld, NEW c \in Clients, Release(c)
  PROVE  ConnsKept
<1>0. conn \in [Clients -> ConnType] /\ conn[c].handler = "release"
  BY DEF ConnsOK, Release
<1> DEFINE r == [NewConn EXCEPT !.handler = "done", !.client = "ended"]
<1>1. r \in ConnType /\ r.handler = "done" /\ Ordered(r)
  BY DEF NewConn, ConnType, Ordered, Blank
<1> HIDE DEF r
<1>2. conn' = [conn EXCEPT ![c] = r] /\ tokens' = tokens - 1
  BY DEF Release, r
<1>3. /\ conn' \in [Clients -> ConnType] /\ conn'[c] = r
      /\ \A v \in Clients : v # c => conn'[v] = conn[v]
  BY <1>0, <1>1, <1>2
<1>4. \A v \in Clients : Ordered(conn'[v])  BY <1>1, <1>3 DEF ConnsOK
<1>5. Serving' = Serving \ {c} /\ c \in Serving
  BY <1>0, <1>1, <1>3 DEF Serving, Served
<1>6. Cardinality(Serving') = Cardinality(Serving) - 1
  BY <1>5, ServingFinite, FS_RemoveElement
<1>7. TokensHeld'
  BY <1>2, <1>6, ServingFinite, LimitAssumption DEF TokensHeld
<1> QED  BY <1>3, <1>4, <1>7 DEF ConnsKept

\* A dial leads to an upstream the pool has, or is direct.
LEMMA DialKeeps ==
  ASSUME ConfigOK, ConnsOK, TokensHeld, NEW c \in Clients, Dial(c)
  PROVE  ConnsKept
<1>0. conn \in [Clients -> ConnType] /\ Ordered(conn[c]) /\ conn[c].handler = "route"
  BY DEF ConnsOK, Dial, StartDial
<1>1. PICK name : /\ name \in Known
                  /\ conn' = [conn EXCEPT ![c].handler = "dial", ![c].via = name]
                  /\ UNCHANGED tokens
  <2>1. PICK dest \in Destinations :
            StartDial(c, IF Match(dest) = Blank THEN Direct ELSE Match(dest))
    BY DEF Dial
  <2>2. Match(dest) \in Known  BY MatchKnown
  <2> QED  BY <2>1, <2>2 DEF StartDial, Known
<1>2. /\ \A r \in ConnType : [r EXCEPT !.handler = "dial"] \in ConnType
      /\ \A r \in ConnType : [r EXCEPT !.via = name] \in ConnType
  BY <1>1 DEF ConnType, Served, Known
<1>3. [[conn[c] EXCEPT !.handler = "dial"] EXCEPT !.via = name] \in ConnType
  BY <1>0, <1>2
<1>4. conn' \in [Clients -> ConnType]  BY <1>0, <1>1, <1>3
<1>5. /\ conn'[c].handler = "dial" /\ conn'[c].up = conn[c].up /\ conn'[c].client = conn[c].client
      /\ \A v \in Clients : v # c => conn'[v] = conn[v]
  <2>1. conn'[c] = [[conn[c] EXCEPT !.handler = "dial"] EXCEPT !.via = name]  BY <1>0, <1>1
  <2>2. \A r \in ConnType : [r EXCEPT !.handler = "dial"].handler = "dial"  BY DEF ConnType
  <2>3. /\ conn'[c].handler = [conn[c] EXCEPT !.handler = "dial"].handler
        /\ conn'[c].up = conn[c].up
        /\ conn'[c].client = conn[c].client
    BY <1>0, <1>2, <2>1 DEF ConnType
  <2> QED  BY <1>0, <1>1, <2>2, <2>3
<1>6. Inner(c)  BY <1>0, <1>4, <1>5 DEF Inner, Ordered, Served
<1> QED  BY <1>1, <1>6, InnerKeeps

\* Closing the pool ends what is relayed through it, and no handler.
LEMMA ClosePoolKeeps ==
  ASSUME ConnsOK, TokensHeld, ClosePool
  PROVE  ConnsKept
<1>0. conn \in [Clients -> ConnType]  BY DEF ConnsOK
<1>1. \A c \in Clients : conn'[c] = conn[c] \/ conn'[c] = [conn[c] EXCEPT !.remote = "closed"]
  BY DEF ClosePool
<1>2. \A r \in ConnType : [r EXCEPT !.remote = "closed"] \in ConnType  BY DEF ConnType
<1>3. conn' \in [Clients -> ConnType]  BY <1>0, <1>2 DEF ClosePool
<1>4. \A c \in Clients : /\ conn'[c].handler = conn[c].handler /\ conn'[c].up = conn[c].up
                         /\ conn'[c].watcher = conn[c].watcher /\ conn'[c].client = conn[c].client
  <2>1. \A r \in ConnType :
            /\ [r EXCEPT !.remote = "closed"].handler = r.handler
            /\ [r EXCEPT !.remote = "closed"].up = r.up
            /\ [r EXCEPT !.remote = "closed"].watcher = r.watcher
            /\ [r EXCEPT !.remote = "closed"].client = r.client
    BY DEF ConnType
  <2> QED  BY <1>0, <1>1, <2>1
<1>5. \A c \in Clients : Ordered(conn'[c])  BY <1>4 DEF ConnsOK, Ordered
<1>6. Serving' = Serving  BY <1>4 DEF Serving
<1> QED  BY <1>3, <1>5, <1>6 DEF ConnsKept, TokensHeld, ClosePool

\* Every step keeps the inductive invariant.
LEMMA IInvStep ==
  ASSUME IInv, [Next]_vars
  PROVE  IInv'
<1>0. ConfigOK /\ ConnsOK /\ TokensHeld  BY DEF IInv
<1>1. ConfigOK' /\ options' = options  BY <1>0, ConfigKept
<1>2. ConnsKept
  <2>1. ASSUME NEW c \in Clients, ConnStep(c) PROVE ConnsKept
    BY <1>0, <2>1, HandlerInner, OthersInner, InnerKeeps, AcceptKeeps, ReleaseKeeps
       DEF ConnStep, HandlerStep
  <2>2. ASSUME NEW c \in Clients, DialReturns(c) PROVE ConnsKept
    BY <1>0, <2>2, HandlerInner, InnerKeeps DEF DialReturns
  <2>3. CASE UNCHANGED <<conn, tokens>>
    BY <1>0, <2>3 DEF ConnsKept, ConnsOK, TokensHeld, Serving
  <2> QED  BY <1>0, <2>1, <2>2, <2>3, DialKeeps, ClosePoolKeeps
           DEF Next, Shutdown, StopWatching, vars, socksVars
<1>3. stopped' \in BOOLEAN /\ poolClosed' \in BOOLEAN
  <2>1. stopped' = stopped \/ stopped' = TRUE
    <3>1. ASSUME NEW c \in Clients, ConnStep(c) \/ Dial(c) \/ DialReturns(c)
          PROVE  UNCHANGED stopped
      BY <3>1 DEF ConnStep, HandlerStep, WatcherStep, Send, EndStream, Accept, DialTimeout, DialFails,
         CopyUp, CopyUpEnds, CopyDownEnds, CopyDownFails, RemoteCloses, Handshake, ReadRequest,
         CancelWatch, ExpireRead, AwaitWatch, Reply, RelayEnds, Release, WatchCheck, WatchArm,
         PeekData, PeekTimeout, PeekEof, WatchEnds, Dial, StartDial, DialReturns, DialConnects
    <3> QED  BY <3>1 DEF Next, Shutdown, ClosePool, StopWatching, vars, socksVars
  <2>2. poolClosed' = poolClosed \/ poolClosed' = TRUE
    BY DEF Next, Dial, DialReturns, Shutdown, ClosePool, StopWatching, vars
  <2> QED  BY <1>0, <2>1, <2>2 DEF ConnsOK
<1>4. ConnType' = ConnType  BY <1>1 DEF ConnType
<1>5. ConnsOK'  BY <1>2, <1>3, <1>4 DEF ConnsOK, ConnsKept, Ordered
<1> QED  BY <1>1, <1>2, <1>5 DEF IInv, ConnsKept

\* No client has called, and the router has the rules of a file that was checked.
LEMMA InitIInv == Init => IInv
<1> SUFFICES ASSUME Init PROVE IInv  OBVIOUS
<1> USE FileAssumption DEF Init, SocksInit, ConfigInit
<1>1. DOMAIN StartFile.upstreams = DOMAIN options  BY DEF Defaulted
<1>2. Usable(StartFile) /\ rules = RulesOf(StartFile)  BY <1>1 DEF Usable
<1>3. ConfigOK  BY <1>2 DEF ConfigOK
<1>4. NewConn \in ConnType /\ Ordered(NewConn)  BY DEF NewConn, ConnType, Ordered, Blank
<1>5. \A c \in Clients : conn[c] = NewConn  OBVIOUS
<1>6. ConnsOK  BY <1>4, <1>5 DEF ConnsOK
<1>7. Serving = {}  BY <1>5 DEF Serving, Served, NewConn
<1>8. TokensHeld  BY <1>7, FS_EmptySet, LimitAssumption DEF TokensHeld
<1> QED  BY <1>3, <1>6, <1>8 DEF IInv

\* The inductive invariant holds in every behaviour.
THEOREM ProxyInvariance == Spec => []IInv
BY InitIInv, IInvStep, PTL DEF Spec

\* Every variable keeps its type (server.go:61-77, options.go:30-58,
\* router.go:16-28).
THEOREM ProxyTypes == Spec => []TypeOK
<1>1. IInv => TypeOK
  <2> SUFFICES ASSUME IInv PROVE TypeOK  OBVIOUS
  <2>1. tokens \in Nat  BY ServingFinite DEF IInv, TokensHeld
  <2>2. events \in 0..MaxWrites  BY FileAssumption DEF IInv, ConfigOK
  <2>3. \E f \in Files : rules = RulesOf(f)  BY DEF IInv, ConfigOK
  <2> QED  BY <2>1, <2>2, <2>3 DEF IInv, ConfigOK, ConnsOK, ConnType, TypeOK
<1> QED  BY <1>1, ProxyInvariance, PTL

\* A place is held for each connection that is served, no more of them than
\* the limit (server.go:133-141).
THEOREM PlacesHeld == Spec => []TokensHeld
<1>1. IInv => TokensHeld  BY DEF IInv
<1> QED  BY <1>1, ProxyInvariance, PTL

\* The relay never reads a client together with its watcher
\* (server.go:531-535).
THEOREM ReadersApart == Spec => []OneReader
<1>1. IInv => OneReader  BY DEF IInv, ConnsOK, Ordered, OneReader
<1> QED  BY <1>1, ProxyInvariance, PTL

\* Dials and routes lead to upstreams the pool has, whatever the file has
\* become since it was checked (options.go:370-385).
THEOREM RoutesAlwaysResolvable == Spec => []RoutesResolvable
<1>1. IInv => RoutesResolvable
  <2> SUFFICES ASSUME IInv PROVE RoutesResolvable  OBVIOUS
  <2>1. PICK f \in Files : Usable(f) /\ rules = RulesOf(f)  BY DEF IInv, ConfigOK
  <2>2. rules.routes = f.routes /\ rules.default = f.default  BY <2>1 DEF RulesOf
  <2>3. \A c \in Clients : conn[c].via \in Known
    BY DEF IInv, ConnsOK, ConnType, Known
  <2> QED  BY <2>1, <2>2, <2>3 DEF RoutesResolvable, Usable, NamesResolve, Known, Direct, DirectName
<1> QED  BY <1>1, ProxyInvariance, PTL
=============================================================================
