------------------------------- MODULE Proxy -------------------------------
(***************************************************************************)
(* The program: the SOCKS5 server whose dial function asks the router and  *)
(* the pool (internal/proxy/server.go), the routes reloaded from the file  *)
(* meanwhile, and the shutdown (cmd/session-proxy/main.go).                *)
(***************************************************************************)
EXTENDS Socks5, ConfigReload

CONSTANT Destinations    \* where clients ask to be connected

VARIABLE poolClosed      \* Pool.Close was called

vars == <<socksVars, configVars, poolClosed>>

Init == SocksInit /\ ConfigInit /\ poolClosed = FALSE

-----------------------------------------------------------------------------
\* The dial function: without an upstream the connection is direct.
Dial(c) == \E dest \in Destinations :
    /\ StartDial(c, IF Match(dest) = Blank THEN Direct ELSE Match(dest))
    /\ UNCHANGED <<configVars, poolClosed>>

DialReturns(c) ==
    /\ DialConnects(c) /\ (conn[c].via = Direct \/ ~poolClosed)
    /\ UNCHANGED <<configVars, poolClosed>>

\* A signal: the contexts of the server, its dials and the watcher end.
Shutdown ==
    /\ ~stopped /\ stopped' = TRUE
    /\ UNCHANGED <<conn, tokens, configVars, poolClosed>>

\* The goroutine of Start: the pool closes, and with it what is relayed.
ClosePool ==
    /\ stopped /\ ~poolClosed /\ poolClosed' = TRUE
    /\ conn' = [c \in Clients |->
                  IF HasRemote(c) /\ conn[c].via # Direct
                  THEN [conn[c] EXCEPT !.remote = "closed"] ELSE conn[c]]
    /\ UNCHANGED <<tokens, stopped, configVars>>

StopWatching == stopped /\ EndWatch /\ UNCHANGED <<socksVars, poolClosed>>

Next ==
    \/ \E c \in Clients : \/ ConnStep(c) /\ UNCHANGED <<configVars, poolClosed>>
                          \/ Dial(c) \/ DialReturns(c)
    \/ ~stopped /\ WriteFile /\ UNCHANGED <<socksVars, poolClosed>>
    \/ ConfigStep /\ UNCHANGED <<socksVars, poolClosed>>
    \/ Shutdown \/ ClosePool \/ StopWatching

Spec == Init /\ [][Next]_vars

Alone(A) == A /\ UNCHANGED <<configVars, poolClosed>>

\* Goroutines run; a dial whose context has ended returns, others need not; a
\* destination told of the end of a stream closes; events are delivered.
Fairness ==
    /\ \A c \in Clients :
          /\ WF_vars(Alone(HandlerStep(c))) /\ WF_vars(Alone(WatcherStep(c)))
          /\ WF_vars(Alone(DialCanceled(c))) /\ WF_vars(Dial(c))
          /\ WF_vars(Alone(CopyUp(c))) /\ WF_vars(Alone(CopyUpEnds(c)))
          /\ WF_vars(Alone(CopyDownEnds(c)))
          /\ WF_vars(Alone(conn[c].remote = "eof" /\ RemoteCloses(c)))
    /\ WF_vars((TakeEvent \/ Reload \/ Update) /\ UNCHANGED <<socksVars, poolClosed>>)

LiveSpec == Spec /\ Fairness

-----------------------------------------------------------------------------
\* Every variable keeps its type (server.go:61-77, options.go:30-58,
\* router.go:16-28).
TypeOK ==
    /\ conn \in [Clients ->
         [client : {"away", "open", "ended"},
          data : {"none", "wire", "buffered"},
          deadline : {"none", "later", "passed"},
          handler : {"none", "done"} \cup Served,
          watcher : {"none", "check", "arm", "peek", "end", "done"},
          ctx : {"live", "timeout", "disconnect"},
          via : {Blank, Direct} \cup DOMAIN options,
          remote : {"none", "open", "eof", "closed"},
          up : {"none", "run", "ended"}, down : {"none", "run", "ended"}]]
    /\ tokens \in Nat /\ stopped \in BOOLEAN /\ poolClosed \in BOOLEAN
    /\ file \in Files /\ loaded \in Files /\ writes \in 0..MaxWrites
    /\ watch \in {"off", "on", "ended"} /\ events \in 0..MaxWrites
    /\ reload \in {"idle", "read", "update"}
    /\ \E f \in Files : rules = RulesOf(f)

\* A place is held for each connection that is served, no more of them than
\* the limit, whichever way they end (server.go:133-141).
TokensHeld == /\ tokens = Cardinality(Serving)
              /\ MaxConns # 0 => tokens <= MaxConns

\* Once the relay reads the client's buffered reader, which is not safe for
\* two goroutines, the watcher has left it (server.go:531-535).
OneReader == \A c \in Clients : conn[c].up = "run" => conn[c].watcher = "done"

\* A dial in progress and every route lead to an upstream the pool has, or
\* nowhere but directly, whatever the file says by now (options.go:370-385).
RoutesResolvable ==
    LET known == DOMAIN options \cup {Blank, Direct} IN
    /\ rules.default \in known
    /\ \A i \in DOMAIN rules.routes : rules.routes[i].upstream \in known
    /\ \A c \in Clients : conn[c].via \in known

\* What the user saved last, once noticed, is what the router goes by, if the
\* upstreams are those the program was started with (options.go:284, 311-333).
Loadable(f) == /\ f.parses /\ f.upstreams = StartFile.upstreams
               /\ NamesResolve(f) /\ RulesParse(f)
RouterConverges == \A f \in {g \in Files : Loadable(g)} :
    (events > 0 /\ file = f) ~> (rules = RulesOf(f) \/ file # f \/ stopped)

\* A client that leaves while its dial hangs ends it, unless it has sent
\* something: then the watcher has stopped (server.go:564-576).
DisconnectEndsDial == \A c \in Clients :
    (conn[c].handler = "dial" /\ HasEnded(c) /\ conn[c].data = "none") ~>
        (conn[c].handler # "dial")

\* What a client sent early and the watcher buffered reaches the destination
\* (server.go:564-568).
BufferedRelayed == \A c \in Clients :
    (conn[c].handler = "relay" /\ conn[c].data = "buffered" /\ HasRemote(c)) ~>
        (conn[c].data # "buffered" \/ ~HasRemote(c))

\* A client that ends its stream ends a relay to a direct destination
\* (server.go:469-477).
DirectRelayEnds == \A c \in Clients :
    (conn[c].handler = "relay" /\ HasEnded(c) /\ conn[c].via = Direct) ~>
        (conn[c].handler # "relay")

\* No deadline of the negotiation or the dial is left on a relay's client.
RelayWithoutDeadline == \A c \in Clients :
    conn[c].handler = "relay" => conn[c].deadline = "none"
=============================================================================
