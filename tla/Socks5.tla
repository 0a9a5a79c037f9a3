------------------------------- MODULE Socks5 -------------------------------
(***************************************************************************)
(* The SOCKS5 server (internal/socks5/server.go): the accept loop and its  *)
(* limit, the negotiation, CONNECT with the goroutine that watches for the *)
(* client's disconnect during the dial, and the relay.                     *)
(*                                                                         *)
(* A connection is a record of what its goroutines, its two sockets and    *)
(* its contexts are doing.  Deadlines and timeouts may expire at any time. *)
(* Where a destination leads is left to the module that gives the server   *)
(* its dial function.                                                      *)
(***************************************************************************)
EXTENDS Integers, FiniteSets

CONSTANTS
    Clients,     \* connections clients make
    MaxConns     \* maxConns, 0 for no limit

ASSUME LimitAssumption == MaxConns \in Nat /\ IsFiniteSet(Clients)

Direct == "DIRECT"   \* router.DirectConnection

VARIABLES
    conn,      \* each connection, from the client's call to the end of its handler
    tokens,    \* len(s.connTokens), or the handlers when there is no limit
    stopped    \* the context given to ServeContext has ended, the listener closes

socksVars == <<conn, tokens, stopped>>

\* client: away, open, or at the end of its stream (half closed or gone);
\* data: whether bytes it sent are on the wire or in the buffered reader;
\* deadline: the read deadline of its socket; remote: the destination's end,
\* which may have seen the end of the stream.
NewConn == [client |-> "away", data |-> "none", deadline |-> "none",
            handler |-> "none", watcher |-> "none", ctx |-> "live",
            via |-> "", remote |-> "none", up |-> "none", down |-> "none"]

SocksInit ==
    /\ conn = [c \in Clients |-> NewConn]
    /\ tokens = 0 /\ stopped = FALSE

Served == {"handshake", "request", "route", "dial", "cancelWatch", "expireRead",
           "awaitWatch", "reply", "relay", "release"}
Serving == {c \in Clients : conn[c].handler \in Served}
HasEnded(c) == conn[c].client = "ended"
HasRemote(c) == conn[c].remote \in {"open", "eof"}
DialEnded(c) == conn[c].ctx # "live" \/ stopped

\* The handler goes to a step, and nothing else of the connection changes.
HandlerTo(c, step) == conn' = [conn EXCEPT ![c].handler = step]

-----------------------------------------------------------------------------
(***************************************************************************)
(* The clients send, and end their stream, when they like.  What is sent   *)
(* before the reply waits on the wire.                                     *)
(***************************************************************************)
Send(c) ==
    /\ conn[c].client = "open" /\ conn[c].data = "none"
    /\ conn' = [conn EXCEPT ![c].data = "wire"]
    /\ UNCHANGED <<tokens, stopped>>

EndStream(c) ==
    /\ conn[c].client = "open" /\ conn' = [conn EXCEPT ![c].client = "ended"]
    /\ UNCHANGED <<tokens, stopped>>

(***************************************************************************)
(* ServeContext, tryAcquireConn and releaseConn                            *)
(***************************************************************************)
\* Mutant: a connection above the limit is served all the same.
AcceptAll(c) ==
    /\ conn[c].client = "away" /\ ~stopped
    /\ conn' = [conn EXCEPT ![c].client = "open", ![c].handler = "handshake"]
    /\ tokens' = IF MaxConns = 0 \/ tokens < MaxConns THEN tokens + 1 ELSE tokens
    /\ UNCHANGED stopped

\* Mutant: a connection above the limit gives a place back too.
AcceptReleasing(c) ==
    /\ conn[c].client = "away" /\ ~stopped
    /\ IF MaxConns = 0 \/ tokens < MaxConns
       THEN /\ tokens' = tokens + 1
            /\ conn' = [conn EXCEPT ![c].client = "open", ![c].handler = "handshake"]
       ELSE /\ tokens' = tokens - 1
            /\ conn' = [conn EXCEPT ![c].client = "ended", ![c].handler = "done"]
    /\ UNCHANGED stopped

Accept(c) ==
    /\ conn[c].client = "away" /\ ~stopped
    /\ \/ /\ MaxConns = 0 \/ tokens < MaxConns
          /\ tokens' = tokens + 1
          /\ conn' = [conn EXCEPT ![c].client = "open", ![c].handler = "handshake"]
       \/ /\ MaxConns # 0 /\ tokens >= MaxConns
          /\ conn' = [conn EXCEPT ![c].client = "ended", ![c].handler = "done"]
          /\ UNCHANGED tokens
    /\ UNCHANGED stopped

\* The deferred calls: close both sockets, give the token back.
Release(c) ==
    /\ conn[c].handler = "release"
    /\ conn' = [conn EXCEPT ![c] = [NewConn EXCEPT !.handler = "done", !.client = "ended"]]
    /\ tokens' = tokens - 1
    /\ UNCHANGED stopped

(***************************************************************************)
(* handleConn: the negotiation, under deadlines of its own.  Reads take    *)
(* exactly what a message holds.                                           *)
(***************************************************************************)
Handshake(c) ==
    /\ conn[c].handler = "handshake"
    /\ \/ HandlerTo(c, "release")
       \/ HandlerTo(c, "request")
    /\ UNCHANGED <<tokens, stopped>>

\* For CONNECT newDialContext starts the watcher.
ReadRequest(c) ==
    /\ conn[c].handler = "request"
    /\ \/ HandlerTo(c, "release")
       \/ conn' = [conn EXCEPT ![c].handler = "route", ![c].watcher = "check"]
    /\ UNCHANGED <<tokens, stopped>>

(***************************************************************************)
(* handleConnect: the dial and its context, stopWatch, the reply.          *)
(***************************************************************************)
StartDial(c, name) ==
    /\ conn[c].handler = "route"
    /\ conn' = [conn EXCEPT ![c].handler = "dial", ![c].via = name]
    /\ UNCHANGED <<tokens, stopped>>

DialTimeout(c) ==
    /\ conn[c].handler = "dial" /\ conn[c].ctx = "live"
    /\ conn' = [conn EXCEPT ![c].ctx = "timeout"]
    /\ UNCHANGED <<tokens, stopped>>

DialConnects(c) ==
    /\ conn[c].handler = "dial"
    /\ conn' = [conn EXCEPT ![c].handler = "cancelWatch", ![c].remote = "open"]
    /\ UNCHANGED <<tokens, stopped>>

DialFails(c) ==
    /\ conn[c].handler = "dial" /\ HandlerTo(c, "cancelWatch")
    /\ UNCHANGED <<tokens, stopped>>

DialCanceled(c) == DialEnded(c) /\ DialFails(c)

CancelWatch(c) ==
    /\ conn[c].handler = "cancelWatch" /\ HandlerTo(c, "expireRead")
    /\ UNCHANGED <<tokens, stopped>>

ExpireRead(c) ==
    /\ conn[c].handler = "expireRead"
    /\ conn' = [conn EXCEPT ![c].handler = "awaitWatch", ![c].deadline = "passed"]
    /\ UNCHANGED <<tokens, stopped>>

\* Mutant: stopWatch does not wait for the watcher.
DontAwaitWatch(c) ==
    /\ conn[c].handler = "awaitWatch"
    /\ conn' = [conn EXCEPT ![c].ctx = "live",
                    ![c].handler = IF conn[c].remote = "none" THEN "release" ELSE "reply"]
    /\ UNCHANGED <<tokens, stopped>>

AwaitWatch(c) ==
    /\ conn[c].handler = "awaitWatch" /\ conn[c].watcher = "done"
    /\ conn' = [conn EXCEPT ![c].ctx = "live",
                    ![c].handler = IF conn[c].remote = "none" THEN "release" ELSE "reply"]
    /\ UNCHANGED <<tokens, stopped>>

Reply(c) ==
    /\ conn[c].handler = "reply"
    /\ \/ conn' = [conn EXCEPT ![c].handler = "relay", ![c].up = "run", ![c].down = "run"]
       \/ HasEnded(c) /\ HandlerTo(c, "release")
    /\ UNCHANGED <<tokens, stopped>>

(***************************************************************************)
(* watchClientDisconnect                                                   *)
(***************************************************************************)
WatcherTo(c, step) == conn' = [conn EXCEPT ![c].watcher = step]

WatchCanceled(c) == conn[c].handler \notin {"route", "dial", "cancelWatch"}

WatchCheck(c) ==
    /\ conn[c].watcher = "check"
    /\ WatcherTo(c, IF WatchCanceled(c) \/ DialEnded(c) THEN "end" ELSE "arm")
    /\ UNCHANGED <<tokens, stopped>>

WatchArm(c) ==
    /\ conn[c].watcher = "arm"
    /\ conn' = [conn EXCEPT ![c].watcher = "peek", ![c].deadline = "later"]
    /\ UNCHANGED <<tokens, stopped>>

\* A byte is there: it stays in the buffer.
PeekData(c) ==
    /\ conn[c].watcher = "peek" /\ conn[c].data = "wire" /\ conn[c].deadline # "passed"
    /\ conn' = [conn EXCEPT ![c].watcher = "end", ![c].data = "buffered"]
    /\ UNCHANGED <<tokens, stopped>>

PeekTimeout(c) ==
    /\ conn[c].watcher = "peek"
    /\ conn[c].deadline = "passed" \/ (conn[c].data = "none" /\ ~HasEnded(c))
    /\ WatcherTo(c, "check")
    /\ UNCHANGED <<tokens, stopped>>

\* Mutant: the end of the client's stream only ends the watch.
PeekEofSilently(c) ==
    /\ conn[c].watcher = "peek" /\ conn[c].deadline # "passed"
    /\ conn[c].data = "none" /\ HasEnded(c) /\ WatcherTo(c, "end")
    /\ UNCHANGED <<tokens, stopped>>

PeekEof(c) ==
    /\ conn[c].watcher = "peek" /\ conn[c].deadline # "passed"
    /\ conn[c].data = "none" /\ HasEnded(c)
    /\ conn' = [conn EXCEPT ![c].watcher = "end",
                            ![c].ctx = IF @ = "live" THEN "disconnect" ELSE @]
    /\ UNCHANGED <<tokens, stopped>>

\* The deferred functions: no deadline, then watchDone.
WatchEnds(c) ==
    /\ conn[c].watcher = "end"
    /\ conn' = [conn EXCEPT ![c].watcher = "done", ![c].deadline = "none"]
    /\ UNCHANGED <<tokens, stopped>>

(***************************************************************************)
(* relay                                                                   *)
(***************************************************************************)
\* Mutant: the copy reads the socket, not the buffered reader.
CopyUpRaw(c) ==
    /\ conn[c].up = "run" /\ HasRemote(c)
    /\ conn[c].data = "wire" /\ conn[c].deadline # "passed"
    /\ conn' = [conn EXCEPT ![c].data = "none"]
    /\ UNCHANGED <<tokens, stopped>>

CopyUp(c) ==
    /\ conn[c].up = "run" /\ HasRemote(c)
    /\ \/ conn[c].data = "buffered"
       \/ conn[c].data = "wire" /\ conn[c].deadline # "passed"
    /\ conn' = [conn EXCEPT ![c].data = "none"]
    /\ UNCHANGED <<tokens, stopped>>

\* Mutant: CloseWrite is not called at all.
CopyUpEndsSilently(c) ==
    /\ conn[c].up = "run" /\ conn[c].data # "buffered"
    /\ conn[c].deadline = "passed" \/ HasEnded(c) \/ ~HasRemote(c)
    /\ conn' = [conn EXCEPT ![c].up = "ended"]
    /\ UNCHANGED <<tokens, stopped>>

\* Nothing more can be read, or written.  bufferedConn and trackedConn hide
\* CloseWrite: only a direct connection is told.
CopyUpEnds(c) ==
    /\ conn[c].up = "run"
    /\ \/ conn[c].data # "buffered" /\ conn[c].deadline = "passed"
       \/ conn[c].data = "none" /\ HasEnded(c)
       \/ conn[c].data # "none" /\ ~HasRemote(c)
    /\ conn' = [conn EXCEPT ![c].up = "ended",
                    ![c].remote = IF @ = "open" /\ conn[c].via = Direct THEN "eof" ELSE @]
    /\ UNCHANGED <<tokens, stopped>>

RemoteCloses(c) ==
    /\ HasRemote(c) /\ conn' = [conn EXCEPT ![c].remote = "closed"]
    /\ UNCHANGED <<tokens, stopped>>

CopyDownEnds(c) ==
    /\ conn[c].down = "run" /\ conn[c].remote = "closed"
    /\ conn' = [conn EXCEPT ![c].down = "ended"]
    /\ UNCHANGED <<tokens, stopped>>

\* The destination sends, and the client has gone.
CopyDownFails(c) ==
    /\ conn[c].down = "run" /\ HasEnded(c)
    /\ conn' = [conn EXCEPT ![c].down = "ended"]
    /\ UNCHANGED <<tokens, stopped>>

RelayEnds(c) ==
    /\ conn[c].handler = "relay" /\ conn[c].up = "ended" /\ conn[c].down = "ended"
    /\ HandlerTo(c, "release")
    /\ UNCHANGED <<tokens, stopped>>

-----------------------------------------------------------------------------
HandlerStep(c) ==
    \/ Handshake(c) \/ ReadRequest(c) \/ CancelWatch(c) \/ ExpireRead(c) \/ AwaitWatch(c)
    \/ Reply(c) \/ RelayEnds(c) \/ Release(c)
WatcherStep(c) ==
    \/ WatchCheck(c) \/ WatchArm(c) \/ PeekData(c) \/ PeekTimeout(c) \/ PeekEof(c)
    \/ WatchEnds(c)

ConnStep(c) ==
    \/ Send(c) \/ EndStream(c) \/ Accept(c) \/ HandlerStep(c) \/ WatcherStep(c)
    \/ DialTimeout(c) \/ DialFails(c)
    \/ CopyUp(c) \/ CopyUpEnds(c) \/ CopyDownEnds(c) \/ CopyDownFails(c)
    \/ RemoteCloses(c)
=============================================================================
