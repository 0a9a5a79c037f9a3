# session-proxy in TLA+

This directory holds the formal model of session-proxy: TLA+ modules translated
from the Go source, TLC configurations that check them on small instances, and
machine-checked proofs about the protocol adapter, dialing through the pool, the
pool's size and the proxy around them.

session-proxy is a SOCKS5 proxy. A client's CONNECT is routed to an *upstream*;
an upstream is a pool of SSH connections, each of which runs inside an AWS SSM
session over a WebSocket. Three parts are hard, and modelled in this order: what
makes an unreliable, resumable WebSocket look like a byte stream to SSH; the
pool that hands out SSH channels on top of it and keeps its size; and the proxy
that serves clients while the routes are reloaded and until it is shut down.

```
                 configuration file --> reload
                                          |
 SOCKS5 server --> Router <---------------+
       |
       +---------> Pool (dial, maintenance) --> SSH client
                                                            |  net.Conn
                                                 protocol.Adapter
                                          sending half | receiving half
                                                WebSocket resume
                                                            |
                                                  SSM agent (external)
```

## Running it

In this directory:

    tlc -workers 2 -config MCAdapterSend_window.cfg MCAdapterSend.tla
    tlapm AdapterSendProofs.tla      (and the other seven *Proofs modules)

`PROJECT.json` lists every run with its configuration and its properties, the
source lines each definition stands for, one mutated definition per property
that TLC must find to break it, and the hazards the properties are aimed at.

## Inventory

Paths are under `src/`. *M* marks what is modelled, *M-* what is modelled in part, *N*
what is left out, with the reason at the end of this file.

| component | state | operations | interacts with |
|---|---|---|---|
| **Adapter, sending** (M) `internal/protocol/adapter.go` | `seqNum`, `outgoing`, `outgoingOldestSeq`, `outgoingBytes`, `paused`/`pausedSince`, `writeDeadline` | Write, addOutgoing, ackOutgoing, dropOutgoing, writeRaw, resendLoop, pause/resumePublication, SetWriteDeadline, Close | SSH (Write), read loop (acks, flow control), reconnectLoop (retransmission marks, gate) |
| **Adapter, receiving** (M) `internal/protocol/adapter.go` | `expectedSeqNum`, `incomingMsgBuffer`, handshake flags, the stream pipe | readLoopForGen, dispatchMessage, handshake handlers, sendAck, handleDataMessage, processBufferedMessages | agent, SSH (Read), reconnectLoop |
| **Adapter, WebSocket resume** (M) `internal/protocol/adapter_resume.go` | `conn`, `connGen`, `reconnecting`, `reconnectGate`, `done`, `closeReason` | startReconnect, reconnectLoop, swapConn, read and ping loops of a generation, waitUntilConnected, ForceCloseTransport, Close | every writer, pool keepalive |
| **Message framing** (N) `internal/protocol/message.go` | none | MarshalBinary, UnmarshalBinary, constructors | adapter |
| **Pool, dialing** (M) `internal/upstream/pool.go` | `conns`; per sshConn `activeChannels`, `inflightDials`, `draining`, `dialTimeoutCount`; `waitCh`; `pendingAbandonedDials` | dial, selectConnWithCapacity, releaseInflight, recordDialTimeout, maybeForceReconnect, trackedConn.Close, startScale, removeConn | SOCKS5 server, SSH client, maintenance |
| **Pool, size and maintenance** (M-) `internal/upstream/pool.go` | `conns`, `replenishInFlight`, `scaleInFlight`, backoff, instance index | Connect, maintainOnce, replenishOnce, startScale, advanceInstance, cleanup, Close; keepalives only by their outcome | adapter (ForceCloseTransport), AWS client |
| **SOCKS5 server** (M) `internal/socks5` | listener, `connTokens`, per-connection state: buffered reader, deadline, dial context, watcher | ServeContext, handleConn, handleConnect with watchClientDisconnect, relay | router, pool |
| **Router** (M) `internal/router` | rule list, default | Match, Update | SOCKS5 server, reload |
| **Configuration and reload** (M-) `internal/config` | options and the upstreams of the running configuration | Watch, reload, validateUpstreamsUnchanged, validate with its defaults | router |
| **Proxy wiring** (M) `internal/proxy`, `cmd/session-proxy` | what it owns | the dial function, the reload callback, shutdown | all |
| **Retry** (N) `internal/retry` | attempt count | NextDelay, RunContext | adapter, pool |
| **SSH client** (N) `internal/ssh` | an `ssh.Client` | Connect, Dial, Close | pool |
| **AWS SSM client** (N) `internal/aws/ssm` | none | StartSession, ResumeSession, TerminateSession | pool |
| **Diagnostics, trace ids, experiments** (N) `internal/diag`, `internal/trace`, `cmd/resume-experiment` | none | read-only | - |

### What is hard, and what makes each part correct

* **Sending.** Several writers take a sequence number, wait for the window and
  transmit, each in its own critical section, while acknowledgements arrive in
  any order, a resume marks every frame for retransmission, the agent pauses
  publication and somebody closes the adapter. Correct means: the window's
  counters are exact, the pointer that decides what is retransmitted is the
  oldest frame, nothing that Write reported as written is lost, the agent (which
  delivers in sequence) is never made to wait for a number that will not come,
  and no blocked Write stays blocked.
* **Receiving.** A data message may come early, twice, or on a WebSocket that has
  been replaced, and the read loops of two WebSockets may run at once. Correct
  means: what SSH reads is what the agent sent, in order, once; an acknowledged
  message is never lost; the stream makes progress whenever the agent
  retransmits. The last fails in two cases (below), both in the handshake.
* **Resume.** A failure may be reported by the read loop, the ping loop or any
  writer, at any moment relative to the reconnectLoop of an earlier failure and
  to Close. Correct means: one reconnectLoop at a time, a gate that is there and
  shut exactly while writers must wait, no failure that goes unhandled because
  it was reported while the last resume was finishing, no waiter left behind.
* **Pool, dialing.** Slots are counted by atomics that dial's caller, its
  goroutine, the tracked connection, a probe and maintenance update and
  announce in separate steps; a caller's context may end before, while or after
  the SSH channel opens. Correct means: each slot and channel is settled exactly
  once, waiting dials are woken, the limit holds.
* **Pool, size.** The pool is changed by maintenance, which decides on a copy of
  it or on a count that is old, by dials that evict and scale up, by the
  goroutines that connect and by Close; a system sleep resets counters that
  attempts still hold. Correct means: attempts in flight are counted, the pool
  grows only so far, no open connection is forgotten, the pool refills although
  an instance is dead, Close comes back.
* **SOCKS5.** A goroutine peeks at the client's connection through the same
  buffered reader that the relay uses later, and both it and stopWatch set the
  connection's read deadline. Correct means: one reader at a time, no bytes lost,
  no deadline left behind, a client that leaves ends its dial, a place for each
  connection that is served and given back once on every path.
* **Router and reload.** Requests route while the rules are replaced; a file is
  read in the middle of being written; a reload that fails leaves the running
  configuration. Correct means: routes and dials only lead to upstreams the pool
  has, and the router ends with what was saved last.

`PROJECT.json` "hazards" has each of these at its line, with the properties that
cover it or the reason none does yet.

## Modules

| module | what it is |
|---|---|
| `OrderedStream` | abstract specification: what a direction of the data channel promises SSH |
| `SlidingWindow` | abstract specification: what the sending half promises the callers of Write |
| `AdapterSend` | the sending half of the adapter, refining `SlidingWindow` |
| `AdapterReceive` | the receiving half, refining `OrderedStream` |
| `AdapterResume` | the life of the WebSocket |
| `PoolDial` | dial and everything that races with it |
| `PoolSize` | the pool's size: Connect, maintenance, replenishment, scale-up, Close |
| `Socks5` | connections of the SOCKS5 server; where a dial leads is left open |
| `ConfigReload` | the configuration file, its watcher, and the router |
| `Proxy` | composes `Socks5` and `ConfigReload` with the dial function and the shutdown; states their properties |
| `AdapterSendProofs`, `AdapterReceiveProofs`, `AdapterResumeProofs`, `PoolDialProofs`, `PoolSizeProofs`, `ProxyProofs` | invariants, proved |
| `AdapterWindowProofs`, `AdapterStreamProofs` | the refinements of `SlidingWindow` and `OrderedStream`, proved |
| `MC...` | instances for TLC: symmetry sets and the files a user may write; constants are in the `.cfg` files |

`PoolDial` and `PoolSize` look at the same Group from two sides. `PoolDial`
counts the slots of its connections and lets the pool itself change in any way;
`PoolSize` has every way the pool changes and takes dials as evictions and
scale-ups that come at any time. Their product is beyond TLC.

A step of a model is one critical section, one atomic operation or one blocking
point of the code. Loss and duplication are not actions: a set of what was ever
sent only grows, a message may be taken from it again (a duplicate), in any order
(reordering), or never (loss). Time is abstracted to events which may happen at
any moment, so no timeout value matters to a property. A write deadline may be set,
moved, cleared or put into the past at any time; a timer that was started for an
earlier one still fires.

### AdapterSend and SlidingWindow

*Threads.* The writers and the resend loop share `writeRaw`, so a thread has a
control point `pc`: `publish` (waitForPublication and nextSeq), `track`
(addOutgoing), `connect` (waitUntilConnected), `transmit` (writeRaw under
`writeMu`), `drop` (dropOutgoing after an error); `pubWait`, `trackWait`,
`gateWait` are the three places a thread can block. Closing a channel or
`Broadcast` is `Wake`, which sends the waiters back to re-check. `cur`, `need`
and `todo` are the locals of Write: its sequence number, the frame's size and
the chunks left.

*Correspondence.*

| action | code |
|---|---|
| `Write`, `Publish`, `Track`, `Connect`, `Transmit`, `Drop` | Write, waitForPublication + nextSeq, addOutgoing, waitUntilConnected, writeRaw, dropOutgoing |
| `WakeOnDone`, `TimerFires`, `SetWriteDeadline`, `DeadlinePasses` | waitWithWriteDeadline, ensureWriteDeadlineWake, SetWriteDeadline, the clock |
| `ResendTick`, `ResendOldest`, `Age` | resendLoop, the retransmission timeout |
| `ReceiveAck`, `ResumeAfterAck`, `ReceivePause`, `ReceiveStart`, `PauseExpires` | handleAcknowledge + ackOutgoing, then resumePublication; pausePublication; resumePublication; maxPauseTime |
| `Resume`, `MarkOutgoingForRetransmit`, `ClearPauseForReconnect`, `OpenGate`, `NoticeFailure` | reconnectLoop and handleTransportFailure, as far as the sender sees them |
| `CallClose`, `CloseProceeds` | Close: `done`, the gate, the window, the WebSocket, in the code's order |

*Abstractions.* Frame contents and the message-id comparison are dropped: a
frame is its sequence number. The RTO estimate is dropped: `Age` may happen at any
time. Only the oldest frame has a timeout, because the code looks at no other.
The branch of resendLoop that repairs an inconsistent pointer is absent;
`OldestCorrect` proves that it is unreachable. `seqNum` starts at 1, because the
HandshakeResponse takes 0 without being tracked.

*Refinement.* In `SlidingWindow` a number is taken, its frame enters a window of
limited capacity or is given up, and leaves it because it has arrived or because
the caller was told that it failed; nothing is said of how. `WindowImplemented`
maps `next` to `seqNum`, `taken` to the numbers between nextSeq and addOutgoing,
`window` to the sizes of `outgoing`, `arrived` to what the agent has, and `closed`
to `outgoingClosed`. Resends, pauses, deadlines, WebSockets and the oldest pointer
are steps it does not see. That no frame enters after Close, that a number enters
once, and that nothing arrives that did not enter, is said only there.

*Properties.* `OldestIsMinimum`, `WindowAccounted`, `AcceptedNotLost`,
`WindowImplemented`, `NoSequenceHole`, `ResendLoopRunsUntilClose`, `WriteReturns`,
`PauseBounded`, `AcceptedDelivered`.

### AdapterReceive and OrderedStream

The agent numbers its messages 0 (HandshakeRequest), 1 (HandshakeComplete, sent
once it has a response), 2, 3, ...; `Control` marks numbers whose payload is not
output and so takes part in ordering but not in the stream. There is one read
loop per generation; `bufMu` is `incomingMsgBufMu`, which handleDataMessage holds
while it acknowledges, so a loop of a replaced WebSocket can hold it across a
resume. `delivered` is what was written to the stream pipe; the pipe between
processMessage and Read is not modelled separately.

Every number that was sent may arrive at any time after, in any order and any
number of times. The agent sends HandshakeComplete and then data without waiting
for acknowledgements (`docs/ssm-protocol-spec.md:1188`), so data may overtake
HandshakeComplete: handleDataMessage does not ask how far the handshake is, but
acknowledges and buffers it.

`StreamImplemented` is the refinement: with `source` the output messages the
agent has sent, `sink` what was delivered and `closed` the adapter's `done`,
every step of `AdapterReceive` is one of `OrderedStream` or unseen by it: in order,
once each, none skipped. `AckedIsHeld` says that an acknowledgement, a promise
not to need a retransmission, is given only for what is processed, buffered or in
hand. `NeverBack` says that `expectedSeqNum`, which the handshake assigns without
looking at it, only grows.

That all of it comes out is `DataProcessed`, and it is false: a message can be
acknowledged, held and never processed. `UpdateExpectedSeqNum` assigns
`expectedSeqNum` and does not look into the buffer, so if the first data message is
there already it stays there; and a resume during the handshake keeps
`expectedSeqNum` at HandshakeComplete (both below). What is true is
`ProcessedUnlessOvertaken`: if the first data message does not overtake
HandshakeComplete (`NotOvertaken`) and, by the constant `DropInHandshake`, the
WebSocket does not fail during the handshake, everything is processed, whatever
else is lost, repeated or reordered. `StrandedByHandshake`, proved without either
condition, says that no other message is ever passed over.

### AdapterResume

The adapter's WebSocket at the grain of single flag reads: a loop that checked
its generation or `done` may act on the answer later. `ws[g]` is the WebSocket of
generation `g`, `reader[g]` and `pinger[g]` its loops, `loop[l]` a reconnectLoop,
which has the same name as the gate it was started with. The two successive
checks of `done` in handleTransportFailure and startReconnect are one step,
because nothing happens between them that tells them apart. Close's part that
matters here is `CloseResetsReconnect` and `CloseDropsConn`. `PingTick` assumes
that no ping falls between the start of a ping loop and the end of the
reconnectLoop that started it, a few instructions against a ping interval of
seconds. The text of closeReason is left out.

The environment: `Break` (the WebSocket fails, or ForceCloseTransport closes
it under the adapter), `ChannelClosed` (the agent ends
the channel), `CallClose` (the owner). An attempt's outcome is nondeterministic.

### PoolDial

A *dialer* is one call of `dial`, its goroutine and the connection it returned;
`pc` is the caller's control point, `go` the goroutine's, and `call` their
locals. `ssh[c]` is the record of an sshConn. Updating a counter and announcing
it are separate steps because they are separate statements
(`SignalUnreserved`, `SignalFreed`, `SignalLate`, `SignalClosed`,
`SignalRestored`, `AnnounceScale`, `SignalMaintained`). The wait channel, which
signalCapacityChange closes and replaces, is the set `listening` of dialers that
hold the current one: a signal empties it.

| action | code |
|---|---|
| `WaitChannel`, `Select`, `Reserve`, `Recheck`, `Starved`, `SelectAgain`, `Wait` | dial's loop: waitChannel, selectConnWithCapacity, the reservation and its re-check, the second look before blocking |
| `SpawnDial`, `ChannelOpens`, `CheckAbandoned`, `Deliver`, `GiveUpOffer`, `CloseLate` | dial's goroutine |
| `ContextEnds`, `Abandon`, `RecordDialTimeout`, `ForceReconnect` | the caller's context, and what a timeout leads to |
| `ReleaseInflight`, `Outcome`, `CloseConn` | the result, and trackedConn |
| `ProbeFails`, `ProbeSucceeds` | maybeForceReconnect's goroutine |
| `ScaleConnects`, `Maintain` | scale-up; maintenance and replenishment, as evictions and additions |

*Abstractions.* Cooldowns and the window of dialTimeoutCount are nondeterministic
choices; candidates are read in one step, where the code reads one connection
after the other (Reserve checks again what was chosen); the goroutine's closing of
a late channel, its correction of pendingAbandonedDials and its release of the
slot are one step; the reads that only decide whether to
start a scale-up share a step; a context that ends matters where the code looks
at it, while waiting and while dialing. A connection without an SSH client, which
dial also allows for, is not in a pool.

*Properties.* `SlotsAccounted`, `PendingExact`, `ChannelsOwned`, `WakeupComing`.

### PoolSize

`phase` is the group's life from Connect to Close, `maint` the maintenance loop's
control point, `worker` the goroutines of replenishOnce and startScale. `up` is
the set of connections that are open, in the pool or not: the difference between
`conns` and `up` is what died and was not noticed, or is open and not in the pool.

| action | code |
|---|---|
| `ConnectPool`, `InstanceFails`, `AllInstancesFailed`, `Connected`, `OtherGroupFailed` | Connect: connectPool on one instance after the other, and the wait for the other groups |
| `MaintainTick`, `DetectWake`, `EvictFailed`, `CloseFailed`, `Sweep` | maintainOnce: after a sleep the backoff is reset and a copy of the pool is probed; then dead connections are removed and the rest is counted |
| `Reserve`, `NewRound`, `SpawnReplenish`, `BackoffEnds` | reserveReplenish, the round's flag, its goroutines |
| `StartScale`, `SpawnScale` | startScale, whose check and count are two critical sections |
| `SessionReady`, `SSHReady`, `ConnectFails`, `Rotate`, `AppendConn`, `RecordSuccess`, `FinishReplenish`, `FinishScale` | connectSingle and what follows it |
| `ConnDies`, `RemoveConn` | the adapter or a keepalive closes a connection; a dial evicts it |
| `CallClose`, `CleanupPool`, `CloseReturns`, `MaintainEnds` | Close, and the loop it waits for |

*Abstractions.* Ticks come at any time, so notifyMaintain is left out; a late
tick is `DetectWake`. Keepalives are `ConnDies`. Signals to dials are in `PoolDial`.

*Properties.* `AttemptsCounted`, `GrowthBounded`, `OpenIsPooled`, `PoolRefills`,
`CloseEnds`. GrowthBounded is what the code guarantees and not what its names
suggest: the pool can outgrow maxPoolSize by two rounds of replenishment, since
startScale does not count replenishment and each acts on a count that may be
stale, and by one more round for each sleep.

### Socks5, ConfigReload, Proxy

A connection of `Socks5` is a record: what the client did (`client`, `data`), the
read deadline of its socket, the control points of its handler and its watcher,
the dial's context, where it leads (`via`), the destination's end, and the two
copies of the relay. `data` tells bytes on the wire from bytes in the buffered
reader, which is what a peek moves.

| action | code |
|---|---|
| `Accept`, `Release` | ServeContext with tryAcquireConn; the deferred calls of handleConn |
| `Handshake`, `ReadRequest` | the negotiation, as steps that succeed or fail |
| `Dial`, `DialReturns`, `DialFails`, `DialTimeout` | handleConnect, NewRoutingServer's dial function, the dial's context |
| `CancelWatch`, `ExpireRead`, `AwaitWatch` | the three statements of stopWatch |
| `WatchCheck`, `WatchArm`, `PeekData`, `PeekTimeout`, `PeekEof`, `WatchEnds` | watchClientDisconnect |
| `Reply`, `CopyUp`, `CopyUpEnds`, `CopyDownEnds`, `CopyDownFails`, `RelayEnds` | the reply and relay |
| `AddWatch`, `TakeEvent`, `EndWatch`, `Reload`, `Update` | Watch, reload and the callback that updates the router |
| `Shutdown`, `ClosePool`, `StopWatching` | the signal, Start's goroutine, the watcher's context |

*Abstractions.* A file is a record of what reload tells apart: whether it parses,
its upstreams with what it says of them, its routes and its default. A route
matches a set of destinations. The bytes of the negotiation and its own deadlines
are left out; the deadline that is modelled is the one stopWatch and the watcher
share. Release empties the record, which merges connections that ended
differently and loses nothing a property speaks of. The file is written while
the program runs, not after its shutdown.

*Properties.* `TokensHeld`, `OneReader`, `DisconnectEndsDial`, `BufferedRelayed`,
`DirectRelayEnds`, `RoutesResolvable`, `RouterConverges`; and `RelayWithoutDeadline`,
which does not hold (below).

## Runs

All runs but those marked *refuted* pass. "Bounds" names what the configuration
limits; everything else is unrestricted.

| run | question | bounds |
|---|---|---|
| `send_window` | Is the window's bookkeeping exact, and does Write implement `SlidingWindow`, with two writers, deadlines that expire anywhere, any order of acknowledgements, resends and Close? | 2 writers, 3 frames of size 1 or 2, window 2, no failure or pause |
| `send_live` | Do blocked writers, pauses and retransmission always end, and is every number sent, across a failure, a pause and Close? | 1 writer, 2 frames, window 1, 1 failure, 1 pause |
| `receive_stream` | Is the agent-to-SSH direction an ordered stream across a resume, does it never go back, and is it live unless data overtakes HandshakeComplete? | 5 messages, one of them control, 1 failure after the handshake |
| `receive_lost` (*refuted*) | Is all that the agent sends processed, for any order of arrival and failures at any time? | 4 messages, one of them control, 1 failure |
| `resume` | Are gate, loops and writers consistent, is every failure handled, and does the writer come back? | 1 writer, 2 generations, 2 loops at a time, 2 failures |
| `resume_closed_socket` (*refuted*) | Is a closed adapter left without a WebSocket? | 1 writer, 2 generations, 1 failure |
| `pool_dial` | Are slots, channels, abandoned dials and wakeups accounted for? | 2 dialers, 2 connections of 1 channel, 2 dials, 1 maintenance change |
| `pool_size` | Are attempts counted, growth bounded and no connection lost; does the pool refill and Close return? | 3 connections, 2 goroutines, 2 instances, one dead; 1 failure, death, sleep and scale-up each |
| `proxy` | Are places, readers and early bytes right, and do disconnects and ends of streams end what they should? | 2 clients, limit 1, 2 destinations, no write of the file |
| `reload` | Do routes and dials only lead where they can, and does the router end with the last version? | 1 client, 5 versions of the file, 2 writes |
| `relay_deadline` (*refuted*) | Does the relay start without a deadline? | 1 client |
| `reload_defaults` (*refuted*) | Is a file with settings left to their defaults reloaded? | 1 client, 1 write |

### Why the bounds are enough

* *Sending.* Three frames are the least for an acknowledgement in the middle,
  which leaves a gap behind the oldest pointer; with `MaxScan` 1 a gap of one
  number is longer than the scan, so both ways of advancing the pointer (scan and
  search of the map) happen, while the code's scan of 1024 would need 1025
  frames. Window 2 with frames of size 1 and 2 makes a writer wait for one and
  for two acknowledgements. Two writers are enough to add frames out of order
  and to compete for what an acknowledgement frees. `MaxResend` 1 reaches the
  resend limit. Failures are in `send_live` and deadlines in `send_window` because
  the product of both with two writers is beyond TLC, not because they are thought
  independent: the theorems below cover the product.
* *Receiving.* Messages 2, 3, 4 are what it takes for one to be buffered behind a
  gap, a second to be consecutive with it and a control message to lie between
  output. Any of them may arrive before HandshakeComplete is handled. One failure
  gives two read loops that overlap; more would not overlap
  more, as the loop of a generation stops at its next look.
* *Resume.* Two generations let a loop act on what it knew of the previous one,
  two loops at a time let one start before the last one's deferred function has
  opened its gate. The second failure happens while the first resume is
  finishing, which is the case where the read loop's report is ignored and the
  next ping must make up for it. Any number of writers, loops and failures is
  covered by the theorems.
* *Pool.* One channel per connection makes two dialers race for the last slot;
  the second connection is there for scale-up and to be evicted to; a timeout
  limit of 1 drains a connection at the first timeout. Names of connections that
  are gone are used again once nothing refers to them, so two names do not bound
  how many connections there are in a behaviour. In `pool_size` a target, a
  maximum and a parallelism of 1 make every limit one that a second attempt
  exceeds; the first instance is the dead one, so Connect and the first rounds
  fail; one death, one scale-up and one sleep may each fall anywhere into a round
  of replenishment, where the counts that were read are stale. The bounds on
  failures, deaths, sleeps and scale-ups are what keeps a behaviour finite.
* *Proxy.* A limit of one makes two clients compete for it. Two destinations,
  one routed to an upstream and one direct, are what tells CloseWrite apart. The
  five files of `reload` are a good one, one with other routes, one with other
  upstreams, one half written and one with a bad route; two writes are needed
  for one to fall between an event and the read of the file.

`SYMMETRY` is used, over writers, dialers and connections, only in runs
without liveness; `WindowImplemented` is a property of single steps that tells no
writer from another. Every run has `CHECK_DEADLOCK FALSE`: the modelled system
may really stop, as a closed adapter with all its goroutines ended, or an idle
one with the budget of the bounds used up.

### Fairness

The goroutines of the proxy run and its timers fire: weak fairness of writers,
resend loop, reconnectLoop, read and ping loops, Close once begun, and of the
timeouts `Age` and `PauseExpires`. A resume attempt ends because its calls have
timeouts and its rounds a budget. Nothing is assumed of the agent in the sending
half, nor of the network, nor of the callers of Write and Close:
`AcceptedDelivered` therefore reads "reaches the agent or the adapter closes",
and it is the resend limit that forces the second.

In `AdapterReceive` the agent retransmits what it has no acknowledgement for, and
a copy gets through while a read loop keeps listening (strong fairness of
`Retransmit`): without it no protocol delivers anything. Nothing is assumed about
the order in which messages arrive. What was acknowledged is not sent again,
which is what makes a message that is passed over a lost one.

`AdapterResume` needs weak fairness only. `PoolDial` has no fairness
and its run no liveness; the wakeup argument is made by the invariant
`WakeupComing`.

In `PoolSize` the ticker ticks, every step of an attempt has a timeout and a
backoff ends. maintain's select may take ticks for as long as it likes although
the context has ended, but not for ever: strong fairness of `MaintainEnds`, which
is what Go's random choice among ready cases gives.

In `Proxy` goroutines run and events of the file system are delivered. A dial is
only assumed to return when its context has ended, and a destination to close
only when it was told of the end of the stream.

## What disagrees with the code's own words

Each of these is shown by a run that TLC refutes, and is a finding in `PROJECT.json`.

1. **A resume during the handshake ends it** (`receive_lost`,
   `adapter_resume.go:292`). reconnectLoop marks the handshake complete; the real
   HandshakeComplete is then a duplicate, `expectedSeqNum` stays behind and all
   data is buffered.
2. **Data that overtakes HandshakeComplete is lost** (`receive_lost`,
   `adapter.go:716`). Message 2 arrives first, is acknowledged and buffered as out
   of order; HandshakeComplete's handler then sets `expectedSeqNum` to 2 without a
   look into the buffer. The agent has its acknowledgement and does not send 2
   again; whatever follows is buffered behind it. The comment at `adapter.go:1265`
   and `docs/message-reorder-fix.md` promise that what is out of order is buffered
   for later. The run violates the same property as the first finding, and TLC
   reports whichever it meets; with `DropInHandshake = FALSE` only this one is left,
   with `MaxMessages = 2` and `Control = {}` only the first.
3. **A closed adapter gets a WebSocket** (`resume_closed_socket`,
   `adapter_resume.go:289`). `done` is looked at only at the top of an attempt.
   With Close during the attempt, swapConn installs a socket and starts two loops
   that nobody closes.
4. **A relay starts under a deadline that has passed** (`relay_deadline`,
   `socks5/server.go:533`). stopWatch expires the client's read to get the watcher
   out of its peek, also when the watcher has already gone, because the client
   sent data early; its deferred reset has run by then, and nobody clears the
   deadline. The copy from the client ends at its first read of the socket.
5. **A file that relies on defaults cannot be reloaded** (`reload_defaults`,
   `config/options.go:354`). validate fills `ssh.user` and `profile` into the map
   that the options share; the reload compares it with what it has just parsed,
   before defaults, and takes the difference for a change of the upstreams.

Others show in the models and have no run of their own:

* A write deadline that expires between nextSeq and the write leaves a hole in
  the sequence, for which the agent waits for ever (`adapter.go:932`). No code of
  the program sets a write deadline. `NoHole` proves that deadlines are the only
  cause. The same deadline, once expired, ends the resend loop for good
  (`adapter.go:610`), though the comment there takes any error for a permanent
  close. `NoSequenceHole` and `ResendLoopRunsUntilClose` are therefore checked and
  proved for callers that set none; what a deadline does to either is in the model
  and covered by no property.
* startReconnect checks `done` before it takes its lock, so a closed adapter can
  still enter the reconnecting state, which `adapter_resume_test.go:319` excludes
  in the sequential case (`adapter_resume.go:190`; the gate stays usable).
* A deliberate Close during a resume is recorded as an exhausted budget
  (`adapter_resume.go:304`), as a false return of sleepResumeBackoff does not say
  why.
* A loop that found its generation current just before a swap reports the new
  WebSocket as failed (`adapter_resume.go:362`), which is replaced once more.
* A dial's slot is released before its channel is counted (`pool.go:1147`, 1163);
  for a moment it is counted nowhere, and another dial may exceed
  maxChannelsPerConn (line 356).
* A goroutine that connected while Close cleaned up appends its connection to
  the pool afterwards, and nobody closes it (`pool.go:1690`).
* When rounds of replenishment overlap, the flag of the later one lets the
  instance advance a second time, back to the one that is dead
  (`pool.go:1511-1520`); `PoolRefills` leaves that case out.
* bufferedConn and trackedConn hide CloseWrite, so the relay tells only a direct
  destination of the end of the client's stream; `docs/code-review-2026-03-17.md:321`
  claims otherwise.
* The directory of the configuration file is watched only after the upstreams
  are connected (`options.go:303`): a change of the file before that is noticed
  with the next one.

## Proofs

Each theorem holds for every value of the constants that satisfies the named
assumptions; the run of the same property shows it on one instance.

| module | theorem | property |
|---|---|---|
| `AdapterSendProofs` | `TypeCorrect` | `TypeOK` |
| | `OldestCorrect` | `OldestIsMinimum` |
| | `WindowKept` | `WindowAccounted` |
| | `AcceptedKept` | `AcceptedNotLost` |
| | `NoHole` | `NoSequenceHole`, without write deadlines |
| | `ResendLoopRuns` | `ResendLoopRunsUntilClose`, without write deadlines |
| `AdapterWindowProofs` | `WindowRefined` | `WindowImplemented` |
| `AdapterReceiveProofs` | `AckedAlwaysHeld` | `AckedIsHeld`, if the handshake is not interrupted |
| `AdapterStreamProofs` | `ReceiveTypes` | `TypeOK` |
| | `StreamRefined` | `StreamImplemented` |
| | `HandshakeAloneStrands` | `StrandedByHandshake`, which no run checks |
| | `ExpectedNeverBack` | `NeverBack` |
| `AdapterResumeProofs` | `ResumeTypes` | `TypeOK` |
| | `GateAlwaysUsable` | `GateUsable` |
| | `LoopsExclusive` | `OneReconnectLoop` |
| | `NoWaiterForgotten` | `WaitersHaveOpener` |
| `PoolDialProofs` | `DialTypesKept` | `TypeOK` |
| | `SlotsAlwaysAccounted` | `SlotsAccounted` |
| | `PendingAlwaysExact` | `PendingExact` |
| | `ChannelsAlwaysOwned` | `ChannelsOwned` |
| | `NoWakeupLost` | `WakeupComing` |
| `PoolSizeProofs` | `PoolTypes` | `TypeOK` |
| | `NoConnectionLost` | `OpenIsPooled` |
| | `AttemptsAlwaysCounted` | `AttemptsCounted` |
| | `GrowthAlwaysBounded` | `GrowthBounded` |
| `ProxyProofs` | `ProxyTypes` | `TypeOK` |
| | `PlacesHeld` | `TokensHeld` |
| | `ReadersApart` | `OneReader` |
| | `RoutesAlwaysResolvable` | `RoutesResolvable` |

None of these is inductive alone.

### Sending

*Assumptions.* `ThreadAssumption` (the resend loop is not a writer),
`SizeAssumption` (a frame fits the window; the defaults of the code make the
window thousands of frames) and `BoundAssumption` (bounds are naturals). `NoHole`
and `ResendLoopRuns` also assume `~UseDeadline`: the hole that deadlines leave and
the resend loop that they end show that they cannot do without.

*The argument.* The inductive invariant is

    IInv == TypeOK /\ Ownership /\ OldestIsMinimum

Types need the pointer: `ResendOldest` and `Age` index `outgoing` by
`outgoingOldestSeq`, which is a frame only if the pointer is exact. The pointer
needs ownership: `Insert` must add a number that is not tracked yet, or the size
and the key would be wrong. `Ownership` says, for each place in Write, which
frame the call holds - none before nextSeq, an untracked one up to addOutgoing,
and afterwards one that is tracked or already at the agent - and that two calls
never hold the same number.

`TableStep` then reduces every step to four kinds: the table unchanged, one frame
added, one dropped, one acknowledged. `OldestStep` and `WindowStep` are proved by
these four cases instead of twenty-six actions. `WindowStep` counts bytes as a set of
pairs (frame, offset), so that adding or removing a frame is a disjoint union
and no induction over the table is needed. `NoHole` adds `HoleInv`: while the
adapter is open and has no deadline, every number handed out is at the agent,
tracked or held by a Write, and no Write is about to drop one.

### The sliding window

*Assumptions.* Those of the sending half. Deadlines, failures, resends and Close
are all allowed.

*The argument.* The refinement needs `WindowInv`, which is `IInv` with
`WindowAccounted` (outgoingBytes is the load that `Enter` compares with the
capacity), `AcceptedNotLost` and one thing more, `Entered`: what was put on a
WebSocket, and what resendLoop holds, has a number that was taken and is not still
on its way into the window; without it a frame could arrive before it entered.
`QuietStep` shows that only nextSeq and addOutgoing change which numbers those
are. Then `TableMoves` maps the three steps that change the table to `Enter` and
`Leave`, and `OtherMoves` the rest: to `Take`, `Waste`, `Accept`, `Arrive`, `Close`
or no step at all.

### Receiving

*Assumptions.* `ReceiveAssumption` (bounds are naturals, control messages are data
messages), and `~DropInHandshake`: after a resume in the handshake
HandshakeComplete is acknowledged and not processed, as the first finding above
has it. Data may arrive at any time, before HandshakeComplete too.

*The argument.* For data `AckedIsHeld` is plain: each read loop has in hand what it
is about to acknowledge, and then processes or buffers it; what leaves the buffer
has been processed. The work is the handshake, during which `expectedSeqNum` is
assigned and not incremented: `OneSocket` says that only the first WebSocket's
loop runs until then, `Handshaking` how far it is, and `InHand` that the assignment
finds `expectedSeqNum` at the message it is for, so that HandshakeRequest and
HandshakeComplete are not acknowledged before they count as processed.

### The ordered stream

*Assumptions.* `ReceiveAssumption` alone: failures during the handshake are
allowed. A handshake that was interrupted stops the stream, but what SSH has read
stays a prefix of what the agent sent.

*The argument.* `Output(from, to)` lists the numbers of a range that are output,
by their rank among them; `OutputSplit` puts two adjacent ranges together, by
cardinalities of disjoint sets, so no induction is needed. The invariant that
carries the refinement is `Delivered`: while the adapter is open, `delivered` is
`Output(2, expectedSeqNum)`. A step of the agent then extends the source,
processMessage appends the range it processes, and nothing else is seen. What
makes it inductive is that `expectedSeqNum` is assigned only before data:
`OneUpdate` says that one read loop at most is about to assign it, for the first
HandshakeRequest while it is 0 or for the first HandshakeComplete while it is at
most 1, across any number of WebSockets. `NeverBack` follows from the same.

`HandshakeAloneStrands` adds that outside handleDataMessage the expected number is
in the buffer only if it is the first after HandshakeComplete. processMessage
leaves `expectedSeqNum` at a number that is not in the buffer, and a message is
buffered only if it is ahead; the assignment by HandshakeComplete is what remains.
That bounds the second finding: no other message can be lost that way.

### Resume

*Assumptions.* `BoundAssumption` only.

*The argument.* `IInv == Typed /\ Gates /\ OneLoop`. A gate is closed by the
loop that took it or by Close: that neither closes it twice needs
`TakenGates` (a gate that was taken is not the adapter's any more) and
`GateWhileReconnecting`. That loops exclude each other needs that whoever still
replaces the WebSocket has `reconnecting` set, until Close. The types need one
idea: the generation is bounded together with the loops about to install one.

### Dialing

*Assumptions.* `ConstantsAssumption`: dialers and connections are finitely many,
limits are positive. Nothing relates the number of dialers to the slots.

*The argument.* `IInv` is `Typed` with the four invariants. Counters are counts of
sets of dials, so a step of one dial is accounted for by that dial's part before
and after it (`Balanced`): one comparison for each step instead of one for each
set. Which part a dial has depends on where its caller and its goroutine are, and
not every pair is possible: `CallShape` says which are, and who has seen the
context end first. `pending` does not go below zero only because it is exact, so
the types need the invariants and not only the reverse.

`WakeupComing` is proved by what each step announces (`Announced`): it wakes
everybody, or leaves a signal that is coming, or gives no slot and blocks nobody
who could have one. The case that needs work is a dial that takes the current wait
channel and then looks for capacity: `CandidateExists` shows that what is there
is found.

### The pool's size

*Assumptions.* `NameAssumption` (finite sets of names), `BoundAssumption`, and
`SizeAssumption`: sizes are positive, and Target - 1 + ScaleParallelism is at most
MaxPool, as with the code's 4, 2 and 12, so that a scale-up from below the target
stays within the maximum.

*The argument.* `Typed` adds to the types that a goroutine holds a connection
exactly between SSH's handshake and its append, and that scaleInFlight counts the
goroutines that scale up. On it rest `OpenIsPooled`, which is inductive with it, and
`Counted`, which bounds replenishInFlight by a round. `Growth` is the invariant
behind `GrowthBounded`: it leaves room for what the maintenance loop between
its count and its reservation, and a dial between its check and its count, are
about to add.

### The proxy

*Assumptions.* `LimitAssumption` (finitely many connections) and `FileAssumption`
(the program started with a file that loads).

*The argument.* `IInv == ConfigOK /\ ConnsOK /\ TokensHeld`. `ConfigOK` says that
what reload checked still holds of what Update installs, since the upstreams never
change; `Ordered`, for each connection, that the handler passes stopWatch only
behind the watcher and only the relay runs the copies. `MatchKnown` is the lemma
about the router: whatever is asked, Match answers with a name of the rules.

TLC checked each inductive invariant before it was proved.

*Model-checked only.* All liveness (`WriteReturns`, `PauseBounded`,
`AcceptedDelivered`, `ProcessedUnlessOvertaken`, `FailureHandled`, `WritersReturn`, `PoolRefills`, `CloseEnds`,
`DisconnectEndsDial`, `BufferedRelayed`, `DirectRelayEnds`, `RouterConverges`): the
prover has no support for fairness and ENABLED. Every invariant and every action property of a passing run is
a theorem, some under the assumptions named above.

## Plan

In this order; each item names the behaviour it is for.

1. `AdapterDuplex`: both halves and SSH's flow control, for the mutual wait in
   which a full pipe stops acknowledgements, and deadlines in sendAck.
2. Keepalive: the rescue that breaks the WebSocket under a live SSH connection,
   its cooldown, and eviction while the adapter is resuming, composed with
   `AdapterResume`.

## Not modelled, and why

Message framing is a bijection on byte strings with round-trip tests; the models
carry sequence numbers instead. Retry computes a delay in floating point with
random jitter, which TLA+ has no arithmetic for; a backoff is an event. The SSH
and AWS clients are thin sequential wrappers of libraries. Diagnostics and
connection ids are read-only, the resume experiment is outside the program. Of
the pool, the cooldown of keepalives is left out: what it decides is a matter of
durations, and `PoolSize` has both outcomes. Of the configuration, flags, the
environment, the search for the file and the legacy mode run once, at startup,
in one goroutine. Of the server, temporary accept errors and the counters for
the diagnostics have no effect on a connection. Option parsing and logging have
no behaviour a model would add to. The SSM agent, the network and the SSH library
are the environment: modelled only as far as the code relies on them.
