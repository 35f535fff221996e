# Verification of dci-module-net

TLA+ models of the network module: stream channels and what they promise, their
buffers, servers, datagram channels, the host that owns them, the name resolver and
the mirror of the machine's links and routes, with TLC configurations that check
them on small instances and proofs (TLAPS) for instances of any size.
Paths below are relative to the repository; "external" is what the repository
uses and does not contain (the poll, cmt, sbs and bytes libraries, the kernel,
the peer).

## The system

The module offers a `Host` interface. Everything but the resolver's workers runs
on one thread, the event loop's. Handlers run to completion; what makes them hard
is that they call the user's callbacks in the middle, that a callback may call
back into the object, that descriptors are polled edge-triggered (an event not
used up and not remembered is gone), and that the kernel and the peer go on
between any two system calls.

| Component | State it keeps | Operations | Interacts with |
|---|---|---|---|
| `stream::Channel` | descriptor and its subscription, remembered ready flags, connected, receive granula, send buffer, connect promise | connect, send, setReceiveGranula/startReceive/stopReceive, shutdown, close, the event handlers | kernel, poll, user callbacks, the host's receive buffer |
| `stream::SendBuffer` | unsent bytes as chunks, an iovec array over the first of them | push, drop, clear | `stream::Channel` |
| `utils::RecvBuffer` | chunks to read into, an iovec array, its limit; one per host | limitDataSize, unlimitDataSize, detach | every channel of the host |
| `stream::Client` | bind endpoint, options | bind, connect | makes channels |
| `stream::Server` | listening descriptor, endpoints | listen, close, accept loop | makes channels |
| `datagram::Channel`, `datagram::SendBuffer` | descriptor, opened, endpoint; an iovec array shared by the host's channels | bind, send, close, receive | kernel, the host's buffers |
| `IpResolver`, `ipResolver::Task` | list of tasks under a mutex, stop flag; promise, result, canceled flag of a task | execute, cancel, worker loop, resolve, destruction | worker threads, condition variable, getaddrinfo, awaker |
| `Links`, `Link` | map of links, pending additions and deletions, changed mark | setters, addresses, add, delete, flushChanges | enumerator, users of `Host` |
| `Routes` | two tables, pending additions and deletions | add, del, flushChanges | enumerator, users of `Host` |
| `enumerator::Rtnetlink` | netlink socket, which dumps were asked for | constructor, request chain, onSock | kernel, `Links`, `Routes` |
| `Host` | registers of all of the above | factories, track/untrack, destruction | everything |
| `OptionsStore`, `utils::sockaddr`, `utils::makeError`, `entry.cpp` | options; none | conversions | |
| `enumerator::Netioapi` | as `Rtnetlink`, on Windows | | |

What makes each of them correct:

- Stream channel: one `closed` signal; a connected channel has a descriptor and a
  subscription; no edge lost, in either direction; the wire carries a gapless
  prefix of what was sent; `sended` counts each byte once; nothing is signaled
  after `closed`; an orderly end loses no data; a connection attempt is resolved.
- Buffers: the iovec array is a prefix of the data and empty only without data;
  `detach` finds the bytes where a read put them, whatever earlier limits left.
- Resolver: no task held twice or used after deletion, no lost wakeup, one answer
  per request, an end to destruction.
- Links and routes: equal to the kernel's once nothing is on its way; every change
  is signaled; an enumeration runs to its end.
- Server: no connection without something that announces it, each announced under
  the endpoint it came to, no socket file taken from another server.
- Datagram channel: one `closed` signal for each opening, each send on the wire or
  refused once, no datagram made of two messages.
- Host: every object deleted once, none forgotten, destruction in any order.

## Modules

| Module | Models | State and code |
|---|---|---|
| `SendBuffer` | `stream/sendBuffer.cpp` | operators on a record: a byte is its position in the stream ever pushed, a chunk the position it ends at, `bufs` the chunks of the iovec array |
| `RecvBuffer` | `utils/recvBuffer.cpp` | operators on a record: `_bufsAmount`, `_dataSize` and the length of each iovec element; `Capacity(g)` is what a read limited to `g` can return |
| `StreamChannel` | `stream/channel.cpp`, the part of `stream/client.cpp` about a channel | below |
| `IpResolver` | `ipResolver.cpp`, `ipResolver.hpp`, `ipResolver/task.cpp` | a program counter per worker (`wpc`) and one for the main thread (`mpc`); a critical section is one step, a notification and a wait are steps of their own |
| `Links`, `Routes` | `links.cpp`, `link.cpp`; `routes.cpp` | the operations, as actions on their own variables; the caller composes them |
| `Rtnetlink` | `enumerator/rtnetlink.cpp` over the two, with the kernel | one action per kind of message, per request and per kernel event |
| `ByteStream` | what `stream::Channel` promises | nine variables, no descriptors, events, buffers or callbacks |
| `StreamRefinement` | `StreamChannel` as a `ByteStream` | the mapping, below |
| `DatagramChannel` | `datagram/channel.cpp`, `datagram/sendBuffer.cpp`, of `optionsStore.cpp` when options are stored, applied and lost | below |
| `StreamServer` | `stream/server.cpp`, any number of servers | below |
| `Host` | `host.cpp`, the ends of the objects' lives in the other files, `entry.cpp`'s stop and unload | below |
| `RtnetlinkInvariant` | | what holds of `Rtnetlink` at every step, in terms of messages queued and dumps to come; checked by the run `netlink` and the base of its proofs |
| `BufferProofs`, `MCBuffersProofs` | | facts about every operation of the two buffers; theorems about any sequence of their calls |
| `StreamChannelProofs` | | theorems about a stream channel: its life, what it writes, what it promises and that it keeps it, that it loses no edge |
| `DatagramProofs`, `ServerProofs`, `HostProofs`, `ResolverProofs`, `NetlinkProofs` | | theorems about `DatagramChannel`, `StreamServer`, `Host`, `IpResolver` and `Rtnetlink` |
| `MCBuffers`, `MCStreamChannel`, `MCIpResolver`, `MCRtnetlink`, `MCDatagram`, `MCServer`, `MCHost` | | instances for TLC; `MCBuffers` is also the caller of the two buffers |

`EXTENDS` goes: `StreamChannel` over `SendBuffer` and `RecvBuffer`; `Rtnetlink`
over `Links` and `Routes`, `RtnetlinkInvariant` over `Rtnetlink`; `StreamRefinement` over `StreamChannel`, with `ByteStream`
as an instance. The operators called "Faulty variant of ..." are not
part of any specification: each is what the operator after it would be with a
plausible mistake, and serves to see that the properties notice.

### StreamChannel in detail

`sock`, `sub`, `last`, `promise`, `connected`, `granula` and `sbuf` are `_sock`,
the subscription through `_sockReadyOwner`, `_lastReadyState`, `_connectPromise`,
`_connected`, `_receiveGranula` and `_sendBuffer`. `pc` is where the running
handler is; a system call is a step, and so is the return of a callback:

    connectedSockReady -> loop -> write* -> [sended] -> doRead -> read* <-> [received]
                           ^                                        |
                           +------------------ tail <---------------+

`LoopFails`, `LoopCloses` are the error branch, `WriteSome`, `WriteWouldBlock`,
`WriteFails` the outcomes of `sendmsg` in `doWrite`, `ReadSome`, `ReadDone`,
`ReadZero`, `ReadError` those of `readv` in `doRead`, `TailCloses` the eof branch.
`failed(e, true)` is `Failing` up to its `failed` signal and `CallbackReturns`
after it. A user call is one step, except that the writes `close` and `shutdown`
make first (`PreWrite`, `doWrite` in its pre-close mode) are one each; `op` names
the call under way. The user may call from outside and, `MayCall`, from within any
callback; the last reference is let go of only while no handler runs.

The kernel: `inq`/`outq` are the unread and the untaken bytes, `fin`, `rst`,
`soErr`, `shut` the state of the connection, `Level` what a poll reports. `edge`
says that the poll has something new: data, an end, a reset, or room after a write
that met a full socket (`nospace`). `kick` is `emitReady`. These are modelled from
how the code uses them and as Linux sockets behave. The build is the one where
`dbgAssert` does nothing. Assertions that only several steps could break are
among the properties and invariants, or said to be false below; those that the code
just before them establishes are not stated.

`nClosed`, `delivered`, `reported` and `wired` count what was signaled and written.
`stalled` says that `doWrite` gave up the write flag after `sendmsg` had taken the
whole array (see the findings): the properties about output hold but for that.

Left out: options and endpoints, the wording of errors, the `failed(NotConnected)`
and `failed(InvalidArgument)` signals that change nothing.

### ByteStream and StreamRefinement

`ByteStream` is a connection that is opened at most once and closed at most once,
takes bytes, writes them in order and without gaps while its output lasts, reports no
more than it has written and delivers no more than has arrived. Its variables are
counts, since every side takes bytes from the front only.

The mapping takes the life of the channel from the signals, `Phase`: *new* until
somebody holds it, *open* while it is connected and has not said closed, *ending*
within `failed` while closed is owed, *closed*, *gone*. The buffer is
`DataSize(sbuf)`, what was sent is where the buffer's tail has come to, the lost
output is `rst \/ "out" \in shut`. Only a lost output lets an open channel discard
bytes: that a failed write which clears the buffer implies a reset connection or a
shut output is what the refinement has to show.

### DatagramChannel in detail

`opened`, `sock`, `stored` and `cached` are `_opened`, `_sock`, the options store and
the descriptor `_localEndpoint` was fetched from. Handlers emit `received`, `failed`
and `closed`, `send` and `close` do too, and a callback may call the channel again:
`frames` is the stack of callbacks that have not returned, where *failing* stands for a
`failed(e, true)` that still owes its closed signal. `msg` and `left` are the message
`doSend` is working on; every `sendmsg` is a step (`SendSome`, `SendWouldBlock`,
`SendFails`). `Opens`, `OpenFails` and `BindFails` are the ways through `open` and
`bind`: what a refused bind does to descriptor, `_opened` and options differs between
them. The poll learns flags when the loop waits (`Poll`) and they are handled later
(`ErrorEvent`, `CloseEvent`, `RecvOne`, `RecvFails`); `late` is the eof event of a
descriptor the channel closed itself, which `EofEvent` handles, against a descriptor
opened since if there is one. A bind of an opened channel closes the descriptor and
calls `open` with `_opened` still set, so the assertion there is false (see the
findings); the model goes on as the code does without assertions, and what follows is the
same opening: it owes one closed signal. The other assertion of `open`, that there is no
descriptor, holds by `SocketOfOpened`. Addresses are left out; a send without data returns
before it does anything.

### StreamServer in detail

Servers share what belongs to the process and the file system: the numbers of
descriptors, which the kernel gives out again, and the paths of local endpoints.
`bindEp`, `localEp` and `sock` are the members of each server; `file` says whose bind
made the file of a path. `listen` is one step with every way it can end (`ListenFails`
before a descriptor is attached, `Results` after), `FilesWith` and `FilesAfter` are
its unlinks. The accept loop is `ReadEvent`, `Accept`, `AcceptedReturns`,
`AcceptsAll`, `AcceptFails`; between `Accept` and `AcceptedReturns` the callback may
call any server, and the loop then goes on with the number it began with, hence
`Targets`. `ErrorEvent` and `EofEvent` have their return in a step of their own
(`ErrorReturns`, `ClosedReturns`), since they close or forget whatever the callback
has set up.

### Host in detail

An object is on a register of the host from its constructor to its destructor, and has
slots of its own that delete it: on `involvedChanged(false)`, the loss of the last
reference, and, for a channel that connects, in the continuation of its promise.
References are held by the user (`held`) or caught in a subscriber of a signal
(`caught`), of the same object too. `Deletes` is the body of a destructor (flush,
close, untrack), `MembersGo`, `TellingReturns`, `SubscriberGoes` and `ObjectGone` its
rest: a broken promise runs whoever waits for it, and the subscribers go with what
they caught, whose last reference that may be. `running` is the stack of destructors.
`HostBegins`, `HostDeletes` and `StageEnds` are `~Host`. A connect that fails at once
makes the channel and deletes it in the same step (`Connect`, its third outcome).

### What is taken from outside

Modelled from how the code uses it: readiness is edge-triggered; `close()` of a
descriptor posts an event with `rsf_eof` (the closed signal of a server has no other
source), which may come after the next attach. The datagram run assumes the worse of
the two possibilities with `EofOutlives`, and the proofs hold for both; in `StreamServer`
it need never come. `involvedChanged` is emitted at once, when the last reference goes,
to the slots there are then; continuations of a future run at once; the last reference
of an object does not go within a callback the object itself has called (the generated
interface code, not in the repository, would have to see to that). `getsockname` of a
bound socket succeeds. Datagrams are of at least one byte: one of length zero leads
`detach(0)` to an index of -1, and there is no saying what comes after. Datagram sockets are UDP:
local sockets ignore `MSG_MORE`, and each fragment is a datagram there. The poll
reports `rsf_close` of no stream descriptor (`Level` in `StreamChannel`: nothing but the
channel itself closes it, and the flag is raised by the code only), and of a datagram
descriptor at any moment, but only while the channel holds it (`CloseEvent`). The kernel
answers a dump request with the dump and `NLMSG_DONE` or, before it has reported anything,
with `NLMSG_ERROR` (`DumpRejected`); parts of dumps wait for room in the socket's queue.
Requests to the resolver have a name: an empty endpoint is answered at once, without a
task.

## What the runs check

| Run | Configuration | Question |
|---|---|---|
| `buffers` | `MCBuffers.cfg` | `IovecIsPrefix`, `EmptyMeansSent` for the send buffer, `DetachFindsTheData`, `LimitIsExact` for the shared receive buffer, under any sequence of calls of stream and datagram channels |
| `stream_safety` | `MCStreamChannel.cfg` | the invariants and action properties of a channel, dialed or accepted, and that it implements `ByteStream` |
| `stream_liveness` | `MCStreamChannelLive.cfg` | sent bytes are written, arrived ones delivered, an ended input closes, an attempt is resolved |
| `resolver` | `MCIpResolver.cfg` | the invariant `RInv` (who holds a task), `NoUseAfterDelete`, `NoLostWakeup`, `AnsweredOnce`, and liveness of the resolver with cancellations, spurious wakeups and destruction at any moment |
| `netlink` | `MCRtnetlink.cfg` | convergence of links and routes, signals, the inductive invariant `NInv` they rest on, termination of the enumeration |
| `datagram` | `MCDatagram.cfg` | closed signals against openings, sends against datagrams and failed signals, whole datagrams, reception of a datagram that arrives alone |
| `server` | `MCServer.cfg` | connections and what announces them, their endpoint, socket files, and the agreement of servers and kernel on descriptors |
| `host` | `MCHost.cfg` | deletion once, nothing forgotten, an end to destruction |

Four more runs each show one disagreement between the code and what it says of
itself (below).

### Bounds

- `buffers`: 7 bytes in chunks of 1 to 3 over an array of 3 that is refilled from 1
  down, so that a push finds it short and long enough and drops cut chunks at every
  place; a receive buffer of 3 elements of 3 bytes, granulas 1 to 10: below, at and
  above one element, a multiple of one, the whole, and more than the whole.
- `stream_safety`: 4 bytes out in chunks of 1 and 2, an array of one chunk, a socket
  that holds 2: whole, partial and refused writes and the stall occur, with more
  chunks waiting than the array holds. 2 bytes in, elements of 2, granulas 0, 1 and 4:
  reads that leave data behind, and unlimited ones. Every argument of shutdown.
  A reset, a close of the peer, a refusal happen at most once each by their nature.
  The counts are what bounds the state space; nothing in the code depends on how many
  bytes went before. Arrays of several chunks are the business of `buffers`, the
  empty last element that of `stream_zero_read`.
- `stream_liveness`: the same with 3 bytes out, one in, a socket that holds 1, and
  shutdown of the output.
- `resolver`: three requests, two workers (the code starts one; two show that nothing
  depends on it), so that a request is queued behind another while both workers are
  busy, and the list holds two at destruction.
- `netlink`: one link with two attribute values and one address, one route of each
  family, three changes by the kernel at any time from the socket's binding on, room
  for two messages, any request refused or answered with an error: enough for a change to come, go and come back around any part of
  any dump and for the socket to overrun. Links do not depend on each other in the
  code, nor do addresses or routes.

- `datagram`: two sends of one to three chunks over an array of two (less than a
  fragment, a whole one, one and a half), two descriptors, so that a late
  event meets a second opening, two arrivals, two nested callbacks, so that a callback
  of `failed` fails again, a kernel that holds one datagram, so that the queue is full
  in the middle of a message.
- `server`: two servers, one path both may bind besides endpoints without a file, two
  numbers and three sockets, so that a number is used again while a loop still
  goes by it, two connections. Servers and numbers are interchangeable (symmetry;
  only safety is checked).
- `host`: one server, one client, two channels, one datagram channel, two caught
  references: a cycle, an object that catches itself, and a chain of three destructors
  that runs from one register to another.

`CHECK_DEADLOCK FALSE` stands where the system may stop: a channel that is closed or
deleted, a resolver that is gone, a kernel that changes nothing more, servers and
hosts without calls or connections.

### Fairness

- `StreamChannel`: the event loop calls handlers, handlers and the calls made in
  callbacks go on, callbacks return (`Handler`, `CallContinues`, `ConnectSockReady`),
  the kernel ends a connection attempt, and the peer goes on reading (`PeerTakes`).
  `Handler` is strongly fair because a user call in a callback disables it for a
  while. Users owe no call and peers no data. Without a reading peer nothing obliges
  TCP to deliver; that is the only assumption on the peer.
- `IpResolver`: each thread is scheduled, `getaddrinfo` returns, a woken task is
  eventually run. `AwakerWoken` is strongly fair: `execute` takes the main thread for
  two steps. No spurious wakeup is assumed.
- `Rtnetlink`: the event loop and the kernel's dumps go on. Changes are owed by nobody.
- `DatagramChannel`: calls and callbacks that have begun go on, the loop polls and
  handles what it was told of. The last two are strongly fair since user calls keep
  the loop waiting. The kernel owes nothing.
- `Host`: a destructor that has begun goes on, `~Host` too. Nothing else is owed.
- `StreamServer` has safety properties only.

### What the properties leave open, on purpose

- `LinksConverge` excludes links reported as new and as deleted within one batch
  (`mixed`): `flushChanges` deletes first and adds then, so a link that comes and goes
  stays as a ghost and one that goes and comes back is lost with its addresses.
- `RoutesConverge` says of all routes that none of the kernel's is missing, and is
  exact but for those reported ambiguously (`clash`): added and deleted in one batch,
  or by the dump and by a notification (entered twice).
- The convergence properties hold while no notification was lost and no request
  failed or was answered with an error: after any of them the enumerator does not ask
  again.
- `EofDeliversAll` is about a user who is receiving, and an end by the peer; a user who
  has stopped receiving loses what it has not read when the peer closes.
- Bytes sent before the descriptor's first event and followed by `close` are
  discarded, a send and close in the accepted callback for one; nothing in the code says
  otherwise. `shutdown` of the output that meets a write error discards them silently.
- `AcceptedKnowsEndpoint` excepts a loop whose socket was closed in the accepted
  callback (it may then accept from a socket that has the number now, another server's
  too) and a server that lost its endpoints to the eof of an earlier descriptor.
- `NoStranded` excepts sockets on which an accept has failed: the loop ends there with
  the edge used up, and what is queued waits for the next connection.
- `FileKept` excepts another server that was told to bind the same path: the unlink in
  `close` and `listen` does not ask whose file it is.
- The error branch of the server closes what its failed callback has opened again.
- `LoneArrivalReceived` is about a datagram that finds the queue empty: one `recvmsg`
  for one edge leaves the second of two to wait for a third, and a datagram dropped
  after it was announced makes `EAGAIN`, which closes the channel.
- `localEndpoint` of a datagram channel that was closed and bound again answers the old
  endpoint; a refused bind loses the options set before, and an option that is refused
  stays in the store and fails every opening to come. All are in the model, and nothing
  in the code says which is meant.
- The resolver's list is last in, first out: requests that keep coming starve an early
  one. `Answered` holds since an instance has only so many.
- After a write error the handler goes on to read from the number of the descriptor
  it has closed (`src/src/stream/channel.cpp:529`), against the assertion at line 391;
  the read fails and nothing else comes of it in a single-threaded process.

## Findings

| Run | Claim | What the code does |
|---|---|---|
| `stream_called_closed` | `CalledOnlyConnected`, the assertion at `src/stream/channel.cpp:498` | `\|= ~rsf_eof` raises `rsf_close`, a later `close` then keeps the subscription |
| `stream_zero_read` | `ZeroReadMeansEnd`, the comment at `src/stream/channel.cpp:438` | a granula of exactly one chunk makes an iovec of length 0, and the empty read passes for the end |
| `stream_write_stall` | `AllSentEventually`, the `wait` of `sended` in `idl/net/stream/channel.idl:21` | the write flag is compared away against a refilled array, and no event brings it back |
| `resolver_drain` | `CancelsAll`, the comment at `src/ipResolver.cpp:57` | only the first waiting task is resolved by the destructor |

One more claim of the code is false, and no property of a run states it: the assertion
`dbgAssert(!_opened)` at `src/src/datagram/channel.cpp:153`. `bind()` of a channel that is
opened, by an earlier `bind()` or by a `send()`, closes the descriptor (lines 43-47),
leaves `_opened` set and calls `open()`: two calls of `bind()` are enough, `Bind` twice in
the model. If the second is refused, the channel stays opened without a descriptor until
a send fails or `close()` is called. `ClosedPerOpening` counts no new opening there, and
holds because the code owes no second closed signal.

## Proofs

All theorems hold for every value of the constants that satisfies the assumptions of
the modules (`SendBufferAssumption`, `RecvBufferAssumption`, `MCBuffersAssumption`,
`StreamChannelAssumption`, `IpResolverAssumption`, `LinksAssumption`, `RoutesAssumption`,
`RtnetlinkAssumption`, `DatagramAssumption`, `ServerAssumption`, `HostAssumption`: sizes
and bounds are natural numbers, capacities positive, kinds of objects and families of
routes disjoint, markers not members of the sets beside them, and the resolver has a
worker, as its constructor sees to). Every invariant and action property that a passing
run checks is proved; so is `ZeroReadMeansEnd`, which a run shows to be violated, under
the condition that excludes the violation.

| Theorem | Property | Rests on |
|---|---|---|
| `Invariance` | `IInv` | |
| `TypeCorrect` | `TypeOK` | `IInv` |
| `ClosedExactlyOnce` | `ClosedOnce` | `IInv` |
| `ConnectedStaysWired` | `ConnectedIsWired` | `IInv` |
| `ReportedWasWired` | `ReportedIsWired` | `IInv`, `CountedOnce` |
| `WireHasNoGap` | `NoGapOnWire` | `IInv`, `GapFree` |
| `ChannelIsByteStream` | `ImplementsByteStream` | `IInv`, `GapFree`, `BufferTidy`, `WritesOpen` |
| `StreamPromises` | `WritesPrefix`, `NothingInvented` of `ByteStream` | |
| `ChannelWritesPrefix` | the same of `StreamChannel` | `ChannelIsByteStream`, `StreamPromises` |
| `WriteEdgeKept` | `NoLostWriteEdge` | `Steady`, `WriteInv` |
| `ReadEdgeKept`, `SilentOnceClosed`, `EofDelivers` (\*) | `NoLostReadEdge`, `SilentAfterClosed`, `EofDeliversAll` | `Steady`, `ReadInv` |
| `ZeroReadIsEnd` (\*) | `ZeroReadMeansEnd` | `Steady`, `ReadInv` |
| `IovecStaysPrefix`, `EmptyIsSent` | `IovecIsPrefix`, `EmptyMeansSent` | `BInv` |
| `DetachFinds`, `LimitStaysExact` | `DetachFindsTheData`, `LimitIsExact` | `BInv` |
| `ResolverInvariant` | `RInv` | |
| `TaskHasOneHolder`, `DeletedTaskIsFree`, `WakeupIsNotLost` | `OneHolder`, `NoUseAfterDelete`, `NoLostWakeup` | `RInv` |
| `AnswerIsFinal` | `AnsweredOnce` | `RInv` |
| `NetlinkInvariant` | `NInv` | |
| `LinkEntersOnce`, `NothingUntold` | `AllocatedOnce`, `SignalsSuffice` | `NInv` |
| `RoutesAgree`, `LinksAgree` | `RoutesConverge`, `LinksConverge` | `NInv` |
| `DatagramInvariant` | `DInv` | |
| `ClosedOncePerOpening`, `EverySendAccounted` | `ClosedPerOpening`, `SendsAccounted` | `DInv` |
| `DatagramsAreWhole` | `WholeDatagrams` | `DInv` |
| `ServerInvariant` | `SInv` | |
| `NobodyStranded`, `EndpointKnown`, `FilesKept` | `NoStranded`, `AcceptedKnowsEndpoint`, `FileKept` | `SInv` |
| `HostInvariant` | `KInv` | |
| `NobodyDeletedTwice`, `NobodyForgotten` | `DeletedOnce`, `NoOrphan` | `KInv` |
| `HostNests` | `HInv` | `DInv` of `HostProofs` |
| `HostLeavesNothing` | nothing made is left after `~Host` | `KInv`, `HInv` |

(\*) for `BufSize \notin Granulas`. With a granula of exactly one chunk these four do not
hold: that is the finding `stream_zero_read`, a read without room that returns nothing
and is taken for the end of the input, and what follows from it. The run
`stream_safety` has granulas below and above one chunk.

`ClosedOnce` and `ConnectedIsWired` are not inductive alone. `ClosedOnce` speaks of
channels the user holds; the step that hands one over (a connect that succeeds, the
event of a pending one) needs that until then it was silent and idle,
`QuietUntilExposed`. That event, again, needs that its handler is subscribed only
while the promise is pending and to an open descriptor, `ConnectingIsPending`, and that
an accepted channel has no promise, `AcceptedHasNoPromise`. The two halves of `failed`
are held together by `OwedInFailed`: the closed signal still owed belongs to a channel
that is not connected any more, so neither `close` in the failed callback nor a further
error can emit one. `IInv` is the conjunction; `stream_safety` checks it as an invariant.

The proof has a lemma per action (`...Keeps`), each with one step per part of the
invariant; parts whose variables an action leaves alone are settled by `SockUntouched`,
`DataUntouched`, `ControlUntouched`, `NetUntouched` and `BookUntouched`, and the send
buffer's operations by `SendBufferTypes`. `InitIInv` and `NextIInv` combine them, and the
theorems follow by temporal reasoning.

The output needs more. `CountedOnce` says where the bytes
written and not yet reported are: in `totalWrote`, while `doWrite`'s loop runs. `GapFree`
says that the send buffer begins where the wire ends, except on a channel that has lost
its connection or its output; such a channel may have discarded bytes, and the kernel
takes nothing from it any more. A connect is the only way back to a connected channel,
and `QuietUntilExposed` with `ConnectingIsPending` says that before it nothing was
written or discarded. The steps that write (`WriteSome`, `PreWrite`) are settled together
by `WritesFollow`, those that discard by `Discarding`, and the others by
`CountsUntouched` and `OutputUntouched`.

For the refinement every step is shown to be a step of the byte stream or none.
Two more facts are needed for it. `BufferTidy`: the iovec array covers the first chunks
of the data (`Sound`, from `BufferProofs`) and a channel without a connection has no data,
so what `sendmsg` takes was there to take. `WritesOpen`: within `doWrite`'s loop the
channel is connected, so a write is a step of an open stream. The steps of the
environment, of connecting, of handlers and of calls each have a lemma; `Stutter` settles
those that touch neither the counts nor the life. What `ByteStream` promises
(`StreamPromises`) carries over to the channel.

No edge is lost, in three parts. `Ground` is what both directions need: that a reset
leaves nothing to read, that an end of the input is announced or known (`EndNoticed`),
that a known end closes the channel before the handler rests (`RestIsOpen`).
`ReadInv` follows unread bytes: announced by an edge or remembered in the flag at every
step of the handler (`ReadFlagged`), with a call to come once `doRead` is left
(`ReadDue`); `EofKeepsRead` and `TailDrained` say the same of the last bytes before an
end, and `LeftOpenIsDrained` that a descriptor `close` has left open, by the flag the
finding `stream_called_closed` is about, has nothing to read any more, which is why no
`received` follows `closed`. `WriteInv` follows unsent bytes: whatever takes the write
flag has something else to call `doWrite` by, a promise of the kernel (`nospace`), an
edge, or the mark `stalled` of the finding `stream_write_stall`.

`BufferProofs` has a fact about each operation: `PushIsSound`, `DropIsSound`,
`ClearIsSound` keep the array the first chunks of the data; `LimitIsTidy` and
`DetachIsTidy` keep every element of the receive array whole but the last used one
and the last of all (`RecvTidy`). `EmptyMeansNoData` and `RoomForGranulas` are what the
stream channel takes from it. `MCBuffersProofs` adds where a channel is in its calls
(`Reading`). The room of an array is a sum over its elements: `SumsExist` and `RoomBound`
are proved by induction, as the least length for which they fail, since the
induction theorems of the library, which take an operator, cannot be used; for the same
reason sums are recursive functions here.

`ResolverProofs`: the places that can hold a task (the main thread about to push it,
the list, a worker, the awaker) are sets without a common member (`Apart`), and each step
takes a task from one to the next. `Requested` says that who is held was requested, and
a canceled one canceled by its requester; with it the awaker that resolves
and deletes a task knows that nobody else has it. `AtWork` ties the destructor's position
to the stop flag, so that a worker that waits with tasks listed has missed neither.

`NetlinkProofs`: convergence is about a state with nothing under way, and `NInv` about
all others. For each route, link, attribute and address it says: the last message
queued about it tells what the kernel has (`SaysLast`); if none is queued, what the
enumerator will know once the batch is flushed (`View`, `Left` with `addedRoutes`) is what
the kernel has, or a dump of it is to come (`Unreported`). An address is the hard case, a notification
of one being dropped while its link is not known: `AddrArrives` says that the address
is known, or brought by a message read when its link is known (`Brings`, `KnownAt`), or
that the dump of addresses is to come, which the order of `doNextRequest` guarantees
(`OneDump`). `ToldUnlessChanged` and `Flushed` give the signals.

`DatagramProofs`: the two accounts are inductive beside the types, since every path of
the code moves both sides of each at once; `SocketOfOpened`, that a descriptor is held
by an opened channel only and `corked = msg - left` while a message is sent, gives
`WholeDatagrams`.

`ServerProofs`: `SInv` says who holds which descriptor, from both ends (`Holds`,
`Held`), that no number is held twice (`Distinct`), what a listening server knows
(`Knows`) and on what a loop can be running (`Loops`). `Lets` is what close, a failed
listen and the destructor have in common. `EndpointKnown` is the argument why going on with a number is
harmless as far as it is: while the loop's socket is still its server's, whatever is
accepted by that number comes from that socket, by `Distinct`.

`HostProofs`: `Registered` says that registers, slots and lives agree; a destructor
takes both away before it does anything that may run others, so whoever deletes an
object finds one that lives, at any depth. `Emptied` is kept because nothing is made
once the host answers no more calls, but for channels connected by a client, and the
register of clients is emptied before that of channels. That destructors nest
(`Nested`) is proved in two parts. `Stack`: the objects between life and death are those on
the stack, each once, since only one that lives is deleted. `Apart`: nobody has a
reference to a channel that connects, nor to an object that is not made yet (`Unmet`,
the part that is not in `HInv`). With that, and since nothing has slots any more, no
destructor can run after `~Host`: `HostLeavesNothing`.

Model-checked only: liveness (`SentEventually`, `ReceivedEventually`,
`EofEventuallyCloses`, `ConnectResolves`, `Answered`, `DestroyEnds`,
`EnumerationCompletes`, `LoneArrivalReceived`, `DestructionEnds`). It is out of the
prover's reach, which has no rule for fairness over `ENABLED`. What each of these rests on at a
state (an edge to come, a worker awake, a dump under way) is among the invariants proved.

## Not modelled

- `utils/sockaddr.cpp`, `utils/makeError.hpp`: stateless conversions of addresses and
  error codes.
- `stream::Client` beyond what `connect` does: `bind` and `setOption` store values.
  `OptionsStore`: which option maps to which call of `setsockopt`.
- `entry.cpp` beyond stop and unload: the registration with the framework.
- The interface definitions are declarations. `Netioapi` is the Windows counterpart of
  `Rtnetlink`, which the POSIX build does not contain. The tests were read for what they
  expect.

## Plan

Done, in this order: buffers, stream channel, its proof, resolver, links and routes with
their enumerator; then `ByteStream` and the refinement, datagram channel, server, host,
each with its proof; then the proofs of the resolver, of the enumerator, of the buffers,
of the edges of the stream channel and of the nesting of destructors. To come:

1. The safety halves of liveness that are not yet stated: a step that makes progress is
   possible wherever one is owed (no state at rest of the resolver with a task listed,
   none of the enumerator with a dump to be asked for).
2. What follows from a finding when it is left in: that with the close flag raised by a
   zero read at most one closed signal comes, and which bytes a stalled write can leave.

## Running

    tlc -workers 2 -config MCStreamChannel.cfg MCStreamChannel.tla
    tlapm StreamChannelProofs.tla

and so on for the configurations and proof modules of the tables above.
