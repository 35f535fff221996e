---------------------------- MODULE StreamChannel ----------------------------
(***************************************************************************)
(* stream::Channel: one TCP (or local stream) connection as the user of    *)
(* the interface, the event loop and the kernel see it.                    *)
(*                                                                         *)
(* The channel lives on one thread.  Its handlers run to completion except *)
(* that they call the user's callbacks (sended, received, failed, closed), *)
(* and a callback may call send, setReceiveGranula, shutdown and close on  *)
(* the same channel.  The kernel and the peer run concurrently, so each    *)
(* system call is a step of its own.  pc is where the running handler is,  *)
(* op the user call whose writes are under way.                            *)
(*                                                                         *)
(* The build modelled is the one in which dbgAssert is a no-op; what the   *)
(* assertions claim is stated separately, as properties.                   *)
(***************************************************************************)
EXTENDS SendBuffer, RecvBuffer

CONSTANTS MaxOut,      \* bytes the user sends at most
          ChunkSizes,  \* sizes of the Bytes passed to send
          MaxIn,       \* bytes the peer sends at most
          SndCap,      \* bytes the kernel holds for the peer to take
          Granulas,    \* values passed to setReceiveGranula
          Shutdowns    \* arguments of shutdown, as sets of directions

ASSUME StreamChannelAssumption ==
    /\ MaxOut \in Nat /\ MaxIn \in Nat /\ SndCap \in Nat \ {0}
    /\ ChunkSizes \subseteq Nat \ {0}
    /\ Granulas \subseteq Nat
    /\ Shutdowns \subseteq (SUBSET {"in", "out"}) \ {{}}

Flags == {"read", "write", "eof", "close", "error"}

VARIABLES
    alive,      \* the Channel object exists
    origin,     \* created by Client::connect or by the accept loop
    sock,       \* _sock: no descriptor yet, open, closed
    sub,        \* handler subscribed through _sockReadyOwner
    last,       \* _lastReadyState
    promise,    \* _connectPromise
    connected,  \* _connected
    granula,    \* _receiveGranula
    sbuf,       \* _sendBuffer
    pc, ret,    \* position of the handler; where failed() returns to
    owesClosed, \* emitClosed of a failed() that is in its failed callback
    prog, tot,  \* someProcessed; totalWrote or totalReaded
    op, how,    \* user call in its pre-close writes; argument of shutdown
    nClosed,    \* closed signals emitted
    delivered,  \* bytes passed to received
    reported,   \* sum of the `now` arguments of sended
    wired,      \* bytes sendmsg took
    stalled,    \* history: doWrite gave the write flag up after a write taken whole
    link,       \* kernel: state of the connection
    inq, sentIn,   \* unread bytes; bytes the peer has sent
    outq,          \* bytes the peer has not taken
    fin, rst,      \* peer closed its side; connection reset or refused
    soErr,         \* SO_ERROR is set
    shut,          \* directions shut down with ::shutdown
    nospace,       \* a write met a full buffer: draining it raises an edge
    edge,          \* edge-triggered poll has something to report
    kick           \* emitReady is pending

chanVars == <<origin, sock, sub, last, promise, connected, granula, sbuf>>
ctlVars  == <<pc, ret, owesClosed, prog, tot, op, how>>
obsVars  == <<nClosed, delivered, reported, wired, stalled>>
netVars  == <<link, inq, sentIn, outq, fin, rst, soErr, shut, nospace>>
pollVars == <<edge, kick>>
vars == <<alive, chanVars, ctlVars, obsVars, netVars, pollVars>>

CallbackPcs == {"sended", "received", "failed", "closed"}
HandlerPcs  == {"loop", "write", "doRead", "read", "tail"}

SockTypeOK ==
    /\ alive \in BOOLEAN
    /\ origin \in {"connect", "accept"}
    /\ sock \in {"none", "open", "closed"}
    /\ sub \in {"none", "connect", "connected"}
    /\ promise \in {"null", "pending", "value", "exception", "canceled"}
    /\ connected \in BOOLEAN
    /\ edge \in BOOLEAN /\ kick \in BOOLEAN

DataTypeOK ==
    /\ last \subseteq Flags
    /\ granula \in Nat
    /\ sbuf \in SendBuffers
    /\ nClosed \in Nat /\ delivered \in Nat /\ reported \in Nat /\ wired \in Nat
    /\ prog \in BOOLEAN /\ tot \in Nat /\ stalled \in BOOLEAN

ControlTypeOK ==
    /\ pc \in {"idle"} \cup CallbackPcs \cup HandlerPcs
    /\ ret \in {"doRead", "tail", "idle"}
    /\ owesClosed \in BOOLEAN
    /\ op \in {"none", "close", "shutdown"} /\ how \subseteq {"in", "out"}

NetTypeOK ==
    /\ link \in {"down", "connecting", "up"}
    /\ inq \in Nat /\ sentIn \in Nat /\ outq \in Nat
    /\ fin \in BOOLEAN /\ rst \in BOOLEAN /\ soErr \in BOOLEAN
    /\ shut \subseteq {"in", "out"}
    /\ nospace \in BOOLEAN

TypeOK == SockTypeOK /\ DataTypeOK /\ ControlTypeOK /\ NetTypeOK

\* A Channel is created without a descriptor by Client::connect, or around an
\* accepted one by the server.  Adding a descriptor to the poll reports its
\* present state once.
Init ==
    /\ alive = TRUE
    /\ origin \in {"connect", "accept"}
    /\ connected = (origin = "accept")
    /\ sock = IF connected THEN "open" ELSE "none"
    /\ sub = IF connected THEN "connected" ELSE "none"
    /\ link = IF connected THEN "up" ELSE "down"
    /\ edge = connected
    /\ last = {} /\ promise = "null" /\ granula = 0 /\ sbuf = NewSendBuffer
    /\ pc = "idle" /\ ret = "idle" /\ owesClosed = FALSE /\ prog = FALSE
    /\ tot = 0 /\ op = "none" /\ how = {}
    /\ nClosed = 0 /\ delivered = 0 /\ reported = 0 /\ wired = 0 /\ stalled = FALSE
    /\ inq = 0 /\ sentIn = 0 /\ outq = 0
    /\ fin = FALSE /\ rst = FALSE /\ soErr = FALSE /\ shut = {}
    /\ nospace = FALSE /\ kick = FALSE

-----------------------------------------------------------------------------
(* Steps shared by the handlers.                                           *)

\* _sockReadyOwner.flush() and _sock.close(): no callback is delivered to a
\* flushed owner any more.
Unsubscribed ==
    /\ sub' = "none"
    /\ sock' = IF sock = "open" THEN "closed" ELSE sock
    /\ edge' = FALSE /\ kick' = FALSE

KeepsSocket == UNCHANGED <<sub, sock, pollVars>>

\* Faulty variant: the test of the close flag is inverted.
UnsubscribedIfClose(flags) ==
    IF "close" \in flags THEN Unsubscribed ELSE KeepsSocket

UnsubscribedUnlessClose(flags) ==
    IF "close" \in flags THEN KeepsSocket ELSE Unsubscribed

\* Faulty variant of Failing: _connected is not reset.
FailingConnected(flags, returnTo) ==
    /\ owesClosed' = connected
    /\ promise' = IF promise = "pending" THEN "exception" ELSE promise
    /\ UnsubscribedUnlessClose(flags)
    /\ sbuf' = Clear(sbuf)
    /\ last' = flags
    /\ pc' = "failed" /\ ret' = returnTo
    /\ UNCHANGED connected

\* failed(e, true) up to its failed signal; `flags` is _lastReadyState then.
Failing(flags, returnTo) ==
    /\ owesClosed' = connected
    /\ connected' = FALSE
    /\ promise' = IF promise = "pending" THEN "exception" ELSE promise
    /\ UnsubscribedUnlessClose(flags)
    /\ sbuf' = Clear(sbuf)
    /\ last' = flags
    /\ pc' = "failed" /\ ret' = returnTo

\* Faulty variant of Closing: closed is emitted whatever _connected is.
ClosingAgain(flags) ==
    /\ promise' = IF promise = "pending" THEN "canceled" ELSE promise
    /\ UnsubscribedUnlessClose(flags)
    /\ last' = {"close"}
    /\ sbuf' = Clear(sbuf)
    /\ connected' = FALSE
    /\ nClosed' = nClosed + 1

\* close() after its doWrite; `flags` is _lastReadyState then.
Closing(flags) ==
    /\ promise' = IF promise = "pending" THEN "canceled" ELSE promise
    /\ UnsubscribedUnlessClose(flags)
    /\ last' = {"close"}
    /\ sbuf' = Clear(sbuf)
    /\ connected' = FALSE
    /\ nClosed' = IF connected THEN nClosed + 1 ELSE nClosed

\* What one sendmsg meets, and one readv.
SendFails == sock # "open" \/ rst \/ "out" \in shut
SendWouldBlock == ~SendFails /\ outq = SndCap
SendAccepts(n) ==                       \* as much as fits of the iovec array
    /\ ~SendFails
    /\ outq + n <= SndCap /\ WithinBufs(n, sbuf)
    /\ outq + n = SndCap \/ ~LessThanBufs(n, sbuf)

InputEnded == fin \/ rst \/ "in" \in shut
ReadFails == sock # "open" \/ soErr
ReadWouldBlock == ~ReadFails /\ inq = 0 /\ ~InputEnded /\ Capacity(granula) > 0
ReadIsZero == ~ReadFails /\ (Capacity(granula) = 0 \/ (inq = 0 /\ InputEnded))
Readable(n) == /\ ~ReadFails
               /\ n <= inq /\ n <= Capacity(granula)
               /\ n = inq \/ n = Capacity(granula)

\* The body of doWrite's loop when sendmsg takes n bytes: they leave the
\* buffer, and the write flag goes when n is less than bufsSize(), which
\* drop() has just recomputed.
Wrote(n) ==
    LET rest == Drop(sbuf, n) IN
    /\ sbuf' = rest
    /\ outq' = outq + n /\ wired' = wired + n
    /\ nospace' = (nospace \/ LessThanBufs(n, sbuf))
    /\ last' = IF LessThanBufs(n, rest) THEN last \ {"write"} ELSE last
    /\ stalled' = (LessThanBufs(n, rest) /\ ~LessThanBufs(n, sbuf))

WriteReady == "write" \in last /\ ~IsEmpty(sbuf)
WriteReadyNext == "write" \in last' /\ ~IsEmpty(sbuf')

-----------------------------------------------------------------------------
(* Connecting (Client::connect and the handler it subscribes).             *)

Dialing == alive /\ origin = "connect"

\* socket, attach, applyOptions, bind or connect fails: the future is ready
\* with an exception and the descriptor, if there is one, stays.
ConnectFails ==
    /\ Dialing /\ promise = "null" /\ sub = "none" /\ sock = "none"
    /\ promise' = "exception"
    /\ sock' \in {"none", "open"}
    /\ UNCHANGED <<alive, origin, sub, last, connected, granula, sbuf,
                   ctlVars, obsVars, netVars, pollVars>>

ConnectSucceedsAtOnce ==
    /\ Dialing /\ promise = "null" /\ sock = "none"
    /\ promise' = "value" /\ connected' = TRUE
    /\ sock' = "open" /\ sub' = "connected"
    /\ link' = "up" /\ edge' = TRUE
    /\ UNCHANGED <<alive, origin, last, granula, sbuf, ctlVars, obsVars,
                   inq, sentIn, outq, fin, rst, soErr, shut, nospace, kick>>

ConnectStarts ==
    /\ Dialing /\ promise = "null" /\ sock = "none"
    /\ promise' = "pending"
    /\ sock' = "open" /\ sub' = "connect"
    /\ link' = "connecting"
    /\ UNCHANGED <<alive, origin, last, connected, granula, sbuf, ctlVars, obsVars,
                   inq, sentIn, outq, fin, rst, soErr, shut, nospace, pollVars>>

\* The holder of the future cancels it (the canceled() handler).
ConnectCanceled ==
    /\ alive /\ promise = "pending"
    /\ promise' = "canceled"
    /\ Unsubscribed
    /\ UNCHANGED <<alive, origin, last, connected, granula, sbuf, ctlVars,
                   obsVars, netVars>>

\* Client::connect deletes a channel whose future holds no value.
ClientDrops ==
    /\ Dialing /\ promise \in {"exception", "canceled"}
    /\ alive' = FALSE
    /\ Unsubscribed
    /\ UNCHANGED <<origin, last, promise, connected, granula, sbuf, ctlVars,
                   obsVars, netVars>>

\* What the poll reports of a descriptor.  It is assumed never to report
\* rsf_close of one that the channel holds: that flag is raised by ReadZero only.
Level ==
    (IF inq > 0 \/ InputEnded THEN {"read"} ELSE {})
    \cup (IF outq < SndCap \/ rst THEN {"write"} ELSE {})
    \cup (IF InputEnded THEN {"eof"} ELSE {})
    \cup (IF soErr THEN {"error"} ELSE {})

AtRest == pc = "idle" /\ op = "none"

\* Faulty variant of ConnectSockReady: a failed attempt is not handled.
ConnectIgnoresFailure ==
    /\ alive /\ AtRest
    /\ sub = "connect" /\ edge
    /\ Level \cap {"error", "eof", "close"} = {}
    /\ promise' = "value"
    /\ connected' = TRUE /\ last' = last \cup Level
    /\ sub' = "connected" /\ edge' = FALSE
    /\ UNCHANGED <<alive, origin, sock, granula, sbuf, kick, ctlVars, obsVars, netVars>>

ConnectSockReady ==
    /\ alive /\ AtRest
    /\ sub = "connect" /\ edge
    /\ \/ /\ Level \cap {"error", "eof", "close"} # {}
          /\ promise' = "exception"
          /\ Unsubscribed
          /\ UNCHANGED <<connected, last>>
       \/ /\ Level \cap {"error", "eof", "close"} = {}
          /\ Level \cap {"read", "write"} # {}
          /\ promise' = "value"
          /\ connected' = TRUE /\ last' = last \cup Level
          /\ sub' = "connected" /\ edge' = FALSE
          /\ UNCHANGED <<sock, kick>>
    /\ UNCHANGED <<alive, origin, granula, sbuf, ctlVars, obsVars, netVars>>

-----------------------------------------------------------------------------
(* connectedSockReady, doWrite and doRead.                                 *)

Fired == sub = "connected" /\ (edge \/ kick)

\* Faulty variant of ConnectedSockReady: only readiness is remembered.
ForgetsEof ==
    /\ alive /\ AtRest /\ Fired
    /\ last' = last \cup (IF edge THEN Level \cap {"read", "write"} ELSE {})
    /\ edge' = FALSE /\ kick' = FALSE
    /\ pc' = "loop"
    /\ UNCHANGED <<alive, origin, sock, sub, promise, connected, granula, sbuf,
                   ret, owesClosed, prog, tot, op, how, obsVars, netVars>>

ConnectedSockReady ==
    /\ alive /\ AtRest /\ Fired
    /\ last' = last \cup (IF edge THEN Level ELSE {})
    /\ edge' = FALSE /\ kick' = FALSE
    /\ stalled' = (stalled /\ "write" \notin last')
    /\ pc' = "loop"
    /\ UNCHANGED <<alive, origin, sock, sub, promise, connected, granula, sbuf,
                   ret, owesClosed, prog, tot, op, how, nClosed, delivered,
                   reported, wired, netVars>>

Running(at) == alive /\ pc = at /\ op = "none"

\* The error branch: SO_ERROR tells a failure from a plain close.
LoopFails ==
    /\ Running("loop") /\ "error" \in last /\ soErr
    /\ soErr' = FALSE
    /\ Failing({}, "idle")
    /\ UNCHANGED <<alive, origin, granula, prog, tot, op, how, obsVars,
                   link, inq, sentIn, outq, fin, rst, shut, nospace>>

LoopCloses ==
    /\ Running("loop") /\ "error" \in last /\ ~soErr
    /\ Closing({})
    /\ pc' = "idle"
    /\ UNCHANGED <<alive, origin, granula, ret, owesClosed, prog, tot, op, how,
                   delivered, reported, wired, stalled, netVars>>

\* Faulty variant of LoopProceeds: totalWrote is not reset.
LoopKeepsTotal ==
    /\ Running("loop") /\ "error" \notin last
    /\ pc' = IF WriteReady THEN "write" ELSE "doRead"
    /\ prog' = FALSE
    /\ UNCHANGED <<alive, chanVars, ret, owesClosed, tot, op, how, obsVars, netVars, pollVars>>

LoopProceeds ==
    /\ Running("loop") /\ "error" \notin last
    /\ pc' = IF WriteReady THEN "write" ELSE "doRead"
    /\ prog' = FALSE /\ tot' = 0
    /\ UNCHANGED <<alive, chanVars, ret, owesClosed, op, how, obsVars, netVars, pollVars>>

WriteFails ==
    /\ Running("write") /\ SendFails
    /\ soErr' = FALSE
    /\ Failing(last \ {"write"}, "doRead")
    /\ UNCHANGED <<alive, origin, granula, prog, tot, op, how, obsVars,
                   link, inq, sentIn, outq, fin, rst, shut, nospace>>

\* Leaving doWrite's loop with `total` bytes written.
WriteDone(total) ==
    /\ pc' = IF total > 0 THEN "sended" ELSE "doRead"
    /\ prog' = (total > 0)
    /\ reported' = reported + total

\* Faulty variant of WriteWouldBlock: EAGAIN empties the buffer.
WouldBlockClears ==
    /\ Running("write") /\ SendWouldBlock
    /\ last' = last \ {"write"}
    /\ nospace' = TRUE
    /\ sbuf' = Clear(sbuf)
    /\ WriteDone(tot)
    /\ UNCHANGED <<alive, origin, sock, sub, promise, connected, granula,
                   ret, owesClosed, tot, op, how, nClosed, delivered, wired, stalled,
                   link, inq, sentIn, outq, fin, rst, soErr, shut, pollVars>>

WriteWouldBlock ==
    /\ Running("write") /\ SendWouldBlock
    /\ last' = last \ {"write"}
    /\ nospace' = TRUE
    /\ WriteDone(tot)
    /\ UNCHANGED <<alive, origin, sock, sub, promise, connected, granula, sbuf,
                   ret, owesClosed, tot, op, how, nClosed, delivered, wired, stalled,
                   link, inq, sentIn, outq, fin, rst, soErr, shut, pollVars>>

WriteSome ==
    /\ Running("write")
    /\ \E n \in 1..SndCap :
        /\ SendAccepts(n)
        /\ Wrote(n)
        /\ tot' = tot + n
        /\ IF WriteReadyNext THEN UNCHANGED <<pc, prog, reported>>
                             ELSE WriteDone(tot + n)
    /\ UNCHANGED <<alive, origin, sock, sub, promise, connected, granula,
                   ret, owesClosed, op, how, nClosed, delivered,
                   link, inq, sentIn, fin, rst, soErr, shut, pollVars>>

\* Faulty variant of StartRead: an ended input is not read any more.
SkipsReadAtEof ==
    /\ Running("doRead")
    /\ pc' = IF "read" \in last /\ "eof" \notin last THEN "read" ELSE "tail"
    /\ tot' = 0
    /\ UNCHANGED <<alive, chanVars, ret, owesClosed, prog, op, how, obsVars, netVars,
                   pollVars>>

StartRead ==
    /\ Running("doRead")
    /\ pc' = IF "read" \in last THEN "read" ELSE "tail"
    /\ tot' = 0
    /\ UNCHANGED <<alive, chanVars, ret, owesClosed, prog, op, how, obsVars, netVars,
                   pollVars>>

ReadLoops == "read" \in last /\ granula > 0

\* Faulty variant of ReadDone: the read flag goes with the granula.
ReadDoneForgets ==
    /\ Running("read")
    /\ ~ReadLoops \/ ReadWouldBlock
    /\ last' = last \ {"read"}
    /\ prog' = (prog \/ tot > 0)
    /\ pc' = "tail"
    /\ UNCHANGED <<alive, origin, sock, sub, promise, connected, granula, sbuf,
                   ret, owesClosed, tot, op, how, obsVars, netVars, pollVars>>

\* Leaving doRead's loop, at its condition or on EAGAIN.
ReadDone ==
    /\ Running("read")
    /\ ~ReadLoops \/ ReadWouldBlock
    /\ last' = IF ReadLoops THEN last \ {"read"} ELSE last
    /\ prog' = (prog \/ tot > 0)
    /\ pc' = "tail"
    /\ UNCHANGED <<alive, origin, sock, sub, promise, connected, granula, sbuf,
                   ret, owesClosed, tot, op, how, obsVars, netVars, pollVars>>

\* `|= ~rsf_error` raises every flag but error, close among them.
ReadError ==
    /\ Running("read") /\ ReadLoops /\ ReadFails
    /\ soErr' = FALSE
    /\ IF "eof" \in last
       THEN /\ last' = last \ {"read"} /\ pc' = "tail"
            /\ KeepsSocket
            /\ UNCHANGED <<promise, connected, sbuf, owesClosed, ret>>
       ELSE Failing(last \cup (Flags \ {"error"}), "tail")
    /\ UNCHANGED <<alive, origin, granula, prog, tot, op, how, obsVars,
                   link, inq, sentIn, outq, fin, rst, shut, nospace>>

\* `|= ~rsf_eof` raises every flag but eof.
ReadZero ==
    /\ Running("read") /\ ReadLoops /\ ReadIsZero
    /\ last' = last \cup (Flags \ {"eof"})
    /\ pc' = "tail"
    /\ UNCHANGED <<alive, origin, sock, sub, promise, connected, granula, sbuf,
                   ret, owesClosed, prog, tot, op, how, obsVars, netVars, pollVars>>

\* Faulty variant of ReadSome: the size asked for is taken for the size read.
ReadAsked ==
    /\ Running("read") /\ ReadLoops
    /\ \E n \in 1..MaxIn :
        /\ Readable(n)
        /\ inq' = inq - Capacity(granula)
        /\ delivered' = delivered + Capacity(granula)
        /\ tot' = tot + Capacity(granula)
    /\ pc' = "received"
    /\ UNCHANGED <<alive, chanVars, ret, owesClosed, prog, op, how, nClosed, reported,
                   wired, stalled, link, sentIn, outq, fin, rst, soErr, shut, nospace,
                   pollVars>>

ReadSome ==
    /\ Running("read") /\ ReadLoops
    /\ \E n \in 1..MaxIn :
        /\ Readable(n)
        /\ inq' = inq - n
        /\ delivered' = delivered + n
        /\ tot' = tot + n
    /\ pc' = "received"
    /\ UNCHANGED <<alive, chanVars, ret, owesClosed, prog, op, how, nClosed, reported,
                   wired, stalled, link, sentIn, outq, fin, rst, soErr, shut, nospace,
                   pollVars>>

TailCloses ==
    /\ Running("tail") /\ "eof" \in last
    /\ Closing({})
    /\ pc' = "idle"
    /\ UNCHANGED <<alive, origin, granula, ret, owesClosed, prog, tot, op, how,
                   delivered, reported, wired, stalled, netVars>>

TailLoops ==
    /\ Running("tail") /\ "eof" \notin last
    /\ pc' = IF prog THEN "loop" ELSE "idle"
    /\ UNCHANGED <<alive, chanVars, ret, owesClosed, prog, tot, op, how, obsVars,
                   netVars, pollVars>>

\* A callback returns.  After its failed signal, failed() emits the closed
\* signal it owes.
CallbackReturns ==
    /\ alive /\ pc \in CallbackPcs /\ op = "none"
    /\ pc' = CASE pc = "sended"   -> "doRead"
               [] pc = "received" -> "read"
               [] pc = "failed"   -> IF owesClosed THEN "closed" ELSE ret
               [] pc = "closed"   -> ret
    /\ owesClosed' = FALSE
    /\ nClosed' = IF owesClosed THEN nClosed + 1 ELSE nClosed
    /\ UNCHANGED <<alive, chanVars, ret, prog, tot, op, how, delivered, reported,
                   wired, stalled, netVars, pollVars>>

Handler == \/ ConnectedSockReady
           \/ LoopFails \/ LoopCloses \/ LoopProceeds
           \/ WriteFails \/ WriteWouldBlock \/ WriteSome
           \/ StartRead \/ ReadDone \/ ReadError \/ ReadZero \/ ReadSome
           \/ TailCloses \/ TailLoops
           \/ CallbackReturns

-----------------------------------------------------------------------------
(* Calls of the user, from the outside or from within a callback.          *)

Exposed == alive /\ (origin = "accept" \/ promise = "value")
MayCall == Exposed /\ op = "none" /\ pc \in CallbackPcs \cup {"idle"}

\* Faulty variant of UserSend: without emitReady.
UserSendSilently ==
    /\ MayCall /\ connected
    /\ \E len \in ChunkSizes :
        /\ sbuf.tail + len <= MaxOut
        /\ sbuf' = Push(sbuf, len)
    /\ UNCHANGED <<alive, origin, sock, sub, last, promise, connected, granula,
                   ctlVars, obsVars, netVars, pollVars>>

\* send of an unconnected channel only emits failed(NotConnected).
UserSend ==
    /\ MayCall /\ connected
    /\ \E len \in ChunkSizes :
        /\ sbuf.tail + len <= MaxOut
        /\ sbuf' = Push(sbuf, len)
    /\ kick' = (kick \/ "write" \in last)
    /\ UNCHANGED <<alive, origin, sock, sub, last, promise, connected, granula,
                   ctlVars, obsVars, netVars, edge>>

\* Faulty variant of UserSetReceiveGranula: without emitReady.
UserSetGranulaSilently ==
    /\ MayCall
    /\ granula' \in Granulas
    /\ UNCHANGED <<alive, origin, sock, sub, last, promise, connected, sbuf,
                   ctlVars, obsVars, netVars, pollVars>>

\* setReceiveGranula, startReceive and stopReceive.
UserSetReceiveGranula ==
    /\ MayCall
    /\ \E g \in Granulas :
        /\ granula' = g
        /\ kick' = (kick \/ (connected /\ granula = 0 /\ g > 0 /\ "read" \in last))
    /\ UNCHANGED <<alive, origin, sock, sub, last, promise, connected, sbuf,
                   ctlVars, obsVars, netVars, edge>>

\* ::shutdown.  The kernel reports an ended input as it reports a FIN.
KernelShutdown(dirs) ==
    /\ shut' = shut \cup dirs
    /\ edge' = (edge \/ "in" \in dirs)

UserShutdown ==
    /\ MayCall /\ sock = "open"
    /\ \E dirs \in Shutdowns :
        /\ granula' = IF "in" \in dirs THEN 0 ELSE granula
        /\ how' = dirs
    /\ op' = "shutdown"
    /\ UNCHANGED <<alive, origin, sock, sub, last, promise, connected, sbuf, pc, ret,
                   owesClosed, prog, tot, obsVars, netVars, pollVars>>

UserClose ==
    /\ MayCall /\ ~(sock # "open" /\ ~connected /\ last = {"close"})
    /\ op' = "close"
    /\ UNCHANGED <<alive, chanVars, pc, ret, owesClosed, prog, tot, how, obsVars,
                   netVars, pollVars>>

\* doWrite in preCloseMode: no signals, and an error only empties the buffer.
PreWrites == /\ alive /\ connected /\ WriteReady
             /\ op = "close" \/ (op = "shutdown" /\ "out" \in how)

PreWrite ==
    /\ PreWrites
    /\ \/ /\ SendFails
          /\ last' = last \ {"write"} /\ sbuf' = Clear(sbuf) /\ soErr' = FALSE
          /\ UNCHANGED <<outq, wired, stalled, nospace>>
       \/ /\ SendWouldBlock
          /\ last' = last \ {"write"} /\ nospace' = TRUE
          /\ UNCHANGED <<sbuf, soErr, outq, wired, stalled>>
       \/ /\ \E n \in 1..SndCap : SendAccepts(n) /\ Wrote(n)
          /\ UNCHANGED soErr
    /\ UNCHANGED <<alive, origin, sock, sub, promise, connected, granula, ctlVars,
                   nClosed, delivered, reported, link, inq, sentIn, fin, rst, shut,
                   pollVars>>

FinishShutdown ==
    /\ alive /\ op = "shutdown" /\ ~PreWrites
    /\ KernelShutdown(how)
    /\ op' = "none" /\ how' = {}
    /\ UNCHANGED <<alive, chanVars, pc, ret, owesClosed, prog, tot, obsVars, link, inq,
                   sentIn, outq, fin, rst, soErr, nospace, kick>>

FinishClose ==
    /\ alive /\ op = "close" /\ ~PreWrites
    /\ Closing(last)
    /\ op' = "none"
    /\ UNCHANGED <<alive, origin, granula, pc, ret, owesClosed, prog, tot, how,
                   delivered, reported, wired, stalled, netVars>>

\* The last reference to the interface goes: ~Channel.
Destroy ==
    /\ Exposed /\ AtRest
    /\ alive' = FALSE
    /\ Unsubscribed
    /\ UNCHANGED <<origin, last, promise, connected, granula, sbuf, ctlVars,
                   obsVars, netVars>>

User == \/ UserSend \/ UserSetReceiveGranula \/ UserShutdown \/ UserClose
        \/ Destroy \/ ConnectCanceled

-----------------------------------------------------------------------------
(* The kernel and the peer.                                                *)

Online == alive /\ sock = "open" /\ link = "up" /\ ~rst

ConnectUp ==
    /\ alive /\ sock = "open" /\ link = "connecting"
    /\ link' = "up" /\ edge' = TRUE
    /\ UNCHANGED <<alive, chanVars, ctlVars, obsVars, inq, sentIn, outq, fin, rst,
                   soErr, shut, nospace, kick>>

ConnectRefused ==
    /\ alive /\ sock = "open" /\ link = "connecting"
    /\ link' = "down" /\ rst' = TRUE /\ soErr' = TRUE /\ edge' = TRUE
    /\ UNCHANGED <<alive, chanVars, ctlVars, obsVars, inq, sentIn, outq, fin,
                   shut, nospace, kick>>

PeerSends ==
    /\ Online /\ ~fin /\ sentIn < MaxIn
    /\ inq' = inq + 1 /\ sentIn' = sentIn + 1 /\ edge' = TRUE
    /\ UNCHANGED <<alive, chanVars, ctlVars, obsVars, link, outq, fin, rst, soErr,
                   shut, nospace, kick>>

PeerTakes ==
    /\ Online /\ outq > 0
    /\ outq' = outq - 1
    /\ edge' = (edge \/ nospace) /\ nospace' = FALSE
    /\ UNCHANGED <<alive, chanVars, ctlVars, obsVars, link, inq, sentIn, fin, rst,
                   soErr, shut, kick>>

PeerCloses ==
    /\ Online /\ ~fin
    /\ fin' = TRUE /\ edge' = TRUE
    /\ UNCHANGED <<alive, chanVars, ctlVars, obsVars, link, inq, sentIn, outq, rst,
                   soErr, shut, nospace, kick>>

PeerResets ==
    /\ Online
    /\ rst' = TRUE /\ soErr' = TRUE /\ inq' = 0 /\ outq' = 0 /\ edge' = TRUE
    /\ UNCHANGED <<alive, chanVars, ctlVars, obsVars, link, sentIn, fin, shut,
                   nospace, kick>>

Environment == \/ ConnectUp \/ ConnectRefused
               \/ PeerSends \/ PeerTakes \/ PeerCloses \/ PeerResets

-----------------------------------------------------------------------------
Connecting == ConnectFails \/ ConnectSucceedsAtOnce \/ ConnectStarts

CallContinues == PreWrite \/ FinishShutdown \/ FinishClose

Next == \/ Connecting \/ ConnectSockReady \/ ClientDrops
        \/ Handler \/ User \/ CallContinues \/ Environment

\* The event loop, the handlers and the calls under way go on, callbacks
\* return, a connection attempt comes to an end and the peer keeps reading.
\* A handler is disabled while a call made in a callback is under way, hence
\* its strong fairness.  Nothing obliges the user to call or the peer to send.
Fairness ==
    /\ SF_vars(Handler) /\ WF_vars(CallContinues)
    /\ WF_vars(ConnectSockReady)
    /\ WF_vars(ConnectUp \/ ConnectRefused)
    /\ WF_vars(PeerTakes)

Spec == Init /\ [][Next]_vars
FairSpec == Spec /\ Fairness

-----------------------------------------------------------------------------
(* Safety.                                                                 *)

Owed == IF owesClosed THEN 1 ELSE 0

\* A channel the user holds is connected, or has told so with exactly one
\* closed signal, or is inside failed() about to: close(), failed(e, true),
\* the eof and the error branch may follow each other in any order without a
\* second closed and without losing it.
ClosedOnce == Exposed => nClosed + Owed = (IF connected THEN 0 ELSE 1)

\* A connected channel has its descriptor and its subscription: no path closes
\* the socket or flushes _sockReadyOwner and leaves _connected behind.
ConnectedIsWired == connected /\ alive => sock = "open" /\ sub = "connected"

\* Edge-triggered poll, output: a channel at rest with unsent bytes is called
\* again, by an edge to come, the kernel's promise of one or emitReady, unless
\* it shut its output down itself or doWrite has given the flag up too early:
\* that is the one way an edge is lost.
NoLostWriteEdge ==
    alive /\ AtRest /\ connected /\ DataSize(sbuf) > 0 /\ "out" \notin shut
        => edge \/ nospace \/ ("write" \in last /\ kick) \/ stalled

\* Edge-triggered poll, input: a channel at rest that wants data and has some
\* unread will be called again; stopReceive then startReceive loses nothing.
NoLostReadEdge ==
    alive /\ AtRest /\ connected /\ granula > 0 /\ inq > 0
        => edge \/ ("read" \in last /\ kick)

\* What reaches the wire is a gapless prefix of what was sent: once bytes have
\* been discarded, by an error or by close, no later byte is written.
NoGapOnWire == [][wired' > wired => sbuf.head = wired]_vars

\* sended never reports bytes twice or bytes the kernel did not take.
ReportedIsWired == reported <= wired

\* No received or sended after closed, though handlers go on running after a
\* callback closed the channel.  (A user who shuts its input down and starts
\* receiving again can see it: CalledOnlyConnected is how.)
SilentAfterClosed ==
    [][pc' # pc /\ pc' \in {"received", "sended"} /\ "in" \notin shut
        => nClosed = 0]_vars

\* A peer that closes in order loses nothing: when the eof branch closes the
\* channel of a user who is receiving, everything has been delivered.
EofDeliversAll ==
    [][pc = "tail" /\ connected /\ ~connected' /\ fin /\ ~rst /\ "in" \notin shut
            /\ granula > 0 => inq = 0]_vars

\* The claims of the assertions.
\* connectedSockReady runs on a connected channel only: dbgAssert(_connected).
CalledOnlyConnected == alive /\ AtRest /\ Fired => connected
\* readv returns 0 only when the input has ended ("peer closed").
ZeroReadMeansEnd == [][ReadZero => InputEnded]_vars

-----------------------------------------------------------------------------
(* What ClosedOnce and ConnectedIsWired rest on, in an inductive form.     *)

\* Before the user holds it a channel has said nothing, runs no handler and is
\* not connected.
QuietUntilExposed ==
    alive /\ ~Exposed => /\ ~connected /\ nClosed = 0 /\ ~owesClosed
                         /\ pc = "idle" /\ op = "none" /\ sub # "connected"

\* The connecting handler is subscribed only while its promise is pending, and
\* to an open descriptor.
ConnectingIsPending ==
    alive /\ sub = "connect" => origin = "connect" /\ promise = "pending" /\ sock = "open"

\* closed is owed only inside failed(), by a channel that is not connected.
OwedInFailed == owesClosed => pc = "failed" /\ ~connected

AcceptedHasNoPromise == origin = "accept" => promise = "null"

IInv == /\ TypeOK /\ ClosedOnce /\ ConnectedIsWired
        /\ QuietUntilExposed /\ ConnectingIsPending /\ OwedInFailed
        /\ AcceptedHasNoPromise

-----------------------------------------------------------------------------
(* Liveness.                                                               *)

\* Bytes accepted by send are written or the connection ends, unless doWrite
\* has given the write flag up too early.
SentEventually ==
    connected /\ DataSize(sbuf) > 0
        ~> DataSize(sbuf) = 0 \/ "out" \in shut \/ ~connected \/ ~alive \/ stalled

\* What is sent is received by the peer (the test stream_channelReadWrite), as
\* long as neither side ends the connection.
AllSentEventually ==
    connected /\ DataSize(sbuf) > 0
        ~> DataSize(sbuf) = 0 \/ "out" \in shut \/ ~connected \/ ~alive

\* Data that arrives at a receiving user is delivered.
ReceivedEventually ==
    connected /\ inq > 0 /\ granula > 0
        ~> inq = 0 \/ granula = 0 \/ ~connected \/ ~alive

\* An ended input ends the channel, received or not.
EofEventuallyCloses == connected /\ fin ~> nClosed = 1 \/ ~alive

\* A started connection attempt is resolved.
ConnectResolves == promise = "pending" ~> promise # "pending"
=============================================================================
