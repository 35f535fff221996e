--------------------------- MODULE DatagramChannel ---------------------------
(***************************************************************************)
(* datagram::Channel: one UDP socket as the user of the interface, the     *)
(* event loop and the kernel see it.                                       *)
(*                                                                         *)
(* Everything runs on one thread.  The channel emits failed, received and  *)
(* closed from within its handlers and from within send and close, and a   *)
(* callback may call the channel again, so callbacks nest: `frames` is     *)
(* the stack of those that have not returned.  The kernel runs             *)
(* concurrently, so every system call of doSend and doRecv is a step.      *)
(*                                                                         *)
(* Of the poll library, which is not part of this repository, the model    *)
(* takes: readiness is edge-triggered, its flags are read when the loop    *)
(* waits and handled later, and close() of a descriptor posts an event     *)
(* with rsf_eof that comes later (the closed signal of a server, which     *)
(* its test waits for after close(), has no other source).  Whether such   *)
(* an event still comes when another descriptor has been attached in the   *)
(* meantime is not known: EofOutlives leaves it open.                      *)
(***************************************************************************)
EXTENDS Integers, Sequences, SequencesExt

CONSTANTS MaxIov,       \* Buf::_maxBufs
          Lengths,      \* chunks of the Bytes passed to send
          MaxSends, MaxSockets, MaxArrivals,    \* bounds of the instance
          MaxNested,    \* callbacks within callbacks
          OutCap,       \* datagrams the kernel holds to be sent
          EofOutlives   \* the eof of a closed descriptor outlives the next attach

ASSUME DatagramAssumption ==
    /\ MaxIov \in Nat \ {0} /\ OutCap \in Nat \ {0}
    /\ Lengths \subseteq Nat \ {0}
    /\ MaxSends \in Nat /\ MaxSockets \in Nat /\ MaxArrivals \in Nat
    /\ MaxNested \in Nat
    /\ EofOutlives \in BOOLEAN

\* Options to be stored: one that setsockopt takes, one that it refuses.
Options == {"accepted", "refused"}
Callbacks == {"received", "failed", "failing", "closed"}

VARIABLES
    alive,    \* the Channel object exists
    opened,   \* _opened
    sock,     \* _sock: number of the descriptor it holds, 0 if none
    sockets,  \* descriptors made so far
    stored,   \* options of the OptionsStore
    cached,   \* descriptor that _localEndpoint was fetched from, 0 if not fetched
    frames,   \* callbacks that have not returned; "failing" owes a closed signal
    nOwed,    \* closed signals owed by those
    msg, left,      \* chunks of the message in doSend (0: none), of these not sent yet
    nOpened, nClosed,               \* openings, closed signals
    nSends, nOut, nRefused,         \* sends; of these on the wire, ended in a failed signal
    arrived, received,              \* datagrams
    lastOut,        \* chunks of the datagram put on the wire last
    inq, outq,      \* kernel: datagrams to read, to be sent
    corked,         \* chunks given with MSG_MORE
    soErr,          \* error: "set" in SO_ERROR, "noted" elsewhere, or "none"
    edge,           \* the edge-triggered poll has something to report
    event,          \* flags it has reported to the loop
    late            \* the eof of a closed descriptor is on its way

chanVars == <<opened, sock, sockets, stored, cached>>
sendVars == <<msg, left, nSends, nOut, nRefused, lastOut>>
callVars == <<frames, nOwed, nOpened, nClosed>>
kernVars == <<inq, outq, corked, soErr, edge>>
pollVars == <<event, late>>
inVars   == <<arrived, received>>
vars == <<alive, chanVars, sendVars, callVars, kernVars, pollVars, inVars>>

Flags ==
    /\ alive \in BOOLEAN /\ opened \in BOOLEAN
    /\ edge \in BOOLEAN /\ late \in BOOLEAN
    /\ soErr \in {"none", "noted", "set"}
    /\ stored \subseteq Options
    /\ event \subseteq {"read", "error"}

Counts ==
    /\ sockets \in Nat /\ sock \in 0..sockets /\ cached \in 0..sockets
    /\ msg \in Nat /\ left \in 0..msg /\ corked \in Nat /\ lastOut \in Nat
    /\ nOwed \in Int /\ nOpened \in Nat /\ nClosed \in Nat
    /\ nSends \in Nat /\ nOut \in Nat /\ nRefused \in Nat
    /\ arrived \in Nat /\ received \in Nat /\ inq \in Nat /\ outq \in Nat

TypeOK == Flags /\ Counts /\ frames \in Seq(Callbacks)

Init ==
    /\ alive = TRUE /\ opened = FALSE /\ sock = 0 /\ sockets = 0
    /\ stored = {} /\ cached = 0 /\ frames = <<>> /\ nOwed = 0
    /\ msg = 0 /\ left = 0 /\ corked = 0 /\ lastOut = 0
    /\ nOpened = 0 /\ nClosed = 0
    /\ nSends = 0 /\ nOut = 0 /\ nRefused = 0 /\ arrived = 0 /\ received = 0
    /\ inq = 0 /\ outq = 0 /\ soErr = "none"
    /\ edge = FALSE /\ event = {} /\ late = FALSE

-----------------------------------------------------------------------------
(* The descriptor.                                                         *)

\* A new socket has nothing in its queues and reports its state once.
NewKernelState ==
    inq' = 0 /\ outq' = 0 /\ corked' = 0 /\ soErr' = "none" /\ event' = {}

\* _sock.close(): whatever the kernel held is gone, and the eof is posted if
\* there was a descriptor.
SockCloses ==
    /\ sock' = 0 /\ late' = (late \/ sock # 0)
    /\ NewKernelState /\ edge' = FALSE
    /\ UNCHANGED sockets

SockKept == UNCHANGED <<sock, sockets, kernVars, pollVars>>

\* open() after _sock.close(): a new descriptor, an error with no descriptor
\* made, or one that is closed again since attach or an option failed.  Called
\* by bind on an opened channel it finds _opened set, against its assertion
\* dbgAssert(!_opened), which is false, and carries on the opening there is.
Opens ==
    /\ sockets < MaxSockets
    /\ sockets' = sockets + 1
    /\ "refused" \notin stored
    /\ sock' = sockets' /\ late' = (EofOutlives /\ (late \/ sock # 0))
    /\ NewKernelState /\ edge' = TRUE
    /\ stored' = {}
    /\ opened' = TRUE
    /\ nOpened' = IF opened THEN nOpened ELSE nOpened + 1

OpenFails ==
    /\ sock' = 0 /\ NewKernelState /\ edge' = FALSE
    /\ \/ late' = (late \/ sock # 0) /\ UNCHANGED sockets
       \/ /\ sockets < MaxSockets /\ sockets' = sockets + 1
          /\ late' = TRUE
    /\ UNCHANGED <<stored, opened, nOpened>>

\* bind() is refused: the options are applied by then and gone from the store.
BindFails ==
    /\ sockets < MaxSockets
    /\ sockets' = sockets + 1
    /\ "refused" \notin stored
    /\ sock' = 0 /\ late' = TRUE
    /\ NewKernelState /\ edge' = FALSE
    /\ stored' = {}
    /\ UNCHANGED <<opened, nOpened>>

-----------------------------------------------------------------------------
(* Signals.                                                                *)

Enter(callback) ==
    /\ frames' = Append(frames, callback)
    /\ nOwed' = IF callback = "failing" THEN nOwed + 1 ELSE nOwed

\* failed(e): the channel goes on.
Fails == Enter("failed") /\ UNCHANGED opened

\* Faulty variant of FailsAndCloses: _opened is not reset.
FailsStayingOpened ==
    /\ Enter(IF opened THEN "failing" ELSE "failed")
    /\ UNCHANGED opened
    /\ SockCloses

\* failed(e, true) up to its failed signal.
FailsAndCloses ==
    /\ Enter(IF opened THEN "failing" ELSE "failed")
    /\ opened' = FALSE
    /\ SockCloses

\* A callback returns; after the failed signal failed() emits the closed
\* signal it owes.
CallbackReturns ==
    /\ frames # <<>> /\ msg = 0
    /\ IF Last(frames) = "failing"
       THEN /\ frames' = Append(Front(frames), "closed")
            /\ nOwed' = nOwed - 1 /\ nClosed' = nClosed + 1
       ELSE frames' = Front(frames) /\ UNCHANGED <<nOwed, nClosed>>
    /\ UNCHANGED <<alive, chanVars, sendVars, nOpened, kernVars, pollVars, inVars>>

-----------------------------------------------------------------------------
(* Calls of the user, from the outside or from within a callback.          *)

MayCall == alive /\ msg = 0 /\ Len(frames) < MaxNested

UserSetOption ==
    /\ MayCall /\ ~opened
    /\ \E op \in Options : stored' = stored \cup {op}
    /\ UNCHANGED <<alive, opened, sock, sockets, cached, sendVars, callVars,
                   kernVars, pollVars, inVars>>

\* _opened is left as it is by a bind that fails, though the descriptor is gone.
UserBind ==
    /\ MayCall
    /\ Opens \/ OpenFails \/ BindFails
    /\ UNCHANGED <<alive, cached, sendVars, frames, nOwed, nClosed, inVars>>

\* The first call after an opening asks the kernel, the others repeat it.
UserLocalEndpoint ==
    /\ MayCall /\ opened /\ cached = 0
    /\ cached' = sock
    /\ UNCHANGED <<alive, opened, sock, sockets, stored, sendVars, callVars,
                   kernVars, pollVars, inVars>>

\* send opens the channel if need be and starts doSend.
UserSend ==
    /\ MayCall /\ nSends < MaxSends
    /\ nSends' = nSends + 1
    /\ \E len \in Lengths :
        \/ /\ opened
           /\ msg' = len /\ left' = len
           /\ SockKept
           /\ UNCHANGED <<opened, stored, frames, nOwed, nOpened, nRefused>>
        \/ /\ ~opened /\ Opens
           /\ msg' = len /\ left' = len
           /\ UNCHANGED <<frames, nOwed, nRefused>>
        \/ /\ ~opened /\ OpenFails
           /\ Enter("failed") /\ nRefused' = nRefused + 1
           /\ UNCHANGED <<msg, left>>
    /\ UNCHANGED <<alive, cached, nOut, lastOut, nClosed, inVars>>

UserClose ==
    /\ MayCall /\ (opened \/ sock # 0)
    /\ SockCloses
    /\ opened' = FALSE
    /\ IF opened THEN Enter("closed") /\ nClosed' = nClosed + 1
                 ELSE UNCHANGED <<frames, nOwed, nClosed>>
    /\ UNCHANGED <<alive, stored, cached, sendVars, nOpened, inVars>>

AtRest == alive /\ frames = <<>> /\ msg = 0

\* ~Channel.
Destroy ==
    /\ AtRest
    /\ alive' = FALSE
    /\ SockCloses
    /\ UNCHANGED <<opened, stored, cached, sendVars, callVars, inVars>>

User == \/ UserSetOption \/ UserBind \/ UserLocalEndpoint \/ UserSend \/ UserClose
        \/ Destroy

-----------------------------------------------------------------------------
(* doSend: fragments of MaxIov chunks with MSG_MORE, the last one without. *)

\* fillFrom: the chunks it takes of those that are left.
FillFrom == IF left > MaxIov THEN MaxIov ELSE left
Partial == left > MaxIov

SendSome ==
    /\ msg > 0 /\ sock # 0 /\ soErr # "set" /\ outq < OutCap
    /\ left' = left - FillFrom
    /\ IF Partial
       THEN /\ corked' = corked + FillFrom
            /\ UNCHANGED <<msg, nOut, lastOut, outq>>
       ELSE /\ corked' = 0 /\ outq' = outq + 1
            /\ lastOut' = corked + FillFrom /\ nOut' = nOut + 1
            /\ msg' = 0
    /\ UNCHANGED <<alive, chanVars, nSends, nRefused, callVars, inq, soErr, edge,
                   pollVars, inVars>>

\* Faulty variant of SendWouldBlock: the loop goes on with the next fragment.
SendGoesOn ==
    /\ msg > 0 /\ sock # 0 /\ soErr # "set" /\ outq = OutCap
    /\ corked' = 0
    /\ left' = left - FillFrom
    /\ IF Partial THEN UNCHANGED <<msg, nRefused, frames, nOwed, opened>>
                  ELSE msg' = 0 /\ nRefused' = nRefused + 1 /\ Fails
    /\ UNCHANGED <<alive, sock, sockets, stored, cached, nSends, nOut, lastOut,
                   nOpened, nClosed, inq, outq, soErr, edge, pollVars, inVars>>

\* An error ends the message, and the kernel drops what it was given of it.
\* EAGAIN leaves the channel open.
SendWouldBlock ==
    /\ msg > 0 /\ sock # 0 /\ soErr # "set" /\ outq = OutCap
    /\ corked' = 0
    /\ msg' = 0 /\ left' = 0 /\ nRefused' = nRefused + 1
    /\ Fails
    /\ UNCHANGED <<alive, sock, sockets, stored, cached, nSends, nOut, lastOut,
                   nOpened, nClosed, inq, outq, soErr, edge, pollVars, inVars>>

\* Faulty variant of SendFails: the loop goes on with the next fragment.
SendFailsAndGoesOn ==
    /\ msg > 0
    /\ left' = left - FillFrom /\ msg' = (IF Partial THEN msg ELSE 0)
    /\ nRefused' = nRefused + 1
    /\ FailsAndCloses
    /\ UNCHANGED <<alive, stored, cached, nSends, nOut, lastOut, nOpened, nClosed, inVars>>

\* Any other error, of this send or of an earlier one, closes.
SendFails ==
    /\ msg > 0
    /\ msg' = 0 /\ left' = 0 /\ nRefused' = nRefused + 1
    /\ FailsAndCloses
    /\ UNCHANGED <<alive, stored, cached, nSends, nOut, lastOut, nOpened, nClosed, inVars>>

Sending == SendSome \/ SendWouldBlock \/ SendFails

-----------------------------------------------------------------------------
(* The event loop and sockReady.                                           *)

Level == (IF inq > 0 THEN {"read"} ELSE {}) \cup (IF soErr # "none" THEN {"error"} ELSE {})

\* The loop waits: it learns the flags, and handles them later.
Poll ==
    /\ AtRest /\ edge /\ event = {}
    /\ event' = Level /\ edge' = FALSE
    /\ UNCHANGED <<alive, chanVars, sendVars, callVars, inq, outq, corked, soErr, late,
                   inVars>>

\* Faulty variant of ErrorEvent: only an error that SO_ERROR holds is handled.
ErrorEventIgnored ==
    /\ AtRest /\ "error" \in event
    /\ IF soErr = "set"
       THEN FailsAndCloses
       ELSE event' = {} /\ UNCHANGED <<opened, sock, sockets, frames, nOwed, kernVars, late>>
    /\ UNCHANGED <<alive, stored, cached, sendVars, nOpened, nClosed, inVars>>

\* The error branch.  The poll may report an error that SO_ERROR does not hold.
ErrorEvent ==
    /\ AtRest /\ "error" \in event
    /\ IF soErr = "set"
       THEN FailsAndCloses /\ UNCHANGED nClosed
       ELSE /\ SockCloses
            /\ opened' = FALSE
            /\ IF opened THEN Enter("closed") /\ nClosed' = nClosed + 1
                         ELSE UNCHANGED <<frames, nOwed, nClosed>>
    /\ UNCHANGED <<alive, stored, cached, sendVars, nOpened, inVars>>

\* The eof branch, of a descriptor closed before: it closes the present one.
EofEvent ==
    /\ AtRest /\ late
    /\ IF sock = 0
       THEN late' = FALSE /\ UNCHANGED <<sock, sockets, kernVars, event>>
       ELSE SockCloses
    /\ UNCHANGED <<alive, opened, stored, cached, sendVars, callVars, inVars>>

\* The close branch: the descriptor was closed by other means.  The code asks
\* for no descriptor; that rsf_close is only reported of one that the channel
\* holds is assumed of the poll.
CloseEvent ==
    /\ AtRest /\ sock # 0
    /\ opened' = FALSE /\ cached' = 0
    /\ SockCloses
    /\ Enter("closed") /\ nClosed' = nClosed + 1
    /\ UNCHANGED <<alive, stored, sendVars, nOpened, inVars>>

\* doRecv: one datagram for an event, and any error, EAGAIN too, closes.
RecvOne ==
    /\ AtRest /\ event = {"read"} /\ inq > 0 /\ soErr # "set"
    /\ event' = {}
    /\ inq' = inq - 1 /\ received' = received + 1
    /\ Enter("received")
    /\ UNCHANGED <<alive, chanVars, sendVars, nOpened, nClosed, outq, corked, soErr,
                   edge, late, arrived>>

RecvFails ==
    /\ AtRest /\ event = {"read"} /\ (inq = 0 \/ soErr = "set")
    /\ FailsAndCloses
    /\ UNCHANGED <<alive, stored, cached, sendVars, nOpened, nClosed, inVars>>

Handler == ErrorEvent \/ EofEvent \/ CloseEvent \/ RecvOne \/ RecvFails

-----------------------------------------------------------------------------
(* The kernel.                                                             *)

Bound == alive /\ sock # 0

DatagramArrives ==
    /\ Bound /\ arrived < MaxArrivals
    /\ inq' = inq + 1 /\ arrived' = arrived + 1 /\ edge' = TRUE
    /\ UNCHANGED <<alive, chanVars, sendVars, callVars, outq, corked, soErr, pollVars,
                   received>>

\* A datagram that was announced turns out damaged and is dropped.
DatagramDropped ==
    /\ Bound /\ inq > 0
    /\ inq' = inq - 1
    /\ UNCHANGED <<alive, chanVars, sendVars, callVars, outq, corked, soErr, edge,
                   pollVars, inVars>>

\* An error is reported for a datagram sent before.
ErrorArrives ==
    /\ Bound /\ soErr = "none" /\ nOut > 0
    /\ soErr' \in {"noted", "set"} /\ edge' = TRUE
    /\ UNCHANGED <<alive, chanVars, sendVars, callVars, inq, outq, corked, pollVars,
                   inVars>>

DatagramLeaves ==
    /\ Bound /\ outq > 0
    /\ outq' = outq - 1 /\ edge' = TRUE
    /\ UNCHANGED <<alive, chanVars, sendVars, callVars, inq, corked, soErr, pollVars,
                   inVars>>

Kernel == DatagramArrives \/ DatagramDropped \/ ErrorArrives \/ DatagramLeaves

-----------------------------------------------------------------------------
Next == User \/ Sending \/ CallbackReturns \/ Poll \/ Handler \/ Kernel

\* The event loop, the calls under way and the callbacks go on.  The loop is
\* kept waiting by calls, hence the strong fairness.
Fairness ==
    /\ WF_vars(Sending) /\ WF_vars(CallbackReturns)
    /\ SF_vars(Poll) /\ SF_vars(ErrorEvent) /\ SF_vars(RecvOne \/ RecvFails)

Spec == Init /\ [][Next]_vars
FairSpec == Spec /\ Fairness

-----------------------------------------------------------------------------
(* Properties.                                                             *)

\* Every opening ends with one closed signal: failed(e, true) in a send within
\* a failed callback, close() in between, error, close and late eof events end
\* it once, whatever order they come in and however the callbacks nest.  What a
\* bind of an opened channel does, against the assertion of open(), belongs to
\* the opening there is.
ClosedPerOpening == nClosed + nOwed + (IF opened THEN 1 ELSE 0) = nOpened

\* Every send ends on the wire or in a failed signal, and in one of them.
SendsAccounted == nSends = nOut + nRefused + (IF msg > 0 THEN 1 ELSE 0)

\* A datagram holds all chunks of its message and no others: the fragments of
\* a message that failed half way do not end up in the next one.
WholeDatagrams == [][nOut' > nOut => lastOut' = msg]_vars

\* A datagram that finds the queue empty is received, or the socket is given up.
\* (One that finds another waiting may have to wait for a third.)
LoneArrivalReceived ==
    \A k \in 0 .. (MaxArrivals - 1), s \in 1 .. MaxSockets :
        received = k /\ inq = 1 /\ edge /\ sock = s
            ~> received > k \/ inq = 0 \/ sock # s \/ ~alive

\* A descriptor is only held by an opened channel, which has applied all its
\* options to it; a part of a message is with the kernel only while it is sent.
SocketOfOpened ==
    /\ sock # 0 => opened /\ alive
    /\ opened => stored = {}
    /\ sock = 0 => corked = 0 /\ inq = 0 /\ event = {} /\ ~edge
    /\ sock # 0 => corked = msg - left

DInv == TypeOK /\ ClosedPerOpening /\ SendsAccounted /\ SocketOfOpened
=============================================================================
