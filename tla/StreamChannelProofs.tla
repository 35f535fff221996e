------------------------- MODULE StreamChannelProofs -------------------------
(***************************************************************************)
(* Proofs about StreamChannel, for every value of its constants.           *)
(*                                                                         *)
(* IInv is the inductive invariant; the first lemmas show that it holds    *)
(* initially and that each action preserves it, in two parts: the types    *)
(* (TypeOK) and what the signals and the subscription owe each other       *)
(* (Bookkeeping).  On it rest the parts that follow: what sended reports   *)
(* and what the kernel takes, that the channel implements ByteStream, and  *)
(* that no edge of the poll is lost, for input and output.                 *)
(***************************************************************************)
EXTENDS StreamRefinement, BufferProofs

Bookkeeping == /\ ClosedOnce /\ ConnectedIsWired
               /\ QuietUntilExposed /\ ConnectingIsPending /\ OwedInFailed
               /\ AcceptedHasNoPromise

\* The operations of the send buffer return send buffers.
LEMMA SendBufferTypes ==
    ASSUME NEW b \in SendBuffers, NEW n \in Nat
    PROVE  /\ Clear(b) \in SendBuffers
           /\ Push(b, n) \in SendBuffers
           /\ Drop(b, n) \in SendBuffers
<1>1. ASSUME NEW head \in Nat, NEW tail \in Nat, NEW ends \in SUBSET Nat
      PROVE  EnfillBufs(head, tail, ends) \in SendBuffers
  BY DEF EnfillBufs, FirstChunks, SendBuffers
<1>2. /\ b.head \in Nat /\ b.tail \in Nat
      /\ b.ends \in SUBSET Nat /\ b.bufs \in SUBSET Nat
  BY DEF SendBuffers
<1>3. Clear(b) \in SendBuffers
  BY <1>2 DEF Clear, SendBuffers
<1>4. Push(b, n) \in SendBuffers
  <2>1. b.tail + n \in Nat /\ b.ends \cup {b.tail + n} \in SUBSET Nat
    BY <1>2
  <2>2. EnfillBufs(b.head, b.tail + n, b.ends \cup {b.tail + n}) \in SendBuffers
    BY <2>1, <1>1, <1>2
  <2>3. [head |-> b.head, tail |-> b.tail + n, ends |-> b.ends \cup {b.tail + n},
         bufs |-> b.bufs] \in SendBuffers
    BY <2>1, <1>2 DEF SendBuffers
  <2> QED  BY <2>2, <2>3 DEF Push
<1>5. Drop(b, n) \in SendBuffers
  <2>1. b.head + n \in Nat /\ {e \in b.ends : e > b.head + n} \in SUBSET Nat
    BY <1>2
  <2> QED  BY <2>1, <1>1, <1>2 DEF Drop
<1> QED  BY <1>3, <1>4, <1>5

\* The invariant holds of a channel as it is created.
LEMMA InitIInv == Init => IInv
<1> SUFFICES ASSUME Init PROVE IInv
  OBVIOUS
<1>1. TypeOK
  BY DEF Init, TypeOK, SockTypeOK, DataTypeOK, ControlTypeOK, NetTypeOK,
         NewSendBuffer, SendBuffers, Flags, CallbackPcs, HandlerPcs
<1>2. Bookkeeping
  <2>1. CASE origin = "accept"
    <3>1. connected = TRUE
      BY <2>1 DEF Init
    <3> QED  BY <2>1, <3>1
             DEF Init, Bookkeeping, ClosedOnce, ConnectedIsWired, QuietUntilExposed,
                 ConnectingIsPending, OwedInFailed, AcceptedHasNoPromise, Exposed, Owed
  <2>2. CASE origin = "connect"
    <3>1. connected = FALSE
      BY <2>2 DEF Init
    <3> QED  BY <2>2, <3>1
             DEF Init, Bookkeeping, ClosedOnce, ConnectedIsWired, QuietUntilExposed,
                 ConnectingIsPending, OwedInFailed, AcceptedHasNoPromise, Exposed, Owed
  <2> QED  BY <2>1, <2>2 DEF Init
<1> QED  BY <1>1, <1>2 DEF IInv, Bookkeeping

(* Each part of the invariant holds after a step that leaves its variables  *)
(* alone.                                                                   *)

\* The part about the descriptor, the subscription and the promise.
LEMMA SockUntouched ==
    IInv /\ UNCHANGED <<alive, origin, sock, sub, promise, connected, edge, kick>>
        => SockTypeOK'
  BY DEF IInv, TypeOK, SockTypeOK

\* The part about the buffer, the flags and the counts.
LEMMA DataUntouched ==
    IInv /\ UNCHANGED <<last, granula, sbuf, nClosed, delivered, reported, wired,
                       stalled, prog, tot>> => DataTypeOK'
  BY DEF IInv, TypeOK, DataTypeOK

\* The part about where the handler is.
LEMMA ControlUntouched ==
    IInv /\ UNCHANGED <<pc, ret, owesClosed, op, how>> => ControlTypeOK'
  BY DEF IInv, TypeOK, ControlTypeOK

\* The part about the kernel and the peer.
LEMMA NetUntouched ==
    IInv /\ UNCHANGED <<link, inq, sentIn, outq, fin, rst, soErr, shut, nospace>> => NetTypeOK'
  BY DEF IInv, TypeOK, NetTypeOK

\* The part that relates the connection, the promise and the closed signals.
LEMMA BookUntouched ==
    IInv /\ UNCHANGED <<alive, origin, sock, sub, promise, connected, pc, op,
                       owesClosed, nClosed>> => Bookkeeping'
  BY DEF Bookkeeping, ClosedOnce, ConnectedIsWired, QuietUntilExposed,
         ConnectingIsPending, OwedInFailed, AcceptedHasNoPromise, Exposed, Owed, IInv

-----------------------------------------------------------------------------
(* Connecting.                                                             *)

\* ConnectFails preserves the invariant.
LEMMA ConnectFailsKeeps == IInv /\ ConnectFails => TypeOK' /\ Bookkeeping'
<1> SUFFICES ASSUME IInv, ConnectFails PROVE TypeOK' /\ Bookkeeping'
  OBVIOUS
<1>1. DataTypeOK' /\ ControlTypeOK' /\ NetTypeOK'
  BY DataUntouched, ControlUntouched, NetUntouched
  DEF ConnectFails, ctlVars, obsVars, netVars, pollVars
<1>2. SockTypeOK'
  BY DEF IInv, TypeOK, SockTypeOK, ConnectFails, Dialing, ctlVars, obsVars,
         netVars, pollVars
<1>3. Bookkeeping'
  BY DEF TypeOK, SockTypeOK, DataTypeOK, ControlTypeOK, Bookkeeping,
         ClosedOnce, ConnectedIsWired, QuietUntilExposed,
         ConnectingIsPending, OwedInFailed, AcceptedHasNoPromise, Exposed,
         Owed, IInv, CallbackPcs, ConnectFails, Dialing, ctlVars, obsVars,
         netVars, pollVars
<1> QED  BY <1>1, <1>2, <1>3 DEF TypeOK

\* ConnectSucceedsAtOnce preserves the invariant.
LEMMA ConnectSucceedsAtOnceKeeps == IInv /\ ConnectSucceedsAtOnce => TypeOK' /\ Bookkeeping'
<1> SUFFICES ASSUME IInv, ConnectSucceedsAtOnce PROVE TypeOK' /\ Bookkeeping'
  OBVIOUS
<1>1. DataTypeOK' /\ ControlTypeOK'
  BY DataUntouched, ControlUntouched
  DEF ConnectSucceedsAtOnce, ctlVars, obsVars
<1>2. SockTypeOK'
  BY DEF IInv, TypeOK, SockTypeOK, ConnectSucceedsAtOnce, Dialing, ctlVars,
         obsVars
<1>3. NetTypeOK'
  BY StreamChannelAssumption
  DEF IInv, TypeOK, ControlTypeOK, NetTypeOK, ConnectSucceedsAtOnce,
      Dialing, ctlVars, obsVars
<1>4. Bookkeeping'
  BY DEF TypeOK, SockTypeOK, DataTypeOK, ControlTypeOK, Bookkeeping,
         ClosedOnce, ConnectedIsWired, QuietUntilExposed,
         ConnectingIsPending, OwedInFailed, AcceptedHasNoPromise, Exposed,
         Owed, IInv, CallbackPcs, ConnectSucceedsAtOnce, Dialing, ctlVars,
         obsVars
<1> QED  BY <1>1, <1>2, <1>3, <1>4 DEF TypeOK

\* ConnectStarts preserves the invariant.
LEMMA ConnectStartsKeeps == IInv /\ ConnectStarts => TypeOK' /\ Bookkeeping'
<1> SUFFICES ASSUME IInv, ConnectStarts PROVE TypeOK' /\ Bookkeeping'
  OBVIOUS
<1>1. DataTypeOK' /\ ControlTypeOK'
  BY DataUntouched, ControlUntouched
  DEF ConnectStarts, ctlVars, obsVars, pollVars
<1>2. SockTypeOK'
  BY DEF IInv, TypeOK, SockTypeOK, ConnectStarts, Dialing, ctlVars, obsVars,
         pollVars
<1>3. NetTypeOK'
  BY StreamChannelAssumption
  DEF IInv, TypeOK, ControlTypeOK, NetTypeOK, ConnectStarts, Dialing,
      ctlVars, obsVars, pollVars
<1>4. Bookkeeping'
  BY DEF TypeOK, SockTypeOK, DataTypeOK, ControlTypeOK, Bookkeeping,
         ClosedOnce, ConnectedIsWired, QuietUntilExposed,
         ConnectingIsPending, OwedInFailed, AcceptedHasNoPromise, Exposed,
         Owed, IInv, CallbackPcs, ConnectStarts, Dialing, ctlVars, obsVars,
         pollVars
<1> QED  BY <1>1, <1>2, <1>3, <1>4 DEF TypeOK

\* ConnectCanceled preserves the invariant.
LEMMA ConnectCanceledKeeps == IInv /\ ConnectCanceled => TypeOK' /\ Bookkeeping'
<1> SUFFICES ASSUME IInv, ConnectCanceled PROVE TypeOK' /\ Bookkeeping'
  OBVIOUS
<1>1. DataTypeOK' /\ ControlTypeOK' /\ NetTypeOK'
  BY DataUntouched, ControlUntouched, NetUntouched
  DEF ConnectCanceled, ctlVars, obsVars, netVars
<1>2. SockTypeOK'
  BY DEF IInv, TypeOK, SockTypeOK, ConnectCanceled, Unsubscribed, ctlVars,
         obsVars, netVars
<1>3. Bookkeeping'
  BY DEF TypeOK, SockTypeOK, DataTypeOK, ControlTypeOK, Bookkeeping,
         ClosedOnce, ConnectedIsWired, QuietUntilExposed,
         ConnectingIsPending, OwedInFailed, AcceptedHasNoPromise, Exposed,
         Owed, IInv, CallbackPcs, ConnectCanceled, Unsubscribed, ctlVars,
         obsVars, netVars
<1> QED  BY <1>1, <1>2, <1>3 DEF TypeOK

\* ClientDrops preserves the invariant.
LEMMA ClientDropsKeeps == IInv /\ ClientDrops => TypeOK' /\ Bookkeeping'
<1> SUFFICES ASSUME IInv, ClientDrops PROVE TypeOK' /\ Bookkeeping'
  OBVIOUS
<1>1. DataTypeOK' /\ ControlTypeOK' /\ NetTypeOK'
  BY DataUntouched, ControlUntouched, NetUntouched
  DEF ClientDrops, ctlVars, obsVars, netVars
<1>2. SockTypeOK'
  BY DEF IInv, TypeOK, SockTypeOK, ClientDrops, Dialing, Unsubscribed,
         ctlVars, obsVars, netVars
<1>3. Bookkeeping'
  BY DEF TypeOK, SockTypeOK, DataTypeOK, ControlTypeOK, Bookkeeping,
         ClosedOnce, ConnectedIsWired, QuietUntilExposed,
         ConnectingIsPending, OwedInFailed, AcceptedHasNoPromise, Exposed,
         Owed, IInv, CallbackPcs, ClientDrops, Dialing, Unsubscribed,
         ctlVars, obsVars, netVars
<1> QED  BY <1>1, <1>2, <1>3 DEF TypeOK

\* ConnectSockReady preserves the invariant.
LEMMA ConnectSockReadyKeeps == IInv /\ ConnectSockReady => TypeOK' /\ Bookkeeping'
<1> SUFFICES ASSUME IInv, ConnectSockReady PROVE TypeOK' /\ Bookkeeping'
  OBVIOUS
<1>1. ControlTypeOK' /\ NetTypeOK'
  BY ControlUntouched, NetUntouched
  DEF ConnectSockReady, ctlVars, obsVars, netVars
<1>2. SockTypeOK'
  BY DEF IInv, TypeOK, SockTypeOK, ConnectSockReady, AtRest, Level,
         InputEnded, Unsubscribed, ctlVars, obsVars, netVars
<1>3. DataTypeOK'
  BY SendBufferTypes, StreamChannelAssumption
  DEF IInv, TypeOK, DataTypeOK, Flags, ConnectSockReady, AtRest, Level,
      InputEnded, Unsubscribed, ctlVars, obsVars, netVars
<1>4. Bookkeeping'
  <2>1. /\ origin = "connect" /\ promise = "pending" /\ ~Exposed /\ alive
        /\ ~connected /\ nClosed = 0 /\ ~owesClosed /\ pc = "idle" /\ op = "none"
    BY DEF ConnectSockReady, IInv, ConnectingIsPending, QuietUntilExposed, Exposed
  <2>2. /\ origin' = "connect" /\ alive' = TRUE
        /\ nClosed' = 0 /\ ~owesClosed' /\ pc' = "idle" /\ op' = "none"
    BY <2>1 DEF ConnectSockReady, ctlVars, obsVars
  <2>3. CASE promise' = "exception" /\ sub' = "none" /\ connected' = connected
    BY <2>1, <2>2, <2>3
    DEF Bookkeeping, ClosedOnce, ConnectedIsWired, QuietUntilExposed,
        ConnectingIsPending, OwedInFailed, AcceptedHasNoPromise, Exposed, Owed
  <2>4. CASE /\ promise' = "value" /\ sub' = "connected"
             /\ connected' = TRUE /\ sock' = sock
    <3>1. sock = "open"
      BY DEF ConnectSockReady, IInv, ConnectingIsPending
    <3> QED  BY <2>1, <2>2, <2>4, <3>1
             DEF Bookkeeping, ClosedOnce, ConnectedIsWired, QuietUntilExposed,
                 ConnectingIsPending, OwedInFailed, AcceptedHasNoPromise, Exposed, Owed
  <2> QED  BY <2>3, <2>4 DEF ConnectSockReady, Unsubscribed
<1> QED  BY <1>1, <1>2, <1>3, <1>4 DEF TypeOK

-----------------------------------------------------------------------------
(* The handler.                                                            *)

\* ConnectedSockReady preserves the invariant.
LEMMA ConnectedSockReadyKeeps == IInv /\ ConnectedSockReady => TypeOK' /\ Bookkeeping'
<1> SUFFICES ASSUME IInv, ConnectedSockReady PROVE TypeOK' /\ Bookkeeping'
  OBVIOUS
<1>1. NetTypeOK'
  BY NetUntouched DEF ConnectedSockReady, obsVars, netVars
<1>2. SockTypeOK'
  BY DEF IInv, TypeOK, SockTypeOK, ConnectedSockReady, AtRest, Fired, Level,
         InputEnded, obsVars, netVars
<1>3. DataTypeOK'
  BY SendBufferTypes, StreamChannelAssumption
  DEF IInv, TypeOK, DataTypeOK, Flags, ConnectedSockReady, AtRest, Fired,
      Level, InputEnded, obsVars, netVars
<1>4. ControlTypeOK'
  BY StreamChannelAssumption
  DEF IInv, TypeOK, SockTypeOK, ControlTypeOK, CallbackPcs, HandlerPcs,
      ConnectedSockReady, AtRest, Fired, Level, InputEnded, obsVars, netVars
<1>5. Bookkeeping'
  BY DEF TypeOK, SockTypeOK, DataTypeOK, ControlTypeOK, Bookkeeping,
         ClosedOnce, ConnectedIsWired, QuietUntilExposed,
         ConnectingIsPending, OwedInFailed, AcceptedHasNoPromise, Exposed,
         Owed, IInv, CallbackPcs, ConnectedSockReady, AtRest, Fired, Level,
         InputEnded, obsVars, netVars
<1> QED  BY <1>1, <1>2, <1>3, <1>4, <1>5 DEF TypeOK

\* LoopFails preserves the invariant.
LEMMA LoopFailsKeeps == IInv /\ LoopFails => TypeOK' /\ Bookkeeping'
<1> SUFFICES ASSUME IInv, LoopFails PROVE TypeOK' /\ Bookkeeping'
  OBVIOUS
<1>1. SockTypeOK'
  BY DEF IInv, TypeOK, SockTypeOK, LoopFails, Running, Failing,
         UnsubscribedUnlessClose, KeepsSocket, Unsubscribed, obsVars,
         pollVars
<1>2. DataTypeOK'
  BY SendBufferTypes, StreamChannelAssumption
  DEF IInv, TypeOK, DataTypeOK, Flags, LoopFails, Running, Failing,
      UnsubscribedUnlessClose, KeepsSocket, Unsubscribed, obsVars, pollVars
<1>3. ControlTypeOK'
  BY StreamChannelAssumption
  DEF IInv, TypeOK, SockTypeOK, ControlTypeOK, CallbackPcs, HandlerPcs,
      LoopFails, Running, Failing, UnsubscribedUnlessClose, KeepsSocket,
      Unsubscribed, obsVars, pollVars
<1>4. NetTypeOK'
  BY StreamChannelAssumption
  DEF IInv, TypeOK, ControlTypeOK, NetTypeOK, LoopFails, Running, Failing,
      UnsubscribedUnlessClose, KeepsSocket, Unsubscribed, obsVars, pollVars
<1>5. Bookkeeping'
  BY DEF TypeOK, SockTypeOK, DataTypeOK, ControlTypeOK, Bookkeeping,
         ClosedOnce, ConnectedIsWired, QuietUntilExposed,
         ConnectingIsPending, OwedInFailed, AcceptedHasNoPromise, Exposed,
         Owed, IInv, CallbackPcs, LoopFails, Running, Failing,
         UnsubscribedUnlessClose, KeepsSocket, Unsubscribed, obsVars,
         pollVars
<1> QED  BY <1>1, <1>2, <1>3, <1>4, <1>5 DEF TypeOK

\* LoopCloses preserves the invariant.
LEMMA LoopClosesKeeps == IInv /\ LoopCloses => TypeOK' /\ Bookkeeping'
<1> SUFFICES ASSUME IInv, LoopCloses PROVE TypeOK' /\ Bookkeeping'
  OBVIOUS
<1>1. NetTypeOK'
  BY NetUntouched DEF LoopCloses, netVars
<1>2. SockTypeOK'
  BY DEF IInv, TypeOK, SockTypeOK, LoopCloses, Running, Closing,
         UnsubscribedUnlessClose, KeepsSocket, Unsubscribed, netVars,
         pollVars
<1>3. DataTypeOK'
  BY SendBufferTypes, StreamChannelAssumption
  DEF IInv, TypeOK, DataTypeOK, Flags, LoopCloses, Running, Closing,
      UnsubscribedUnlessClose, KeepsSocket, Unsubscribed, netVars, pollVars
<1>4. ControlTypeOK'
  BY StreamChannelAssumption
  DEF IInv, TypeOK, SockTypeOK, ControlTypeOK, CallbackPcs, HandlerPcs,
      LoopCloses, Running, Closing, UnsubscribedUnlessClose, KeepsSocket,
      Unsubscribed, netVars, pollVars
<1>5. Bookkeeping'
  BY DEF TypeOK, SockTypeOK, DataTypeOK, ControlTypeOK, Bookkeeping,
         ClosedOnce, ConnectedIsWired, QuietUntilExposed,
         ConnectingIsPending, OwedInFailed, AcceptedHasNoPromise, Exposed,
         Owed, IInv, CallbackPcs, LoopCloses, Running, Closing,
         UnsubscribedUnlessClose, KeepsSocket, Unsubscribed, netVars,
         pollVars
<1> QED  BY <1>1, <1>2, <1>3, <1>4, <1>5 DEF TypeOK

\* LoopProceeds preserves the invariant.
LEMMA LoopProceedsKeeps == IInv /\ LoopProceeds => TypeOK' /\ Bookkeeping'
<1> SUFFICES ASSUME IInv, LoopProceeds PROVE TypeOK' /\ Bookkeeping'
  OBVIOUS
<1>1. SockTypeOK' /\ NetTypeOK'
  BY SockUntouched, NetUntouched
  DEF LoopProceeds, chanVars, obsVars, netVars, pollVars
<1>2. DataTypeOK'
  BY SendBufferTypes, StreamChannelAssumption
  DEF IInv, TypeOK, DataTypeOK, Flags, LoopProceeds, Running, chanVars,
      obsVars, netVars, pollVars
<1>3. ControlTypeOK'
  BY StreamChannelAssumption
  DEF IInv, TypeOK, SockTypeOK, ControlTypeOK, CallbackPcs, HandlerPcs,
      LoopProceeds, Running, chanVars, obsVars, netVars, pollVars
<1>4. Bookkeeping'
  BY DEF TypeOK, SockTypeOK, DataTypeOK, ControlTypeOK, Bookkeeping,
         ClosedOnce, ConnectedIsWired, QuietUntilExposed,
         ConnectingIsPending, OwedInFailed, AcceptedHasNoPromise, Exposed,
         Owed, IInv, CallbackPcs, LoopProceeds, Running, chanVars, obsVars,
         netVars, pollVars
<1> QED  BY <1>1, <1>2, <1>3, <1>4 DEF TypeOK

\* WriteFails preserves the invariant.
LEMMA WriteFailsKeeps == IInv /\ WriteFails => TypeOK' /\ Bookkeeping'
<1> SUFFICES ASSUME IInv, WriteFails PROVE TypeOK' /\ Bookkeeping'
  OBVIOUS
<1>1. SockTypeOK'
  BY DEF IInv, TypeOK, SockTypeOK, WriteFails, Running, Failing,
         UnsubscribedUnlessClose, KeepsSocket, Unsubscribed, obsVars,
         pollVars
<1>2. DataTypeOK'
  BY SendBufferTypes, StreamChannelAssumption
  DEF IInv, TypeOK, DataTypeOK, Flags, WriteFails, Running, Failing,
      UnsubscribedUnlessClose, KeepsSocket, Unsubscribed, obsVars, pollVars
<1>3. ControlTypeOK'
  BY StreamChannelAssumption
  DEF IInv, TypeOK, SockTypeOK, ControlTypeOK, CallbackPcs, HandlerPcs,
      WriteFails, Running, Failing, UnsubscribedUnlessClose, KeepsSocket,
      Unsubscribed, obsVars, pollVars
<1>4. NetTypeOK'
  BY StreamChannelAssumption
  DEF IInv, TypeOK, ControlTypeOK, NetTypeOK, WriteFails, Running, Failing,
      UnsubscribedUnlessClose, KeepsSocket, Unsubscribed, obsVars, pollVars
<1>5. Bookkeeping'
  BY DEF TypeOK, SockTypeOK, DataTypeOK, ControlTypeOK, Bookkeeping,
         ClosedOnce, ConnectedIsWired, QuietUntilExposed,
         ConnectingIsPending, OwedInFailed, AcceptedHasNoPromise, Exposed,
         Owed, IInv, CallbackPcs, WriteFails, Running, Failing,
         UnsubscribedUnlessClose, KeepsSocket, Unsubscribed, obsVars,
         pollVars
<1> QED  BY <1>1, <1>2, <1>3, <1>4, <1>5 DEF TypeOK

\* WriteWouldBlock preserves the invariant.
LEMMA WriteWouldBlockKeeps == IInv /\ WriteWouldBlock => TypeOK' /\ Bookkeeping'
<1> SUFFICES ASSUME IInv, WriteWouldBlock PROVE TypeOK' /\ Bookkeeping'
  OBVIOUS
<1>1. SockTypeOK'
  BY SockUntouched DEF WriteWouldBlock, pollVars
<1>2. DataTypeOK'
  BY SendBufferTypes, StreamChannelAssumption
  DEF IInv, TypeOK, DataTypeOK, Flags, WriteWouldBlock, Running, WriteDone,
      pollVars
<1>3. ControlTypeOK'
  BY StreamChannelAssumption
  DEF IInv, TypeOK, SockTypeOK, ControlTypeOK, CallbackPcs, HandlerPcs,
      WriteWouldBlock, Running, WriteDone, pollVars
<1>4. NetTypeOK'
  BY StreamChannelAssumption
  DEF IInv, TypeOK, ControlTypeOK, NetTypeOK, WriteWouldBlock, Running,
      WriteDone, pollVars
<1>5. Bookkeeping'
  BY DEF TypeOK, SockTypeOK, DataTypeOK, ControlTypeOK, Bookkeeping,
         ClosedOnce, ConnectedIsWired, QuietUntilExposed,
         ConnectingIsPending, OwedInFailed, AcceptedHasNoPromise, Exposed,
         Owed, IInv, CallbackPcs, WriteWouldBlock, Running, WriteDone,
         pollVars
<1> QED  BY <1>1, <1>2, <1>3, <1>4, <1>5 DEF TypeOK

\* WriteSome preserves the invariant.
LEMMA WriteSomeKeeps == IInv /\ WriteSome => TypeOK' /\ Bookkeeping'
<1> SUFFICES ASSUME IInv, WriteSome PROVE TypeOK' /\ Bookkeeping'
  OBVIOUS
<1>1. SockTypeOK'
  BY SockUntouched DEF WriteSome, pollVars
<1>2. DataTypeOK'
  <2>1. PICK n \in 1..SndCap : /\ Wrote(n) /\ tot' = tot + n
                               /\ IF WriteReadyNext THEN UNCHANGED <<pc, prog, reported>>
                                                    ELSE WriteDone(tot + n)
    BY DEF WriteSome
  <2>2. n \in Nat /\ sbuf \in SendBuffers
    BY StreamChannelAssumption DEF IInv, TypeOK, DataTypeOK
  <2>3. sbuf' \in SendBuffers
    BY <2>1, <2>2, SendBufferTypes DEF Wrote
  <2>4. last' \subseteq Flags /\ wired' \in Nat /\ tot' \in Nat
    BY <2>1, <2>2 DEF Wrote, IInv, TypeOK, DataTypeOK
  <2>5. reported' \in Nat /\ prog' \in BOOLEAN
    <3>1. tot + n \in Nat /\ reported \in Nat /\ prog \in BOOLEAN
      BY <2>2 DEF IInv, TypeOK, DataTypeOK
    <3>2. CASE UNCHANGED <<pc, prog, reported>>
      BY <3>1, <3>2
    <3>3. CASE WriteDone(tot + n)
      <4>1. reported' = reported + (tot + n)
        BY <3>3 DEF WriteDone
      <4>2. prog' = (tot + n > 0)
        BY <3>3 DEF WriteDone
      <4> QED  BY <3>1, <4>1, <4>2
    <3> QED  BY <2>1, <3>2, <3>3
  <2>6. stalled' \in BOOLEAN
    BY <2>1 DEF Wrote
  <2> QED  BY <2>3, <2>4, <2>5, <2>6 DEF WriteSome, DataTypeOK, IInv, TypeOK
<1>3. ControlTypeOK'
  BY StreamChannelAssumption
  DEF IInv, TypeOK, SockTypeOK, ControlTypeOK, CallbackPcs, HandlerPcs,
      WriteSome, Running, WriteDone, Wrote, pollVars
<1>4. NetTypeOK'
  BY StreamChannelAssumption
  DEF IInv, TypeOK, ControlTypeOK, NetTypeOK, WriteSome, Running, WriteDone,
      Wrote, pollVars
<1>5. Bookkeeping'
  BY DEF TypeOK, SockTypeOK, DataTypeOK, ControlTypeOK, Bookkeeping,
         ClosedOnce, ConnectedIsWired, QuietUntilExposed,
         ConnectingIsPending, OwedInFailed, AcceptedHasNoPromise, Exposed,
         Owed, IInv, CallbackPcs, WriteSome, Running, WriteDone, Wrote,
         pollVars
<1> QED  BY <1>1, <1>2, <1>3, <1>4, <1>5 DEF TypeOK

\* StartRead preserves the invariant.
LEMMA StartReadKeeps == IInv /\ StartRead => TypeOK' /\ Bookkeeping'
<1> SUFFICES ASSUME IInv, StartRead PROVE TypeOK' /\ Bookkeeping'
  OBVIOUS
<1>1. SockTypeOK' /\ NetTypeOK'
  BY SockUntouched, NetUntouched
  DEF StartRead, chanVars, obsVars, netVars, pollVars
<1>2. DataTypeOK'
  BY SendBufferTypes, StreamChannelAssumption
  DEF IInv, TypeOK, DataTypeOK, Flags, StartRead, Running, chanVars,
      obsVars, netVars, pollVars
<1>3. ControlTypeOK'
  BY StreamChannelAssumption
  DEF IInv, TypeOK, SockTypeOK, ControlTypeOK, CallbackPcs, HandlerPcs,
      StartRead, Running, chanVars, obsVars, netVars, pollVars
<1>4. Bookkeeping'
  BY DEF TypeOK, SockTypeOK, DataTypeOK, ControlTypeOK, Bookkeeping,
         ClosedOnce, ConnectedIsWired, QuietUntilExposed,
         ConnectingIsPending, OwedInFailed, AcceptedHasNoPromise, Exposed,
         Owed, IInv, CallbackPcs, StartRead, Running, chanVars, obsVars,
         netVars, pollVars
<1> QED  BY <1>1, <1>2, <1>3, <1>4 DEF TypeOK

\* ReadDone preserves the invariant.
LEMMA ReadDoneKeeps == IInv /\ ReadDone => TypeOK' /\ Bookkeeping'
<1> SUFFICES ASSUME IInv, ReadDone PROVE TypeOK' /\ Bookkeeping'
  OBVIOUS
<1>1. SockTypeOK' /\ NetTypeOK'
  BY SockUntouched, NetUntouched DEF ReadDone, obsVars, netVars, pollVars
<1>2. DataTypeOK'
  BY SendBufferTypes, StreamChannelAssumption
  DEF IInv, TypeOK, DataTypeOK, Flags, ReadDone, Running, obsVars, netVars,
      pollVars
<1>3. ControlTypeOK'
  BY StreamChannelAssumption
  DEF IInv, TypeOK, SockTypeOK, ControlTypeOK, CallbackPcs, HandlerPcs,
      ReadDone, Running, obsVars, netVars, pollVars
<1>4. Bookkeeping'
  BY DEF TypeOK, SockTypeOK, DataTypeOK, ControlTypeOK, Bookkeeping,
         ClosedOnce, ConnectedIsWired, QuietUntilExposed,
         ConnectingIsPending, OwedInFailed, AcceptedHasNoPromise, Exposed,
         Owed, IInv, CallbackPcs, ReadDone, Running, obsVars, netVars,
         pollVars
<1> QED  BY <1>1, <1>2, <1>3, <1>4 DEF TypeOK

\* ReadError preserves the invariant.
LEMMA ReadErrorKeeps == IInv /\ ReadError => TypeOK' /\ Bookkeeping'
<1> SUFFICES ASSUME IInv, ReadError PROVE TypeOK' /\ Bookkeeping'
  OBVIOUS
<1>1. SockTypeOK'
  BY DEF IInv, TypeOK, SockTypeOK, ReadError, Running, Failing,
         UnsubscribedUnlessClose, KeepsSocket, Unsubscribed, obsVars,
         pollVars
<1>2. DataTypeOK'
  <2>1. last' \subseteq Flags
    BY DEF ReadError, Failing, IInv, TypeOK, DataTypeOK, Flags
  <2>2. sbuf' \in SendBuffers
    BY SendBufferTypes, 0 \in Nat DEF ReadError, Failing, IInv, TypeOK, DataTypeOK
  <2> QED  BY <2>1, <2>2 DEF ReadError, DataTypeOK, IInv, TypeOK, obsVars
<1>3. ControlTypeOK'
  BY StreamChannelAssumption
  DEF IInv, TypeOK, SockTypeOK, ControlTypeOK, CallbackPcs, HandlerPcs,
      ReadError, Running, Failing, UnsubscribedUnlessClose, KeepsSocket,
      Unsubscribed, obsVars, pollVars
<1>4. NetTypeOK'
  BY StreamChannelAssumption
  DEF IInv, TypeOK, ControlTypeOK, NetTypeOK, ReadError, Running, Failing,
      UnsubscribedUnlessClose, KeepsSocket, Unsubscribed, obsVars, pollVars
<1>5. Bookkeeping'
  BY DEF TypeOK, SockTypeOK, DataTypeOK, ControlTypeOK, Bookkeeping,
         ClosedOnce, ConnectedIsWired, QuietUntilExposed,
         ConnectingIsPending, OwedInFailed, AcceptedHasNoPromise, Exposed,
         Owed, IInv, CallbackPcs, ReadError, Running, Failing,
         UnsubscribedUnlessClose, KeepsSocket, Unsubscribed, obsVars,
         pollVars
<1> QED  BY <1>1, <1>2, <1>3, <1>4, <1>5 DEF TypeOK

\* ReadZero preserves the invariant.
LEMMA ReadZeroKeeps == IInv /\ ReadZero => TypeOK' /\ Bookkeeping'
<1> SUFFICES ASSUME IInv, ReadZero PROVE TypeOK' /\ Bookkeeping'
  OBVIOUS
<1>1. SockTypeOK' /\ NetTypeOK'
  BY SockUntouched, NetUntouched DEF ReadZero, obsVars, netVars, pollVars
<1>2. DataTypeOK'
  BY SendBufferTypes, StreamChannelAssumption
  DEF IInv, TypeOK, DataTypeOK, Flags, ReadZero, Running, obsVars, netVars,
      pollVars
<1>3. ControlTypeOK'
  BY StreamChannelAssumption
  DEF IInv, TypeOK, SockTypeOK, ControlTypeOK, CallbackPcs, HandlerPcs,
      ReadZero, Running, obsVars, netVars, pollVars
<1>4. Bookkeeping'
  BY DEF TypeOK, SockTypeOK, DataTypeOK, ControlTypeOK, Bookkeeping,
         ClosedOnce, ConnectedIsWired, QuietUntilExposed,
         ConnectingIsPending, OwedInFailed, AcceptedHasNoPromise, Exposed,
         Owed, IInv, CallbackPcs, ReadZero, Running, obsVars, netVars,
         pollVars
<1> QED  BY <1>1, <1>2, <1>3, <1>4 DEF TypeOK

\* ReadSome preserves the invariant.
LEMMA ReadSomeKeeps == IInv /\ ReadSome => TypeOK' /\ Bookkeeping'
<1> SUFFICES ASSUME IInv, ReadSome PROVE TypeOK' /\ Bookkeeping'
  OBVIOUS
<1>1. SockTypeOK'
  BY SockUntouched DEF ReadSome, chanVars, pollVars
<1>2. DataTypeOK'
  BY SendBufferTypes, StreamChannelAssumption
  DEF IInv, TypeOK, DataTypeOK, Flags, ReadSome, Running, Readable,
      chanVars, pollVars
<1>3. ControlTypeOK'
  BY StreamChannelAssumption
  DEF IInv, TypeOK, SockTypeOK, ControlTypeOK, CallbackPcs, HandlerPcs,
      ReadSome, Running, Readable, chanVars, pollVars
<1>4. NetTypeOK'
  BY StreamChannelAssumption
  DEF IInv, TypeOK, ControlTypeOK, NetTypeOK, ReadSome, Running, Readable,
      chanVars, pollVars
<1>5. Bookkeeping'
  BY DEF TypeOK, SockTypeOK, DataTypeOK, ControlTypeOK, Bookkeeping,
         ClosedOnce, ConnectedIsWired, QuietUntilExposed,
         ConnectingIsPending, OwedInFailed, AcceptedHasNoPromise, Exposed,
         Owed, IInv, CallbackPcs, ReadSome, Running, Readable, chanVars,
         pollVars
<1> QED  BY <1>1, <1>2, <1>3, <1>4, <1>5 DEF TypeOK

\* TailCloses preserves the invariant.
LEMMA TailClosesKeeps == IInv /\ TailCloses => TypeOK' /\ Bookkeeping'
<1> SUFFICES ASSUME IInv, TailCloses PROVE TypeOK' /\ Bookkeeping'
  OBVIOUS
<1>1. NetTypeOK'
  BY NetUntouched DEF TailCloses, netVars
<1>2. SockTypeOK'
  BY DEF IInv, TypeOK, SockTypeOK, TailCloses, Running, Closing,
         UnsubscribedUnlessClose, KeepsSocket, Unsubscribed, netVars,
         pollVars
<1>3. DataTypeOK'
  BY SendBufferTypes, StreamChannelAssumption
  DEF IInv, TypeOK, DataTypeOK, Flags, TailCloses, Running, Closing,
      UnsubscribedUnlessClose, KeepsSocket, Unsubscribed, netVars, pollVars
<1>4. ControlTypeOK'
  BY StreamChannelAssumption
  DEF IInv, TypeOK, SockTypeOK, ControlTypeOK, CallbackPcs, HandlerPcs,
      TailCloses, Running, Closing, UnsubscribedUnlessClose, KeepsSocket,
      Unsubscribed, netVars, pollVars
<1>5. Bookkeeping'
  BY DEF TypeOK, SockTypeOK, DataTypeOK, ControlTypeOK, Bookkeeping,
         ClosedOnce, ConnectedIsWired, QuietUntilExposed,
         ConnectingIsPending, OwedInFailed, AcceptedHasNoPromise, Exposed,
         Owed, IInv, CallbackPcs, TailCloses, Running, Closing,
         UnsubscribedUnlessClose, KeepsSocket, Unsubscribed, netVars,
         pollVars
<1> QED  BY <1>1, <1>2, <1>3, <1>4, <1>5 DEF TypeOK

\* TailLoops preserves the invariant.
LEMMA TailLoopsKeeps == IInv /\ TailLoops => TypeOK' /\ Bookkeeping'
<1> SUFFICES ASSUME IInv, TailLoops PROVE TypeOK' /\ Bookkeeping'
  OBVIOUS
<1>1. SockTypeOK' /\ DataTypeOK' /\ NetTypeOK'
  BY SockUntouched, DataUntouched, NetUntouched
  DEF TailLoops, chanVars, obsVars, netVars, pollVars
<1>2. ControlTypeOK'
  BY StreamChannelAssumption
  DEF IInv, TypeOK, SockTypeOK, ControlTypeOK, CallbackPcs, HandlerPcs,
      TailLoops, Running, chanVars, obsVars, netVars, pollVars
<1>3. Bookkeeping'
  BY DEF TypeOK, SockTypeOK, DataTypeOK, ControlTypeOK, Bookkeeping,
         ClosedOnce, ConnectedIsWired, QuietUntilExposed,
         ConnectingIsPending, OwedInFailed, AcceptedHasNoPromise, Exposed,
         Owed, IInv, CallbackPcs, TailLoops, Running, chanVars, obsVars,
         netVars, pollVars
<1> QED  BY <1>1, <1>2, <1>3 DEF TypeOK

\* CallbackReturns preserves the invariant.
LEMMA CallbackReturnsKeeps == IInv /\ CallbackReturns => TypeOK' /\ Bookkeeping'
<1> SUFFICES ASSUME IInv, CallbackReturns PROVE TypeOK' /\ Bookkeeping'
  OBVIOUS
<1>1. SockTypeOK' /\ NetTypeOK'
  BY SockUntouched, NetUntouched
  DEF CallbackReturns, chanVars, netVars, pollVars
<1>2. DataTypeOK'
  BY SendBufferTypes, StreamChannelAssumption
  DEF IInv, TypeOK, DataTypeOK, Flags, CallbackReturns, chanVars, netVars,
      pollVars
<1>3. ControlTypeOK'
  BY StreamChannelAssumption
  DEF IInv, TypeOK, SockTypeOK, ControlTypeOK, CallbackPcs, HandlerPcs,
      CallbackReturns, chanVars, netVars, pollVars
<1>4. Bookkeeping'
  BY DEF TypeOK, SockTypeOK, DataTypeOK, ControlTypeOK, Bookkeeping,
         ClosedOnce, ConnectedIsWired, QuietUntilExposed,
         ConnectingIsPending, OwedInFailed, AcceptedHasNoPromise, Exposed,
         Owed, IInv, CallbackPcs, CallbackReturns, chanVars, netVars,
         pollVars
<1> QED  BY <1>1, <1>2, <1>3, <1>4 DEF TypeOK

-----------------------------------------------------------------------------
(* Calls of the user.                                                      *)

\* UserSend preserves the invariant.
LEMMA UserSendKeeps == IInv /\ UserSend => TypeOK' /\ Bookkeeping'
<1> SUFFICES ASSUME IInv, UserSend PROVE TypeOK' /\ Bookkeeping'
  OBVIOUS
<1>1. ControlTypeOK' /\ NetTypeOK' /\ Bookkeeping'
  BY ControlUntouched, NetUntouched, BookUntouched
  DEF UserSend, ctlVars, obsVars, netVars
<1>2. SockTypeOK'
  BY DEF IInv, TypeOK, SockTypeOK, UserSend, MayCall, ctlVars, obsVars, netVars
<1>3. DataTypeOK'
  BY SendBufferTypes, StreamChannelAssumption
  DEF IInv, TypeOK, DataTypeOK, Flags, UserSend, MayCall, ctlVars, obsVars,
      netVars
<1> QED  BY <1>1, <1>2, <1>3 DEF TypeOK

\* UserSetReceiveGranula preserves the invariant.
LEMMA UserSetReceiveGranulaKeeps == IInv /\ UserSetReceiveGranula => TypeOK' /\ Bookkeeping'
<1> SUFFICES ASSUME IInv, UserSetReceiveGranula PROVE TypeOK' /\ Bookkeeping'
  OBVIOUS
<1>1. ControlTypeOK' /\ NetTypeOK' /\ Bookkeeping'
  BY ControlUntouched, NetUntouched, BookUntouched
  DEF UserSetReceiveGranula, ctlVars, obsVars, netVars
<1>2. SockTypeOK'
  BY DEF IInv, TypeOK, SockTypeOK, UserSetReceiveGranula, MayCall, ctlVars,
         obsVars, netVars
<1>3. DataTypeOK'
  BY SendBufferTypes, StreamChannelAssumption
  DEF IInv, TypeOK, DataTypeOK, Flags, UserSetReceiveGranula, MayCall,
      ctlVars, obsVars, netVars
<1> QED  BY <1>1, <1>2, <1>3 DEF TypeOK

\* UserShutdown preserves the invariant.
LEMMA UserShutdownKeeps == IInv /\ UserShutdown => TypeOK' /\ Bookkeeping'
<1> SUFFICES ASSUME IInv, UserShutdown PROVE TypeOK' /\ Bookkeeping'
  OBVIOUS
<1>1. SockTypeOK' /\ NetTypeOK'
  BY SockUntouched, NetUntouched DEF UserShutdown, obsVars, netVars, pollVars
<1>2. DataTypeOK'
  BY SendBufferTypes, StreamChannelAssumption
  DEF IInv, TypeOK, DataTypeOK, Flags, UserShutdown, MayCall, obsVars,
      netVars, pollVars
<1>3. ControlTypeOK'
  BY StreamChannelAssumption
  DEF IInv, TypeOK, SockTypeOK, ControlTypeOK, CallbackPcs, HandlerPcs,
      UserShutdown, MayCall, obsVars, netVars, pollVars
<1>4. Bookkeeping'
  BY DEF TypeOK, SockTypeOK, DataTypeOK, ControlTypeOK, Bookkeeping,
         ClosedOnce, ConnectedIsWired, QuietUntilExposed,
         ConnectingIsPending, OwedInFailed, AcceptedHasNoPromise, Exposed,
         Owed, IInv, CallbackPcs, UserShutdown, MayCall, obsVars, netVars,
         pollVars
<1> QED  BY <1>1, <1>2, <1>3, <1>4 DEF TypeOK

\* UserClose preserves the invariant.
LEMMA UserCloseKeeps == IInv /\ UserClose => TypeOK' /\ Bookkeeping'
<1> SUFFICES ASSUME IInv, UserClose PROVE TypeOK' /\ Bookkeeping'
  OBVIOUS
<1>1. SockTypeOK' /\ DataTypeOK' /\ NetTypeOK'
  BY SockUntouched, DataUntouched, NetUntouched
  DEF UserClose, chanVars, obsVars, netVars, pollVars
<1>2. ControlTypeOK'
  BY StreamChannelAssumption
  DEF IInv, TypeOK, SockTypeOK, ControlTypeOK, CallbackPcs, HandlerPcs,
      UserClose, MayCall, chanVars, obsVars, netVars, pollVars
<1>3. Bookkeeping'
  BY DEF TypeOK, SockTypeOK, DataTypeOK, ControlTypeOK, Bookkeeping,
         ClosedOnce, ConnectedIsWired, QuietUntilExposed,
         ConnectingIsPending, OwedInFailed, AcceptedHasNoPromise, Exposed,
         Owed, IInv, CallbackPcs, UserClose, MayCall, chanVars, obsVars,
         netVars, pollVars
<1> QED  BY <1>1, <1>2, <1>3 DEF TypeOK

\* PreWrite preserves the invariant.
LEMMA PreWriteKeeps == IInv /\ PreWrite => TypeOK' /\ Bookkeeping'
<1> SUFFICES ASSUME IInv, PreWrite PROVE TypeOK' /\ Bookkeeping'
  OBVIOUS
<1>1. SockTypeOK' /\ ControlTypeOK' /\ Bookkeeping'
  BY SockUntouched, ControlUntouched, BookUntouched
  DEF PreWrite, ctlVars, pollVars
<1>2. DataTypeOK'
  <2>1. ASSUME NEW n \in 1..SndCap, Wrote(n)
        PROVE  /\ sbuf' \in SendBuffers /\ last' \subseteq Flags
               /\ wired' \in Nat /\ stalled' \in BOOLEAN
    <3>1. n \in Nat /\ sbuf \in SendBuffers
      BY StreamChannelAssumption DEF IInv, TypeOK, DataTypeOK
    <3>2. sbuf' \in SendBuffers
      BY <2>1, <3>1, SendBufferTypes DEF Wrote
    <3> QED  BY <2>1, <3>1, <3>2 DEF Wrote, IInv, TypeOK, DataTypeOK
  <2>2. Clear(sbuf) \in SendBuffers
    BY SendBufferTypes, 0 \in Nat DEF IInv, TypeOK, DataTypeOK
  <2>3. /\ sbuf' \in SendBuffers /\ last' \subseteq Flags
        /\ wired' \in Nat /\ stalled' \in BOOLEAN
    BY <2>1, <2>2 DEF PreWrite, IInv, TypeOK, DataTypeOK
  <2> QED  BY <2>3 DEF PreWrite, ctlVars, DataTypeOK, IInv, TypeOK
<1>3. NetTypeOK'
  <2>1. ASSUME NEW n \in 1..SndCap, Wrote(n)
        PROVE  outq' \in Nat /\ nospace' \in BOOLEAN
    BY <2>1, StreamChannelAssumption DEF Wrote, IInv, TypeOK, NetTypeOK
  <2>2. outq' \in Nat /\ nospace' \in BOOLEAN /\ soErr' \in BOOLEAN
    BY <2>1 DEF PreWrite, IInv, TypeOK, NetTypeOK
  <2> QED  BY <2>2 DEF PreWrite, NetTypeOK, IInv, TypeOK
<1> QED  BY <1>1, <1>2, <1>3 DEF TypeOK

\* FinishShutdown preserves the invariant.
LEMMA FinishShutdownKeeps == IInv /\ FinishShutdown => TypeOK' /\ Bookkeeping'
<1> SUFFICES ASSUME IInv, FinishShutdown PROVE TypeOK' /\ Bookkeeping'
  OBVIOUS
<1>1. DataTypeOK'
  BY DataUntouched DEF FinishShutdown, chanVars, obsVars
<1>2. SockTypeOK'
  BY DEF IInv, TypeOK, SockTypeOK, FinishShutdown, KernelShutdown, chanVars,
         obsVars
<1>3. ControlTypeOK'
  BY StreamChannelAssumption
  DEF IInv, TypeOK, SockTypeOK, ControlTypeOK, CallbackPcs, HandlerPcs,
      FinishShutdown, KernelShutdown, chanVars, obsVars
<1>4. NetTypeOK'
  BY StreamChannelAssumption
  DEF IInv, TypeOK, ControlTypeOK, NetTypeOK, FinishShutdown,
      KernelShutdown, chanVars, obsVars
<1>5. Bookkeeping'
  BY DEF TypeOK, SockTypeOK, DataTypeOK, ControlTypeOK, Bookkeeping,
         ClosedOnce, ConnectedIsWired, QuietUntilExposed,
         ConnectingIsPending, OwedInFailed, AcceptedHasNoPromise, Exposed,
         Owed, IInv, CallbackPcs, FinishShutdown, KernelShutdown, chanVars,
         obsVars
<1> QED  BY <1>1, <1>2, <1>3, <1>4, <1>5 DEF TypeOK

\* FinishClose preserves the invariant.
LEMMA FinishCloseKeeps == IInv /\ FinishClose => TypeOK' /\ Bookkeeping'
<1> SUFFICES ASSUME IInv, FinishClose PROVE TypeOK' /\ Bookkeeping'
  OBVIOUS
<1>1. NetTypeOK'
  BY NetUntouched DEF FinishClose, netVars
<1>2. SockTypeOK'
  BY DEF IInv, TypeOK, SockTypeOK, FinishClose, Closing,
         UnsubscribedUnlessClose, KeepsSocket, Unsubscribed, netVars,
         pollVars
<1>3. DataTypeOK'
  BY SendBufferTypes, StreamChannelAssumption
  DEF IInv, TypeOK, DataTypeOK, Flags, FinishClose, Closing,
      UnsubscribedUnlessClose, KeepsSocket, Unsubscribed, netVars, pollVars
<1>4. ControlTypeOK'
  BY StreamChannelAssumption
  DEF IInv, TypeOK, SockTypeOK, ControlTypeOK, CallbackPcs, HandlerPcs,
      FinishClose, Closing, UnsubscribedUnlessClose, KeepsSocket,
      Unsubscribed, netVars, pollVars
<1>5. Bookkeeping'
  BY DEF TypeOK, SockTypeOK, DataTypeOK, ControlTypeOK, Bookkeeping,
         ClosedOnce, ConnectedIsWired, QuietUntilExposed,
         ConnectingIsPending, OwedInFailed, AcceptedHasNoPromise, Exposed,
         Owed, IInv, CallbackPcs, FinishClose, Closing,
         UnsubscribedUnlessClose, KeepsSocket, Unsubscribed, netVars,
         pollVars
<1> QED  BY <1>1, <1>2, <1>3, <1>4, <1>5 DEF TypeOK

\* Destroy preserves the invariant.
LEMMA DestroyKeeps == IInv /\ Destroy => TypeOK' /\ Bookkeeping'
<1> SUFFICES ASSUME IInv, Destroy PROVE TypeOK' /\ Bookkeeping'
  OBVIOUS
<1>1. DataTypeOK' /\ ControlTypeOK' /\ NetTypeOK'
  BY DataUntouched, ControlUntouched, NetUntouched
  DEF Destroy, ctlVars, obsVars, netVars
<1>2. SockTypeOK'
  BY DEF IInv, TypeOK, SockTypeOK, Destroy, AtRest, Unsubscribed, ctlVars,
         obsVars, netVars
<1>3. Bookkeeping'
  BY DEF TypeOK, SockTypeOK, DataTypeOK, ControlTypeOK, Bookkeeping,
         ClosedOnce, ConnectedIsWired, QuietUntilExposed,
         ConnectingIsPending, OwedInFailed, AcceptedHasNoPromise, Exposed,
         Owed, IInv, CallbackPcs, Destroy, AtRest, Unsubscribed, ctlVars,
         obsVars, netVars
<1> QED  BY <1>1, <1>2, <1>3 DEF TypeOK

-----------------------------------------------------------------------------
(* The kernel and the peer.                                                *)

\* ConnectUp preserves the invariant.
LEMMA ConnectUpKeeps == IInv /\ ConnectUp => TypeOK' /\ Bookkeeping'
<1> SUFFICES ASSUME IInv, ConnectUp PROVE TypeOK' /\ Bookkeeping'
  OBVIOUS
<1>1. DataTypeOK' /\ ControlTypeOK' /\ Bookkeeping'
  BY DataUntouched, ControlUntouched, BookUntouched
  DEF ConnectUp, chanVars, ctlVars, obsVars
<1>2. SockTypeOK'
  BY DEF IInv, TypeOK, SockTypeOK, ConnectUp, chanVars, ctlVars, obsVars
<1>3. NetTypeOK'
  BY StreamChannelAssumption
  DEF IInv, TypeOK, ControlTypeOK, NetTypeOK, ConnectUp, chanVars, ctlVars,
      obsVars
<1> QED  BY <1>1, <1>2, <1>3 DEF TypeOK

\* ConnectRefused preserves the invariant.
LEMMA ConnectRefusedKeeps == IInv /\ ConnectRefused => TypeOK' /\ Bookkeeping'
<1> SUFFICES ASSUME IInv, ConnectRefused PROVE TypeOK' /\ Bookkeeping'
  OBVIOUS
<1>1. DataTypeOK' /\ ControlTypeOK' /\ Bookkeeping'
  BY DataUntouched, ControlUntouched, BookUntouched
  DEF ConnectRefused, chanVars, ctlVars, obsVars
<1>2. SockTypeOK'
  BY DEF IInv, TypeOK, SockTypeOK, ConnectRefused, chanVars, ctlVars, obsVars
<1>3. NetTypeOK'
  BY StreamChannelAssumption
  DEF IInv, TypeOK, ControlTypeOK, NetTypeOK, ConnectRefused, chanVars,
      ctlVars, obsVars
<1> QED  BY <1>1, <1>2, <1>3 DEF TypeOK

\* PeerSends preserves the invariant.
LEMMA PeerSendsKeeps == IInv /\ PeerSends => TypeOK' /\ Bookkeeping'
<1> SUFFICES ASSUME IInv, PeerSends PROVE TypeOK' /\ Bookkeeping'
  OBVIOUS
<1>1. DataTypeOK' /\ ControlTypeOK' /\ Bookkeeping'
  BY DataUntouched, ControlUntouched, BookUntouched
  DEF PeerSends, chanVars, ctlVars, obsVars
<1>2. SockTypeOK'
  BY DEF IInv, TypeOK, SockTypeOK, PeerSends, Online, chanVars, ctlVars,
         obsVars
<1>3. NetTypeOK'
  BY StreamChannelAssumption
  DEF IInv, TypeOK, ControlTypeOK, NetTypeOK, PeerSends, Online, chanVars,
      ctlVars, obsVars
<1> QED  BY <1>1, <1>2, <1>3 DEF TypeOK

\* PeerTakes preserves the invariant.
LEMMA PeerTakesKeeps == IInv /\ PeerTakes => TypeOK' /\ Bookkeeping'
<1> SUFFICES ASSUME IInv, PeerTakes PROVE TypeOK' /\ Bookkeeping'
  OBVIOUS
<1>1. DataTypeOK' /\ ControlTypeOK' /\ Bookkeeping'
  BY DataUntouched, ControlUntouched, BookUntouched
  DEF PeerTakes, chanVars, ctlVars, obsVars
<1>2. SockTypeOK'
  BY DEF IInv, TypeOK, SockTypeOK, PeerTakes, Online, chanVars, ctlVars,
         obsVars
<1>3. NetTypeOK'
  <2>1. outq' \in Nat
    BY DEF PeerTakes, IInv, TypeOK, NetTypeOK
  <2> QED  BY <2>1 DEF PeerTakes, IInv, TypeOK, NetTypeOK
<1> QED  BY <1>1, <1>2, <1>3 DEF TypeOK

\* PeerCloses preserves the invariant.
LEMMA PeerClosesKeeps == IInv /\ PeerCloses => TypeOK' /\ Bookkeeping'
<1> SUFFICES ASSUME IInv, PeerCloses PROVE TypeOK' /\ Bookkeeping'
  OBVIOUS
<1>1. DataTypeOK' /\ ControlTypeOK' /\ Bookkeeping'
  BY DataUntouched, ControlUntouched, BookUntouched
  DEF PeerCloses, chanVars, ctlVars, obsVars
<1>2. SockTypeOK'
  BY DEF IInv, TypeOK, SockTypeOK, PeerCloses, Online, chanVars, ctlVars,
         obsVars
<1>3. NetTypeOK'
  BY StreamChannelAssumption
  DEF IInv, TypeOK, ControlTypeOK, NetTypeOK, PeerCloses, Online, chanVars,
      ctlVars, obsVars
<1> QED  BY <1>1, <1>2, <1>3 DEF TypeOK

\* PeerResets preserves the invariant.
LEMMA PeerResetsKeeps == IInv /\ PeerResets => TypeOK' /\ Bookkeeping'
<1> SUFFICES ASSUME IInv, PeerResets PROVE TypeOK' /\ Bookkeeping'
  OBVIOUS
<1>1. DataTypeOK' /\ ControlTypeOK' /\ Bookkeeping'
  BY DataUntouched, ControlUntouched, BookUntouched
  DEF PeerResets, chanVars, ctlVars, obsVars
<1>2. SockTypeOK'
  BY DEF IInv, TypeOK, SockTypeOK, PeerResets, Online, chanVars, ctlVars,
         obsVars
<1>3. NetTypeOK'
  BY StreamChannelAssumption
  DEF IInv, TypeOK, ControlTypeOK, NetTypeOK, PeerResets, Online, chanVars,
      ctlVars, obsVars
<1> QED  BY <1>1, <1>2, <1>3 DEF TypeOK

-----------------------------------------------------------------------------
(* The invariant and the theorems.                                         *)

\* Every step, and every stuttering step, preserves the invariant.
LEMMA NextIInv == IInv /\ [Next]_vars => IInv'
<1> SUFFICES ASSUME IInv, [Next]_vars PROVE TypeOK' /\ Bookkeeping'
  BY DEF IInv, Bookkeeping
<1>1. CASE Connecting
  BY <1>1, ConnectFailsKeeps, ConnectSucceedsAtOnceKeeps,
     ConnectStartsKeeps
  DEF Connecting
<1>2. CASE Handler
  BY <1>2, ConnectedSockReadyKeeps, LoopFailsKeeps, LoopClosesKeeps,
     LoopProceedsKeeps, WriteFailsKeeps, WriteWouldBlockKeeps,
     WriteSomeKeeps, StartReadKeeps, ReadDoneKeeps, ReadErrorKeeps,
     ReadZeroKeeps, ReadSomeKeeps, TailClosesKeeps, TailLoopsKeeps,
     CallbackReturnsKeeps
  DEF Handler
<1>3. CASE User
  BY <1>3, UserSendKeeps, UserSetReceiveGranulaKeeps,
     UserShutdownKeeps, UserCloseKeeps, DestroyKeeps,
     ConnectCanceledKeeps
  DEF User
<1>4. CASE CallContinues
  BY <1>4, PreWriteKeeps, FinishShutdownKeeps, FinishCloseKeeps
  DEF CallContinues
<1>5. CASE Environment
  BY <1>5, ConnectUpKeeps, ConnectRefusedKeeps, PeerSendsKeeps,
     PeerTakesKeeps, PeerClosesKeeps, PeerResetsKeeps
  DEF Environment
<1>6. CASE ConnectSockReady
  BY <1>6, ConnectSockReadyKeeps
<1>7. CASE ClientDrops
  BY <1>7, ClientDropsKeeps
<1>8. CASE UNCHANGED vars
  <2>1. TypeOK'
    BY <1>8 DEF IInv, TypeOK, SockTypeOK, DataTypeOK, ControlTypeOK, NetTypeOK,
       vars, chanVars, ctlVars, obsVars, netVars, pollVars
  <2>2. Bookkeeping'
    BY <1>8 DEF IInv, Bookkeeping, ClosedOnce, ConnectedIsWired, QuietUntilExposed,
       ConnectingIsPending, OwedInFailed, AcceptedHasNoPromise, Exposed, Owed,
       vars, chanVars, ctlVars, obsVars, netVars, pollVars
  <2> QED  BY <2>1, <2>2
<1> QED  BY <1>1, <1>2, <1>3, <1>4, <1>5, <1>6, <1>7, <1>8 DEF Next

\* The inductive invariant holds in every reachable state.
THEOREM Invariance == Spec => []IInv
<1>1. Init => IInv
  BY InitIInv
<1>2. IInv /\ [Next]_vars => IInv'
  BY NextIInv
<1> QED  BY <1>1, <1>2, PTL DEF Spec

\* Every variable keeps its type.
THEOREM TypeCorrect == Spec => []TypeOK
<1>1. IInv => TypeOK
  BY DEF IInv
<1> QED  BY <1>1, Invariance, PTL

\* Along every interleaving of the handlers, the callbacks, the user's calls
\* and the peer, a channel emits closed exactly once when its connection ends.
THEOREM ClosedExactlyOnce == Spec => []ClosedOnce
<1>1. IInv => ClosedOnce
  BY DEF IInv
<1> QED  BY <1>1, Invariance, PTL

\* No path leaves _connected behind without descriptor and subscription.
THEOREM ConnectedStaysWired == Spec => []ConnectedIsWired
<1>1. IInv => ConnectedIsWired
  BY DEF IInv
<1> QED  BY <1>1, Invariance, PTL

-----------------------------------------------------------------------------
(* What sended reports.                                                    *)

\* While doWrite runs, what it has written and not reported yet is totalWrote.
CountedOnce == ReportedIsWired /\ (pc = "write" => reported + tot <= wired)

\* A step that neither writes nor reports, and does not enter doWrite's loop.
LEMMA CountsUntouched ==
    CountedOnce /\ UNCHANGED <<reported, wired>>
        /\ (pc' = "write" => pc = "write" /\ UNCHANGED tot) => CountedOnce'
  BY DEF CountedOnce, ReportedIsWired

\* Handler steps keep the count: doWrite's loop starts it at zero, adds what
\* the kernel took and hands it to sended as it ends.
LEMMA HandlerCounts == IInv /\ CountedOnce /\ Handler => CountedOnce'
<1> SUFFICES ASSUME IInv, CountedOnce, Handler PROVE CountedOnce'
  OBVIOUS
<1>0. reported \in Nat /\ wired \in Nat /\ tot \in Nat
  BY DEF IInv, TypeOK, DataTypeOK
<1>1. CASE LoopProceeds
  BY <1>0, <1>1 DEF LoopProceeds, obsVars, CountedOnce, ReportedIsWired
<1>2. CASE WriteWouldBlock
  BY <1>0, <1>2 DEF WriteWouldBlock, WriteDone, Running, CountedOnce, ReportedIsWired
<1>3. CASE WriteSome
  <2>1. PICK n \in 1..SndCap : /\ Wrote(n) /\ tot' = tot + n
                               /\ IF WriteReadyNext THEN UNCHANGED <<pc, prog, reported>>
                                                    ELSE WriteDone(tot + n)
    BY <1>3 DEF WriteSome
  <2>2. n \in Nat /\ wired' = wired + n /\ tot' = tot + n
    BY <2>1, StreamChannelAssumption DEF Wrote
  <2>3. reported + tot <= wired
    BY <1>3 DEF WriteSome, Running, CountedOnce
  <2>4. CASE UNCHANGED <<pc, prog, reported>>
    BY <1>0, <2>2, <2>3, <2>4 DEF CountedOnce, ReportedIsWired
  <2>5. CASE WriteDone(tot + n)
    <3>1. reported' = reported + (tot + n) /\ pc' # "write"
      BY <2>5 DEF WriteDone
    <3> QED  BY <1>0, <2>2, <2>3, <3>1 DEF CountedOnce, ReportedIsWired
  <2> QED  BY <2>1, <2>4, <2>5
<1>4. CASE CallbackReturns
  <2>1. ret # "write" /\ pc \in CallbackPcs
    BY <1>4 DEF IInv, TypeOK, ControlTypeOK, CallbackReturns
  <2>2. pc' # "write" /\ UNCHANGED <<reported, wired>>
    BY <1>4, <2>1 DEF CallbackReturns, CallbackPcs
  <2> QED  BY <2>2, CountsUntouched
<1>5. CASE ConnectedSockReady
  BY <1>5, CountsUntouched DEF ConnectedSockReady
<1>6. CASE LoopFails \/ WriteFails \/ ReadError
  BY <1>6, CountsUntouched DEF LoopFails, WriteFails, ReadError, Failing, obsVars
<1>7. CASE LoopCloses \/ TailCloses
  BY <1>7, CountsUntouched DEF LoopCloses, TailCloses
<1>8. CASE StartRead \/ ReadDone \/ ReadZero \/ ReadSome \/ TailLoops
  BY <1>8, CountsUntouched DEF StartRead, ReadDone, ReadZero, ReadSome, TailLoops, obsVars
<1> QED
  BY <1>1, <1>2, <1>3, <1>4, <1>5, <1>6, <1>7, <1>8 DEF Handler

\* The user's calls write without reporting, and never within doWrite's loop.
LEMMA CallsCount ==
    IInv /\ CountedOnce /\ (User \/ CallContinues) => CountedOnce'
<1> SUFFICES ASSUME IInv, CountedOnce, User \/ CallContinues PROVE CountedOnce'
  OBVIOUS
<1>1. CASE UserSend \/ UserSetReceiveGranula \/ UserShutdown \/ UserClose
  BY <1>1, CountsUntouched
  DEF UserSend, UserSetReceiveGranula, UserShutdown, UserClose, ctlVars, obsVars
<1>2. CASE Destroy \/ ConnectCanceled
  BY <1>2, CountsUntouched DEF Destroy, ConnectCanceled, ctlVars, obsVars
<1>3. CASE PreWrite
  <2>1. reported' = reported /\ tot' = tot /\ pc' = pc
    BY <1>3 DEF PreWrite, ctlVars
  <2>2. wired \in Nat /\ reported \in Nat /\ tot \in Nat
    BY DEF IInv, TypeOK, DataTypeOK
  <2>3. ASSUME NEW n \in 1..SndCap, Wrote(n) PROVE wired' \in Nat /\ wired <= wired'
    BY <2>2, <2>3, StreamChannelAssumption DEF Wrote
  <2>4. wired' \in Nat /\ wired <= wired'
    BY <1>3, <2>2, <2>3 DEF PreWrite
  <2> QED  BY <2>1, <2>2, <2>4 DEF CountedOnce, ReportedIsWired
<1>4. CASE FinishShutdown \/ FinishClose
  BY <1>4, CountsUntouched DEF FinishShutdown, FinishClose, obsVars
<1> QED  BY <1>1, <1>2, <1>3, <1>4 DEF User, CallContinues

\* Neither connecting nor the kernel and the peer write or report.
LEMMA OthersCount ==
    CountedOnce /\ (Connecting \/ ConnectSockReady \/ ClientDrops \/ Environment)
        => CountedOnce'
<1> SUFFICES ASSUME CountedOnce,
                    Connecting \/ ConnectSockReady \/ ClientDrops \/ Environment
             PROVE  CountedOnce'
  OBVIOUS
<1>1. UNCHANGED <<ctlVars, obsVars>>
  BY DEF Connecting, ConnectFails, ConnectSucceedsAtOnce, ConnectStarts,
         ConnectSockReady, ClientDrops, Environment, ConnectUp, ConnectRefused,
         PeerSends, PeerTakes, PeerCloses, PeerResets
<1> QED  BY <1>1, CountsUntouched DEF ctlVars, obsVars

\* The `now` arguments of sended never add up to more than sendmsg took.
THEOREM ReportedWasWired == Spec => []ReportedIsWired
<1>1. Init => CountedOnce
  BY DEF Init, CountedOnce, ReportedIsWired
<1>2. IInv /\ CountedOnce /\ [Next]_vars => CountedOnce'
  <2>1. CountedOnce /\ UNCHANGED vars => CountedOnce'
    BY CountsUntouched DEF vars, ctlVars, obsVars
  <2> QED  BY <2>1, HandlerCounts, CallsCount, OthersCount DEF Next
<1>3. CountedOnce => ReportedIsWired
  BY DEF CountedOnce
<1> QED  BY <1>1, <1>2, <1>3, Invariance, PTL DEF Spec

-----------------------------------------------------------------------------
(* What reaches the wire.                                                  *)

\* The buffer begins where the wire ends, except on a channel that has lost its
\* connection or its output: it may have discarded bytes, and writes no more.
GapFree ==
    /\ connected /\ ~rst /\ "out" \notin shut => sbuf.head = wired
    /\ alive /\ ~Exposed => sbuf.head = wired
    /\ ~connected => sbuf.bufs = {}

\* A step that leaves the output alone and does not mend the connection.
LEMMA OutputUntouched ==
    GapFree /\ UNCHANGED <<sbuf, wired, connected>>
        /\ (rst => rst') /\ shut \subseteq shut' /\ (alive' => alive)
        /\ (alive' /\ Exposed => Exposed') => GapFree'
  BY DEF GapFree

\* A step that discards the buffer together with the connection.
LEMMA Discarding ==
    ~connected' /\ sbuf' = Clear(sbuf) /\ Exposed' => GapFree'
  BY DEF GapFree, Clear

\* A write happens on a connected channel, begins where the wire ends and
\* leaves the buffer beginning there.
LEMMA WritesFollow ==
    ASSUME IInv, GapFree, NEW n \in 1..SndCap, SendAccepts(n), Wrote(n)
    PROVE  sbuf.head = wired /\ connected /\ sbuf'.head = wired'
<1>1. sbuf.bufs # {}
  BY DEF SendAccepts, WithinBufs
<1>2. connected /\ ~rst /\ "out" \notin shut
  BY <1>1 DEF GapFree, SendAccepts, SendFails
<1>3. sbuf.head = wired
  BY <1>2 DEF GapFree
<1>4. sbuf'.head = sbuf.head + n /\ wired' = wired + n
  BY DEF Wrote, Drop, EnfillBufs
<1> QED  BY <1>2, <1>3, <1>4

\* Only a channel the user holds runs a handler.
LEMMA HandlerExposed == IInv /\ Handler => Exposed /\ Exposed'
<1> SUFFICES ASSUME IInv, Handler PROVE Exposed /\ Exposed'
  OBVIOUS
<1>1. alive /\ (pc # "idle" \/ sub = "connected")
  BY DEF Handler, ConnectedSockReady, Fired, LoopFails, LoopCloses, LoopProceeds,
         WriteFails, WriteWouldBlock, WriteSome, StartRead, ReadDone, ReadError,
         ReadZero, ReadSome, TailCloses, TailLoops, CallbackReturns, Running, CallbackPcs
<1>2. Exposed
  BY <1>1 DEF IInv, QuietUntilExposed
<1>3. UNCHANGED <<alive, origin>> /\ (promise = "value" => promise' = "value")
  BY DEF Handler, ConnectedSockReady, LoopFails, LoopCloses, LoopProceeds,
         WriteFails, WriteWouldBlock, WriteSome, StartRead, ReadDone, ReadError,
         ReadZero, ReadSome, TailCloses, TailLoops, CallbackReturns, Failing, Closing,
         chanVars
<1> QED  BY <1>2, <1>3 DEF Exposed

\* Handler steps write in sequence, discard with the connection, or do neither.
LEMMA HandlerGapFree == IInv /\ GapFree /\ Handler => GapFree'
<1> SUFFICES ASSUME IInv, GapFree, Handler PROVE GapFree'
  OBVIOUS
<1>0. Exposed /\ Exposed'
  BY HandlerExposed
<1>1. CASE LoopFails \/ WriteFails
  BY <1>0, <1>1, Discarding DEF LoopFails, WriteFails, Failing
<1>2. CASE LoopCloses \/ TailCloses
  BY <1>0, <1>2, Discarding DEF LoopCloses, TailCloses, Closing
<1>3. CASE ReadError
  <2>1. CASE "eof" \in last
    BY <1>0, <1>3, <2>1, OutputUntouched DEF ReadError, obsVars
  <2>2. CASE "eof" \notin last
    BY <1>0, <1>3, <2>2, Discarding DEF ReadError, Failing
  <2> QED  BY <2>1, <2>2
<1>4. CASE WriteSome
  <2>1. PICK n \in 1..SndCap : SendAccepts(n) /\ Wrote(n)
    BY <1>4 DEF WriteSome
  <2>2. connected /\ sbuf'.head = wired'
    BY <2>1, WritesFollow
  <2> QED  BY <1>4, <2>2 DEF WriteSome, GapFree
<1>5. CASE WriteWouldBlock \/ ConnectedSockReady \/ LoopProceeds \/ StartRead
  BY <1>0, <1>5, OutputUntouched
  DEF WriteWouldBlock, ConnectedSockReady, LoopProceeds, StartRead, chanVars, obsVars,
      netVars
<1>6. CASE ReadDone \/ ReadZero \/ ReadSome \/ TailLoops \/ CallbackReturns
  BY <1>0, <1>6, OutputUntouched
  DEF ReadDone, ReadZero, ReadSome, TailLoops, CallbackReturns, chanVars, obsVars, netVars
<1> QED  BY <1>1, <1>2, <1>3, <1>4, <1>5, <1>6 DEF Handler

\* So do the user's calls: a write that fails before shutdown or close means that
\* the connection or the output is gone already.
LEMMA CallsGapFree == IInv /\ GapFree /\ (User \/ CallContinues) => GapFree'
<1> SUFFICES ASSUME IInv, GapFree, User \/ CallContinues PROVE GapFree'
  OBVIOUS
<1>1. CASE UserSend
  BY <1>1 DEF UserSend, Push, EnfillBufs, GapFree, MayCall, Exposed, netVars, obsVars
<1>2. CASE UserSetReceiveGranula \/ UserShutdown \/ UserClose
  BY <1>2, OutputUntouched
  DEF UserSetReceiveGranula, UserShutdown, UserClose, Exposed, chanVars, netVars, obsVars
<1>3. CASE Destroy \/ ConnectCanceled
  BY <1>3, OutputUntouched DEF Destroy, ConnectCanceled, Exposed, netVars, obsVars
<1>4. CASE PreWrite
  <2>1. Exposed /\ connected /\ sock = "open"
    BY <1>4 DEF PreWrite, PreWrites, IInv, QuietUntilExposed, ConnectedIsWired
  <2>2. Exposed' /\ connected' /\ UNCHANGED <<rst, shut>>
    BY <1>4, <2>1 DEF PreWrite, Exposed
  <2>3. CASE SendFails
    BY <2>1, <2>2, <2>3 DEF SendFails, GapFree
  <2>4. CASE UNCHANGED <<sbuf, wired>>
    BY <2>1, <2>2, <2>4 DEF GapFree
  <2>5. CASE \E n \in 1..SndCap : SendAccepts(n) /\ Wrote(n)
    BY <2>2, <2>5, WritesFollow DEF GapFree
  <2> QED  BY <1>4, <2>3, <2>4, <2>5 DEF PreWrite
<1>5. CASE FinishShutdown
  BY <1>5, OutputUntouched
  DEF FinishShutdown, KernelShutdown, Exposed, chanVars, obsVars
<1>6. CASE FinishClose
  <2>1. Exposed
    BY <1>6 DEF FinishClose, IInv, QuietUntilExposed
  <2>2. Exposed'
    BY <1>6, <2>1 DEF FinishClose, Closing, Exposed
  <2> QED  BY <1>6, <2>2, Discarding DEF FinishClose, Closing
<1> QED  BY <1>1, <1>2, <1>3, <1>4, <1>5, <1>6 DEF User, CallContinues

\* A channel that becomes connected has written nothing, and the kernel and the
\* peer only take from the wire.
LEMMA OthersGapFree ==
    IInv /\ GapFree /\ (Connecting \/ ConnectSockReady \/ ClientDrops \/ Environment)
        => GapFree'
<1> SUFFICES ASSUME IInv, GapFree,
                    Connecting \/ ConnectSockReady \/ ClientDrops \/ Environment
             PROVE  GapFree'
  OBVIOUS
<1>1. CASE ConnectFails \/ ConnectStarts
  BY <1>1, OutputUntouched
  DEF ConnectFails, ConnectStarts, Dialing, Exposed, netVars, obsVars
<1>2. CASE ConnectSucceedsAtOnce
  BY <1>2 DEF ConnectSucceedsAtOnce, Dialing, Exposed, GapFree, obsVars
<1>3. CASE ConnectSockReady
  <2>1. sbuf.head = wired /\ UNCHANGED <<sbuf, wired>>
    BY <1>3 DEF ConnectSockReady, IInv, ConnectingIsPending, Exposed, GapFree, obsVars
  <2>2. connected' \/ UNCHANGED connected
    BY <1>3 DEF ConnectSockReady
  <2> QED  BY <2>1, <2>2 DEF GapFree
<1>4. CASE ClientDrops
  BY <1>4, OutputUntouched DEF ClientDrops, netVars, obsVars
<1>5. CASE Environment
  BY <1>5, OutputUntouched
  DEF Environment, ConnectUp, ConnectRefused, PeerSends, PeerTakes, PeerCloses, PeerResets,
      Exposed, chanVars, obsVars
<1> QED  BY <1>1, <1>2, <1>3, <1>4, <1>5 DEF Connecting

\* The buffer of a channel that can write begins where the wire ends.
LEMMA AlwaysGapFree == Spec => [](IInv /\ GapFree)
<1>1. Init => GapFree
  BY DEF Init, GapFree, NewSendBuffer
<1>2. IInv /\ GapFree /\ [Next]_vars => GapFree'
  <2>1. GapFree /\ UNCHANGED vars => GapFree'
    BY OutputUntouched DEF vars, chanVars, obsVars, netVars, Exposed
  <2> QED  BY <2>1, HandlerGapFree, CallsGapFree, OthersGapFree DEF Next
<1> QED  BY <1>1, <1>2, Invariance, PTL DEF Spec

\* Every write continues the one before: no byte the user sent is left out of
\* what the peer gets, even when bytes were discarded by an error or a close.
THEOREM WireHasNoGap == Spec => NoGapOnWire
<1>1. IInv /\ GapFree /\ [Next]_vars => [wired' > wired => sbuf.head = wired]_vars
  <2> SUFFICES ASSUME IInv, GapFree, Next, wired' > wired PROVE sbuf.head = wired
    OBVIOUS
  <2>1. wired' # wired
    BY DEF IInv, TypeOK, DataTypeOK
  <2>2. CASE WriteSome \/ PreWrite
    BY <2>1, <2>2, WritesFollow DEF WriteSome, PreWrite
  <2>3. CASE ~(WriteSome \/ PreWrite)
    <3>1. wired' = wired
      BY <2>3
      DEF Next, Connecting, ConnectFails, ConnectSucceedsAtOnce, ConnectStarts,
          ConnectSockReady, ClientDrops, Handler, ConnectedSockReady, LoopFails,
          LoopCloses, LoopProceeds, WriteFails, WriteWouldBlock, StartRead, ReadDone,
          ReadError, ReadZero, ReadSome, TailCloses, TailLoops, CallbackReturns, User,
          UserSend, UserSetReceiveGranula, UserShutdown, UserClose, Destroy,
          ConnectCanceled, CallContinues, FinishShutdown, FinishClose, Environment,
          ConnectUp, ConnectRefused, PeerSends, PeerTakes, PeerCloses, PeerResets, obsVars
    <3> QED  BY <2>1, <3>1
  <2> QED  BY <2>2, <2>3
<1> QED  BY <1>1, AlwaysGapFree, PTL DEF Spec, NoGapOnWire

-----------------------------------------------------------------------------
(* The send buffer.                                                        *)

\* The buffer is sound at all times, and empty without a connection.
BufferTidy == Sound(sbuf) /\ (~connected => sbuf.head = sbuf.tail)

\* What sendmsg takes of the iovec array is there.
LEMMA WritesWithin ==
    ASSUME BufferTidy, NEW n \in 1..SndCap, SendAccepts(n), Wrote(n)
    PROVE  /\ wired' = wired + n /\ sbuf'.tail = sbuf.tail
           /\ sbuf'.head = sbuf.head + n /\ sbuf'.head <= sbuf'.tail /\ Sound(sbuf')
<1>1. n \in Nat /\ WithinBufs(n, sbuf) /\ sbuf' = Drop(sbuf, n) /\ wired' = wired + n
  BY StreamChannelAssumption DEF SendAccepts, Wrote
<1>2. Sound(sbuf')
  BY <1>1, DropIsSound DEF BufferTidy
<1>3. sbuf'.tail = sbuf.tail /\ sbuf'.head = sbuf.head + n
  BY <1>1 DEF Drop, EnfillBufs
<1>4. sbuf'.head <= sbuf'.tail
  BY <1>2 DEF Sound
<1> QED  BY <1>1, <1>2, <1>3, <1>4

\* A discarded buffer is tidy, and a buffer left alone stays so as long as the
\* connection is not lost without discarding it.
LEMMA ClearedTidy == BufferTidy /\ sbuf' = Clear(sbuf) => BufferTidy'
<1> SUFFICES ASSUME BufferTidy, sbuf' = Clear(sbuf) PROVE BufferTidy'
  OBVIOUS
<1>1. Sound(sbuf')
  BY ClearIsSound DEF BufferTidy
<1> QED  BY <1>1 DEF Clear, BufferTidy

LEMMA UntouchedTidy ==
    BufferTidy /\ UNCHANGED sbuf /\ (connected => connected') => BufferTidy'
  BY DEF BufferTidy

LEMMA PushedTidy ==
    ASSUME BufferTidy, connected', NEW len \in Nat \ {0}, sbuf' = Push(sbuf, len)
    PROVE  BufferTidy'
<1>1. Sound(sbuf')
  BY PushIsSound DEF BufferTidy
<1> QED  BY <1>1 DEF BufferTidy

LEMMA TidyKept == IInv /\ BufferTidy /\ [Next]_vars => BufferTidy'
<1> SUFFICES ASSUME IInv, BufferTidy, [Next]_vars PROVE BufferTidy'
  OBVIOUS
<1>1. CASE UNCHANGED vars
  BY <1>1, UntouchedTidy DEF vars, chanVars
<1>2. CASE Connecting \/ ConnectSockReady \/ ClientDrops \/ Environment
  BY <1>2, UntouchedTidy
  DEF Connecting, ConnectFails, ConnectSucceedsAtOnce, ConnectStarts, ConnectSockReady,
      ClientDrops, Environment, ConnectUp, ConnectRefused, PeerSends, PeerTakes,
      PeerCloses, PeerResets, chanVars
<1>3. CASE LoopFails \/ LoopCloses \/ WriteFails \/ TailCloses \/ FinishClose
  BY <1>3, ClearedTidy
  DEF LoopFails, LoopCloses, WriteFails, TailCloses, FinishClose, Failing, Closing
<1>4. CASE ReadError
  BY <1>4, ClearedTidy, UntouchedTidy DEF ReadError, Failing
<1>5. CASE WriteSome
  <2>1. PICK n \in 1..SndCap : SendAccepts(n) /\ Wrote(n)
    BY <1>5 DEF WriteSome
  <2>2. connected /\ UNCHANGED connected
    <3>1. PICK e \in sbuf.bufs : sbuf.head + n <= e
      BY <2>1 DEF SendAccepts, WithinBufs
    <3>2. sbuf.head < sbuf.tail
      BY <3>1, StreamChannelAssumption DEF BufferTidy, Sound, SendBuffers
    <3> QED  BY <1>5, <3>2 DEF WriteSome, BufferTidy, Sound, SendBuffers
  <2> QED  BY <2>1, <2>2, WritesWithin DEF BufferTidy
<1>6. CASE PreWrite
  <2>1. connected /\ UNCHANGED connected
    BY <1>6 DEF PreWrite, PreWrites
  <2>2. CASE \E n \in 1..SndCap : SendAccepts(n) /\ Wrote(n)
    BY <2>1, <2>2, WritesWithin DEF BufferTidy
  <2> QED  BY <1>6, <2>1, <2>2, ClearedTidy, UntouchedTidy DEF PreWrite
<1>7. CASE UserSend
  <2>1. PICK len \in ChunkSizes : sbuf' = Push(sbuf, len)
    BY <1>7 DEF UserSend
  <2>2. len \in Nat \ {0} /\ connected'
    BY <1>7, StreamChannelAssumption DEF UserSend
  <2> QED  BY <2>1, <2>2, PushedTidy
<1>8. CASE \/ ConnectedSockReady \/ LoopProceeds \/ WriteWouldBlock \/ StartRead
           \/ ReadDone \/ ReadZero \/ ReadSome \/ TailLoops \/ CallbackReturns
  BY <1>8, UntouchedTidy
  DEF ConnectedSockReady, LoopProceeds, WriteWouldBlock, StartRead, ReadDone, ReadZero,
      ReadSome, TailLoops, CallbackReturns, chanVars
<1>9. CASE \/ UserSetReceiveGranula \/ UserShutdown \/ UserClose \/ Destroy
           \/ ConnectCanceled \/ FinishShutdown
  BY <1>9, UntouchedTidy
  DEF UserSetReceiveGranula, UserShutdown, UserClose, Destroy, ConnectCanceled,
      FinishShutdown, chanVars
<1> QED
  BY <1>1, <1>2, <1>3, <1>4, <1>5, <1>6, <1>7, <1>8, <1>9
  DEF Next, Handler, User, CallContinues
-----------------------------------------------------------------------------
(* The life of a channel.                                                  *)

\* A step that changes neither what Phase looks at nor what is counted is a
\* stutter of the byte stream.
LifeUntouched ==
    UNCHANGED <<alive, origin, connected, nClosed>> /\ Exposed' = Exposed

Uncounted == UNCHANGED <<sbuf, wired, reported, rst, shut, sentIn, inq, delivered>>

LEMMA PhaseUntouched == LifeUntouched => Phase' = Phase
  BY DEF LifeUntouched, Phase

LEMMA Stutter == LifeUntouched /\ Uncounted => UNCHANGED Stream!vars
  BY PhaseUntouched DEF Uncounted, Stream!vars, Stream!outVars, Stream!inVars, DataSize

\* A connected channel is open; one that is not and owes nothing is closed.
LEMMA PhaseOpen == IInv /\ alive /\ connected => Phase = "open" /\ nClosed = 0 /\ Exposed
<1> SUFFICES ASSUME IInv, alive, connected
             PROVE  Phase = "open" /\ nClosed = 0 /\ Exposed
  OBVIOUS
<1>1. Exposed
  BY DEF IInv, QuietUntilExposed
<1>2. nClosed = 0
  BY <1>1 DEF IInv, ClosedOnce, Owed, TypeOK, DataTypeOK
<1> QED  BY <1>1, <1>2 DEF Phase

LEMMA PhaseAfterEnd ==
    IInv /\ Exposed /\ ~connected
        => /\ owesClosed => Phase = "ending" /\ nClosed = 0
           /\ ~owesClosed => Phase = "closed" /\ nClosed = 1
<1> SUFFICES ASSUME IInv, Exposed, ~connected
             PROVE  /\ owesClosed => Phase = "ending" /\ nClosed = 0
                    /\ ~owesClosed => Phase = "closed" /\ nClosed = 1
  OBVIOUS
<1>1. alive
  BY DEF Exposed
<1>2. nClosed + Owed = 1 /\ nClosed \in Nat
  BY DEF IInv, ClosedOnce, TypeOK, DataTypeOK
<1>3. CASE owesClosed
  BY <1>1, <1>2, <1>3 DEF Phase, Owed
<1>4. CASE ~owesClosed
  BY <1>1, <1>2, <1>4 DEF Phase, Owed
<1> QED  BY <1>3, <1>4

LEMMA PhaseNew == alive /\ ~Exposed => Phase = "new"
  BY DEF Phase

LEMMA PhaseGone == ~alive => Phase = "gone"
  BY DEF Phase

LEMMA PhaseAlive == alive => Phase # "gone"
  BY DEF Phase

-----------------------------------------------------------------------------
(* Every step is one of a byte stream.                                     *)

\* Steps of the kernel and the peer.
LEMMA EnvironmentStep == IInv /\ Environment => [Stream!Next]_(Stream!vars)
<1> SUFFICES ASSUME IInv, Environment PROVE [Stream!Next]_(Stream!vars)
  OBVIOUS
<1>0. LifeUntouched /\ UNCHANGED <<sbuf, wired, reported, delivered>>
  BY DEF Environment, ConnectUp, ConnectRefused, PeerSends, PeerTakes, PeerCloses,
         PeerResets, LifeUntouched, Exposed, chanVars, obsVars
<1>1. Phase' = Phase /\ Phase # "gone" /\ UNCHANGED DataSize(sbuf)
  BY <1>0, PhaseUntouched, PhaseAlive
  DEF DataSize, Environment, ConnectUp, ConnectRefused, PeerSends, PeerTakes, PeerCloses,
      PeerResets, Online
<1>2. CASE ConnectUp \/ PeerTakes \/ PeerCloses
  BY <1>0, <1>2, Stutter DEF ConnectUp, PeerTakes, PeerCloses, Uncounted
<1>3. CASE ConnectRefused
  BY <1>0, <1>1, <1>3
  DEF ConnectRefused, Stream!Next, Stream!ShutOutput, Stream!inVars
<1>4. CASE PeerSends
  BY <1>0, <1>1, <1>4
  DEF PeerSends, IInv, TypeOK, NetTypeOK, Stream!Next, Stream!Arrive, Stream!outVars
<1>5. CASE PeerResets
  BY <1>0, <1>1, <1>5 DEF PeerResets, Stream!Next, Stream!Reset
<1> QED  BY <1>2, <1>3, <1>4, <1>5 DEF Environment

\* Connecting: the user gets an open channel or none.
LEMMA ConnectStep ==
    IInv /\ (Connecting \/ ConnectSockReady \/ ClientDrops)
        => [Stream!Next]_(Stream!vars)
<1> SUFFICES ASSUME IInv, Connecting \/ ConnectSockReady \/ ClientDrops
             PROVE  [Stream!Next]_(Stream!vars)
  OBVIOUS
<1>0. alive /\ ~Exposed
  BY DEF Connecting, ConnectFails, ConnectSucceedsAtOnce, ConnectStarts, ConnectSockReady,
         ClientDrops, Dialing, Exposed, IInv, ConnectingIsPending
<1>1. Phase = "new" /\ ~connected /\ nClosed = 0
  BY <1>0, PhaseNew DEF IInv, QuietUntilExposed
<1>2. Uncounted
  BY DEF Connecting, ConnectFails, ConnectSucceedsAtOnce, ConnectStarts, ConnectSockReady,
         ClientDrops, Uncounted, obsVars, netVars
<1>3. UNCHANGED <<Stream!outVars, Stream!inVars>>
  BY <1>2 DEF Uncounted, Stream!outVars, Stream!inVars, DataSize
<1>4. Phase' = "new" \/ Phase' = "gone" \/ Phase' = "open"
  <2>1. CASE ~connected'
    BY <1>0, <1>1, <2>1 DEF Phase, Exposed, Connecting, ConnectFails, ConnectSucceedsAtOnce,
         ConnectStarts, ConnectSockReady, ClientDrops, Dialing
  <2>2. CASE connected'
    BY <1>0, <1>1, <2>2 DEF Phase, Exposed, Connecting, ConnectFails, ConnectSucceedsAtOnce,
         ConnectStarts, ConnectSockReady, ClientDrops, Dialing, obsVars
  <2> QED  BY <2>1, <2>2
<1>5. CASE Phase' = "new"
  BY <1>1, <1>3, <1>5 DEF Stream!vars
<1>6. CASE Phase' = "gone"
  BY <1>1, <1>3, <1>6 DEF Stream!Next, Stream!Vanish
<1>7. CASE Phase' = "open"
  BY <1>1, <1>3, <1>7 DEF Stream!Next, Stream!Open
<1> QED  BY <1>4, <1>5, <1>6, <1>7

\* Within doWrite's loop the channel is connected: a user call cannot come in
\* between, and a channel without a connection has nothing in its iovec array.
WritesOpen == pc = "write" => connected /\ op = "none"

LEMMA WritesOpenKept == IInv /\ GapFree /\ WritesOpen /\ [Next]_vars => WritesOpen'
<1> SUFFICES ASSUME IInv, GapFree, WritesOpen, [Next]_vars PROVE WritesOpen'
  OBVIOUS
<1>1. CASE LoopProceeds
  BY <1>1 DEF LoopProceeds, Running, WriteReady, IsEmpty, GapFree, WritesOpen, chanVars
<1>2. CASE WriteSome
  BY <1>2 DEF WriteSome, Running, WritesOpen
<1>3. CASE WriteWouldBlock
  BY <1>3 DEF WriteWouldBlock, WriteDone, WritesOpen
<1>4. CASE CallbackReturns
  BY <1>4 DEF CallbackReturns, CallbackPcs, WritesOpen, IInv, TypeOK, ControlTypeOK
<1>5. CASE \/ ConnectedSockReady \/ LoopFails \/ LoopCloses \/ WriteFails \/ StartRead
           \/ ReadDone \/ ReadError \/ ReadZero \/ ReadSome \/ TailCloses \/ TailLoops
  BY <1>5
  DEF ConnectedSockReady, LoopFails, LoopCloses, WriteFails, StartRead, ReadDone,
      ReadError, ReadZero, ReadSome, TailCloses, TailLoops, Failing, WritesOpen
<1>6. CASE PreWrite \/ FinishShutdown \/ FinishClose
  BY <1>6 DEF PreWrite, PreWrites, FinishShutdown, FinishClose, ctlVars, WritesOpen
<1>7. CASE UNCHANGED vars \/ Environment
  BY <1>7
  DEF vars, chanVars, ctlVars, Environment, ConnectUp, ConnectRefused, PeerSends,
      PeerTakes, PeerCloses, PeerResets, WritesOpen
<1>8. CASE Connecting \/ ConnectSockReady \/ ClientDrops \/ User
  BY <1>8
  DEF Connecting, ConnectFails, ConnectSucceedsAtOnce, ConnectStarts, ConnectSockReady,
      ClientDrops, User, UserSend, UserSetReceiveGranula, UserShutdown, UserClose, Destroy,
      ConnectCanceled, MayCall, CallbackPcs, chanVars, ctlVars, WritesOpen
<1> QED
  BY <1>1, <1>2, <1>3, <1>4, <1>5, <1>6, <1>7, <1>8 DEF Next, Handler, CallContinues
\* A step that takes the connection with its buffer, or finds both gone.
LEMMA EndOrStutter ==
    ASSUME IInv, BufferTidy, Exposed, Exposed',
           UNCHANGED <<alive, origin, wired, reported, rst, shut, sentIn, inq, delivered>>,
           connected' = FALSE, sbuf' = Clear(sbuf),
           nClosed' = nClosed \/ (connected /\ nClosed' = nClosed + 1)
    PROVE  [Stream!Next]_(Stream!vars)
<1>0. alive /\ alive' /\ UNCHANGED Stream!inVars
  BY DEF Exposed, Stream!inVars
<1>1. DataSize(sbuf') = 0 /\ sbuf'.tail = sbuf.tail
  BY DEF Clear, DataSize, IInv, TypeOK, DataTypeOK, SendBuffers
<1>2. CASE connected
  <2>1. Phase = "open" /\ nClosed = 0
    BY <1>0, <1>2, PhaseOpen
  <2>2. Phase' = "ending" \/ Phase' = "closed"
    BY <1>0, <2>1 DEF Phase
  <2>3. DataSize(sbuf)' = 0
    BY <1>1
  <2> QED  BY <1>0, <1>1, <2>1, <2>2, <2>3 DEF Stream!Next, Stream!End
<1>3. CASE ~connected
  <2>1. LifeUntouched
    <3>1. connected' = connected
      BY <1>3 DEF IInv, TypeOK, SockTypeOK
    <3> QED  BY <1>3, <3>1 DEF LifeUntouched, Exposed
  <2>2. DataSize(sbuf) = 0
    BY <1>3 DEF BufferTidy, Sound, DataSize, SendBuffers
  <2>3. UNCHANGED <<sbuf.tail, DataSize(sbuf)>>
    BY <1>1, <2>2
  <2> QED  BY <2>1, <2>3, PhaseUntouched DEF Stream!vars, Stream!outVars, Stream!inVars
<1> QED  BY <1>2, <1>3

\* What one sendmsg takes goes from the buffer to the wire.
LEMMA WriteStep ==
    ASSUME IInv, BufferTidy, NEW n \in 1..SndCap, SendAccepts(n), Wrote(n),
           alive, connected, LifeUntouched,
           UNCHANGED <<rst, shut, sentIn, inq, delivered>>,
           reported' \in Nat, reported <= reported', reported' <= wired'
    PROVE  Stream!Write
<1>0. /\ sbuf \in SendBuffers /\ n \in Nat /\ n > 0
      /\ wired \in Nat /\ reported \in Nat
  BY StreamChannelAssumption DEF IInv, TypeOK, DataTypeOK
<1>1. Phase = "open" /\ Phase' = "open" /\ ~rst /\ "out" \notin shut
  BY PhaseOpen, PhaseUntouched DEF SendAccepts, SendFails
<1>2. /\ wired' = wired + n /\ sbuf'.tail = sbuf.tail
      /\ sbuf'.head = sbuf.head + n /\ sbuf.head + n <= sbuf.tail
  BY WritesWithin
<1>3. DataSize(sbuf) = sbuf.tail - sbuf.head /\ DataSize(sbuf)' = sbuf.tail - (sbuf.head + n)
  BY <1>2 DEF DataSize
<1>4. n \in 1 .. DataSize(sbuf)
  BY <1>0, <1>2, <1>3 DEF SendBuffers
<1>5. DataSize(sbuf)' = DataSize(sbuf) - n
  BY <1>0, <1>2, <1>3 DEF SendBuffers
<1>6. reported' \in reported .. wired'
  BY <1>0, <1>2
<1> QED  BY <1>1, <1>2, <1>4, <1>5, <1>6 DEF Stream!Write, Stream!inVars

\* Handler steps: doWrite writes and reports, doRead delivers, the ends end.
LEMMA HandlerStep ==
    IInv /\ CountedOnce /\ BufferTidy /\ WritesOpen /\ Handler
        => [Stream!Next]_(Stream!vars)
<1> SUFFICES ASSUME IInv, CountedOnce, BufferTidy, WritesOpen, Handler
             PROVE  [Stream!Next]_(Stream!vars)
  OBVIOUS
<1>0. Exposed /\ Exposed' /\ alive
  BY HandlerExposed DEF Exposed
<1>n. /\ reported \in Nat /\ wired \in Nat /\ tot \in Nat
      /\ inq \in Nat /\ delivered \in Nat
  BY DEF IInv, TypeOK, DataTypeOK, NetTypeOK
<1>1. CASE ConnectedSockReady \/ LoopProceeds \/ StartRead \/ ReadDone
  BY <1>0, <1>1, Stutter
  DEF ConnectedSockReady, LoopProceeds, StartRead, ReadDone, LifeUntouched, Uncounted,
      chanVars, obsVars, netVars
<1>2. CASE ReadZero \/ TailLoops
  BY <1>0, <1>2, Stutter
  DEF ReadZero, TailLoops, LifeUntouched, Uncounted, chanVars, obsVars, netVars
<1>3. CASE LoopFails \/ WriteFails
  BY <1>0, <1>3, EndOrStutter DEF LoopFails, WriteFails, Failing, obsVars
<1>4. CASE LoopCloses \/ TailCloses
  BY <1>0, <1>4, EndOrStutter DEF LoopCloses, TailCloses, Closing, netVars
<1>5. CASE ReadError
  <2>1. CASE "eof" \in last
    BY <1>0, <1>5, <2>1, Stutter DEF ReadError, LifeUntouched, Uncounted, obsVars
  <2>2. CASE "eof" \notin last
    BY <1>0, <1>5, <2>2, EndOrStutter DEF ReadError, Failing, obsVars
  <2> QED  BY <2>1, <2>2
<1>6. CASE WriteWouldBlock
  <2>1. LifeUntouched /\ UNCHANGED <<sbuf, wired, rst, shut, sentIn, inq, delivered>>
    BY <1>0, <1>6 DEF WriteWouldBlock, LifeUntouched
  <2>2. reported' = reported + tot /\ reported + tot <= wired
    BY <1>6 DEF WriteWouldBlock, Running, WriteDone, CountedOnce
  <2>3. CASE tot = 0
    BY <1>n, <2>1, <2>2, <2>3, Stutter DEF Uncounted
  <2>4. CASE tot # 0
    <3>1. Phase = "open" /\ Phase' = "open"
      BY <1>0, <1>6, <2>1, PhaseOpen, PhaseUntouched DEF WriteWouldBlock, Running, WritesOpen
    <3>2. UNCHANGED <<sbuf.tail, DataSize(sbuf)>>
      BY <2>1 DEF DataSize
    <3> QED
      BY <1>n, <2>1, <2>2, <2>4, <3>1, <3>2 DEF Stream!Next, Stream!Report, Stream!inVars
  <2> QED  BY <2>3, <2>4
<1>7. CASE WriteSome
  <2>1. PICK n \in 1..SndCap :
          /\ SendAccepts(n) /\ Wrote(n)
          /\ IF WriteReadyNext THEN UNCHANGED <<pc, prog, reported>>
                               ELSE WriteDone(tot + n)
    BY <1>7 DEF WriteSome
  <2>2. connected /\ LifeUntouched /\ UNCHANGED <<rst, shut, sentIn, inq, delivered>>
    BY <1>0, <1>7 DEF WriteSome, Running, WritesOpen, LifeUntouched
  <2>3. n \in Nat /\ wired' = wired + n /\ reported + tot <= wired
    BY <1>7, <2>1, StreamChannelAssumption DEF Wrote, WriteSome, Running, CountedOnce
  <2>4. reported' = reported \/ reported' = reported + (tot + n)
    BY <2>1 DEF WriteDone
  <2>5. reported' \in Nat /\ reported <= reported' /\ reported' <= wired'
    BY <1>n, <2>3, <2>4
  <2> QED  BY <1>0, <2>1, <2>2, <2>5, WriteStep DEF Stream!Next
<1>8. CASE ReadSome
  <2>1. PICK n \in 1..MaxIn :
          n <= inq /\ inq' = inq - n /\ delivered' = delivered + n
    BY <1>8 DEF ReadSome, Readable
  <2>2. LifeUntouched /\ UNCHANGED <<sbuf, wired, reported, rst, shut, sentIn>>
    BY <1>0, <1>8 DEF ReadSome, LifeUntouched, chanVars
  <2>3. Phase \in {"open", "closed"} /\ Phase' = Phase
    BY <1>0, <1>8, <2>2, PhaseOpen, PhaseAfterEnd, PhaseUntouched
    DEF ReadSome, Running, IInv, OwedInFailed
  <2>4. UNCHANGED Stream!outVars
    BY <2>2 DEF Stream!outVars, DataSize
  <2> QED
    BY <1>n, <2>1, <2>2, <2>3, <2>4, StreamChannelAssumption DEF Stream!Next, Stream!Deliver
<1>9. CASE CallbackReturns
  <2>1. /\ UNCHANGED <<alive, origin, connected>> /\ Uncounted
        /\ nClosed' = IF owesClosed THEN nClosed + 1 ELSE nClosed
    BY <1>9 DEF CallbackReturns, Uncounted, chanVars, netVars
  <2>2. CASE owesClosed
    <3>1. Phase = "ending" /\ nClosed = 0 /\ ~connected
      BY <1>0, <2>2, PhaseAfterEnd DEF IInv, OwedInFailed
    <3>2. Phase' = "closed"
      BY <1>0, <2>1, <2>2, <3>1 DEF Phase
    <3> QED
      BY <2>1, <3>1, <3>2
      DEF Uncounted, DataSize, Stream!Next, Stream!SayClosed, Stream!outVars, Stream!inVars
  <2>3. CASE ~owesClosed
    BY <1>0, <2>1, <2>3, Stutter DEF LifeUntouched
  <2> QED  BY <2>2, <2>3
<1> QED
  BY <1>1, <1>2, <1>3, <1>4, <1>5, <1>6, <1>7, <1>8, <1>9 DEF Handler
\* The user's calls send, shut the output down, end or let go; the writes of a
\* shutdown or a close write or, when the output is lost already, discard.
LEMMA CallStep ==
    IInv /\ CountedOnce /\ BufferTidy /\ (User \/ CallContinues)
        => [Stream!Next]_(Stream!vars)
<1> SUFFICES ASSUME IInv, CountedOnce, BufferTidy, User \/ CallContinues
             PROVE  [Stream!Next]_(Stream!vars)
  OBVIOUS
<1>n. sbuf \in SendBuffers /\ reported \in Nat /\ wired \in Nat
  BY DEF IInv, TypeOK, DataTypeOK
<1>1. CASE UserSend
  <2>1. PICK len \in ChunkSizes : sbuf' = Push(sbuf, len)
    BY <1>1 DEF UserSend
  <2>2. len \in Nat /\ len > 0
    BY StreamChannelAssumption
  <2>3. sbuf'.tail = sbuf.tail + len /\ sbuf'.head = sbuf.head
    BY <2>1 DEF Push, EnfillBufs
  <2>4. len \in 1 .. (sbuf.tail' - sbuf.tail) /\ DataSize(sbuf)' = DataSize(sbuf) + len
    BY <1>n, <2>2, <2>3 DEF DataSize, SendBuffers
  <2>5. Phase = "open" /\ Phase' = "open"
    <3>1. LifeUntouched
      BY <1>1 DEF UserSend, LifeUntouched, Exposed, obsVars
    <3> QED  BY <1>1, <3>1, PhaseOpen, PhaseUntouched DEF UserSend, MayCall, Exposed
  <2> QED
    BY <1>1, <2>3, <2>4, <2>5
    DEF UserSend, obsVars, netVars, Stream!Next, Stream!Send, Stream!inVars
<1>2. CASE UserSetReceiveGranula \/ UserShutdown \/ UserClose
  BY <1>2, Stutter
  DEF UserSetReceiveGranula, UserShutdown, UserClose, LifeUntouched, Uncounted, Exposed,
      chanVars, obsVars, netVars
<1>3. CASE Destroy
  <2>1. Phase # "gone" /\ Phase' = "gone"
    BY <1>3, PhaseAlive DEF Destroy, Exposed, Phase
  <2> QED
    BY <1>3, <2>1
    DEF Destroy, obsVars, netVars, Stream!Next, Stream!Vanish, Stream!outVars,
        Stream!inVars, DataSize
<1>4. CASE ConnectCanceled
  <2>1. ~Exposed /\ ~Exposed'
    BY <1>4 DEF ConnectCanceled, Exposed, IInv, AcceptedHasNoPromise
  <2>2. LifeUntouched /\ Uncounted
    BY <1>4, <2>1 DEF ConnectCanceled, LifeUntouched, Uncounted, Exposed, obsVars, netVars
  <2> QED  BY <2>2, Stutter
<1>5. CASE PreWrite
  <2>1. alive /\ connected /\ LifeUntouched
    BY <1>5 DEF PreWrite, PreWrites, LifeUntouched, Exposed
  <2>2. UNCHANGED <<reported, rst, shut, sentIn, inq, delivered>>
    BY <1>5 DEF PreWrite
  <2>3. CASE SendFails /\ sbuf' = Clear(sbuf) /\ wired' = wired
    <3>1. Phase = "open" /\ Phase' = "open"
      BY <2>1, PhaseOpen, PhaseUntouched
    <3>2. rst \/ "out" \in shut
      BY <2>1, <2>3 DEF SendFails, IInv, ConnectedIsWired
    <3>3. sbuf.tail' = sbuf.tail /\ DataSize(sbuf)' = 0
      BY <1>n, <2>3 DEF Clear, DataSize, SendBuffers
    <3> QED
      BY <2>2, <2>3, <3>1, <3>2, <3>3 DEF Stream!Next, Stream!Discard, Stream!inVars
  <2>4. CASE UNCHANGED <<sbuf, wired>>
    BY <2>1, <2>2, <2>4, Stutter DEF Uncounted
  <2>5. CASE \E n \in 1..SndCap : SendAccepts(n) /\ Wrote(n)
    <3>1. PICK n \in 1..SndCap : SendAccepts(n) /\ Wrote(n)
      BY <2>5
    <3>2. n \in Nat /\ wired' = wired + n /\ reported <= wired
      BY <3>1, StreamChannelAssumption DEF Wrote, CountedOnce, ReportedIsWired
    <3>3. reported' \in Nat /\ reported <= reported' /\ reported' <= wired'
      BY <1>n, <2>2, <3>2
    <3> QED  BY <2>1, <2>2, <3>1, <3>3, WriteStep DEF Stream!Next
  <2> QED  BY <1>5, <2>3, <2>4, <2>5 DEF PreWrite
<1>6. CASE FinishShutdown
  <2>1. LifeUntouched /\ alive
    BY <1>6 DEF FinishShutdown, LifeUntouched, Exposed, chanVars, obsVars
  <2>2. Phase # "gone" /\ Phase' = Phase
    BY <2>1, PhaseAlive, PhaseUntouched
  <2>3. /\ shut' = shut \cup how
        /\ UNCHANGED <<sbuf, wired, reported, rst, sentIn, inq, delivered>>
    BY <1>6 DEF FinishShutdown, KernelShutdown, chanVars, obsVars
  <2>4. CASE "out" \in shut'
    BY <2>2, <2>3, <2>4 DEF Stream!Next, Stream!ShutOutput, Stream!inVars, DataSize
  <2>5. CASE "out" \notin shut'
    BY <2>2, <2>3, <2>5 DEF Stream!vars, Stream!outVars, Stream!inVars, DataSize
  <2> QED  BY <2>4, <2>5
<1>7. CASE FinishClose
  <2>1. Exposed
    BY <1>7 DEF FinishClose, IInv, QuietUntilExposed
  <2>2. Exposed'
    BY <1>7, <2>1 DEF FinishClose, Closing, Exposed
  <2> QED  BY <1>7, <2>1, <2>2, EndOrStutter DEF FinishClose, Closing, netVars
<1> QED
  BY <1>1, <1>2, <1>3, <1>4, <1>5, <1>6, <1>7 DEF User, CallContinues

\* A stream channel is a byte stream, for all sizes of buffers and chunks: what
\* the user's callbacks do in the middle of a handler, an error in the middle of
\* a write or a close in the middle of a close shows as nothing but the steps a
\* byte stream may take.
THEOREM ChannelIsByteStream == Spec => ImplementsByteStream
<1>1. Init => Stream!Init /\ CountedOnce /\ BufferTidy /\ WritesOpen
  <2> SUFFICES ASSUME Init PROVE Stream!Init /\ CountedOnce /\ BufferTidy /\ WritesOpen
    OBVIOUS
  <2>1. CountedOnce /\ BufferTidy /\ WritesOpen
    BY NewIsSound
    DEF Init, NewSendBuffer, CountedOnce, ReportedIsWired, BufferTidy, WritesOpen
  <2>2. Phase \in {"new", "open"}
    BY DEF Init, Phase, Exposed
  <2>3. DataSize(sbuf) = 0 /\ sbuf.tail = 0
    BY DEF Init, NewSendBuffer, DataSize
  <2> QED  BY <2>1, <2>2, <2>3 DEF Init, Stream!Init
<1>2. IInv /\ CountedOnce /\ [Next]_vars => CountedOnce'
  <2>1. CountedOnce /\ UNCHANGED vars => CountedOnce'
    BY CountsUntouched DEF vars, ctlVars, obsVars
  <2> QED  BY <2>1, HandlerCounts, CallsCount, OthersCount DEF Next
<1>3. IInv /\ CountedOnce /\ BufferTidy /\ WritesOpen /\ [Next]_vars
        => [Stream!Next]_(Stream!vars)
  <2>1. UNCHANGED vars => UNCHANGED Stream!vars
    BY Stutter DEF vars, chanVars, obsVars, netVars, LifeUntouched, Uncounted, Exposed
  <2> QED  BY <2>1, EnvironmentStep, ConnectStep, HandlerStep, CallStep DEF Next
<1> QED
  BY <1>1, <1>2, <1>3, AlwaysGapFree, TidyKept, WritesOpenKept, PTL
  DEF Spec, ImplementsByteStream, Stream!Spec

-----------------------------------------------------------------------------
(* What follows from the promise of a byte stream alone, read in the state *)
(* of a channel by the refinement mapping.                                 *)

Counts ==
    /\ sbuf.tail \in Nat /\ DataSize(sbuf) \in Nat /\ wired \in Nat /\ reported \in Nat
    /\ sentIn \in Nat /\ inq \in Nat /\ delivered \in Nat

\* A new stream has had nothing to write yet.
NewIsEmpty == Phase = "new" => sbuf.tail = 0 /\ DataSize(sbuf) = 0 /\ wired = 0

SInv == Counts /\ NewIsEmpty /\ Stream!WritesPrefix /\ Stream!NothingInvented

LEMMA StreamKeeps == SInv /\ [Stream!Next]_(Stream!vars) => SInv'
<1> SUFFICES ASSUME SInv, [Stream!Next]_(Stream!vars) PROVE SInv'
  OBVIOUS
<1> USE DEF SInv, Counts, NewIsEmpty, Stream!WritesPrefix, Stream!NothingInvented,
            Stream!outVars, Stream!inVars
<1>1. CASE UNCHANGED Stream!vars
  BY <1>1 DEF Stream!vars
<1>2. CASE Stream!Open \/ Stream!SayClosed \/ Stream!Vanish \/ Stream!ShutOutput
  BY <1>2 DEF Stream!Open, Stream!SayClosed, Stream!Vanish, Stream!ShutOutput
<1>3. CASE Stream!Reset \/ Stream!Report
  BY <1>3 DEF Stream!Reset, Stream!Report
<1>4. CASE Stream!Discard \/ Stream!End
  BY <1>4 DEF Stream!Discard, Stream!End
<1>5. CASE Stream!Send
  <2>1. PICK n \in 1 .. (sbuf'.tail - sbuf.tail) :
          sbuf'.tail = sbuf.tail + n /\ DataSize(sbuf)' = DataSize(sbuf) + n
    BY <1>5 DEF Stream!Send
  <2>2. n \in Nat
    OBVIOUS
  <2> QED  BY <1>5, <2>1, <2>2 DEF Stream!Send
<1>6. CASE Stream!Write
  <2>1. PICK n \in 1 .. DataSize(sbuf) :
          wired' = wired + n /\ DataSize(sbuf)' = DataSize(sbuf) - n
    BY <1>6 DEF Stream!Write
  <2> QED  BY <1>6, <2>1 DEF Stream!Write
<1>7. CASE Stream!Arrive
  <2>1. PICK n \in 1 .. (sentIn' - sentIn) : sentIn' = sentIn + n /\ inq' = inq + n
    BY <1>7 DEF Stream!Arrive
  <2>2. n \in Nat
    OBVIOUS
  <2> QED  BY <1>7, <2>1, <2>2 DEF Stream!Arrive
<1>8. CASE Stream!Deliver
  <2>1. PICK n \in 1 .. inq : inq' = inq - n /\ delivered' = delivered + n
    BY <1>8 DEF Stream!Deliver
  <2> QED  BY <1>8, <2>1 DEF Stream!Deliver
<1> QED
  BY <1>1, <1>2, <1>3, <1>4, <1>5, <1>6, <1>7, <1>8 DEF Stream!Next

\* What a byte stream has written is a prefix of what was sent, all of it unless
\* it is still buffered, as long as it is open and its output lasts; reports
\* never exceed what was written, nor deliveries what has arrived.
THEOREM StreamPromises ==
    Stream!Spec => [](Stream!WritesPrefix /\ Stream!NothingInvented)
<1>1. Stream!Init => SInv
  BY DEF Stream!Init, SInv, Counts, NewIsEmpty, Stream!WritesPrefix, Stream!NothingInvented
<1>2. SInv => Stream!WritesPrefix /\ Stream!NothingInvented
  BY DEF SInv
<1> QED  BY <1>1, <1>2, StreamKeeps, PTL DEF Stream!Spec

\* So it holds of a channel: its wire carries a prefix of what was sent, and
\* nothing is reported or delivered before its time.
THEOREM ChannelWritesPrefix == Spec => [](Stream!WritesPrefix /\ Stream!NothingInvented)
<1> QED  BY ChannelIsByteStream, StreamPromises, PTL DEF ImplementsByteStream

-----------------------------------------------------------------------------
(* The edges of the poll: the end of the input.                            *)

\* A channel nobody holds yet has nothing to show for it.
Fresh ==
    alive /\ ~Exposed => /\ last = {} /\ granula = 0 /\ outq = 0
                         /\ promise = "null" => link = "down"

\* A reset drops the unread bytes and sets SO_ERROR, and nothing arrives before
\* the connection is up.
Wires == /\ rst => inq = 0
         /\ soErr => rst
         /\ link # "up" => inq = 0
         /\ outq <= SndCap

FailedIsOver == pc \in {"failed", "closed"} => ~connected

\* Only callbacks and the idle loop let the user call.
CallsFromOutside == op # "none" => pc \in CallbackPcs \cup {"idle"}

Live == alive /\ connected

\* The end of the input is reported once more or known; known ends close the
\* channel before the handler comes to rest, and are ends.
EndNoticed  == Live /\ InputEnded => edge \/ "eof" \in last
RestIsOpen  == Live /\ pc = "idle" => "eof" \notin last
EofMeansEnd == Live /\ "eof" \in last => InputEnded

Ground == /\ Fresh /\ Wires /\ FailedIsOver /\ CallsFromOutside
          /\ granula \in Granulas \cup {0}
          /\ EndNoticed /\ RestIsOpen /\ EofMeansEnd

\* None of this refers to what is read or written.
LEMMA GroundKept ==
    ASSUME IInv, Ground, [Next]_vars
    PROVE  Ground'
<1>0. /\ inq \in Nat /\ outq \in Nat /\ SndCap \in Nat \ {0}
      /\ edge \in BOOLEAN /\ kick \in BOOLEAN /\ nospace \in BOOLEAN /\ stalled \in BOOLEAN
      /\ QuietUntilExposed /\ ConnectedIsWired /\ ConnectingIsPending /\ AcceptedHasNoPromise
  BY StreamChannelAssumption DEF IInv, TypeOK, SockTypeOK, DataTypeOK, NetTypeOK
<1> USE <1>0 DEF QuietUntilExposed, ConnectedIsWired, ConnectingIsPending, AcceptedHasNoPromise,
            Ground, Fresh, Wires, FailedIsOver, CallsFromOutside, EndNoticed, RestIsOpen,
            EofMeansEnd, Live, Exposed, InputEnded, UnsubscribedUnlessClose, Unsubscribed,
            KeepsSocket
<1>1. CASE ConnectFails
  BY <1>1 DEF ConnectFails, Dialing, ctlVars, obsVars, netVars, pollVars
<1>2. CASE ConnectSucceedsAtOnce
  BY <1>2 DEF ConnectSucceedsAtOnce, Dialing, ctlVars, obsVars
<1>3. CASE ConnectStarts
  BY <1>3 DEF ConnectStarts, Dialing, ctlVars, obsVars, pollVars
<1>4. CASE ConnectSockReady
  BY <1>4 DEF ConnectSockReady, AtRest, Level, ctlVars, obsVars, netVars
<1>5. CASE ClientDrops
  BY <1>5 DEF ClientDrops, ctlVars, obsVars, netVars
<1>6. CASE ConnectedSockReady
  BY <1>6 DEF ConnectedSockReady, AtRest, Fired, Level, netVars
<1>7. CASE LoopFails
  BY <1>7 DEF LoopFails, Running, Failing
<1>8. CASE LoopCloses
  BY <1>8 DEF LoopCloses, Running, Closing, netVars
<1>9. CASE LoopProceeds
  BY <1>9 DEF LoopProceeds, Running, chanVars, obsVars, netVars, pollVars
<1>10. CASE WriteFails
  BY <1>10 DEF WriteFails, Running, Failing
<1>11. CASE WriteWouldBlock
  BY <1>11 DEF WriteWouldBlock, Running, WriteDone, SendWouldBlock, pollVars
<1>12. CASE WriteSome
  BY <1>12 DEF WriteSome, Running, Wrote, WriteDone, SendAccepts, pollVars
<1>13. CASE StartRead
  BY <1>13 DEF StartRead, Running, chanVars, obsVars, netVars, pollVars
<1>14. CASE ReadDone
  BY <1>14 DEF ReadDone, Running, ReadWouldBlock, obsVars, netVars, pollVars
<1>15. CASE ReadError
  BY <1>15 DEF ReadError, Running, ReadFails, Failing, obsVars, pollVars
<1>16. CASE ReadZero
  BY <1>16 DEF ReadZero, Running, ReadIsZero, obsVars, netVars, pollVars
<1>17. CASE ReadSome
  BY <1>17 DEF ReadSome, Running, Readable, chanVars, pollVars
<1>18. CASE TailCloses
  BY <1>18 DEF TailCloses, Running, Closing, netVars
<1>19. CASE TailLoops
  BY <1>19 DEF TailLoops, Running, chanVars, obsVars, netVars, pollVars
<1>20. CASE CallbackReturns
  BY <1>20 DEF CallbackReturns, CallbackPcs, chanVars, netVars, pollVars
<1>21. CASE UserSend
  BY <1>21 DEF UserSend, MayCall, ctlVars, obsVars, netVars
<1>22. CASE UserSetReceiveGranula
  BY <1>22 DEF UserSetReceiveGranula, MayCall, ctlVars, obsVars, netVars
<1>23. CASE UserShutdown
  BY <1>23 DEF UserShutdown, MayCall, obsVars, netVars, pollVars
<1>24. CASE UserClose
  BY <1>24 DEF UserClose, MayCall, chanVars, obsVars, netVars, pollVars
<1>25. CASE Destroy
  BY <1>25 DEF Destroy, ctlVars, obsVars, netVars
<1>26. CASE ConnectCanceled
  BY <1>26 DEF ConnectCanceled, ctlVars, obsVars, netVars
<1>27. CASE PreWrite
  BY <1>27 DEF PreWrite, PreWrites, SendFails, Wrote, SendAccepts, ctlVars, pollVars
<1>28. CASE FinishShutdown
  <2>1. /\ shut' = shut \cup how /\ edge' = (edge \/ "in" \in how) /\ op' = "none"
        /\ UNCHANGED <<alive, chanVars, pc, link, inq, outq, fin, rst, soErr, nospace>>
    BY <1>28 DEF FinishShutdown, KernelShutdown
  <2>2. InputEnded' => InputEnded \/ "in" \in how
    BY <2>1
  <2>3. InputEnded => InputEnded'
    BY <2>1
  <2>4. EndNoticed' /\ EofMeansEnd'
    BY <2>1, <2>2, <2>3, Zenon DEF chanVars
  <2> HIDE DEF EndNoticed, EofMeansEnd, InputEnded
  <2> QED  BY <2>1, <2>4 DEF chanVars
<1>29. CASE FinishClose
  BY <1>29 DEF FinishClose, Closing, netVars
<1>30. CASE ConnectUp
  BY <1>30 DEF ConnectUp, chanVars, ctlVars, obsVars
<1>31. CASE ConnectRefused
  BY <1>31 DEF ConnectRefused, chanVars, ctlVars, obsVars
<1>32. CASE PeerSends
  BY <1>32 DEF PeerSends, Online, chanVars, ctlVars, obsVars
<1>33. CASE PeerTakes
  BY <1>33 DEF PeerTakes, Online, chanVars, ctlVars, obsVars
<1>34. CASE PeerCloses
  BY <1>34 DEF PeerCloses, Online, chanVars, ctlVars, obsVars
<1>35. CASE PeerResets
  BY <1>35 DEF PeerResets, Online, chanVars, ctlVars, obsVars
<1>36. CASE UNCHANGED vars
  BY <1>36 DEF vars, chanVars, ctlVars, obsVars, netVars, pollVars
<1> QED
  BY <1>1, <1>2, <1>3, <1>4, <1>5, <1>6, <1>7, <1>8, <1>9, <1>10, <1>11, <1>12, <1>13, <1>14,
     <1>15, <1>16, <1>17, <1>18, <1>19, <1>20, <1>21, <1>22, <1>23, <1>24, <1>25, <1>26, <1>27,
     <1>28, <1>29, <1>30, <1>31, <1>32, <1>33, <1>34, <1>35, <1>36
  DEF Next, Connecting, Handler, User, CallContinues, Environment

-----------------------------------------------------------------------------
(* The edges of the poll: unread bytes.  The granula of one whole chunk is *)
(* left out here: a read limited to it stores nothing and looks like the   *)
(* end of the input (ZeroReadMeansEnd).                                    *)

\* Unread bytes are announced by an edge to come or remembered in the flag.
ReadFlagged == Live /\ inq > 0 => edge \/ "read" \in last

\* A handler that has left doRead, and rests, has left no bytes to a receiving
\* user without another call to come.
ReadDue == Live /\ inq > 0 /\ granula > 0 /\ pc \in {"idle", "tail"} => edge \/ kick

Orderly == ~rst /\ "in" \notin shut

\* After the end of an orderly input every unread byte is remembered, and a
\* receiving user has had them all when doRead is left.
EofKeepsRead == Live /\ Orderly /\ "eof" \in last /\ inq > 0 => "read" \in last
TailDrained  == Live /\ Orderly /\ "eof" \in last /\ granula > 0 /\ pc = "tail" => inq = 0

\* The descriptor that close() leaves open because of a close flag has nothing
\* to read any more, unless the user shut the input down itself.
Drained == "in" \in shut \/ (inq = 0 /\ (fin \/ rst))
LeftOpenIsDrained ==
    Exposed /\ sock = "open" /\ (~connected \/ "close" \in last) => Drained

ReadInv == /\ ReadFlagged /\ ReadDue /\ EofKeepsRead /\ TailDrained
           /\ LeftOpenIsDrained

\* A read that returns nothing has met the end of the input: the flag it raises
\* is what TailDrained is about, and the close flag what LeftOpenIsDrained is.
LEMMA ReadInvKept ==
    ASSUME BufSize \notin Granulas, IInv, Ground, WritesOpen, ReadInv, [Next]_vars
    PROVE  ReadInv'
<1>0. /\ inq \in Nat /\ outq \in Nat /\ SndCap \in Nat \ {0} /\ MaxIn \in Nat
      /\ Granulas \subseteq Nat
      /\ edge \in BOOLEAN /\ kick \in BOOLEAN /\ nospace \in BOOLEAN
      /\ QuietUntilExposed /\ ConnectedIsWired /\ ConnectingIsPending /\ AcceptedHasNoPromise
  BY StreamChannelAssumption DEF IInv, TypeOK, SockTypeOK, DataTypeOK, NetTypeOK
<1>r. ReadLoops /\ Ground => Capacity(granula) > 0
  BY <1>0, RoomForGranulas DEF ReadLoops, Ground
<1> USE <1>0, <1>r DEF QuietUntilExposed, ConnectedIsWired, ConnectingIsPending,
            AcceptedHasNoPromise, ReadInv, ReadFlagged, ReadDue, Orderly, EofKeepsRead,
            TailDrained, Drained, LeftOpenIsDrained, Ground, Fresh, Wires, FailedIsOver,
            CallsFromOutside, EndNoticed, RestIsOpen, EofMeansEnd, Live, Exposed, InputEnded,
            UnsubscribedUnlessClose, Unsubscribed, KeepsSocket, Flags, ReadLoops, WritesOpen
<1>1. CASE ConnectFails
  BY <1>1 DEF ConnectFails, Dialing, ctlVars, obsVars, netVars, pollVars
<1>2. CASE ConnectSucceedsAtOnce
  BY <1>2 DEF ConnectSucceedsAtOnce, Dialing, ctlVars, obsVars
<1>3. CASE ConnectStarts
  BY <1>3 DEF ConnectStarts, Dialing, ctlVars, obsVars, pollVars
<1>4. CASE ConnectSockReady
  BY <1>4 DEF ConnectSockReady, AtRest, Level, ctlVars, obsVars, netVars
<1>5. CASE ClientDrops
  BY <1>5 DEF ClientDrops, ctlVars, obsVars, netVars
<1>6. CASE ConnectedSockReady
  BY <1>6 DEF ConnectedSockReady, AtRest, Fired, Level, netVars
<1>7. CASE LoopFails
  BY <1>7 DEF LoopFails, Running, Failing
<1>8. CASE LoopCloses
  BY <1>8 DEF LoopCloses, Running, Closing, netVars
<1>9. CASE LoopProceeds
  BY <1>9 DEF LoopProceeds, Running, chanVars, obsVars, netVars, pollVars
<1>10. CASE WriteFails
  BY <1>10 DEF WriteFails, Running, Failing
<1>11. CASE WriteWouldBlock
  BY <1>11 DEF WriteWouldBlock, Running, WriteDone, SendWouldBlock, pollVars
<1>12. CASE WriteSome
  BY <1>12 DEF WriteSome, Running, Wrote, WriteDone, SendAccepts, pollVars
<1>13. CASE StartRead
  BY <1>13 DEF StartRead, Running, chanVars, obsVars, netVars, pollVars
<1>14. CASE ReadDone
  BY <1>14 DEF ReadDone, Running, ReadWouldBlock, obsVars, netVars, pollVars
<1>15. CASE ReadError
  BY <1>15 DEF ReadError, Running, ReadFails, Failing, obsVars, pollVars
<1>16. CASE ReadZero
  BY <1>16 DEF ReadZero, Running, ReadIsZero, obsVars, netVars, pollVars
<1>17. CASE ReadSome
  BY <1>17 DEF ReadSome, Running, Readable, chanVars, pollVars
<1>18. CASE TailCloses
  BY <1>18 DEF TailCloses, Running, Closing, netVars
<1>19. CASE TailLoops
  BY <1>19 DEF TailLoops, Running, chanVars, obsVars, netVars, pollVars
<1>20. CASE CallbackReturns
  BY <1>20 DEF CallbackReturns, CallbackPcs, chanVars, netVars, pollVars
<1>21. CASE UserSend
  BY <1>21 DEF UserSend, MayCall, ctlVars, obsVars, netVars
<1>22. CASE UserSetReceiveGranula
  <2>1. PICK g \in Granulas :
          /\ granula' = g
          /\ kick' = (kick \/ (connected /\ granula = 0 /\ g > 0 /\ "read" \in last))
    BY <1>22 DEF UserSetReceiveGranula
  <2>2. pc # "tail" /\ UNCHANGED <<alive, origin, sock, promise, connected, last, pc, inq,
                                  fin, rst, shut, edge>>
    BY <1>22 DEF UserSetReceiveGranula, MayCall, CallbackPcs, ctlVars, netVars
  <2>3. ReadDue'
    <3> SUFFICES ASSUME Live', inq > 0, g > 0, pc = "idle", ~edge PROVE kick'
      BY <2>1, <2>2
    <3>1. "read" \in last /\ connected
      BY <2>2
    <3>2. CASE granula = 0
      BY <2>1, <3>1, <3>2
    <3>3. CASE granula # 0
      BY <2>1, <2>2, <3>3
    <3> QED  BY <3>2, <3>3
  <2> QED  BY <2>2, <2>3
<1>23. CASE UserShutdown
  BY <1>23 DEF UserShutdown, MayCall, obsVars, netVars, pollVars
<1>24. CASE UserClose
  BY <1>24 DEF UserClose, MayCall, chanVars, obsVars, netVars, pollVars
<1>25. CASE Destroy
  BY <1>25 DEF Destroy, ctlVars, obsVars, netVars
<1>26. CASE ConnectCanceled
  BY <1>26 DEF ConnectCanceled, ctlVars, obsVars, netVars
<1>27. CASE PreWrite
  BY <1>27 DEF PreWrite, PreWrites, SendFails, Wrote, SendAccepts, ctlVars, pollVars
<1>28. CASE FinishShutdown
  BY <1>28 DEF FinishShutdown, KernelShutdown, chanVars, obsVars
<1>29. CASE FinishClose
  <2>1. ~connected' /\ last' = {"close"} /\ UNCHANGED <<alive, origin, inq, fin, rst, shut>>
    BY <1>29 DEF FinishClose, Closing, netVars
  <2>2. Exposed' => Exposed
    BY <1>29 DEF FinishClose, Closing
  <2>3. sock' = "open" => sock = "open" /\ "close" \in last
    BY <1>29 DEF FinishClose, Closing
  <2> QED  BY <2>1, <2>2, <2>3
<1>30. CASE ConnectUp
  BY <1>30 DEF ConnectUp, chanVars, ctlVars, obsVars
<1>31. CASE ConnectRefused
  BY <1>31 DEF ConnectRefused, chanVars, ctlVars, obsVars
<1>32. CASE PeerSends
  BY <1>32 DEF PeerSends, Online, chanVars, ctlVars, obsVars
<1>33. CASE PeerTakes
  BY <1>33 DEF PeerTakes, Online, chanVars, ctlVars, obsVars
<1>34. CASE PeerCloses
  BY <1>34 DEF PeerCloses, Online, chanVars, ctlVars, obsVars
<1>35. CASE PeerResets
  BY <1>35 DEF PeerResets, Online, chanVars, ctlVars, obsVars
<1>36. CASE UNCHANGED vars
  BY <1>36 DEF vars, chanVars, ctlVars, obsVars, netVars, pollVars
<1> QED
  BY <1>1, <1>2, <1>3, <1>4, <1>5, <1>6, <1>7, <1>8, <1>9, <1>10, <1>11, <1>12, <1>13, <1>14,
     <1>15, <1>16, <1>17, <1>18, <1>19, <1>20, <1>21, <1>22, <1>23, <1>24, <1>25, <1>26, <1>27,
     <1>28, <1>29, <1>30, <1>31, <1>32, <1>33, <1>34, <1>35, <1>36
  DEF Next, Connecting, Handler, User, CallContinues, Environment

-----------------------------------------------------------------------------
(* The edges of the poll: unsent bytes.                                    *)

\* doWrite will be called, or the end of the channel is known.
WriteAwaited == edge \/ nospace \/ stalled \/ "eof" \in last

\* A full kernel buffer that took the write flag has promised an edge.
FullIsPromised ==
    Live /\ outq = SndCap /\ ~rst /\ "out" \notin shut
        => "write" \in last \/ nospace \/ stalled

WriteFlagged == Live /\ "out" \notin shut => "write" \in last \/ WriteAwaited

\* The user is not in the writes before a close of the output.
NotPreClosing == op # "close" /\ ~(op = "shutdown" /\ "out" \in how)

\* A handler past doWrite, and a channel at rest, have left no data without
\* another call to come.
WriteDue ==
    Live /\ DataSize(sbuf) > 0 /\ "out" \notin shut /\ pc \notin {"loop", "write"}
         /\ NotPreClosing
        => kick \/ WriteAwaited

WritesFlagged == pc = "write" => "write" \in last

WriteInv == /\ FullIsPromised /\ WriteFlagged /\ WriteDue /\ WritesFlagged

\* Whatever takes the write flag has something else to call doWrite by; an empty
\* iovec array means that there is no data.
LEMMA WriteInvKept ==
    ASSUME IInv, Ground, BufferTidy, BufferTidy', WriteInv, [Next]_vars
    PROVE  WriteInv'
<1>0. /\ ret \in {"doRead", "tail", "idle"} /\ outq \in Nat
      /\ SndCap \in Nat \ {0} /\ sbuf \in SendBuffers
      /\ edge \in BOOLEAN /\ kick \in BOOLEAN /\ nospace \in BOOLEAN /\ stalled \in BOOLEAN
      /\ QuietUntilExposed /\ ConnectedIsWired /\ ConnectingIsPending /\ AcceptedHasNoPromise
  BY StreamChannelAssumption DEF IInv, TypeOK, SockTypeOK, DataTypeOK, ControlTypeOK, NetTypeOK
<1>s. /\ IsEmpty(sbuf) => DataSize(sbuf) = 0
      /\ IsEmpty(sbuf)' => DataSize(sbuf)' = 0
      /\ DataSize(Clear(sbuf)) = 0
  BY <1>0, EmptyMeansNoData DEF BufferTidy, Clear, DataSize, SendBuffers
<1>n. ~connected => DataSize(sbuf) = 0
  BY <1>0 DEF BufferTidy, DataSize, SendBuffers
<1> USE <1>0, <1>s, <1>n DEF QuietUntilExposed, ConnectedIsWired, ConnectingIsPending,
            AcceptedHasNoPromise, WriteInv, WriteAwaited, FullIsPromised, WriteFlagged,
            NotPreClosing, WriteDue, WritesFlagged, Ground, Fresh, Wires, FailedIsOver,
            CallsFromOutside, EndNoticed, RestIsOpen, EofMeansEnd, Live, Exposed, InputEnded,
            UnsubscribedUnlessClose, Unsubscribed, KeepsSocket, WriteReady, WriteReadyNext,
            Flags
<1>1. CASE ConnectFails
  BY <1>1 DEF ConnectFails, Dialing, ctlVars, obsVars, netVars, pollVars
<1>2. CASE ConnectSucceedsAtOnce
  BY <1>2 DEF ConnectSucceedsAtOnce, Dialing, ctlVars, obsVars
<1>3. CASE ConnectStarts
  BY <1>3 DEF ConnectStarts, Dialing, ctlVars, obsVars, pollVars
<1>4. CASE ConnectSockReady
  <2>1. CASE connected' = connected
    BY <1>4, <2>1 DEF ConnectSockReady, AtRest, Level, ctlVars, obsVars, netVars
  <2>2. CASE connected' # connected
    <3>1. /\ last' = last \cup Level /\ alive /\ ~Exposed /\ Level \cap {"error", "eof"} = {}
          /\ UNCHANGED <<alive, sbuf, ctlVars, obsVars, netVars>>
      BY <1>4, <2>2 DEF ConnectSockReady
    <3>2. "write" \in last'
      BY <3>1 DEF Level
    <3>3. DataSize(sbuf)' = 0
      BY <3>1 DEF DataSize
    <3> QED  BY <3>1, <3>2, <3>3 DEF ctlVars, obsVars, netVars
  <2> QED  BY <2>1, <2>2
<1>5. CASE ClientDrops
  BY <1>5 DEF ClientDrops, ctlVars, obsVars, netVars
<1>6. CASE ConnectedSockReady
  BY <1>6 DEF ConnectedSockReady, AtRest, Fired, Level, netVars
<1>7. CASE LoopFails
  BY <1>7 DEF LoopFails, Running, Failing
<1>8. CASE LoopCloses
  BY <1>8 DEF LoopCloses, Running, Closing, netVars
<1>9. CASE LoopProceeds
  BY <1>9 DEF LoopProceeds, Running, chanVars, obsVars, netVars, pollVars
<1>10. CASE WriteFails
  BY <1>10 DEF WriteFails, Running, Failing
<1>11. CASE WriteWouldBlock
  BY <1>11 DEF WriteWouldBlock, Running, WriteDone, SendWouldBlock, pollVars
<1>12. CASE WriteSome
  <2>1. PICK n \in 1..SndCap : SendAccepts(n) /\ Wrote(n)
    BY <1>12 DEF WriteSome
  <2>2. /\ Running("write") /\ "write" \in last
        /\ UNCHANGED <<alive, connected, promise, origin, rst, shut, edge, kick, op, how>>
    BY <1>12 DEF WriteSome, Running, pollVars
  <2>3. "write" \in last' \/ nospace' \/ stalled'
    BY <2>1, <2>2 DEF Wrote
  <2>4. \/ pc' = "write" /\ "write" \in last'
        \/ pc' # "write" /\ ("write" \notin last' \/ IsEmpty(sbuf)')
    BY <1>12, <2>1, <2>2 DEF WriteSome, WriteDone, Running
  <2> QED  BY <2>2, <2>3, <2>4
<1>13. CASE StartRead
  BY <1>13 DEF StartRead, Running, chanVars, obsVars, netVars, pollVars
<1>14. CASE ReadDone
  BY <1>14 DEF ReadDone, Running, ReadWouldBlock, obsVars, netVars, pollVars
<1>15. CASE ReadError
  BY <1>15 DEF ReadError, Running, ReadFails, Failing, obsVars, pollVars
<1>16. CASE ReadZero
  BY <1>16 DEF ReadZero, Running, ReadIsZero, obsVars, netVars, pollVars
<1>17. CASE ReadSome
  BY <1>17 DEF ReadSome, Running, Readable, chanVars, pollVars
<1>18. CASE TailCloses
  BY <1>18 DEF TailCloses, Running, Closing, netVars
<1>19. CASE TailLoops
  BY <1>19 DEF TailLoops, Running, chanVars, obsVars, netVars, pollVars
<1>20. CASE CallbackReturns
  BY <1>20 DEF CallbackReturns, CallbackPcs, chanVars, netVars, pollVars
<1>21. CASE UserSend
  BY <1>21 DEF UserSend, MayCall, ctlVars, obsVars, netVars
<1>22. CASE UserSetReceiveGranula
  BY <1>22 DEF UserSetReceiveGranula, MayCall, ctlVars, obsVars, netVars
<1>23. CASE UserShutdown
  BY <1>23 DEF UserShutdown, MayCall, obsVars, netVars, pollVars
<1>24. CASE UserClose
  BY <1>24 DEF UserClose, MayCall, chanVars, obsVars, netVars, pollVars
<1>25. CASE Destroy
  BY <1>25 DEF Destroy, ctlVars, obsVars, netVars
<1>26. CASE ConnectCanceled
  BY <1>26 DEF ConnectCanceled, ctlVars, obsVars, netVars
<1>27. CASE PreWrite
  <2>1. pc' = pc /\ pc # "write" /\ ~NotPreClosing'
    BY <1>27 DEF PreWrite, PreWrites, CallbackPcs, ctlVars
  <2>2. CASE SendFails /\ nospace' = nospace /\ stalled' = stalled
    <3>1. Live /\ "out" \notin shut => rst
      BY <2>2 DEF SendFails
    <3> QED  BY <1>27, <2>1, <2>2, <3>1 DEF PreWrite, PreWrites, Wrote, pollVars
  <2>3. CASE nospace'
    BY <1>27, <2>1, <2>3 DEF PreWrite, pollVars
  <2>4. CASE \E n \in 1..SndCap : SendAccepts(n) /\ Wrote(n)
    BY <1>27, <2>1, <2>4 DEF PreWrite, PreWrites, Wrote, pollVars
  <2> QED  BY <1>27, <2>2, <2>3, <2>4 DEF PreWrite
<1>28. CASE FinishShutdown
  BY <1>28 DEF FinishShutdown, KernelShutdown, chanVars, obsVars
<1>29. CASE FinishClose
  <2>1. ~connected' /\ pc' = pc /\ pc # "write"
    BY <1>29 DEF FinishClose, Closing, CallbackPcs
  <2> QED  BY <2>1
<1>30. CASE ConnectUp
  BY <1>30 DEF ConnectUp, chanVars, ctlVars, obsVars
<1>31. CASE ConnectRefused
  BY <1>31 DEF ConnectRefused, chanVars, ctlVars, obsVars
<1>32. CASE PeerSends
  BY <1>32 DEF PeerSends, Online, chanVars, ctlVars, obsVars
<1>33. CASE PeerTakes
  BY <1>33 DEF PeerTakes, Online, chanVars, ctlVars, obsVars
<1>34. CASE PeerCloses
  BY <1>34 DEF PeerCloses, Online, chanVars, ctlVars, obsVars
<1>35. CASE PeerResets
  BY <1>35 DEF PeerResets, Online, chanVars, ctlVars, obsVars
<1>36. CASE UNCHANGED vars
  BY <1>36 DEF vars, chanVars, ctlVars, obsVars, netVars, pollVars
<1> QED
  BY <1>1, <1>2, <1>3, <1>4, <1>5, <1>6, <1>7, <1>8, <1>9, <1>10, <1>11, <1>12, <1>13, <1>14,
     <1>15, <1>16, <1>17, <1>18, <1>19, <1>20, <1>21, <1>22, <1>23, <1>24, <1>25, <1>26, <1>27,
     <1>28, <1>29, <1>30, <1>31, <1>32, <1>33, <1>34, <1>35, <1>36
  DEF Next, Connecting, Handler, User, CallContinues, Environment

-----------------------------------------------------------------------------
(* The theorems about edges.                                               *)

Steady == IInv /\ Ground /\ BufferTidy /\ WritesOpen

LEMMA InitEdges == Init => Ground /\ BufferTidy /\ WritesOpen /\ ReadInv /\ WriteInv
<1> SUFFICES ASSUME Init PROVE Ground /\ BufferTidy /\ WritesOpen /\ ReadInv /\ WriteInv
  OBVIOUS
<1>1. BufferTidy /\ WritesOpen
  BY NewIsSound DEF Init, BufferTidy, WritesOpen, NewSendBuffer
<1>2. Ground
  <2>1. ~InputEnded /\ last = {} /\ pc = "idle" /\ op = "none" /\ granula = 0
    BY DEF Init, InputEnded
  <2>2. Wires
    BY StreamChannelAssumption DEF Init, Wires
  <2>3. Fresh
    <3>1. CASE origin = "accept"
      BY <3>1 DEF Init, Fresh, Exposed
    <3>2. CASE origin = "connect"
      <4>1. connected = FALSE
        BY <3>2 DEF Init
      <4> QED  BY <4>1 DEF Init, Fresh
    <3> QED  BY <3>1, <3>2 DEF Init
  <2> QED
    BY <2>1, <2>2, <2>3 DEF Ground, FailedIsOver, CallsFromOutside, EndNoticed, RestIsOpen,
      EofMeansEnd
<1>3. ReadInv
  BY DEF Init, ReadInv, ReadFlagged, ReadDue, EofKeepsRead, TailDrained,
         LeftOpenIsDrained, Live, Exposed
<1>4. WriteInv
  BY StreamChannelAssumption
  DEF Init, WriteInv, FullIsPromised, WriteFlagged, WriteDue, WritesFlagged,
         WriteAwaited, Live, DataSize, NewSendBuffer
<1> QED  BY <1>1, <1>2, <1>3, <1>4

LEMMA AlwaysSteady == Spec => []Steady
<1>1. Init => Ground /\ BufferTidy /\ WritesOpen
  BY InitEdges
<1>2. IInv /\ Ground /\ [Next]_vars => Ground'
  BY GroundKept
<1> QED  BY <1>1, <1>2, AlwaysGapFree, TidyKept, WritesOpenKept, PTL DEF Spec, Steady

LEMMA AlwaysReadInv == ASSUME BufSize \notin Granulas PROVE Spec => []ReadInv
<1>1. Init => ReadInv
  BY InitEdges
<1>2. Steady /\ ReadInv /\ [Next]_vars => ReadInv'
  BY ReadInvKept DEF Steady
<1> QED  BY <1>1, <1>2, AlwaysSteady, PTL DEF Spec

\* Output: the write flag, an edge to come, the kernel's promise of one or
\* emitReady is there for every byte left, or doWrite gave the flag up.
THEOREM WriteEdgeKept == Spec => []NoLostWriteEdge
<1>1. Init => WriteInv
  BY InitEdges
<1>2. Steady /\ Steady' /\ WriteInv /\ [Next]_vars => WriteInv'
  BY WriteInvKept DEF Steady
<1>3. Steady /\ WriteInv => NoLostWriteEdge
  BY DEF Steady, Ground, RestIsOpen, WriteInv, WriteFlagged, WriteDue, WriteAwaited,
         NotPreClosing, Live, AtRest, NoLostWriteEdge
<1> QED  BY <1>1, <1>2, <1>3, AlwaysSteady, PTL DEF Spec

\* Input: a receiving channel at rest is called again for what it has not read,
\* for every granula but the size of one chunk.
THEOREM ReadEdgeKept == ASSUME BufSize \notin Granulas PROVE Spec => []NoLostReadEdge
<1>1. ReadInv => NoLostReadEdge
  BY DEF ReadInv, ReadFlagged, ReadDue, Live, AtRest, NoLostReadEdge
<1> QED  BY <1>1, AlwaysReadInv, PTL

\* With these granulas a readv that returns 0 does mean that the peer closed, as
\* doRead takes it to.
THEOREM ZeroReadIsEnd == ASSUME BufSize \notin Granulas PROVE Spec => ZeroReadMeansEnd
<1>1. Steady /\ ReadZero => InputEnded
  <2> SUFFICES ASSUME Steady, ReadZero PROVE InputEnded
    OBVIOUS
  <2>1. granula \in Granulas /\ granula \in Nat \ {0}
    BY DEF Steady, Ground, IInv, TypeOK, DataTypeOK, ReadZero, ReadLoops
  <2>2. Capacity(granula) > 0
    BY <2>1, RoomForGranulas
  <2> QED  BY <2>1, <2>2 DEF ReadZero, ReadIsZero
<1> QED  BY <1>1, AlwaysSteady, PTL DEF Spec, ZeroReadMeansEnd

\* After closed no received and no sended follow, unless the user shut the
\* input down: the handlers that go on find the connection gone, the descriptor
\* closed, or left open with nothing to read.
THEOREM SilentOnceClosed == ASSUME BufSize \notin Granulas PROVE Spec => SilentAfterClosed
<1>1. ASSUME Steady, ReadInv, [Next]_vars,
             pc' # pc, pc' \in {"received", "sended"}, "in" \notin shut
      PROVE  nClosed = 0
  <2>0. /\ nClosed \in Nat /\ inq \in Nat /\ ret \in {"doRead", "tail", "idle"}
        /\ MaxIn \in Nat
    BY <1>1, StreamChannelAssumption
    DEF Steady, IInv, TypeOK, DataTypeOK, ControlTypeOK, NetTypeOK
  <2>1. Exposed /\ connected => nClosed = 0
    BY <1>1, <2>0 DEF Steady, IInv, ClosedOnce, Owed
  <2>2. Handler
    BY <1>1 DEF Next, Connecting, ConnectFails, ConnectSucceedsAtOnce, ConnectStarts,
      ConnectSockReady, ClientDrops, User, UserSend, UserSetReceiveGranula, UserShutdown,
      UserClose, Destroy, ConnectCanceled, CallContinues, PreWrite, FinishShutdown,
      FinishClose, Environment, ConnectUp, ConnectRefused, PeerSends, PeerTakes,
      PeerCloses, PeerResets, vars, ctlVars
  <2>3. Exposed
    BY <1>1, <2>2, HandlerExposed DEF Steady
  <2>4. CASE WriteWouldBlock \/ WriteSome
    BY <1>1, <2>1, <2>3, <2>4 DEF WriteWouldBlock, WriteSome, Running, Steady, WritesOpen
  <2>5. CASE ReadSome
    <3>1. sock = "open" /\ inq > 0
      BY <2>0, <2>5 DEF ReadSome, Readable, ReadFails
    <3>2. connected
      BY <1>1, <2>0, <2>3, <3>1 DEF ReadInv, LeftOpenIsDrained, Drained
    <3> QED  BY <2>1, <2>3, <3>2
  <2>6. CASE \/ ConnectedSockReady \/ LoopFails \/ LoopCloses \/ LoopProceeds \/ WriteFails
             \/ StartRead \/ ReadDone \/ ReadError \/ ReadZero \/ TailCloses \/ TailLoops
    BY <1>1, <2>6 DEF ConnectedSockReady, LoopFails, LoopCloses, LoopProceeds, WriteFails,
      StartRead, ReadDone, ReadError, ReadZero, TailCloses, TailLoops, Failing
  <2>7. CASE CallbackReturns
    BY <1>1, <2>0, <2>7 DEF CallbackReturns, CallbackPcs
  <2> QED  BY <2>2, <2>4, <2>5, <2>6, <2>7 DEF Handler
<1>2. Steady /\ ReadInv /\ [Next]_vars =>
        [pc' # pc /\ pc' \in {"received", "sended"} /\ "in" \notin shut => nClosed = 0]_vars
  BY <1>1
<1> QED  BY <1>2, AlwaysSteady, AlwaysReadInv, PTL DEF Spec, SilentAfterClosed

\* When the eof branch closes the channel of a receiving user after an orderly
\* end, every byte that arrived has been delivered.
THEOREM EofDelivers == ASSUME BufSize \notin Granulas PROVE Spec => EofDeliversAll
<1>1. ASSUME Steady, ReadInv, [Next]_vars, pc = "tail", connected, ~connected',
             fin, ~rst, "in" \notin shut, granula > 0
      PROVE  inq = 0
  <2>1. op = "none"
    BY <1>1 DEF Steady, Ground, CallsFromOutside, CallbackPcs
  <2>2. TailCloses
    BY <1>1, <2>1 DEF Next, Connecting, ConnectFails, ConnectSucceedsAtOnce, ConnectStarts,
      ConnectSockReady, ClientDrops, User, UserSend, UserSetReceiveGranula, UserShutdown,
      UserClose, Destroy, ConnectCanceled, CallContinues, PreWrite, FinishShutdown,
      FinishClose, Environment, ConnectUp, ConnectRefused, PeerSends, PeerTakes,
      PeerCloses, PeerResets, Handler, ConnectedSockReady, LoopFails, LoopCloses,
      LoopProceeds, WriteFails, WriteWouldBlock, WriteSome, StartRead, ReadDone, ReadError,
      ReadZero, ReadSome, TailLoops, CallbackReturns, CallbackPcs, Running, vars, chanVars,
      AtRest
  <2> QED
    BY <1>1, <2>2 DEF TailCloses, Running, ReadInv, TailDrained, Live, Orderly
<1>2. Steady /\ ReadInv /\ [Next]_vars =>
        [pc = "tail" /\ connected /\ ~connected' /\ fin /\ ~rst /\ "in" \notin shut
            /\ granula > 0 => inq = 0]_vars
  BY <1>1
<1> QED  BY <1>2, AlwaysSteady, AlwaysReadInv, PTL DEF Spec, EofDeliversAll
=============================================================================
