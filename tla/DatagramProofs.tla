---------------------------- MODULE DatagramProofs ----------------------------
(***************************************************************************)
(* Proofs about datagram::Channel, for every value of the constants.       *)
(*                                                                         *)
(* DInv is inductive: the accounts of closed signals and of sends hold     *)
(* since a descriptor is only held by an opened channel and the kernel     *)
(* holds exactly the fragments of the message under way.                   *)
(***************************************************************************)
EXTENDS DatagramChannel, TLAPS

\* Every step keeps the flags and sets within their types.
LEMMA FlagsKept ==
    ASSUME Flags, [Next]_vars PROVE Flags'
<1> USE DatagramAssumption DEF Flags, AtRest, MayCall, chanVars, sendVars, callVars,
        kernVars, pollVars, inVars, SockCloses, SockKept, NewKernelState, Enter, Fails,
        FailsAndCloses, Opens, OpenFails, BindFails
<1>1. CASE UserSetOption
  BY <1>1 DEF UserSetOption
<1>2. CASE UserBind
  BY <1>2 DEF UserBind
<1>3. CASE UserLocalEndpoint
  BY <1>3 DEF UserLocalEndpoint
<1>4. CASE UserSend
  BY <1>4 DEF UserSend
<1>5. CASE UserClose
  BY <1>5 DEF UserClose
<1>6. CASE Destroy
  BY <1>6 DEF Destroy
<1>7. CASE SendSome
  BY <1>7 DEF SendSome
<1>8. CASE SendWouldBlock
  BY <1>8 DEF SendWouldBlock
<1>9. CASE SendFails
  BY <1>9 DEF SendFails
<1>10. CASE CallbackReturns
  BY <1>10 DEF CallbackReturns
<1>11. CASE Poll
  BY <1>11 DEF Poll, Level
<1>12. CASE ErrorEvent
  BY <1>12 DEF ErrorEvent
<1>13. CASE EofEvent
  BY <1>13 DEF EofEvent
<1>14. CASE CloseEvent
  BY <1>14 DEF CloseEvent
<1>15. CASE RecvOne
  BY <1>15 DEF RecvOne
<1>16. CASE RecvFails
  BY <1>16 DEF RecvFails
<1>17. CASE DatagramArrives
  BY <1>17 DEF DatagramArrives
<1>18. CASE DatagramDropped
  BY <1>18 DEF DatagramDropped
<1>19. CASE ErrorArrives
  BY <1>19 DEF ErrorArrives
<1>20. CASE DatagramLeaves
  BY <1>20 DEF DatagramLeaves
<1>21. CASE UNCHANGED vars
  BY <1>21 DEF vars
<1>22. QED
  BY <1>1, <1>2, <1>3, <1>4, <1>5, <1>6, <1>7, <1>8, <1>9, <1>10, <1>11, <1>12, <1>13,
    <1>14, <1>15, <1>16, <1>17, <1>18, <1>19, <1>20, <1>21
    DEF Next, User, Sending, Handler, Kernel

\* Every step keeps the counters natural numbers.
LEMMA CountsKept ==
    ASSUME Counts, Flags, [Next]_vars PROVE Counts'
<1> USE DatagramAssumption DEF Counts, AtRest, MayCall, chanVars, sendVars, callVars,
        kernVars, pollVars, inVars, SockCloses, SockKept, NewKernelState, Enter, Fails,
        FailsAndCloses, Opens, OpenFails, BindFails, FillFrom, Partial
<1>1. CASE UserSetOption
  BY <1>1, SMT DEF UserSetOption
<1>2. CASE UserBind
  BY <1>2, SMT DEF UserBind
<1>3. CASE UserLocalEndpoint
  BY <1>3, SMT DEF UserLocalEndpoint
<1>4. CASE UserSend
  BY <1>4, SMT DEF UserSend
<1>5. CASE UserClose
  BY <1>5, SMT DEF UserClose
<1>6. CASE Destroy
  BY <1>6, SMT DEF Destroy
<1>7. CASE SendSome
  BY <1>7, SMT DEF SendSome
<1>8. CASE SendWouldBlock
  BY <1>8, SMT DEF SendWouldBlock
<1>9. CASE SendFails
  BY <1>9, SMT DEF SendFails
<1>10. CASE CallbackReturns
  BY <1>10, SMT DEF CallbackReturns
<1>11. CASE Poll
  BY <1>11, SMT DEF Poll
<1>12. CASE ErrorEvent
  BY <1>12, SMT DEF ErrorEvent
<1>13. CASE EofEvent
  BY <1>13, SMT DEF EofEvent
<1>14. CASE CloseEvent
  BY <1>14, SMT DEF CloseEvent
<1>15. CASE RecvOne
  BY <1>15, SMT DEF RecvOne
<1>16. CASE RecvFails
  BY <1>16, SMT DEF RecvFails
<1>17. CASE DatagramArrives
  BY <1>17, SMT DEF DatagramArrives
<1>18. CASE DatagramDropped
  BY <1>18, SMT DEF DatagramDropped
<1>19. CASE ErrorArrives
  BY <1>19, SMT DEF ErrorArrives
<1>20. CASE DatagramLeaves
  BY <1>20, SMT DEF DatagramLeaves
<1>21. CASE UNCHANGED vars
  BY <1>21, SMT DEF vars
<1>22. QED
  BY <1>1, <1>2, <1>3, <1>4, <1>5, <1>6, <1>7, <1>8, <1>9, <1>10, <1>11, <1>12, <1>13,
    <1>14, <1>15, <1>16, <1>17, <1>18, <1>19, <1>20, <1>21
    DEF Next, User, Sending, Handler, Kernel

\* Every step leaves a stack of callbacks.
LEMMA FramesKept ==
    ASSUME frames \in Seq(Callbacks), [Next]_vars PROVE (frames \in Seq(Callbacks))'
<1> USE DatagramAssumption DEF Callbacks, chanVars, sendVars, callVars, kernVars,
        pollVars, inVars, SockCloses, SockKept, NewKernelState, Enter, Fails,
        FailsAndCloses, Opens, OpenFails, BindFails
<1>1. CASE UserSetOption
  BY <1>1, SMT DEF UserSetOption
<1>2. CASE UserBind
  BY <1>2, SMT DEF UserBind
<1>3. CASE UserLocalEndpoint
  BY <1>3, SMT DEF UserLocalEndpoint
<1>4. CASE UserSend
  BY <1>4, SMT DEF UserSend
<1>5. CASE UserClose
  BY <1>5, SMT DEF UserClose
<1>6. CASE Destroy
  BY <1>6, SMT DEF Destroy
<1>7. CASE SendSome
  BY <1>7, SMT DEF SendSome
<1>8. CASE SendWouldBlock
  BY <1>8, SMT DEF SendWouldBlock
<1>9. CASE SendFails
  BY <1>9, SMT DEF SendFails
<1>10. CASE CallbackReturns
  BY <1>10, SMT DEF CallbackReturns, Front
<1>11. CASE Poll
  BY <1>11, SMT DEF Poll
<1>12. CASE ErrorEvent
  BY <1>12, SMT DEF ErrorEvent
<1>13. CASE EofEvent
  BY <1>13, SMT DEF EofEvent
<1>14. CASE CloseEvent
  BY <1>14, SMT DEF CloseEvent
<1>15. CASE RecvOne
  BY <1>15, SMT DEF RecvOne
<1>16. CASE RecvFails
  BY <1>16, SMT DEF RecvFails
<1>17. CASE DatagramArrives
  BY <1>17, SMT DEF DatagramArrives
<1>18. CASE DatagramDropped
  BY <1>18, SMT DEF DatagramDropped
<1>19. CASE ErrorArrives
  BY <1>19, SMT DEF ErrorArrives
<1>20. CASE DatagramLeaves
  BY <1>20, SMT DEF DatagramLeaves
<1>21. CASE UNCHANGED vars
  BY <1>21, SMT DEF vars
<1>22. QED
  BY <1>1, <1>2, <1>3, <1>4, <1>5, <1>6, <1>7, <1>8, <1>9, <1>10, <1>11, <1>12, <1>13,
    <1>14, <1>15, <1>16, <1>17, <1>18, <1>19, <1>20, <1>21
    DEF Next, User, Sending, Handler, Kernel

\* No step gives a closed signal too many or too few; the close branch of
\* sockReady, which tests nothing, needs that a descriptor means opened.
LEMMA ClosedAccountKept ==
    ASSUME ClosedPerOpening, SocketOfOpened, Counts, Flags, [Next]_vars PROVE ClosedPerOpening'
<1> USE DatagramAssumption DEF ClosedPerOpening, Counts, Flags, chanVars, sendVars,
        callVars, kernVars, pollVars, inVars, SockCloses, SockKept, NewKernelState,
        Enter, Fails, FailsAndCloses, Opens, OpenFails, BindFails
<1>1. CASE UserSetOption
  BY <1>1, SMT DEF UserSetOption
<1>2. CASE UserBind
  BY <1>2, SMT DEF UserBind
<1>3. CASE UserLocalEndpoint
  BY <1>3, SMT DEF UserLocalEndpoint
<1>4. CASE UserSend
  BY <1>4, SMT DEF UserSend
<1>5. CASE UserClose
  BY <1>5, SMT DEF UserClose
<1>6. CASE Destroy
  BY <1>6, SMT DEF Destroy
<1>7. CASE SendSome
  BY <1>7, SMT DEF SendSome
<1>8. CASE SendWouldBlock
  BY <1>8, SMT DEF SendWouldBlock
<1>9. CASE SendFails
  BY <1>9, SMT DEF SendFails
<1>10. CASE CallbackReturns
  BY <1>10, SMT DEF CallbackReturns
<1>11. CASE Poll
  BY <1>11, SMT DEF Poll
<1>12. CASE ErrorEvent
  BY <1>12, SMT DEF ErrorEvent
<1>13. CASE EofEvent
  BY <1>13, SMT DEF EofEvent
<1>14. CASE CloseEvent
  BY <1>14, SMT DEF CloseEvent, SocketOfOpened
<1>15. CASE RecvOne
  BY <1>15, SMT DEF RecvOne
<1>16. CASE RecvFails
  BY <1>16, SMT DEF RecvFails
<1>17. CASE DatagramArrives
  BY <1>17, SMT DEF DatagramArrives
<1>18. CASE DatagramDropped
  BY <1>18, SMT DEF DatagramDropped
<1>19. CASE ErrorArrives
  BY <1>19, SMT DEF ErrorArrives
<1>20. CASE DatagramLeaves
  BY <1>20, SMT DEF DatagramLeaves
<1>21. CASE UNCHANGED vars
  BY <1>21, SMT DEF vars
<1>22. QED
  BY <1>1, <1>2, <1>3, <1>4, <1>5, <1>6, <1>7, <1>8, <1>9, <1>10, <1>11, <1>12, <1>13,
    <1>14, <1>15, <1>16, <1>17, <1>18, <1>19, <1>20, <1>21
    DEF Next, User, Sending, Handler, Kernel

\* No step loses a send or ends one twice.
LEMMA SendAccountKept ==
    ASSUME SendsAccounted, Counts, [Next]_vars PROVE SendsAccounted'
<1> USE DatagramAssumption DEF SendsAccounted, Counts, AtRest, MayCall, chanVars,
        sendVars, callVars, kernVars, pollVars, inVars, SockCloses, SockKept,
        NewKernelState, Enter, Fails, FailsAndCloses, Opens, OpenFails, BindFails
<1>1. CASE UserSetOption
  BY <1>1, SMT DEF UserSetOption
<1>2. CASE UserBind
  BY <1>2, SMT DEF UserBind
<1>3. CASE UserLocalEndpoint
  BY <1>3, SMT DEF UserLocalEndpoint
<1>4. CASE UserSend
  BY <1>4, SMT DEF UserSend
<1>5. CASE UserClose
  BY <1>5, SMT DEF UserClose
<1>6. CASE Destroy
  BY <1>6, SMT DEF Destroy
<1>7. CASE SendSome
  BY <1>7, SMT DEF SendSome, FillFrom, Partial
<1>8. CASE SendWouldBlock
  BY <1>8, SMT DEF SendWouldBlock
<1>9. CASE SendFails
  BY <1>9, SMT DEF SendFails
<1>10. CASE CallbackReturns
  BY <1>10, SMT DEF CallbackReturns
<1>11. CASE Poll
  BY <1>11, SMT DEF Poll
<1>12. CASE ErrorEvent
  BY <1>12, SMT DEF ErrorEvent
<1>13. CASE EofEvent
  BY <1>13, SMT DEF EofEvent
<1>14. CASE CloseEvent
  BY <1>14, SMT DEF CloseEvent
<1>15. CASE RecvOne
  BY <1>15, SMT DEF RecvOne
<1>16. CASE RecvFails
  BY <1>16, SMT DEF RecvFails
<1>17. CASE DatagramArrives
  BY <1>17, SMT DEF DatagramArrives
<1>18. CASE DatagramDropped
  BY <1>18, SMT DEF DatagramDropped
<1>19. CASE ErrorArrives
  BY <1>19, SMT DEF ErrorArrives
<1>20. CASE DatagramLeaves
  BY <1>20, SMT DEF DatagramLeaves
<1>21. CASE UNCHANGED vars
  BY <1>21, SMT DEF vars
<1>22. QED
  BY <1>1, <1>2, <1>3, <1>4, <1>5, <1>6, <1>7, <1>8, <1>9, <1>10, <1>11, <1>12, <1>13,
    <1>14, <1>15, <1>16, <1>17, <1>18, <1>19, <1>20, <1>21
    DEF Next, User, Sending, Handler, Kernel

\* No step leaves a descriptor to a channel that is not opened, or a part of
\* a message with the kernel.
LEMMA SocketKept ==
    ASSUME SocketOfOpened, Counts, Flags, [Next]_vars PROVE SocketOfOpened'
<1> USE DatagramAssumption DEF SocketOfOpened, Counts, Flags, AtRest, MayCall, Bound,
        chanVars, sendVars, callVars, kernVars, pollVars, inVars, SockCloses, SockKept,
        NewKernelState, Enter, Fails, FailsAndCloses, Opens, OpenFails, BindFails
<1>1. CASE UserSetOption
  BY <1>1, SMT DEF UserSetOption
<1>2. CASE UserBind
  BY <1>2, SMT DEF UserBind
<1>3. CASE UserLocalEndpoint
  BY <1>3, SMT DEF UserLocalEndpoint
<1>4. CASE UserSend
  <2>1. PICK len \in Lengths : (msg' = len /\ left' = len) \/ UNCHANGED <<msg, left>>
    BY <1>4 DEF UserSend
  <2>2. msg = 0 /\ left = 0 /\ alive /\ UNCHANGED alive
    BY <1>4, SMT DEF UserSend
  <2>3. CASE opened /\ SockKept /\ UNCHANGED <<opened, stored>>
    BY <2>1, <2>2, <2>3, SMT
  <2>4. CASE Opens
    BY <2>1, <2>2, <2>4, SMT
  <2>5. CASE ~opened /\ OpenFails
    BY <2>2, <2>5, SMT
  <2>6. QED BY <1>4, <2>3, <2>4, <2>5 DEF UserSend
<1>5. CASE UserClose
  BY <1>5, SMT DEF UserClose
<1>6. CASE Destroy
  BY <1>6, SMT DEF Destroy
<1>7. CASE SendSome
  BY <1>7, SMT DEF SendSome, FillFrom, Partial
<1>8. CASE SendWouldBlock
  BY <1>8, SMT DEF SendWouldBlock
<1>9. CASE SendFails
  BY <1>9, SMT DEF SendFails
<1>10. CASE CallbackReturns
  BY <1>10, SMT DEF CallbackReturns
<1>11. CASE Poll
  BY <1>11, SMT DEF Poll
<1>12. CASE ErrorEvent
  BY <1>12, SMT DEF ErrorEvent
<1>13. CASE EofEvent
  <2>1. CASE sock = 0
    <3>1. UNCHANGED <<sock, opened, alive, stored, corked, msg, left, inq, event, edge>>
      BY <1>13, <2>1 DEF EofEvent
    <3>2. QED BY <3>1
  <2>2. CASE sock # 0
    BY <1>13, <2>2, SMT DEF EofEvent
  <2>3. QED BY <2>1, <2>2
<1>14. CASE CloseEvent
  BY <1>14, SMT DEF CloseEvent
<1>15. CASE RecvOne
  BY <1>15, SMT DEF RecvOne
<1>16. CASE RecvFails
  BY <1>16, SMT DEF RecvFails
<1>17. CASE DatagramArrives
  BY <1>17, SMT DEF DatagramArrives
<1>18. CASE DatagramDropped
  BY <1>18, SMT DEF DatagramDropped
<1>19. CASE ErrorArrives
  BY <1>19, SMT DEF ErrorArrives
<1>20. CASE DatagramLeaves
  BY <1>20, SMT DEF DatagramLeaves
<1>21. CASE UNCHANGED vars
  BY <1>21, SMT DEF vars
<1>22. QED
  BY <1>1, <1>2, <1>3, <1>4, <1>5, <1>6, <1>7, <1>8, <1>9, <1>10, <1>11, <1>12, <1>13,
    <1>14, <1>15, <1>16, <1>17, <1>18, <1>19, <1>20, <1>21
    DEF Next, User, Sending, Handler, Kernel

-----------------------------------------------------------------------------
\* The initial state satisfies DInv.
LEMMA InitDInv == Init => DInv
<1> SUFFICES ASSUME Init PROVE DInv
  OBVIOUS
<1>1. Flags BY DEF Init, Flags
<1>2. Counts BY SMT DEF Init, Counts
<1>3. frames \in Seq(Callbacks) BY SMT DEF Init
<1>4. ClosedPerOpening BY SMT DEF Init, ClosedPerOpening
<1>5. SendsAccounted BY SMT DEF Init, SendsAccounted
<1>6. SocketOfOpened BY SMT DEF Init, SocketOfOpened
<1>7. QED BY <1>1, <1>2, <1>3, <1>4, <1>5, <1>6 DEF DInv, TypeOK

\* Every reachable state of a datagram channel, of any bounds, satisfies DInv:
\* its accounts are right and only an opened channel holds a descriptor.
THEOREM DatagramInvariant == Spec => []DInv
<1>1. DInv /\ [Next]_vars => DInv'
  BY FlagsKept, CountsKept, FramesKept, ClosedAccountKept, SendAccountKept, SocketKept
    DEF DInv, TypeOK
<1>2. QED BY InitDInv, <1>1, PTL DEF Spec

\* Every opening of a datagram channel ends in exactly one closed signal.
THEOREM ClosedOncePerOpening == Spec => []ClosedPerOpening
BY DatagramInvariant, PTL DEF DInv

\* Every send ends on the wire or in one failed signal.
THEOREM EverySendAccounted == Spec => []SendsAccounted
BY DatagramInvariant, PTL DEF DInv

-----------------------------------------------------------------------------
\* The datagram put on the wire holds all the chunks of its message and none
\* of another: the kernel holds what doSend has taken of this message so far.
THEOREM DatagramsAreWhole == Spec => WholeDatagrams
<1>1. ASSUME DInv, [Next]_vars PROVE [nOut' > nOut => lastOut' = msg]_vars
  <2> SUFFICES ASSUME Next, nOut' > nOut PROVE lastOut' = msg
    BY <1>1
  <2> USE <1>1 DEF DInv, TypeOK, Counts, SocketOfOpened, chanVars, sendVars, callVars,
          kernVars, pollVars, inVars
  <2>1. CASE SendSome
    BY <2>1, SMT DEF SendSome, FillFrom, Partial
  <2>2. nOut' = nOut \/ SendSome
    BY SMT DEF Next, User, UserSetOption, UserBind, UserLocalEndpoint, UserSend, UserClose,
        Destroy, Sending, SendWouldBlock, SendFails, CallbackReturns, Poll, Handler,
        ErrorEvent, EofEvent, CloseEvent, RecvOne, RecvFails, Kernel, DatagramArrives,
        DatagramDropped, ErrorArrives, DatagramLeaves
  <2>3. QED BY <2>1, <2>2, SMT
<1>2. QED BY DatagramInvariant, <1>1, PTL DEF Spec, WholeDatagrams
=============================================================================
