-------------------------- MODULE StreamRefinement ---------------------------
(***************************************************************************)
(* StreamChannel as an implementation of ByteStream.                       *)
(***************************************************************************)
EXTENDS StreamChannel

\* The life of the channel as its user sees it: by the closed signals, not by
\* _connected alone.
Phase ==
    IF ~alive THEN "gone"
    ELSE IF ~Exposed THEN "new"
    ELSE IF connected /\ nClosed = 0 THEN "open"
    ELSE IF ~connected /\ nClosed = 0 THEN "ending"
    ELSE IF ~connected /\ nClosed = 1 THEN "closed"
    ELSE "wrong"

Stream == INSTANCE ByteStream WITH
    phase     <- Phase,
    sent      <- sbuf.tail,
    buffered  <- DataSize(sbuf),
    written   <- wired,
    told      <- reported,
    outLost   <- rst \/ "out" \in shut,
    arrived   <- sentIn,
    unread    <- inq,
    delivered <- delivered

\* Whatever handlers, callbacks, the kernel and the peer do in between, a
\* channel is a byte stream: opened and closed once each, its wire a prefix of
\* what was sent, no byte of its buffer given up while its output lasts, no
\* report ahead of the writes.
ImplementsByteStream == Stream!Spec
=============================================================================
