----------------------------- MODULE ByteStream ------------------------------
(***************************************************************************)
(* What a stream channel promises, without descriptors, events, buffers or *)
(* callbacks: a connection that is opened at most once and closed at most  *)
(* once, that writes what it is given in order and without gaps for as     *)
(* long as its output lasts, reports only what it has written, and         *)
(* delivers what has arrived once.  Bytes are counted, since each side     *)
(* only ever takes them from the front.                                    *)
(*                                                                         *)
(* Data may still be delivered after the end here: that it is not is a     *)
(* property of the channel which has its exceptions (SilentAfterClosed).   *)
(***************************************************************************)
EXTENDS Integers

VARIABLES
    phase,      \* new, open, ending (about to say closed), closed, gone
    sent,       \* bytes accepted by send
    buffered,   \* of these, neither written nor discarded
    written,    \* bytes the kernel took
    told,       \* bytes reported by sended
    outLost,    \* the output was shut down or the connection reset
    arrived,    \* bytes of the peer that have arrived
    unread,     \* of these, neither delivered nor dropped by a reset
    delivered   \* bytes passed to received

outVars == <<sent, buffered, written, told, outLost>>
inVars  == <<arrived, unread, delivered>>
vars    == <<phase, outVars, inVars>>

Init ==
    /\ phase \in {"new", "open"}
    /\ sent = 0 /\ buffered = 0 /\ written = 0 /\ told = 0 /\ outLost = FALSE
    /\ arrived = 0 /\ unread = 0 /\ delivered = 0

Open == phase = "new" /\ phase' = "open" /\ UNCHANGED <<outVars, inVars>>

Send ==
    /\ phase = "open"
    /\ \E n \in 1 .. (sent' - sent) : sent' = sent + n /\ buffered' = buffered + n
    /\ UNCHANGED <<phase, written, told, outLost, inVars>>

\* Bytes go from the buffer to the wire, and all that is there may be reported.
Write ==
    /\ phase = "open" /\ ~outLost
    /\ \E n \in 1 .. buffered : written' = written + n /\ buffered' = buffered - n
    /\ told' \in told .. written'
    /\ UNCHANGED <<phase, sent, outLost, inVars>>

Report ==
    /\ phase = "open"
    /\ told' \in (told + 1) .. written
    /\ UNCHANGED <<phase, sent, buffered, written, outLost, inVars>>

ShutOutput ==
    /\ phase # "gone" /\ outLost' = TRUE
    /\ UNCHANGED <<phase, sent, buffered, written, told, inVars>>

\* A reset drops what has not been read.
Reset ==
    /\ phase # "gone" /\ outLost' = TRUE /\ unread' = 0
    /\ UNCHANGED <<phase, sent, buffered, written, told, arrived, delivered>>

\* Only a lost output makes an open channel discard bytes.
Discard ==
    /\ phase = "open" /\ outLost /\ buffered' = 0
    /\ UNCHANGED <<phase, sent, written, told, outLost, inVars>>

End ==
    /\ phase = "open" /\ phase' \in {"ending", "closed"} /\ buffered' = 0
    /\ UNCHANGED <<sent, written, told, outLost, inVars>>

SayClosed ==
    /\ phase = "ending" /\ phase' = "closed"
    /\ UNCHANGED <<outVars, inVars>>

Arrive ==
    /\ phase # "gone"
    /\ \E n \in 1 .. (arrived' - arrived) : arrived' = arrived + n /\ unread' = unread + n
    /\ UNCHANGED <<phase, outVars, delivered>>

Deliver ==
    /\ phase \in {"open", "closed"}
    /\ \E n \in 1 .. unread : unread' = unread - n /\ delivered' = delivered + n
    /\ UNCHANGED <<phase, outVars, arrived>>

Vanish == phase # "gone" /\ phase' = "gone" /\ UNCHANGED <<outVars, inVars>>

Next == \/ Open \/ Send \/ Write \/ Report \/ ShutOutput \/ Reset \/ Discard
        \/ End \/ SayClosed \/ Arrive \/ Deliver \/ Vanish

Spec == Init /\ [][Next]_vars

-----------------------------------------------------------------------------
\* What is written is a prefix of what was sent: while the output lasts every
\* byte is written or still buffered, and none is counted twice.
WritesPrefix ==
    /\ written + buffered <= sent
    /\ phase = "open" /\ ~outLost => written + buffered = sent

\* Neither reports nor deliveries run ahead of what they are about.
NothingInvented == told <= written /\ delivered + unread <= arrived
=============================================================================
