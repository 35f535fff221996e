----------------------------- MODULE StreamServer -----------------------------
(***************************************************************************)
(* stream::Server: the listening servers of one process.                   *)
(*                                                                         *)
(* Servers share what belongs to the process and to the file system: the   *)
(* numbers of descriptors, which the kernel gives out again, and the paths *)
(* of local endpoints.  Everything runs on one thread; a handler emits     *)
(* accepted, failed and closed and goes on with what it knew before, while *)
(* the callback may have closed or re-opened this server or another one.   *)
(* The kernel queues connections between any two steps.                    *)
(*                                                                         *)
(* Of the poll library the model takes what DatagramChannel takes: edges,  *)
(* and an event with rsf_eof that follows the close of a descriptor.  It   *)
(* may come after the next attach; if the library drops it there, that is  *)
(* a behaviour of the model in which it never comes.                       *)
(***************************************************************************)
EXTENDS Integers, FiniteSets

CONSTANTS Servers,
          Paths,        \* local endpoints
          Numbers,      \* numbers of descriptors
          MaxSockets, MaxConns      \* bounds of the instance

ASSUME ServerAssumption ==
    /\ MaxSockets \in Nat /\ MaxConns \in Nat
    /\ "null" \notin Paths /\ "nobody" \notin Servers /\ 0 \notin Numbers

Endpoints == Paths \cup {"ip"}
MaybeEndpoints == Endpoints \cup {"null"}

\* Sockets are named in the order they are made; 0 is none.
Sockets == 1 .. MaxSockets
MaybeSockets == 0 .. MaxSockets

VARIABLES
    alive,      \* servers not destroyed
    bindEp,     \* _bindEndpoint of each server
    localEp,    \* _localEndpoint
    sock,       \* socket whose descriptor _sock holds
    late,       \* servers with the eof of a closed descriptor on its way
    made,       \* sockets made so far
    owner,      \* server that made a socket
    number,     \* number of its descriptor
    phase,      \* "none", "attached", "listening", "gone"
    name,       \* endpoint it is bound to
    queue,      \* connections waiting in it
    edge,       \* the poll has something to report of it
    failing,    \* an accept on it has failed
    file,       \* socket whose bind made the file of a path
    arrived,    \* connections so far
    at,         \* where the handler is, "idle" if none runs
    who, src    \* server and socket it runs for

apiVars  == <<alive, bindEp, localEp, sock>>
sockVars == <<made, owner, number, phase, name>>
waitVars == <<queue, edge, failing, arrived>>
runVars  == <<at, who, src>>
vars == <<apiVars, late, sockVars, waitVars, file, runVars>>

Points == {"idle", "accept", "accepted", "failed", "erring", "closed"}

TypeOK ==
    /\ alive \subseteq Servers
    /\ bindEp \in [Servers -> MaybeEndpoints] /\ localEp \in [Servers -> MaybeEndpoints]
    /\ sock \in [Servers -> MaybeSockets] /\ late \subseteq Servers
    /\ made \in MaybeSockets
    /\ owner \in [Sockets -> Servers \cup {"nobody"}]
    /\ number \in [Sockets -> Numbers \cup {0}]
    /\ phase \in [Sockets -> {"none", "attached", "listening", "gone"}]
    /\ name \in [Sockets -> MaybeEndpoints]
    /\ queue \in [Sockets -> Nat] /\ edge \subseteq Sockets /\ failing \subseteq Sockets
    /\ file \in [Paths -> MaybeSockets]
    /\ arrived \in Nat
    /\ at \in Points /\ who \in Servers \cup {"nobody"} /\ src \in MaybeSockets

Init ==
    /\ alive = Servers
    /\ bindEp = [s \in Servers |-> "null"] /\ localEp = [s \in Servers |-> "null"]
    /\ sock = [s \in Servers |-> 0] /\ late = {}
    /\ made = 0
    /\ owner = [l \in Sockets |-> "nobody"] /\ number = [l \in Sockets |-> 0]
    /\ phase = [l \in Sockets |-> "none"] /\ name = [l \in Sockets |-> "null"]
    /\ queue = [l \in Sockets |-> 0] /\ edge = {} /\ failing = {}
    /\ file = [p \in Paths |-> 0]
    /\ arrived = 0
    /\ at = "idle" /\ who = "nobody" /\ src = 0

-----------------------------------------------------------------------------
(* close() and listen().                                                   *)

\* Sockets whose descriptor is held after a close by s.
HeldAfter(s) == {t \in Servers : t # s /\ sock[t] # 0}
FreeAfter(s) == Numbers \ {number[sock[t]] : t \in HeldAfter(s)}

\* unlink of the path s was told to bind last, whoever made the file since.
FilesAfter(s) == [p \in Paths |-> IF p = bindEp[s] THEN 0 ELSE file[p]]

PhaseAfter(s) == [l \in Sockets |-> IF l = sock[s] THEN "gone" ELSE phase[l]]
QueueAfter(s) == [l \in Sockets |-> IF l = sock[s] THEN 0 ELSE queue[l]]

Close(s) ==
    /\ file' = FilesAfter(s)
    /\ phase' = PhaseAfter(s) /\ queue' = QueueAfter(s) /\ edge' = edge \ {sock[s]}
    /\ failing' = failing \ {sock[s]}
    /\ late' = IF sock[s] = 0 THEN late ELSE late \cup {s}
    /\ sock' = [sock EXCEPT ![s] = 0]
    /\ UNCHANGED <<alive, bindEp, localEp, made, owner, number, name, arrived>>

\* Neither a descriptor nor an attachment to the poll was to be had.
ListenFails(s, ep) ==
    /\ file' = FilesAfter(s)
    /\ phase' = PhaseAfter(s) /\ queue' = QueueAfter(s) /\ edge' = edge \ {sock[s]}
    /\ failing' = failing \ {sock[s]}
    /\ late' = IF sock[s] = 0 THEN late ELSE late \cup {s}
    /\ sock' = [sock EXCEPT ![s] = 0]
    /\ bindEp' = [bindEp EXCEPT ![s] = ep]
    /\ UNCHANGED <<alive, localEp, made, owner, number, name, arrived>>

\* A descriptor, and how far it gets: an option is refused; the path is
\* unlinked and bind fails; listen fails; or it listens.
Results == {"refused", "unbound", "bound", "listening"}

\* Faulty variant of Named: getsockname is not asked.
NamedUnasked(s, l, ep) == name' = [name EXCEPT ![l] = ep] /\ UNCHANGED localEp

\* bind and getsockname.
Named(s, l, ep) ==
    /\ name' = [name EXCEPT ![l] = ep]
    /\ localEp' = [localEp EXCEPT ![s] = ep]

\* Faulty variant of FilesWith: the path is unlinked after bind.
FilesUnlinkedLate(s, l, ep, result) ==
    [p \in Paths |-> IF p # ep \/ result = "refused" THEN FilesAfter(s)[p] ELSE 0]

FilesWith(s, l, ep, result) ==
    [p \in Paths |-> IF p # ep \/ result = "refused" THEN FilesAfter(s)[p]
                     ELSE IF result = "unbound" THEN 0 ELSE l]

ListenWith(s, ep) ==
    LET l == made + 1 IN
    /\ made < MaxSockets /\ made' = l
    /\ late' = IF sock[s] = 0 THEN late ELSE late \cup {s}
    /\ sock' = [sock EXCEPT ![s] = l] /\ owner' = [owner EXCEPT ![l] = s]
    /\ \E n \in FreeAfter(s) : number' = [number EXCEPT ![l] = n]
    /\ bindEp' = [bindEp EXCEPT ![s] = ep]
    /\ queue' = QueueAfter(s) /\ edge' = edge \ {sock[s]}
    /\ failing' = failing \ {sock[s]}
    /\ \E result \in Results :
        /\ phase' = [PhaseAfter(s) EXCEPT ![l] =
                        IF result = "listening" THEN "listening" ELSE "attached"]
        /\ IF result \in {"bound", "listening"}
           THEN Named(s, l, ep)
           ELSE UNCHANGED <<name, localEp>>
        /\ file' = FilesWith(s, l, ep, result)
    /\ UNCHANGED <<alive, arrived>>

Listen(s, ep) == ListenFails(s, ep) \/ ListenWith(s, ep)

\* Calls come from outside a handler and from within its callbacks.
MayCall(s) == s \in alive /\ at \in {"idle", "accepted", "failed", "erring", "closed"}

UserListen(s) == MayCall(s) /\ (\E ep \in Endpoints : Listen(s, ep)) /\ UNCHANGED runVars
UserClose(s) == MayCall(s) /\ Close(s) /\ UNCHANGED runVars

\* ~Server: the descriptor goes with _sock; the file of a path stays.
Destroy(s) ==
    /\ at = "idle" /\ s \in alive /\ alive' = alive \ {s}
    /\ phase' = PhaseAfter(s) /\ queue' = QueueAfter(s) /\ edge' = edge \ {sock[s]}
    /\ failing' = failing \ {sock[s]}
    /\ late' = late \ {s}
    /\ sock' = [sock EXCEPT ![s] = 0]
    /\ bindEp' = [bindEp EXCEPT ![s] = "null"] /\ localEp' = [localEp EXCEPT ![s] = "null"]
    /\ UNCHANGED <<made, owner, number, name, arrived, file, runVars>>

-----------------------------------------------------------------------------
(* sockReady.                                                              *)

Starts(point, s) == at = "idle" /\ at' = point /\ who' = s /\ src' = sock[s]
Goes(from, to) == at = from /\ at' = to /\ UNCHANGED <<who, src>>
Ends(point) == at = point /\ at' = "idle" /\ who' = "nobody" /\ src' = 0

\* The error branch, with an error to tell or without.
ErrorEvent(s) ==
    /\ sock[s] # 0
    /\ \/ Starts("erring", s)
          /\ UNCHANGED <<apiVars, late, sockVars, waitVars, file>>
       \/ at = "idle" /\ Close(s) /\ UNCHANGED runVars

ErrorReturns == Ends("erring") /\ Close(who)

\* The eof branch: what the closed callback has set up is forgotten with the rest.
EofEvent(s) ==
    /\ s \in late /\ late' = late \ {s}
    /\ Starts("closed", s)
    /\ UNCHANGED <<apiVars, sockVars, waitVars, file>>

\* Faulty variant of ClosedReturns: the endpoint to bind is remembered.
ClosedKeepsBind ==
    /\ Ends("closed")
    /\ localEp' = [localEp EXCEPT ![who] = "null"]
    /\ UNCHANGED <<alive, bindEp, sock, late, sockVars, waitVars, file>>

ClosedReturns ==
    /\ Ends("closed")
    /\ bindEp' = [bindEp EXCEPT ![who] = "null"]
    /\ localEp' = [localEp EXCEPT ![who] = "null"]
    /\ UNCHANGED <<alive, sock, late, sockVars, waitVars, file>>

\* The read branch: accept until it says EAGAIN or fails otherwise.
ReadEvent(s) ==
    /\ sock[s] \in edge /\ edge' = edge \ {sock[s]}
    /\ Starts("accept", s)
    /\ UNCHANGED <<apiVars, late, sockVars, queue, failing, arrived, file>>

\* The sockets that accept4(native) accepts from, native being the number of
\* the socket that the event was for.
Targets == {l \in Sockets : number[l] = number[src] /\ phase[l] = "listening"}

Accept(l) ==
    /\ Goes("accept", "accepted")
    /\ l \in Targets /\ queue[l] > 0
    /\ queue' = [queue EXCEPT ![l] = queue[l] - 1]
    /\ UNCHANGED <<apiVars, late, sockVars, edge, failing, arrived, file>>

\* Faulty variant of AcceptedReturns: one connection for an event.
AcceptedReturnsOnce ==
    /\ Ends("accepted")
    /\ UNCHANGED <<apiVars, late, sockVars, waitVars, file>>

AcceptedReturns ==
    /\ Goes("accepted", "accept")
    /\ UNCHANGED <<apiVars, late, sockVars, waitVars, file>>

AcceptsAll ==
    /\ Ends("accept")
    /\ Targets # {} /\ \A l \in Targets : queue[l] = 0
    /\ UNCHANGED <<apiVars, late, sockVars, waitVars, file>>

\* No such descriptor, no resources, or a connection that was given up.
AcceptFails ==
    /\ Goes("accept", "failed")
    /\ failing' = failing \cup Targets
    /\ \/ UNCHANGED queue
       \/ \E l \in Targets : queue[l] > 0 /\ queue' = [queue EXCEPT ![l] = queue[l] - 1]
    /\ UNCHANGED <<apiVars, late, sockVars, edge, arrived, file>>

FailedReturns ==
    /\ Ends("failed")
    /\ UNCHANGED <<apiVars, late, sockVars, waitVars, file>>

-----------------------------------------------------------------------------
\* The kernel completes a connection.
ConnectionArrives(l) ==
    /\ phase[l] = "listening" /\ arrived < MaxConns
    /\ arrived' = arrived + 1
    /\ queue' = [queue EXCEPT ![l] = queue[l] + 1] /\ edge' = edge \cup {l}
    /\ UNCHANGED <<apiVars, late, sockVars, failing, file, runVars>>

Accepting == (\E l \in Sockets : Accept(l)) \/ AcceptsAll \/ AcceptFails

Next ==
    \/ \E s \in Servers : \/ UserListen(s) \/ UserClose(s) \/ Destroy(s)
                          \/ ErrorEvent(s) \/ EofEvent(s) \/ ReadEvent(s)
    \/ Accepting \/ AcceptedReturns \/ FailedReturns \/ ErrorReturns \/ ClosedReturns
    \/ \E l \in Sockets : ConnectionArrives(l)

Spec == Init /\ [][Next]_vars

-----------------------------------------------------------------------------
(* Properties.                                                             *)

\* A listening server's connections are announced by an edge, a running accept
\* loop, or left behind by an accept that failed: by nothing else.
NoStranded ==
    \A l \in Sockets :
        phase[l] = "listening" /\ queue[l] > 0 =>
            l \in edge \/ l \in failing \/ (at \in {"accept", "accepted"} /\ src = l)

\* What a connection is told to be its local endpoint is the one it came to,
\* unless the server was closed since the loop began or lost its endpoints to
\* a late eof.
AcceptedKnowsEndpoint ==
    [][\A l \in Sockets : Accept(l) =>
        \/ localEp[who] = name[l]
        \/ phase[src] = "gone"
        \/ bindEp[who] = "null"]_vars

\* A step keeps the file of a socket that listens on a path, or it was lost
\* before, or another server was told to bind the same path.
FileKeptOf(l) ==
    phase'[l] = "listening" /\ name'[l] \in Paths =>
        \/ file'[name'[l]] = l
        \/ phase[l] = "listening" /\ file[name[l]] # l
        \/ \E t \in Servers \ {owner'[l]} : name'[l] \in {bindEp[t], bindEp'[t]}

\* The file of a listening server is removed only by a server that was told to
\* bind the same path.
FileKept == [][\A l \in Sockets : FileKeptOf(l)]_vars

\* The servers and the kernel agree on who holds which descriptor.
Holds == \A s \in Servers : sock[s] # 0 =>
    /\ sock[s] <= made /\ owner[sock[s]] = s
    /\ phase[sock[s]] \in {"attached", "listening"}

Held == \A l \in Sockets : phase[l] \in {"attached", "listening"} =>
    owner[l] \in Servers /\ l = sock[owner[l]]

\* No number is held twice.
Distinct == \A s, t \in Servers :
    s # t /\ sock[s] # 0 /\ sock[t] # 0 => number[sock[s]] # number[sock[t]]

\* Sockets to come are untouched, and only those that listen have connections.
Quiet == \A l \in Sockets :
    /\ l > made => phase[l] = "none"
    /\ queue[l] > 0 \/ l \in edge => phase[l] = "listening"

\* A server that listens knows its endpoint or has lost it both ways.
Knows == \A l \in Sockets : phase[l] = "listening" =>
    \/ bindEp[owner[l]] = name[l] /\ localEp[owner[l]] = name[l]
    \/ bindEp[owner[l]] = "null" /\ localEp[owner[l]] = "null"

\* The accept loop runs on the socket its server has, or on one that is gone.
Loops ==
    /\ at # "idle" => src <= made /\ who \in Servers
    /\ at \in {"accept", "accepted"} => src # 0 /\ (phase[src] = "gone" \/ src = sock[who])

Agree == Holds /\ Held /\ Distinct /\ Quiet /\ Knows /\ Loops

SInv == TypeOK /\ Agree /\ NoStranded
=============================================================================
