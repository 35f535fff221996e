----------------------------- MODULE Rtnetlink ------------------------------
(***************************************************************************)
(* enumerator::Rtnetlink over Links and Routes, with the kernel.           *)
(*                                                                         *)
(* The enumerator binds a netlink socket to the multicast groups of links, *)
(* addresses and routes, then asks for a dump of each, one after the       *)
(* other.  Notifications and the parts of a dump arrive on one socket, in  *)
(* the order the kernel makes them.  onSock reads until there is nothing   *)
(* left and flushes; the kernel goes on meanwhile.  A notification that    *)
(* finds the socket's queue full is lost, and the next call reports it.    *)
(***************************************************************************)
EXTENDS Links, Routes, Sequences

CONSTANTS MaxEvents,   \* changes the kernel makes at most
          QueueCap     \* notifications the socket holds

ASSUME RtnetlinkAssumption == MaxEvents \in Nat /\ QueueCap \in Nat \ {0}

Dumps == {"link", "addr", "route"}

VARIABLES
    pc,            \* constructor: new, bound; onSock: idle, read; dead
    requested,     \* sf_requestLink, sf_requestAddr, sf_requestRoute of _state
    kLinks,        \* kernel: links with their facts
    kRoutes,       \* kernel: main routing table
    dump, todo,    \* kernel: dump under way, what it has not reported
    queue,         \* messages of the socket
    overrun,       \* ENOBUFS is pending on the socket
    edge,          \* edge-triggered poll has something to report
    events,        \* changes made
    lost, refused, \* history: a notification or a dump was lost; a request failed
    mixed,         \* history: links reported both ways in one batch
    known, clash   \* history: routes last reported as new; reported ambiguously

ownVars == <<pc, requested>>
kernelVars == <<kLinks, kRoutes, dump, todo, events>>
sockVars == <<queue, overrun, edge>>
histVars == <<lost, refused, mixed, known, clash>>
vars == <<linksVars, routesVars, ownVars, kernelVars, sockVars, histVars>>

\* What a dump of the given kind comes to.
Universe(kind) ==
    CASE kind = "link"  -> Ids
      [] kind = "addr"  -> Ids \X Addrs
      [] kind = "route" -> Routes
      [] OTHER -> {}

Messages ==
    [type : {"NEWLINK"}, id : Ids, attr : Attrs, wireless : BOOLEAN]
    \cup [type : {"DELLINK"}, id : Ids]
    \cup [type : {"NEWADDR", "DELADDR"}, id : Ids, addr : Addrs]
    \cup [type : {"NEWROUTE", "DELROUTE"}, route : Routes]
    \cup [type : {"DONE", "ERROR"}]

TypeOK ==
    /\ LinksTypeOK /\ RoutesTypeOK
    /\ pc \in {"new", "bound", "idle", "read", "dead"}
    /\ requested \subseteq Dumps
    /\ kLinks \in [Ids -> Facts \cup {Absent}] /\ kRoutes \subseteq Routes
    /\ dump \in Dumps \cup {"none"} /\ todo \subseteq Universe(dump)
    /\ queue \in Seq(Messages)
    /\ overrun \in BOOLEAN /\ edge \in BOOLEAN
    /\ events \in 0..MaxEvents
    /\ lost \in BOOLEAN /\ refused \in BOOLEAN
    /\ mixed \subseteq Ids /\ known \subseteq Routes /\ clash \subseteq Routes

Init ==
    /\ LinksInit /\ RoutesInit
    /\ pc = "new" /\ requested = {}
    /\ kLinks \in [Ids -> Facts \cup {Absent}]
    /\ kRoutes \in SUBSET Routes
    /\ dump = "none" /\ todo = {} /\ events = 0
    /\ queue = <<>> /\ overrun = FALSE /\ edge = FALSE
    /\ lost = FALSE /\ refused = FALSE
    /\ mixed = {} /\ known = {} /\ clash = {}

-----------------------------------------------------------------------------
(* The kernel.                                                             *)

Listening == pc \in {"bound", "idle", "read"}

\* A notification is queued or lost.
Notify(msgs) ==
    IF ~Listening THEN UNCHANGED <<queue, overrun, edge, lost>>
    ELSE /\ edge' = TRUE
         /\ IF Len(queue) + Len(msgs) <= QueueCap
            THEN queue' = queue \o msgs /\ UNCHANGED <<overrun, lost>>
            ELSE overrun' = TRUE /\ lost' = TRUE /\ UNCHANGED queue

NewLink(id, attr, wireless) ==
    [type |-> "NEWLINK", id |-> id, attr |-> attr, wireless |-> wireless]
DelLinkMsg(id) == [type |-> "DELLINK", id |-> id]
AddrMsg(type, id, a) == [type |-> type, id |-> id, addr |-> a]
RouteMsg(type, r) == [type |-> type, route |-> r]

Changing ==
    /\ events < MaxEvents /\ events' = events + 1
    /\ UNCHANGED <<linksVars, routesVars, ownVars, dump, todo, refused, mixed, known, clash>>

KernelAddsLink == \E id \in Ids, attr \in Attrs :
    /\ Changing /\ kLinks[id] = Absent
    /\ kLinks' = [kLinks EXCEPT ![id] = [attr |-> attr, addrs |-> {}]]
    /\ Notify(<<NewLink(id, attr, FALSE)>>)
    /\ UNCHANGED kRoutes

KernelSetsLink == \E id \in Ids, attr \in Attrs :
    /\ Changing /\ kLinks[id] # Absent /\ kLinks[id].attr # attr
    /\ kLinks' = [kLinks EXCEPT ![id].attr = attr]
    /\ Notify(<<NewLink(id, attr, FALSE)>>)
    /\ UNCHANGED kRoutes

KernelRemovesLink == \E id \in Ids :
    /\ Changing /\ kLinks[id] # Absent /\ kLinks[id].addrs = {}
    /\ kLinks' = [kLinks EXCEPT ![id] = Absent]
    /\ Notify(<<DelLinkMsg(id)>>)
    /\ UNCHANGED kRoutes

KernelAddsAddr == \E id \in Ids, a \in Addrs :
    /\ Changing /\ kLinks[id] # Absent /\ a \notin kLinks[id].addrs
    /\ kLinks' = [kLinks EXCEPT ![id].addrs = @ \cup {a}]
    /\ Notify(<<AddrMsg("NEWADDR", id, a)>>)
    /\ UNCHANGED kRoutes

KernelDelsAddr == \E id \in Ids, a \in Addrs :
    /\ Changing /\ kLinks[id] # Absent /\ a \in kLinks[id].addrs
    /\ kLinks' = [kLinks EXCEPT ![id].addrs = @ \ {a}]
    /\ Notify(<<AddrMsg("DELADDR", id, a)>>)
    /\ UNCHANGED kRoutes

KernelAddsRoute == \E r \in Routes :
    /\ Changing /\ r \notin kRoutes
    /\ kRoutes' = kRoutes \cup {r}
    /\ Notify(<<RouteMsg("NEWROUTE", r)>>)
    /\ UNCHANGED kLinks

KernelDelsRoute == \E r \in Routes :
    /\ Changing /\ r \in kRoutes
    /\ kRoutes' = kRoutes \ {r}
    /\ Notify(<<RouteMsg("DELROUTE", r)>>)
    /\ UNCHANGED kLinks

\* A wireless event of a device, which may be gone by then.
WirelessEvent == \E id \in Ids, attr \in Attrs :
    /\ Changing
    /\ kLinks[id] # Absent => attr = kLinks[id].attr
    /\ Notify(<<NewLink(id, attr, TRUE)>>)
    /\ UNCHANGED <<kLinks, kRoutes>>

\* What of it is there.
Subjects(kind) ==
    CASE kind = "link"  -> {id \in Ids : kLinks[id] # Absent}
      [] kind = "addr"  -> {p \in Ids \X Addrs : /\ kLinks[p[1]] # Absent
                                                /\ p[2] \in kLinks[p[1]].addrs}
      [] kind = "route" -> kRoutes
      [] OTHER -> {}

Report(kind, x) ==
    CASE kind = "link"  -> NewLink(x, kLinks[x].attr, FALSE)
      [] kind = "addr"  -> AddrMsg("NEWADDR", x[1], x[2])
      [] kind = "route" -> RouteMsg("NEWROUTE", x)

\* A dump goes on as the socket has room.  It reports what is there when it
\* comes to it: todo is what it has not come to.
Enqueue(msg) == /\ Len(queue) < QueueCap
                /\ queue' = Append(queue, msg) /\ edge' = TRUE
                /\ UNCHANGED <<linksVars, routesVars, ownVars, kLinks, kRoutes, events,
                               overrun, refused, mixed, known, clash>>

DumpReports ==
    /\ dump # "none"
    /\ \E x \in todo \cap Subjects(dump) :
        /\ Enqueue(Report(dump, x))
        /\ todo' = todo \ {x}
    /\ UNCHANGED <<dump, lost>>

DumpEnds ==
    /\ dump # "none" /\ todo \cap Subjects(dump) = {}
    /\ Enqueue([type |-> "DONE"])
    /\ dump' = "none" /\ todo' = {}
    /\ UNCHANGED lost

\* The request is answered with NLMSG_ERROR instead of a dump.
DumpRejected ==
    /\ dump # "none" /\ todo = Universe(dump)
    /\ Enqueue([type |-> "ERROR"])
    /\ dump' = "none" /\ todo' = {}
    /\ lost' = TRUE

Kernel == \/ KernelAddsLink \/ KernelSetsLink \/ KernelRemovesLink
          \/ KernelAddsAddr \/ KernelDelsAddr
          \/ KernelAddsRoute \/ KernelDelsRoute \/ WirelessEvent
Dump == DumpReports \/ DumpEnds \/ DumpRejected

-----------------------------------------------------------------------------
(* The enumerator.                                                         *)

\* The constructor up to bind; any failure leaves it without a socket.
OpenSock ==
    /\ pc = "new" /\ pc' \in {"bound", "dead"}
    /\ UNCHANGED <<linksVars, routesVars, requested, kernelVars, sockVars, histVars>>

\* request(): sendmsg starts the dump, or fails and nothing is remembered.
Request(kind) ==
    \/ /\ requested' = requested \cup {kind}
       /\ dump' = kind /\ todo' = Universe(kind)
       /\ UNCHANGED refused
    \/ refused' = TRUE /\ UNCHANGED <<requested, dump, todo>>

\* Faulty variant of DoNextRequest: addresses are asked for first.
AddrsFirst ==
    \/ "addr" \notin requested /\ Request("addr")
    \/ "addr" \in requested /\ "link" \notin requested /\ Request("link")
    \/ {"addr", "link"} \subseteq requested /\ "route" \notin requested /\ Request("route")
    \/ requested = Dumps /\ UNCHANGED <<requested, dump, todo, refused>>

\* doNextRequest: links, then addresses, then routes.
DoNextRequest ==
    \/ "link" \notin requested /\ Request("link")
    \/ "link" \in requested /\ "addr" \notin requested /\ Request("addr")
    \/ {"link", "addr"} \subseteq requested /\ "route" \notin requested /\ Request("route")
    \/ requested = Dumps /\ UNCHANGED <<requested, dump, todo, refused>>

FirstRequest ==
    /\ pc = "bound" /\ pc' = "idle"
    /\ DoNextRequest
    /\ UNCHANGED <<linksVars, routesVars, kLinks, kRoutes, events, sockVars, lost,
                   mixed, known, clash>>

\* onSock is called with an error, which it takes off the socket, or to read.
SockError ==
    /\ pc = "idle" /\ edge /\ overrun
    /\ edge' = FALSE /\ overrun' = FALSE
    /\ UNCHANGED <<linksVars, routesVars, ownVars, kernelVars, queue, histVars>>

SockReady ==
    /\ pc = "idle" /\ edge /\ ~overrun
    /\ edge' = FALSE
    /\ pc' = IF queue = <<>> THEN "idle" ELSE "read"
    /\ UNCHANGED <<linksVars, routesVars, requested, kernelVars, queue, overrun, histVars>>

\* The next message is of one of the given types; what its handling leaves.
Receives(types) ==
    /\ pc = "read" /\ ~overrun /\ queue # <<>> /\ Head(queue).type \in types
    /\ queue' = Tail(queue)
    /\ UNCHANGED <<pc, kLinks, kRoutes, events, overrun, edge, lost>>

ReceivesReport(types) ==
    Receives(types) /\ UNCHANGED <<requested, dump, todo, refused>>

\* Faulty variant of RecvDone: the next dump is not asked for.
DoneStops ==
    /\ ReceivesReport({"DONE"})
    /\ UNCHANGED <<linksVars, routesVars, mixed, known, clash>>

RecvDone ==
    /\ Receives({"DONE"}) /\ DoNextRequest
    /\ UNCHANGED <<linksVars, routesVars, mixed, known, clash>>

\* Any other message, an error among them, is passed over: nothing is asked for.
RecvError ==
    /\ ReceivesReport({"ERROR"})
    /\ UNCHANGED <<linksVars, routesVars, mixed, known, clash>>

\* A wireless event of an absent link is ignored.
RecvNewLink ==
    /\ ReceivesReport({"NEWLINK"})
    /\ LET m == Head(queue) IN
        /\ \/ GetLink(m.id) # Absent /\ SetAttr(m.id, m.attr)
           \/ GetLink(m.id) = Absent /\ m.wireless /\ UNCHANGED linksVars
           \/ GetLink(m.id) = Absent /\ ~m.wireless /\ AllocLink(m.id, m.attr)
        /\ mixed' = IF m.id \in deleted THEN mixed \cup {m.id} ELSE mixed
    /\ UNCHANGED <<routesVars, known, clash>>

RecvDelLink ==
    /\ ReceivesReport({"DELLINK"})
    /\ LET m == Head(queue) IN
        /\ DelLink(m.id)
        /\ mixed' = IF added[m.id] # Absent THEN mixed \cup {m.id} ELSE mixed
    /\ UNCHANGED <<routesVars, known, clash>>

\* An address of a link that is not known is ignored.
RecvAddr ==
    /\ ReceivesReport({"NEWADDR", "DELADDR"})
    /\ LET m == Head(queue) IN
        \/ GetLink(m.id) = Absent /\ UNCHANGED linksVars
        \/ GetLink(m.id) # Absent /\ m.type = "NEWADDR" /\ AddAddr(m.id, m.addr)
        \/ GetLink(m.id) # Absent /\ m.type = "DELADDR" /\ DelAddr(m.id, m.addr)
    /\ UNCHANGED <<routesVars, mixed, known, clash>>

RecvNewRoute ==
    /\ ReceivesReport({"NEWROUTE"})
    /\ LET r == Head(queue).route IN
        /\ AddRoute(r)
        /\ known' = known \cup {r}
        /\ clash' = IF r \in known THEN clash \cup {r} ELSE clash
    /\ UNCHANGED <<linksVars, mixed>>

RecvDelRoute ==
    /\ ReceivesReport({"DELROUTE"})
    /\ LET r == Head(queue).route IN
        /\ DelRoute(r)
        /\ known' = known \ {r}
        /\ clash' = IF addedRoutes[r] > 0 THEN clash \cup {r} ELSE clash
    /\ UNCHANGED <<linksVars, mixed>>

\* recvmsg finds nothing, or reports the overrun; either ends the batch.
RecvEnds ==
    /\ pc = "read" /\ (overrun \/ queue = <<>>)
    /\ pc' = "idle" /\ overrun' = FALSE
    /\ FlushLinks /\ FlushRoutes
    /\ UNCHANGED <<requested, kernelVars, queue, edge, histVars>>

OnSock == \/ SockError \/ SockReady \/ RecvDone \/ RecvError \/ RecvNewLink
          \/ RecvDelLink \/ RecvAddr \/ RecvNewRoute \/ RecvDelRoute \/ RecvEnds

Next == OpenSock \/ FirstRequest \/ OnSock \/ Dump \/ Kernel

\* The event loop and the kernel's dumps go on; nothing has to change.
Fairness == WF_vars(OpenSock \/ FirstRequest) /\ WF_vars(OnSock) /\ WF_vars(Dump)

Spec == Init /\ [][Next]_vars
FairSpec == Spec /\ Fairness

-----------------------------------------------------------------------------
(* Properties.                                                             *)

\* Nothing is on its way and nothing was lost.
Quiet == /\ pc = "idle" /\ queue = <<>> /\ requested = Dumps /\ dump = "none"
         /\ ~lost /\ ~refused

\* In the end the links are the kernel's, with their attributes and addresses,
\* however notifications fall between the parts of the dumps.  It takes a link
\* that comes and goes (or goes and comes) within one batch to break this.
LinksConverge == Quiet => \A id \in Ids \ mixed :
    IF implementations[id] = Absent THEN kLinks[id] = Absent
    ELSE kLinks[id] = FactsOf(implementations[id])

\* No route of the kernel is missing in the end, whatever batches did, and one
\* reported once at a time is in the table once if it is the kernel's, and not at
\* all if not.  One deleted in the batch that added it stays, and one reported by
\* a notification and by the dump is there twice.
RoutesConverge == Quiet =>
    /\ \A r \in kRoutes : table[r] > 0
    /\ \A r \in Routes \ clash : table[r] = (IF r \in kRoutes THEN 1 ELSE 0)

\* Every change is signaled: a user who asks again at each linkAdded, changed,
\* removed and routeChanged knows what the host knows.
SignalsSuffice ==
    pc # "read" => /\ \A id \in Ids :
                       told[id] = IF implementations[id] = Absent THEN Absent
                                  ELSE FactsOf(implementations[id])
                   /\ interfaces = {id \in Ids : implementations[id] # Absent}
                   /\ toldRoutes = table

\* The assertions of allocatedLinkInitialized: a link enters once, though it is
\* reported by the dump and by notifications in one batch.
AllocatedOnce == \A id \in Ids : implementations[id] = Absent \/ added[id] = Absent

\* All three dumps are read to their end, unless a request fails, one is answered
\* with an error or the socket overruns.
EnumerationCompletes ==
    pc = "bound" ~> (requested = Dumps /\ dump = "none" /\ queue = <<>>) \/ refused \/ lost
=============================================================================
