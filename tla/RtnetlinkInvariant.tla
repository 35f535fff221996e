------------------------- MODULE RtnetlinkInvariant --------------------------
(***************************************************************************)
(* What holds at every step of Rtnetlink, while notifications, parts of    *)
(* dumps and batches are under way, and comes to its properties when       *)
(* nothing is.  In short: what the kernel has and what the enumerator      *)
(* knows differ only by what is still in the queue or still to be dumped.  *)
(***************************************************************************)
EXTENDS Rtnetlink

\* What the host will say of a link once the batch is flushed.
View(id) == IF id \in deleted \/ GetLink(id) = Absent THEN Absent ELSE FactsOf(GetLink(id))
Known(id) == View(id) # Absent

HasAddr(id, a) == kLinks[id] # Absent /\ a \in kLinks[id].addrs

\* A dump of x is to come.
Unreported(kind, x) == kind \notin requested \/ (dump = kind /\ x \in todo)

-----------------------------------------------------------------------------
(* Messages, by what they are about, and what a queue of them comes to.    *)

Dones         == {m \in Messages : m.type = "DONE"}
Ups(id)       == {m \in Messages : m.type = "NEWLINK" /\ m.id = id /\ ~m.wireless}
Downs(id)     == {m \in Messages : m.type = "DELLINK" /\ m.id = id}
OnLink(id)    == Ups(id) \cup Downs(id)
OnAttr(id)    == {m \in Messages : m.type = "NEWLINK" /\ m.id = id}
Gains(id, a)  == {m \in Messages : m.type = "NEWADDR" /\ m.id = id /\ m.addr = a}
Drops(id, a)  == {m \in Messages : m.type = "DELADDR" /\ m.id = id /\ m.addr = a}
OnAddr(id, a) == Gains(id, a) \cup Drops(id, a)
Enters(r)     == {m \in Messages : m.type = "NEWROUTE" /\ m.route = r}
Leaves(r)     == {m \in Messages : m.type = "DELROUTE" /\ m.route = r}
OnRoute(r)    == Enters(r) \cup Leaves(r)

Silent(q, about) == \A i \in 1 .. Len(q) : q[i] \notin about

Once(q, about) == \A i, j \in 1 .. Len(q) : q[i] \in about /\ q[j] \in about => i = j

\* The last message of q of those about something is one that says so.
SaysLast(q, about, so) ==
    \A i \in 1 .. Len(q) :
        q[i] \in about \ so => \E j \in i + 1 .. Len(q) : q[j] \in about \cap so

\* A link that is known now, or not, is known when the i-th message is read.
KnownAt(q, now, id, i) ==
    /\ \A j \in 1 .. i - 1 : q[j] \in Downs(id) => \E k \in j + 1 .. i - 1 : q[k] \in Ups(id)
    /\ now \/ \E k \in 1 .. i - 1 : q[k] \in Ups(id)

\* The queue brings an address to a link that is known by then, and takes it
\* from it no more.
Brings(q, now, id, a) ==
    \E i \in 1 .. Len(q) :
        /\ q[i] \in Gains(id, a) /\ KnownAt(q, now, id, i)
        /\ \A j \in i + 1 .. Len(q) : q[j] \notin Downs(id) \cup Drops(id, a)

-----------------------------------------------------------------------------
(* The enumerator by itself.                                               *)

\* Before its socket is bound, and if that fails, it knows nothing.
StartsEmpty ==
    /\ pc \in {"new", "dead"} =>
           /\ queue = <<>> /\ requested = {} /\ known = {}
           /\ \A id \in Ids : ~Known(id)
    /\ pc = "bound" => requested = {} /\ Silent(queue, Dones)
    /\ pc \notin {"idle", "read"} => dump = "none"

\* One dump at a time, in the order of doNextRequest: the next one is asked for
\* at the end of the one before.
OneDump ==
    /\ dump # "none" => Silent(queue, Dones) /\ dump \in requested
    /\ Once(queue, Dones)
    /\ "addr" \in requested => "link" \in requested
    /\ "route" \in requested => requested = Dumps
    /\ dump = "link" => "addr" \notin requested
    /\ dump = "addr" => "route" \notin requested

\* Nothing is pending outside a batch.
Flushed ==
    pc # "read" =>
        /\ deleted = {} /\ addedRoutes = None /\ deletedRoutes = None
        /\ \A id \in Ids : /\ added[id] = Absent
                           /\ implementations[id] # Absent => ~implementations[id].changed

\* A user has been told what is not marked as changed.
LinksTold ==
    /\ \A id \in Ids : told[id] = (IF implementations[id] = Absent THEN Absent
                                   ELSE FactsOf(implementations[id]))
                       \/ (implementations[id] # Absent /\ implementations[id].changed)
    /\ interfaces = {id \in Ids : implementations[id] # Absent}

ToldUnlessChanged == LinksTold /\ toldRoutes = table

\* A link does not enter in the batch it leaves in, but for those reported both
\* ways.
EntersOrLeaves == \A id \in deleted \ mixed : added[id] = Absent

\* What the table will hold after the batch of a route reported last as new.
RoutesCounted ==
    \A r \in Routes :
        /\ r \in known => Left(r) + addedRoutes[r] > 0
        /\ r \notin clash => Left(r) + addedRoutes[r] = (IF r \in known THEN 1 ELSE 0)

-----------------------------------------------------------------------------
(* The enumerator follows the kernel.                                      *)

RouteFollows(r) ==
    /\ SaysLast(queue, OnRoute(r), IF r \in kRoutes THEN Enters(r) ELSE Leaves(r))
    /\ Silent(queue, OnRoute(r)) =>
           /\ r \in known => r \in kRoutes
           /\ r \in kRoutes => r \in known \/ Unreported("route", r)

LinkFollows(id) ==
    /\ SaysLast(queue, OnLink(id), IF kLinks[id] = Absent THEN Downs(id) ELSE Ups(id))
    /\ Silent(queue, OnLink(id)) =>
           /\ Known(id) => kLinks[id] # Absent
           /\ kLinks[id] # Absent => Known(id) \/ Unreported("link", id)

AttrFollows(id) ==
    kLinks[id] # Absent =>
        /\ SaysLast(queue, OnAttr(id), {m \in OnAttr(id) : m.attr = kLinks[id].attr})
        /\ Silent(queue, OnAttr(id)) /\ Known(id) => View(id).attr = kLinks[id].attr

\* An address the kernel does not have will not be there.
AddrLeaves(id, a) ==
    /\ SaysLast(queue, OnAddr(id, a), IF HasAddr(id, a) THEN Gains(id, a) ELSE Drops(id, a))
    /\ Silent(queue, OnAddr(id, a)) /\ Known(id) /\ a \in View(id).addrs => HasAddr(id, a)

\* One that it has will be: a notification that comes before the link is known
\* is ignored, but then the dump of addresses is still to come.
AddrArrives(id, a) ==
    HasAddr(id, a) => \/ Unreported("addr", <<id, a>>)
                      \/ Brings(queue, Known(id), id, a)
                      \/ /\ Known(id) /\ a \in View(id).addrs
                         /\ Silent(queue, Downs(id) \cup Drops(id, a))

Follows ==
    ~lost => /\ \A r \in Routes : RouteFollows(r)
             /\ \A id \in Ids \ mixed :
                    /\ LinkFollows(id) /\ AttrFollows(id)
                    /\ \A a \in Addrs : AddrLeaves(id, a) /\ AddrArrives(id, a)

NInv == /\ TypeOK /\ AllocatedOnce
        /\ StartsEmpty /\ OneDump /\ Flushed /\ ToldUnlessChanged /\ EntersOrLeaves
        /\ RoutesCounted /\ Follows
=============================================================================
