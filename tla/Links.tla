------------------------------- MODULE Links --------------------------------
(***************************************************************************)
(* Links and Link: the network interfaces of the host, as its enumerator   *)
(* reports them and as users of the Host interface see them.               *)
(*                                                                         *)
(* Reports change a link at once (and mark it changed) but links enter and *)
(* leave the map only in flushChanges, at the end of a batch of reports.   *)
(* What a link says of itself is its attributes (hardware address, name,   *)
(* mtu and flags, as one value) and its addresses.                         *)
(***************************************************************************)
EXTENDS Integers

CONSTANTS Ids,     \* interface indices
          Attrs,   \* values of the attributes of a link
          Addrs,   \* addresses
          Absent   \* no link

ASSUME LinksAssumption ==
    Absent \notin [attr : Attrs, addrs : SUBSET Addrs]
                 \cup [attr : Attrs, addrs : SUBSET Addrs, changed : BOOLEAN]

VARIABLES
    implementations,  \* _implementations: the links users can get
    interfaces,       \* ids of _interfaces
    added, deleted,   \* _added, _deleted: pending until flushChanges
    told              \* what a user knows who asks again at every signal

linksVars == <<implementations, interfaces, added, deleted, told>>

Facts == [attr : Attrs, addrs : SUBSET Addrs]
LinkObjects == [attr : Attrs, addrs : SUBSET Addrs, changed : BOOLEAN]

LinksTypeOK ==
    /\ implementations \in [Ids -> LinkObjects \cup {Absent}]
    /\ interfaces \subseteq Ids
    /\ added \in [Ids -> LinkObjects \cup {Absent}]
    /\ deleted \subseteq Ids
    /\ told \in [Ids -> Facts \cup {Absent}]

LinksInit ==
    /\ implementations = [i \in Ids |-> Absent] /\ interfaces = {}
    /\ added = [i \in Ids |-> Absent] /\ deleted = {}
    /\ told = [i \in Ids |-> Absent]

FactsOf(link) == [attr |-> link.attr, addrs |-> link.addrs]

\* A setter marks the link only if it changes something.
Updated(link, attr, addrs) ==
    [attr |-> attr, addrs |-> addrs,
     changed |-> link.changed \/ link.attr # attr \/ link.addrs # addrs]

\* Faulty variant of GetLink: only the links of this batch are found.
GetPendingLink(id) == added[id]

GetLink(id) == IF implementations[id] # Absent THEN implementations[id] ELSE added[id]

\* The link getLink returns becomes `link`.
SetLink(id, link) ==
    IF implementations[id] # Absent
    THEN implementations' = [implementations EXCEPT ![id] = link] /\ UNCHANGED added
    ELSE added' = [added EXCEPT ![id] = link] /\ UNCHANGED implementations

\* Faulty variant of SetAttr: the link is not marked as changed.
SetAttrSilently(id, attr) ==
    /\ SetLink(id, [GetLink(id) EXCEPT !.attr = attr])
    /\ UNCHANGED <<interfaces, deleted, told>>

SetAttr(id, attr) ==
    /\ SetLink(id, Updated(GetLink(id), attr, GetLink(id).addrs))
    /\ UNCHANGED <<interfaces, deleted, told>>

\* addIp4, addIp6; delIp4, delIp6.
AddAddr(id, a) ==
    /\ SetLink(id, Updated(GetLink(id), GetLink(id).attr, GetLink(id).addrs \cup {a}))
    /\ UNCHANGED <<interfaces, deleted, told>>

DelAddr(id, a) ==
    /\ SetLink(id, Updated(GetLink(id), GetLink(id).attr, GetLink(id).addrs \ {a}))
    /\ UNCHANGED <<interfaces, deleted, told>>

\* allocLink, the setters and allocatedLinkInitialized.
AllocLink(id, attr) ==
    /\ added' = [added EXCEPT ![id] = [attr |-> attr, addrs |-> {}, changed |-> TRUE]]
    /\ UNCHANGED <<implementations, interfaces, deleted, told>>

DelLink(id) ==
    /\ deleted' = deleted \cup {id}
    /\ UNCHANGED <<implementations, interfaces, added, told>>

\* flushChanges: the deleted leave (removed), the added enter, every marked
\* link tells changed, and linkAdded tells of the added.
FlushLinks ==
    LET leaving == {i \in deleted : implementations[i] # Absent}
        entering == {i \in Ids : added[i] # Absent}
        left(i) == IF i \in leaving THEN Absent ELSE implementations[i]
        next(i) == IF i \in entering THEN added[i] ELSE left(i)
    IN  /\ implementations' = [i \in Ids |-> IF next(i) = Absent THEN Absent
                                             ELSE [next(i) EXCEPT !.changed = FALSE]]
        /\ interfaces' = (interfaces \ leaving) \cup entering
        /\ told' = [i \in Ids |-> CASE next(i) = Absent -> Absent
                                    [] next(i) # Absent /\ (next(i).changed \/ i \in entering)
                                         -> FactsOf(next(i))
                                    [] OTHER -> told[i]]
        /\ added' = [i \in Ids |-> Absent] /\ deleted' = {}
=============================================================================
